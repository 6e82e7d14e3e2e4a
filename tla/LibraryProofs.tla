---------------------------- MODULE LibraryProofs ----------------------------
(***************************************************************************)
(* Theorems about the functions of lib/ and libfree/ that call no other:   *)
(* the interface list, the echo, the timers, and addresses as text with    *)
(* the checksum.                                                           *)
(***************************************************************************)
EXTENDS IfiInfo, Echo, ConnectTimeo, Rtt, InetText, FiniteSetTheorems,
        FunctionTheorems, SequenceTheorems, WellFoundedInduction, TLAPS

-----------------------------------------------------------------------------
(***************************************************************************)
(* Induction over the numbers.  The least element of a set of numbers is   *)
(* the one that well-foundedness gives; a set that is closed under         *)
(* successor can have no least number outside.                             *)
(***************************************************************************)

(* A set of numbers that is not empty has a least one.                     *)
LEMMA LeastNumber ==
    ASSUME NEW T, T \subseteq Nat, T # {}
    PROVE  \E n \in T : \A m \in T : n <= m
  <1> DEFINE R == {ss \in Nat \X Nat : ss[1] < ss[2]}
  <1>1. IsWellFoundedOn(R, Nat)
    BY NatLessThanWellFounded DEF OpToRel
  <1>2. PICK n \in T : \A m \in T : ~(<<m, n>> \in R)
    <2> HIDE DEF R
    <2> QED
      BY <1>1, WFMin
  <1>3. ASSUME NEW m \in T
        PROVE  n <= m
    <2>1. SUFFICES ASSUME m < n
                   PROVE  FALSE
      BY <1>3
    <2>2. <<m, n>> \in Nat \X Nat /\ <<m, n>>[1] = m /\ <<m, n>>[2] = n
      BY <1>3
    <2>3. <<m, n>> \in R
      BY <2>1, <2>2
    <2> HIDE DEF R
    <2> QED
      BY <1>2, <2>3
  <1> QED
    BY <1>3

(* What holds of 0, and of n + 1 if it does of n, holds of every number.   *)
LEMMA Induction ==
    ASSUME NEW S, 0 \in S, \A n \in Nat : n \in S => n + 1 \in S
    PROVE  Nat \subseteq S
  <1> DEFINE T == {n \in Nat : n \notin S}
  <1>1. SUFFICES ASSUME T # {}
                 PROVE  FALSE
    OBVIOUS
  <1>2. PICK n \in T : \A m \in T : n <= m
    <2>1. T \subseteq Nat
      OBVIOUS
    <2> HIDE DEF T
    <2> QED
      BY <1>1, <2>1, LeastNumber
  <1>3. n # 0 /\ n \in Nat
    OBVIOUS
  <1>4. n - 1 \in Nat /\ n - 1 \notin T
    BY <1>2, <1>3
  <1>5. n - 1 \in S
    BY <1>4
  <1>6. (n - 1) + 1 \in S /\ (n - 1) + 1 = n
    BY <1>3, <1>4, <1>5
  <1> QED
    BY <1>6

(* A function that is defined from its value one before exists, and takes  *)
(* its values where its start and its step do.                             *)
Recursive(f, n, a, g) == f = [i \in 0 .. n |-> IF i = 0 THEN a ELSE g[<<i, f[i - 1]>>]]

LEMMA Recursion ==
    ASSUME NEW n \in Nat, NEW S, NEW a \in S, NEW g \in [(1 .. n) \X S -> S]
    PROVE  /\ \E f : Recursive(f, n, a, g)
           /\ \A f : Recursive(f, n, a, g) => f \in [0 .. n -> S]
  <1> DEFINE Exists == {k \in Nat : \E f : Recursive(f, k, a, g)}
  <1>1. 0 \in Exists
    <2>1. Recursive([i \in 0 .. 0 |-> a], 0, a, g)
      BY DEF Recursive
    <2> QED
      BY <2>1
  <1>2. ASSUME NEW k \in Nat, k \in Exists
        PROVE  k + 1 \in Exists
    <2>1. PICK f : Recursive(f, k, a, g)
      BY <1>2
    <2> DEFINE h == [i \in 0 .. k + 1 |-> IF i = k + 1 THEN g[<<i, f[k]>>] ELSE f[i]]
    <2>2. \A i \in 0 .. k : f[i] = IF i = 0 THEN a ELSE g[<<i, f[i - 1]>>]
      BY <2>1 DEF Recursive
    <2>3. ASSUME NEW i \in 0 .. k + 1
          PROVE  h[i] = IF i = 0 THEN a ELSE g[<<i, h[i - 1]>>]
      <3>1. CASE i = k + 1
        <4>1. h[i] = g[<<i, f[k]>>] /\ i # 0 /\ i - 1 = k
          BY <3>1
        <4>2. h[k] = f[k]
          BY <3>1
        <4> QED
          BY <4>1, <4>2
      <3>2. CASE i = 0
        <4>1. h[i] = f[i] /\ i \in 0 .. k
          BY <3>2
        <4> QED
          BY <2>2, <3>2, <4>1
      <3>3. CASE i \in 1 .. k
        <4>1. h[i] = f[i] /\ h[i - 1] = f[i - 1] /\ i \in 0 .. k /\ i # 0
          BY <3>3
        <4> QED
          BY <2>2, <4>1
      <3> QED
        BY <3>1, <3>2, <3>3
    <2>4. Recursive(h, k + 1, a, g)
      BY <2>3 DEF Recursive
    <2> QED
      BY <2>4
  <1>3. n \in Exists
    <2> HIDE DEF Exists
    <2>1. Nat \subseteq Exists
      BY <1>1, <1>2, Induction
    <2> QED
      BY <2>1
  <1>4. ASSUME NEW f, Recursive(f, n, a, g)
        PROVE  f \in [0 .. n -> S]
    <2>1. \A i \in 0 .. n : f[i] = IF i = 0 THEN a ELSE g[<<i, f[i - 1]>>]
      BY <1>4 DEF Recursive
    <2>2. /\ f[0] = a
          /\ \A k \in Nat : k + 1 <= n => f[k + 1] = g[<<k + 1, f[k]>>]
      <3>1. 0 \in 0 .. n
        OBVIOUS
      <3>2. ASSUME NEW k \in Nat, k + 1 <= n
            PROVE  f[k + 1] = g[<<k + 1, f[k]>>]
        <4>1. k + 1 \in 0 .. n /\ k + 1 # 0 /\ (k + 1) - 1 = k
          BY <3>2
        <4> QED
          BY <2>1, <4>1
      <3> QED
        BY <2>1, <3>1, <3>2
    <2> DEFINE Typed == {k \in Nat : k <= n => f[k] \in S}
    <2>3. 0 \in Typed
      BY <2>2
    <2>4. ASSUME NEW k \in Nat, k \in Typed
          PROVE  k + 1 \in Typed
      <3>1. SUFFICES ASSUME k + 1 <= n
                     PROVE  f[k + 1] \in S
        OBVIOUS
      <3>2. f[k + 1] = g[<<k + 1, f[k]>>]
        BY <2>2, <3>1
      <3>3. <<k + 1, f[k]>> \in (1 .. n) \X S
        BY <2>4, <3>1
      <3> QED
        BY <3>2, <3>3
    <2>5. Nat \subseteq Typed
      <3> HIDE DEF Typed
      <3> QED
        BY <2>3, <2>4, Induction
    <2>6. \A i \in 0 .. n : f[i] \in S
      BY <2>5
    <2>7. f = [i \in 0 .. n |-> f[i]]
      <3>1. f = [i \in 0 .. n |-> IF i = 0 THEN a ELSE g[<<i, f[i - 1]>>]]
        BY <1>4 DEF Recursive
      <3> QED
        BY <2>1, <3>1
    <2> QED
      BY <2>6, <2>7
  <1> QED
    BY <1>3, <1>4

(* The same for functions that begin at another number.                    *)
StepsIn(g, m, n, S) == \A i \in m + 1 .. n, s \in S : g[<<i, s>>] \in S

RecursiveFrom(f, m, n, S, a, g) ==
    f \in [m .. n -> S] /\ f[m] = a /\ \A i \in m + 1 .. n : f[i] = g[<<i, f[i - 1]>>]

LEMMA RecursionFrom ==
    ASSUME NEW m \in Nat, NEW n \in Nat, m <= n, NEW S, NEW a \in S, NEW g, StepsIn(g, m, n, S)
    PROVE  \E f : RecursiveFrom(f, m, n, S, a, g)
  <1> DEFINE K == n - m
             shifted == [x \in (1 .. K) \X S |-> g[<<m + x[1], x[2]>>]]
  <1>1. K \in Nat /\ \A i \in 1 .. K : m + i \in m + 1 .. n
    OBVIOUS
  <1>3. shifted \in [(1 .. K) \X S -> S]
    <2>1. \A i \in 1 .. K, s \in S : g[<<m + i, s>>] \in S
      BY <1>1 DEF StepsIn
    <2> HIDE DEF K
    <2> QED
      BY <2>1
  <1>4. PICK h : Recursive(h, K, a, shifted) /\ h \in [0 .. K -> S]
    <2> HIDE DEF K, shifted
    <2> QED
      BY <1>1, <1>3, Recursion
  <1>5. \A i \in 0 .. K : h[i] = IF i = 0 THEN a ELSE shifted[<<i, h[i - 1]>>]
    BY <1>4 DEF Recursive
  <1> DEFINE f == [i \in m .. n |-> h[i - m]]
  <1>6. \A i \in m .. n : i - m \in 0 .. K
    OBVIOUS
  <1>7. f \in [m .. n -> S]
    BY <1>4, <1>6
  <1>8. f[m] = a
    <2>1. m \in m .. n /\ m - m = 0 /\ 0 \in 0 .. K
      OBVIOUS
    <2> QED
      BY <1>5, <2>1
  <1>9. ASSUME NEW i \in m + 1 .. n
        PROVE  f[i] = g[<<i, f[i - 1]>>]
    <2>1. /\ i \in m .. n /\ i - 1 \in m .. n /\ i - m \in 0 .. K /\ i - m \in 1 .. K
          /\ i - m # 0 /\ i - m - 1 = i - 1 - m /\ i - 1 - m \in 0 .. K /\ m + (i - m) = i
      OBVIOUS
    <2>2. f[i] = h[i - m] /\ f[i - 1] = h[i - 1 - m] /\ h[i - 1 - m] \in S
      BY <1>4, <2>1
    <2>3. h[i - m] = shifted[<<i - m, h[i - 1 - m]>>]
      BY <1>5, <2>1
    <2>4. shifted[<<i - m, h[i - 1 - m]>>] = g[<<m + (i - m), h[i - 1 - m]>>]
      <3>1. <<i - m, h[i - 1 - m]>> \in (1 .. K) \X S
        BY <2>1, <2>2
      <3> HIDE DEF K
      <3> QED
        BY <3>1
    <2> HIDE DEF f, shifted
    <2> QED
      BY <2>1, <2>2, <2>3, <2>4
  <1> HIDE DEF f
  <1>10. RecursiveFrom(f, m, n, S, a, g)
    BY <1>7, <1>8, <1>9 DEF RecursiveFrom
  <1> QED
    BY <1>10

(* The values of a function stay in a set that the first one is in and     *)
(* that each step stays in.                                                *)
LEMMA StaysIn ==
    ASSUME NEW m \in Nat, NEW n \in Nat, NEW S, NEW f, f[m] \in S,
           \A i \in m + 1 .. n : f[i - 1] \in S => f[i] \in S
    PROVE  \A i \in m .. n : f[i] \in S
  <1> DEFINE T == {k \in Nat : m + k <= n => f[m + k] \in S}
  <1>1. 0 \in T
    BY m + 0 = m
  <1>2. ASSUME NEW k \in Nat, k \in T
        PROVE  k + 1 \in T
    <2>1. SUFFICES ASSUME m + (k + 1) <= n
                   PROVE  f[m + (k + 1)] \in S
      OBVIOUS
    <2>2. m + (k + 1) \in m + 1 .. n /\ m + (k + 1) - 1 = m + k /\ m + k <= n
      BY <2>1
    <2> QED
      BY <1>2, <2>2
  <1>3. Nat \subseteq T
    <2> HIDE DEF T
    <2> QED
      BY <1>1, <1>2, Induction
  <1>4. ASSUME NEW i \in m .. n
        PROVE  f[i] \in S
    <2>1. i - m \in Nat /\ m + (i - m) = i /\ m + (i - m) <= n
      OBVIOUS
    <2>2. i - m \in T
      BY <1>3, <2>1
    <2> QED
      BY <2>1, <2>2
  <1> QED
    BY <1>4

(* What is put together from texts is a text.                              *)
Flattens(f, s) ==
    f = [i \in 1 .. Len(s) |-> IF i = 1 THEN s[i] ELSE f[i - 1] \o s[i]]

LEMMA FlattenExists ==
    ASSUME NEW S, NEW s \in Seq(Seq(S)), s # <<>>
    PROVE  \E f : Flattens(f, s)
  <1> DEFINE n == Len(s)
             R == Seq(S)
             g == [x \in (1 + 1 .. n) \X R |-> x[2] \o s[x[1]]]
  <1>1. n \in Nat /\ 1 <= n /\ n # 0 /\ \A i \in 1 .. n : s[i] \in R
    BY EmptySeq, LenProperties
  <1>2. \A t, u \in R : t \o u \in R
    BY ConcatProperties
  <1>3. g \in [(1 + 1 .. n) \X R -> R]
    <2> HIDE DEF R, n
    <2>1. \A x \in (1 + 1 .. n) \X R : x[2] \in R /\ s[x[1]] \in R
      BY <1>1
    <2>2. \A x \in (1 + 1 .. n) \X R : x[2] \o s[x[1]] \in R
      BY <1>2, <2>1
    <2> QED
      BY <2>2
  <1>4. PICK f \in [1 .. n -> R] :
            f[1] = s[1] /\ \A i \in 1 + 1 .. n : f[i] = g[<<i, f[i - 1]>>]
    <2>1. PICK a \in R : a = s[1]
      BY <1>1
    <2>2. StepsIn(g, 1, n, R)
      <3> HIDE DEF n, R, g
      <3>1. \A x \in (1 + 1 .. n) \X R : g[x] \in R
        BY <1>3
      <3> QED
        BY <3>1 DEF StepsIn
    <2>3. \E f : RecursiveFrom(f, 1, n, R, a, g)
      <3> HIDE DEF R, n, g
      <3> QED
        BY <1>1, <2>1, <2>2, RecursionFrom
    <2> HIDE DEF R, n, g
    <2> QED
      BY <2>1, <2>3 DEF RecursiveFrom
  <1>5. \A i \in 1 .. n : f[i] = IF i = 1 THEN s[i] ELSE f[i - 1] \o s[i]
    <2> SUFFICES ASSUME NEW i \in 1 .. n, i # 1
                 PROVE  f[i] = f[i - 1] \o s[i]
      BY <1>4
    <2>1. i \in 1 + 1 .. n /\ i - 1 \in 1 .. n
      BY <1>1
    <2>2. <<i, f[i - 1]>> \in (1 + 1 .. n) \X R
      BY <1>4, <2>1
    <2> HIDE DEF R, n
    <2> QED
      BY <1>4, <2>1, <2>2
  <1>6. \E h : Flattens(h, s)
    <2>1. f = [i \in 1 .. n |-> f[i]]
      <3> HIDE DEF R
      <3> QED
        BY <1>4
    <2>2. [i \in 1 .. n |-> f[i]] = [i \in 1 .. n |-> IF i = 1 THEN s[i] ELSE f[i - 1] \o s[i]]
      BY <1>5, Zenon
    <2> QED
      BY <2>1, <2>2, Zenon DEF Flattens
  <1> QED
    BY <1>6

LEMMA FlattenTyped ==
    ASSUME NEW S, NEW s \in Seq(Seq(S)), s # <<>>
    PROVE  FlattenSeq(s) \in Seq(S)
  <1> DEFINE n == Len(s)
             R == Seq(S)
  <1>1. n \in Nat /\ 1 <= n /\ n # 0 /\ \A i \in 1 .. n : s[i] \in R
    BY EmptySeq, LenProperties
  <1>2. \A t, u \in R : t \o u \in R
    BY ConcatProperties
  <1> DEFINE h == CHOOSE k : Flattens(k, s)
  <1>7. Flattens(h, s)
    BY FlattenExists, Zenon
  <1>8. FlattenSeq(s) = h[n]
    BY <1>1, Zenon DEF FlattenSeq, Flattens
  <1>9. \A i \in 1 .. n : h[i] \in R
    <2> HIDE DEF h
    <2>1. \A i \in 1 .. n : h[i] = IF i = 1 THEN s[i] ELSE h[i - 1] \o s[i]
      BY <1>7, Zenon DEF Flattens
    <2>2. h[1] \in R
      BY <1>1, <2>1
    <2>3. \A i \in 1 + 1 .. n : h[i - 1] \in R => h[i] \in R
      <3> HIDE DEF R
      <3>1. \A i \in 1 + 1 .. n : i \in 1 .. n /\ i # 1
        BY <1>1
      <3> QED
        BY <1>1, <1>2, <2>1, <3>1
    <2> HIDE DEF R, n
    <2> QED
      BY <1>1, <2>2, <2>3, StaysIn
  <1> HIDE DEF h
  <1> QED
    BY <1>1, <1>8, <1>9

(* It is no longer than bounds that grow with each piece.                  *)
LEMMA FlattenLength ==
    ASSUME NEW S, NEW s \in Seq(Seq(S)), s # <<>>, NEW bound \in [1 .. Len(s) -> Nat],
           Len(s[1]) <= bound[1],
           \A i \in 2 .. Len(s) : bound[i - 1] + Len(s[i]) <= bound[i]
    PROVE  Len(FlattenSeq(s)) <= bound[Len(s)]
  <1> DEFINE n == Len(s)
             R == Seq(S)
             h == CHOOSE k : Flattens(k, s)
  <1>1. n \in Nat /\ 1 <= n /\ n # 0 /\ \A i \in 1 .. n : s[i] \in R
    BY EmptySeq, LenProperties
  <1>2. Flattens(h, s)
    BY FlattenExists, Zenon
  <1>3. FlattenSeq(s) = h[n]
    BY <1>1, Zenon DEF FlattenSeq, Flattens
  <1> HIDE DEF h
  <1>4. \A i \in 1 .. n : h[i] = IF i = 1 THEN s[i] ELSE h[i - 1] \o s[i]
    BY <1>2, Zenon DEF Flattens
  <1>5. h[1] \in R /\ Len(h[1]) <= bound[1]
    BY <1>1, <1>4
  <1>6. ASSUME NEW k \in Nat, 1 <= k, k + 1 <= n, h[k] \in R, Len(h[k]) <= bound[k]
        PROVE  h[k + 1] \in R /\ Len(h[k + 1]) <= bound[k + 1]
    <2>1. k \in 1 .. n /\ k + 1 \in 1 .. n /\ k + 1 # 1 /\ (k + 1) - 1 = k /\ k + 1 \in 2 .. n
      BY <1>1, <1>6
    <2>2. h[k + 1] = h[k] \o s[k + 1]
      BY <1>4, <2>1
    <2>3. PICK t, u : t = h[k] /\ u = s[k + 1]
      OBVIOUS
    <2>4. t \in R /\ Len(t) <= bound[k] /\ u \in R
      BY <1>1, <1>6, <2>1, <2>3
    <2>5. t \o u \in R /\ Len(t \o u) = Len(t) + Len(u)
      BY <2>4, ConcatProperties
    <2>6. Len(t) \in Nat /\ Len(u) \in Nat
      BY <2>4, LenProperties
    <2>7. bound[k] + Len(u) <= bound[k + 1]
      BY <2>1, <2>3
    <2>8. bound[k] \in Nat /\ bound[k + 1] \in Nat
      BY <2>1
    <2>9. Len(t \o u) <= bound[k + 1]
      <3>1. PICK c, e : c = bound[k] /\ e = bound[k + 1]
        OBVIOUS
      <3>2. PICK x, y : x = Len(t) /\ y = Len(u)
        OBVIOUS
      <3>3. c \in Nat /\ e \in Nat /\ x \in Nat /\ y \in Nat /\ x <= c /\ c + y <= e
        BY <2>4, <2>6, <2>7, <2>8, <3>1, <3>2
      <3>4. x + y <= e
        BY <3>3
      <3> QED
        BY <2>5, <3>1, <3>2, <3>4
    <2> QED
      BY <2>2, <2>3, <2>5, <2>9
  <1> DEFINE Short == {i \in Nat : 1 <= i /\ i <= n => h[i] \in R /\ Len(h[i]) <= bound[i]}
  <1>7. 0 \in Short
    OBVIOUS
  <1>8. ASSUME NEW k \in Nat, k \in Short
        PROVE  k + 1 \in Short
    <2> SUFFICES ASSUME k + 1 <= n
                 PROVE  h[k + 1] \in R /\ Len(h[k + 1]) <= bound[k + 1]
      OBVIOUS
    <2>1. CASE k = 0
      BY <1>5, <2>1
    <2>2. CASE k # 0
      <3>1. 1 <= k /\ k <= n
        BY <1>1, <2>2
      <3>2. h[k] \in R /\ Len(h[k]) <= bound[k]
        BY <1>8, <3>1
      <3> HIDE DEF n, R
      <3> QED
        BY <1>6, <3>1, <3>2
    <2> QED
      BY <2>1, <2>2
  <1>9. Nat \subseteq Short
    <2> HIDE DEF Short
    <2> QED
      BY <1>7, <1>8, Induction
  <1> QED
    <2>1. h[n] \in R /\ Len(h[n]) <= bound[n]
      BY <1>1, <1>9
    <2> QED
      BY <1>3, <2>1

-----------------------------------------------------------------------------
(* The interface list.                                                     *)

IfReq == [name : STRING \ {NoName}, suffix : Nat]

IfiTyped ==
    /\ IfiTypeOK
    /\ buf_ifc \in Seq(IfReq) /\ ifihead \in Seq([entry : IfReq, alias : BOOLEAN])

(* The walk has met this entry and is past it, and its family is asked for.*)
Passed(k) == k \in Met /\ ifreq * (k - 1) < ptr /\ family = "AF_INET"

(* Every name that is not in notUp is up, and has been all the time.       *)
IfiFlags ==
    ipc \in {"SIOCGIFCONF", "walk"} =>
        table \in Tables /\ up \subseteq NamesOf(table) /\ AllNames \ up \subseteq notUp

(* The answer kept is one the kernel gave at one time, and a whole one,    *)
(* shorter than the buffer; and where in it the walk may be.               *)
IfiAnswer ==
    /\ ~missing
    /\ ipc \in {"caller", "SIOCGIFCONF"} => buf_ifc = <<>> /\ lastname = NoName
    /\ ipc \in {"caller", "SIOCGIFCONF"} => ptr = 0
    /\ ipc = "caller" => lastlen = 0
    /\ ipc = "SIOCGIFCONF" => lastlen < len
    /\ ipc = "walk" => Len(buf_ifc) < len
    /\ ipc = "returned" => ptr >= End
    /\ ptr % (IFNAMSIZ + sockaddr) = 0 \/ ptr >= End
    /\ \E t \in Tables \union {<<>>} :
          Len(buf_ifc) <= Len(t) /\ \A k \in DOMAIN buf_ifc : buf_ifc[k] = t[k]

(* lastname is the name of the address met last.                           *)
IfiLast ==
    ipc = "walk" =>
        /\ lastname # NoName =>
              \E i \in DOMAIN buf_ifc : Passed(i) /\ buf_ifc[i].name = lastname
        /\ \A i \in DOMAIN buf_ifc : Passed(i) =>
              \E j \in DOMAIN buf_ifc : i <= j /\ Passed(j) /\ buf_ifc[j].name = lastname

HasEntry(e) == \E k \in DOMAIN ifihead : ifihead[k].entry = e

(* The first address met of the interface at place i is in the list.       *)
FirstListed(i) ==
    \E j \in DOMAIN buf_ifc :
        /\ Passed(j) /\ buf_ifc[j].name = buf_ifc[i].name /\ HasEntry(buf_ifc[j])
        /\ \A m \in DOMAIN buf_ifc : Passed(m) /\ buf_ifc[m].name = buf_ifc[i].name => j <= m

(* The list made so far.                                                   *)
IfiMade ==
    /\ \A k \in DOMAIN ifihead : \E i \in DOMAIN buf_ifc : Passed(i) /\ ifihead[k].entry = buf_ifc[i]
    /\ \A j, k \in DOMAIN ifihead :
          ifihead[j].entry.name = ifihead[k].entry.name /\ ~ifihead[j].alias /\ ~ifihead[k].alias
            => j = k
    /\ \A i \in DOMAIN buf_ifc : Passed(i) /\ buf_ifc[i].name \notin notUp =>
          IF doaliases THEN HasEntry(buf_ifc[i]) ELSE FirstListed(i)

IfiInv == IfiTyped /\ IfiFlags /\ IfiAnswer /\ IfiLast /\ IfiMade

(* IfiInv holds before the first call.                                     *)
LEMMA IfiInitInv == IfiInit => IfiInv
  <1> SUFFICES ASSUME IfiInit PROVE IfiInv
    OBVIOUS
  <1>1. buf_ifc = <<>> /\ ifihead = <<>> /\ DOMAIN buf_ifc = {} /\ DOMAIN ifihead = {}
    BY DEF IfiInit
  <1>2. IfiTyped
    <2>1. buf_ifc \in Seq(IfReq) /\ ifihead \in Seq([entry : IfReq, alias : BOOLEAN])
      BY <1>1
    <2>2. truncates \in BOOLEAN /\ doaliases \in BOOLEAN /\ missing \in BOOLEAN
      BY Zenon DEF IfiInit
    <2>3. len \in Nat /\ lastlen \in 0 .. len /\ changes \in 0 .. MaxChanges
      BY IncrementAssumption DEF IfiInit
    <2>4. Len(buf_ifc) = 0 /\ Len(ifihead) = 0
      BY <1>1
    <2>5. /\ Len(buf_ifc) <= len /\ ptr \in 0 .. End + ifreq
          /\ (IFNAMSIZ + sockaddr) * Len(ifihead) <= ptr
      BY <2>3, <2>4 DEF IfiInit, End, ifreq, IFNAMSIZ, sockaddr
    <2>6. /\ ipc \in {"caller", "SIOCGIFCONF", "walk", "returned", "ended"}
          /\ family \in {"AF_INET", "AF_INET6", NoName}
          /\ table \in Tables \union {<<>>} /\ up \subseteq AllNames /\ notUp \subseteq AllNames
      BY DEF IfiInit
    <2> QED
      BY <2>1, <2>2, <2>3, <2>5, <2>6 DEF IfiTyped, IfiTypeOK
  <1>3. IfiFlags
    BY DEF IfiInit, IfiFlags
  <1>4. IfiAnswer
    <2>1. Len(buf_ifc) <= Len(<<>>) /\ End = 0
      BY <1>1 DEF End, ifreq
    <2>2. ptr >= End
      BY <2>1 DEF IfiInit
    <2> QED
      BY <1>1, <2>1, <2>2 DEF IfiInit, IfiAnswer
  <1>5. IfiLast
    BY DEF IfiInit, IfiLast
  <1>6. IfiMade
    BY <1>1 DEF IfiMade
  <1> QED
    BY <1>2, <1>3, <1>4, <1>5, <1>6 DEF IfiInv

(* What the kernel may answer has the type of the list, and known names.   *)
LEMMA NamesTyped ==
    ASSUME NEW t \in Tables
    PROVE  t \in Seq(IfReq) /\ NamesOf(t) \subseteq AllNames
  <1>1. t \in Seq(IfReq)
    BY InterfacesAssumption DEF IfReq
  <1>2. NamesOf(t) \subseteq AllNames
    BY DEF AllNames
  <1> QED
    BY <1>1, <1>2

(* Before the walk nothing is listed.                                      *)
LEMMA NothingListed ==
    ASSUME IfiTyped, ptr = 0
    PROVE  ifihead = <<>> /\ DOMAIN ifihead = {} /\ Len(ifihead) = 0
  <1>1. ifihead \in Seq([entry : IfReq, alias : BOOLEAN])
    BY DEF IfiTyped
  <1>2. Len(ifihead) \in Nat
    BY <1>1
  <1>3. Len(ifihead) = 0
    BY <1>2 DEF IfiTyped, IfiTypeOK, IFNAMSIZ, sockaddr
  <1> QED
    BY <1>1, <1>3

(* The call begins.                                                        *)
LEMMA CallIfiInv == IfiInv /\ get_ifi_info => IfiInv'
  <1> SUFFICES ASSUME IfiInv, get_ifi_info PROVE IfiInv'
    OBVIOUS
  <1>1. /\ ipc = "caller" /\ ipc' = "SIOCGIFCONF" /\ len' = INITIAL /\ table' \in Tables
        /\ up' \in SUBSET NamesOf(table') /\ notUp' = AllNames \ up'
        /\ family' \in {"AF_INET", "AF_INET6"} /\ doaliases' \in BOOLEAN /\ truncates' \in BOOLEAN
        /\ UNCHANGED <<lastlen, buf_ifc, ptr, lastname, ifihead, changes, missing>>
    BY DEF get_ifi_info
  <1>2. IfiTyped /\ buf_ifc = <<>> /\ lastname = NoName /\ ~missing /\ lastlen = 0
    BY <1>1 DEF IfiInv, IfiAnswer
  <1>3. DOMAIN buf_ifc = {} /\ Len(buf_ifc) = 0
    BY <1>2
  <1>4. ptr = 0 /\ ifihead = <<>> /\ DOMAIN ifihead = {} /\ Len(ifihead) = 0
    BY <1>1, <1>2, NothingListed DEF IfiInv, IfiAnswer
  <1>5. IfiTyped'
    <2>1. up' \subseteq AllNames /\ notUp' \subseteq AllNames
      BY <1>1, NamesTyped
    <2>2. len' \in Nat /\ lastlen' \in 0 .. len' /\ Len(buf_ifc') <= len'
      BY <1>1, <1>2, <1>3, IncrementAssumption
    <2>3. ptr' \in 0 .. End' + ifreq /\ (IFNAMSIZ + sockaddr) * Len(ifihead') <= ptr'
      BY <1>1, <1>3, <1>4 DEF End, ifreq, IFNAMSIZ, sockaddr
    <2>5. /\ truncates' \in BOOLEAN /\ doaliases' \in BOOLEAN /\ missing' \in BOOLEAN
          /\ table' \in Tables \union {<<>>} /\ changes' \in 0 .. MaxChanges
          /\ buf_ifc' \in Seq(IfReq) /\ ifihead' \in Seq([entry : IfReq, alias : BOOLEAN])
      BY <1>1, <1>2, Zenon DEF IfiTyped, IfiTypeOK
    <2> QED
      BY <1>1, <2>1, <2>2, <2>3, <2>5 DEF IfiTyped, IfiTypeOK
  <1>6. IfiFlags'
    BY <1>1 DEF IfiFlags
  <1>7. IfiAnswer'
    <2>1. lastlen' < len'
      BY <1>1, <1>2, IncrementAssumption
    <2>2. Len(buf_ifc') <= Len(<<>>) /\ DOMAIN buf_ifc' = {} /\ ptr' = 0 /\ ptr' >= End'
      BY <1>1, <1>3, <1>4 DEF End, ifreq
    <2> QED
      BY <1>1, <1>2, <2>1, <2>2 DEF IfiAnswer
  <1>8. IfiLast'
    BY <1>1 DEF IfiLast
  <1>9. IfiMade'
    BY <1>1, <1>3, <1>4 DEF IfiMade
  <1> QED
    BY <1>5, <1>6, <1>7, <1>8, <1>9 DEF IfiInv

(* The list is freed: all is as it was at the beginning.                   *)
LEMMA FreeIfiInv == IfiInv /\ free_ifi_info => IfiInv'
  <1> SUFFICES ASSUME free_ifi_info PROVE IfiInv'
    OBVIOUS
  <1>1. IfiInit'
    BY Zenon DEF free_ifi_info, IfiInit
  <1>2. IfiInit' => IfiInv'
    BY IfiInitInv, PTL
  <1> QED
    BY <1>1, <1>2

(* The kernel's interfaces change: only fewer names have been up always.   *)
LEMMA KernelIfiInv == IfiInv /\ KernelChanges => IfiInv'
  <1> SUFFICES ASSUME IfiInv, KernelChanges PROVE IfiInv'
    OBVIOUS
  <1>1. /\ ipc \in {"SIOCGIFCONF", "walk"} /\ changes < MaxChanges /\ changes' = changes + 1
        /\ table' \in Tables /\ up' \in SUBSET NamesOf(table')
        /\ notUp' = notUp \union (AllNames \ up')
        /\ UNCHANGED <<ipc, family, doaliases, truncates, len, lastlen, buf_ifc, ptr, lastname,
                       ifihead, missing>>
    BY DEF KernelChanges
  <1>2. IfiTyped /\ IfiAnswer /\ IfiLast /\ IfiMade
    BY DEF IfiInv
  <1>3. IfiTyped'
    <2>1. up' \subseteq AllNames /\ notUp' \subseteq AllNames
      BY <1>1, <1>2, NamesTyped DEF IfiTyped, IfiTypeOK
    <2>2. changes' \in 0 .. MaxChanges
      BY <1>1, <1>2, IncrementAssumption DEF IfiTyped, IfiTypeOK
    <2> QED
      BY <1>1, <1>2, <2>1, <2>2, Zenon DEF IfiTyped, IfiTypeOK, End
  <1>4. IfiFlags'
    BY <1>1 DEF IfiFlags
  <1>5. IfiAnswer'
    BY <1>1, <1>2 DEF IfiAnswer, End
  <1>6. IfiLast'
    BY <1>1, <1>2 DEF IfiLast, Passed, Met
  <1>7. IfiMade'
    <2>1. \A i : Passed(i)' = Passed(i) /\ HasEntry(i)' = HasEntry(i) /\ FirstListed(i)' = FirstListed(i)
      BY <1>1 DEF Passed, Met, HasEntry, FirstListed
    <2>2. notUp \subseteq notUp'
      BY <1>1
    <2>3. \A i : HasEntry(buf_ifc[i])' = HasEntry(buf_ifc[i])
      BY <1>1 DEF HasEntry
    <2> QED
      BY <1>1, <1>2, <2>1, <2>2, <2>3, Zenon DEF IfiMade
  <1> QED
    BY <1>3, <1>4, <1>5, <1>6, <1>7 DEF IfiInv

(* One round of the first loop.  The buffer has grown since the last       *)
(* answer, so an answer of the same length was not cut off.                *)
LEMMA AskIfiInv == IfiInv /\ SIOCGIFCONF => IfiInv'
  <1> SUFFICES ASSUME IfiInv, SIOCGIFCONF PROVE IfiInv'
    OBVIOUS
  <1> DEFINE n == IF Len(table) <= len THEN Len(table) ELSE len
  <1>1. /\ ipc = "SIOCGIFCONF"
        /\ UNCHANGED <<family, doaliases, table, up, truncates, ptr, lastname, ifihead,
                       changes, notUp>>
    BY DEF SIOCGIFCONF
  <1>2. /\ IfiTyped /\ buf_ifc = <<>> /\ lastname = NoName /\ ~missing /\ lastlen < len
        /\ table \in Tables /\ up \subseteq NamesOf(table) /\ AllNames \ up \subseteq notUp
    BY <1>1 DEF IfiInv, IfiAnswer, IfiFlags
  <1>3. /\ len \in Nat /\ lastlen \in Nat /\ table \in Seq(IfReq) /\ Len(table) \in Nat
        /\ DOMAIN buf_ifc = {} /\ Len(buf_ifc) = 0
    <2>1. table \in Seq(IfReq)
      BY <1>2, NamesTyped
    <2> QED
      BY <1>2, <2>1 DEF IfiTyped, IfiTypeOK
  <1>4. ptr = 0 /\ ifihead = <<>> /\ DOMAIN ifihead = {} /\ Len(ifihead) = 0
    BY <1>1, <1>2, NothingListed DEF IfiInv, IfiAnswer
  <1>5. n \in Nat /\ n <= len /\ n <= Len(table)
    BY <1>3
  <1>6. \/ /\ ipc' \in {"SIOCGIFCONF", "ended"} /\ UNCHANGED <<buf_ifc, missing>>
           /\ len' \in Nat /\ lastlen' \in Nat /\ lastlen' < len'
        \/ /\ ipc' = "walk" /\ n = lastlen /\ buf_ifc' = SubSeq(table, 1, n)
           /\ missing' = (n < Len(table)) /\ UNCHANGED <<len, lastlen>>
    <2>1. CASE Len(table) > len /\ ~truncates
      <3>1. /\ UNCHANGED <<lastlen, buf_ifc, missing>>
            /\ \/ ipc' = "ended" /\ len' = len
               \/ len' = len + INCREMENT /\ ipc' = ipc
        BY <2>1 DEF SIOCGIFCONF
      <3> QED
        BY <1>1, <1>2, <1>3, <3>1, IncrementAssumption
    <2>2. CASE ~(Len(table) > len /\ ~truncates)
      <3>1. \/ /\ ipc' = "walk" /\ n = lastlen /\ buf_ifc' = SubSeq(table, 1, n)
               /\ missing' = (n < Len(table)) /\ UNCHANGED <<len, lastlen>>
            \/ lastlen' = n /\ len' = len + INCREMENT /\ UNCHANGED <<ipc, buf_ifc, missing>>
        BY <2>2 DEF SIOCGIFCONF, Settled
      <3> QED
        BY <1>1, <1>3, <1>5, <3>1, IncrementAssumption
    <2> QED
      BY <2>1, <2>2
  <1>7. CASE /\ ipc' \in {"SIOCGIFCONF", "ended"} /\ UNCHANGED <<buf_ifc, missing>>
             /\ len' \in Nat /\ lastlen' \in Nat /\ lastlen' < len'
    <2>1. IfiTyped'
      <3>1. lastlen' \in 0 .. len' /\ Len(buf_ifc') <= len'
        BY <1>3, <1>7
      <3>2. ipc' \in {"caller", "SIOCGIFCONF", "walk", "returned", "ended"}
        BY <1>7
      <3> QED
        BY <1>1, <1>2, <1>7, <3>1, <3>2, Zenon DEF IfiTyped, IfiTypeOK, End
    <2>2. IfiFlags'
      BY <1>1, <1>2 DEF IfiFlags
    <2>3. IfiAnswer'
      <3>1. /\ Len(buf_ifc') <= Len(<<>>) /\ DOMAIN buf_ifc' = {}
            /\ ptr' = 0 /\ ptr' >= End'
        BY <1>1, <1>3, <1>4, <1>7 DEF End, ifreq
      <3> QED
        BY <1>1, <1>2, <1>7, <3>1 DEF IfiAnswer
    <2>4. IfiLast'
      BY <1>7 DEF IfiLast
    <2>5. IfiMade'
      BY <1>1, <1>3, <1>4, <1>7 DEF IfiMade
    <2> QED
      BY <2>1, <2>2, <2>3, <2>4, <2>5 DEF IfiInv
  <1>8. CASE /\ ipc' = "walk" /\ n = lastlen /\ buf_ifc' = SubSeq(table, 1, n)
             /\ missing' = (n < Len(table)) /\ UNCHANGED <<len, lastlen>>
    <2> HIDE DEF n
    <2>1. /\ buf_ifc' \in Seq(IfReq) /\ Len(buf_ifc') = n /\ DOMAIN buf_ifc' = 1 .. n
          /\ \A k \in 1 .. n : buf_ifc'[k] = table[k]
      <3>1. /\ SubSeq(table, 1, n) \in Seq(IfReq) /\ Len(SubSeq(table, 1, n)) = n
            /\ \A k \in 1 .. n : SubSeq(table, 1, n)[k] = table[k]
        BY <1>3, <1>5, SubSeqProperties
      <3>2. DOMAIN SubSeq(table, 1, n) = 1 .. n
        BY <3>1
      <3> QED
        BY <1>8, <3>1, <3>2, Zenon
    <2>2. IfiTyped'
      <3>1. /\ ptr' \in 0 .. End' + ifreq /\ Len(buf_ifc') <= len'
            /\ (IFNAMSIZ + sockaddr) * Len(ifihead') <= ptr'
        BY <1>1, <1>3, <1>4, <1>5, <1>8, <2>1 DEF End, ifreq, IFNAMSIZ, sockaddr
      <3>2. missing' \in BOOLEAN
        BY <1>8
      <3>3. ipc' \in {"caller", "SIOCGIFCONF", "walk", "returned", "ended"}
        BY <1>8
      <3> QED
        BY <1>1, <1>2, <1>8, <2>1, <3>1, <3>2, <3>3, Zenon DEF IfiTyped, IfiTypeOK
    <2>3. IfiFlags'
      BY <1>1, <1>2 DEF IfiFlags
    <2>4. ~missing'
      <3>1. n < len
        BY <1>2, <1>8
      <3>2. n = Len(table)
        BY <1>3, <3>1 DEF n
      <3>3. ~(n < Len(table))
        BY <1>3, <3>2
      <3> QED
        BY <1>8, <3>3, Zenon
    <2>5. IfiAnswer'
      <3>1. /\ table \in Tables \union {<<>>} /\ Len(buf_ifc') <= Len(table)
            /\ \A k \in DOMAIN buf_ifc' : buf_ifc'[k] = table[k]
        BY <1>2, <1>5, <2>1
      <3>2. Len(buf_ifc') < len' /\ ptr' = 0
        BY <1>1, <1>2, <1>4, <1>8, <2>1
      <3>3. ptr' % (IFNAMSIZ + sockaddr) = 0
        BY <3>2 DEF IFNAMSIZ, sockaddr
      <3> QED
        BY <1>1, <1>8, <2>4, <3>1, <3>2, <3>3 DEF IfiAnswer
    <2>6. \A i \in DOMAIN buf_ifc' : ~Passed(i)'
      BY <1>1, <1>4, <2>1 DEF Passed, ifreq
    <2>7. IfiLast'
      BY <1>1, <1>2, <2>6 DEF IfiLast
    <2>8. IfiMade'
      BY <1>1, <1>4, <2>6 DEF IfiMade
    <2> QED
      BY <2>2, <2>3, <2>5, <2>7, <2>8 DEF IfiInv
  <1> QED
    BY <1>6, <1>7, <1>8

(* The walk ends, or the process does, or nothing happens.                 *)
LEMMA EndIfiInv == IfiInv /\ (walked \/ ifi_err_sys \/ UNCHANGED ifiVars) => IfiInv'
  <1> SUFFICES ASSUME IfiInv, walked \/ ifi_err_sys \/ UNCHANGED ifiVars PROVE IfiInv'
    OBVIOUS
  <1>1. /\ \/ ipc' = "returned" /\ ptr >= End
           \/ ipc' \in {"ended", ipc}
        /\ UNCHANGED <<family, doaliases, table, up, truncates, len, lastlen, buf_ifc, ptr,
                       lastname, ifihead, changes, missing, notUp>>
    BY DEF walked, ifi_err_sys, ifiVars
  <1>2. IfiTyped /\ IfiFlags /\ IfiAnswer /\ IfiLast /\ IfiMade
    BY DEF IfiInv
  <1>3. IfiTyped'
    <2>1. ipc' \in {"caller", "SIOCGIFCONF", "walk", "returned", "ended"}
      BY <1>1, <1>2 DEF IfiTyped, IfiTypeOK
    <2> QED
      BY <1>1, <1>2, <2>1, Zenon DEF IfiTyped, IfiTypeOK, End
  <1>4. IfiFlags'
    BY <1>1, <1>2 DEF IfiFlags
  <1>5. IfiAnswer'
    BY <1>1, <1>2 DEF IfiAnswer, End
  <1>6. IfiLast'
    BY <1>1, <1>2 DEF IfiLast, Passed, Met
  <1>7. IfiMade'
    <2>1. \A i : Passed(i)' = Passed(i) /\ HasEntry(buf_ifc[i])' = HasEntry(buf_ifc[i])
                 /\ FirstListed(i)' = FirstListed(i)
      BY <1>1 DEF Passed, Met, HasEntry, FirstListed
    <2> QED
      BY <1>1, <1>2, <2>1, Zenon DEF IfiMade
  <1> QED
    BY <1>3, <1>4, <1>5, <1>6, <1>7 DEF IfiInv

(* Where a step of the walk leads.  Past the beginning of an entry there is *)
(* no other entry that begins at a place the walk comes to.                *)
LEMMA WalkPlace ==
    ASSUME IfiInv, walk
    PROVE  /\ ptr' \in 0 .. End' + ifreq /\ ptr + (IFNAMSIZ + sockaddr) <= ptr'
           /\ ptr' % (IFNAMSIZ + sockaddr) = 0 \/ ptr' >= End'
           /\ \A i \in DOMAIN buf_ifc :
                Passed(i)' <=> Passed(i) \/ (family = "AF_INET" /\ ifreq * (i - 1) = ptr)
  <1>1. /\ ipc = "walk" /\ ptr < End /\ UNCHANGED <<family, buf_ifc>>
    BY DEF walk
  <1>2. PICK fam \in FamiliesAt(ptr + IFNAMSIZ) :
            ptr' = ptr + IFNAMSIZ + (IF fam = "AF_INET6" THEN sockaddr_in6 ELSE sockaddr)
    BY DEF walk
  <1>3. /\ buf_ifc \in Seq(IfReq) /\ Len(buf_ifc) \in Nat /\ DOMAIN buf_ifc = 1 .. Len(buf_ifc)
        /\ ptr \in Nat
    BY DEF IfiInv, IfiTyped, IfiTypeOK, End, ifreq
  <1>4. PICK n : n = Len(buf_ifc)
    OBVIOUS
  <1>5. n \in Nat /\ End = 10 * n /\ End' = 10 * n /\ DOMAIN buf_ifc = 1 .. n /\ ptr < 10 * n
    BY <1>1, <1>3, <1>4 DEF End, ifreq
  <1>6. ptr % 8 = 0
    <2>1. ptr % (IFNAMSIZ + sockaddr) = 0 \/ ptr >= End
      BY DEF IfiInv, IfiAnswer
    <2>2. ~(ptr >= End)
      BY <1>3, <1>5
    <2>3. IFNAMSIZ + sockaddr = 8
      BY DEF IFNAMSIZ, sockaddr
    <2> QED
      BY <2>1, <2>2, <2>3
  <1>7. \/ ptr' = ptr + 8
        \/ ptr' = ptr + 11 /\ ptr + 4 >= 10 * n
    BY <1>2, <1>3, <1>5 DEF FamiliesAt, IFNAMSIZ, sockaddr, sockaddr_in6
  <1>8. ptr' \in 0 .. End' + ifreq /\ ptr + (IFNAMSIZ + sockaddr) <= ptr'
    BY <1>3, <1>5, <1>7 DEF ifreq, IFNAMSIZ, sockaddr
  <1>9. ptr' % (IFNAMSIZ + sockaddr) = 0 \/ ptr' >= End'
    BY <1>3, <1>5, <1>6, <1>7 DEF IFNAMSIZ, sockaddr
  <1>10. ASSUME NEW i \in 1 .. n
         PROVE  Passed(i)' <=> Passed(i) \/ (family = "AF_INET" /\ ifreq * (i - 1) = ptr)
    <2>1. /\ Passed(i)' <=> (10 * (i - 1)) % 8 = 0 /\ 10 * (i - 1) < ptr' /\ family = "AF_INET"
          /\ Passed(i) <=> (10 * (i - 1)) % 8 = 0 /\ 10 * (i - 1) < ptr /\ family = "AF_INET"
      BY <1>1, <1>5 DEF Passed, Met, ifreq, IFNAMSIZ, sockaddr
    <2>2. (10 * (i - 1)) % 8 = 0 => (10 * (i - 1) < ptr' <=> 10 * (i - 1) < ptr \/ 10 * (i - 1) = ptr)
      BY <1>3, <1>5, <1>6, <1>7
    <2>3. 10 * (i - 1) = ptr => (10 * (i - 1)) % 8 = 0
      BY <1>6
    <2> QED
      BY <2>1, <2>2, <2>3 DEF ifreq
  <1> QED
    BY <1>5, <1>8, <1>9, <1>10

(* What a step of the walk does: at an entry of the family asked for, it   *)
(* passes it over or lists it; anywhere else it lists nothing.             *)
LEMMA WalkCases ==
    ASSUME IfiInv, walk
    PROVE  \/ /\ \A i \in DOMAIN buf_ifc : Passed(i)' <=> Passed(i)
              /\ ifihead' = ifihead
              /\ ipc' = "ended" \/ (ipc' = ipc /\ lastname' = lastname)
           \/ \E p \in DOMAIN buf_ifc :
                LET e == buf_ifc[p]
                    alias == e.name = lastname
                IN  /\ \A i \in DOMAIN buf_ifc : Passed(i)' <=> Passed(i) \/ i = p
                    /\ \A i \in DOMAIN buf_ifc : Passed(i) => i < p
                    /\ \/ /\ alias /\ ~doaliases
                          /\ ipc' = ipc /\ lastname' = lastname /\ ifihead' = ifihead
                       \/ /\ ~(alias /\ ~doaliases) /\ lastname' = e.name /\ ipc' \in {ipc, "ended"}
                          /\ \/ /\ e.name \in up
                                /\ ifihead' = Append(ifihead, [entry |-> e, alias |-> alias])
                             \/ e.name \notin up /\ ifihead' = ifihead
  <1>1. /\ ipc = "walk" /\ ptr < End /\ UNCHANGED <<family, buf_ifc>>
    BY DEF walk
  <1>2. PICK fam \in FamiliesAt(ptr + IFNAMSIZ) :
            IF fam # family \/ (ifr.name = lastname /\ ~doaliases)
            THEN UNCHANGED <<ipc, lastname, ifihead>>
            ELSE /\ lastname' = ifr.name
                 /\ ipc' = IF ifr.name \in NamesOf(table) THEN ipc ELSE "ended"
                 /\ ifihead' = IF ifr.name \in up
                       THEN Append(ifihead, [entry |-> ifr, alias |-> ifr.name = lastname])
                       ELSE ifihead
    BY DEF walk, SameInterface
  <1>3. /\ buf_ifc \in Seq(IfReq) /\ Len(buf_ifc) \in Nat /\ DOMAIN buf_ifc = 1 .. Len(buf_ifc)
        /\ ptr \in Nat /\ family \in {"AF_INET", "AF_INET6", NoName}
    BY DEF IfiInv, IfiTyped, IfiTypeOK, End, ifreq
  <1>4. table \in Tables /\ up \subseteq NamesOf(table)
    BY <1>1 DEF IfiInv, IfiFlags
  <1>5. \A i \in DOMAIN buf_ifc :
            Passed(i)' <=> Passed(i) \/ (family = "AF_INET" /\ ifreq * (i - 1) = ptr)
    BY WalkPlace
  <1>6. PICK n : n = Len(buf_ifc)
    OBVIOUS
  <1>7. n \in Nat /\ End = 10 * n /\ DOMAIN buf_ifc = 1 .. n /\ ptr < 10 * n
    BY <1>1, <1>3, <1>6 DEF End, ifreq
  <1>8. CASE ptr % 10 = 0
    <2>1. PICK p : p = (ptr \div 10) + 1
      OBVIOUS
    <2>2. p \in 1 .. n /\ 10 * (p - 1) = ptr
      BY <1>3, <1>7, <1>8, <2>1
    <2>3. ifr = buf_ifc[p]
      BY <1>8, <2>1 DEF ifr, ifreq
    <2>4. fam = "AF_INET"
      <3>1. ptr + 4 < 10 * n /\ (ptr + 4) % 10 = 4
        BY <1>3, <1>7, <1>8, <2>2
      <3> QED
        BY <1>3, <1>7, <3>1 DEF FamiliesAt, IFNAMSIZ, ifreq
    <2>5. ASSUME NEW i \in DOMAIN buf_ifc
          PROVE  (ifreq * (i - 1) = ptr <=> i = p) /\ (Passed(i) => i < p)
      BY <1>7, <2>2 DEF ifreq, Passed
    <2>6. CASE family # "AF_INET"
      <3>1. UNCHANGED <<ipc, lastname, ifihead>>
        BY <1>2, <2>4, <2>6
      <3> QED
        BY <1>5, <2>6, <3>1
    <2>7. CASE family = "AF_INET"
      <3>1. \A i \in DOMAIN buf_ifc : Passed(i)' <=> Passed(i) \/ i = p
        BY <1>5, <2>5, <2>7
      <3>2. CASE buf_ifc[p].name = lastname /\ ~doaliases
        <4>1. UNCHANGED <<ipc, lastname, ifihead>>
          BY <1>2, <2>3, <3>2
        <4> QED
          BY <1>7, <2>2, <2>5, <3>1, <3>2, <4>1
      <3>3. CASE ~(buf_ifc[p].name = lastname /\ ~doaliases)
        <4>1. /\ lastname' = ifr.name
              /\ ipc' = IF ifr.name \in NamesOf(table) THEN ipc ELSE "ended"
              /\ ifihead' = IF ifr.name \in up
                    THEN Append(ifihead, [entry |-> ifr, alias |-> ifr.name = lastname])
                    ELSE ifihead
          BY <1>2, <2>3, <2>4, <2>7, <3>3
        <4>2. /\ lastname' = buf_ifc[p].name /\ ipc' \in {ipc, "ended"}
              /\ \/ /\ buf_ifc[p].name \in up
                    /\ ifihead' = Append(ifihead, [entry |-> buf_ifc[p],
                                                  alias |-> buf_ifc[p].name = lastname])
                 \/ buf_ifc[p].name \notin up /\ ifihead' = ifihead
          BY <2>3, <4>1, Zenon
        <4> QED
          BY <1>7, <2>2, <2>5, <3>1, <3>3, <4>2
      <3> QED
        BY <3>2, <3>3
    <2> QED
      BY <2>6, <2>7
  <1>9. CASE ptr % 10 # 0
    <2>1. \A i \in DOMAIN buf_ifc : ifreq * (i - 1) # ptr
      BY <1>3, <1>7, <1>9 DEF ifreq
    <2>2. ifr.name = NoName
      BY <1>9 DEF ifr, ifreq
    <2>3. NoName \notin NamesOf(table)
      <3>1. \A k \in DOMAIN table : table[k] \in IfReq
        BY <1>4, NamesTyped, ElementOfSeq
      <3> QED
        BY <3>1 DEF NamesOf, IfReq
    <2>4. ifihead' = ifihead /\ (ipc' = "ended" \/ (ipc' = ipc /\ lastname' = lastname))
      BY <1>2, <1>4, <2>2, <2>3
    <2> QED
      BY <1>5, <2>1, <2>4
  <1> QED
    BY <1>8, <1>9

(* What the walk knows of the address it looks at: its name is known, and  *)
(* if it is not that of the last, no earlier address was of its interface, *)
(* whose addresses are together.                                           *)
LEMMA NewInterface ==
    ASSUME IfiInv, ipc = "walk", NEW p \in DOMAIN buf_ifc,
           \A i \in DOMAIN buf_ifc : Passed(i) => i < p
    PROVE  /\ buf_ifc[p].name \in AllNames /\ buf_ifc[p].name # NoName
           /\ buf_ifc[p].name # lastname =>
                \A i \in DOMAIN buf_ifc : Passed(i) => buf_ifc[i].name # buf_ifc[p].name
  <1>1. PICK t \in Tables \union {<<>>} :
            Len(buf_ifc) <= Len(t) /\ \A k \in DOMAIN buf_ifc : buf_ifc[k] = t[k]
    BY DEF IfiInv, IfiAnswer
  <1>2. /\ buf_ifc \in Seq(IfReq) /\ Len(buf_ifc) \in Nat /\ DOMAIN buf_ifc = 1 .. Len(buf_ifc)
        /\ p \in 1 .. Len(buf_ifc)
    BY DEF IfiInv, IfiTyped
  <1>3. t \in Tables
    <2>1. Len(<<>>) = 0
      OBVIOUS
    <2> QED
      BY <1>1, <1>2, <2>1
  <1>4. /\ t \in Seq(IfReq) /\ NamesOf(t) \subseteq AllNames
        /\ Len(t) \in Nat /\ DOMAIN t = 1 .. Len(t)
    BY <1>3, NamesTyped
  <1>5. DOMAIN buf_ifc \subseteq DOMAIN t
    BY <1>1, <1>2, <1>4
  <1>6. buf_ifc[p].name \in AllNames
    <2>1. t[p].name \in NamesOf(t)
      BY <1>5 DEF NamesOf
    <2> QED
      BY <1>1, <1>4, <2>1
  <1>7. buf_ifc[p].name # NoName
    <2>1. buf_ifc[p] \in IfReq
      BY <1>2, ElementOfSeq
    <2> QED
      BY <2>1 DEF IfReq
  <1>8. ASSUME buf_ifc[p].name # lastname, NEW i \in DOMAIN buf_ifc, Passed(i),
               buf_ifc[i].name = buf_ifc[p].name
        PROVE  FALSE
    <2>1. PICK j \in DOMAIN buf_ifc : i <= j /\ Passed(j) /\ buf_ifc[j].name = lastname
      BY <1>8 DEF IfiInv, IfiLast
    <2>2. i # j
      BY <1>8, <2>1
    <2>3. i < j /\ j < p
      BY <1>2, <2>1, <2>2
    <2>4. t[i].name = t[p].name /\ t[j].name # t[i].name
      BY <1>1, <1>8, <2>1
    <2>5. i \in DOMAIN t /\ j \in DOMAIN t /\ p \in DOMAIN t
      BY <1>5
    <2> QED
      BY <1>3, <2>3, <2>4, <2>5, InterfacesAssumption
  <1> QED
    BY <1>6, <1>7, <1>8

(* The walk passes over an alias that is not asked for.                    *)
LEMMA PassOver ==
    ASSUME IfiInv, ipc = "walk", ipc' = ipc,
           UNCHANGED <<family, doaliases, table, up, buf_ifc, notUp, lastname, ifihead>>,
           NEW p \in DOMAIN buf_ifc, buf_ifc[p].name = lastname, ~doaliases,
           \A i \in DOMAIN buf_ifc : Passed(i)' <=> Passed(i) \/ i = p,
           \A i \in DOMAIN buf_ifc : Passed(i) => i < p
    PROVE  IfiLast' /\ IfiMade'
  <1>1. IfiLast /\ IfiMade /\ DOMAIN buf_ifc = 1 .. Len(buf_ifc) /\ Len(buf_ifc) \in Nat
    BY DEF IfiInv, IfiTyped
  <1>2. lastname # NoName
    BY NewInterface
  <1>3. IfiLast'
    <2>1. ASSUME NEW i \in DOMAIN buf_ifc, Passed(i)'
          PROVE  \E j \in DOMAIN buf_ifc : i <= j /\ Passed(j)' /\ buf_ifc[j].name = lastname
      <3>1. CASE Passed(i)
        <4>1. i <= p /\ Passed(p)'
          BY <1>1, <3>1
        <4> QED
          BY <4>1
      <3>2. CASE i = p
        <4>1. i <= p /\ Passed(p)'
          BY <1>1, <3>2
        <4> QED
          BY <4>1
      <3> QED
        BY <2>1, <3>1, <3>2
    <2>2. \E i \in DOMAIN buf_ifc : Passed(i)' /\ buf_ifc[i].name = lastname
      OBVIOUS
    <2> QED
      BY <2>1, <2>2, Zenon DEF IfiLast
  <1>4. \A i : HasEntry(buf_ifc[i])' = HasEntry(buf_ifc[i])
    BY DEF HasEntry
  <1>5. ASSUME NEW i \in DOMAIN buf_ifc, FirstListed(i)
        PROVE  FirstListed(i)'
    <2>1. PICK j \in DOMAIN buf_ifc :
              /\ Passed(j) /\ buf_ifc[j].name = buf_ifc[i].name /\ HasEntry(buf_ifc[j])
              /\ \A m \in DOMAIN buf_ifc : Passed(m) /\ buf_ifc[m].name = buf_ifc[i].name => j <= m
      BY <1>5 DEF FirstListed
    <2>2. j <= p
      BY <1>1, <2>1
    <2>3. \A m \in DOMAIN buf_ifc : Passed(m)' /\ buf_ifc[m].name = buf_ifc[i].name => j <= m
      BY <2>1, <2>2
    <2> QED
      BY <1>4, <2>1, <2>3, Zenon DEF FirstListed
  <1>6. ASSUME NEW i \in DOMAIN buf_ifc, Passed(i)', buf_ifc[i].name \notin notUp
        PROVE  IF doaliases THEN HasEntry(buf_ifc[i])' ELSE FirstListed(i)'
    <2>1. CASE Passed(i)
      BY <1>1, <1>4, <1>5, <1>6, <2>1, Zenon DEF IfiMade
    <2>2. CASE i = p
      <3>1. PICK j \in DOMAIN buf_ifc : Passed(j) /\ buf_ifc[j].name = buf_ifc[i].name
        BY <1>1, <1>2, <2>2 DEF IfiLast
      <3>2. FirstListed(j)
        BY <1>1, <1>6, <3>1, Zenon DEF IfiMade
      <3>3. FirstListed(i)
        BY <3>1, <3>2, Zenon DEF FirstListed
      <3> QED
        BY <1>5, <3>3
    <2> QED
      BY <1>6, <2>1, <2>2
  <1>7. IfiMade'
    <2>1. \A k \in DOMAIN ifihead :
              \E i \in DOMAIN buf_ifc : Passed(i)' /\ ifihead[k].entry = buf_ifc[i]
      BY <1>1 DEF IfiMade
    <2> QED
      BY <1>1, <1>6, <2>1, Zenon DEF IfiMade
  <1> QED
    BY <1>3, <1>7

(* The walk takes an entry: if its interface is up, it is listed.          *)
LEMMA TakeEntry ==
    ASSUME IfiInv, ipc = "walk", ipc' \in {ipc, "ended"},
           UNCHANGED <<family, doaliases, table, up, buf_ifc, notUp>>,
           NEW p \in DOMAIN buf_ifc, ~(buf_ifc[p].name = lastname /\ ~doaliases),
           lastname' = buf_ifc[p].name,
           \/ /\ buf_ifc[p].name \in up
              /\ ifihead' = Append(ifihead, [entry |-> buf_ifc[p],
                                             alias |-> buf_ifc[p].name = lastname])
           \/ buf_ifc[p].name \notin up /\ ifihead' = ifihead,
           \A i \in DOMAIN buf_ifc : Passed(i)' <=> Passed(i) \/ i = p,
           \A i \in DOMAIN buf_ifc : Passed(i) => i < p
    PROVE  /\ IfiLast' /\ IfiMade' /\ ifihead' \in Seq([entry : IfReq, alias : BOOLEAN])
           /\ Len(ifihead') <= Len(ifihead) + 1
  <1> DEFINE e == buf_ifc[p]
             item == [entry |-> e, alias |-> e.name = lastname]
  <1>1. /\ IfiLast /\ IfiMade /\ buf_ifc \in Seq(IfReq)
        /\ DOMAIN buf_ifc = 1 .. Len(buf_ifc) /\ Len(buf_ifc) \in Nat
        /\ ifihead \in Seq([entry : IfReq, alias : BOOLEAN]) /\ Len(ifihead) \in Nat
        /\ DOMAIN ifihead = 1 .. Len(ifihead)
    BY DEF IfiInv, IfiTyped
  <1>2. e \in IfReq
    BY <1>1, ElementOfSeq
  <1>3. /\ e.name \in AllNames
        /\ e.name # lastname => \A i \in DOMAIN buf_ifc : Passed(i) => buf_ifc[i].name # e.name
    BY NewInterface
  <1>4. e.name \notin up => e.name \in notUp
    BY <1>3 DEF IfiInv, IfiFlags
  <1>5. item \in [entry : IfReq, alias : BOOLEAN]
    BY <1>2
  <1>6. item.entry = e /\ item.alias = (e.name = lastname)
    OBVIOUS
  <1>7. \/ e.name \in up /\ ifihead' = Append(ifihead, item)
        \/ e.name \notin up /\ ifihead' = ifihead
    OBVIOUS
  <1> HIDE DEF item
  <1>8. \/ /\ e.name \in up
           /\ ifihead' \in Seq([entry : IfReq, alias : BOOLEAN])
           /\ Len(ifihead') = Len(ifihead) + 1 /\ DOMAIN ifihead' = 1 .. Len(ifihead) + 1
           /\ ifihead'[Len(ifihead) + 1] = item
           /\ \A k \in DOMAIN ifihead : ifihead'[k] = ifihead[k]
        \/ e.name \notin up /\ ifihead' = ifihead
    <2>1. /\ Append(ifihead, item) \in Seq([entry : IfReq, alias : BOOLEAN])
          /\ Len(Append(ifihead, item)) = Len(ifihead) + 1
          /\ Append(ifihead, item)[Len(ifihead) + 1] = item
          /\ \A k \in 1 .. Len(ifihead) : Append(ifihead, item)[k] = ifihead[k]
      BY <1>1, <1>5, AppendProperties
    <2>2. DOMAIN Append(ifihead, item) = 1 .. Len(ifihead) + 1
      BY <2>1
    <2> QED
      BY <1>1, <1>7, <2>1, <2>2, Zenon
  <1>9. /\ ifihead' \in Seq([entry : IfReq, alias : BOOLEAN])
        /\ Len(ifihead') <= Len(ifihead) + 1
    BY <1>1, <1>8
  <1>10. IfiLast'
    <2>1. \A i \in DOMAIN buf_ifc : Passed(i)' => i <= p
      BY <1>1
    <2>2. Passed(p)' /\ buf_ifc'[p].name = lastname' /\ p \in DOMAIN buf_ifc'
      OBVIOUS
    <2> QED
      BY <2>1, <2>2, Zenon DEF IfiLast
  <1>11. \A k \in DOMAIN ifihead : k \in DOMAIN ifihead' /\ ifihead'[k] = ifihead[k]
    BY <1>1, <1>8
  <1>12. e.name \in up => HasEntry(buf_ifc[p])'
    <2>1. ASSUME e.name \in up PROVE HasEntry(buf_ifc[p])'
      <3>1. Len(ifihead) + 1 \in DOMAIN ifihead' /\ ifihead'[Len(ifihead) + 1].entry = e
        BY <1>1, <1>6, <1>8, <2>1
      <3> QED
        BY <3>1 DEF HasEntry
    <2> QED
      BY <2>1
  <1>13. \A i \in DOMAIN buf_ifc : HasEntry(buf_ifc[i]) => HasEntry(buf_ifc[i])'
    BY <1>11 DEF HasEntry
  <1>14. \A k \in DOMAIN ifihead' : k \in DOMAIN ifihead \/
             (ifihead'[k] = item /\ k = Len(ifihead) + 1)
    BY <1>1, <1>8
  <1>15. ASSUME NEW k \in DOMAIN ifihead'
         PROVE  \E i \in DOMAIN buf_ifc : Passed(i)' /\ ifihead'[k].entry = buf_ifc[i]
    <2>1. CASE k \in DOMAIN ifihead
      BY <1>1, <1>11, <2>1 DEF IfiMade
    <2>2. CASE ifihead'[k] = item
      BY <1>6, <2>2
    <2> QED
      BY <1>14, <2>1, <2>2
  <1>16. ASSUME NEW j \in DOMAIN ifihead, ~item.alias
         PROVE  ifihead[j].entry.name # item.entry.name
    <2>1. PICK i \in DOMAIN buf_ifc : Passed(i) /\ ifihead[j].entry = buf_ifc[i]
      BY <1>1 DEF IfiMade
    <2>2. e.name # lastname
      BY <1>6, <1>16
    <2> QED
      BY <1>3, <1>6, <2>1, <2>2
  <1>17. ASSUME NEW j \in DOMAIN ifihead', NEW k \in DOMAIN ifihead',
                ifihead'[j].entry.name = ifihead'[k].entry.name,
                ~ifihead'[j].alias, ~ifihead'[k].alias
         PROVE  j = k
    <2>1. CASE j \in DOMAIN ifihead /\ k \in DOMAIN ifihead
      BY <1>1, <1>11, <1>17, <2>1 DEF IfiMade
    <2>2. CASE j \in DOMAIN ifihead /\ ifihead'[k] = item
      <3>1. ifihead[j].entry.name = item.entry.name /\ ~item.alias
        BY <1>11, <1>17, <2>2
      <3> QED
        BY <1>16, <2>2, <3>1
    <2>3. CASE ifihead'[j] = item /\ k \in DOMAIN ifihead
      <3>1. ifihead[k].entry.name = item.entry.name /\ ~item.alias
        BY <1>11, <1>17, <2>3
      <3> QED
        BY <1>16, <2>3, <3>1
    <2> QED
      BY <1>14, <2>1, <2>2, <2>3
  <1>18. ASSUME NEW i \in DOMAIN buf_ifc, FirstListed(i)
         PROVE  FirstListed(i)'
    <2>1. PICK j \in DOMAIN buf_ifc :
              /\ Passed(j) /\ buf_ifc[j].name = buf_ifc[i].name /\ HasEntry(buf_ifc[j])
              /\ \A m \in DOMAIN buf_ifc : Passed(m) /\ buf_ifc[m].name = buf_ifc[i].name => j <= m
      BY <1>18 DEF FirstListed
    <2>2. j <= p
      BY <1>1, <2>1
    <2>3. Passed(j)' /\ HasEntry(buf_ifc[j])'
      BY <1>13, <2>1
    <2>4. \A m \in DOMAIN buf_ifc : Passed(m)' /\ buf_ifc[m].name = buf_ifc[i].name => j <= m
      BY <2>1, <2>2
    <2> QED
      BY <2>1, <2>3, <2>4, Zenon DEF FirstListed
  <1>19. ASSUME NEW i \in DOMAIN buf_ifc, Passed(i)', buf_ifc[i].name \notin notUp
         PROVE  IF doaliases THEN HasEntry(buf_ifc[i])' ELSE FirstListed(i)'
    <2>1. CASE Passed(i)
      BY <1>1, <1>13, <1>18, <1>19, <2>1, Zenon DEF IfiMade
    <2>2. CASE i = p
      <3>1. HasEntry(buf_ifc[i])'
        BY <1>4, <1>12, <1>19, <2>2
      <3>2. CASE ~doaliases
        <4>1. \A m \in DOMAIN buf_ifc : Passed(m)' /\ buf_ifc[m].name = buf_ifc[i].name => m = i
          BY <1>3, <2>2, <3>2
        <4>2. \A m \in DOMAIN buf_ifc : Passed(m)' /\ buf_ifc[m].name = buf_ifc[i].name => i <= m
          BY <1>1, <4>1
        <4>3. FirstListed(i)'
          BY <1>19, <3>1, <4>2, Zenon DEF FirstListed
        <4> QED
          BY <3>2, <4>3
      <3> QED
        BY <3>1, <3>2
    <2> QED
      BY <1>19, <2>1, <2>2
  <1>20. IfiMade'
    BY <1>15, <1>17, <1>19, Zenon DEF IfiMade
  <1> QED
    BY <1>9, <1>10, <1>20

(* One round of the second loop.                                           *)
LEMMA WalkIfiInv == IfiInv /\ walk => IfiInv'
  <1> SUFFICES ASSUME IfiInv, walk PROVE IfiInv'
    OBVIOUS
  <1>1. /\ ipc = "walk"
        /\ UNCHANGED <<family, doaliases, table, up, truncates, len, lastlen, buf_ifc,
                       changes, missing, notUp>>
    BY DEF walk
  <1>2. IfiTyped /\ IfiFlags /\ IfiAnswer /\ IfiLast /\ IfiMade
    BY DEF IfiInv
  <1>3. /\ ptr' \in 0 .. End' + ifreq /\ ptr + (IFNAMSIZ + sockaddr) <= ptr'
        /\ ptr' % (IFNAMSIZ + sockaddr) = 0 \/ ptr' >= End'
    BY WalkPlace
  <1>4. /\ buf_ifc \in Seq(IfReq) /\ Len(buf_ifc) \in Nat /\ DOMAIN buf_ifc = 1 .. Len(buf_ifc)
        /\ ifihead \in Seq([entry : IfReq, alias : BOOLEAN]) /\ Len(ifihead) \in Nat
        /\ DOMAIN ifihead = 1 .. Len(ifihead) /\ 8 * Len(ifihead) <= ptr /\ ptr \in Nat
        /\ ptr' \in Nat /\ ptr + 8 <= ptr'
    BY <1>2, <1>3 DEF IfiTyped, IfiTypeOK, End, ifreq, IFNAMSIZ, sockaddr
  <1>5. ASSUME ipc' \in {ipc, "ended"}
        PROVE  IfiFlags' /\ IfiAnswer'
    <2>1. IfiFlags'
      BY <1>1, <1>2, <1>5 DEF IfiFlags
    <2>2. IfiAnswer'
      BY <1>1, <1>2, <1>3, <1>5 DEF IfiAnswer
    <2> QED
      BY <2>1, <2>2
  <1>6. ASSUME ipc' \in {ipc, "ended"},
               ifihead' \in Seq([entry : IfReq, alias : BOOLEAN]),
               Len(ifihead') <= Len(ifihead) + 1, Len(ifihead') \in Nat
        PROVE  IfiTyped'
    <2>1. (IFNAMSIZ + sockaddr) * Len(ifihead') <= ptr'
      BY <1>4, <1>6 DEF IFNAMSIZ, sockaddr
    <2>2. ipc' \in {"caller", "SIOCGIFCONF", "walk", "returned", "ended"}
      BY <1>1, <1>6
    <2> QED
      BY <1>1, <1>2, <1>3, <1>6, <2>1, <2>2, Zenon DEF IfiTyped, IfiTypeOK
  <1>7. CASE /\ \A i \in DOMAIN buf_ifc : Passed(i)' <=> Passed(i)
             /\ ifihead' = ifihead
             /\ ipc' = "ended" \/ (ipc' = ipc /\ lastname' = lastname)
    <2>1. IfiTyped' /\ IfiFlags' /\ IfiAnswer'
      BY <1>4, <1>5, <1>6, <1>7
    <2>2. IfiLast'
      BY <1>1, <1>2, <1>7 DEF IfiLast
    <2>3. \A i \in DOMAIN buf_ifc :
              HasEntry(buf_ifc[i])' = HasEntry(buf_ifc[i]) /\ FirstListed(i)' = FirstListed(i)
      BY <1>1, <1>7 DEF HasEntry, FirstListed
    <2>4. IfiMade'
      BY <1>1, <1>2, <1>7, <2>3 DEF IfiMade
    <2> QED
      BY <2>1, <2>2, <2>4 DEF IfiInv
  <1>8. ASSUME NEW p \in DOMAIN buf_ifc,
               \A i \in DOMAIN buf_ifc : Passed(i)' <=> Passed(i) \/ i = p,
               \A i \in DOMAIN buf_ifc : Passed(i) => i < p,
               buf_ifc[p].name = lastname, ~doaliases,
               ipc' = ipc, lastname' = lastname, ifihead' = ifihead
        PROVE  IfiInv'
    <2>1. IfiTyped' /\ IfiFlags' /\ IfiAnswer'
      BY <1>4, <1>5, <1>6, <1>8
    <2>2. IfiLast' /\ IfiMade'
      BY <1>1, <1>8, PassOver
    <2> QED
      BY <2>1, <2>2 DEF IfiInv
  <1>9. ASSUME NEW p \in DOMAIN buf_ifc,
               \A i \in DOMAIN buf_ifc : Passed(i)' <=> Passed(i) \/ i = p,
               \A i \in DOMAIN buf_ifc : Passed(i) => i < p,
               ~(buf_ifc[p].name = lastname /\ ~doaliases),
               ipc' \in {ipc, "ended"}, lastname' = buf_ifc[p].name,
               \/ /\ buf_ifc[p].name \in up
                  /\ ifihead' = Append(ifihead, [entry |-> buf_ifc[p],
                                                 alias |-> buf_ifc[p].name = lastname])
               \/ buf_ifc[p].name \notin up /\ ifihead' = ifihead
        PROVE  IfiInv'
    <2>1. /\ IfiLast' /\ IfiMade' /\ ifihead' \in Seq([entry : IfReq, alias : BOOLEAN])
          /\ Len(ifihead') <= Len(ifihead) + 1
      BY <1>1, <1>9, TakeEntry
    <2>2. Len(ifihead') \in Nat
      BY <2>1
    <2>3. IfiTyped' /\ IfiFlags' /\ IfiAnswer'
      BY <1>5, <1>6, <1>9, <2>1, <2>2
    <2> QED
      BY <2>1, <2>3 DEF IfiInv
  <1> QED
    BY <1>7, <1>8, <1>9, WalkCases, Zenon

(* IfiInv holds in every reachable state.                                  *)
LEMMA IfiInvariant == IfiSpec => []IfiInv
  <1>1. IfiInit => IfiInv
    BY IfiInitInv
  <1>2. IfiInv /\ [IfiNext]_ifiVars => IfiInv'
    <2> SUFFICES ASSUME IfiInv, [IfiNext]_ifiVars PROVE IfiInv'
      OBVIOUS
    <2>1. CASE get_ifi_info
      BY <2>1, CallIfiInv
    <2>2. CASE KernelChanges
      BY <2>2, KernelIfiInv
    <2>3. CASE SIOCGIFCONF
      BY <2>3, AskIfiInv
    <2>4. CASE walk
      BY <2>4, WalkIfiInv
    <2>5. CASE walked \/ ifi_err_sys \/ UNCHANGED ifiVars
      BY <2>5, EndIfiInv
    <2>6. CASE free_ifi_info
      BY <2>6, FreeIfiInv
    <2> QED
      BY <2>1, <2>2, <2>3, <2>4, <2>5, <2>6 DEF IfiNext
  <1> QED
    BY <1>1, <1>2, PTL DEF IfiSpec

(* The variables of get_ifi_info keep their types.                         *)
THEOREM IfiTypeCorrect == IfiSpec => []IfiTypeOK
  <1>1. IfiInv => IfiTypeOK
    BY DEF IfiInv, IfiTyped
  <1> QED
    BY <1>1, IfiInvariant, PTL

(* get_ifi_info is right about what it meets of the interfaces: the answer *)
(* it keeps is whole, and no read is behind the buffer; what it lists are  *)
(* entries it has met; of an interface that is up from the call to its     *)
(* return every entry met is in the list, or with doaliases 0 the first;   *)
(* and no interface has two entries that are not marked as aliases,        *)
(* however flags and interfaces change during the call.                    *)
THEOREM InterfacesAreListed == IfiSpec => []InterfacesListed
  <1>1. IfiInv => InterfacesListed
    <2> SUFFICES ASSUME IfiInv PROVE InterfacesListed
      OBVIOUS
    <2>1. ~missing /\ IfiMade /\ IfiTyped
      BY DEF IfiInv, IfiAnswer
    <2>2. /\ buf_ifc \in Seq(IfReq) /\ Len(buf_ifc) \in Nat /\ ptr \in Nat /\ len \in Nat
          /\ DOMAIN buf_ifc = 1 .. Len(buf_ifc)
      BY <2>1 DEF IfiTyped, IfiTypeOK, End, ifreq
    <2>3. ipc = "walk" /\ ptr < End => ptr + ifreq <= ifreq * len
      <3>1. ipc = "walk" => Len(buf_ifc) < len
        BY DEF IfiInv, IfiAnswer
      <3> QED
        BY <2>2, <3>1 DEF End, ifreq
    <2>4. ASSUME ipc = "returned", NEW n \in AllNames \union {NoName}
          PROVE  /\ {ifihead[k].entry : k \in Listed(n)} \subseteq {buf_ifc[k] : k \in Wanted(n)}
                 /\ n \notin notUp /\ doaliases =>
                       {buf_ifc[k] : k \in Wanted(n)} \subseteq {ifihead[k].entry : k \in Listed(n)}
                 /\ n \notin notUp /\ ~doaliases /\ Wanted(n) # {} =>
                       \E k \in Listed(n), i \in Wanted(n) :
                           ifihead[k].entry = buf_ifc[i] /\ \A j \in Wanted(n) : i <= j
                 /\ \A j, k \in Listed(n) : ~ifihead[j].alias /\ ~ifihead[k].alias => j = k
      <3>1. \A i \in DOMAIN buf_ifc : ifreq * (i - 1) < ptr
        <4>1. ptr >= End
          BY <2>4 DEF IfiInv, IfiAnswer
        <4> QED
          BY <2>2, <4>1 DEF End, ifreq
      <3>2. \A i \in DOMAIN buf_ifc : i \in Wanted(n) <=> Passed(i) /\ buf_ifc[i].name = n
        BY <3>1 DEF Wanted, Passed
      <3>3. Wanted(n) \subseteq DOMAIN buf_ifc
        BY DEF Wanted, Met
      <3>4. \A k : k \in Listed(n) <=> k \in DOMAIN ifihead /\ ifihead[k].entry.name = n
        BY DEF Listed
      <3>5. ASSUME NEW k \in Listed(n)
            PROVE  \E i \in Wanted(n) : ifihead[k].entry = buf_ifc[i]
        <4>1. k \in DOMAIN ifihead /\ ifihead[k].entry.name = n
          BY <3>4
        <4>2. PICK i \in DOMAIN buf_ifc : Passed(i) /\ ifihead[k].entry = buf_ifc[i]
          BY <2>1, <4>1 DEF IfiMade
        <4> QED
          BY <3>2, <4>1, <4>2
      <3>6. ASSUME n \notin notUp, doaliases, NEW i \in Wanted(n)
            PROVE  \E k \in Listed(n) : ifihead[k].entry = buf_ifc[i]
        <4>1. HasEntry(buf_ifc[i]) /\ buf_ifc[i].name = n
          BY <2>1, <3>2, <3>3, <3>6 DEF IfiMade
        <4>2. PICK k \in DOMAIN ifihead : ifihead[k].entry = buf_ifc[i]
          BY <4>1 DEF HasEntry
        <4> QED
          BY <3>4, <4>1, <4>2
      <3>7. ASSUME n \notin notUp, ~doaliases, Wanted(n) # {}
            PROVE  \E k \in Listed(n), i \in Wanted(n) :
                       ifihead[k].entry = buf_ifc[i] /\ \A j \in Wanted(n) : i <= j
        <4>1. PICK i \in DOMAIN buf_ifc : Passed(i) /\ buf_ifc[i].name = n
          BY <3>2, <3>3, <3>7
        <4>2. FirstListed(i)
          BY <2>1, <3>7, <4>1 DEF IfiMade
        <4>3. PICK j \in DOMAIN buf_ifc :
                  /\ Passed(j) /\ buf_ifc[j].name = n /\ HasEntry(buf_ifc[j])
                  /\ \A m \in DOMAIN buf_ifc : Passed(m) /\ buf_ifc[m].name = n => j <= m
          BY <4>1, <4>2 DEF FirstListed
        <4>4. PICK k \in DOMAIN ifihead : ifihead[k].entry = buf_ifc[j]
          BY <4>3 DEF HasEntry
        <4>5. k \in Listed(n) /\ j \in Wanted(n) /\ \A m \in Wanted(n) : j <= m
          BY <3>2, <3>3, <3>4, <4>3, <4>4
        <4> QED
          BY <4>4, <4>5
      <3>8. \A j, k \in Listed(n) : ~ifihead[j].alias /\ ~ifihead[k].alias => j = k
        BY <2>1, <3>4 DEF IfiMade
      <3> QED
        BY <3>5, <3>6, <3>7, <3>8
    <2> QED
      BY <2>1, <2>3, <2>4, Zenon DEF InterfacesListed
  <1> QED
    BY <1>1, IfiInvariant, PTL

-----------------------------------------------------------------------------
(* The echo.                                                               *)

(* Concatenation, under a name that keeps the provers from rewriting it.   *)
Cat(s, t) == s \o t

(* What is on its way back, and all between the user and the screen.       *)
Back == Cat(Cat(recvline, read_buf), toClient)
Flight == Cat(Cat(Cat(Back, buf), toServer), sendline)

(* At most one line, which fits into recvline.                             *)
OneLine(s) == Len(s) < MAXLINE /\ \A k \in 1 .. Len(s) - 1 : fp[s[k]] # Newline

(* Bytes of the text: their places in it.                                  *)
Within(s) == \A k \in 1 .. Len(s) : s[k] \in 1 .. Len(fp)

EchoTyped ==
    /\ fp \in Texts \union {<<>>} /\ taken \in 0 .. Len(fp)
    /\ sendline \in Seq(Nat) /\ recvline \in Seq(Nat) /\ read_buf \in Seq(Nat)
    /\ shown \in Seq(Nat) /\ toServer \in Seq(Nat) /\ toClient \in Seq(Nat)
    /\ buf \in Seq(Nat) /\ written \in Seq(Nat)
    /\ srv \in {"read", "Writen", "closed"}

(* Where nothing is left when client or server has come so far.            *)
EchoIdle ==
    /\ srv \in {"read", "closed"} => buf = <<>>
    /\ srv = "closed" => toServer = <<>>
    /\ cli = "Readline" => sendline = <<>>
    /\ cli \in {"start", "Fgets", "return"} => Flight = <<>>
    /\ cli = "start" => taken = 0

(* What has been written is on the screen or on its way, but for what went *)
(* with the server; and only one line is on its way.                       *)
EchoKept ==
    /\ srv # "closed" => OneLine(Flight) /\ written = Cat(shown, Flight)
    /\ srv = "closed" =>
         OneLine(Back) /\ \E t \in Seq(Nat) : written = Cat(Cat(shown, Back), t)

EchoInv == EchoTyped /\ EchoIdle /\ EchoKept

(* What the library says of concatenation.                                 *)
LEMMA CatType == \A s, t \in Seq(Nat) : Cat(s, t) \in Seq(Nat)
  BY ConcatProperties DEF Cat

(* Concatenation: it is associative,                                       *)
LEMMA CatAssoc == \A s, t, u \in Seq(Nat) : Cat(Cat(s, t), u) = Cat(s, Cat(t, u))
  <1>1. ASSUME NEW s \in Seq(Nat), NEW t \in Seq(Nat), NEW u \in Seq(Nat)
        PROVE  Cat(Cat(s, t), u) = Cat(s, Cat(t, u))
    BY ConcatAssociative, SMTT(20) DEF Cat
  <1> QED
    BY <1>1

(* nothing comes of nothing,                                               *)
LEMMA CatEmpty == \A s, t \in Seq(Nat) : Cat(s, t) = <<>> <=> s = <<>> /\ t = <<>>
  BY ConcatEqualIffEmpty DEF Cat

(* the empty sequence adds nothing,                                        *)
LEMMA CatNone == \A s \in Seq(Nat) : Cat(s, <<>>) = s /\ Cat(<<>>, s) = s
  BY ConcatEmptySeq DEF Cat

(* and the places of its elements.                                         *)
LEMMA CatIndex ==
    \A s, t \in Seq(Nat) :
        /\ Len(Cat(s, t)) = Len(s) + Len(t)
        /\ \A i \in 1 .. Len(s) + Len(t) :
              Cat(s, t)[i] = IF i <= Len(s) THEN s[i] ELSE t[i - Len(s)]
  BY ConcatProperties DEF Cat

(* A part moved from the front of a sequence to the end of another.        *)
LEMMA Moved ==
    ASSUME NEW x \in Seq(Nat), NEW y \in Seq(Nat), NEW z \in Seq(Nat), NEW n \in 1 .. Len(z)
    PROVE  /\ SubSeq(z, 1, n) \in Seq(Nat) /\ SubSeq(z, n + 1, Len(z)) \in Seq(Nat)
           /\ Cat(SubSeq(z, 1, n), SubSeq(z, n + 1, Len(z))) = z
           /\ Cat(y, SubSeq(z, 1, n)) \in Seq(Nat)
           /\ Cat(Cat(y, SubSeq(z, 1, n)), SubSeq(z, n + 1, Len(z))) = Cat(y, z)
           /\ Cat(Cat(x, Cat(y, SubSeq(z, 1, n))), SubSeq(z, n + 1, Len(z))) = Cat(Cat(x, y), z)
  <1>1. Len(z) \in Nat
    OBVIOUS
  <1>2. SubSeq(z, 1, n) \in Seq(Nat)
    <2>1. \A i \in 1 .. n : z[i] \in Nat
      BY <1>1, ElementOfSeq
    <2> QED
      BY <2>1, SubSeqProperties
  <1>3. SubSeq(z, n + 1, Len(z)) \in Seq(Nat)
    <2>1. \A i \in n + 1 .. Len(z) : z[i] \in Nat
      BY <1>1, ElementOfSeq
    <2> QED
      BY <1>1, <2>1, SubSeqProperties
  <1>4. Cat(SubSeq(z, 1, n), SubSeq(z, n + 1, Len(z))) = z
    <2>1. 1 \in 1 .. Len(z) + 1 /\ n \in 1 - 1 .. Len(z) /\ Len(z) \in n .. Len(z)
      BY <1>1
    <2>2. SubSeq(z, 1, n) \o SubSeq(z, n + 1, Len(z)) = SubSeq(z, 1, Len(z))
      BY <2>1, ConcatAdjacentSubSeq
    <2>3. SubSeq(z, 1, Len(z)) = z
      BY SubSeqFull
    <2>4. \A s, t : Cat(s, t) = s \o t
      BY DEF Cat
    <2> QED
      BY <2>2, <2>3, <2>4, Zenon
  <1>5. PICK a \in Seq(Nat), b \in Seq(Nat) : a = SubSeq(z, 1, n) /\ b = SubSeq(z, n + 1, Len(z))
    BY <1>2, <1>3
  <1>6. Cat(a, b) = z
    BY <1>4, <1>5, Zenon
  <1>7. Cat(y, a) \in Seq(Nat)
    BY CatType, Zenon
  <1>8. Cat(Cat(y, a), b) = Cat(y, z)
    <2>1. Cat(Cat(y, a), b) = Cat(y, Cat(a, b))
      BY CatAssoc, ZenonT(40)
    <2> QED
      BY <1>6, <2>1, Zenon
  <1>9. Cat(Cat(x, Cat(y, a)), b) = Cat(Cat(x, y), z)
    <2>1. PICK p \in Seq(Nat) : p = Cat(y, a)
      BY <1>7
    <2>2. Cat(Cat(x, p), b) = Cat(x, Cat(p, b))
      BY CatAssoc
    <2>3. Cat(Cat(x, y), z) = Cat(x, Cat(y, z))
      BY CatAssoc
    <2> QED
      BY <1>8, <2>1, <2>2, <2>3, Zenon
  <1> QED
    BY <1>2, <1>3, <1>4, <1>5, <1>7, <1>8, <1>9, Zenon

(* A sequence is a prefix of itself with more behind it.                   *)
LEMMA PrefixOfCat == \A s, t \in Seq(Nat) : IsPrefix(s, Cat(s, t))
  <1> SUFFICES ASSUME NEW s \in Seq(Nat), NEW t \in Seq(Nat) PROVE IsPrefix(s, Cat(s, t))
    OBVIOUS
  <1> QED
    BY DEF IsPrefix, Cat

(* The head of a sequence moved to the end of another.                     *)
LEMMA HeadMoved ==
    ASSUME NEW r \in Seq(Nat), NEW b \in Seq(Nat), b # <<>>
    PROVE  /\ Head(b) \in Nat /\ Tail(b) \in Seq(Nat) /\ Append(r, Head(b)) \in Seq(Nat)
           /\ Cat(Append(r, Head(b)), Tail(b)) = Cat(r, b)
  <1>1. Head(b) \in Nat /\ Tail(b) \in Seq(Nat) /\ Tail(b) = SubSeq(b, 2, Len(b)) /\ Len(b) \in Nat \ {0}
    BY HeadTailProperties, TailIsSubSeq, EmptySeq
  <1>2. Append(r, Head(b)) = Cat(r, <<Head(b)>>) /\ Append(r, Head(b)) \in Seq(Nat)
    BY <1>1, AppendIsConcat, AppendProperties DEF Cat
  <1>3. SubSeq(b, 1, 1) = <<Head(b)>>
    <2>1. /\ SubSeq(b, 1, 1) \in Seq(Nat) /\ Len(SubSeq(b, 1, 1)) = 1
          /\ SubSeq(b, 1, 1)[1] = b[1]
      <3>1. b[1] \in Nat
        BY <1>1, ElementOfSeq
      <3>2. \A i \in 1 .. 1 : b[i] \in Nat
        BY <3>1
      <3>3. /\ SubSeq(b, 1, 1) \in Seq(Nat)
            /\ Len(SubSeq(b, 1, 1)) = IF 1 <= 1 THEN 1 - 1 + 1 ELSE 0
            /\ \A i \in 1 .. 1 - 1 + 1 : SubSeq(b, 1, 1)[i] = b[1 + i - 1]
        BY <3>2, SubSeqProperties
      <3> QED
        BY <3>3
    <2>2. b[1] = Head(b)
      BY <1>1
    <2>3. <<Head(b)>> \in Seq(Nat) /\ Len(<<Head(b)>>) = 1 /\ <<Head(b)>>[1] = Head(b)
      BY <1>1
    <2>4. PICK s \in Seq(Nat) : s = SubSeq(b, 1, 1)
      BY <2>1, Zenon
    <2>5. Len(s) = Len(<<Head(b)>>) /\ \A i \in 1 .. Len(s) : s[i] = <<Head(b)>>[i]
      <3>1. Len(s) = 1 /\ s[1] = <<Head(b)>>[1]
        BY <2>1, <2>2, <2>3, <2>4, Zenon
      <3> QED
        BY <2>3, <3>1
    <2>6. s = <<Head(b)>>
      BY <2>3, <2>5, SeqEqual
    <2> QED
      BY <2>4, <2>6
  <1>4. Cat(Cat(r, SubSeq(b, 1, 1)), SubSeq(b, 2, Len(b))) = Cat(r, b)
    <2>1. PICK n \in 1 .. Len(b) : n = 1
      BY <1>1
    <2>2. Cat(Cat(r, SubSeq(b, 1, n)), SubSeq(b, n + 1, Len(b))) = Cat(r, b)
      BY Moved
    <2>3. n + 1 = 2
      BY <2>1
    <2> QED
      BY <2>1, <2>2, <2>3, Zenon
  <1> QED
    BY <1>1, <1>2, <1>3, <1>4, Zenon

(* A part of a line is one.                                                *)
LEMMA PartOfLine ==
    ASSUME NEW x \in Seq(Nat), NEW y \in Seq(Nat), OneLine(Cat(x, y))
    PROVE  OneLine(x)
  <1>1. Len(x) \in Nat /\ Len(y) \in Nat
    OBVIOUS
  <1>2. PICK s : s = Cat(x, y)
    OBVIOUS
  <1>3. /\ Len(s) = Len(x) + Len(y)
        /\ \A i \in 1 .. Len(x) + Len(y) : s[i] = IF i <= Len(x) THEN x[i] ELSE y[i - Len(x)]
    BY <1>2, CatIndex, Zenon
  <1>4. Len(s) < MAXLINE /\ \A k \in 1 .. Len(s) - 1 : fp[s[k]] # Newline
    BY <1>2 DEF OneLine
  <1>5. \A k \in 1 .. Len(x) - 1 : k \in 1 .. Len(s) - 1 /\ s[k] = x[k]
    BY <1>1, <1>3
  <1>6. Len(x) < MAXLINE
    BY <1>1, <1>3, <1>4, MaxlineAssumption
  <1> QED
    BY <1>4, <1>5, <1>6 DEF OneLine

(* There is nothing behind the end of a line.                              *)
LEMMA LineEnds ==
    ASSUME NEW r \in Seq(Nat), NEW b \in Seq(Nat), NEW y \in Seq(Nat), b # <<>>,
           OneLine(Cat(Cat(r, b), y)),
           fp[Head(b)] = Newline \/ Len(Append(r, Head(b))) = MAXLINE - 1
    PROVE  Tail(b) = <<>> /\ y = <<>>
  <1>1. /\ Len(b) \in Nat \ {0} /\ Len(r) \in Nat /\ Len(y) \in Nat /\ Head(b) = b[1]
        /\ Tail(b) \in Seq(Nat) /\ Len(Tail(b)) = Len(b) - 1
        /\ Len(Append(r, Head(b))) = Len(r) + 1
    BY EmptySeq, HeadTailProperties, LenProperties, AppendProperties, SMTT(20)
  <1> PICK lr \in Nat, lb \in Nat, ly \in Nat : lr = Len(r) /\ lb = Len(b) /\ ly = Len(y)
    BY <1>1
  <1>2. PICK x \in Seq(Nat) : x = Cat(r, b)
    BY CatType, Zenon
  <1>3. /\ Len(x) = lr + lb
        /\ \A i \in 1 .. lr + lb : x[i] = IF i <= lr THEN r[i] ELSE b[i - lr]
    <2>1. /\ Len(x) = Len(r) + Len(b)
          /\ \A i \in 1 .. Len(r) + Len(b) : x[i] = IF i <= Len(r) THEN r[i] ELSE b[i - Len(r)]
      BY <1>2, CatIndex, Zenon
    <2> QED
      BY <2>1
  <1>4. PICK s \in Seq(Nat) : s = Cat(x, y)
    BY CatType, Zenon
  <1>5. /\ Len(s) = Len(x) + ly
        /\ \A i \in 1 .. Len(x) + ly : s[i] = IF i <= Len(x) THEN x[i] ELSE y[i - Len(x)]
    <2>1. /\ Len(s) = Len(x) + Len(y)
          /\ \A i \in 1 .. Len(x) + Len(y) : s[i] = IF i <= Len(x) THEN x[i] ELSE y[i - Len(x)]
      BY <1>4, CatIndex, Zenon
    <2> QED
      BY <2>1
  <1>6. OneLine(s)
    BY <1>2, <1>4, Zenon
  <1>7. lb >= 1
    BY <1>1
  <1>8. s[lr + 1] = b[1]
    <2>1. lr + 1 \in 1 .. lr + lb /\ lr + 1 \in 1 .. lr + lb + ly /\ lr + 1 <= lr + lb
      BY <1>7
    <2>2. ~(lr + 1 <= lr) /\ lr + 1 - lr = 1
      OBVIOUS
    <2>3. s[lr + 1] = x[lr + 1]
      BY <1>3, <1>5, <2>1
    <2>4. PICK k \in 1 .. lr + lb : k = lr + 1
      BY <2>1
    <2>5. x[k] = IF k <= lr THEN r[k] ELSE b[k - lr]
      BY <1>3
    <2>6. x[k] = b[k - lr] /\ k - lr = 1
      BY <2>4, <2>5
    <2> QED
      BY <2>3, <2>4, <2>6, Zenon
  <1>9. Len(s) = lr + lb + ly
    BY <1>3, <1>5
  <1>10. lr + 1 \notin 1 .. Len(s) - 1
    <2>1. CASE fp[Head(b)] = Newline
      <3>1. fp[s[lr + 1]] = Newline
        BY <1>1, <1>8, <2>1, Zenon
      <3> QED
        BY <1>6, <3>1, Zenon DEF OneLine
    <2>2. CASE Len(Append(r, Head(b))) = MAXLINE - 1
      <3>1. Len(s) < MAXLINE /\ MAXLINE \in Nat
        BY <1>6, MaxlineAssumption DEF OneLine
      <3>2. lr + 1 = MAXLINE - 1
        BY <1>1, <2>2
      <3> QED
        BY <1>9, <3>1, <3>2
    <2> QED
      BY <2>1, <2>2
  <1>11. ly = 0 /\ lb = 1
    BY <1>7, <1>9, <1>10, SMTT(20)
  <1>12. Len(Tail(b)) = 0 /\ Len(y) = 0
    BY <1>1, <1>11
  <1> QED
    BY <1>1, <1>12, EmptySeq

(* What is on its way is made of sequences.                                *)
LEMMA EchoSeqs ==
    EchoTyped =>
           /\ Cat(recvline, read_buf) \in Seq(Nat) /\ Back \in Seq(Nat)
           /\ Cat(Back, buf) \in Seq(Nat) /\ Cat(Cat(Back, buf), toServer) \in Seq(Nat)
           /\ Flight \in Seq(Nat)
           /\ Cat(buf, toServer) \in Seq(Nat) /\ Cat(Cat(buf, toServer), sendline) \in Seq(Nat)
           /\ Flight = Cat(Back, Cat(Cat(buf, toServer), sendline))
  <1> SUFFICES ASSUME EchoTyped
               PROVE  /\ Cat(recvline, read_buf) \in Seq(Nat) /\ Back \in Seq(Nat)
                      /\ Cat(Back, buf) \in Seq(Nat) /\ Cat(Cat(Back, buf), toServer) \in Seq(Nat)
                      /\ Flight \in Seq(Nat)
                      /\ Cat(buf, toServer) \in Seq(Nat)
                      /\ Cat(Cat(buf, toServer), sendline) \in Seq(Nat)
                      /\ Flight = Cat(Back, Cat(Cat(buf, toServer), sendline))
    OBVIOUS
  <1>0. buf \in Seq(Nat) /\ toServer \in Seq(Nat) /\ sendline \in Seq(Nat)
    BY DEF EchoTyped
  <1>1. Cat(recvline, read_buf) \in Seq(Nat) /\ Cat(buf, toServer) \in Seq(Nat)
    BY CatType, Zenon DEF EchoTyped
  <1>2. Back \in Seq(Nat) /\ Cat(Cat(buf, toServer), sendline) \in Seq(Nat)
    BY <1>1, CatType, Zenon DEF EchoTyped, Back
  <1>3. Cat(Back, buf) \in Seq(Nat)
    BY <1>2, CatType, Zenon DEF EchoTyped
  <1>4. Cat(Cat(Back, buf), toServer) \in Seq(Nat)
    BY <1>3, CatType, Zenon DEF EchoTyped
  <1>5. Flight \in Seq(Nat)
    BY <1>4, CatType, Zenon DEF EchoTyped, Flight
  <1>6. Cat(Cat(Back, buf), toServer) = Cat(Back, Cat(buf, toServer))
    <2>1. PICK x \in Seq(Nat), y \in Seq(Nat), z \in Seq(Nat) : x = Back /\ y = buf /\ z = toServer
      BY <1>0, <1>2
    <2>2. Cat(Cat(x, y), z) = Cat(x, Cat(y, z))
      BY CatAssoc, Zenon
    <2> QED
      BY <2>1, <2>2, Zenon
  <1>7. Cat(Cat(Back, Cat(buf, toServer)), sendline) = Cat(Back, Cat(Cat(buf, toServer), sendline))
    <2>1. PICK m \in Seq(Nat) : m = Cat(buf, toServer)
      BY <1>1
    <2>2. PICK x \in Seq(Nat), y \in Seq(Nat) : x = Back /\ y = sendline
      BY <1>0, <1>2
    <2>3. Cat(Cat(x, m), y) = Cat(x, Cat(m, y))
      BY CatAssoc, Zenon
    <2> QED
      BY <2>1, <2>2, <2>3, Zenon
  <1> QED
    BY <1>1, <1>2, <1>3, <1>4, <1>5, <1>6, <1>7, Zenon DEF Flight

(* Nothing is on its way when nothing is in any of the six.                *)
LEMMA EchoEmpty ==
    EchoTyped =>
           /\ Flight = <<>> <=> Back = <<>> /\ buf = <<>> /\ toServer = <<>> /\ sendline = <<>>
           /\ Back = <<>> <=> recvline = <<>> /\ read_buf = <<>> /\ toClient = <<>>
  <1> SUFFICES ASSUME EchoTyped
               PROVE  /\ Flight = <<>> <=> Back = <<>> /\ buf = <<>> /\ toServer = <<>> /\ sendline = <<>>
                      /\ Back = <<>> <=> recvline = <<>> /\ read_buf = <<>> /\ toClient = <<>>
    OBVIOUS
  <1>1. /\ Cat(recvline, read_buf) \in Seq(Nat) /\ Back \in Seq(Nat)
        /\ Cat(Back, buf) \in Seq(Nat) /\ Cat(Cat(Back, buf), toServer) \in Seq(Nat)
    BY EchoSeqs
  <1>2. Cat(recvline, read_buf) = <<>> <=> recvline = <<>> /\ read_buf = <<>>
    BY CatEmpty, Zenon DEF EchoTyped
  <1>3. Back = <<>> <=> Cat(recvline, read_buf) = <<>> /\ toClient = <<>>
    BY <1>1, CatEmpty, Zenon DEF EchoTyped, Back
  <1>4. Flight = <<>> <=> Cat(Cat(Back, buf), toServer) = <<>> /\ sendline = <<>>
    BY <1>1, CatEmpty, Zenon DEF EchoTyped, Flight
  <1>5. Cat(Cat(Back, buf), toServer) = <<>> <=> Cat(Back, buf) = <<>> /\ toServer = <<>>
    BY <1>1, CatEmpty, Zenon DEF EchoTyped
  <1>6. Cat(Back, buf) = <<>> <=> Back = <<>> /\ buf = <<>>
    BY <1>1, CatEmpty, Zenon DEF EchoTyped
  <1> QED
    BY <1>2, <1>3, <1>4, <1>5, <1>6, Zenon

-----------------------------------------------------------------------------
(* Every text, and what there is at the beginning.                         *)
LEMMA TextTyped ==
    ASSUME NEW t \in Texts \union {<<>>}
    PROVE  t \in Seq({Letter, Newline, Nul}) /\ Len(t) \in Nat
  <1>1. t \in Seq({Letter, Newline, Nul})
    <2>1. <<>> \in Seq({Letter, Newline, Nul})
      OBVIOUS
    <2> QED
      BY <2>1, TextsAssumption, Zenon
  <1> QED
    BY <1>1, LenProperties

(* When nothing is in flight, all that was written has been shown.         *)
LEMMA NothingOnItsWay ==
    EchoTyped /\ Flight = <<>> =>
        OneLine(Flight) /\ OneLine(Back) /\ Cat(shown, Flight) = shown /\ Cat(shown, Back) = shown
  <1> SUFFICES ASSUME EchoTyped, Flight = <<>>
               PROVE  /\ OneLine(Flight) /\ OneLine(Back)
                      /\ Cat(shown, Flight) = shown /\ Cat(shown, Back) = shown
    OBVIOUS
  <1>1. Flight = <<>> /\ Back = <<>>
    BY EchoEmpty
  <1>2. OneLine(<<>>)
    <2>1. Len(<<>>) = 0
      OBVIOUS
    <2> QED
      BY <2>1, MaxlineAssumption DEF OneLine
  <1>3. Cat(shown, <<>>) = shown
    BY CatNone, Zenon DEF EchoTyped
  <1> QED
    BY <1>1, <1>2, <1>3, Zenon

(* The same of the next state.                                             *)
EchoShape ==
    /\ Back \in Seq(Nat) /\ Flight \in Seq(Nat)
    /\ Flight = <<>> <=> Back = <<>> /\ buf = <<>> /\ toServer = <<>> /\ sendline = <<>>
    /\ Back = <<>> <=> recvline = <<>> /\ read_buf = <<>> /\ toClient = <<>>
    /\ Flight = <<>> =>
         OneLine(Flight) /\ OneLine(Back) /\ Cat(shown, Flight) = shown /\ Cat(shown, Back) = shown
    /\ Flight = Cat(Back, Cat(Cat(buf, toServer), sendline))

(* The shape of what is in flight follows from the types, in both states of*)
(* a step.                                                                 *)
LEMMA EchoShaped == (EchoTyped => EchoShape) /\ (EchoTyped' => EchoShape')
  <1>1. EchoTyped => EchoShape
    BY EchoSeqs, EchoEmpty, NothingOnItsWay DEF EchoShape
  <1> QED
    BY <1>1, PTL

(* The same facts in the next state, each by its name.                     *)
LEMMA EchoPrimed ==
    /\ EchoTyped' =>
         /\ Back' \in Seq(Nat) /\ Flight' \in Seq(Nat)
         /\ Flight' = <<>> <=> Back' = <<>> /\ buf' = <<>> /\ toServer' = <<>> /\ sendline' = <<>>
         /\ Back' = <<>> <=> recvline' = <<>> /\ read_buf' = <<>> /\ toClient' = <<>>
         /\ Flight' = Cat(Back', Cat(Cat(buf', toServer'), sendline'))
    /\ EchoTyped' /\ Flight' = <<>> =>
         OneLine(Flight)' /\ OneLine(Back)' /\ Cat(shown', Flight') = shown'
                                            /\ Cat(shown', Back') = shown'
  BY EchoShaped, Zenon DEF EchoShape

(* Steps that leave what is on its way as it is.                           *)
LEMMA SameOnItsWay ==
    ASSUME EchoInv, UNCHANGED <<fp, shown, written>>, srv = "closed" <=> srv' = "closed",
           srv # "closed" => Flight' = Flight, srv = "closed" => Back' = Back
    PROVE  EchoKept'
  <1>1. CASE srv # "closed"
    <2>1. OneLine(Flight) /\ written = Cat(shown, Flight) /\ Flight' = Flight
      BY <1>1 DEF EchoInv, EchoKept
    <2>2. OneLine(Flight)' /\ written' = Cat(shown', Flight')
      BY <2>1, Zenon DEF OneLine
    <2> QED
      BY <1>1, <2>2 DEF EchoKept
  <1>2. CASE srv = "closed"
    <2>1. /\ OneLine(Back) /\ Back' = Back
          /\ \E t \in Seq(Nat) : written = Cat(Cat(shown, Back), t)
      BY <1>2 DEF EchoInv, EchoKept
    <2>2. OneLine(Back)' /\ \E t \in Seq(Nat) : written' = Cat(Cat(shown', Back'), t)
      BY <2>1, Zenon DEF OneLine
    <2> QED
      BY <1>2, <2>2 DEF EchoKept
  <1> QED
    BY <1>1, <1>2

(* EchoInv holds before anything is written.                               *)
LEMMA EchoInitInv == EchoInit => EchoInv
  <1> SUFFICES ASSUME EchoInit PROVE EchoInv
    OBVIOUS
  <1>1. /\ fp = <<>> /\ taken = 0 /\ cli = "start" /\ srv = "read"
        /\ sendline = <<>> /\ recvline = <<>> /\ read_buf = <<>> /\ shown = <<>>
        /\ toServer = <<>> /\ toClient = <<>> /\ buf = <<>> /\ written = <<>>
    BY DEF EchoInit
  <1>2. <<>> \in Seq(Nat) /\ Len(<<>>) = 0
    OBVIOUS
  <1>3. EchoTyped
    BY <1>1, <1>2 DEF EchoTyped
  <1>4. Flight = <<>>
    BY <1>1, <1>3, EchoEmpty, Zenon
  <1>5. EchoIdle
    BY <1>1, <1>4, Zenon DEF EchoIdle
  <1>6. EchoKept
    BY <1>1, <1>3, <1>4, NothingOnItsWay DEF EchoKept
  <1> QED
    BY <1>3, <1>5, <1>6 DEF EchoInv

(* The text is chosen.                                                     *)
LEMMA StrCliInv == EchoInv /\ str_cli => EchoInv'
  <1> SUFFICES ASSUME EchoInv, str_cli PROVE EchoInv'
    OBVIOUS
  <1>1. /\ cli = "start" /\ fp' \in Texts /\ cli' = "Fgets"
        /\ UNCHANGED <<taken, began, sendline, recvline, read_buf, shown,
                       toServer, toClient, srv, buf, written>>
    BY DEF str_cli
  <1>2. EchoTyped /\ EchoIdle /\ EchoKept /\ Flight = <<>> /\ taken = 0
    BY <1>1 DEF EchoInv, EchoIdle
  <1>3. EchoTyped'
    <2>1. Len(fp') \in Nat
      BY <1>1, TextTyped
    <2> QED
      BY <1>1, <1>2, <2>1 DEF EchoTyped
  <1>4. Flight' = Flight
    BY <1>1, Zenon DEF Flight, Back
  <1>5. EchoIdle'
    BY <1>1, <1>2, <1>4, Zenon DEF EchoIdle
  <1>6. EchoKept'
    <2>1. OneLine(Flight)' /\ OneLine(Back)' /\ Cat(shown', Flight') = shown' /\ Cat(shown', Back') = shown'
      BY <1>2, <1>3, <1>4, EchoPrimed
    <2>2. CASE srv = "closed"
      <3>1. PICK t \in Seq(Nat) : written = Cat(Cat(shown, Back), t)
        BY <1>2, <2>2 DEF EchoKept
      <3>2. Back' = Back
        BY <1>1, Zenon DEF Back
      <3>3. written' = Cat(Cat(shown', Back'), t)
        BY <1>1, <3>1, <3>2, Zenon
      <3> QED
        BY <1>1, <2>1, <2>2, <3>3 DEF EchoKept
    <2>3. CASE srv # "closed"
      <3>1. written' = Cat(shown', Flight')
        <4>1. written = Cat(shown, Flight)
          BY <1>2, <2>3 DEF EchoKept
        <4> QED
          BY <1>1, <1>4, <4>1, Zenon
      <3> QED
        BY <1>1, <2>1, <2>3, <3>1 DEF EchoKept
    <2> QED
      BY <2>2, <2>3
  <1> QED
    BY <1>3, <1>5, <1>6 DEF EchoInv

(* Steps that do no more than to move the client or the server on.         *)
OnlyCli ==
    \/ Fgets_eof \/ cli_written \/ cli_err_sys
    \/ readline_eof /\ recvline = <<>>
    \/ UNCHANGED echoVars

(* Steps of the client that change nothing but its place.                  *)
LEMMA OnlyCliInv == EchoInv /\ OnlyCli => EchoInv'
  <1> SUFFICES ASSUME EchoInv, OnlyCli
               PROVE  EchoInv'
    OBVIOUS
  <1>1. /\ UNCHANGED <<fp, taken, sendline, recvline, read_buf, shown,
                       toServer, toClient, srv, buf, written>>
        /\ \/ cli = "Fgets" /\ cli' = "return"
           \/ cli = "Writen" /\ sendline = <<>> /\ cli' = "Readline"
           \/ cli' \in {"err_sys", "err_quit"}
           \/ cli' = cli
    BY DEF OnlyCli, Fgets_eof, cli_written, cli_err_sys, readline_eof, echoVars
  <1>2. EchoTyped /\ EchoIdle /\ EchoKept
    BY DEF EchoInv
  <1>3. EchoTyped'
    BY <1>1, <1>2, Zenon DEF EchoTyped
  <1>4. Flight' = Flight /\ Back' = Back
    BY <1>1, Zenon DEF Flight, Back
  <1>5. EchoIdle'
    BY <1>1, <1>2, <1>4 DEF EchoIdle
  <1>6. EchoKept'
    BY <1>1, <1>4, SameOnItsWay
  <1> QED
    BY <1>3, <1>5, <1>6 DEF EchoInv

(* One round of the writen of the client.                                  *)
LEMMA CliWriteInv == EchoInv /\ cli_write => EchoInv'
  <1> SUFFICES ASSUME EchoInv, cli_write PROVE EchoInv'
    OBVIOUS
  <1>1. PICK n \in 1 .. Len(sendline) :
            /\ toServer' = IF srv = "closed" THEN <<>> ELSE Cat(toServer, SubSeq(sendline, 1, n))
            /\ sendline' = SubSeq(sendline, n + 1, Len(sendline))
    BY Zenon DEF cli_write, Cat
  <1>2. /\ cli = "Writen"
        /\ UNCHANGED <<fp, taken, began, cli, recvline, read_buf, shown, toClient, srv, buf, written>>
    BY DEF cli_write
  <1>3. EchoTyped /\ EchoIdle /\ EchoKept
    BY DEF EchoInv
  <1>4. sendline \in Seq(Nat) /\ toServer \in Seq(Nat) /\ Cat(Back, buf) \in Seq(Nat)
    BY <1>3, EchoSeqs DEF EchoTyped
  <1>5. /\ sendline' \in Seq(Nat) /\ Cat(toServer, SubSeq(sendline, 1, n)) \in Seq(Nat)
        /\ Cat(Cat(Cat(Back, buf), Cat(toServer, SubSeq(sendline, 1, n))), sendline')
             = Cat(Cat(Cat(Back, buf), toServer), sendline)
    <2>1. PICK x \in Seq(Nat), y \in Seq(Nat), z \in Seq(Nat) :
              x = Cat(Back, buf) /\ y = toServer /\ z = sendline
      BY <1>4
    <2>2. n \in 1 .. Len(z)
      BY <2>1, Zenon
    <2>3. /\ SubSeq(z, n + 1, Len(z)) \in Seq(Nat) /\ Cat(y, SubSeq(z, 1, n)) \in Seq(Nat)
          /\ Cat(Cat(x, Cat(y, SubSeq(z, 1, n))), SubSeq(z, n + 1, Len(z))) = Cat(Cat(x, y), z)
      BY <2>2, Moved
    <2> QED
      BY <1>1, <2>1, <2>3, Zenon
  <1>6. EchoTyped'
    <2>1. toServer' \in Seq(Nat)
      <3>1. <<>> \in Seq(Nat)
        OBVIOUS
      <3> QED
        BY <1>1, <1>5, <3>1, Zenon
    <2> QED
      BY <1>2, <1>3, <1>5, <2>1, Zenon DEF EchoTyped
  <1>7. Back' = Back
    BY <1>2, Zenon DEF Back
  <1>8. srv # "closed" => Flight' = Flight
    BY <1>1, <1>2, <1>5, <1>7, Zenon DEF Flight
  <1>9. EchoIdle'
    BY <1>1, <1>2, <1>3 DEF EchoIdle
  <1>10. EchoKept'
    BY <1>2, <1>7, <1>8, SameOnItsWay
  <1> QED
    BY <1>6, <1>9, <1>10 DEF EchoInv

(* One byte or more from the socket to the buffer of my_read.              *)
LEMMA MyReadInv == EchoInv /\ my_read => EchoInv'
  <1> SUFFICES ASSUME EchoInv, my_read PROVE EchoInv'
    OBVIOUS
  <1>1. PICK n \in 1 .. Len(toClient) :
            /\ read_buf' = SubSeq(toClient, 1, n)
            /\ toClient' = SubSeq(toClient, n + 1, Len(toClient))
    BY Zenon DEF my_read
  <1>2. /\ cli = "Readline" /\ read_buf = <<>>
        /\ UNCHANGED <<fp, taken, began, cli, sendline, recvline, shown, toServer, srv, buf, written>>
    BY DEF my_read
  <1>3. EchoTyped /\ EchoIdle
    BY DEF EchoInv
  <1>4. recvline \in Seq(Nat) /\ toClient \in Seq(Nat)
    BY <1>3 DEF EchoTyped
  <1>5. /\ read_buf' \in Seq(Nat) /\ toClient' \in Seq(Nat)
        /\ Cat(Cat(recvline, read_buf'), toClient') = Cat(recvline, toClient)
    <2>1. PICK y \in Seq(Nat), z \in Seq(Nat) : y = recvline /\ z = toClient
      BY <1>4
    <2>2. n \in 1 .. Len(z)
      BY <2>1, Zenon
    <2>3. /\ SubSeq(z, 1, n) \in Seq(Nat) /\ SubSeq(z, n + 1, Len(z)) \in Seq(Nat)
          /\ Cat(Cat(y, SubSeq(z, 1, n)), SubSeq(z, n + 1, Len(z))) = Cat(y, z)
      BY <2>2, Moved
    <2> QED
      BY <1>1, <2>1, <2>3, Zenon
  <1>6. EchoTyped'
    BY <1>2, <1>3, <1>5, Zenon DEF EchoTyped
  <1>7. Back' = Back
    <2>1. Cat(recvline, <<>>) = recvline
      BY <1>4, CatNone, Zenon
    <2> QED
      BY <1>2, <1>5, <2>1, Zenon DEF Back
  <1>8. Flight' = Flight
    BY <1>2, <1>7, Zenon DEF Flight
  <1>9. EchoIdle'
    BY <1>2, <1>3 DEF EchoIdle
  <1>10. EchoKept'
    BY <1>2, <1>7, <1>8, SameOnItsWay
  <1> QED
    BY <1>6, <1>9, <1>10 DEF EchoInv

(* A line is shown, and nothing else is on its way.                        *)
LEMMA LineShown ==
    ASSUME EchoInv, buf = <<>>, toServer = <<>>, sendline = <<>>,
           UNCHANGED <<fp, taken, sendline, toServer, toClient, srv, buf, written>>,
           shown' = Cat(shown, Back), recvline' = <<>>, read_buf' = <<>>, toClient = <<>>,
           cli' = "Fgets"
    PROVE  EchoInv'
  <1>1. EchoTyped /\ EchoIdle /\ EchoKept /\ shown \in Seq(Nat)
    BY DEF EchoInv, EchoTyped
  <1>2. Back \in Seq(Nat)
    BY <1>1, EchoSeqs
  <1>3. shown' \in Seq(Nat) /\ <<>> \in Seq(Nat)
    <2>1. Cat(shown, Back) \in Seq(Nat)
      BY <1>1, <1>2, CatType, Zenon
    <2> QED
      BY <2>1
  <1>4. EchoTyped'
    BY <1>1, <1>3, Zenon DEF EchoTyped
  <1>5. Flight' = <<>> /\ Back' = <<>>
    BY <1>4, EchoPrimed, Zenon
  <1>6. OneLine(Flight)' /\ OneLine(Back)' /\ Cat(shown', Flight') = shown' /\ Cat(shown', Back') = shown'
    BY <1>4, <1>5, EchoPrimed, Zenon
  <1>7. EchoIdle'
    BY <1>1, <1>5 DEF EchoIdle
  <1>8. CASE srv # "closed"
    <2>1. written = Cat(shown, Flight)
      BY <1>1, <1>8 DEF EchoKept
    <2>2. Flight = Back
      <3>1. Cat(Back, <<>>) = Back
        BY <1>2, CatNone, Zenon
      <3> QED
        BY <3>1, Zenon DEF Flight
    <2>3. written' = Cat(shown', Flight')
      BY <1>6, <2>1, <2>2, Zenon
    <2>4. EchoKept'
      BY <1>6, <1>8, <2>3 DEF EchoKept
    <2> QED
      BY <1>4, <1>7, <2>4 DEF EchoInv
  <1>9. CASE srv = "closed"
    <2>1. PICK t \in Seq(Nat) : written = Cat(Cat(shown, Back), t)
      BY <1>1, <1>9 DEF EchoKept
    <2>2. written' = Cat(Cat(shown', Back'), t)
      BY <1>6, <2>1, Zenon
    <2>3. EchoKept'
      BY <1>6, <1>9, <2>2 DEF EchoKept
    <2> QED
      BY <1>4, <1>7, <2>3 DEF EchoInv
  <1> QED
    BY <1>8, <1>9

(* One byte from the buffer of my_read to the line.                        *)
LEMMA ReadlineInv == EchoInv /\ readline => EchoInv'
  <1> SUFFICES ASSUME EchoInv, readline PROVE EchoInv'
    OBVIOUS
  <1> DEFINE c == Head(read_buf)
             line == Append(recvline, c)
  <1>1. /\ cli = "Readline" /\ read_buf # <<>> /\ read_buf' = Tail(read_buf)
        /\ IF fp[c] = Newline \/ Len(line) = MAXLINE - 1
           THEN shown' = Cat(shown, line) /\ recvline' = <<>> /\ cli' = "Fgets"
           ELSE recvline' = line /\ UNCHANGED <<shown, cli>>
        /\ UNCHANGED <<fp, taken, began, sendline, toServer, toClient, srv, buf, written>>
    BY Zenon DEF readline, Fputs, Cat
  <1>2. EchoTyped /\ EchoIdle /\ EchoKept /\ sendline = <<>>
    BY <1>1 DEF EchoInv, EchoIdle
  <1>3. recvline \in Seq(Nat) /\ read_buf \in Seq(Nat) /\ toClient \in Seq(Nat)
    BY <1>2 DEF EchoTyped
  <1>4. /\ Tail(read_buf) \in Seq(Nat) /\ line \in Seq(Nat)
        /\ Cat(line, Tail(read_buf)) = Cat(recvline, read_buf)
    BY <1>1, <1>3, HeadMoved
  <1>5. CASE fp[c] = Newline \/ Len(line) = MAXLINE - 1
    <2> DEFINE rest == Cat(Cat(buf, toServer), sendline)
    <2>1. rest \in Seq(Nat) /\ Flight = Cat(Back, rest) /\ Cat(recvline, read_buf) \in Seq(Nat)
      BY <1>2, EchoSeqs
    <2>2. Tail(read_buf) = <<>> /\ toClient = <<>> /\ buf = <<>> /\ toServer = <<>>
      <3>1. CASE srv = "closed"
        <4>1. OneLine(Cat(Cat(recvline, read_buf), toClient))
          BY <1>2, <3>1 DEF EchoKept, Back
        <4>2. Tail(read_buf) = <<>> /\ toClient = <<>>
          BY <1>1, <1>3, <1>5, <4>1, LineEnds
        <4> QED
          BY <1>2, <3>1, <4>2 DEF EchoIdle
      <3>2. CASE srv # "closed"
        <4>1. OneLine(Flight)
          BY <1>2, <3>2 DEF EchoKept
        <4>2. PICK x \in Seq(Nat), y \in Seq(Nat), z \in Seq(Nat) :
                  x = Cat(recvline, read_buf) /\ y = toClient /\ z = rest
          BY <1>3, <2>1
        <4>3. Cat(Cat(x, y), z) = Cat(x, Cat(y, z)) /\ Cat(y, z) \in Seq(Nat)
          BY CatAssoc, CatType
        <4>4. Flight = Cat(Cat(recvline, read_buf), Cat(y, z))
          BY <2>1, <4>2, <4>3, Zenon DEF Back
        <4>5. Tail(read_buf) = <<>> /\ Cat(y, z) = <<>>
          <5>1. PICK w \in Seq(Nat) : w = Cat(y, z)
            BY <4>3
          <5>2. OneLine(Cat(Cat(recvline, read_buf), w))
            BY <4>1, <4>4, <5>1, Zenon
          <5>3. Tail(read_buf) = <<>> /\ w = <<>>
            BY <1>1, <1>3, <1>5, <5>2, LineEnds
          <5> QED
            BY <5>1, <5>3
        <4>6. y = <<>> /\ z = <<>>
          BY <4>5, CatEmpty
        <4>7. Cat(buf, toServer) \in Seq(Nat) /\ buf \in Seq(Nat) /\ toServer \in Seq(Nat)
              /\ sendline \in Seq(Nat)
          BY <1>2, EchoSeqs DEF EchoTyped
        <4>8. Cat(buf, toServer) = <<>>
          BY <4>2, <4>6, <4>7, CatEmpty, Zenon
        <4>9. buf = <<>> /\ toServer = <<>>
          BY <4>7, <4>8, CatEmpty, Zenon
        <4> QED
          BY <4>2, <4>5, <4>6, <4>9
      <3> QED
        BY <3>1, <3>2
    <2>3. Back = line
      <3>1. Cat(line, <<>>) = line
        BY <1>4, CatNone, Zenon
      <3>2. Cat(Cat(recvline, read_buf), <<>>) = Cat(recvline, read_buf)
        BY <2>1, CatNone, Zenon
      <3> QED
        BY <1>4, <2>2, <3>1, <3>2, Zenon DEF Back
    <2>4. shown' = Cat(shown, Back) /\ recvline' = <<>> /\ read_buf' = <<>> /\ cli' = "Fgets"
      BY <1>1, <1>5, <2>2, <2>3, Zenon
    <2> QED
      BY <1>1, <1>2, <2>2, <2>4, LineShown
  <1>6. CASE ~(fp[c] = Newline \/ Len(line) = MAXLINE - 1)
    <2>1. recvline' = line /\ UNCHANGED <<shown, cli>>
      BY <1>1, <1>6
    <2>2. Cat(recvline', read_buf') = Cat(recvline, read_buf)
      BY <1>1, <1>4, <2>1, Zenon
    <2>3. EchoTyped'
      BY <1>1, <1>2, <1>4, <2>1, Zenon DEF EchoTyped
    <2>4. Back' = Back
      BY <1>1, <2>2, Zenon DEF Back
    <2>5. Flight' = Flight
      BY <1>1, <2>4, Zenon DEF Flight
    <2>6. EchoIdle'
      BY <1>1, <1>2, <2>1 DEF EchoIdle
    <2>7. EchoKept'
      BY <1>1, <2>1, <2>4, <2>5, SameOnItsWay
    <2> QED
      BY <2>3, <2>6, <2>7 DEF EchoInv
  <1> QED
    BY <1>5, <1>6

(* The server has gone and the line is shown as it is.                     *)
LEMMA ReadlineEofInv == EchoInv /\ readline_eof => EchoInv'
  <1> SUFFICES ASSUME EchoInv, readline_eof, recvline # <<>> PROVE EchoInv'
    BY OnlyCliInv DEF OnlyCli
  <1>1. /\ cli = "Readline" /\ read_buf = <<>> /\ toClient = <<>> /\ srv = "closed"
        /\ shown' = Cat(shown, recvline) /\ recvline' = <<>> /\ cli' = "Fgets"
        /\ UNCHANGED <<fp, taken, began, sendline, read_buf, toServer, toClient, srv, buf, written>>
    BY Zenon DEF readline_eof, Fputs, Cat
  <1>2. sendline = <<>> /\ buf = <<>> /\ toServer = <<>> /\ recvline \in Seq(Nat)
    BY <1>1 DEF EchoInv, EchoIdle, EchoTyped
  <1>3. Back = recvline
    <2>1. Cat(recvline, <<>>) = recvline
      BY <1>2, CatNone, Zenon
    <2> QED
      BY <1>1, <2>1, Zenon DEF Back
  <1> QED
    BY <1>1, <1>2, <1>3, LineShown

-----------------------------------------------------------------------------
(* Fgets stops somewhere, behind a line that fits.                         *)
LEMMA LineEndFound ==
    ASSUME EchoTyped, taken < Len(fp)
    PROVE  /\ LineEnd(taken) \in taken + 1 .. Len(fp)
           /\ \A k \in taken + 1 .. LineEnd(taken) - 1 : fp[k] # Newline
           /\ LineEnd(taken) - taken < MAXLINE
  <1>1. taken \in Nat /\ Len(fp) \in Nat /\ MAXLINE \in Nat /\ MAXLINE >= 2
    <2>1. Len(fp) \in Nat
      BY TextTyped DEF EchoTyped
    <2> QED
      BY <2>1, MaxlineAssumption DEF EchoTyped
  <1> DEFINE T == {b \in taken + 1 .. Len(fp) :
                     fp[b] = Newline \/ b - taken = MAXLINE - 1 \/ b = Len(fp)}
  <1>2. T \subseteq Nat /\ Len(fp) \in T
    BY <1>1
  <1>3. PICK b \in T : \A y \in T : b <= y
    BY <1>2, LeastNumber
  <1>4. \A k \in taken + 1 .. b - 1 : fp[k] # Newline
    <2> SUFFICES ASSUME NEW k \in taken + 1 .. b - 1, fp[k] = Newline PROVE FALSE
      OBVIOUS
    <2>1. k \in T /\ ~(b <= k)
      BY <1>1
    <2> QED
      BY <1>3, <2>1
  <1>5. b - taken < MAXLINE
    <2> SUFFICES ASSUME ~(b - taken < MAXLINE) PROVE FALSE
      OBVIOUS
    <2>1. taken + MAXLINE - 1 \in T /\ ~(b <= taken + MAXLINE - 1)
      BY <1>1
    <2> QED
      BY <1>3, <2>1
  <1>6. \E x \in taken + 1 .. Len(fp) :
            /\ \A k \in taken + 1 .. x - 1 : fp[k] # Newline
            /\ x - taken < MAXLINE
            /\ fp[x] = Newline \/ x - taken = MAXLINE - 1 \/ x = Len(fp)
    BY <1>4, <1>5
  <1> HIDE DEF T
  <1> QED
    BY <1>6 DEF LineEnd

(* What strlen finds in it is a line, too.                                 *)
LEMMA StringIsLine ==
    ASSUME EchoTyped, NEW b \in Nat, b \in taken + 1 .. Len(fp),
           \A k \in taken + 1 .. b - 1 : fp[k] # Newline, b - taken < MAXLINE
    PROVE  /\ String(taken, b) \in Seq(Nat) /\ OneLine(String(taken, b))
           /\ Within(String(taken, b))
  <1>1. taken \in Nat /\ MAXLINE \in Nat
    <2>1. Len(fp) \in Nat
      BY TextTyped DEF EchoTyped
    <2> QED
      BY <2>1, MaxlineAssumption DEF EchoTyped
  <1> DEFINE T == {x \in taken .. b : x = b \/ fp[x + 1] = Nul}
  <1>2. T \subseteq Nat /\ b \in T
    BY <1>1
  <1>3. PICK m \in T : \A y \in T : m <= y
    BY <1>2, LeastNumber
  <1>4. \A k \in taken + 1 .. m : fp[k] # Nul
    <2> SUFFICES ASSUME NEW k \in taken + 1 .. m, fp[k] = Nul PROVE FALSE
      OBVIOUS
    <2>1. k - 1 \in taken .. b /\ k - 1 + 1 = k /\ ~(m <= k - 1)
      BY <1>1
    <2>2. k - 1 \in T
      BY <2>1
    <2> QED
      BY <1>3, <2>1, <2>2
  <1>5. \E x \in taken .. b :
            /\ \A k \in taken + 1 .. x : fp[k] # Nul
            /\ x < b => fp[x + 1] = Nul
    BY <1>1, <1>4
  <1> DEFINE c == CHOOSE x \in taken .. b :
                     /\ \A k \in taken + 1 .. x : fp[k] # Nul
                     /\ x < b => fp[x + 1] = Nul
  <1>6. c \in taken .. b
    BY <1>5
  <1>7. String(taken, b) = Positions(taken, c)
    BY Zenon DEF String
  <1> HIDE DEF c, T
  <1>8. PICK n \in Nat : n = c - taken /\ n <= b - taken
    BY <1>1, <1>6
  <1>9. Positions(taken, c) = [k \in 1 .. n |-> taken + k]
    BY <1>8, Zenon DEF Positions
  <1>10. PICK s \in Seq(Nat) : /\ s = [k \in 1 .. n |-> taken + k]
                               /\ Len(s) = n /\ \A k \in 1 .. n : s[k] = taken + k
    <2>1. PICK f \in [1 .. n -> Nat] : f = [k \in 1 .. n |-> taken + k]
      <3>1. \A k \in 1 .. n : taken + k \in Nat
        BY <1>1
      <3>2. [k \in 1 .. n |-> taken + k] \in [1 .. n -> Nat]
        BY <3>1, Zenon
      <3> QED
        BY <3>2, Zenon
    <2>2. f \in Seq(Nat)
      BY SeqDef
    <2>3. DOMAIN f = 1 .. n /\ \A k \in 1 .. n : f[k] = taken + k
      BY <2>1
    <2>4. Len(f) = n
      BY <2>2, <2>3, LenProperties
    <2> QED
      BY <2>1, <2>2, <2>3, <2>4, Zenon
  <1>11. OneLine(s)
    <2>1. \A k \in 1 .. n - 1 : taken + k \in taken + 1 .. b - 1
      BY <1>1, <1>8
    <2>2. \A k \in 1 .. n - 1 : fp[s[k]] # Newline
      BY <1>10, <2>1
    <2>3. n < MAXLINE
      BY <1>1, <1>8
    <2> QED
      BY <1>10, <2>2, <2>3 DEF OneLine
  <1>12. Within(s)
    <2>1. \A k \in 1 .. n : taken + k \in 1 .. Len(fp)
      BY <1>1, <1>8
    <2> QED
      BY <1>10, <2>1 DEF Within
  <1> QED
    BY <1>7, <1>9, <1>10, <1>11, <1>12, Zenon

(* The user's next line.                                                   *)
LEMMA FgetsInv == EchoInv /\ Fgets => EchoInv'
  <1> SUFFICES ASSUME EchoInv, Fgets PROVE EchoInv'
    OBVIOUS
  <1>1. /\ cli = "Fgets" /\ taken < Len(fp)
        /\ taken' = LineEnd(taken) /\ sendline' = String(taken, taken')
        /\ written' = Cat(written, sendline') /\ cli' = "Writen"
        /\ UNCHANGED <<fp, recvline, read_buf, shown, toServer, toClient, srv, buf>>
    BY Zenon DEF Fgets, Cat
  <1>2. EchoTyped /\ EchoIdle /\ EchoKept /\ Flight = <<>>
    BY <1>1 DEF EchoInv, EchoIdle
  <1>3. /\ taken' \in taken + 1 .. Len(fp) /\ taken' - taken < MAXLINE
        /\ \A k \in taken + 1 .. taken' - 1 : fp[k] # Newline
    BY <1>1, <1>2, LineEndFound, Zenon
  <1>4. taken' \in Nat /\ taken' \in 0 .. Len(fp)
    <2>1. Len(fp) \in Nat /\ taken \in Nat
      BY <1>2, TextTyped DEF EchoTyped
    <2> QED
      BY <1>3, <2>1
  <1>5. sendline' \in Seq(Nat) /\ OneLine(sendline')
    BY <1>1, <1>2, <1>3, <1>4, StringIsLine, Zenon
  <1>6. written' \in Seq(Nat)
    <2>1. Cat(written, sendline') \in Seq(Nat)
      BY <1>2, <1>5, CatType, Zenon DEF EchoTyped
    <2> QED
      BY <1>1, <2>1
  <1>7. EchoTyped'
    BY <1>1, <1>2, <1>4, <1>5, <1>6, Zenon DEF EchoTyped
  <1>8. Back = <<>> /\ buf = <<>> /\ toServer = <<>> /\ Back' = Back
    <2>1. Back' = Back
      BY <1>1, Zenon DEF Back
    <2> QED
      BY <1>2, <2>1, EchoEmpty
  <1>9. EchoIdle'
    BY <1>1, <1>2 DEF EchoIdle
  <1>10. CASE srv # "closed"
    <2>1. Flight' = sendline'
      <3>1. Cat(<<>>, <<>>) = <<>> /\ Cat(<<>>, sendline') = sendline'
        <4>1. <<>> \in Seq(Nat)
          OBVIOUS
        <4> QED
          BY <1>5, <4>1, CatNone, Zenon
      <3> QED
        BY <1>1, <1>8, <3>1, Zenon DEF Flight
    <2>2. written = shown
      BY <1>2, <1>10, NothingOnItsWay DEF EchoKept
    <2>3. OneLine(Flight)' /\ written' = Cat(shown', Flight')
      BY <1>1, <1>5, <2>1, <2>2, Zenon DEF OneLine
    <2>4. EchoKept'
      BY <1>1, <1>10, <2>3 DEF EchoKept
    <2> QED
      BY <1>7, <1>9, <2>4 DEF EchoInv
  <1>11. CASE srv = "closed"
    <2>1. OneLine(Back) /\ \E t \in Seq(Nat) : written = Cat(Cat(shown, Back), t)
      BY <1>2, <1>11 DEF EchoKept
    <2>2. PICK t \in Seq(Nat) : written = Cat(Cat(shown, Back), t)
      BY <2>1
    <2>3. PICK x \in Seq(Nat), y \in Seq(Nat) : x = Cat(shown, Back) /\ y = sendline'
      <3>1. shown \in Seq(Nat) /\ Back \in Seq(Nat)
        BY <1>2, EchoSeqs DEF EchoTyped
      <3>2. Cat(shown, Back) \in Seq(Nat)
        BY <3>1, CatType, Zenon
      <3> QED
        BY <1>5, <3>2
    <2>4. Cat(Cat(x, t), y) = Cat(x, Cat(t, y)) /\ Cat(t, y) \in Seq(Nat)
      BY CatAssoc, CatType
    <2>5. written' = Cat(Cat(shown', Back'), Cat(t, y))
      BY <1>1, <1>8, <2>2, <2>3, <2>4, Zenon
    <2>6. OneLine(Back)'
      BY <1>1, <1>8, <2>1, Zenon DEF OneLine
    <2>7. EchoKept'
      BY <1>1, <1>11, <2>4, <2>5, <2>6 DEF EchoKept
    <2> QED
      BY <1>7, <1>9, <2>7 DEF EchoInv
  <1> QED
    BY <1>10, <1>11

-----------------------------------------------------------------------------
(* The server reads.                                                       *)
LEMMA SrvReadInv == EchoInv /\ srv_read => EchoInv'
  <1> SUFFICES ASSUME EchoInv, srv_read PROVE EchoInv'
    OBVIOUS
  <1>1. PICK n \in 1 .. Len(toServer) :
            /\ buf' = SubSeq(toServer, 1, n)
            /\ toServer' = SubSeq(toServer, n + 1, Len(toServer))
    BY Zenon DEF srv_read
  <1>2. /\ srv = "read" /\ srv' = "Writen"
        /\ UNCHANGED <<fp, taken, began, cli, sendline, recvline, read_buf, shown, toClient, written>>
    BY DEF srv_read
  <1>3. EchoTyped /\ EchoIdle /\ buf = <<>>
    BY <1>2 DEF EchoInv, EchoIdle
  <1>4. toServer \in Seq(Nat) /\ Back \in Seq(Nat) /\ Len(toServer) \in Nat
    BY <1>3, EchoSeqs DEF EchoTyped
  <1>5. buf' \in Seq(Nat) /\ toServer' \in Seq(Nat) /\ Cat(Cat(Back, buf'), toServer') = Cat(Back, toServer)
    <2>1. PICK y \in Seq(Nat), z \in Seq(Nat) : y = Back /\ z = toServer
      BY <1>4
    <2>2. n \in 1 .. Len(z)
      BY <2>1, Zenon
    <2>3. /\ SubSeq(z, 1, n) \in Seq(Nat) /\ SubSeq(z, n + 1, Len(z)) \in Seq(Nat)
          /\ Cat(Cat(y, SubSeq(z, 1, n)), SubSeq(z, n + 1, Len(z))) = Cat(y, z)
      BY <2>2, Moved
    <2> QED
      BY <1>1, <2>1, <2>3, Zenon
  <1>6. EchoTyped'
    BY <1>2, <1>3, <1>5, Zenon DEF EchoTyped
  <1>7. Back' = Back
    BY <1>2, Zenon DEF Back
  <1>8. Flight' = Flight
    <2>1. Cat(Back, <<>>) = Back
      BY <1>4, CatNone, Zenon
    <2> QED
      BY <1>2, <1>3, <1>5, <1>7, <2>1, Zenon DEF Flight
  <1>9. EchoIdle'
    BY <1>2, <1>3, <1>8 DEF EchoIdle
  <1>10. EchoKept'
    BY <1>2, <1>7, <1>8, SameOnItsWay
  <1> QED
    BY <1>6, <1>9, <1>10 DEF EchoInv

(* One round of the writen of the server.                                  *)
LEMMA SrvWriteInv == EchoInv /\ srv_write => EchoInv'
  <1> SUFFICES ASSUME EchoInv, srv_write PROVE EchoInv'
    OBVIOUS
  <1>1. PICK n \in 1 .. Len(buf) :
            /\ toClient' = Cat(toClient, SubSeq(buf, 1, n))
            /\ buf' = SubSeq(buf, n + 1, Len(buf))
            /\ srv' = IF n = Len(buf) THEN "read" ELSE "Writen"
    BY Zenon DEF srv_write, Cat
  <1>2. /\ srv = "Writen"
        /\ UNCHANGED <<fp, taken, began, cli, sendline, recvline, read_buf, shown, toServer, written>>
    BY DEF srv_write
  <1>3. EchoTyped /\ EchoIdle
    BY DEF EchoInv
  <1>4. toClient \in Seq(Nat) /\ buf \in Seq(Nat) /\ Cat(recvline, read_buf) \in Seq(Nat)
    BY <1>3, EchoSeqs DEF EchoTyped
  <1>5. /\ toClient' \in Seq(Nat) /\ buf' \in Seq(Nat)
        /\ Cat(Cat(Cat(recvline, read_buf), toClient'), buf')
             = Cat(Cat(Cat(recvline, read_buf), toClient), buf)
        /\ n = Len(buf) => buf' = <<>>
    <2>1. PICK x \in Seq(Nat), y \in Seq(Nat), z \in Seq(Nat) :
              x = Cat(recvline, read_buf) /\ y = toClient /\ z = buf
      BY <1>4
    <2>2. n \in 1 .. Len(z)
      BY <2>1, Zenon
    <2>3. /\ SubSeq(z, n + 1, Len(z)) \in Seq(Nat) /\ Cat(y, SubSeq(z, 1, n)) \in Seq(Nat)
          /\ Cat(Cat(x, Cat(y, SubSeq(z, 1, n))), SubSeq(z, n + 1, Len(z))) = Cat(Cat(x, y), z)
      BY <2>2, Moved
    <2>4. n = Len(z) => SubSeq(z, n + 1, Len(z)) = <<>>
      BY <2>2, SubSeqEmpty
    <2> QED
      BY <1>1, <2>1, <2>3, <2>4, Zenon
  <1>6. srv' \in {"read", "Writen"} /\ (srv' = "read" => buf' = <<>>)
    BY <1>1, <1>5
  <1>7. EchoTyped'
    BY <1>2, <1>3, <1>5, <1>6 DEF EchoTyped
  <1>8. Flight' = Flight
    BY <1>2, <1>5, Zenon DEF Flight, Back
  <1>9. EchoIdle'
    BY <1>2, <1>3, <1>6, <1>8 DEF EchoIdle
  <1>10. EchoKept'
    BY <1>2, <1>6, <1>8, SameOnItsWay
  <1> QED
    BY <1>7, <1>9, <1>10 DEF EchoInv

(* The server closes: what it has not written back is lost.                *)
LEMMA SrvClosedInv == EchoInv /\ (srv_eof \/ srv_end) => EchoInv'
  <1> SUFFICES ASSUME EchoInv, srv_eof \/ srv_end PROVE EchoInv'
    OBVIOUS
  <1>1. /\ srv # "closed" /\ srv' = "closed" /\ cli # "start"
        /\ UNCHANGED <<fp, taken, began, cli, sendline, recvline, read_buf, shown, toClient, written>>
    BY DEF srv_eof, srv_end, CliEnded
  <1>2. EchoTyped /\ EchoIdle /\ EchoKept
    BY DEF EchoInv
  <1>3. buf' = <<>> /\ toServer' = <<>>
    BY <1>2 DEF srv_eof, srv_end, EchoIdle
  <1>4. EchoTyped'
    <2>1. <<>> \in Seq(Nat)
      OBVIOUS
    <2> QED
      BY <1>1, <1>2, <1>3, <2>1 DEF EchoTyped
  <1>5. Back' = Back
    BY <1>1, Zenon DEF Back
  <1>6. Flight = <<>> => Flight' = <<>>
    <2>1. Flight = <<>> => Back = <<>> /\ sendline = <<>>
      BY <1>2, EchoEmpty
    <2>2. Back' = <<>> /\ buf' = <<>> /\ toServer' = <<>> /\ sendline' = <<>> => Flight' = <<>>
      BY <1>4, EchoPrimed, Zenon
    <2> QED
      BY <1>1, <1>3, <1>5, <2>1, <2>2
  <1>7. EchoIdle'
    BY <1>1, <1>2, <1>3, <1>6 DEF EchoIdle
  <1>8. EchoKept'
    <2>1. PICK t \in Seq(Nat), b \in Seq(Nat), d \in Seq(Nat) :
              t = Cat(Cat(buf, toServer), sendline) /\ b = Back /\ d = shown
      BY <1>2, EchoSeqs DEF EchoTyped
    <2>2. Flight = Cat(b, t)
      BY <1>2, <2>1, EchoSeqs, Zenon
    <2>3. OneLine(Cat(b, t)) /\ written = Cat(shown, Cat(b, t))
      BY <1>1, <1>2, <2>2 DEF EchoKept
    <2>4. OneLine(b)
      BY <2>3, PartOfLine
    <2>5. Cat(Cat(d, b), t) = Cat(d, Cat(b, t))
      BY CatAssoc
    <2>6. OneLine(Back)'
      BY <1>1, <1>5, <2>1, <2>4, Zenon DEF OneLine
    <2>7. written' = Cat(Cat(shown', Back'), t)
      BY <1>1, <1>5, <2>1, <2>3, <2>5, Zenon
    <2> QED
      BY <1>1, <2>6, <2>7 DEF EchoKept
  <1> QED
    BY <1>4, <1>7, <1>8 DEF EchoInv

(* EchoInv holds in every reachable state.                                 *)
LEMMA EchoInvInvariant == EchoSpec => []EchoInv
  <1>1. EchoInv /\ [EchoNext]_echoVars => EchoInv'
    BY StrCliInv, FgetsInv, CliWriteInv, MyReadInv, ReadlineInv, ReadlineEofInv, OnlyCliInv,
       SrvReadInv, SrvWriteInv, SrvClosedInv, Zenon
       DEF EchoNext, Client, Server, OnlyCli
  <1> QED
    BY <1>1, EchoInitInv, PTL DEF EchoSpec

(* EchoedInOrder of every run of client and server: the user sees what was *)
(* sent, all of it before the next line is taken while the server is       *)
(* there, and my_read keeps nothing between two lines.                     *)
THEOREM EchoInOrder == EchoSpec => []EchoedInOrder
  <1>1. EchoInv => EchoedInOrder
    <2> SUFFICES ASSUME EchoInv PROVE EchoedInOrder
      OBVIOUS
    <2>1. EchoTyped /\ EchoIdle /\ EchoKept /\ shown \in Seq(Nat)
      BY DEF EchoInv, EchoTyped
    <2>2. \E x \in Seq(Nat) : written = Cat(shown, x)
      <3>1. CASE srv # "closed"
        BY <2>1, <3>1, EchoSeqs DEF EchoKept
      <3>2. CASE srv = "closed"
        <4>1. PICK t \in Seq(Nat) : written = Cat(Cat(shown, Back), t)
          BY <2>1, <3>2 DEF EchoKept
        <4>2. PICK b \in Seq(Nat), d \in Seq(Nat) : b = Back /\ d = shown
          BY <2>1, EchoSeqs
        <4>3. Cat(Cat(d, b), t) = Cat(d, Cat(b, t)) /\ Cat(b, t) \in Seq(Nat)
          BY CatAssoc, CatType
        <4> QED
          BY <4>1, <4>2, <4>3
      <3> QED
        BY <3>1, <3>2
    <2>3. IsPrefix(shown, written)
      BY <2>1, <2>2, PrefixOfCat
    <2>4. cli \in {"Fgets", "return"} => read_buf = <<>>
      BY <2>1, EchoEmpty DEF EchoIdle
    <2>5. cli = "Fgets" /\ srv # "closed" => shown = written
      BY <2>1, NothingOnItsWay DEF EchoIdle, EchoKept
    <2> QED
      BY <2>3, <2>4, <2>5 DEF EchoedInOrder
  <1> QED
    BY <1>1, EchoInvInvariant, PTL

(* What is written are bytes of the text, and so is what is left of a line *)
(* when the server has gone and nothing else relates it to the text.       *)
EchoBytes ==
    /\ cli \in {"start", "Fgets", "Writen", "Readline", "return", "err_quit", "err_sys"}
    /\ began \in 0 .. taken
    /\ cli = "start" => written = <<>>
    /\ Within(sendline) /\ Within(written)

LEMMA WithinCat ==
    ASSUME NEW s \in Seq(Nat), NEW t \in Seq(Nat)
    PROVE  Within(Cat(s, t)) <=> Within(s) /\ Within(t)
  <1>1. Len(s) \in Nat /\ Len(t) \in Nat
    OBVIOUS
  <1>2. /\ Len(Cat(s, t)) = Len(s) + Len(t)
        /\ \A i \in 1 .. Len(s) + Len(t) :
              Cat(s, t)[i] = IF i <= Len(s) THEN s[i] ELSE t[i - Len(s)]
    BY CatIndex
  <1> DEFINE m == Len(s)
             n == Len(t)
             c == Cat(s, t)
             P(x) == x \in 1 .. Len(fp)
  <1>3. (\A i \in 1 .. m + n : P(c[i])) <=> (\A i \in 1 .. m : P(s[i])) /\ (\A i \in 1 .. n : P(t[i]))
    <2> HIDE DEF P
    <2>1. \A i \in 1 .. m : i \in 1 .. m + n /\ c[i] = s[i]
      BY <1>1, <1>2
    <2>2. \A i \in 1 .. n : m + i \in 1 .. m + n /\ c[m + i] = t[i]
      BY <1>1, <1>2
    <2>3. \A i \in 1 .. m + n : (i \in 1 .. m /\ c[i] = s[i]) \/ (i - m \in 1 .. n /\ c[i] = t[i - m])
      BY <1>1, <1>2
    <2> QED
      BY <2>1, <2>2, <2>3
  <1> QED
    BY <1>2, <1>3 DEF Within

(* Every step keeps EchoBytes.                                             *)
LEMMA EchoBytesStep ==
    ASSUME EchoInv, EchoBytes, [EchoNext]_echoVars
    PROVE  EchoBytes'
  <1>1. EchoTyped /\ EchoIdle
    BY DEF EchoInv
  <1>2. CASE UNCHANGED echoVars
    <2>1. UNCHANGED <<fp, taken, began, cli, sendline, written>>
      BY <1>2 DEF echoVars
    <2> QED
      BY <2>1 DEF EchoBytes, Within
  <1>3. CASE str_cli
    <2>1. cli = "start" /\ cli' = "Fgets" /\ UNCHANGED <<taken, began, sendline, written>>
      BY <1>3 DEF str_cli
    <2>2. sendline = <<>> /\ written = <<>>
      BY <1>1, <2>1, EchoEmpty DEF EchoIdle, EchoBytes
    <2>3. Within(sendline)' /\ Within(written)'
      BY <2>1, <2>2 DEF Within
    <2> QED
      BY <2>1, <2>3 DEF EchoBytes
  <1>4. CASE Fgets
    <2>1. /\ cli = "Fgets" /\ taken < Len(fp) /\ began' = taken
          /\ taken' = LineEnd(taken) /\ sendline' = String(taken, taken')
          /\ written' = Cat(written, sendline') /\ cli' = "Writen" /\ fp' = fp
      BY <1>4, Zenon DEF Fgets, Cat
    <2>2. /\ taken' \in taken + 1 .. Len(fp) /\ taken' - taken < MAXLINE
          /\ \A k \in taken + 1 .. taken' - 1 : fp[k] # Newline
      BY <1>1, <2>1, LineEndFound, Zenon
    <2>3. taken' \in Nat /\ taken \in 0 .. taken'
      <3>1. Len(fp) \in Nat /\ taken \in Nat
        BY <1>1, TextTyped DEF EchoTyped
      <3> QED
        BY <2>2, <3>1
    <2>4. sendline' \in Seq(Nat) /\ Within(sendline')
      BY <1>1, <2>1, <2>2, <2>3, StringIsLine, Zenon
    <2>5. Within(Cat(written, sendline'))
      BY <1>1, <2>4, WithinCat DEF EchoTyped, EchoBytes
    <2> QED
      BY <2>1, <2>3, <2>4, <2>5 DEF EchoBytes, Within
  <1>5. CASE cli_write
    <2>1. PICK n \in 1 .. Len(sendline) : sendline' = SubSeq(sendline, n + 1, Len(sendline))
      BY <1>5 DEF cli_write
    <2>2. cli = "Writen" /\ UNCHANGED <<fp, taken, began, cli, written>>
      BY <1>5 DEF cli_write
    <2>3. sendline \in Seq(Nat) /\ Len(sendline) \in Nat
      BY <1>1 DEF EchoTyped
    <2>4. /\ Len(sendline') = Len(sendline) - n
          /\ \A k \in 1 .. Len(sendline) - n : sendline'[k] = sendline[n + k]
      BY <2>1, <2>3, SubSeqProperties
    <2>5. \A k \in 1 .. Len(sendline') : n + k \in 1 .. Len(sendline)
      BY <2>3, <2>4
    <2>6. Within(sendline')
      BY <2>4, <2>5 DEF EchoBytes, Within
    <2> QED
      BY <2>2, <2>6 DEF EchoBytes, Within
  <1>6. CASE \/ Fgets_eof \/ cli_written \/ my_read \/ readline \/ readline_eof \/ cli_err_sys
             \/ srv_read \/ srv_write \/ srv_eof \/ srv_end
    <2>1. UNCHANGED <<fp, taken, began, sendline, written>>
      BY <1>6 DEF Fgets_eof, cli_written, my_read, readline, readline_eof, cli_err_sys,
                  srv_read, srv_write, srv_eof, srv_end
    <2>2. cli' \in {cli, "Fgets", "Readline", "return", "err_quit", "err_sys"}
      BY <1>6 DEF Fgets_eof, cli_written, my_read, readline, readline_eof, Fputs, cli_err_sys,
                  srv_read, srv_write, srv_eof, srv_end
    <2> QED
      BY <2>1, <2>2 DEF EchoBytes, Within
  <1> QED
    BY <1>2, <1>3, <1>4, <1>5, <1>6 DEF EchoNext, Client, Server

(* The variables of the echo keep their types: no buffer overflows, and no *)
(* byte is in it that is not of the text.                                  *)
THEOREM EchoTypeCorrect == EchoSpec => []EchoTypeOK
  <1>1. EchoInit => EchoBytes
    BY DEF EchoInit, EchoBytes, Within
  <1>2. EchoInv /\ EchoBytes /\ [EchoNext]_echoVars => EchoBytes'
    BY EchoBytesStep
  <1>3. EchoInv /\ EchoBytes => EchoTypeOK
    <2> SUFFICES ASSUME EchoInv, EchoBytes PROVE EchoTypeOK
      OBVIOUS
    <2>1. EchoTyped /\ EchoIdle /\ EchoKept
      BY DEF EchoInv
    <2>2. /\ sendline \in Seq(Nat) /\ recvline \in Seq(Nat) /\ read_buf \in Seq(Nat)
          /\ shown \in Seq(Nat) /\ toServer \in Seq(Nat) /\ toClient \in Seq(Nat)
          /\ buf \in Seq(Nat) /\ written \in Seq(Nat)
      BY <2>1 DEF EchoTyped
    <2> DEFINE part == Cat(recvline, read_buf)
               tail == Cat(Cat(buf, toServer), sendline)
    <2>3. part \in Seq(Nat) /\ Back \in Seq(Nat) /\ tail \in Seq(Nat) /\ Cat(buf, toServer) \in Seq(Nat)
          /\ Flight = Cat(Back, tail) /\ Flight \in Seq(Nat) /\ Back = Cat(part, toClient)
      BY <2>1, EchoSeqs, Zenon DEF Back
    <2> HIDE DEF part, tail
    <2>4. /\ Within(Back) /\ Within(shown) /\ Len(Back) < MAXLINE
          /\ srv # "closed" => Within(tail) /\ Len(tail) < MAXLINE
          /\ srv = "closed" => buf = <<>> /\ toServer = <<>>
      <3>1. CASE srv # "closed"
        <4>1. Len(Flight) < MAXLINE /\ written = Cat(shown, Flight)
          BY <2>1, <3>1 DEF EchoKept, OneLine
        <4>2. Within(shown) /\ Within(Flight)
          BY <2>2, <2>3, <4>1, WithinCat DEF EchoBytes
        <4>3. Within(Back) /\ Within(tail)
          BY <2>3, <4>2, WithinCat
        <4>4. Len(Flight) = Len(Back) + Len(tail) /\ Len(Back) \in Nat /\ Len(tail) \in Nat
          <5>1. Len(Cat(Back, tail)) = Len(Back) + Len(tail)
            BY <2>3, CatIndex
          <5>2. Len(Back) \in Nat /\ Len(tail) \in Nat
            BY <2>3, LenProperties
          <5> QED
            BY <2>3, <5>1, <5>2, Zenon
        <4>5. Len(Back) < MAXLINE /\ Len(tail) < MAXLINE
          BY <4>1, <4>4, MaxlineAssumption
        <4> QED
          BY <3>1, <4>2, <4>3, <4>5
      <3>2. CASE srv = "closed"
        <4>1. PICK t \in Seq(Nat) : written = Cat(Cat(shown, Back), t)
          BY <2>1, <3>2 DEF EchoKept
        <4>2. Cat(shown, Back) \in Seq(Nat)
          BY <2>2, <2>3, CatType
        <4>3. Within(Cat(shown, Back))
          BY <4>1, <4>2, WithinCat DEF EchoBytes
        <4>4. Within(shown) /\ Within(Back)
          BY <2>2, <2>3, <4>3, WithinCat
        <4> QED
          BY <2>1, <3>2, <4>4 DEF EchoKept, OneLine, EchoIdle
      <3> QED
        BY <3>1, <3>2
    <2>5. Within(recvline) /\ Within(read_buf) /\ Within(toClient)
      BY <2>2, <2>3, <2>4, WithinCat DEF part
    <2>6. Len(recvline) < MAXLINE /\ Len(read_buf) < MAXLINE
      <3>1. Len(Back) = Len(part) + Len(toClient) /\ Len(part) = Len(recvline) + Len(read_buf)
        BY <2>2, <2>3, CatIndex DEF part
      <3>2. Len(recvline) \in Nat /\ Len(read_buf) \in Nat /\ Len(toClient) \in Nat
        BY <2>2
      <3> QED
        BY <2>4, <3>1, <3>2, MaxlineAssumption
    <2>7. Within(buf) /\ Within(toServer) /\ Len(buf) <= MAXLINE
      <3>1. CASE srv # "closed"
        <4>1. Within(Cat(buf, toServer))
          BY <2>2, <2>3, <2>4, <3>1, WithinCat DEF tail
        <4>2. Within(buf) /\ Within(toServer)
          BY <2>2, <4>1, WithinCat
        <4>3. Len(tail) = Len(Cat(buf, toServer)) + Len(sendline)
              /\ Len(Cat(buf, toServer)) = Len(buf) + Len(toServer)
          BY <2>2, <2>3, CatIndex DEF tail
        <4>4. Len(buf) \in Nat /\ Len(toServer) \in Nat /\ Len(sendline) \in Nat
          BY <2>2
        <4> QED
          BY <2>4, <3>1, <4>2, <4>3, <4>4, MaxlineAssumption
      <3>2. CASE srv = "closed"
        BY <2>4, <3>2, MaxlineAssumption DEF Within
      <3> QED
        BY <3>1, <3>2
    <2>8. ASSUME NEW s \in Seq(Nat), Within(s)
          PROVE  Range(s) \subseteq 1 .. Len(fp)
      BY <2>8 DEF Range, Within
    <2>9. \A s \in {sendline, recvline, read_buf, shown, toServer, toClient, buf, written} :
              Range(s) \subseteq 1 .. Len(fp)
      BY <2>2, <2>4, <2>5, <2>7, <2>8 DEF EchoBytes
    <2>10. Len(read_buf) <= MAXLINE
      <3>1. Len(read_buf) \in Nat
        BY <2>2
      <3> QED
        BY <2>6, <3>1, MaxlineAssumption
    <2> QED
      BY <2>1, <2>6, <2>7, <2>9, <2>10, Zenon DEF EchoTyped, EchoBytes, EchoTypeOK
  <1> QED
    BY <1>1, <1>2, <1>3, EchoInvInvariant, PTL DEF EchoSpec

-----------------------------------------------------------------------------
(* The timers.                                                             *)

(* The actions of ConnectTimeo, one per disjunct.                          *)
LEMMA ConnectCases ==
    ASSUME ConnectNext
    PROVE  \/ call_connect \/ KernelMoves \/ SIGALRM
           \/ Signal_connect_alarm \/ alarm_nsec \/ connect \/ connect_returns
           \/ alarm_off \/ Signal_restore
           \/ Fcntl_nonblock \/ connect_nonblocking \/ Select_ready \/ getsockopt \/ done
           \/ Select_timeout \/ Select_err_sys
  BY DEF ConnectNext, Connecting

(***************************************************************************)
(* NoStrayAlarm.  The alarm of connect_timeo is set between the two calls  *)
(* of Signal only, and between them SIGALRM runs connect_alarm.            *)
(***************************************************************************)
Guarded == {"alarm", "connect", "connecting", "alarm_off", "restore"}

AlarmOK ==
    /\ ~stray
    /\ alarm = "own" => pc \in {"connect", "connecting", "alarm_off"}
    /\ pc \in Guarded => handler = "connect_alarm"

(* Every step keeps AlarmOK: one case per action.                          *)
LEMMA AlarmStep ==
    ASSUME AlarmOK, ConnectNext
    PROVE  AlarmOK'
  <1> USE DEF AlarmOK, Guarded
  <1>1. CASE call_connect
    BY <1>1 DEF call_connect
  <1>2. CASE KernelMoves
    BY <1>2 DEF KernelMoves
  <1>3. CASE SIGALRM
    BY <1>3 DEF SIGALRM, ConnectFails
  <1>4. CASE Signal_connect_alarm
    BY <1>4 DEF Signal_connect_alarm
  <1>5. CASE alarm_nsec
    BY <1>5 DEF alarm_nsec
  <1>6. CASE connect
    BY <1>6 DEF connect
  <1>7. CASE connect_returns
    BY <1>7 DEF connect_returns, ConnectFails
  <1>8. CASE alarm_off
    BY <1>8 DEF alarm_off
  <1>9. CASE Signal_restore
    BY <1>9 DEF Signal_restore
  <1>10. CASE Fcntl_nonblock
    BY <1>10 DEF Fcntl_nonblock
  <1>11. CASE connect_nonblocking
    BY <1>11 DEF connect_nonblocking
  <1>12. CASE Select_ready
    BY <1>12 DEF Select_ready
  <1>13. CASE getsockopt
    BY <1>13 DEF getsockopt
  <1>14. CASE done
    BY <1>14 DEF done
  <1>15. CASE Select_timeout
    BY <1>15 DEF Select_timeout
  <1>16. CASE Select_err_sys
    BY <1>16 DEF Select_err_sys
  <1> QED
    BY ConnectCases, <1>1, <1>2, <1>3, <1>4, <1>5, <1>6, <1>7, <1>8, <1>9, <1>10, <1>11,
       <1>12, <1>13, <1>14, <1>15, <1>16

(* Whenever the kernel answers and whenever an alarm goes off, that of     *)
(* connect_timeo does not run its caller's handler and is not left set.    *)
THEOREM AlarmStaysInside == ConnectSpec => []NoStrayAlarm
  <1>1. ConnectInit => AlarmOK
    BY DEF ConnectInit, AlarmOK, Guarded
  <1>2. AlarmOK /\ [ConnectNext]_connectVars => AlarmOK'
    <2>1. AlarmOK /\ UNCHANGED connectVars => AlarmOK'
      BY DEF AlarmOK, connectVars
    <2> QED
      BY <2>1, AlarmStep
  <1>3. AlarmOK => NoStrayAlarm
    BY DEF AlarmOK, NoStrayAlarm
  <1> QED
    BY <1>1, <1>2, <1>3, PTL DEF ConnectSpec

(***************************************************************************)
(* ResultIsTrue.  What the two functions know of the connection at each    *)
(* place: whoever reaches done without an error has seen it up, and the    *)
(* socket is closed only together with the result.                         *)
(***************************************************************************)
Before == {"caller", "Signal", "alarm", "connect", "connecting",
           "Fcntl", "connect_nb", "Select", "getsockopt", "done", "ended"}

OutcomeOK ==
    /\ pc \in Before => result = "none"
    /\ sock = "closed" => result = "error"
    /\ sock \in {"open", "closed"}
    /\ kernel = "up" => everUp
    /\ pc = "getsockopt" => kernel \in {"up", "failed"}
    /\ pc = "done" /\ error = "none" => everUp
    /\ nonblock => pc \notin {"caller", "Signal", "alarm", "connect", "connecting", "Fcntl"}
    /\ ResultIsTrue

(* Every step keeps OutcomeOK: one case per action.                        *)
LEMMA OutcomeStep ==
    ASSUME OutcomeOK, ConnectNext
    PROVE  OutcomeOK'
  <1> USE DEF OutcomeOK, ResultIsTrue, Before
  <1>1. CASE call_connect
    BY <1>1 DEF call_connect
  <1>2. CASE KernelMoves
    BY <1>2 DEF KernelMoves
  <1>3. CASE SIGALRM
    BY <1>3 DEF SIGALRM, ConnectFails
  <1>4. CASE Signal_connect_alarm
    BY <1>4 DEF Signal_connect_alarm
  <1>5. CASE alarm_nsec
    BY <1>5 DEF alarm_nsec
  <1>6. CASE connect
    BY <1>6 DEF connect
  <1>7. CASE connect_returns
    BY <1>7 DEF connect_returns, ConnectFails
  <1>8. CASE alarm_off
    BY <1>8 DEF alarm_off
  <1>9. CASE Signal_restore
    BY <1>9 DEF Signal_restore
  <1>10. CASE Fcntl_nonblock
    BY <1>10 DEF Fcntl_nonblock
  <1>11. CASE connect_nonblocking
    BY <1>11 DEF connect_nonblocking
  <1>12. CASE Select_ready
    BY <1>12 DEF Select_ready
  <1>13. CASE getsockopt
    BY <1>13 DEF getsockopt
  <1>14. CASE done
    BY <1>14 DEF done
  <1>15. CASE Select_timeout
    BY <1>15 DEF Select_timeout
  <1>16. CASE Select_err_sys
    BY <1>16 DEF Select_err_sys
  <1> QED
    BY ConnectCases, <1>1, <1>2, <1>3, <1>4, <1>5, <1>6, <1>7, <1>8, <1>9, <1>10, <1>11,
       <1>12, <1>13, <1>14, <1>15, <1>16

(* connect_timeo and connect_nonb return 0 only for a connection that has  *)
(* come up on a socket that blocks again, and -1 only when none can come   *)
(* up any more.                                                            *)
THEOREM ResultsAreTrue == ConnectSpec => []ResultIsTrue
  <1>1. ConnectInit => OutcomeOK
    BY DEF ConnectInit, OutcomeOK, ResultIsTrue, Before
  <1>2. OutcomeOK /\ [ConnectNext]_connectVars => OutcomeOK'
    <2>1. OutcomeOK /\ UNCHANGED connectVars => OutcomeOK'
      BY DEF OutcomeOK, ResultIsTrue, connectVars
    <2> QED
      BY <2>1, OutcomeStep
  <1>3. OutcomeOK => ResultIsTrue
    BY DEF OutcomeOK
  <1> QED
    BY <1>1, <1>2, <1>3, PTL DEF ConnectSpec

(* The variables of the two connecting functions keep their types.         *)
THEOREM ConnectTypeCorrect == ConnectSpec => []ConnectTypeOK
  <1> USE DEF ConnectTypeOK
  <1>1. ConnectInit => ConnectTypeOK
    BY DEF ConnectInit
  <1>2. ConnectTypeOK /\ [ConnectNext]_connectVars => ConnectTypeOK'
    <2> SUFFICES ASSUME ConnectTypeOK, [ConnectNext]_connectVars PROVE ConnectTypeOK'
      OBVIOUS
    <2>1. CASE UNCHANGED connectVars
      BY <2>1 DEF connectVars
    <2>2. CASE call_connect
      BY <2>2 DEF call_connect
    <2>3. CASE KernelMoves
      <3>1. everUp \in BOOLEAN
        OBVIOUS
      <3>2. /\ kernel' \in {"up", "failed"} /\ everUp' \in BOOLEAN
            /\ UNCHANGED <<call, pc, limited, alarm, handler, sock, nonblock, error, result, stray>>
        BY <2>3, <3>1, Zenon DEF KernelMoves
      <3> QED
        BY <3>2
    <2>4. CASE SIGALRM
      <3>1. /\ stray' \in BOOLEAN /\ alarm' = "off"
            /\ UNCHANGED <<call, limited, handler, nonblock, kernel, everUp>>
        BY <2>4, Zenon DEF SIGALRM
      <3>2. /\ pc' \in {pc, "alarm_off", "ended"} /\ sock' \in {sock, "closed"}
            /\ error' \in {error, "ETIMEDOUT"} /\ result' \in {result, "error"}
        BY <2>4, Zenon DEF SIGALRM, ConnectFails
      <3> QED
        BY <3>1, <3>2
    <2>5. CASE Signal_connect_alarm
      BY <2>5 DEF Signal_connect_alarm
    <2>6. CASE alarm_nsec
      BY <2>6 DEF alarm_nsec
    <2>7. CASE connect
      BY <2>7 DEF connect
    <2>8. CASE connect_returns
      BY <2>8 DEF connect_returns, ConnectFails
    <2>9. CASE alarm_off
      BY <2>9 DEF alarm_off
    <2>10. CASE Signal_restore
      BY <2>10 DEF Signal_restore
    <2>11. CASE Fcntl_nonblock
      BY <2>11 DEF Fcntl_nonblock
    <2>12. CASE connect_nonblocking
      BY <2>12 DEF connect_nonblocking
    <2>13. CASE Select_ready
      BY <2>13 DEF Select_ready
    <2>14. CASE getsockopt
      BY <2>14 DEF getsockopt
    <2>15. CASE done
      BY <2>15 DEF done
    <2>16. CASE Select_timeout
      BY <2>16 DEF Select_timeout
    <2>17. CASE Select_err_sys
      BY <2>17 DEF Select_err_sys
    <2> QED
      BY <2>1, <2>2, <2>3, <2>4, <2>5, <2>6, <2>7, <2>8, <2>9, <2>10, <2>11, <2>12,
         <2>13, <2>14, <2>15, <2>16, <2>17, ConnectCases
  <1> QED
    BY <1>1, <1>2, PTL DEF ConnectSpec

-----------------------------------------------------------------------------
(***************************************************************************)
(* The retransmission timer: types.                                        *)
(***************************************************************************)
RttTyped ==
    /\ now \in Nat /\ rtt_rtt \in Nat /\ rtt_srtt \in Nat /\ rtt_rttvar \in Nat
    /\ rtt_rto \in Nat /\ armed \in Nat /\ elapsed \in Nat
    /\ rtt_nrexmt \in 0 .. RTT_MAXNREXMT + 1
    /\ waiting \in BOOLEAN /\ stamps \in Seq(0 .. now) /\ sends \in 0 .. MaxSends

(* The types of the run, with the numbers written as such.                 *)
LEMMA TypedIsTypeOK == RttTypeOK <=> RttTyped
  BY DEF RttTypeOK, RttTyped

(* The minimum of rto in milliseconds.                                     *)
MinRto == 1000 * RTT_RXTMIN

(* GivenUpAfterAll counts transmissions; the code counts retransmissions.  *)
(* The timer is never 0 because rto never falls below its minimum: what    *)
(* does not go through rtt_minmax doubles it.                              *)
SentOK ==
    /\ rtt_rto >= MinRto
    /\ waiting => /\ Len(stamps) = rtt_nrexmt + 1 /\ rtt_nrexmt <= RTT_MAXNREXMT
                  /\ armed >= RTT_RXTMIN
    /\ GivenUpAfterAll

RInv == RttTyped /\ SentOK

(* The estimators stay natural numbers: both are moved by a part of their  *)
(* distance from one.                                                      *)
LEMMA EstimatorsNatural ==
    ASSUME NEW ms \in Nat, NEW srtt \in Nat, NEW rttvar \in Nat
    PROVE  /\ srtt + ((ms - srtt) \div 8) \in Nat
           /\ rttvar + ((Magnitude(ms - srtt) - rttvar) \div 4) \in Nat
  <1>1. srtt + ((ms - srtt) \div 8) \in Nat
    OBVIOUS
  <1>2. Magnitude(ms - srtt) \in Nat
    BY DEF Magnitude
  <1>3. \A m \in Nat : rttvar + ((m - rttvar) \div 4) \in Nat
    OBVIOUS
  <1> QED
    BY <1>1, <1>2, <1>3

(* What rtt_minmax returns is not below the minimum.                       *)
LEMMA MinMax ==
    ASSUME NEW rto \in Nat
    PROVE  rtt_minmax(rto) \in Nat /\ rtt_minmax(rto) >= MinRto
  BY DEF rtt_minmax, MinRto, RTT_RXTMIN, RTT_RXTMAX

(* Nor is the number of seconds that rtt_start rounds it to.               *)
LEMMA StartAtLeast ==
    ASSUME NEW rto \in Nat, rto >= MinRto
    PROVE  rtt_start(rto) \in Nat /\ rtt_start(rto) >= RTT_RXTMIN
  BY DEF rtt_start, MinRto, RTT_RXTMIN

(* A sample is not negative, even when the timestamps have wrapped.        *)
LEMMA SampleNatural ==
    ASSUME NEW t \in Nat, NEW s \in Nat
    PROVE  Sample(t, s) \in Nat
  <1>1. TS \in Nat \ {0}
    BY TimestampAssumption
  <1>2. \A m \in Int : m % TS \in Nat
    BY <1>1
  <1>3. t % TS \in Int /\ s % TS \in Int
    BY <1>1
  <1> QED
    BY <1>2, <1>3 DEF Sample, rtt_ts

(* Timestamps of the past stay timestamps of the past.                     *)
LEMMA StampsType ==
    ASSUME NEW t \in Nat, NEW u \in Nat, t <= u, NEW s \in Seq(0 .. t)
    PROVE  s \in Seq(0 .. u)
  <1>1. \A i \in 1 .. Len(s) : s[i] \in 0 .. u
    OBVIOUS
  <1> QED
    BY <1>1

(* A new request starts its counts afresh.                                 *)
LEMMA NewpackRInv ==
    ASSUME RInv, NEW gap \in Gaps, rtt_newpack(gap)
    PROVE  RInv'
  <1>1. gap \in Nat
    BY DelaysAssumption
  <1>2. now \in Nat /\ rtt_rto \in Nat /\ rtt_rto >= MinRto
    BY DEF RInv, RttTyped, SentOK
  <1>3. armed' \in Nat /\ armed' >= RTT_RXTMIN
    BY <1>2, StartAtLeast DEF rtt_newpack
  <1>4. now' \in Nat /\ stamps' = <<now'>> /\ stamps' \in Seq(0 .. now') /\ Len(stamps') = 1
    BY <1>1, <1>2 DEF rtt_newpack
  <1>5. sends' \in 0 .. MaxSends
    BY TimestampAssumption DEF rtt_newpack, RInv, RttTyped
  <1>6. /\ rtt_nrexmt' = 0 /\ waiting' = TRUE
        /\ UNCHANGED <<rtt_rtt, rtt_srtt, rtt_rttvar, rtt_rto, elapsed>>
    BY DEF rtt_newpack
  <1>7. RttTyped'
    BY <1>3, <1>4, <1>5, <1>6 DEF RInv, RttTyped, RTT_MAXNREXMT
  <1>8. SentOK'
    BY <1>2, <1>3, <1>4, <1>6 DEF SentOK, GivenUpAfterAll, GivenUp, RTT_MAXNREXMT
  <1> QED
    BY <1>7, <1>8 DEF RInv

(* An answer measures and waits no longer.                                 *)
LEMMA StopRInv ==
    ASSUME RInv, NEW delay \in Delays, NEW k \in 1 .. Len(stamps), rtt_stop(delay, k)
    PROVE  RInv'
  <1>1. delay \in Nat
    BY DelaysAssumption
  <1>2. /\ now \in Nat /\ rtt_srtt \in Nat /\ rtt_rttvar \in Nat
        /\ stamps \in Seq(0 .. now)
    BY DEF RInv, RttTyped
  <1>3. stamps[k] \in 0 .. now
    BY <1>2
  <1>4. now' = now + delay /\ now' \in Nat /\ stamps' = stamps /\ stamps' \in Seq(0 .. now')
    BY <1>1, <1>2, StampsType DEF rtt_stop
  <1>5. Sample(now + delay, stamps[k]) \in Nat
    <2>1. now + delay \in Nat /\ stamps[k] \in Nat
      BY <1>1, <1>2, <1>3
    <2> QED
      BY <2>1, SampleNatural
  <1>6. rtt_rtt' \in Nat /\ rtt_srtt' \in Nat /\ rtt_rttvar' \in Nat
    BY <1>2, <1>5, EstimatorsNatural DEF rtt_stop
  <1>7. rtt_rto' \in Nat /\ rtt_rto' >= MinRto
    <2>1. PICK v \in Nat, w \in Nat : v = rtt_srtt' /\ w = rtt_rttvar'
      BY <1>6, Zenon
    <2>2. RTT_RTOCALC(v, w) \in Nat
      BY DEF RTT_RTOCALC
    <2>3. rtt_rto' = rtt_minmax(RTT_RTOCALC(v, w))
      BY <2>1, Zenon DEF rtt_stop
    <2> QED
      BY <2>2, <2>3, MinMax, Zenon
  <1>8. elapsed' \in Nat
    <2>1. elapsed' = now' - stamps[k]
      BY Zenon DEF rtt_stop
    <2> QED
      BY <1>1, <1>2, <1>3, <1>4, <2>1
  <1>9. waiting /\ waiting' = FALSE /\ UNCHANGED <<rtt_nrexmt, armed, sends>>
    BY DEF rtt_stop
  <1>10. RttTyped'
    BY <1>4, <1>6, <1>7, <1>8, <1>9 DEF RInv, RttTyped
  <1>11. SentOK'
    BY <1>4, <1>7, <1>9 DEF RInv, RttTyped, SentOK, GivenUpAfterAll, GivenUp, RTT_MAXNREXMT
  <1> QED
    BY <1>10, <1>11 DEF RInv

(* A timeout doubles the timer, and transmits again or gives up.           *)
LEMMA TimeoutRInv ==
    ASSUME RInv, rtt_timeout
    PROVE  RInv'
  <1>1. /\ now \in Nat /\ armed \in Nat /\ rtt_rto \in Nat /\ rtt_rto >= MinRto
        /\ stamps \in Seq(0 .. now)
        /\ waiting /\ Len(stamps) = rtt_nrexmt + 1 /\ rtt_nrexmt <= RTT_MAXNREXMT
        /\ rtt_nrexmt \in 0 .. RTT_MAXNREXMT + 1
    BY DEF RInv, RttTyped, SentOK, rtt_timeout
  <1>2. /\ rtt_rto' = 2 * rtt_rto
        /\ rtt_nrexmt' = rtt_nrexmt + 1
        /\ UNCHANGED <<rtt_rtt, rtt_srtt, rtt_rttvar, elapsed, sends>>
    BY DEF rtt_timeout
  <1>3. /\ now' \in Nat /\ now <= now' /\ rtt_rto' \in Nat /\ rtt_rto' >= MinRto
        /\ rtt_nrexmt' \in 0 .. RTT_MAXNREXMT + 1
    <2>1. now' = now + 1000 * armed
      BY DEF rtt_timeout
    <2>2. now' \in Nat /\ now <= now'
      BY <1>1, <2>1
    <2>3. rtt_rto' \in Nat /\ rtt_rto' >= MinRto
      BY <1>1, <1>2 DEF MinRto, RTT_RXTMIN
    <2> QED
      BY <1>1, <1>2, <2>2, <2>3 DEF RTT_MAXNREXMT
  <1>4. stamps \in Seq(0 .. now')
    BY <1>1, <1>3, StampsType
  <1>5. CASE rtt_nrexmt' > RTT_MAXNREXMT
    <2>1. waiting' = FALSE /\ UNCHANGED <<armed, stamps>>
      BY <1>5 DEF rtt_timeout
    <2>2. RttTyped'
      BY <1>2, <1>3, <1>4, <2>1 DEF RInv, RttTyped
    <2>3. SentOK'
      BY <1>1, <1>2, <1>3, <2>1, SMTT(20) DEF SentOK, GivenUpAfterAll, GivenUp, RTT_MAXNREXMT
    <2> QED
      BY <2>2, <2>3 DEF RInv
  <1>6. CASE ~(rtt_nrexmt' > RTT_MAXNREXMT)
    <2>1. armed' = rtt_start(rtt_rto') /\ stamps' = Append(stamps, now') /\ waiting' = waiting
      BY <1>6 DEF rtt_timeout
    <2>2. armed' \in Nat /\ armed' >= RTT_RXTMIN
      BY <1>3, <2>1, StartAtLeast
    <2>3. stamps' \in Seq(0 .. now') /\ Len(stamps') = Len(stamps) + 1
      BY <1>3, <1>4, <2>1
    <2>4. RttTyped'
      BY <1>2, <1>3, <2>1, <2>2, <2>3 DEF RInv, RttTyped
    <2>5. SentOK'
      BY <1>1, <1>2, <1>3, <1>6, <2>1, <2>2, <2>3
         DEF SentOK, GivenUpAfterAll, GivenUp, RTT_MAXNREXMT
    <2> QED
      BY <2>4, <2>5 DEF RInv
  <1> QED
    BY <1>5, <1>6

(* RInv holds in every reachable state.                                    *)
LEMMA RInvInvariant == RttSpec => []RInv
  <1>1. RttInit => RInv
    <2> SUFFICES ASSUME RttInit
                 PROVE  RInv
      OBVIOUS
    <2>1. rtt_rto \in Nat /\ rtt_rto >= MinRto
      BY MinMax DEF RttInit, RTT_RTOCALC
    <2>2. stamps \in Seq(0 .. now) /\ Len(stamps) = 0
      BY DEF RttInit
    <2>3. RttTyped
      <3>1. /\ now = 0 /\ rtt_rtt = 0 /\ rtt_srtt = 0 /\ rtt_rttvar = 750 /\ rtt_nrexmt = 0
            /\ armed = 0 /\ elapsed = 0 /\ sends = 0 /\ waiting = FALSE
        BY DEF RttInit
      <3>2. rtt_nrexmt \in 0 .. RTT_MAXNREXMT + 1 /\ sends \in 0 .. MaxSends
        BY <3>1, TimestampAssumption DEF RTT_MAXNREXMT
      <3>3. /\ now \in Nat /\ rtt_rtt \in Nat /\ rtt_srtt \in Nat /\ rtt_rttvar \in Nat
            /\ armed \in Nat /\ elapsed \in Nat
        BY <3>1
      <3>4. waiting \in BOOLEAN
        BY <3>1, Zenon
      <3> QED
        BY <2>1, <2>2, <3>2, <3>3, <3>4, Zenon DEF RttTyped
    <2>4. SentOK
      BY <2>1, <2>2 DEF RttInit, SentOK, GivenUpAfterAll, GivenUp, RTT_MAXNREXMT
    <2> QED
      BY <2>3, <2>4 DEF RInv
  <1>2. RInv /\ [RttNext]_rttVars => RInv'
    <2>1. ASSUME RInv, UNCHANGED rttVars
          PROVE  RInv'
      BY <2>1 DEF rttVars, RInv, RttTyped, SentOK, GivenUpAfterAll, GivenUp
    <2> QED
      BY <2>1, NewpackRInv, StopRInv, TimeoutRInv DEF RttNext
  <1> QED
    BY <1>1, <1>2, PTL DEF RttSpec

(* The variables of the retransmission timer keep their types: the number  *)
(* of retransmissions never passes its limit.                              *)
THEOREM RttTypeCorrect == RttSpec => []RttTypeOK
  <1>1. RInv => RttTypeOK
    BY TypedIsTypeOK DEF RInv
  <1> QED
    BY <1>1, RInvInvariant, PTL

(* Every request is transmitted RTT_MAXNREXMT + 1 times before it is given *)
(* up, and whoever waits has set a timer that goes off.                    *)
THEOREM GivenUpLate == RttSpec => []GivenUpAfterAll
  <1>1. RInv => GivenUpAfterAll
    BY DEF RInv, SentOK
  <1> QED
    BY <1>1, RInvInvariant, PTL

-----------------------------------------------------------------------------
(***************************************************************************)
(* The retransmission timer: the difference of two timestamps that may     *)
(* have wrapped around.                                                    *)
(***************************************************************************)

(* Quotient and remainder, for a divisor that is not a number written out. *)
LEMMA DivMod ==
    ASSUME NEW m \in Nat \ {0}, NEW x \in Int
    PROVE  \E n \in Int, r \in 0 .. m - 1 : m * n \in Int /\ x = m * n + r /\ r = x % m
  <1>1. x \div m \in Int /\ x % m \in 0 .. m - 1
    OBVIOUS
  <1>2. m * (x \div m) \in Int
    BY <1>1
  <1>3. x = m * (x \div m) + (x % m)
    OBVIOUS
  <1> QED
    BY <1>1, <1>2, <1>3, Zenon

(* A multiple of m nearer to 0 than m is 0.                                *)
LEMMA NoSmallMultiple ==
    ASSUME NEW m \in Nat \ {0}, NEW n \in Int, m * n < m, -m < m * n
    PROVE  n = 0
  <1>1. CASE n >= 1
    <2>1. m * n >= m
      BY <1>1
    <2> QED
      BY <2>1
  <1>2. CASE n <= -1
    <2>1. m * n <= -m
      BY <1>2
    <2> QED
      BY <2>1
  <1> QED
    BY <1>1, <1>2

(* Numbers below m that are equal up to multiples of m are equal.          *)
LEMMA SameResidue ==
    ASSUME NEW m \in Nat \ {0}, NEW d \in 0 .. m - 1, NEW r \in 0 .. m - 1,
           NEW a \in Int, NEW b \in Int, NEW c \in Int,
           m * a - m * b + m * c = d - r
    PROVE  r = d
  <1> DEFINE n == a - b + c
  <1>1. n \in Int /\ m * n = m * a - m * b + m * c
    OBVIOUS
  <1> HIDE DEF n
  <1>2. m * n = d - r
    BY <1>1
  <1>3. m * n < m /\ -m < m * n
    BY <1>2
  <1>4. n = 0
    BY <1>1, <1>3, NoSmallMultiple
  <1>5. m * n = 0
    BY <1>4
  <1> QED
    BY <1>2, <1>5

(* The sample is the age of the timestamp if that is less than the range.  *)
LEMMA SampleIsAge ==
    ASSUME NEW t \in Nat, NEW s \in Nat, s <= t, t - s < TS
    PROVE  Sample(t, s) = t - s
  <1>1. TS \in Nat \ {0}
    BY TimestampAssumption
  <1>2. t \in Int /\ s \in Int
    OBVIOUS
  <1>3. PICK a \in Int, p \in 0 .. TS - 1 : TS * a \in Int /\ t = TS * a + p /\ p = t % TS
    BY <1>1, <1>2, DivMod, Zenon
  <1>4. PICK b \in Int, q \in 0 .. TS - 1 : TS * b \in Int /\ s = TS * b + q /\ q = s % TS
    BY <1>1, <1>2, DivMod, Zenon
  <1>5. p - q \in Int
    BY <1>1
  <1>6. PICK c \in Int, r \in 0 .. TS - 1 :
            TS * c \in Int /\ p - q = TS * c + r /\ r = (p - q) % TS
    BY <1>1, <1>5, DivMod, Zenon
  <1>7. t - s \in 0 .. TS - 1
    BY <1>1
  <1>8. TS * a - TS * b + TS * c = (t - s) - r
    <2>1. PICK i \in Int, j \in Int, k \in Int : i = TS * a /\ j = TS * b /\ k = TS * c
      BY <1>3, <1>4, <1>6, Zenon
    <2>2. t = i + p /\ s = j + q /\ p - q = k + r
      BY <1>3, <1>4, <1>6, <2>1, Zenon
    <2>3. p \in Int /\ q \in Int /\ r \in Int
      BY <1>1
    <2>4. i - j + k = (t - s) - r
      BY <2>2, <2>3
    <2> QED
      BY <2>1, <2>4, Zenon
  <1>9. r = t - s
    BY <1>1, <1>7, <1>8, SameResidue
  <1> QED
    BY <1>3, <1>4, <1>6, <1>9, Zenon DEF Sample, rtt_ts

(* Every step keeps MeasuredIsElapsed: only rtt_stop measures.             *)
LEMMA MeasuredStep ==
    ASSUME RInv, MeasuredIsElapsed, [RttNext]_rttVars
    PROVE  MeasuredIsElapsed'
  <1>1. CASE UNCHANGED <<rtt_rtt, elapsed>>
    BY <1>1 DEF MeasuredIsElapsed
  <1>2. ASSUME NEW delay \in Delays, NEW k \in 1 .. Len(stamps), rtt_stop(delay, k)
        PROVE  MeasuredIsElapsed'
    <2>1. delay \in Nat /\ now \in Nat /\ stamps \in Seq(0 .. now)
      BY DelaysAssumption DEF RInv, RttTyped
    <2>2. stamps[k] \in 0 .. now
      BY <2>1
    <2>3. PICK t, s : t = now + delay /\ s = stamps[k]
      OBVIOUS
    <2>4. t \in Nat /\ s \in Nat /\ s <= t
      BY <2>1, <2>2, <2>3
    <2>5. rtt_rtt' = Sample(t, s) /\ elapsed' = t - s
      BY <1>2, <2>3, Zenon DEF rtt_stop
    <2>6. t - s < TS => Sample(t, s) = t - s
      BY <2>4, SampleIsAge
    <2> QED
      BY <2>5, <2>6, Zenon DEF MeasuredIsElapsed
  <1>3. ASSUME NEW gap \in Gaps, rtt_newpack(gap)
        PROVE  UNCHANGED <<rtt_rtt, elapsed>>
    BY <1>3 DEF rtt_newpack
  <1>4. rtt_timeout => UNCHANGED <<rtt_rtt, elapsed>>
    BY DEF rtt_timeout
  <1>5. UNCHANGED rttVars => UNCHANGED <<rtt_rtt, elapsed>>
    BY DEF rttVars
  <1> QED
    BY <1>1, <1>2, <1>3, <1>4, <1>5 DEF RttNext

(* Whatever the time is at which timestamps wrap around, rtt_stop measures *)
(* the true age of the transmission answered if it is below that range.    *)
THEOREM MeasuredTruly == RttSpec => []MeasuredIsElapsed
  <1>1. RttInit => MeasuredIsElapsed
    BY DEF RttInit, MeasuredIsElapsed
  <1>2. RInv /\ MeasuredIsElapsed /\ [RttNext]_rttVars => MeasuredIsElapsed'
    BY MeasuredStep
  <1> QED
    BY <1>1, <1>2, RInvInvariant, PTL DEF RttSpec

-----------------------------------------------------------------------------
(***************************************************************************)
(* The types of texts and of what is read from them.                       *)
(***************************************************************************)

Char == 0 .. Other
Greatest == 65535
Quad == [1 .. 4 -> u_char]
Eight == [1 .. 8 -> uint16_t]

(* The numbers of two bytes, under names that keep the provers from        *)
(* counting to the greatest.                                               *)
LEMMA Uint16Numbers ==
    /\ Greatest \in Nat
    /\ \A x \in Nat : x <= Greatest => x \in uint16_t
    /\ \A x \in uint16_t : x \in Nat /\ x <= Greatest
  <1>1. PICK n \in Nat : n = 65535
    BY SMT
  <1>2. uint16_t = 0 .. n
    BY <1>1 DEF uint16_t
  <1>3. Greatest = n
    BY <1>1, SMT DEF Greatest
  <1> QED
    BY <1>2, <1>3

LEMMA InUint16 == \A x \in Nat : x <= Greatest => x \in uint16_t
  BY Uint16Numbers

LEMMA WordIsNat == \A x \in uint16_t : x \in Nat
  BY Uint16Numbers

LEMMA InChar == \A n \in Nat : n <= 18 => n \in Char
  BY SMT DEF Char, Other

LEMMA Characters ==
    ASSUME NEW n \in Nat
    PROVE  /\ n < 16 => n \in Char
           /\ n < 100 => n \div 10 \in Char
           /\ n <= 255 => n \div 100 \in Char
           /\ n % 10 \in Char /\ n % 16 \in Char
           /\ n < 256 => n \div 16 \in Char
           /\ n < 4096 => n \div 256 \in Char
           /\ n <= Greatest => n \div 4096 \in Char
  <1>1. n < 16 => n \in Char
    BY InChar
  <1>2. n < 100 => n \div 10 \in Char
    <2>1. n < 100 => n \div 10 \in Nat /\ n \div 10 <= 18
      BY SMT
    <2> QED
      BY <2>1, InChar
  <1>3. n <= 255 => n \div 100 \in Char
    <2>1. n <= 255 => n \div 100 \in Nat /\ n \div 100 <= 18
      BY SMT
    <2> QED
      BY <2>1, InChar
  <1>4. n % 10 \in Char /\ n % 16 \in Char
    <2>1. n % 10 \in Nat /\ n % 10 <= 18 /\ n % 16 \in Nat /\ n % 16 <= 18
      BY SMT
    <2> QED
      BY <2>1, InChar
  <1>5. n < 256 => n \div 16 \in Char
    <2>1. n < 256 => n \div 16 \in Nat /\ n \div 16 <= 18
      BY SMT
    <2> QED
      BY <2>1, InChar
  <1>6. n < 4096 => n \div 256 \in Char
    <2>1. n < 4096 => n \div 256 \in Nat /\ n \div 256 <= 18
      BY SMT
    <2> QED
      BY <2>1, InChar
  <1>7. n <= Greatest => n \div 4096 \in Char
    <2>1. n <= Greatest => n \div 4096 \in Nat /\ n \div 4096 <= 18
      BY SMT DEF Greatest
    <2> QED
      BY <2>1, InChar
  <1> QED
    BY <1>1, <1>2, <1>3, <1>4, <1>5, <1>6, <1>7, SMT

LEMMA UpToFour ==
    ASSUME NEW S, NEW a \in S, NEW b \in S, NEW c \in S, NEW d \in S
    PROVE  /\ <<a>> \in Seq(S) /\ <<a, b>> \in Seq(S)
           /\ <<a, b, c>> \in Seq(S) /\ <<a, b, c, d>> \in Seq(S)
  <1>1. <<>> \in Seq(S) /\ \A s \in Seq(S), x \in S : Append(s, x) \in Seq(S)
    OBVIOUS
  <1>2. <<a>> \in Seq(S) /\ <<a, b>> \in Seq(S)
    OBVIOUS
  <1>3. <<a, b, c>> = Append(<<a, b>>, c) /\ <<a, b, c, d>> = Append(<<a, b, c>>, d)
    OBVIOUS
  <1> QED
    BY <1>1, <1>2, <1>3

LEMMA DecimalTyped ==
    ASSUME NEW n \in u_char
    PROVE  Decimal(n) \in Seq(Char)
  <1>1. n \in Nat /\ n <= 255 /\ n \div 10 \in Nat
    BY SMT DEF u_char
  <1>2. CASE n < 10
    <2>1. PICK a \in Char : a = n
      BY <1>1, <1>2, Characters, SMT
    <2>2. Decimal(n) = <<a>>
      BY <1>1, <1>2, <2>1, SMT DEF Decimal
    <2>3. <<a>> \in Seq(Char)
      BY UpToFour, Zenon
    <2> QED
      BY <2>2, <2>3
  <1>3. CASE ~(n < 10) /\ n < 100
    <2>1. PICK a \in Char, b \in Char : a = n \div 10 /\ b = n % 10
      BY <1>1, <1>3, Characters, SMT
    <2>2. Decimal(n) = <<a, b>>
      BY <1>1, <1>3, <2>1, SMT DEF Decimal
    <2>3. <<a, b>> \in Seq(Char)
      BY UpToFour, Zenon
    <2> QED
      BY <2>2, <2>3
  <1>4. CASE ~(n < 10) /\ ~(n < 100)
    <2>1. PICK a \in Char, b \in Char, c \in Char : a = n \div 100 /\ b = (n \div 10) % 10 /\ c = n % 10
      BY <1>1, <1>4, Characters, SMT
    <2>2. Decimal(n) = <<a, b, c>>
      BY <1>1, <1>4, <2>1, SMT DEF Decimal
    <2>3. <<a, b, c>> \in Seq(Char)
      BY UpToFour, Zenon
    <2> QED
      BY <2>2, <2>3
  <1> QED
    BY <1>2, <1>3, <1>4, Zenon

LEMMA HexadecimalTyped ==
    ASSUME NEW n \in uint16_t
    PROVE  Hexadecimal(n) \in Seq(Char)
  <1>1. n \in Nat /\ n <= Greatest /\ n \div 16 \in Nat /\ n \div 256 \in Nat
    <2>1. n \in Nat /\ n <= Greatest
      BY Uint16Numbers
    <2> QED
      BY <2>1, SMT
  <1>2. CASE n < 16
    <2>1. PICK a \in Char : a = n
      BY <1>1, <1>2, Characters, SMT
    <2>2. Hexadecimal(n) = <<a>>
      BY <1>1, <1>2, <2>1, SMT DEF Hexadecimal
    <2>3. <<a>> \in Seq(Char)
      BY UpToFour, Zenon
    <2> QED
      BY <2>2, <2>3
  <1>3. CASE ~(n < 16) /\ n < 256
    <2>1. PICK a \in Char, b \in Char : a = n \div 16 /\ b = n % 16
      BY <1>1, <1>3, Characters, SMT
    <2>2. Hexadecimal(n) = <<a, b>>
      BY <1>1, <1>3, <2>1, SMT DEF Hexadecimal
    <2>3. <<a, b>> \in Seq(Char)
      BY UpToFour, Zenon
    <2> QED
      BY <2>2, <2>3
  <1>4. CASE ~(n < 16) /\ ~(n < 256) /\ n < 4096
    <2>1. PICK a \in Char, b \in Char, c \in Char : a = n \div 256 /\ b = (n \div 16) % 16 /\ c = n % 16
      BY <1>1, <1>4, Characters, SMT
    <2>2. Hexadecimal(n) = <<a, b, c>>
      BY <1>1, <1>4, <2>1, SMT DEF Hexadecimal
    <2>3. <<a, b, c>> \in Seq(Char)
      BY UpToFour, Zenon
    <2> QED
      BY <2>2, <2>3
  <1>5. CASE ~(n < 16) /\ ~(n < 256) /\ ~(n < 4096)
    <2>1. PICK a \in Char, b \in Char, c \in Char, d \in Char : a = n \div 4096 /\ b = (n \div 256) % 16 /\ c = (n \div 16) % 16 /\ d = n % 16
      BY <1>1, <1>5, Characters, SMT
    <2>2. Hexadecimal(n) = <<a, b, c, d>>
      BY <1>1, <1>5, <2>1, SMT DEF Hexadecimal
    <2>3. <<a, b, c, d>> \in Seq(Char)
      BY UpToFour, Zenon
    <2> QED
      BY <2>2, <2>3
  <1> QED
    BY <1>2, <1>3, <1>4, <1>5, SMT

LEMMA DecimalLength ==
    ASSUME NEW n \in u_char
    PROVE  Len(Decimal(n)) <= 3
  BY SMT DEF Decimal

LEMMA HexadecimalLength ==
    ASSUME NEW n \in uint16_t
    PROVE  Len(Hexadecimal(n)) <= 4
  BY SMT DEF Hexadecimal

LEMMA Ntop4Typed ==
    ASSUME NEW b, b[1] \in u_char, b[2] \in u_char, b[3] \in u_char, b[4] \in u_char
    PROVE  inet_ntop4(b) \in Seq(Char) /\ Len(inet_ntop4(b)) <= 15
  <1>1. <<Dot>> \in Seq(Char)
    <2>1. Dot \in Char
      <3>1. Dot \in Nat /\ Dot <= 18
        BY DEF Dot
      <3> QED
        BY <3>1, InChar
    <2> QED
      BY <2>1, UpToFour, Zenon
  <1>2. \A s, t \in Seq(Char) : s \o t \in Seq(Char)
    BY ConcatProperties
  <1>3. /\ Decimal(b[1]) \in Seq(Char) /\ Decimal(b[2]) \in Seq(Char)
        /\ Decimal(b[3]) \in Seq(Char) /\ Decimal(b[4]) \in Seq(Char)
    BY DecimalTyped
  <1>4. /\ Len(Decimal(b[1])) <= 3 /\ Len(Decimal(b[2])) <= 3
        /\ Len(Decimal(b[3])) <= 3 /\ Len(Decimal(b[4])) <= 3
    BY DecimalLength
  <1>5. PICK p, q, r, s, d : /\ p = Decimal(b[1]) /\ q = Decimal(b[2]) /\ r = Decimal(b[3])
                             /\ s = Decimal(b[4]) /\ d = <<Dot>>
    OBVIOUS
  <1>6. /\ p \in Seq(Char) /\ q \in Seq(Char) /\ r \in Seq(Char) /\ s \in Seq(Char)
        /\ d \in Seq(Char) /\ Len(d) = 1
        /\ Len(p) <= 3 /\ Len(q) <= 3 /\ Len(r) <= 3 /\ Len(s) <= 3
    BY <1>1, <1>3, <1>4, <1>5
  <1>7. ASSUME NEW t \in Seq(Char), NEW u \in Seq(Char), NEW m \in Nat, NEW n \in Nat,
               Len(t) <= m, Len(u) <= n
        PROVE  t \o u \in Seq(Char) /\ Len(t \o u) <= m + n
    <2>1. Len(t \o u) = Len(t) + Len(u) /\ Len(t) \in Nat /\ Len(u) \in Nat
      BY ConcatProperties, LenProperties
    <2> QED
      BY <1>2, <1>7, <2>1
  <1>8. PICK t1 : t1 = p \o d
    OBVIOUS
  <1>9. PICK t2 : t2 = t1 \o q
    OBVIOUS
  <1>10. PICK t3 : t3 = t2 \o d
    OBVIOUS
  <1>11. PICK t4 : t4 = t3 \o r
    OBVIOUS
  <1>12. PICK t5 : t5 = t4 \o d
    OBVIOUS
  <1>13. PICK t6 : t6 = t5 \o s
    OBVIOUS
  <1>14. inet_ntop4(b) = t6
    BY <1>5, <1>8, <1>9, <1>10, <1>11, <1>12, <1>13, Zenon DEF inet_ntop4
  <1>15. t1 \in Seq(Char) /\ Len(t1) <= 4
    <2>1. p \in Seq(Char) /\ Len(p) <= 3
      BY <1>6
    <2>2. d \in Seq(Char) /\ Len(d) <= 1
      BY <1>6
    <2>3. p \o d \in Seq(Char) /\ Len(p \o d) <= 3 + 1
      BY <1>7, <2>1, <2>2
    <2> QED
      BY <1>8, <2>3
  <1>16. t2 \in Seq(Char) /\ Len(t2) <= 7
    <2>1. t1 \in Seq(Char) /\ Len(t1) <= 4
      BY <1>6, <1>15
    <2>2. q \in Seq(Char) /\ Len(q) <= 3
      BY <1>6
    <2>3. t1 \o q \in Seq(Char) /\ Len(t1 \o q) <= 4 + 3
      BY <1>7, <2>1, <2>2
    <2> QED
      BY <1>9, <2>3
  <1>17. t3 \in Seq(Char) /\ Len(t3) <= 8
    <2>1. t2 \in Seq(Char) /\ Len(t2) <= 7
      BY <1>6, <1>16
    <2>2. d \in Seq(Char) /\ Len(d) <= 1
      BY <1>6
    <2>3. t2 \o d \in Seq(Char) /\ Len(t2 \o d) <= 7 + 1
      BY <1>7, <2>1, <2>2
    <2> QED
      BY <1>10, <2>3
  <1>18. t4 \in Seq(Char) /\ Len(t4) <= 11
    <2>1. t3 \in Seq(Char) /\ Len(t3) <= 8
      BY <1>6, <1>17
    <2>2. r \in Seq(Char) /\ Len(r) <= 3
      BY <1>6
    <2>3. t3 \o r \in Seq(Char) /\ Len(t3 \o r) <= 8 + 3
      BY <1>7, <2>1, <2>2
    <2> QED
      BY <1>11, <2>3
  <1>19. t5 \in Seq(Char) /\ Len(t5) <= 12
    <2>1. t4 \in Seq(Char) /\ Len(t4) <= 11
      BY <1>6, <1>18
    <2>2. d \in Seq(Char) /\ Len(d) <= 1
      BY <1>6
    <2>3. t4 \o d \in Seq(Char) /\ Len(t4 \o d) <= 11 + 1
      BY <1>7, <2>1, <2>2
    <2> QED
      BY <1>12, <2>3
  <1>20. t6 \in Seq(Char) /\ Len(t6) <= 15
    <2>1. t5 \in Seq(Char) /\ Len(t5) <= 12
      BY <1>6, <1>19
    <2>2. s \in Seq(Char) /\ Len(s) <= 3
      BY <1>6
    <2>3. t5 \o s \in Seq(Char) /\ Len(t5 \o s) <= 12 + 3
      BY <1>7, <2>1, <2>2
    <2> QED
      BY <1>13, <2>3
  <1> QED
    BY <1>14, <1>20

LEMMA Ntop6Typed ==
    ASSUME NEW w \in Eight
    PROVE  inet_ntop6(w) \in Seq(Char) /\ Len(inet_ntop6(w)) <= 45
  <1>1. \A i \in 1 .. 8 : w[i] \in uint16_t
    BY DEF Eight
  <1>2. \A s, t \in Seq(Char) : s \o t \in Seq(Char)
    BY ConcatProperties
  <1>3. <<Colon>> \in Seq(Char) /\ <<>> \in Seq(Char)
    <2>1. Colon \in Char
      <3>1. Colon \in Nat /\ Colon <= 18
        BY DEF Colon
      <3> QED
        BY <3>1, InChar
    <2>2. <<>> \in Seq(Char)
      OBVIOUS
    <2> QED
      BY <2>1, <2>2, UpToFour, Zenon
  <1>4. inet_ntop4(BytesOf(w)) \in Seq(Char) /\ Len(inet_ntop4(BytesOf(w))) <= 15
    <2> DEFINE b == BytesOf(w)
    <2>1. /\ b[1] = w[7] \div 256 /\ b[2] = w[7] % 256
          /\ b[3] = w[8] \div 256 /\ b[4] = w[8] % 256
      BY DEF BytesOf
    <2>2. ASSUME NEW n \in uint16_t
          PROVE  n \div 256 \in u_char /\ n % 256 \in u_char
      <3>1. n \in Nat /\ n <= 65535
        <4>1. n \in Nat /\ n <= Greatest
          BY Uint16Numbers
        <4> QED
          BY <4>1, SMT DEF Greatest
      <3>2. n \div 256 \in Nat /\ n \div 256 <= 255 /\ n % 256 \in Nat /\ n % 256 <= 255
        BY <3>1, SMT
      <3>3. \A m \in Nat : m <= 255 => m \in u_char
        BY SMT DEF u_char
      <3> QED
        BY <3>2, <3>3, Zenon
    <2>3. w[7] \in uint16_t /\ w[8] \in uint16_t
      BY <1>1
    <2> HIDE DEF b
    <2>4. b[1] \in u_char /\ b[2] \in u_char /\ b[3] \in u_char /\ b[4] \in u_char
      <3>1. /\ w[7] \div 256 \in u_char /\ w[7] % 256 \in u_char
            /\ w[8] \div 256 \in u_char /\ w[8] % 256 \in u_char
        BY <2>2, <2>3
      <3> QED
        BY <2>1, <3>1
    <2> QED
      BY <2>4, Ntop4Typed DEF b
  <1> DEFINE run == BestRun(w)
             ipv4 == run[1] = 1 /\ (run[2] = 6 \/ (run[2] = 5 /\ w[6] = 65535))
             word(i) == IF ~ipv4 \/ i < 7 THEN Hexadecimal(w[i]) ELSE inet_ntop4(BytesOf(w))
             piece(i) ==
                 IF i \in run[1] .. run[1] + run[2] - 1
                 THEN IF i = run[1] THEN <<Colon>> ELSE <<>>
                 ELSE IF ipv4 /\ i = 8 THEN <<>>
                 ELSE IF i = 1 THEN word(i) ELSE <<Colon>> \o word(i)
             pieces == [i \in 1 .. 8 |-> piece(i)]
  <1>5. \A i \in 1 .. 8 : Hexadecimal(w[i]) \in Seq(Char) /\ Len(Hexadecimal(w[i])) <= 4
    BY <1>1, HexadecimalTyped, HexadecimalLength
  <1> HIDE DEF run, ipv4
  <1>6. ASSUME NEW i \in 1 .. 8
        PROVE  /\ word(i) \in Seq(Char)
               /\ Len(word(i)) <= 4 \/ (ipv4 /\ ~(i < 7) /\ Len(word(i)) <= 15)
    <2>1. CASE ~ipv4 \/ i < 7
      <3>1. word(i) = Hexadecimal(w[i])
        BY <2>1, Zenon
      <3> HIDE DEF word
      <3> QED
        BY <1>5, <3>1
    <2>2. CASE ~(~ipv4 \/ i < 7)
      <3>1. word(i) = inet_ntop4(BytesOf(w))
        BY <2>2, Zenon
      <3> HIDE DEF word
      <3> QED
        BY <1>4, <2>2, <3>1, Zenon
    <2> QED
      BY <2>1, <2>2
  <1> HIDE DEF word
  <1>7. ASSUME NEW i \in 1 .. 8
        PROVE  /\ piece(i) \in Seq(Char) /\ Len(piece(i)) \in Nat
               /\ \/ Len(piece(i)) <= 4 \/ (i # 1 /\ Len(piece(i)) <= 5)
                  \/ ipv4 /\ i = 7 /\ Len(piece(i)) <= 16
               /\ ipv4 /\ i = 8 => Len(piece(i)) = 0
    <2>0. ipv4 /\ i = 8 => piece(i) = <<>>
      BY DEF ipv4
    <2>1. Len(<<Colon>>) = 1 /\ Len(<<>>) = 0
      OBVIOUS
    <2>2. CASE piece(i) = <<Colon>> \/ piece(i) = <<>>
      <3> HIDE DEF piece
      <3>1. PICK c : c = piece(i)
        OBVIOUS
      <3>2. CASE c = <<Colon>>
        <4>1. c \in Seq(Char) /\ Len(c) = 1
          BY <1>3, <2>1, <3>2
        <4>2. ~(ipv4 /\ i = 8)
          BY <2>0, <2>1, <3>1, <3>2
        <4> QED
          BY <3>1, <4>1, <4>2
      <3>3. CASE c = <<>>
        <4>1. c \in Seq(Char) /\ Len(c) = 0
          BY <1>3, <2>1, <3>3
        <4> QED
          BY <3>1, <4>1
      <3> QED
        BY <2>2, <3>1, <3>2, <3>3, Zenon
    <2>3. CASE ~(ipv4 /\ i = 8) /\ piece(i) = word(i) /\ i = 1
      <3> HIDE DEF piece
      <3>1. Len(word(i)) \in Nat
        BY <1>6, LenProperties
      <3> QED
        BY <1>6, <2>3, <3>1
    <2>4. CASE ~(ipv4 /\ i = 8) /\ i # 1 /\ piece(i) = <<Colon>> \o word(i)
      <3> HIDE DEF piece
      <3>1. /\ <<Colon>> \o word(i) \in Seq(Char)
            /\ Len(<<Colon>> \o word(i)) = 1 + Len(word(i)) /\ Len(word(i)) \in Nat
        BY <1>3, <1>6, <2>1, ConcatProperties, LenProperties
      <3>2. Len(word(i)) <= 4 \/ (ipv4 /\ ~(i < 7) /\ Len(word(i)) <= 15)
        BY <1>6
      <3> QED
        BY <2>4, <3>1, <3>2
    <2> QED
      BY <2>2, <2>3, <2>4, Zenon
  <1> HIDE DEF piece
  <1>8. /\ pieces \in Seq(Seq(Char)) /\ pieces # <<>> /\ Len(pieces) = 8
        /\ \A i \in 1 .. 8 : pieces[i] = piece(i)
    <2>1. pieces \in [1 .. 8 -> Seq(Char)] /\ 8 \in Nat
      BY <1>7
    <2>2. pieces \in Seq(Seq(Char))
      BY <2>1, SeqDef
    <2>3. 1 \in DOMAIN pieces
      OBVIOUS
    <2>4. Len(pieces) = 8
      BY <2>1, <2>2, LenProperties
    <2>5. \A i \in 1 .. 8 : pieces[i] = piece(i)
      OBVIOUS
    <2> QED
      BY <2>2, <2>3, <2>4, <2>5, EmptySeq
  <1> HIDE DEF pieces
  <1>9. FlattenSeq(pieces) \in Seq(Char)
    BY <1>8, FlattenTyped
  <1>10. Closing(run) \in Seq(Char) /\ Len(Closing(run)) <= 1 /\ (ipv4 => Len(Closing(run)) = 0)
    <2>1. ipv4 => Closing(run) = <<>>
      BY DEF ipv4, Closing
    <2>2. Closing(run) = <<Colon>> \/ Closing(run) = <<>>
      BY Zenon DEF Closing
    <2>3. Len(<<Colon>>) = 1 /\ Len(<<>>) = 0
      OBVIOUS
    <2>4. PICK c, none : c = Closing(run) /\ none = <<>>
      OBVIOUS
    <2>5. none \in Seq(Char) /\ Len(none) = 0
      BY <1>3, <2>3, <2>4
    <2>6. CASE c = <<Colon>>
      <3>1. c \in Seq(Char) /\ Len(c) = 1
        BY <1>3, <2>3, <2>6
      <3>2. ~ipv4
        BY <2>1, <2>4, <2>5, <3>1
      <3> QED
        BY <2>4, <3>1, <3>2
    <2>7. CASE c = none
      BY <2>4, <2>5, <2>7
    <2> QED
      BY <2>2, <2>4, <2>6, <2>7, Zenon
  <1>11. inet_ntop6(w) = FlattenSeq(pieces) \o Closing(run)
    BY SMT DEF inet_ntop6, pieces, piece, word, ipv4, run
  <1> DEFINE bound == [i \in 1 .. 8 |-> IF i < 7 THEN 5 * i - 1
                                        ELSE IF ipv4 THEN 45
                                        ELSE 5 * i - 1]
  <1>12. Len(FlattenSeq(pieces)) <= 45 /\ (~ipv4 => Len(FlattenSeq(pieces)) <= 39)
    <2>1. bound \in [1 .. Len(pieces) -> Nat]
      BY <1>8
    <2>2. Len(pieces[1]) <= bound[1]
      <3>1. Len(piece(1)) <= 4
        BY <1>7
      <3> QED
        BY <1>8, <3>1
    <2>3. ASSUME NEW i \in 2 .. Len(pieces)
          PROVE  bound[i - 1] + Len(pieces[i]) <= bound[i]
      <3>1. i \in 2 .. 8 /\ i \in 1 .. 8 /\ i - 1 \in 1 .. 8
        BY <1>8
      <3>2. pieces[i] = piece(i)
        BY <1>8, <3>1
      <3>3. PICK m, c, e : m = Len(piece(i)) /\ c = bound[i - 1] /\ e = bound[i]
        OBVIOUS
      <3>4. /\ m \in Nat /\ (m <= 5 \/ (ipv4 /\ i = 7 /\ m <= 16))
            /\ ipv4 /\ i = 8 => m = 0
        <4>1. /\ Len(piece(i)) \in Nat
              /\ \/ Len(piece(i)) <= 4 \/ (i # 1 /\ Len(piece(i)) <= 5)
                 \/ ipv4 /\ i = 7 /\ Len(piece(i)) <= 16
              /\ ipv4 /\ i = 8 => Len(piece(i)) = 0
          BY <1>7, <3>1, Zenon
        <4>2. /\ m \in Nat
              /\ m <= 4 \/ m <= 5 \/ (ipv4 /\ i = 7 /\ m <= 16)
              /\ ipv4 /\ i = 8 => m = 0
          BY <3>3, <4>1, Zenon
        <4> HIDE DEF bound
        <4>3. m <= 4 => m <= 5
          BY <4>2
        <4> QED
          BY <4>2, <4>3, Zenon
      <3>5. /\ e = IF i < 7 THEN 5 * i - 1 ELSE IF ipv4 THEN 45 ELSE 5 * i - 1
            /\ c = IF i - 1 < 7 THEN 5 * (i - 1) - 1 ELSE IF ipv4 THEN 45 ELSE 5 * (i - 1) - 1
        BY <3>1, <3>3
      <3> HIDE DEF bound
      <3>6. c + m <= e
        <4>1. CASE i < 7
          BY <3>1, <3>4, <3>5, <4>1
        <4>2. CASE i = 7
          BY <3>1, <3>4, <3>5, <4>2
        <4>3. CASE i = 8
          BY <3>1, <3>4, <3>5, <4>3
        <4> QED
          BY <3>1, <4>1, <4>2, <4>3
      <3> QED
        BY <3>2, <3>3, <3>6
    <2>4. bound[8] = IF ipv4 THEN 45 ELSE 39
      OBVIOUS
    <2> HIDE DEF bound
    <2>5. Len(FlattenSeq(pieces)) <= bound[8]
      BY <1>8, <2>1, <2>2, <2>3, FlattenLength
    <2>6. Len(FlattenSeq(pieces)) \in Nat
      BY <1>9, LenProperties
    <2> QED
      BY <2>4, <2>5, <2>6
  <1>13. Len(inet_ntop6(w)) <= 45
    <2>1. /\ Len(inet_ntop6(w)) = Len(FlattenSeq(pieces)) + Len(Closing(run))
          /\ Len(FlattenSeq(pieces)) \in Nat /\ Len(Closing(run)) \in Nat
      BY <1>9, <1>10, <1>11, ConcatProperties, LenProperties
    <2> QED
      BY <1>10, <1>12, <2>1
  <1> QED
    BY <1>2, <1>9, <1>10, <1>11, <1>13

(* What the loop of inet_pton4 keeps: tp points to the octet that is being *)
(* read, or to the one that is to come.                                    *)
Reader4 == {s \in [ok : BOOLEAN, tmp : Quad, tp : 1 .. 4, octets : 0 .. 4, saw_digit : BOOLEAN] :
                s.tp = IF s.saw_digit THEN s.octets ELSE s.octets + 1}

LEMMA Step4Typed ==
    ASSUME NEW s \in Reader4, NEW ch \in Char
    PROVE  Step4(s, ch) \in Reader4
  <1> DEFINE new == s.tmp[s.tp] * 10 + ch
             shape == [ok : BOOLEAN, tmp : Quad, tp : 1 .. 4, octets : 0 .. 4, saw_digit : BOOLEAN]
  <1>1. /\ s \in shape
        /\ s.tp = IF s.saw_digit THEN s.octets ELSE s.octets + 1
    BY DEF Reader4
  <1>2. /\ s.ok \in BOOLEAN /\ s.tmp \in Quad /\ s.tp \in 1 .. 4 /\ s.octets \in 0 .. 4
        /\ s.saw_digit \in BOOLEAN
    BY <1>1
  <1>3. CASE ch < 10 /\ new <= 255 /\ (s.saw_digit \/ s.octets < 4)
    <2> DEFINE octets == IF s.saw_digit THEN s.octets ELSE s.octets + 1
               tmp == [s.tmp EXCEPT ![s.tp] = new]
               r == [s EXCEPT !.tmp[s.tp] = new, !.saw_digit = TRUE,
                              !.octets = IF s.saw_digit THEN @ ELSE @ + 1]
    <2>1. Step4(s, ch) = r
      BY <1>3, Zenon DEF Step4
    <2>2. new \in u_char
      <3>1. s.tmp[s.tp] \in u_char
        BY <1>2 DEF Quad
      <3>2. \A x \in u_char : x \in Nat
        BY SMT DEF u_char
      <3>3. ch \in Nat
        BY SMT DEF Char, Other
      <3>4. new \in Nat
        BY <3>1, <3>2, <3>3
      <3> HIDE DEF new
      <3> QED
        BY <1>3, <3>4, SMT DEF u_char
    <2>3. tmp \in Quad
      <3> HIDE DEF new
      <3> QED
        BY <1>2, <2>2 DEF Quad
    <2>4. octets \in 0 .. 4 /\ s.tp = octets
      BY <1>1, <1>2, <1>3
    <2>5. /\ r = [[[s EXCEPT !.tmp = tmp] EXCEPT !.saw_digit = TRUE] EXCEPT !.octets = octets]
      BY <1>1
    <2> HIDE DEF r, tmp, octets, new
    <2>6. r \in shape /\ r.saw_digit = TRUE /\ r.tp = r.octets
      BY <1>1, <2>3, <2>4, <2>5
    <2>7. r \in Reader4
      BY <2>6 DEF Reader4
    <2> QED
      BY <2>1, <2>7
  <1>4. CASE /\ ~(ch < 10 /\ new <= 255 /\ (s.saw_digit \/ s.octets < 4))
             /\ ch = Dot /\ s.saw_digit /\ s.octets < 4
    <2> DEFINE r == [s EXCEPT !.tp = @ + 1, !.saw_digit = FALSE]
    <2>1. Step4(s, ch) = r
      BY <1>4, Zenon DEF Step4
    <2>2. r = [[s EXCEPT !.tp = s.tp + 1] EXCEPT !.saw_digit = FALSE]
      BY <1>1
    <2>3. s.tp = s.octets /\ s.tp + 1 \in 1 .. 4
      BY <1>1, <1>2, <1>4
    <2> HIDE DEF r
    <2>4. r \in shape /\ r.saw_digit = FALSE /\ r.tp = r.octets + 1
      BY <1>1, <2>2, <2>3
    <2>5. r \in Reader4
      BY <2>4 DEF Reader4
    <2> QED
      BY <2>1, <2>5
  <1>5. CASE /\ ~(ch < 10 /\ new <= 255 /\ (s.saw_digit \/ s.octets < 4))
             /\ ~(ch = Dot /\ s.saw_digit /\ s.octets < 4)
    <2>1. Step4(s, ch) = [s EXCEPT !.ok = FALSE]
      BY <1>5, Zenon DEF Step4
    <2>2. [s EXCEPT !.ok = FALSE] \in Reader4
      BY <1>1 DEF Reader4
    <2> QED
      BY <2>1, <2>2
  <1> QED
    BY <1>3, <1>4, <1>5, Zenon

Start4 == [ok |-> TRUE, tmp |-> <<0, 0, 0, 0>>, tp |-> 1, octets |-> 0, saw_digit |-> FALSE]

Next4(s, ch) == IF s.ok THEN Step4(s, ch) ELSE s

Reads4(f, text) ==
    f = [i \in 0 .. Len(text) |-> IF i = 0 THEN Start4 ELSE Next4(f[i - 1], text[i])]

LEMMA Start4Typed == Start4 \in Reader4
  <1>1. <<0, 0, 0, 0>> \in Quad
    <2>1. 0 \in u_char
      BY SMT DEF u_char
    <2> QED
      BY <2>1 DEF Quad
  <1> QED
    BY <1>1 DEF Start4, Reader4

(* Every round of the loop stays inside tmp.                                        *)
LEMMA Reads4Typed ==
    ASSUME NEW text \in Seq(Char), NEW f, Reads4(f, text)
    PROVE  \A i \in 0 .. Len(text) : f[i] \in Reader4
  <1> DEFINE n == Len(text)
  <1>1. n \in Nat /\ 0 <= n /\ \A i \in 1 .. n : text[i] \in Char
    BY ElementOfSeq, LenProperties
  <1>2. \A s \in Reader4, ch \in Char : Next4(s, ch) \in Reader4
    BY Step4Typed, Zenon DEF Next4
  <1>3. \A i \in 0 .. n : f[i] = IF i = 0 THEN Start4 ELSE Next4(f[i - 1], text[i])
    BY Zenon DEF Reads4
  <1>4. f[0] \in Reader4
    BY <1>1, <1>3, Start4Typed
  <1>5. ASSUME NEW i \in 0 + 1 .. n, f[i - 1] \in Reader4
        PROVE  f[i] \in Reader4
    <2>1. i \in 0 .. n /\ i # 0 /\ i \in 1 .. n
      BY <1>1
    <2> QED
      BY <1>1, <1>2, <1>3, <1>5, <2>1
  <1>6. 0 \in Nat
    OBVIOUS
  <1> HIDE DEF n
  <1>7. \A i \in 0 .. n : f[i] \in Reader4
    BY <1>1, <1>4, <1>5, <1>6, StaysIn
  <1> QED
    BY <1>7 DEF n

(* inet_pton4 reads an address or nothing.                                 *)
LEMMA Pton4Typed ==
    ASSUME NEW text \in Seq(Char)
    PROVE  inet_pton4(text) \in Quad \union {Invalid}
  <1> DEFINE n == Len(text)
             g == [x \in (0 + 1 .. n) \X Reader4 |-> Next4(x[2], text[x[1]])]
  <1>1. n \in Nat /\ 0 <= n /\ \A i \in 1 .. n : text[i] \in Char
    BY ElementOfSeq, LenProperties
  <1>2. \A s \in Reader4, ch \in Char : Next4(s, ch) \in Reader4
    BY Step4Typed, Zenon DEF Next4
  <1>3. StepsIn(g, 0, n, Reader4)
    <2> HIDE DEF n
    <2>1. ASSUME NEW i \in 0 + 1 .. n, NEW s \in Reader4
          PROVE  g[<<i, s>>] \in Reader4
      <3>1. <<i, s>> \in (0 + 1 .. n) \X Reader4 /\ i \in 1 .. n
        OBVIOUS
      <3>2. g[<<i, s>>] = Next4(s, text[i])
        BY <3>1
      <3> HIDE DEF g
      <3> QED
        BY <1>1, <1>2, <3>1, <3>2
    <2> HIDE DEF g
    <2> QED
      BY <2>1 DEF StepsIn
  <1>4. PICK f : RecursiveFrom(f, 0, n, Reader4, Start4, g)
    <2>1. 0 \in Nat
      OBVIOUS
    <2> HIDE DEF n, g
    <2> QED
      BY <1>1, <1>3, <2>1, Start4Typed, RecursionFrom
  <1>5. \E h : Reads4(h, text)
    <2>1. f \in [0 .. n -> Reader4] /\ f[0] = Start4
      BY <1>4 DEF RecursiveFrom
    <2>2. ASSUME NEW i \in 0 .. n, i # 0
          PROVE  f[i] = Next4(f[i - 1], text[i])
      <3>1. i \in 0 + 1 .. n /\ i - 1 \in 0 .. n
        BY <1>1, <2>2
      <3>2. <<i, f[i - 1]>> \in (0 + 1 .. n) \X Reader4
        BY <2>1, <3>1
      <3>3. g[<<i, f[i - 1]>>] = Next4(f[i - 1], text[i])
        <4> HIDE DEF n
        <4> QED
          BY <3>2
      <3>4. f[i] = g[<<i, f[i - 1]>>]
        <4> HIDE DEF g
        <4> QED
          BY <1>4, <3>1 DEF RecursiveFrom
      <3> QED
        BY <3>3, <3>4, Zenon
    <2>3. \A i \in 0 .. n : f[i] = IF i = 0 THEN Start4 ELSE Next4(f[i - 1], text[i])
      BY <2>1, <2>2
    <2>4. f = [i \in 0 .. n |-> f[i]]
      BY <2>1
    <2>5. Reads4(f, text)
      BY <2>3, <2>4, Zenon DEF Reads4
    <2> QED
      BY <2>5
  <1> DEFINE state == CHOOSE h : Reads4(h, text)
  <1>6. Reads4(state, text)
    BY <1>5, Zenon
  <1>7. inet_pton4(text) = IF state[n].ok /\ state[n].octets = 4 THEN state[n].tmp ELSE Invalid
    BY Zenon DEF inet_pton4, Reads4, Next4, Start4
  <1> HIDE DEF state
  <1>8. \A i \in 0 .. n : state[i] \in Reader4
    BY <1>6, Reads4Typed
  <1>9. state[n] \in Reader4
    BY <1>1, <1>8
  <1>10. state[n].tmp \in Quad
    BY <1>9 DEF Reader4
  <1> QED
    BY <1>7, <1>10, Zenon

(* What the loop of inet_aton keeps.                                       *)
ReaderAton == {s \in [ok : BOOLEAN, dots : 0 .. 3, acc : Nat, addr : Seq(u_char)] : Len(s.addr) = s.dots}

LEMMA InUChar == \A x \in Nat : x <= 255 => x \in u_char
  BY SMT DEF u_char

LEMMA CharIsNat == \A ch \in Char : ch \in Nat
  BY SMT DEF Char, Other

LEMMA StepAtonTyped ==
    ASSUME NEW s \in ReaderAton, NEW ch \in Char
    PROVE  StepAton(s, ch) \in ReaderAton
  <1> DEFINE shape == [ok : BOOLEAN, dots : 0 .. 3, acc : Nat, addr : Seq(u_char)]
  <1>1. s \in shape /\ Len(s.addr) = s.dots
    BY DEF ReaderAton
  <1>2. s.dots \in 0 .. 3 /\ s.acc \in Nat /\ s.addr \in Seq(u_char)
    BY <1>1
  <1>3. CASE ch < 10
    <2>1. PICK v \in Nat : v = s.acc * 10 + ch
      BY <1>2, CharIsNat
    <2>2. StepAton(s, ch) = [s EXCEPT !.acc = v]
      BY <1>3, <2>1 DEF StepAton
    <2>3. [s EXCEPT !.acc = v] \in ReaderAton
      BY <1>1 DEF ReaderAton
    <2> QED
      BY <2>2, <2>3
  <1>4. CASE ~(ch < 10) /\ ch = Dot /\ s.dots < 3 /\ s.acc <= 255
    <2> DEFINE r == [[[s EXCEPT !.dots = s.dots + 1] EXCEPT !.addr = Append(s.addr, s.acc)]
                        EXCEPT !.acc = 0]
    <2>1. StepAton(s, ch) = r
      BY <1>4, SMT DEF StepAton
    <2>2. s.acc \in u_char
      BY <1>2, <1>4, InUChar
    <2>3. PICK a \in Seq(u_char) : a = Append(s.addr, s.acc) /\ Len(a) = s.dots + 1
      <3>1. PICK t \in Seq(u_char), x \in u_char : t = s.addr /\ x = s.acc
        BY <1>2, <2>2
      <3>2. Append(t, x) \in Seq(u_char) /\ Len(Append(t, x)) = Len(t) + 1
        BY AppendProperties
      <3> QED
        BY <1>1, <3>1, <3>2
    <2>4. s.dots + 1 \in 0 .. 3
      BY <1>2, <1>4
    <2>5. r \in shape /\ r.addr = a /\ r.dots = s.dots + 1
      BY <1>1, <2>3, <2>4
    <2> HIDE DEF r
    <2>6. r \in ReaderAton
      BY <2>3, <2>5 DEF ReaderAton
    <2> QED
      BY <2>1, <2>6
  <1>5. CASE ~(ch < 10) /\ ~(ch = Dot /\ s.dots < 3 /\ s.acc <= 255)
    <2>1. StepAton(s, ch) = [s EXCEPT !.ok = FALSE]
      BY <1>5, SMT DEF StepAton
    <2>2. [s EXCEPT !.ok = FALSE] \in ReaderAton
      BY <1>1 DEF ReaderAton
    <2> QED
      BY <2>1, <2>2
  <1> QED
    BY <1>3, <1>4, <1>5

StartAton == [ok |-> TRUE, dots |-> 0, acc |-> 0, addr |-> <<>>]

NextAton(s, ch) == IF s.ok THEN StepAton(s, ch) ELSE s

ReadsAton(f, text) ==
    f = [i \in 0 .. Len(text) |-> IF i = 0 THEN StartAton ELSE NextAton(f[i - 1], text[i])]

LEMMA StartAtonTyped == StartAton \in ReaderAton
  <1>1. <<>> \in Seq(u_char) /\ Len(<<>>) = 0
    OBVIOUS
  <1> QED
    BY <1>1 DEF StartAton, ReaderAton

(* No round of the loop has a fifth number.                                         *)
LEMMA ReadsAtonTyped ==
    ASSUME NEW text \in Seq(Char), NEW f, ReadsAton(f, text)
    PROVE  \A i \in 0 .. Len(text) : f[i] \in ReaderAton
  <1> DEFINE n == Len(text)
  <1>1. n \in Nat /\ 0 <= n /\ \A i \in 1 .. n : text[i] \in Char
    BY ElementOfSeq, LenProperties
  <1>2. \A s \in ReaderAton, ch \in Char : NextAton(s, ch) \in ReaderAton
    BY StepAtonTyped, Zenon DEF NextAton
  <1>3. \A i \in 0 .. n : f[i] = IF i = 0 THEN StartAton ELSE NextAton(f[i - 1], text[i])
    BY Zenon DEF ReadsAton
  <1>4. f[0] \in ReaderAton
    BY <1>1, <1>3, StartAtonTyped
  <1>5. ASSUME NEW i \in 0 + 1 .. n, f[i - 1] \in ReaderAton
        PROVE  f[i] \in ReaderAton
    <2>1. i \in 0 .. n /\ i # 0 /\ i \in 1 .. n
      BY <1>1
    <2> QED
      BY <1>1, <1>2, <1>3, <1>5, <2>1
  <1>6. 0 \in Nat
    OBVIOUS
  <1> HIDE DEF n
  <1>7. \A i \in 0 .. n : f[i] \in ReaderAton
    BY <1>1, <1>4, <1>5, <1>6, StaysIn
  <1> QED
    BY <1>7 DEF n

(* inet_aton reads an address or nothing.                                  *)
LEMMA AtonTyped ==
    ASSUME NEW text \in Seq(Char)
    PROVE  inet_aton(text) \in Quad \union {Invalid}
  <1> DEFINE n == Len(text)
             g == [x \in (0 + 1 .. n) \X ReaderAton |-> NextAton(x[2], text[x[1]])]
  <1>1. n \in Nat /\ 0 <= n /\ \A i \in 1 .. n : text[i] \in Char
    BY ElementOfSeq, LenProperties
  <1>2. \A s \in ReaderAton, ch \in Char : NextAton(s, ch) \in ReaderAton
    BY StepAtonTyped, Zenon DEF NextAton
  <1>3. StepsIn(g, 0, n, ReaderAton)
    <2> HIDE DEF n
    <2>1. ASSUME NEW i \in 0 + 1 .. n, NEW s \in ReaderAton
          PROVE  g[<<i, s>>] \in ReaderAton
      <3>1. <<i, s>> \in (0 + 1 .. n) \X ReaderAton /\ i \in 1 .. n
        OBVIOUS
      <3>2. g[<<i, s>>] = NextAton(s, text[i])
        BY <3>1
      <3> HIDE DEF g
      <3> QED
        BY <1>1, <1>2, <3>1, <3>2
    <2> HIDE DEF g
    <2> QED
      BY <2>1 DEF StepsIn
  <1>4. PICK f : RecursiveFrom(f, 0, n, ReaderAton, StartAton, g)
    <2>1. 0 \in Nat
      OBVIOUS
    <2> HIDE DEF n, g
    <2> QED
      BY <1>1, <1>3, <2>1, StartAtonTyped, RecursionFrom
  <1>5. \E h : ReadsAton(h, text)
    <2>1. f \in [0 .. n -> ReaderAton] /\ f[0] = StartAton
      BY <1>4 DEF RecursiveFrom
    <2>2. ASSUME NEW i \in 0 .. n, i # 0
          PROVE  f[i] = NextAton(f[i - 1], text[i])
      <3>1. i \in 0 + 1 .. n /\ i - 1 \in 0 .. n
        BY <1>1, <2>2
      <3>2. <<i, f[i - 1]>> \in (0 + 1 .. n) \X ReaderAton
        BY <2>1, <3>1
      <3>3. g[<<i, f[i - 1]>>] = NextAton(f[i - 1], text[i])
        <4> HIDE DEF n
        <4> QED
          BY <3>2
      <3>4. f[i] = g[<<i, f[i - 1]>>]
        <4> HIDE DEF g
        <4> QED
          BY <1>4, <3>1 DEF RecursiveFrom
      <3> QED
        BY <3>3, <3>4, Zenon
    <2>3. \A i \in 0 .. n : f[i] = IF i = 0 THEN StartAton ELSE NextAton(f[i - 1], text[i])
      BY <2>1, <2>2
    <2>4. f = [i \in 0 .. n |-> f[i]]
      BY <2>1
    <2>5. ReadsAton(f, text)
      BY <2>3, <2>4, Zenon DEF ReadsAton
    <2> QED
      BY <2>5
  <1> DEFINE state == CHOOSE h : ReadsAton(h, text)
             addr == Append(state[n].addr, state[n].acc)
  <1>6. ReadsAton(state, text)
    BY <1>5, Zenon
  <1>7. inet_aton(text) = IF state[n].ok /\ state[n].acc <= 255
                          THEN [k \in 1 .. 4 |-> IF k <= Len(addr) THEN addr[k] ELSE 0]
                          ELSE Invalid
    BY SMT DEF inet_aton, ReadsAton, NextAton, StartAton
  <1> HIDE DEF state
  <1>8. \A i \in 0 .. n : state[i] \in ReaderAton
    BY <1>6, ReadsAtonTyped
  <1>9. state[n] \in ReaderAton
    BY <1>1, <1>8
  <1>10. CASE state[n].ok /\ state[n].acc <= 255
    <2>1. state[n].addr \in Seq(u_char) /\ state[n].acc \in Nat
      BY <1>9 DEF ReaderAton
    <2>2. state[n].acc \in u_char
      BY <1>10, <2>1, InUChar
    <2>3. addr \in Seq(u_char)
      BY <2>1, <2>2, AppendProperties
    <2> HIDE DEF addr
    <2>4. Len(addr) \in Nat /\ \A k \in 1 .. Len(addr) : addr[k] \in u_char
      BY <2>3, ElementOfSeq, LenProperties
    <2>5. 0 \in u_char
      BY InUChar
    <2>6. \A k \in 1 .. 4 : (IF k <= Len(addr) THEN addr[k] ELSE 0) \in u_char
      BY <2>4, <2>5
    <2>7. [k \in 1 .. 4 |-> IF k <= Len(addr) THEN addr[k] ELSE 0] \in Quad
      BY <2>6 DEF Quad
    <2> QED
      BY <1>7, <1>10, <2>7
  <1> QED
    BY <1>7, <1>10

(* What the loop of inet_pton6 keeps: never more than the eight words that *)
(* there is room for, and the double colon among them.                     *)
Fields6(n) ==
    [ok : BOOLEAN, end : BOOLEAN, tmp : Seq(uint16_t), colonp : Int,
     curtok : 1 .. n + 1, saw_xdigit : BOOLEAN, val : uint16_t]

Reader6(n) == {s \in Fields6(n) : Len(s.tmp) <= 8 /\ -1 <= s.colonp /\ s.colonp <= Len(s.tmp)}

LEMMA ZeroWord == 0 \in uint16_t
  BY InUint16, SMT DEF Greatest

LEMMA StoreWordTyped ==
    ASSUME NEW n \in Nat, NEW s \in Reader6(n)
    PROVE  StoreWord(s) \in Reader6(n)
  <1>1. s \in Fields6(n) /\ Len(s.tmp) <= 8 /\ -1 <= s.colonp /\ s.colonp <= Len(s.tmp)
    BY DEF Reader6
  <1>2. s.tmp \in Seq(uint16_t) /\ s.val \in uint16_t /\ s.colonp \in Int
    BY <1>1 DEF Fields6
  <1>3. CASE Len(s.tmp) = 8
    <2>1. StoreWord(s) = [s EXCEPT !.ok = FALSE]
      BY <1>3, Zenon DEF StoreWord
    <2>2. [s EXCEPT !.ok = FALSE] \in Reader6(n)
      BY <1>1 DEF Reader6, Fields6
    <2> QED
      BY <2>1, <2>2
  <1>4. CASE Len(s.tmp) # 8
    <2>1. PICK t \in Seq(uint16_t), v \in uint16_t : t = s.tmp /\ v = s.val
      BY <1>2
    <2>2. PICK a \in Seq(uint16_t) : a = Append(t, v) /\ Len(a) = Len(t) + 1
      BY AppendProperties
    <2>3. Len(t) \in Nat
      BY LenProperties
    <2> DEFINE r == [[[s EXCEPT !.tmp = a] EXCEPT !.saw_xdigit = FALSE] EXCEPT !.val = 0]
    <2>4. StoreWord(s) = r
      BY <1>1, <1>4, <2>1, <2>2 DEF StoreWord, Fields6
    <2>5. r \in Fields6(n) /\ r.tmp = a /\ r.colonp = s.colonp
      BY <1>1, <2>2, ZeroWord DEF Fields6
    <2>6. Len(a) <= 8 /\ s.colonp <= Len(a)
      <3>1. PICK k \in Nat, c \in Int : k = Len(t) /\ c = s.colonp
        BY <1>2, <2>3
      <3>2. k <= 8 /\ k # 8 /\ c <= k /\ Len(a) = k + 1
        BY <1>1, <1>4, <2>1, <2>2, <3>1, Zenon
      <3>3. k + 1 <= 8 /\ c <= k + 1
        BY <3>2
      <3> QED
        BY <3>1, <3>2, <3>3, Zenon
    <2> HIDE DEF r
    <2>7. r \in Reader6(n)
      BY <1>1, <2>5, <2>6 DEF Reader6
    <2> QED
      BY <2>4, <2>7
  <1> QED
    BY <1>3, <1>4

(* The two words of an IPv4 address.                                       *)
LEMMA QuadWords ==
    ASSUME NEW q \in Quad
    PROVE  /\ 256 * q[1] + q[2] \in uint16_t
           /\ 256 * q[3] + q[4] \in uint16_t
  <1>1. \A a, b \in u_char : 256 * a + b \in uint16_t
    <2> SUFFICES ASSUME NEW a \in u_char, NEW b \in u_char
                 PROVE  256 * a + b \in uint16_t
      OBVIOUS
    <2>1. a \in Nat /\ b \in Nat /\ a <= 255 /\ b <= 255
      BY SMT DEF u_char
    <2>2. 256 * a + b \in Nat /\ 256 * a + b <= Greatest
      BY <2>1, SMT DEF Greatest
    <2> QED
      BY <2>2, InUint16
  <1>2. q[1] \in u_char /\ q[2] \in u_char /\ q[3] \in u_char /\ q[4] \in u_char
    BY DEF Quad
  <1> QED
    BY <1>1, <1>2, Zenon

LEMMA Step6Typed ==
    ASSUME NEW text \in Seq(Char), NEW s \in Reader6(Len(text)), NEW i \in 1 .. Len(text)
    PROVE  Step6(s, text, i) \in Reader6(Len(text))
  <1> DEFINE n == Len(text)
             ch == text[i]
             quad == inet_pton4(SubSeq(text, s.curtok, Len(text)))
             digit == ch < 16 /\ s.val < 4096
             word == ch = Colon /\ s.saw_xdigit
             gap == ch = Colon /\ s.colonp = -1
             ipv4 == ch = Dot /\ Len(s.tmp) <= 6 /\ quad # Invalid
  <1>1. n \in Nat /\ i \in 1 .. n /\ ch \in Char /\ ch \in Nat
    BY ElementOfSeq, LenProperties, CharIsNat
  <1>2. s \in Fields6(n) /\ Len(s.tmp) <= 8 /\ -1 <= s.colonp /\ s.colonp <= Len(s.tmp)
    BY DEF Reader6
  <1>3. /\ s.tmp \in Seq(uint16_t) /\ s.val \in uint16_t /\ s.colonp \in Int
        /\ s.curtok \in 1 .. n + 1
    BY <1>2 DEF Fields6
  <1>4. Len(s.tmp) \in Nat
    BY <1>3, LenProperties
  <1>5. i + 1 \in 1 .. n + 1
    BY <1>1
  <1>6. Step6(s, text, i) =
            IF digit THEN [s EXCEPT !.val = 16 * @ + ch, !.saw_xdigit = TRUE]
            ELSE IF word THEN [StoreWord(s) EXCEPT !.curtok = i + 1]
            ELSE IF gap THEN [s EXCEPT !.colonp = Len(s.tmp), !.curtok = i + 1]
            ELSE IF ipv4
            THEN [s EXCEPT !.tmp = @ \o <<256 * quad[1] + quad[2], 256 * quad[3] + quad[4]>>,
                           !.saw_xdigit = FALSE, !.end = TRUE]
            ELSE [s EXCEPT !.ok = FALSE]
    BY SMT DEF Step6
  <1> HIDE DEF n, quad, ch
  <1>7. CASE digit
    <2> DEFINE r == [s EXCEPT !.val = 16 * @ + ch, !.saw_xdigit = TRUE]
    <2>1. PICK v \in uint16_t : v = 16 * s.val + ch
      <3>1. s.val \in Nat
        BY <1>3, WordIsNat
      <3>2. 16 * s.val + ch \in Nat /\ 16 * s.val + ch <= Greatest
        BY <1>1, <1>7, <3>1, SMT DEF Greatest
      <3> QED
        BY <3>2, InUint16
    <2>2. r = [[s EXCEPT !.val = v] EXCEPT !.saw_xdigit = TRUE]
      BY <1>2, <2>1 DEF Fields6
    <2>3. [[s EXCEPT !.val = v] EXCEPT !.saw_xdigit = TRUE] \in Reader6(n)
      BY <1>2 DEF Reader6, Fields6
    <2> HIDE DEF r, digit, word, gap, ipv4
    <2> QED
      BY <1>6, <1>7, <2>2, <2>3, Zenon DEF r, n
  <1>8. CASE ~digit /\ word
    <2>1. PICK q \in Reader6(n) : q = StoreWord(s)
      BY <1>1, StoreWordTyped DEF n
    <2>2. [q EXCEPT !.curtok = i + 1] \in Reader6(n)
      BY <1>5 DEF Reader6, Fields6
    <2> HIDE DEF digit, word, gap, ipv4
    <2> QED
      BY <1>6, <1>8, <2>1, <2>2, Zenon DEF n
  <1>9. CASE ~digit /\ ~word /\ gap
    <2>1. PICK k \in Nat : k = Len(s.tmp)
      BY <1>4
    <2> DEFINE r == [s EXCEPT !.colonp = Len(s.tmp), !.curtok = i + 1]
               z == [[s EXCEPT !.colonp = k] EXCEPT !.curtok = i + 1]
    <2>2. r = z
      BY <1>2, <2>1 DEF Fields6
    <2>3. z \in Reader6(n)
      <3>1. PICK c \in 1 .. n + 1 : c = i + 1
        BY <1>5
      <3>2. z = [[s EXCEPT !.colonp = k] EXCEPT !.curtok = c]
        BY <3>1
      <3>3. z \in Fields6(n)
        <4> HIDE DEF z, r
        <4>0. \A j \in Int : [s EXCEPT !.colonp = j] \in Fields6(n)
          BY <1>2 DEF Fields6
        <4>1. PICK y \in Fields6(n) : y = [s EXCEPT !.colonp = k]
          <5>1. k \in Int
            BY <2>1
          <5> QED
            BY <4>0, <5>1
        <4>2. [y EXCEPT !.curtok = c] \in Fields6(n)
          BY DEF Fields6
        <4> HIDE DEF z
        <4> QED
          BY <3>2, <4>1, <4>2
      <3>4. z.tmp = s.tmp /\ z.colonp = k
        BY <1>2, <3>2 DEF Fields6
      <3> HIDE DEF z
      <3>5. Len(z.tmp) <= 8 /\ -1 <= z.colonp /\ z.colonp <= Len(z.tmp)
        BY <1>2, <2>1, <3>4
      <3> QED
        BY <3>3, <3>5 DEF Reader6
    <2> HIDE DEF r, z, digit, word, gap, ipv4
    <2> QED
      BY <1>6, <1>9, <2>2, <2>3, Zenon DEF r, z, n
  <1>10. CASE ~digit /\ ~word /\ ~gap /\ ipv4
    <2>1. SubSeq(text, s.curtok, Len(text)) \in Seq(Char)
      BY <1>3, SubSeqProperties DEF n
    <2>2. quad \in Quad
      <3>1. quad \in Quad \union {Invalid}
        BY <2>1, Pton4Typed DEF quad
      <3> QED
        BY <1>10, <3>1
    <2>3. PICK x \in uint16_t, y \in uint16_t :
              x = 256 * quad[1] + quad[2] /\ y = 256 * quad[3] + quad[4]
      BY <2>2, QuadWords
    <2>4. <<x, y>> \in Seq(uint16_t) /\ Len(<<x, y>>) = 2
      OBVIOUS
    <2>5. PICK t \in Seq(uint16_t) : t = s.tmp \o <<x, y>> /\ Len(t) = Len(s.tmp) + 2
      <3>1. PICK u \in Seq(uint16_t), w \in Seq(uint16_t) : u = s.tmp /\ w = <<x, y>>
        BY <1>3, <2>4
      <3>2. u \o w \in Seq(uint16_t) /\ Len(u \o w) = Len(u) + Len(w)
        BY ConcatProperties
      <3> QED
        BY <2>4, <3>1, <3>2
    <2> DEFINE r == [s EXCEPT !.tmp = @ \o <<256 * quad[1] + quad[2], 256 * quad[3] + quad[4]>>,
                              !.saw_xdigit = FALSE, !.end = TRUE]
    <2>6. r = [[[s EXCEPT !.tmp = t] EXCEPT !.saw_xdigit = FALSE] EXCEPT !.end = TRUE]
      BY <1>2, <2>3, <2>5 DEF Fields6
    <2>7. Len(t) <= 8 /\ s.colonp <= Len(t)
      BY <1>2, <1>3, <1>4, <1>10, <2>5
    <2>8. [[[s EXCEPT !.tmp = t] EXCEPT !.saw_xdigit = FALSE] EXCEPT !.end = TRUE] \in Reader6(n)
      BY <1>2, <2>7 DEF Reader6, Fields6
    <2> HIDE DEF r, digit, word, gap, ipv4
    <2> QED
      BY <1>6, <1>10, <2>6, <2>8, Zenon DEF r, n
  <1>11. CASE ~digit /\ ~word /\ ~gap /\ ~ipv4
    <2>1. [s EXCEPT !.ok = FALSE] \in Reader6(n)
      BY <1>2 DEF Reader6, Fields6
    <2> HIDE DEF digit, word, gap, ipv4
    <2> QED
      BY <1>6, <1>11, <2>1, Zenon DEF n
  <1> HIDE DEF digit, word, gap, ipv4
  <1> QED
    BY <1>7, <1>8, <1>9, <1>10, <1>11, Zenon

Start6(first) ==
    [ok |-> TRUE, end |-> FALSE, tmp |-> <<>>, colonp |-> -1,
     curtok |-> first + 1, saw_xdigit |-> FALSE, val |-> 0]

Next6(s, text, i) == IF s.ok /\ ~s.end THEN Step6(s, text, i) ELSE s

Reads6(f, text, first) ==
    f = [i \in first .. Len(text) |-> IF i = first THEN Start6(first) ELSE Next6(f[i - 1], text, i)]

LEMMA Start6Typed ==
    ASSUME NEW n \in Nat, NEW first \in 0 .. n
    PROVE  Start6(first) \in Reader6(n)
  <1>1. <<>> \in Seq(uint16_t) /\ Len(<<>>) = 0
    OBVIOUS
  <1>2. first + 1 \in 1 .. n + 1 /\ -1 \in Int
    OBVIOUS
  <1>3. Start6(first) \in Fields6(n)
    BY <1>1, <1>2, ZeroWord DEF Start6, Fields6
  <1>4. Start6(first).tmp = <<>> /\ Start6(first).colonp = -1
    BY DEF Start6
  <1>5. Len(Start6(first).tmp) <= 8 /\ -1 <= Start6(first).colonp
        /\ Start6(first).colonp <= Len(Start6(first).tmp)
    BY <1>1, <1>4
  <1> QED
    BY <1>3, <1>5 DEF Reader6

LEMMA SpreadTyped ==
    ASSUME NEW tmp \in Seq(uint16_t), Len(tmp) <= 8, NEW colonp \in Nat, colonp <= Len(tmp)
    PROVE  Spread(tmp, colonp) \in Eight
  <1> DEFINE room == 8 - Len(tmp)
  <1>1. Len(tmp) \in Nat /\ \A k \in 1 .. Len(tmp) : tmp[k] \in uint16_t
    BY ElementOfSeq, LenProperties
  <1>2. ASSUME NEW k \in 1 .. 8
        PROVE  (IF k <= colonp THEN tmp[k]
                ELSE IF k > colonp + room /\ room > 0 THEN tmp[k - room] ELSE 0) \in uint16_t
    <2>1. k <= colonp => k \in 1 .. Len(tmp)
      BY <1>1
    <2>2. k > colonp + room => k - room \in 1 .. Len(tmp)
      BY <1>1
    <2> HIDE DEF room
    <2> QED
      BY <1>1, <2>1, <2>2, ZeroWord
  <1>3. [k \in 1 .. 8 |-> IF k <= colonp THEN tmp[k]
                          ELSE IF k > colonp + room /\ room > 0 THEN tmp[k - room] ELSE 0] \in Eight
    <2> HIDE DEF room
    <2> QED
      BY <1>2 DEF Eight
  <1> QED
    BY <1>3, Zenon DEF Spread

(* Every round of the loop stays inside tmp.                               *)
LEMMA Reads6Typed ==
    ASSUME NEW text \in Seq(Char), NEW first \in 0 .. 1, first <= Len(text),
           NEW f, Reads6(f, text, first)
    PROVE  \A i \in first .. Len(text) : f[i] \in Reader6(Len(text))
  <1> DEFINE n == Len(text)
             R == Reader6(n)
  <1>1. n \in Nat /\ first \in Nat /\ first <= n /\ first \in 0 .. n
    BY LenProperties
  <1>2. \A i \in first + 1 .. n : i \in 1 .. n
    BY <1>1
  <1>3. \A s \in R, i \in first + 1 .. n : Next6(s, text, i) \in R
    BY <1>2, Step6Typed, Zenon DEF Next6
  <1>4. Start6(first) \in R
    BY <1>1, Start6Typed
  <1> HIDE DEF n, R
  <1>5. \A i \in first .. n : f[i] = IF i = first THEN Start6(first) ELSE Next6(f[i - 1], text, i)
    BY Zenon DEF Reads6, n
  <1>6. f[first] \in R
    <2>1. first \in first .. n
      BY <1>1
    <2> QED
      BY <1>4, <1>5, <2>1
  <1>7. ASSUME NEW i \in first + 1 .. n, f[i - 1] \in R
        PROVE  f[i] \in R
    <2>1. i \in first .. n /\ i # first
      BY <1>1
    <2> QED
      BY <1>3, <1>5, <1>7, <2>1
  <1>8. \A i \in first .. n : f[i] \in R
    BY <1>1, <1>6, <1>7, StaysIn
  <1> QED
    BY <1>8 DEF n, R

(* inet_pton6 reads an address or nothing.                                 *)
LEMMA Pton6Typed ==
    ASSUME NEW text \in Seq(Char)
    PROVE  inet_pton6(text) \in Eight \union {Invalid}
  <1> DEFINE n == Len(text)
             first == IF text # <<>> /\ text[1] = Colon THEN 1 ELSE 0
             R == Reader6(n)
             g == [x \in (first + 1 .. n) \X R |-> Next6(x[2], text, x[1])]
  <1>1. n \in Nat /\ first \in Nat /\ first <= n /\ first \in 0 .. n
    BY EmptySeq, LenProperties
  <1> HIDE DEF first
  <1>2. \A i \in first + 1 .. n : i \in 1 .. n
    BY <1>1
  <1>3. \A s \in R, i \in first + 1 .. n : Next6(s, text, i) \in R
    BY <1>2, Step6Typed, Zenon DEF Next6
  <1>4. Start6(first) \in R
    BY <1>1, Start6Typed
  <1> HIDE DEF n, R
  <1>5. StepsIn(g, first, n, R)
    <2>1. ASSUME NEW i \in first + 1 .. n, NEW s \in R
          PROVE  g[<<i, s>>] \in R
      <3>1. <<i, s>> \in (first + 1 .. n) \X R
        OBVIOUS
      <3>2. g[<<i, s>>] = Next6(s, text, i)
        BY <3>1
      <3> HIDE DEF g
      <3> QED
        BY <1>3, <3>2
    <2> HIDE DEF g
    <2> QED
      BY <2>1 DEF StepsIn
  <1>6. PICK f : RecursiveFrom(f, first, n, R, Start6(first), g)
    <2> HIDE DEF g
    <2> QED
      BY <1>1, <1>4, <1>5, RecursionFrom
  <1>7. \E h : Reads6(h, text, first)
    <2>1. f \in [first .. n -> R] /\ f[first] = Start6(first)
      BY <1>6 DEF RecursiveFrom
    <2>2. ASSUME NEW i \in first .. n, i # first
          PROVE  f[i] = Next6(f[i - 1], text, i)
      <3>1. i \in first + 1 .. n /\ i - 1 \in first .. n
        BY <1>1, <2>2
      <3>2. <<i, f[i - 1]>> \in (first + 1 .. n) \X R
        BY <2>1, <3>1
      <3>3. g[<<i, f[i - 1]>>] = Next6(f[i - 1], text, i)
        BY <3>2
      <3>4. f[i] = g[<<i, f[i - 1]>>]
        <4> HIDE DEF g
        <4> QED
          BY <1>6, <3>1 DEF RecursiveFrom
      <3> QED
        BY <3>3, <3>4, Zenon
    <2>3. \A i \in first .. n : f[i] = IF i = first THEN Start6(first) ELSE Next6(f[i - 1], text, i)
      BY <2>1, <2>2
    <2>4. f = [i \in first .. n |-> f[i]]
      BY <2>1
    <2>5. Reads6(f, text, first)
      BY <2>3, <2>4, Zenon DEF Reads6, n
    <2> QED
      BY <2>5
  <1> DEFINE state == CHOOSE h : Reads6(h, text, first)
             read == state[n]
             last == IF read.saw_xdigit THEN StoreWord(read) ELSE read
  <1>8. Reads6(state, text, first)
    BY <1>7, Zenon
  <1>9. inet_pton6(text) =
            IF (first = 1 /\ (n = 1 \/ text[2] # Colon)) \/ ~read.ok \/ ~last.ok
            THEN Invalid
            ELSE IF last.colonp # -1 THEN Spread(last.tmp, last.colonp)
            ELSE IF Len(last.tmp) = 8 THEN last.tmp ELSE Invalid
    BY SMT DEF inet_pton6, Reads6, Next6, Start6, n, first
  <1> HIDE DEF state
  <1>10. \A i \in first .. n : state[i] \in R
    <2>1. first \in 0 .. 1
      BY DEF first
    <2> QED
      BY <1>1, <1>8, <2>1, Reads6Typed DEF n, R
  <1>11. read \in R
    BY <1>1, <1>10
  <1>12. last \in R
    <2>1. StoreWord(read) \in R
      BY <1>1, <1>11, StoreWordTyped DEF R
    <2> QED
      BY <1>11, <2>1
  <1> HIDE DEF read, last
  <1>13. /\ last.tmp \in Seq(uint16_t) /\ Len(last.tmp) <= 8 /\ last.colonp \in Int
         /\ -1 <= last.colonp /\ last.colonp <= Len(last.tmp)
    BY <1>12 DEF R, Reader6, Fields6
  <1>14. last.colonp # -1 => Spread(last.tmp, last.colonp) \in Eight
    <2>1. SUFFICES ASSUME last.colonp # -1
                   PROVE  Spread(last.tmp, last.colonp) \in Eight
      OBVIOUS
    <2>2. last.colonp \in Nat
      BY <1>13, <2>1
    <2> QED
      BY <1>13, <2>2, SpreadTyped
  <1>15. Len(last.tmp) = 8 => last.tmp \in Eight
    <2>1. PICK t \in Seq(uint16_t) : t = last.tmp
      BY <1>13
    <2>2. t \in [1 .. Len(t) -> uint16_t]
      BY LenProperties
    <2> QED
      BY <2>1, <2>2 DEF Eight
  <1> QED
    BY <1>9, <1>14, <1>15, Zenon

(* Whatever the text, the readers stay inside their arrays.  In each round *)
(* of the loop of inet_pton4 tp points to one of the four bytes of tmp,    *)
(* which are bytes; inet_aton has at most three numbers behind it and one  *)
(* in hand; inet_pton6 has at most the eight words that fit into tmp, also *)
(* with the one behind the last colon, and the double colon is among them. *)
(* What they return is nothing, or four bytes or eight words.              *)
THEOREM ReadersStayInside ==
    ASSUME NEW text \in Seq(Char)
    PROVE  /\ \A f : Reads4(f, text) =>
                \A i \in 0 .. Len(text) : f[i].tp \in 1 .. 4 /\ f[i].tmp \in Quad
           /\ \A f : ReadsAton(f, text) =>
                \A i \in 0 .. Len(text) : Len(f[i].addr) <= 3 /\ f[i].addr \in Seq(u_char)
           /\ \A first \in 0 .. 1 : \A f : first <= Len(text) /\ Reads6(f, text, first) =>
                \A i \in first .. Len(text) : \A s \in {f[i], StoreWord(f[i])} :
                    Len(s.tmp) <= 8 /\ s.colonp \in -1 .. Len(s.tmp)
           /\ inet_pton4(text) \in Quad \union {Invalid}
           /\ inet_aton(text) \in Quad \union {Invalid}
           /\ inet_pton6(text) \in Eight \union {Invalid}
  <1>1. ASSUME NEW f, Reads4(f, text), NEW i \in 0 .. Len(text)
        PROVE  f[i].tp \in 1 .. 4 /\ f[i].tmp \in Quad
    <2>1. f[i] \in Reader4
      BY <1>1, Reads4Typed
    <2> QED
      BY <2>1 DEF Reader4
  <1>2. ASSUME NEW f, ReadsAton(f, text), NEW i \in 0 .. Len(text)
        PROVE  Len(f[i].addr) <= 3 /\ f[i].addr \in Seq(u_char)
    <2>1. f[i] \in ReaderAton
      BY <1>2, ReadsAtonTyped
    <2> QED
      BY <2>1 DEF ReaderAton
  <1>3. ASSUME NEW first \in 0 .. 1, NEW f, first <= Len(text), Reads6(f, text, first),
               NEW i \in first .. Len(text), NEW s \in {f[i], StoreWord(f[i])}
        PROVE  Len(s.tmp) <= 8 /\ s.colonp \in -1 .. Len(s.tmp)
    <2>1. Len(text) \in Nat
      BY LenProperties
    <2>2. f[i] \in Reader6(Len(text))
      BY <1>3, Reads6Typed
    <2>3. StoreWord(f[i]) \in Reader6(Len(text))
      BY <2>1, <2>2, StoreWordTyped
    <2>4. s \in Reader6(Len(text))
      BY <2>2, <2>3
    <2> QED
      BY <2>4 DEF Reader6, Fields6
  <1>4. /\ inet_pton4(text) \in Quad \union {Invalid}
        /\ inet_aton(text) \in Quad \union {Invalid}
        /\ inet_pton6(text) \in Eight \union {Invalid}
    BY Pton4Typed, AtonTyped, Pton6Typed
  <1> QED
    BY <1>1, <1>2, <1>3, <1>4

(* A text in which a character is mistyped is a text.                      *)
LEMMA EditTyped ==
    ASSUME NEW s \in Seq(Char), NEW key \in Char
    PROVE  /\ \A i \in 1 .. Len(s) : RemoveAt(s, i) \in Seq(Char)
           /\ \A i \in 1 .. Len(s) + 1 : InsertAt(s, i, key) \in Seq(Char)
           /\ \A i \in 1 .. Len(s) : ReplaceAt(s, i, key) \in Seq(Char)
  <1>1. \A t, u \in Seq(Char) : t \o u \in Seq(Char)
    BY ConcatProperties
  <1>2. \A a, b \in Int : a >= 1 /\ b <= Len(s) => SubSeq(s, a, b) \in Seq(Char)
    <2>1. ASSUME NEW a \in Int, NEW b \in Int, a >= 1, b <= Len(s)
          PROVE  SubSeq(s, a, b) \in Seq(Char)
      <3>1. \A i \in a .. b : s[i] \in Char
        <4>1. \A i \in a .. b : i \in 1 .. Len(s)
          BY <2>1, LenProperties
        <4> QED
          BY <4>1, ElementOfSeq
      <3> QED
        BY <2>1, <3>1
    <2> QED
      BY <2>1
  <1>3. <<key>> \in Seq(Char) /\ Len(s) \in Nat
    BY UpToFour, LenProperties
  <1>4. ASSUME NEW i \in 1 .. Len(s)
        PROVE  RemoveAt(s, i) \in Seq(Char)
    <2>1. SubSeq(s, 1, i - 1) \in Seq(Char) /\ SubSeq(s, i + 1, Len(s)) \in Seq(Char)
      BY <1>2, <1>3
    <2> QED
      BY <1>1, <2>1, Zenon DEF RemoveAt
  <1>5. ASSUME NEW i \in 1 .. Len(s) + 1
        PROVE  InsertAt(s, i, key) \in Seq(Char)
    <2>1. SubSeq(s, 1, i - 1) \in Seq(Char) /\ SubSeq(s, i, Len(s)) \in Seq(Char)
      BY <1>2, <1>3
    <2> QED
      BY <1>1, <1>3, <2>1, Zenon DEF InsertAt
  <1>6. ASSUME NEW i \in 1 .. Len(s)
        PROVE  ReplaceAt(s, i, key) \in Seq(Char)
    <2>1. s \in [1 .. Len(s) -> Char]
      BY LenProperties
    <2>2. ReplaceAt(s, i, key) \in [1 .. Len(s) -> Char]
      BY <2>1 DEF ReplaceAt
    <2> QED
      BY <1>3, <2>2, SeqDef
  <1> QED
    BY <1>4, <1>5, <1>6


-----------------------------------------------------------------------------
(***************************************************************************)
(* The sum of the words of a packet, by induction over the words.          *)
(***************************************************************************)

Longest == 65538     \* with a zero and the checksum behind it
Packet == {p \in Seq(u_char) : Len(p) <= Longest}

WordsIn(p) == (Len(p) + 1) \div 2

WordAt(p, n) == Word(p[2 * n - 1], IF 2 * n <= Len(p) THEN p[2 * n] ELSE 0)

Sums(f, p) == f = [n \in 0 .. WordsIn(p) |-> IF n = 0 THEN 0 ELSE f[n - 1] + WordAt(p, n)]

LEMMA PacketBasics ==
    ASSUME NEW p \in Packet
    PROVE  /\ Len(p) \in Nat /\ Len(p) <= Longest /\ WordsIn(p) \in Nat
           /\ \A i \in 1 .. Len(p) : p[i] \in u_char
           /\ p = [i \in 1 .. Len(p) |-> p[i]]
  <1>1. p \in Seq(u_char) /\ Len(p) <= Longest
    BY DEF Packet
  <1>2. Len(p) \in Nat /\ p \in [1 .. Len(p) -> u_char]
    BY <1>1
  <1>3. WordsIn(p) \in Nat
    BY <1>2, SMT DEF WordsIn
  <1> QED
    BY <1>1, <1>2, <1>3

LEMMA WordInRange ==
    ASSUME NEW p \in Packet, NEW n \in 1 .. WordsIn(p)
    PROVE  WordAt(p, n) \in 0 .. Greatest
  <1>1. Len(p) \in Nat /\ n \in 1 .. (Len(p) + 1) \div 2
    BY PacketBasics DEF WordsIn
  <1>2. 2 * n - 1 \in 1 .. Len(p) /\ (2 * n <= Len(p) => 2 * n \in 1 .. Len(p))
    BY <1>1, SMT
  <1>3. p[2 * n - 1] \in u_char /\ (2 * n <= Len(p) => p[2 * n] \in u_char)
    BY <1>2, PacketBasics
  <1>4. 0 \in u_char
    BY SMT DEF u_char
  <1>5. (IF 2 * n <= Len(p) THEN p[2 * n] ELSE 0) \in u_char
    BY <1>3, <1>4
  <1>6. ASSUME NEW x \in u_char, NEW y \in u_char
        PROVE  Word(x, y) \in 0 .. Greatest
    <2>1. x \in Nat /\ x <= 255 /\ y \in Nat /\ y <= 255
      BY SMT DEF u_char
    <2>2. Word(x, y) = x + 256 * y \/ Word(x, y) = 256 * x + y
      BY Zenon DEF Word
    <2>3. x + 256 * y \in Nat /\ x + 256 * y <= Greatest
      BY <2>1, SMT DEF Greatest
    <2>4. 256 * x + y \in Nat /\ 256 * x + y <= Greatest
      BY <2>1, SMT DEF Greatest
    <2>5. \A m \in Nat : m <= Greatest => m \in 0 .. Greatest
      <3>1. Greatest \in Nat
        BY SMT DEF Greatest
      <3> QED
        BY <3>1
    <2> QED
      BY <2>2, <2>3, <2>4, <2>5, Zenon
  <1> QED
    BY <1>3, <1>5, <1>6 DEF WordAt

(* What such a function is, value by value.                                *)
LEMMA SumsValues ==
    ASSUME NEW p \in Packet, NEW f, Sums(f, p)
    PROVE  /\ f[0] = 0
           /\ \A k \in Nat : k + 1 <= WordsIn(p) => f[k + 1] = f[k] + WordAt(p, k + 1)
           /\ WordsIn(p) \in Nat
  <1>0. WordsIn(p) \in Nat
    BY PacketBasics
  <1>1. \A i \in 0 .. WordsIn(p) :
            f[i] = IF i = 0 THEN 0 ELSE f[i - 1] + WordAt(p, i)
    BY DEF Sums
  <1>2. 0 \in 0 .. WordsIn(p)
    BY <1>0
  <1>3. ASSUME NEW k \in Nat, k + 1 <= WordsIn(p)
        PROVE  f[k + 1] = f[k] + WordAt(p, k + 1)
    <2>1. k + 1 \in 0 .. WordsIn(p) /\ k + 1 # 0 /\ (k + 1) - 1 = k
      BY <1>0, <1>3
    <2> QED
      BY <1>1, <2>1
  <1> QED
    BY <1>0, <1>1, <1>2, <1>3

LEMMA SumsExist ==
    ASSUME NEW p \in Packet
    PROVE  \E f : Sums(f, p)
  <1> DEFINE K == WordsIn(p)
             g == [x \in (1 .. K) \X Nat |-> x[2] + WordAt(p, x[1])]
  <1>1. K \in Nat
    BY PacketBasics
  <1>2. ASSUME NEW i \in 1 .. K, NEW v \in Nat
        PROVE  v + WordAt(p, i) \in Nat
    <2>1. WordAt(p, i) \in 0 .. Greatest
      BY <1>2, WordInRange
    <2> DEFINE w == WordAt(p, i)
    <2>2. w \in Nat
      <3>1. \A n \in 0 .. Greatest : n \in Nat
        BY SMT DEF Greatest
      <3> QED
        BY <2>1, <3>1
    <2> HIDE DEF w
    <2>3. v + w \in Nat
      BY <2>2
    <2> QED
      BY <2>3 DEF w
  <1>3. g \in [(1 .. K) \X Nat -> Nat]
    <2> HIDE DEF K
    <2> QED
      BY <1>2
  <1>4. PICK f : Recursive(f, K, 0, g) /\ f \in [0 .. K -> Nat]
    <2> HIDE DEF K, g
    <2> QED
      BY <1>1, <1>3, Recursion
  <1>5. ASSUME NEW i \in 0 .. K, i # 0
        PROVE  g[<<i, f[i - 1]>>] = f[i - 1] + WordAt(p, i)
    <2>1. <<i, f[i - 1]>> \in (1 .. K) \X Nat
      BY <1>1, <1>4, <1>5
    <2> HIDE DEF K
    <2> QED
      BY <2>1
  <1>6. f = [i \in 0 .. K |-> IF i = 0 THEN 0 ELSE g[<<i, f[i - 1]>>]]
    BY <1>4 DEF Recursive
  <1>7. f = [i \in 0 .. K |-> IF i = 0 THEN 0 ELSE f[i - 1] + WordAt(p, i)]
    <2> HIDE DEF K, g
    <2> QED
      BY <1>5, <1>6
  <1> QED
    BY <1>7 DEF Sums

(* Each sum of n words is at most n times the greatest word.               *)
LEMMA SumsBounded ==
    ASSUME NEW p \in Packet, NEW f, Sums(f, p)
    PROVE  \A n \in 0 .. WordsIn(p) : f[n] \in 0 .. Greatest * n
  <1> DEFINE K == WordsIn(p)
             Bounded == {n \in Nat : n <= K => f[n] \in 0 .. Greatest * n}
  <1>1. /\ f[0] = 0 /\ K \in Nat
        /\ \A k \in Nat : k + 1 <= K => f[k + 1] = f[k] + WordAt(p, k + 1)
    BY SumsValues
  <1>2. 0 \in Bounded
    BY <1>1, SMT DEF Greatest
  <1>3. ASSUME NEW n \in Nat, n \in Bounded
        PROVE  n + 1 \in Bounded
    <2>1. SUFFICES ASSUME n + 1 <= K
                   PROVE  f[n + 1] \in 0 .. Greatest * (n + 1)
      OBVIOUS
    <2>2. f[n] \in 0 .. Greatest * n
      BY <1>1, <1>3, <2>1
    <2>3. n + 1 \in 1 .. WordsIn(p)
      BY <1>1, <2>1
    <2>4. WordAt(p, n + 1) \in 0 .. Greatest
      BY <2>3, WordInRange
    <2>5. f[n + 1] = f[n] + WordAt(p, n + 1)
      BY <1>1, <2>1
    <2>6. f[n] + WordAt(p, n + 1) \in 0 .. Greatest * (n + 1)
      <3> DEFINE v == f[n]
                 w == WordAt(p, n + 1)
      <3>1. v \in 0 .. Greatest * n /\ w \in 0 .. Greatest
        BY <2>2, <2>4
      <3> HIDE DEF v, w
      <3>2. v + w \in 0 .. Greatest * (n + 1)
        BY <3>1, SMT DEF Greatest
      <3> QED
        BY <3>2 DEF v, w
    <2> QED
      BY <2>5, <2>6
  <1>4. Nat \subseteq Bounded
    <2> HIDE DEF Bounded
    <2> QED
      BY <1>2, <1>3, Induction
  <1> QED
    BY <1>1, <1>4

(* Packets that begin with the same words have the same first sums.        *)
LEMMA SumsAgree ==
    ASSUME NEW p \in Packet, NEW q \in Packet, NEW f, NEW h, Sums(f, p), Sums(h, q),
           WordsIn(p) <= WordsIn(q), \A n \in 1 .. WordsIn(p) : WordAt(p, n) = WordAt(q, n)
    PROVE  h[WordsIn(p)] = f[WordsIn(p)]
  <1> DEFINE K == WordsIn(p)
             Same == {n \in Nat : n <= K => h[n] = f[n]}
  <1>1. /\ f[0] = 0 /\ K \in Nat
        /\ \A k \in Nat : k + 1 <= K => f[k + 1] = f[k] + WordAt(p, k + 1)
    BY SumsValues
  <1>2. /\ h[0] = 0 /\ WordsIn(q) \in Nat
        /\ \A k \in Nat : k + 1 <= WordsIn(q) => h[k + 1] = h[k] + WordAt(q, k + 1)
    BY SumsValues
  <1>3. 0 \in Same
    BY <1>1, <1>2
  <1>4. ASSUME NEW n \in Nat, n \in Same
        PROVE  n + 1 \in Same
    <2>1. SUFFICES ASSUME n + 1 <= K
                   PROVE  h[n + 1] = f[n + 1]
      OBVIOUS
    <2>2. h[n] = f[n] /\ n + 1 \in 1 .. K /\ n + 1 <= WordsIn(q)
      BY <1>1, <1>2, <1>4, <2>1
    <2>3. WordAt(p, n + 1) = WordAt(q, n + 1)
      BY <2>2
    <2>4. f[n + 1] = f[n] + WordAt(p, n + 1) /\ h[n + 1] = h[n] + WordAt(q, n + 1)
      BY <1>1, <1>2, <2>2
    <2> QED
      BY <2>2, <2>3, <2>4
  <1>5. Nat \subseteq Same
    <2> HIDE DEF Same
    <2> QED
      BY <1>3, <1>4, Induction
  <1> QED
    BY <1>1, <1>5

(* SumOf is the last value of such a function.                             *)
LEMMA SumIsLast ==
    ASSUME NEW p \in Packet
    PROVE  \E f : Sums(f, p) /\ SumOf(p) = f[WordsIn(p)]
  <1> DEFINE sum == CHOOSE f : Sums(f, p)
  <1>1. Sums(sum, p)
    <2>1. PICK f : Sums(f, p)
      BY SumsExist
    <2> QED
      BY <2>1
  <1>2. SumOf(p) = sum[WordsIn(p)]
    BY Zenon DEF SumOf, Sums, WordsIn, WordAt
  <1> QED
    BY <1>1, <1>2

-----------------------------------------------------------------------------
(***************************************************************************)
(* Folding.  65536 is one more than a multiple of 65535, so that folding   *)
(* keeps the remainder by 65535; it gives zero for zero only.              *)
(***************************************************************************)

Most == 4000000000
Folded(s) == Fold(s) % 65536

LEMMA FoldKeepsRemainder ==
    ASSUME NEW s \in Nat, s <= Most
    PROVE  \E k \in Nat, r \in Nat :
               /\ r = Folded(s) /\ r <= Greatest
               /\ s = Greatest * k + r
               /\ r = 0 => s = 0
  <1> DEFINE h == s \div 65536
             l == s % 65536
             once == h + l
  <1>1. h \in Nat /\ l \in Nat /\ l <= 65535
    BY SMT
  <1>2. s = 65536 * h + l
    BY SMT
  <1>3. h <= 65535
    BY SMT DEF Most
  <1>4. Fold(s) = once + (once \div 65536)
    BY SMT DEF Fold
  <1> HIDE DEF h, l
  <1>5. CASE once < 65536
    <2>1. once \div 65536 = 0 /\ once \in Nat
      BY <1>1, <1>5, SMT
    <2>2. Fold(s) = once
      BY <1>4, <2>1
    <2>3. Folded(s) = once
      <3>1. once % 65536 = once
        BY <1>5, <2>1, SMT
      <3> QED
        BY <2>2, <3>1 DEF Folded
    <2>4. once <= Greatest /\ s = Greatest * h + once
      BY <1>1, <1>2, <1>5, SMT DEF Greatest
    <2>5. once = 0 => s = 0
      BY <1>1, <1>2, SMT
    <2> HIDE DEF once
    <2> QED
      BY <1>1, <2>1, <2>2, <2>3, <2>4, <2>5
  <1>6. CASE once >= 65536
    <2>1. once < 131072 /\ once \in Nat
      BY <1>1, <1>3, SMT
    <2>2. once \div 65536 = 1
      BY <1>6, <2>1, SMT
    <2>3. Fold(s) = once + 1
      BY <1>4, <2>2
    <2>5. once <= 131070
      BY <1>1, <1>3, SMT
    <2>4. (once + 1) % 65536 = once - 65535
      <3> DEFINE t == once + 1
      <3>1. t \in Nat /\ t >= 65536 /\ t <= 131071 /\ t - 65536 = once - 65535
        BY <1>6, <2>1, <2>5, SMT
      <3> HIDE DEF t
      <3>2. t % 65536 = t - 65536
        BY <3>1, SMT
      <3> QED
        BY <3>1, <3>2 DEF t
    <2>6. once - 65535 \in Nat /\ once - 65535 <= Greatest /\ once - 65535 # 0
      BY <1>6, <2>1, <2>5, SMT DEF Greatest
    <2>7. s = Greatest * (h + 1) + (once - 65535) /\ h + 1 \in Nat
      BY <1>1, <1>2, SMT DEF Greatest
    <2> DEFINE r == once - 65535
               k == h + 1
    <2>8. r = Folded(s)
      BY <2>3, <2>4 DEF Folded
    <2> QED
      <3>1. r \in Nat /\ r <= Greatest /\ r # 0 /\ s = Greatest * k + r /\ k \in Nat
        BY <2>6, <2>7
      <3> HIDE DEF r, k
      <3> QED
        BY <2>8, <3>1, Zenon
  <1> QED
    BY <1>1, <1>5, <1>6, SMT

LEMMA ChecksumOfSum ==
    ASSUME NEW p \in Packet, SumOf(p) \in Nat, SumOf(p) <= Most
    PROVE  /\ in_cksum(p) \in Nat /\ in_cksum(p) <= Greatest
           /\ \E k \in Nat : SumOf(p) + in_cksum(p) = Greatest * k + Greatest
  <1> DEFINE s == SumOf(p)
  <1>1. s \in Nat /\ s <= Most
    OBVIOUS
  <1> HIDE DEF s
  <1>2. PICK k \in Nat, r \in Nat :
            /\ r = Folded(s) /\ r <= Greatest
            /\ s = Greatest * k + r
    BY <1>1, FoldKeepsRemainder
  <1>3. in_cksum(p) = Greatest - r
    <2>1. in_cksum(p) = Greatest - Folded(s)
      BY SMT DEF in_cksum, Folded, s, Greatest
    <2> QED
      BY <1>2, <2>1
  <1>4. Greatest - r \in Nat /\ Greatest - r <= Greatest
    BY <1>2, SMT DEF Greatest
  <1>5. s + (Greatest - r) = Greatest * k + Greatest
    BY <1>2, SMT DEF Greatest
  <1> QED
    BY <1>3, <1>4, <1>5 DEF s

(* The checksum of a sum that is a multiple of 65535, and not zero.        *)
LEMMA ChecksumOfMultiple ==
    ASSUME NEW p, NEW k \in Nat, SumOf(p) = Greatest * k + Greatest, SumOf(p) <= Most
    PROVE  in_cksum(p) = 0
  <1> DEFINE s == SumOf(p)
  <1>1. s = Greatest * k + Greatest /\ s <= Most
    OBVIOUS
  <1> HIDE DEF s
  <1>2. s \in Nat /\ s # 0
    BY <1>1, SMT DEF Greatest
  <1>3. PICK j \in Nat, r \in Nat :
            /\ r = Folded(s) /\ r <= Greatest
            /\ s = Greatest * j + r /\ (r = 0 => s = 0)
    BY <1>1, <1>2, FoldKeepsRemainder
  <1>4. r # 0
    BY <1>2, <1>3
  <1>5. r = Greatest
    BY <1>1, <1>3, <1>4, SMT DEF Greatest
  <1>6. in_cksum(p) = Greatest - r
    <2>1. in_cksum(p) = Greatest - Folded(s)
      BY SMT DEF in_cksum, Folded, s, Greatest
    <2> QED
      BY <1>3, <2>1
  <1> QED
    BY <1>5, <1>6, SMT DEF Greatest

-----------------------------------------------------------------------------
(***************************************************************************)
(* The packet with its checksum has one word more, and that is the         *)
(* checksum in either byte order.                                          *)
(***************************************************************************)

SumInRange ==
    \A p \in Packet : SumOf(p) \in Nat /\ SumOf(p) <= Most

LEMMA SumsInRange == SumInRange
  <1>1. SUFFICES ASSUME NEW p \in Packet
                 PROVE  SumOf(p) \in Nat /\ SumOf(p) <= Most
    BY DEF SumInRange
  <1>2. PICK f : Sums(f, p) /\ SumOf(p) = f[WordsIn(p)]
    BY SumIsLast
  <1> DEFINE K == WordsIn(p)
             v == f[K]
  <1>3. K \in Nat /\ Len(p) \in Nat /\ Len(p) <= Longest
    BY PacketBasics
  <1>4. K <= 32769
    <2>1. (Len(p) + 1) \div 2 <= 32769
      BY <1>3, SMT DEF Longest
    <2> QED
      BY <2>1 DEF WordsIn
  <1>5. v \in 0 .. Greatest * K
    <2>1. K \in 0 .. K
      BY <1>3
    <2> QED
      BY <1>2, <2>1, SumsBounded
  <1> HIDE DEF K, v
  <1>6. v \in Nat /\ v <= Most
    BY <1>3, <1>4, <1>5, SMT DEF Greatest, Most
  <1> QED
    BY <1>2, <1>6 DEF K, v

LEMMA WordOfBytes ==
    ASSUME NEW c \in 0 .. Greatest
    PROVE  /\ Bytes(c) \in Seq(u_char) /\ Len(Bytes(c)) = 2
           /\ Word(Bytes(c)[1], Bytes(c)[2]) = c
  <1> DEFINE low == c % 256
             high == c \div 256
  <1>0. c \in Nat /\ c <= 65535
    BY SMT DEF Greatest
  <1>1. low \in Nat /\ low <= 255 /\ high \in Nat /\ high <= 255
    BY <1>0, SMT
  <1>2. low + 256 * high = c /\ 256 * high + low = c
    BY <1>0, SMT
  <1> HIDE DEF low, high
  <1>3. low \in u_char /\ high \in u_char
    BY <1>1, SMT DEF u_char
  <1>4. CASE LittleEndian
    <2>1. Bytes(c) = <<low, high>>
      BY <1>4, Zenon DEF Bytes, low, high
    <2>2. Word(low, high) = low + 256 * high
      BY <1>4, Zenon DEF Word
    <2> QED
      BY <1>2, <1>3, <2>1, <2>2
  <1>5. CASE ~LittleEndian
    <2>1. Bytes(c) = <<high, low>>
      BY <1>5, Zenon DEF Bytes, low, high
    <2>2. Word(high, low) = 256 * high + low
      BY <1>5, Zenon DEF Word
    <2> QED
      BY <1>2, <1>3, <2>1, <2>2
  <1> QED
    BY <1>4, <1>5

LEMMA Followed ==
    ASSUME NEW s \in Seq(u_char), NEW t \in Seq(u_char)
    PROVE  /\ s \o t \in Seq(u_char) /\ Len(s \o t) = Len(s) + Len(t)
           /\ \A i \in 1 .. Len(s) : (s \o t)[i] = s[i]
           /\ \A j \in 1 .. Len(t) : (s \o t)[Len(s) + j] = t[j]
  <1>1. s \o t \in Seq(u_char) /\ Len(s \o t) = Len(s) + Len(t)
    OBVIOUS
  <1>2. \A i \in 1 .. Len(s) : (s \o t)[i] = s[i]
    OBVIOUS
  <1>3. \A j \in 1 .. Len(t) : (s \o t)[Len(s) + j] = t[j]
    OBVIOUS
  <1> QED
    BY <1>1, <1>2, <1>3

Padding(p) == [k \in 1 .. Len(p) % 2 |-> 0]

LEMMA SumWithChecksum ==
    ASSUME NEW p \in Packet, Len(p) <= Greatest, NEW c \in 0 .. Greatest
    PROVE  /\ p \o Padding(p) \o Bytes(c) \in Packet
           /\ SumOf(p \o Padding(p) \o Bytes(c)) = SumOf(p) + c
  <1> DEFINE pad == Padding(p)
             bytes == Bytes(c)
             q == p \o pad \o bytes
             K == WordsIn(p)
             L == Len(p)
  <1>1. /\ p \in Seq(u_char) /\ L \in Nat /\ L <= Greatest /\ K \in Nat
        /\ K = (L + 1) \div 2
    <2>1. p \in Seq(u_char)
      BY DEF Packet
    <2> QED
      BY <2>1, PacketBasics DEF WordsIn
  <1>2. /\ L % 2 \in 0 .. 1 /\ L + (L % 2) = 2 * K
    <2>1. L \in Nat /\ K = (L + 1) \div 2
      BY <1>1
    <2> HIDE DEF L, K
    <2> QED
      BY <2>1, SMT
  <1>3. 0 \in u_char
    BY SMT DEF u_char
  <1>4. pad \in Seq(u_char) /\ Len(pad) = L % 2 /\ (L % 2 = 1 => pad[1] = 0)
    BY <1>1, <1>2, <1>3 DEF Padding
  <1>5. bytes \in Seq(u_char) /\ Len(bytes) = 2 /\ Word(bytes[1], bytes[2]) = c
    BY WordOfBytes
  <1> HIDE DEF pad, bytes
  <1>6. q \in Seq(u_char) /\ Len(q) = 2 * K + 2
    <2>1. p \o pad \in Seq(u_char) /\ Len(p \o pad) = 2 * K
      BY <1>1, <1>2, <1>4
    <2> DEFINE u == p \o pad
    <2> HIDE DEF u
    <2>2. u \o bytes \in Seq(u_char) /\ Len(u \o bytes) = Len(u) + Len(bytes)
      BY <1>5, <2>1, Followed DEF u
    <2>3. q = u \o bytes /\ Len(u) = 2 * K
      BY <2>1 DEF u
    <2> QED
      BY <1>5, <2>2, <2>3
  <1>7. q \in Packet
    <2>1. 2 * K + 2 <= Longest
      <3> HIDE DEF K, L
      <3> QED
        BY <1>1, <1>2, SMT DEF Greatest, Longest
    <2> QED
      BY <1>6, <2>1 DEF Packet
  <1>8. /\ \A i \in 1 .. L : q[i] = p[i]
        /\ L % 2 = 1 => q[L + 1] = 0
        /\ q[2 * K + 1] = bytes[1] /\ q[2 * K + 2] = bytes[2]
    <2> DEFINE u == p \o pad
    <2>1. /\ u \in Seq(u_char) /\ Len(u) = 2 * K
          /\ \A i \in 1 .. L : u[i] = p[i]
          /\ L % 2 = 1 => u[L + 1] = 0
      BY <1>1, <1>2, <1>4
    <2> HIDE DEF u
    <2>2. /\ \A i \in 1 .. 2 * K : (u \o bytes)[i] = u[i]
          /\ \A j \in 1 .. 2 : (u \o bytes)[2 * K + j] = bytes[j]
      <3>1. u \in Seq(u_char) /\ bytes \in Seq(u_char) /\ Len(u) = 2 * K /\ Len(bytes) = 2
        BY <1>5, <2>1
      <3>2. /\ \A i \in 1 .. Len(u) : (u \o bytes)[i] = u[i]
            /\ \A j \in 1 .. Len(bytes) : (u \o bytes)[Len(u) + j] = bytes[j]
        BY <3>1, Followed
      <3> HIDE DEF K
      <3> QED
        BY <3>1, <3>2, Zenon
    <2>3. q = u \o bytes
      BY DEF u
    <2> HIDE DEF q
    <2>4. q[2 * K + 1] = bytes[1] /\ q[2 * K + 2] = bytes[2]
      <3>1. 1 \in 1 .. 2 /\ 2 \in 1 .. 2
        OBVIOUS
      <3> QED
        BY <2>2, <2>3, <3>1
    <2>5. \A i \in 1 .. L : q[i] = p[i]
      <3>1. \A i \in 1 .. L : i \in 1 .. 2 * K
        BY <1>1, <1>2
      <3> QED
        BY <2>1, <2>2, <2>3, <3>1
    <2>6. L % 2 = 1 => q[L + 1] = 0
      <3>1. L % 2 = 1 => L + 1 \in 1 .. 2 * K
        BY <1>1, <1>2
      <3> QED
        BY <2>1, <2>2, <2>3, <3>1
    <2> QED
      BY <2>4, <2>5, <2>6
  <1>9. WordsIn(q) = K + 1
    <2>1. (2 * K + 2 + 1) \div 2 = K + 1
      <3> HIDE DEF K
      <3> QED
        BY <1>1, SMT
    <2> HIDE DEF K
    <2> QED
      BY <1>6, <2>1 DEF WordsIn
  <1> HIDE DEF q
  <1>10. ASSUME NEW n \in 1 .. K
         PROVE  WordAt(p, n) = WordAt(q, n)
    <2>1. n \in Nat /\ 2 * n - 1 \in 1 .. L /\ 2 * n <= 2 * K + 2
      BY <1>1, <1>2
    <2>2. q[2 * n - 1] = p[2 * n - 1]
      BY <1>8, <2>1
    <2>3. CASE 2 * n <= L
      <3>1. q[2 * n] = p[2 * n]
        BY <1>8, <2>1, <2>3
      <3> QED
        BY <1>6, <2>1, <2>2, <2>3, <3>1 DEF WordAt
    <2>4. CASE ~(2 * n <= L)
      <3>1. 2 * n = L + 1 /\ L % 2 = 1
        BY <1>1, <1>2, <2>1, <2>4
      <3>2. q[2 * n] = 0
        BY <1>8, <3>1
      <3> QED
        BY <1>6, <2>1, <2>2, <2>4, <3>2 DEF WordAt
    <2> QED
      BY <2>3, <2>4
  <1>11. WordAt(q, K + 1) = c
    <2>1. 2 * (K + 1) - 1 = 2 * K + 1 /\ 2 * (K + 1) = 2 * K + 2
      BY <1>1
    <2> HIDE DEF K
    <2> QED
      BY <1>5, <1>6, <1>8, <2>1 DEF WordAt
  <1>12. PICK f : Sums(f, p) /\ SumOf(p) = f[K]
    BY SumIsLast
  <1>13. PICK h : Sums(h, q) /\ SumOf(q) = h[K + 1]
    BY <1>7, <1>9, SumIsLast
  <1>14. h[K] = f[K]
    <2>1. K <= K + 1
      BY <1>1
    <2> QED
      BY <1>7, <1>9, <1>10, <1>12, <1>13, <2>1, SumsAgree
  <1>15. h[K + 1] = h[K] + c
    <2>1. \A k \in Nat : k + 1 <= WordsIn(q) => h[k + 1] = h[k] + WordAt(q, k + 1)
      BY <1>7, <1>13, SumsValues
    <2>2. K \in Nat /\ K + 1 <= WordsIn(q)
      BY <1>1, <1>9
    <2> HIDE DEF K
    <2> QED
      BY <1>11, <2>1, <2>2
  <1>16. SumOf(q) = SumOf(p) + c
    BY <1>12, <1>13, <1>14, <1>15
  <1> QED
    BY <1>7, <1>16 DEF q, pad, bytes

LEMMA ChecksumOfWhole ==
    ASSUME NEW p \in Packet, Len(p) <= Greatest
    PROVE  /\ in_cksum(p) \in 0 .. Greatest
           /\ in_cksum(p \o Padding(p) \o Bytes(in_cksum(p))) = 0
  <1> DEFINE c == in_cksum(p)
             q == p \o Padding(p) \o Bytes(c)
  <1>1. SumOf(p) \in Nat /\ SumOf(p) <= Most
    BY SumsInRange DEF SumInRange
  <1>2. c \in Nat /\ c <= Greatest /\ \E k \in Nat : SumOf(p) + c = Greatest * k + Greatest
    BY <1>1, ChecksumOfSum
  <1>3. c \in 0 .. Greatest
    BY <1>2
  <1> HIDE DEF c
  <1>4. q \in Packet /\ SumOf(q) = SumOf(p) + c
    BY <1>3, SumWithChecksum
  <1> HIDE DEF q
  <1>5. PICK k \in Nat : SumOf(q) = Greatest * k + Greatest
    BY <1>2, <1>4
  <1>6. SumOf(q) <= Most
    BY <1>4, SumsInRange DEF SumInRange
  <1>7. in_cksum(q) = 0
    BY <1>5, <1>6, ChecksumOfMultiple
  <1> QED
    BY <1>3, <1>7 DEF c, q

-----------------------------------------------------------------------------
(***************************************************************************)
(* The behaviour: what is summed is a packet, and csum is its checksum.    *)
(***************************************************************************)

Summed ==
    iphase = "summed" => packet \in Packet /\ Len(packet) <= Greatest /\ csum = in_cksum(packet)

LEMMA PacketsAreShort == \A p \in Packets : p \in Packet /\ Len(p) <= Greatest
  <1>1. SUFFICES ASSUME NEW p \in Packets
                 PROVE  p \in Packet /\ Len(p) <= Greatest
    OBVIOUS
  <1>2. p \in Seq(u_char) /\ Len(p) <= Greatest
    BY PacketAssumption DEF u_char, Greatest
  <1>3. Len(p) \in Nat
    BY <1>2
  <1>4. Len(p) <= Longest
    BY <1>2, <1>3, SMT DEF Greatest, Longest
  <1> QED
    BY <1>2, <1>4 DEF Packet

LEMMA SummedHolds == InetSpec => []Summed
  <1>1. InetInit => Summed
    BY DEF InetInit, Summed
  <1>2. Summed /\ [InetNext]_inetVars => Summed'
    <2> SUFFICES ASSUME Summed, [InetNext]_inetVars
                 PROVE  Summed'
      OBVIOUS
    <2>1. CASE \E a \in Quads : write_address("AF_INET", a)
      BY <2>1 DEF write_address, Summed
    <2>2. CASE \E a \in Words8 : write_address("AF_INET6", a)
      BY <2>2 DEF write_address, Summed
    <2>3. CASE mistype
      BY <2>3 DEF mistype, Summed
    <2>4. CASE read_address
      BY <2>4 DEF read_address, Summed
    <2>5. CASE checksum
      BY <2>5, PacketsAreShort DEF checksum, Summed
    <2>6. CASE UNCHANGED inetVars
      BY <2>6 DEF inetVars, Summed
    <2> QED
      BY <2>1, <2>2, <2>3, <2>4, <2>5, <2>6 DEF InetNext
  <1> QED
    BY <1>1, <1>2, PTL DEF InetSpec

(* Over any packet that IP allows and its checksum behind it, whichever    *)
(* the byte order, in_cksum gives zero.                                    *)
THEOREM ChecksumsVerify == InetSpec => []ChecksumVerifies
  <1>1. Summed => ChecksumVerifies
    <2>1. SUFFICES ASSUME Summed, iphase = "summed"
                   PROVE  in_cksum(packet \o Padding(packet) \o Bytes(csum)) = 0
      BY Zenon DEF ChecksumVerifies, Padding
    <2>2. packet \in Packet /\ Len(packet) <= Greatest /\ csum = in_cksum(packet)
      BY <2>1 DEF Summed
    <2> QED
      BY <2>2, ChecksumOfWhole
  <1> QED
    BY <1>1, SummedHolds, PTL

InetTyped ==
    /\ iphase \in {"nothing", "written", "read", "summed"}
    /\ af \in {"AF_INET", "AF_INET6"} /\ edited \in BOOLEAN
    /\ iaddr \in Quads \union Words8 \union {Invalid} /\ itext \in Seq(Char)
    /\ ~edited => Len(itext) < (IF af = "AF_INET" THEN ntop4_tmp ELSE ntop6_tmp)
    /\ iback = Invalid \/ iback \in Quad \union Eight
    /\ packet \in Seq(u_char) /\ csum \in uint16_t

LEMMA InetTypedIsTypeOK == InetTyped => InetTypeOK
  BY Zenon DEF InetTyped, InetTypeOK, Char, Quad, Eight

LEMMA AddressesTyped ==
    /\ \A a \in Quads : a \in Quad
    /\ \A a \in Words8 : a \in Eight
    /\ \A key \in Keys : key \in Char
  BY AddressAssumption, Zenon DEF Quad, Eight, Char

LEMMA InetTypedStep == InetTyped /\ [InetNext]_inetVars => InetTyped'
  <1> SUFFICES ASSUME InetTyped, [InetNext]_inetVars
               PROVE  InetTyped'
    OBVIOUS
  <1>1. ASSUME NEW a \in Quads, write_address("AF_INET", a)
        PROVE  InetTyped'
    <2>1. itext' \in Seq(Char) /\ Len(itext') < ntop4_tmp
      <3>1. a[1] \in u_char /\ a[2] \in u_char /\ a[3] \in u_char /\ a[4] \in u_char
        BY AddressesTyped DEF Quad
      <3>2. itext' = inet_ntop4(a)
        BY <1>1, Zenon DEF write_address, inet_ntop
      <3>3. itext' \in Seq(Char) /\ Len(itext') <= 15
        BY <3>1, <3>2, Ntop4Typed
      <3>4. Len(itext') \in Nat
        BY <3>3, LenProperties
      <3> QED
        BY <3>3, <3>4 DEF ntop4_tmp
    <2> QED
      BY <1>1, <2>1, Zenon DEF write_address, InetTyped
  <1>2. ASSUME NEW a \in Words8, write_address("AF_INET6", a)
        PROVE  InetTyped'
    <2>1. itext' \in Seq(Char) /\ Len(itext') < ntop6_tmp
      <3>1. itext' = inet_ntop6(a)
        BY <1>2 DEF write_address, inet_ntop
      <3>2. itext' \in Seq(Char) /\ Len(itext') <= 45
        BY <3>1, AddressesTyped, Ntop6Typed
      <3>3. Len(itext') \in Nat
        BY <3>2, LenProperties
      <3> QED
        BY <3>2, <3>3 DEF ntop6_tmp
    <2>2. "AF_INET6" # "AF_INET"
      OBVIOUS
    <2> QED
      BY <1>2, <2>1, <2>2, Zenon DEF write_address, InetTyped
  <1>3. CASE mistype
    <2>1. itext \in Seq(Char)
      BY DEF InetTyped
    <2>2. CASE \E i \in 1 .. Len(itext) : itext' = RemoveAt(itext, i)
      <3>1. 0 \in Char
        BY InChar
      <3>2. itext' \in Seq(Char)
        BY <2>1, <2>2, <3>1, EditTyped
      <3> QED
        BY <1>3, <3>2, Zenon DEF mistype, InetTyped
    <2>3. CASE \E i \in 1 .. Len(itext) + 1, key \in Keys : itext' = InsertAt(itext, i, key)
      <3>1. itext' \in Seq(Char)
        BY <2>1, <2>3, AddressesTyped, EditTyped
      <3> QED
        BY <1>3, <3>1, Zenon DEF mistype, InetTyped
    <2>4. CASE \E i \in 1 .. Len(itext), key \in Keys : itext' = ReplaceAt(itext, i, key)
      <3>1. itext' \in Seq(Char)
        BY <2>1, <2>4, AddressesTyped, EditTyped
      <3> QED
        BY <1>3, <3>1, Zenon DEF mistype, InetTyped
    <2> QED
      BY <1>3, <2>2, <2>3, <2>4, Zenon DEF mistype
  <1>4. CASE read_address
    <2>1. itext \in Seq(Char)
      BY DEF InetTyped
    <2>2. inet_pton4(itext) \in Quad \union {Invalid}
      BY <2>1, Pton4Typed
    <2>3. inet_pton6(itext) \in Eight \union {Invalid}
      BY <2>1, Pton6Typed
    <2>4. inet_aton(itext) \in Quad \union {Invalid}
      BY <2>1, AtonTyped
    <2>5. iback' = Invalid \/ iback' \in Quad \union Eight
      <3>1. \/ iback' = inet_pton4(itext) \/ iback' = inet_pton6(itext)
            \/ iback' = inet_aton(itext)
        BY <1>4, Zenon DEF read_address, inet_pton, inet_pton_ipv4
      <3> QED
        BY <2>2, <2>3, <2>4, <3>1
    <2> QED
      BY <1>4, <2>5, Zenon DEF read_address, InetTyped
  <1>5. CASE checksum
    <2>1. PICK p \in Packets : packet' = p /\ csum' = in_cksum(p)
      BY <1>5, Zenon DEF checksum
    <2>2. p \in Packet /\ Len(p) <= Greatest
      BY PacketsAreShort
    <2>3. in_cksum(p) \in uint16_t
      <3>1. in_cksum(p) \in 0 .. Greatest
        BY <2>2, ChecksumOfWhole
      <3>2. \A x \in 0 .. Greatest : x \in Nat /\ x <= Greatest
        BY Uint16Numbers
      <3> QED
        BY <3>1, <3>2, InUint16
    <2>4. packet' \in Seq(u_char) /\ csum' \in uint16_t
      BY <2>1, <2>2, <2>3 DEF Packet
    <2> QED
      BY <1>5, <2>4, Zenon DEF checksum, InetTyped
  <1>6. CASE UNCHANGED inetVars
    BY <1>6, Zenon DEF inetVars, InetTyped
  <1> QED
    BY <1>1, <1>2, <1>3, <1>4, <1>5, <1>6, Zenon DEF InetNext

(* The text that inet_ntop4 or inet_ntop6 puts together of an address fits *)
(* the array it has for it, the byte behind the text included; and what is *)
(* read of such a text, mistyped at most once, is nothing, four bytes or   *)
(* eight words.                                                            *)
THEOREM InetTypeCorrect == InetSpec => []InetTypeOK
  <1>1. InetInit => InetTyped
    <2>1. 0 \in uint16_t /\ <<>> \in Seq(Char) /\ <<>> \in Seq(u_char)
      BY ZeroWord
    <2>2. Len(<<>>) < ntop4_tmp
      BY DEF ntop4_tmp
    <2> QED
      BY <2>1, <2>2, Zenon DEF InetInit, InetTyped
  <1> QED
    BY <1>1, InetTypedStep, InetTypedIsTypeOK, PTL DEF InetSpec
=============================================================================
