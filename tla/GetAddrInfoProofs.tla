-------------------------- MODULE GetAddrInfoProofs --------------------------
(***************************************************************************)
(* Theorems about getaddrinfo and the functions that call it: why its      *)
(* memory is accounted for, why the socket returned is that of the first   *)
(* usable address, why the names of an entry lead back to it, and why the  *)
(* list is the one expected.                                               *)
(***************************************************************************)
EXTENDS Connections, FiniteSetTheorems, FunctionTheorems, SequenceTheorems, TLAPS

(* Concatenation, under a name that keeps the provers from rewriting it.   *)
Chain(s, t) == s \o t

-----------------------------------------------------------------------------
(* getaddrinfo and the functions that call it.                             *)

(* Structures that have an address.                                        *)
WithAddr(list) == {k \in DOMAIN list : list[k].hasAddr}

Sought == [host : DOMAIN HostTable, family : {Inet, Inet6}]
Address == [family : {Inet, Inet6}, addr : Nat]
Pass == [socktype : SocketTypes, port : Nat]

GaTyped ==
    /\ GaTypeOK
    /\ search \in Seq(Sought) /\ todo \in Seq(Address)
    /\ gphase = "port" => passes \in Seq(Pass)
    /\ gphase = "unix" => passes \in Seq(SocketTypes)

(* How many structures of a list have an address.                          *)
Addresses(list) == Cardinality(WithAddr(list))

(* What has been allocated is the list, and a name that is in it or is not *)
(* yet.                                                                    *)
GaBlocks ==
    blocks = Len(ais) + Addresses(ais)
               + IF canon = "held" \/ (canon = "attached" /\ ais # <<>>) THEN 1 ELSE 0

(* Where a name can be, and where there is a list or none.                 *)
GaPhases ==
    /\ gphase = "idle" => ais = <<>> /\ canon = "none" /\ rc = "0"
    /\ gphase \in {"search", "create", "canon", "port"} => ~IsUnix(req) /\ rc = "0"
    /\ gphase \in {"search", "create", "canon"} => canon # "attached"
    /\ gphase \in {"canon", "port"} => ais # <<>>
    /\ gphase = "unix" => IsUnix(req) /\ canon = "none" /\ rc = "0" /\ (passes = <<>> => ais # <<>>)
    /\ gphase = "bad" => rc # "0"
    /\ gphase = "returned" /\ rc = "0" => ais # <<>>
    /\ gphase = "returned" /\ rc # "0" /\ ~IsUnix(req) => ais = <<>>
    /\ gphase = "freed" => ais = <<>> /\ canon # "held"
    /\ canon = "held" =>
         /\ gphase \in {"search", "create", "canon", "bad", "returned"}
         /\ req.host # Null /\ req.canon /\ ~IsUnix(req)
         /\ gphase = "returned" => rc # "0"

GaInv == GaTyped /\ GaBlocks /\ GaPhases

(* Where a function of lib/ is in its loop, and what it has tried.         *)
ConnInv ==
    /\ cpc \in {"none", "socket", "use", "finish", "returned", "ended"}
    /\ cpc = "none" => res = 1 /\ fds = {} /\ tried = {}
    /\ cpc \in {"socket", "use", "finish"} => gphase = "returned" /\ rc = "0" /\ res \in 1 .. Len(ais)
    /\ cpc \in {"socket", "use", "finish", "returned"} =>
         /\ res \in Nat /\ res >= 1 /\ tried = 1 .. res - 1
         /\ fds = IF cpc = "socket" THEN {} ELSE {res}
    /\ cpc = "returned" => gphase = "freed"

(* The entries of a list that have an address are finitely many.           *)
LEMMA AddressesCounted ==
    ASSUME NEW s \in Seq(Entry)
    PROVE  IsFiniteSet(WithAddr(s)) /\ Addresses(s) \in Nat
  <1>1. Len(s) \in Nat /\ DOMAIN s = 1 .. Len(s)
    BY LenProperties
  <1>2. IsFiniteSet(1 .. Len(s))
    BY <1>1, FS_Interval
  <1>3. WithAddr(s) \subseteq 1 .. Len(s)
    BY <1>1 DEF WithAddr
  <1>4. IsFiniteSet(WithAddr(s))
    BY <1>2, <1>3, FS_Subset
  <1> QED
    BY <1>4, FS_CardinalityType DEF Addresses

(* A structure more, somewhere in the list.                                *)
LEMMA OneMore ==
    ASSUME NEW s \in Seq(Entry), NEW t \in Seq(Entry), NEW p \in 1 .. Len(s) + 1, NEW e \in Entry,
           Len(t) = Len(s) + 1,
           \A i \in 1 .. p - 1 : t[i] = s[i],
           t[p] = e,
           \A i \in p + 1 .. Len(t) : t[i] = s[i - 1]
    PROVE  Addresses(t) = Addresses(s) + IF e.hasAddr THEN 1 ELSE 0
  <1>1. /\ Len(s) \in Nat /\ DOMAIN s = 1 .. Len(s) /\ DOMAIN t = 1 .. Len(t)
        /\ IsFiniteSet(WithAddr(s)) /\ Addresses(s) \in Nat
    BY LenProperties, AddressesCounted
  <1> DEFINE A == WithAddr(s)
             B == WithAddr(t) \ {p}
             f == [k \in A |-> IF k < p THEN k ELSE k + 1]
  <1>2. \A k \in A : k \in 1 .. Len(s) /\ s[k].hasAddr
    BY <1>1 DEF WithAddr
  <1>3. \A k : k \in B <=> k \in 1 .. Len(s) + 1 /\ k # p /\ t[k].hasAddr
    BY <1>1 DEF WithAddr
  <1>4. f \in [A -> B]
    <2> SUFFICES ASSUME NEW k \in A PROVE (IF k < p THEN k ELSE k + 1) \in B
      OBVIOUS
    <2>1. k \in 1 .. Len(s) /\ s[k].hasAddr
      BY <1>2
    <2>2. CASE k < p
      <3>1. k \in 1 .. p - 1 /\ k \in 1 .. Len(s) + 1 /\ k # p
        BY <1>1, <2>1, <2>2
      <3>2. t[k].hasAddr
        BY <2>1, <3>1
      <3> QED
        BY <1>3, <2>2, <3>1, <3>2
    <2>3. CASE ~(k < p)
      <3>1. k + 1 \in p + 1 .. Len(t) /\ k + 1 \in 1 .. Len(s) + 1 /\ k + 1 # p /\ k + 1 - 1 = k
        BY <1>1, <2>1, <2>3
      <3>2. t[k + 1].hasAddr
        BY <2>1, <3>1
      <3> QED
        BY <1>3, <2>3, <3>1, <3>2
    <2> QED
      BY <2>2, <2>3
  <1>5. \A a, b \in A : f[a] = f[b] => a = b
    BY <1>1, <1>2
  <1>6. \A y \in B : \E k \in A : f[k] = y
    <2> SUFFICES ASSUME NEW y \in B PROVE \E k \in A : f[k] = y
      OBVIOUS
    <2>1. y \in 1 .. Len(s) + 1 /\ y # p /\ t[y].hasAddr
      BY <1>3
    <2>2. CASE y < p
      <3>1. y \in 1 .. p - 1 /\ y \in 1 .. Len(s)
        BY <1>1, <2>1, <2>2
      <3>2. y \in A
        BY <1>1, <2>1, <3>1 DEF WithAddr
      <3> QED
        BY <2>2, <3>2
    <2>3. CASE ~(y < p)
      <3>1. y \in p + 1 .. Len(t) /\ y - 1 \in 1 .. Len(s) /\ ~(y - 1 < p) /\ y - 1 + 1 = y
        BY <1>1, <2>1, <2>3
      <3>2. y - 1 \in A
        BY <1>1, <2>1, <3>1 DEF WithAddr
      <3> QED
        BY <3>1, <3>2
    <2> QED
      BY <2>2, <2>3
  <1>7. f \in Bijection(A, B)
    <2> HIDE DEF A, B, f
    <2> QED
      BY <1>4, <1>5, <1>6, Fun_IsBij
  <1>8. IsFiniteSet(B) /\ Cardinality(B) = Cardinality(A)
    <2> HIDE DEF A, B, f
    <2>1. ExistsBijection(A, B)
      BY <1>7 DEF ExistsBijection
    <2>2. IsFiniteSet(A)
      BY <1>1 DEF A
    <2> QED
      BY <2>1, <2>2, FS_Bijection
  <1>9. CASE e.hasAddr
    <2>1. WithAddr(t) = B \union {p} /\ p \notin B
      BY <1>1, <1>9 DEF WithAddr
    <2>2. Cardinality(WithAddr(t)) = Cardinality(B) + 1
      <3> HIDE DEF B
      <3> QED
        BY <1>8, <2>1, FS_AddElement
    <2> QED
      BY <1>8, <1>9, <2>2 DEF Addresses
  <1>10. CASE ~e.hasAddr
    <2>1. WithAddr(t) = B
      BY <1>1, <1>10 DEF WithAddr
    <2>2. Addresses(t) = Addresses(s)
      BY <1>8, <2>1, Zenon DEF Addresses
    <2> QED
      BY <1>1, <1>10, <2>2
  <1> QED
    BY <1>9, <1>10

(* A list with one more entry at its end.                                  *)
LEMMA Appended ==
    ASSUME NEW s \in Seq(Entry), NEW e \in Entry
    PROVE  /\ Append(s, e) \in Seq(Entry) /\ Append(s, e) # <<>>
           /\ Len(Append(s, e)) = Len(s) + 1
           /\ \A i \in 1 .. Len(s) + 1 :
                 Append(s, e)[i] = e \/ \E j \in 1 .. Len(s) : Append(s, e)[i] = s[j]
           /\ Addresses(Append(s, e)) = Addresses(s) + IF e.hasAddr THEN 1 ELSE 0
  <1> PICK n \in Nat : n = Len(s)
    BY LenProperties
  <1>1. PICK t : t = Append(s, e)
    OBVIOUS
  <1>2. t \in Seq(Entry) /\ t # <<>> /\ Len(t) = n + 1 /\ t[n + 1] = e /\ \A i \in 1 .. n : t[i] = s[i]
    BY <1>1, AppendProperties
  <1>3. PICK p \in 1 .. Len(s) + 1 : p = n + 1
    OBVIOUS
  <1>4. /\ \A i \in 1 .. p - 1 : t[i] = s[i]
        /\ t[p] = e
        /\ \A i \in p + 1 .. Len(t) : t[i] = s[i - 1]
    BY <1>2, <1>3
  <1>5. Len(t) = Len(s) + 1
    BY <1>2
  <1>6. Addresses(t) = Addresses(s) + IF e.hasAddr THEN 1 ELSE 0
    BY <1>2, <1>4, <1>5, OneMore
  <1>7. \A i \in 1 .. Len(s) + 1 : t[i] = e \/ \E j \in 1 .. Len(s) : t[i] = s[j]
    <2>1. \A i \in 1 .. Len(s) + 1 : i = n + 1 \/ i \in 1 .. n
      OBVIOUS
    <2> QED
      BY <1>2, <2>1, Zenon
  <1> QED
    BY <1>1, <1>2, <1>5, <1>6, <1>7, Zenon

(* The places of a concatenation of entries.                               *)
LEMMA ChainTyped ==
    \A x, y \in Seq(Entry) :
        /\ Chain(x, y) \in Seq(Entry) /\ Len(Chain(x, y)) = Len(x) + Len(y)
        /\ \A i \in 1 .. Len(x) + Len(y) :
              Chain(x, y)[i] = IF i <= Len(x) THEN x[i] ELSE y[i - Len(x)]
  BY ConcatProperties DEF Chain

(* A list with one more entry in its middle, as ga_clone leaves it.        *)
LEMMA InsertedPlaces ==
    ASSUME NEW s \in Seq(Entry), NEW k \in 1 .. Len(s), NEW e \in Entry
    PROVE  /\ ga_clone(s, k, e) \in Seq(Entry) /\ Len(ga_clone(s, k, e)) = Len(s) + 1
           /\ ga_clone(s, k, e)[k + 1] = e
           /\ \A i \in 1 .. k : ga_clone(s, k, e)[i] = s[i]
           /\ \A i \in k + 2 .. Len(s) + 1 : ga_clone(s, k, e)[i] = s[i - 1]
  <1> PICK n \in Nat : n = Len(s)
    BY LenProperties
  <1> DEFINE a == SubSeq(s, 1, k)
             b == SubSeq(s, k + 1, n)
  <1>0. \A i \in 1 .. n : s[i] \in Entry
    BY ElementOfSeq
  <1>1. a \in Seq(Entry) /\ Len(a) = k /\ \A i \in 1 .. k : a[i] = s[i]
    <2>1. \A i \in 1 .. k : s[i] \in Entry
      BY <1>0
    <2>2. /\ a \in Seq(Entry) /\ Len(a) = IF 1 <= k THEN k - 1 + 1 ELSE 0
          /\ \A i \in 1 .. k - 1 + 1 : a[i] = s[1 + i - 1]
      BY <2>1, SubSeqProperties
    <2> HIDE DEF a
    <2> QED
      BY <2>2
  <1>2. b \in Seq(Entry) /\ Len(b) = n - k /\ \A i \in 1 .. n - k : b[i] = s[k + i]
    <2>1. \A i \in k + 1 .. n : s[i] \in Entry
      BY <1>0
    <2>2. /\ b \in Seq(Entry) /\ Len(b) = IF k + 1 <= n THEN n - (k + 1) + 1 ELSE 0
          /\ \A i \in 1 .. n - (k + 1) + 1 : b[i] = s[k + 1 + i - 1]
      BY <2>1, SubSeqProperties
    <2> HIDE DEF b
    <2>3. n - (k + 1) + 1 = n - k /\ \A i \in 1 .. n - k : k + 1 + i - 1 = k + i
      OBVIOUS
    <2> QED
      BY <2>2, <2>3
  <1>3. <<e>> \in Seq(Entry) /\ Len(<<e>>) = 1 /\ <<e>>[1] = e
    OBVIOUS
  <1> HIDE DEF a, b
  <1>4. PICK x \in Seq(Entry), m \in Seq(Entry), y \in Seq(Entry) : x = a /\ m = <<e>> /\ y = b
    BY <1>1, <1>2, <1>3
  <1>5. PICK c \in Seq(Entry) :
            /\ c = Chain(x, m) /\ Len(c) = Len(x) + Len(m)
            /\ \A i \in 1 .. Len(x) + Len(m) : c[i] = IF i <= Len(x) THEN x[i] ELSE m[i - Len(x)]
    BY ChainTyped, Zenon
  <1>6. Len(c) = k + 1 /\ c[k + 1] = e /\ \A i \in 1 .. k : c[i] = s[i]
    <2>1. Len(x) = k /\ (\A i \in 1 .. k : x[i] = s[i]) /\ Len(m) = 1 /\ m[1] = e
      BY <1>1, <1>3, <1>4, Zenon
    <2>2. Len(c) = k + 1 /\ \A i \in 1 .. k + 1 : c[i] = IF i <= k THEN x[i] ELSE m[i - k]
      BY <1>5, <2>1
    <2>3. k + 1 \in 1 .. k + 1 /\ ~(k + 1 <= k) /\ k + 1 - k = 1 /\ \A i \in 1 .. k : i \in 1 .. k + 1 /\ i <= k
      OBVIOUS
    <2>4. c[k + 1] = m[k + 1 - k] /\ \A i \in 1 .. k : c[i] = x[i]
      BY <2>2, <2>3
    <2> QED
      BY <2>1, <2>2, <2>3, <2>4, Zenon
  <1>7. PICK t \in Seq(Entry) :
            /\ t = Chain(c, y) /\ Len(t) = Len(c) + Len(y)
            /\ \A i \in 1 .. Len(c) + Len(y) : t[i] = IF i <= Len(c) THEN c[i] ELSE y[i - Len(c)]
    BY ChainTyped, Zenon
  <1>8. Len(y) = n - k /\ \A i \in 1 .. n - k : y[i] = s[k + i]
    BY <1>2, <1>4, Zenon
  <1>9. /\ Len(t) = n + 1 /\ t[k + 1] = e
        /\ \A i \in 1 .. k : t[i] = s[i]
        /\ \A i \in k + 2 .. n + 1 : t[i] = s[i - 1]
    <2>1. \A i \in 1 .. n + 1 : t[i] = IF i <= k + 1 THEN c[i] ELSE y[i - (k + 1)]
      BY <1>6, <1>7, <1>8
    <2>2. Len(t) = n + 1
      BY <1>6, <1>7, <1>8
    <2>3. t[k + 1] = e /\ \A i \in 1 .. k : t[i] = s[i]
      <3>1. k + 1 \in 1 .. n + 1 /\ k + 1 <= k + 1 /\ \A i \in 1 .. k : i \in 1 .. n + 1 /\ i <= k + 1
        OBVIOUS
      <3> QED
        BY <1>6, <2>1, <3>1
    <2>4. ASSUME NEW i \in k + 2 .. n + 1 PROVE t[i] = s[i - 1]
      <3>1. i \in 1 .. n + 1 /\ ~(i <= k + 1) /\ i - (k + 1) \in 1 .. n - k
            /\ k + (i - (k + 1)) = i - 1
        OBVIOUS
      <3>2. t[i] = y[i - (k + 1)]
        BY <2>1, <3>1
      <3>3. y[i - (k + 1)] = s[k + (i - (k + 1))]
        BY <1>8, <3>1
      <3> QED
        BY <3>1, <3>2, <3>3
    <2> QED
      BY <2>2, <2>3, <2>4
  <1>10. t = ga_clone(s, k, e)
    <2>1. PICK j \in Nat : j = k + 1 /\ j - 1 = k
      OBVIOUS
    <2>2. InsertAt(s, j, e) = SubSeq(s, 1, j - 1) \o <<e>> \o SubSeq(s, j, Len(s))
      BY DEF InsertAt
    <2>3. t = x \o m \o y
      BY <1>5, <1>7, Zenon DEF Chain
    <2>4. InsertAt(s, j, e) = t
      BY <1>4, <2>1, <2>2, <2>3, Zenon DEF a, b
    <2> QED
      BY <2>1, <2>4, Zenon DEF ga_clone
  <1> QED
    BY <1>9, <1>10, Zenon

LEMMA Inserted ==
    ASSUME NEW s \in Seq(Entry), NEW k \in 1 .. Len(s), NEW e \in Entry
    PROVE  /\ ga_clone(s, k, e) \in Seq(Entry) /\ ga_clone(s, k, e) # <<>>
           /\ Len(ga_clone(s, k, e)) = Len(s) + 1
           /\ \A i \in 1 .. Len(s) + 1 :
                 ga_clone(s, k, e)[i] = e \/ \E j \in 1 .. Len(s) : ga_clone(s, k, e)[i] = s[j]
           /\ Addresses(ga_clone(s, k, e)) = Addresses(s) + IF e.hasAddr THEN 1 ELSE 0
  <1> PICK n \in Nat : n = Len(s)
    BY LenProperties
  <1>1. PICK t \in Seq(Entry) :
            /\ t = ga_clone(s, k, e) /\ Len(t) = n + 1 /\ t[k + 1] = e
            /\ \A i \in 1 .. k : t[i] = s[i]
            /\ \A i \in k + 2 .. n + 1 : t[i] = s[i - 1]
    BY InsertedPlaces, Zenon
  <1>2. t = ga_clone(s, k, e)
    BY <1>1
  <1>3. PICK p \in 1 .. Len(s) + 1 : p = k + 1
    OBVIOUS
  <1>4. /\ \A i \in 1 .. p - 1 : t[i] = s[i]
        /\ t[p] = e
        /\ \A i \in p + 1 .. Len(t) : t[i] = s[i - 1]
    BY <1>1, <1>3
  <1>5. Len(t) = Len(s) + 1
    BY <1>1
  <1>6. Addresses(t) = Addresses(s) + IF e.hasAddr THEN 1 ELSE 0
    BY <1>4, <1>5, OneMore
  <1>7. t # <<>>
    <2>1. Len(t) > 0
      BY <1>5
    <2> QED
      BY <2>1, EmptySeq
  <1>8. \A i \in 1 .. Len(s) + 1 : t[i] = e \/ \E j \in 1 .. Len(s) : t[i] = s[j]
    <2> SUFFICES ASSUME NEW i \in 1 .. Len(s) + 1
                 PROVE  t[i] = e \/ \E j \in 1 .. Len(s) : t[i] = s[j]
      OBVIOUS
    <2>1. \/ i = k + 1
          \/ i \in 1 .. k /\ i \in 1 .. Len(s)
          \/ i \in k + 2 .. n + 1 /\ i - 1 \in 1 .. Len(s)
      OBVIOUS
    <2> QED
      BY <1>1, <2>1, Zenon
  <1> QED
    BY <1>2, <1>5, <1>6, <1>7, <1>8, Zenon

(* A list with one entry changed, whose address stays allocated.           *)
LEMMA Changed ==
    ASSUME NEW s \in Seq(Entry), NEW k \in 1 .. Len(s), NEW e \in Entry, e.hasAddr = s[k].hasAddr
    PROVE  /\ [s EXCEPT ![k] = e] \in Seq(Entry) /\ [s EXCEPT ![k] = e] # <<>>
           /\ Len([s EXCEPT ![k] = e]) = Len(s)
           /\ Addresses([s EXCEPT ![k] = e]) = Addresses(s)
  <1>1. /\ [s EXCEPT ![k] = e] \in Seq(Entry) /\ Len([s EXCEPT ![k] = e]) = Len(s)
        /\ \A i \in 1 .. Len(s) : [s EXCEPT ![k] = e][i] = IF i = k THEN e ELSE s[i]
    OBVIOUS
  <1>2. PICK t \in Seq(Entry) : t = [s EXCEPT ![k] = e]
    BY <1>1
  <1>3. Len(t) = Len(s) /\ Len(s) \in Nat /\ DOMAIN t = 1 .. Len(t) /\ DOMAIN s = 1 .. Len(s)
    BY <1>1, <1>2, LenProperties
  <1>4. \A i \in 1 .. Len(s) : t[i].hasAddr = s[i].hasAddr
    BY <1>1, <1>2
  <1>5. WithAddr(t) = WithAddr(s)
    BY <1>3, <1>4 DEF WithAddr
  <1>6. t # <<>>
    BY <1>3, EmptySeq
  <1> QED
    BY <1>1, <1>2, <1>5, <1>6, Zenon DEF Addresses

-----------------------------------------------------------------------------
(* What the tables give.                                                   *)

(* What a request asks for is in the tables.                               *)
LEMMA RequestTyped ==
    ASSUME NEW r \in Requests \union {NoRequest}
    PROVE  r.host \in DOMAIN HostTable /\ r.serv \in DOMAIN ServTable /\ r.socktype \in SocketTypes
  <1>1. CASE r \in Requests
    BY <1>1, TablesAssumption DEF SocketTypes
  <1>2. CASE r = NoRequest
    <2>1. r.host = Null /\ r.serv = Null /\ r.socktype = SockAny
      BY <1>2 DEF NoRequest
    <2> QED
      BY <2>1, TablesAssumption DEF SocketTypes
  <1> QED
    BY <1>1, <1>2

(* ga_echeck returns an error or 0.                                        *)
LEMMA EcheckTyped == \A r : ga_echeck(r) \in Errors \union {"0"}
  BY DEF ga_echeck, Errors

(* The places to search, for every request.                                *)
LEMMA NsearchTyped ==
    ASSUME NEW r \in Requests
    PROVE  ga_nsearch(r) \in Seq(Sought)
  <1>1. /\ Families(r) \in Seq({Inet, Inet6})
        /\ \A k \in DOMAIN Families(r) : Families(r)[k] \in {Inet, Inet6}
    <2>1. CASE r.family = Unspec
      <3>1. Families(r) = <<Inet6, Inet>>
        BY <2>1 DEF Families, Unspec, Inet, Inet6
      <3> QED
        BY <3>1
    <2>2. CASE r.family \in {Inet, Inet6}
      <3>1. Families(r) = <<r.family>>
        BY <2>2 DEF Families, Unspec, Inet, Inet6
      <3> QED
        BY <2>2, <3>1
    <2>3. CASE r.family \notin {Unspec, Inet, Inet6}
      <3>1. Families(r) = <<>>
        BY <2>3 DEF Families
      <3> QED
        BY <3>1
    <2> QED
      BY <2>1, <2>2, <2>3
  <1>2. \A f \in {Inet, Inet6} : SearchHost(r, f) \in DOMAIN HostTable
    <2> SUFFICES ASSUME NEW f \in {Inet, Inet6} PROVE SearchHost(r, f) \in DOMAIN HostTable
      OBVIOUS
    <2>1. r.host \in DOMAIN HostTable
      BY RequestTyped
    <2>2. {"0.0.0.0", "0::0", "0::1", "localhost"} \subseteq DOMAIN HostTable
      BY TablesAssumption
    <2>3. CASE r.host # Null
      BY <2>1, <2>3 DEF SearchHost
    <2>4. CASE r.host = Null /\ r.passive
      BY <2>2, <2>4 DEF SearchHost
    <2>5. CASE r.host = Null /\ ~r.passive
      BY <2>2, <2>5 DEF SearchHost
    <2> QED
      BY <2>3, <2>4, <2>5
  <1>3. PICK fams \in Seq({Inet, Inet6}) : fams = Families(r)
    BY <1>1
  <1>4. PICK n \in Nat : n = Len(fams) /\ DOMAIN fams = 1 .. n
    BY LenProperties
  <1>5. \A k \in 1 .. n : [host |-> SearchHost(r, fams[k]), family |-> fams[k]] \in Sought
    BY <1>1, <1>2, <1>3, <1>4 DEF Sought
  <1>6. ga_nsearch(r) = [k \in 1 .. n |-> [host |-> SearchHost(r, fams[k]), family |-> fams[k]]]
    BY <1>3, <1>4, Zenon DEF ga_nsearch
  <1>7. ga_nsearch(r) \in [1 .. n -> Sought]
    BY <1>5, <1>6, Zenon
  <1> QED
    BY <1>7, SeqDef

(* A sequence of structures to make, of the addresses found.               *)
LEMMA TodoTyped ==
    ASSUME NEW z \in Seq(Nat), NEW f \in {Inet, Inet6}
    PROVE  [k \in DOMAIN z |-> [family |-> f, addr |-> z[k]]] \in Seq(Address)
  <1>1. PICK n \in Nat : n = Len(z) /\ DOMAIN z = 1 .. n
    BY LenProperties
  <1>2. \A k \in 1 .. n : z[k] \in Nat
    BY <1>1, ElementOfSeq
  <1>3. \A k \in 1 .. n : [family |-> f, addr |-> z[k]] \in Address
    BY <1>2 DEF Address
  <1>4. [k \in DOMAIN z |-> [family |-> f, addr |-> z[k]]] \in [1 .. n -> Address]
    BY <1>1, <1>3, Zenon
  <1> QED
    BY <1>4, SeqDef

(* The addresses of a host are numbers.                                    *)
LEMMA HostNumbers ==
    \A h \in DOMAIN HostTable : HostTable[h].v4 \in Seq(Nat) /\ HostTable[h].v6 \in Seq(Nat)
  BY TablesAssumption

(* The addresses the resolver returns, for every host.                     *)
LEMMA FoundTyped ==
    ASSUME NEW h \in DOMAIN HostTable, NEW f \in {Inet, Inet6}
    PROVE  /\ HostTable[h].numeric \in {"no", Inet, Inet6}
           /\ HostTable[h].v4 \o HostTable[h].v6 \in Seq(Nat)
           /\ gethostbyname2(h, f) \in Seq(Nat)
           /\ \A o \in BOOLEAN : gethostbyname(h, o) \in Seq(Nat)
  <1>1. /\ HostTable[h].numeric \in {"no", Inet, Inet6}
        /\ HostTable[h].v4 \in Seq(Nat) /\ HostTable[h].v6 \in Seq(Nat)
    BY TablesAssumption
  <1>2. PICK z \in Seq(Nat) : z = HostTable[h].v4
    BY <1>1
  <1>3. PICK n \in Nat : n = Len(z) /\ DOMAIN z = 1 .. n
    BY LenProperties
  <1>4. \A k \in 1 .. n : 1000 + z[k] \in Nat
    BY <1>3, ElementOfSeq
  <1>5. Mapped(z) \in [1 .. n -> Nat]
    <2>1. [k \in 1 .. n |-> 1000 + z[k]] \in [1 .. n -> Nat]
      BY <1>4
    <2>2. Mapped(z) = [k \in 1 .. n |-> 1000 + z[k]]
      BY <1>3 DEF Mapped
    <2> QED
      BY <2>1, <2>2
  <1>6. Mapped(HostTable[h].v4) \in Seq(Nat)
    BY <1>2, <1>5, SeqDef
  <1>7. HostTable[h].v4 \o HostTable[h].v6 \in Seq(Nat)
    BY <1>1, ConcatProperties
  <1>8. gethostbyname2(h, f) \in Seq(Nat)
    BY <1>1 DEF gethostbyname2
  <1>9. \A o \in BOOLEAN : gethostbyname(h, o) \in Seq(Nat)
    BY <1>1, <1>6 DEF gethostbyname
  <1> QED
    BY <1>1, <1>7, <1>8, <1>9

(* The calls of ga_port, for every request.                                *)
LEMMA PassesTyped ==
    ASSUME NEW r \in Requests \union {NoRequest}
    PROVE  PortPasses(r) \in Seq(Pass)
  <1> DEFINE s == ServTable[r.serv]
             pass(type, port) == IF port > 0 /\ r.socktype \in {SockAny, type}
                                 THEN <<[socktype |-> type, port |-> port]>> ELSE <<>>
  <1>1. s.numeric \in Nat /\ s.tcp \in Nat /\ s.udp \in Nat /\ r.socktype \in SocketTypes
    BY RequestTyped, TablesAssumption
  <1>2. SockStream \in SocketTypes /\ SockDgram \in SocketTypes
    BY DEF SocketTypes
  <1>3. \A type \in SocketTypes, port \in Nat : <<[socktype |-> type, port |-> port]>> \in Seq(Pass)
    <2> SUFFICES ASSUME NEW type \in SocketTypes, NEW port \in Nat
                 PROVE  <<[socktype |-> type, port |-> port]>> \in Seq(Pass)
      OBVIOUS
    <2>1. PICK p \in Pass : p = [socktype |-> type, port |-> port]
      BY DEF Pass
    <2> QED
      BY <2>1
  <1>4. \A type \in SocketTypes, port \in Nat : pass(type, port) \in Seq(Pass)
    <2>1. <<>> \in Seq(Pass)
      OBVIOUS
    <2> QED
      BY <1>3, <2>1, Zenon
  <1>5. \A x, y \in Seq(Pass) : x \o y \in Seq(Pass)
    BY ConcatProperties
  <1> HIDE DEF pass
  <1>6. CASE s.numeric > 0 /\ r.socktype # SockAny
    <2>1. PortPasses(r) = <<[socktype |-> r.socktype, port |-> s.numeric]>>
      BY <1>6 DEF PortPasses
    <2> QED
      BY <1>1, <1>3, <2>1, Zenon
  <1>7. CASE s.numeric > 0 /\ ~(r.socktype # SockAny)
    <2>1. PortPasses(r) = pass(SockStream, s.numeric) \o pass(SockDgram, s.numeric)
      BY <1>7, Zenon DEF PortPasses, pass
    <2>2. pass(SockStream, s.numeric) \in Seq(Pass) /\ pass(SockDgram, s.numeric) \in Seq(Pass)
      BY <1>1, <1>2, <1>4, Zenon
    <2> QED
      BY <1>5, <2>1, <2>2, Zenon
  <1>8. CASE ~(s.numeric > 0)
    <2>1. PortPasses(r) = pass(SockStream, s.tcp) \o pass(SockDgram, s.udp)
      BY <1>8, Zenon DEF PortPasses, pass
    <2>2. pass(SockStream, s.tcp) \in Seq(Pass) /\ pass(SockDgram, s.udp) \in Seq(Pass)
      BY <1>1, <1>2, <1>4, Zenon
    <2> QED
      BY <1>5, <2>1, <2>2, Zenon
  <1> QED
    BY <1>6, <1>7, <1>8

-----------------------------------------------------------------------------
(* Every step of getaddrinfo.                                              *)

(* BlocksOf in terms of the lengths that the other lemmas are about.       *)
LEMMA BlocksCounted ==
    GaTyped =>
        /\ BlocksOf(ais) = Len(ais) + Addresses(ais) + IF canon = "attached" /\ ais # <<>> THEN 1 ELSE 0
        /\ Len(ais) \in Nat /\ Addresses(ais) \in Nat
  <1> SUFFICES ASSUME GaTyped
               PROVE  /\ BlocksOf(ais) = Len(ais) + Addresses(ais)
                                           + IF canon = "attached" /\ ais # <<>> THEN 1 ELSE 0
                      /\ Len(ais) \in Nat /\ Addresses(ais) \in Nat
    OBVIOUS
  <1>1. ais \in Seq(Entry)
    BY DEF GaTyped, GaTypeOK
  <1>2. Len(ais) \in Nat /\ Addresses(ais) \in Nat
    BY <1>1, LenProperties, AddressesCounted
  <1>3. BlocksOf(ais) = Len(ais) + Addresses(ais) + IF canon = "attached" /\ ais # <<>> THEN 1 ELSE 0
    BY Zenon DEF BlocksOf, Addresses, WithAddr
  <1> QED
    BY <1>2, <1>3

(* The empty list has nothing.                                             *)
LEMMA NoList == Len(<<>>) = 0 /\ Addresses(<<>>) = 0 /\ <<>> \in Seq(Entry)
  <1>1. Len(<<>>) = 0 /\ <<>> \in Seq(Entry)
    OBVIOUS
  <1>2. WithAddr(<<>>) = {}
    BY DEF WithAddr
  <1> QED
    BY <1>1, <1>2, FS_EmptySet DEF Addresses

(* Where the memory does not change, its balance does not.                 *)
LEMMA SameBlocks ==
    ASSUME GaBlocks, UNCHANGED <<ais, canon, blocks>>
    PROVE  GaBlocks'
  BY Zenon DEF GaBlocks, Addresses, WithAddr

(* GaInv holds before the first call.                                      *)
LEMMA GaInitInv == GaInit => GaInv
  <1> SUFFICES ASSUME GaInit PROVE GaInv
    OBVIOUS
  <1>1. /\ req = NoRequest /\ gphase = "idle"
        /\ search = <<>> /\ todo = <<>> /\ ais = <<>> /\ canon = "none"
        /\ passes = <<>> /\ at = 1 /\ nfound = 0 /\ rc = "0" /\ blocks = 0
        /\ useInet6 = FALSE /\ missed = {} /\ failed = FALSE
    BY DEF GaInit
  <1>2. GaTyped
    <2>1. <<>> \in Seq(Sought) /\ <<>> \in Seq(Address)
      OBVIOUS
    <2>2. 1 \in 1 .. Len(ais) + 1
      BY <1>1, NoList
    <2>3. {} \subseteq {Inet, Inet6} /\ "0" \in Errors \union {"0"} /\ FALSE \in BOOLEAN
      OBVIOUS
    <2>4. GaTypeOK
      BY <1>1, <2>2, <2>3, NoList DEF GaTypeOK
    <2> QED
      BY <1>1, <2>1, <2>4 DEF GaTyped
  <1>3. GaBlocks
    BY <1>1, NoList DEF GaBlocks
  <1>4. GaPhases
    BY <1>1 DEF GaPhases
  <1> QED
    BY <1>2, <1>3, <1>4 DEF GaInv

(* The call is checked.                                                    *)
LEMMA GaCallInv == GaInv /\ ga_call => GaInv'
  <1> SUFFICES ASSUME GaInv, ga_call PROVE GaInv'
    OBVIOUS
  <1>1. /\ gphase = "idle" /\ req' \in Requests
        /\ UNCHANGED <<todo, ais, canon, at, nfound, blocks, useInet6, missed, failed>>
    BY DEF ga_call
  <1>2. \/ rc' = ga_echeck(req') /\ rc' # "0" /\ gphase' = "bad" /\ UNCHANGED <<search, passes>>
        \/ IsUnix(req') /\ rc' = "EAI_ADDRFAMILY" /\ gphase' = "returned" /\ UNCHANGED <<search, passes>>
        \/ /\ IsUnix(req') /\ gphase' = "unix" /\ UNCHANGED <<search, rc>>
           /\ passes' \in {<<SockStream, SockDgram>>, <<req'.socktype>>}
        \/ /\ ~IsUnix(req') /\ gphase' \in {"err_quit", "search"} /\ UNCHANGED <<passes, rc>>
           /\ search' = ga_nsearch(req')
    BY DEF ga_call, Bad
  <1>3. GaTyped /\ GaBlocks /\ GaPhases /\ ais = <<>> /\ canon = "none" /\ rc = "0"
    BY <1>1 DEF GaInv, GaPhases
  <1>4. GaTyped'
    <2>1. rc' \in Errors \union {"0"}
      BY <1>2, <1>3, EcheckTyped DEF GaTyped, GaTypeOK, Errors
    <2>2. search' \in Seq(Sought)
      BY <1>1, <1>2, <1>3, NsearchTyped DEF GaTyped
    <2>3. gphase' = "unix" => passes' \in Seq(SocketTypes)
      <3>1. {SockStream, SockDgram, req'.socktype} \subseteq SocketTypes
        BY <1>1, RequestTyped DEF SocketTypes
      <3>2. <<SockStream, SockDgram>> \in Seq(SocketTypes) /\ <<req'.socktype>> \in Seq(SocketTypes)
        BY <3>1
      <3> QED
        BY <1>2, <3>2
    <2>4. gphase' \in {"bad", "returned", "unix", "err_quit", "search"}
      BY <1>2
    <2> QED
      BY <1>1, <1>3, <2>1, <2>2, <2>3, <2>4 DEF GaTyped, GaTypeOK
  <1>5. GaBlocks'
    BY <1>1, <1>3, SameBlocks
  <1>6. GaPhases'
    <2>1. <<SockStream, SockDgram>> # <<>> /\ <<req'.socktype>> # <<>>
      OBVIOUS
    <2> QED
      BY <1>1, <1>2, <1>3, <2>1 DEF GaPhases
  <1> QED
    BY <1>4, <1>5, <1>6 DEF GaInv

(* What the host loop finds of a string to search for.                     *)
LEMMA HeadSought ==
    ASSUME GaTyped, search # <<>>
    PROVE  /\ Head(search).host \in DOMAIN HostTable /\ Head(search).family \in {Inet, Inet6}
           /\ Tail(search) \in Seq(Sought)
  <1>1. search \in Seq(Sought)
    BY DEF GaTyped
  <1>2. Head(search) \in Sought /\ Tail(search) \in Seq(Sought)
    BY <1>1, HeadTailProperties
  <1> QED
    BY <1>2 DEF Sought

(* A step of the host loop that keeps the list: it goes on, or ends.       *)
LEMMA SearchStep ==
    ASSUME GaInv, gphase = "search",
           search' \in Seq(Sought), todo' \in Seq(Address), useInet6' \in BOOLEAN,
           missed' \subseteq {Inet, Inet6}, failed' \in BOOLEAN,
           \/ gphase' \in {"search", "create"} /\ rc' = rc
           \/ gphase' = "bad" /\ rc' \in Errors /\ rc' # "0",
           \/ UNCHANGED <<canon, blocks>>
           \/ /\ canon = "none" /\ canon' = "held" /\ blocks' = blocks + 1
              /\ req.host # Null /\ req.canon,
           UNCHANGED <<req, ais, passes, at, nfound>>
    PROVE  GaInv'
  <1>1. GaTyped /\ GaBlocks /\ GaPhases /\ Len(ais) \in Nat /\ Addresses(ais) \in Nat
    BY BlocksCounted DEF GaInv
  <1>2. Len(ais') = Len(ais) /\ Addresses(ais)' = Addresses(ais)
    BY Zenon DEF Addresses, WithAddr
  <1>3. GaBlocks'
    <2>1. CASE UNCHANGED <<canon, blocks>>
      BY <1>1, <2>1, SameBlocks
    <2>2. CASE canon = "none" /\ canon' = "held" /\ blocks' = blocks + 1
      <3>1. blocks = Len(ais) + Addresses(ais)
        BY <1>1, <2>2 DEF GaBlocks
      <3> QED
        BY <1>1, <1>2, <2>2, <3>1 DEF GaBlocks
    <2> QED
      BY <2>1, <2>2
  <1>4. blocks' \in Nat /\ canon' \in {"none", "held", "attached"}
    BY <1>1 DEF GaTyped, GaTypeOK
  <1>5. GaTyped'
    BY <1>1, <1>4 DEF GaTyped, GaTypeOK
  <1>6. IsUnix(req)' = IsUnix(req)
    BY Zenon DEF IsUnix
  <1>7. GaPhases'
    BY <1>1, <1>6 DEF GaPhases
  <1> QED
    BY <1>3, <1>5, <1>7 DEF GaInv

(* The host loop meets an address string.                                  *)
LEMMA SearchNumericInv == GaInv /\ search_numeric => GaInv'
  <1> SUFFICES ASSUME GaInv, search_numeric PROVE GaInv'
    OBVIOUS
  <1> DEFINE s == Head(search)
             t == HostTable[s.host]
             found == [k \in DOMAIN (t.v4 \o t.v6) |->
                          [family |-> s.family, addr |-> (t.v4 \o t.v6)[k]]]
  <1>1. /\ gphase = "search" /\ search # <<>>
        /\ UNCHANGED <<req, ais, canon, passes, at, nfound, blocks, useInet6, missed, failed>>
        /\ \/ rc' = "EAI_ADDRFAMILY" /\ gphase' = "bad" /\ UNCHANGED <<search, todo>>
           \/ /\ search' = Tail(search) /\ rc' = rc
              /\ \/ todo' = found /\ gphase' = "create"
                 \/ UNCHANGED <<todo, gphase>>
    BY DEF search_numeric, Bad
  <1>2. GaTyped /\ search \in Seq(Sought) /\ todo \in Seq(Address)
    BY DEF GaInv, GaTyped
  <1>3. Tail(search) \in Seq(Sought) /\ found \in Seq(Address)
    <2>1. s.host \in DOMAIN HostTable /\ s.family \in {Inet, Inet6} /\ Tail(search) \in Seq(Sought)
      BY <1>1, <1>2, HeadSought
    <2>2. t.v4 \o t.v6 \in Seq(Nat)
      BY <2>1, FoundTyped
    <2> HIDE DEF s, t
    <2>3. PICK z \in Seq(Nat), f \in {Inet, Inet6} : z = t.v4 \o t.v6 /\ f = s.family
      BY <2>1, <2>2
    <2>4. [k \in DOMAIN z |-> [family |-> f, addr |-> z[k]]] \in Seq(Address)
      BY TodoTyped
    <2> QED
      BY <2>1, <2>3, <2>4, Zenon
  <1> HIDE DEF s, t, found
  <1>4. search' \in Seq(Sought) /\ todo' \in Seq(Address)
    BY <1>1, <1>2, <1>3
  <1>5. useInet6' \in BOOLEAN /\ missed' \subseteq {Inet, Inet6} /\ failed' \in BOOLEAN
    BY <1>1, <1>2 DEF GaTyped, GaTypeOK
  <1>6. "EAI_ADDRFAMILY" \in Errors
    BY DEF Errors
  <1>7. \/ gphase' \in {"search", "create"} /\ rc' = rc
        \/ gphase' = "bad" /\ rc' \in Errors /\ rc' # "0"
    BY <1>1, <1>6
  <1> QED
    BY <1>1, <1>4, <1>5, <1>7, SearchStep

(* The resolver finds addresses.                                           *)
LEMMA SearchNameInv == GaInv /\ search_name => GaInv'
  <1> SUFFICES ASSUME GaInv, search_name PROVE GaInv'
    OBVIOUS
  <1> DEFINE s == Head(search)
             found == IF Len(Families(req)) = 2 THEN gethostbyname2(s.host, s.family)
                      ELSE gethostbyname(s.host, useInet6')
             addrtype == IF Len(Families(req)) = 2 THEN s.family
                         ELSE IF useInet6' THEN Inet6 ELSE Inet
             new == [k \in DOMAIN found |-> [family |-> addrtype, addr |-> found[k]]]
  <1>1. /\ gphase = "search" /\ search # <<>> /\ useInet6' = Option(s)
        /\ UNCHANGED <<req, ais, passes, at, nfound, missed>>
    BY DEF search_name
  <1>2. \/ /\ rc' = "EAI_ADDRFAMILY" /\ gphase' = "bad"
           /\ UNCHANGED <<search, todo, canon, blocks, failed>>
        \/ /\ req.host # Null /\ req.canon /\ canon = "none"
           /\ canon' = "held" /\ blocks' = blocks + 1
           /\ gphase' = "create" /\ search' = Tail(search) /\ todo' = new
           /\ UNCHANGED <<rc, failed>>
        \/ /\ rc' = "EAI_MEMORY" /\ gphase' = "bad" /\ failed' = TRUE
           /\ UNCHANGED <<search, todo, canon, blocks>>
        \/ /\ gphase' = "create" /\ search' = Tail(search) /\ todo' = new
           /\ UNCHANGED <<rc, canon, blocks, failed>>
    BY DEF search_name, Bad
  <1>3. GaTyped /\ search \in Seq(Sought) /\ todo \in Seq(Address) /\ failed \in BOOLEAN
    BY DEF GaInv, GaTyped, GaTypeOK
  <1>4. useInet6' \in BOOLEAN
    BY <1>1 DEF Option
  <1>5. Tail(search) \in Seq(Sought) /\ new \in Seq(Address)
    <2>1. s.host \in DOMAIN HostTable /\ s.family \in {Inet, Inet6} /\ Tail(search) \in Seq(Sought)
      BY <1>1, <1>3, HeadSought
    <2> HIDE DEF s
    <2>2. gethostbyname2(s.host, s.family) \in Seq(Nat) /\ gethostbyname(s.host, useInet6') \in Seq(Nat)
      BY <1>4, <2>1, FoundTyped
    <2>3. PICK z \in Seq(Nat), f \in {Inet, Inet6} : z = found /\ f = addrtype
      <3>1. found \in Seq(Nat)
        BY <2>2
      <3>2. addrtype \in {Inet, Inet6}
        BY <2>1
      <3> QED
        BY <3>1, <3>2
    <2>4. [k \in DOMAIN z |-> [family |-> f, addr |-> z[k]]] \in Seq(Address)
      BY TodoTyped
    <2> HIDE DEF found, addrtype
    <2> QED
      BY <2>1, <2>3, <2>4, Zenon
  <1> HIDE DEF s, found, addrtype, new
  <1>6. search' \in Seq(Sought) /\ todo' \in Seq(Address)
    BY <1>2, <1>3, <1>5
  <1>7. failed' \in BOOLEAN /\ missed' \subseteq {Inet, Inet6}
    BY <1>1, <1>2, <1>3 DEF GaTyped, GaTypeOK
  <1>8. {"EAI_ADDRFAMILY", "EAI_MEMORY"} \subseteq Errors
    BY DEF Errors
  <1>9. \/ gphase' \in {"search", "create"} /\ rc' = rc
        \/ gphase' = "bad" /\ rc' \in Errors /\ rc' # "0"
    BY <1>2, <1>8
  <1>10. \/ UNCHANGED <<canon, blocks>>
         \/ /\ canon = "none" /\ canon' = "held" /\ blocks' = blocks + 1
            /\ req.host # Null /\ req.canon
    BY <1>2
  <1> QED
    BY <1>1, <1>4, <1>6, <1>7, <1>9, <1>10, SearchStep

(* The resolver finds none.                                                *)
LEMMA SearchFailsInv == GaInv /\ search_fails => GaInv'
  <1> SUFFICES ASSUME GaInv, search_fails PROVE GaInv'
    OBVIOUS
  <1>1. /\ gphase = "search" /\ search # <<>> /\ useInet6' = Option(Head(search))
        /\ UNCHANGED <<req, todo, ais, canon, passes, at, nfound, blocks>>
        /\ \/ /\ search' = Tail(search) /\ missed' = missed \union {Head(search).family}
              /\ UNCHANGED <<gphase, rc, failed>>
           \/ /\ rc' \in {"EAI_NONAME", "EAI_AGAIN", "EAI_FAIL", "EAI_NODATA"} /\ gphase' = "bad"
              /\ failed' \in BOOLEAN
              /\ UNCHANGED <<search, missed>>
    BY DEF search_fails, Bad
  <1>2. /\ GaTyped /\ search \in Seq(Sought) /\ todo \in Seq(Address)
        /\ failed \in BOOLEAN /\ missed \subseteq {Inet, Inet6}
    BY DEF GaInv, GaTyped, GaTypeOK
  <1>3. Tail(search) \in Seq(Sought) /\ Head(search).family \in {Inet, Inet6}
    BY <1>1, <1>2, HeadSought
  <1>4. search' \in Seq(Sought) /\ todo' \in Seq(Address)
    BY <1>1, <1>2, <1>3
  <1>5. useInet6' \in BOOLEAN
    BY <1>1 DEF Option
  <1>6. missed' \subseteq {Inet, Inet6} /\ failed' \in BOOLEAN
    BY <1>1, <1>2, <1>3
  <1>7. {"EAI_NONAME", "EAI_AGAIN", "EAI_FAIL", "EAI_NODATA"} \subseteq Errors
    BY DEF Errors
  <1>8. \/ gphase' \in {"search", "create"} /\ rc' = rc
        \/ gphase' = "bad" /\ rc' \in Errors /\ rc' # "0"
    BY <1>1, <1>7
  <1> QED
    BY <1>1, <1>4, <1>5, <1>6, <1>8, SearchStep

(* ga_aistruct: what is allocated is linked.                               *)
LEMMA StructMade ==
    ASSUME GaInv, NEW f \in {Inet, Inet6, Local}, NEW a \in Nat, NEW t \in SocketTypes,
           NEW n \in 0 .. 2, ga_aistruct(f, a, t, n), UNCHANGED canon, canon # "attached"
    PROVE  /\ GaBlocks' /\ ais' \in Seq(Entry) /\ blocks' \in Nat
           /\ Len(ais') >= Len(ais) /\ (n > 0 => ais' # <<>>) /\ (n = 0 => ais' = ais)
  <1>1. GaTyped /\ GaBlocks /\ Len(ais) \in Nat /\ Addresses(ais) \in Nat
    BY BlocksCounted DEF GaInv
  <1>2. ais \in Seq(Entry) /\ blocks \in Nat /\ blocks' = blocks + n /\ blocks' \in Nat
    BY <1>1 DEF GaTyped, GaTypeOK, ga_aistruct
  <1>3. blocks = Len(ais) + Addresses(ais) + IF canon = "held" THEN 1 ELSE 0
    BY <1>1 DEF GaBlocks
  <1>4. /\ Len(ais') + Addresses(ais)' = Len(ais) + Addresses(ais) + n
        /\ ais' \in Seq(Entry) /\ Len(ais') >= Len(ais)
        /\ (n > 0 => ais' # <<>>) /\ (n = 0 => ais' = ais)
    <2>1. Addresses(ais)' = Addresses(ais')
      BY Zenon DEF Addresses, WithAddr
    <2>2. CASE n = 0
      <3>1. ais' = ais
        BY <2>2 DEF ga_aistruct
      <3>2. Addresses(ais') = Addresses(ais) /\ Len(ais') = Len(ais)
        BY <3>1, Zenon
      <3> QED
        BY <1>1, <1>2, <2>1, <2>2, <3>1, <3>2
    <2>3. CASE n # 0
      <3>1. PICK e : e = [family |-> f, addr |-> a, socktype |-> t, port |-> 0,
                          clone |-> t = SockAny, hasAddr |-> n = 2]
        OBVIOUS
      <3>2. e \in Entry /\ (e.hasAddr <=> n = 2)
        BY <3>1 DEF Entry
      <3>3. ais' = Append(ais, e)
        BY <2>3, <3>1 DEF ga_aistruct
      <3>4. /\ ais' \in Seq(Entry) /\ ais' # <<>> /\ Len(ais') = Len(ais) + 1
            /\ Addresses(ais') = Addresses(ais) + IF e.hasAddr THEN 1 ELSE 0
        BY <1>2, <3>2, <3>3, Appended
      <3>5. n = 1 + IF e.hasAddr THEN 1 ELSE 0
        BY <2>3, <3>2
      <3> QED
        BY <1>1, <2>1, <2>3, <3>4, <3>5
    <2> QED
      BY <2>2, <2>3
  <1>5. GaBlocks'
    <2>1. canon' = canon
      OBVIOUS
    <2> QED
      BY <1>1, <1>2, <1>3, <1>4, <2>1 DEF GaBlocks
  <1> QED
    BY <1>2, <1>4, <1>5

(* Structures of the addresses found.                                      *)
LEMMA CreateInv == GaInv /\ create => GaInv'
  <1> SUFFICES ASSUME GaInv, create PROVE GaInv'
    OBVIOUS
  <1>1. /\ gphase = "create" /\ todo # <<>>
        /\ UNCHANGED <<req, search, canon, passes, at, nfound, useInet6, missed>>
    BY DEF create
  <1>2. PICK n \in 0 .. 2 :
            /\ ga_aistruct(Head(todo).family, Head(todo).addr, req.socktype, n)
            /\ \/ rc' = "EAI_MEMORY" /\ gphase' = "bad" /\ failed' = TRUE /\ UNCHANGED todo
               \/ todo' = Tail(todo) /\ UNCHANGED <<gphase, rc, failed>>
    BY DEF create, Bad
  <1>3. GaTyped /\ GaPhases /\ canon # "attached" /\ Len(ais) \in Nat
    BY <1>1, BlocksCounted DEF GaInv, GaPhases
  <1>4. Head(todo).family \in {Inet, Inet6, Local} /\ Head(todo).addr \in Nat /\ Tail(todo) \in Seq(Address)
    <2>1. Head(todo) \in Address /\ Tail(todo) \in Seq(Address)
      BY <1>1, <1>3, HeadTailProperties DEF GaTyped
    <2> QED
      BY <2>1 DEF Address
  <1>5. req.socktype \in SocketTypes
    BY <1>3, RequestTyped DEF GaTyped, GaTypeOK
  <1>6. /\ GaBlocks' /\ ais' \in Seq(Entry) /\ blocks' \in Nat /\ Len(ais') >= Len(ais)
    BY <1>1, <1>2, <1>3, <1>4, <1>5, StructMade
  <1>7. GaTyped'
    <2>1. at' \in 1 .. Len(ais') + 1
      <3>1. Len(ais') \in Nat
        BY <1>6, LenProperties
      <3> QED
        BY <1>1, <1>3, <1>6, <3>1 DEF GaTyped, GaTypeOK
    <2>2. rc' \in Errors \union {"0"} /\ failed' \in BOOLEAN
      BY <1>2, <1>3 DEF GaTyped, GaTypeOK, Errors
    <2>3. todo' \in Seq(Address) /\ gphase' \in {"create", "bad"}
      BY <1>1, <1>2, <1>3, <1>4 DEF GaTyped
    <2> QED
      BY <1>1, <1>3, <1>6, <2>1, <2>2, <2>3 DEF GaTyped, GaTypeOK
  <1>8. IsUnix(req)' = IsUnix(req)
    BY <1>1, Zenon DEF IsUnix
  <1>9. GaPhases'
    BY <1>1, <1>2, <1>3, <1>8 DEF GaPhases
  <1> QED
    BY <1>6, <1>7, <1>9 DEF GaInv

(* Steps that change neither the list nor what has been allocated.         *)
LEMMA OnwardInv == GaInv /\ (created \/ searched \/ ga_port_end \/ served) => GaInv'
  <1> SUFFICES ASSUME GaInv, created \/ searched \/ ga_port_end \/ served PROVE GaInv'
    OBVIOUS
  <1>1. /\ UNCHANGED <<req, search, todo, ais, canon, nfound, blocks, useInet6, missed, failed>>
        /\ \/ gphase = "create" /\ gphase' = "search" /\ UNCHANGED <<rc, passes, at>>
           \/ gphase = "search" /\ rc' = "EAI_NONAME" /\ gphase' = "bad" /\ UNCHANGED <<passes, at>>
           \/ gphase = "search" /\ ais # <<>> /\ gphase' = "canon" /\ UNCHANGED <<rc, passes, at>>
           \/ /\ gphase = "port" /\ passes # <<>> /\ passes' = Tail(passes) /\ at' = 1
              /\ UNCHANGED <<rc, gphase>>
           \/ gphase = "port" /\ gphase' = "returned" /\ UNCHANGED <<rc, passes, at>>
           \/ /\ gphase = "port" /\ rc' \in {"EAI_NONAME", "EAI_SERVICE"} /\ gphase' = "bad"
              /\ UNCHANGED <<passes, at>>
    BY DEF created, searched, ga_port_end, served, Bad, work
  <1>2. GaTyped /\ GaBlocks /\ GaPhases /\ Len(ais) \in Nat
    BY BlocksCounted DEF GaInv
  <1>3. GaTyped'
    <2>1. gphase' = "port" => passes' \in Seq(Pass)
      <3>1. gphase = "port" /\ passes # <<>> => Tail(passes) \in Seq(Pass)
        BY <1>2, HeadTailProperties DEF GaTyped
      <3> QED
        BY <1>1, <3>1
    <2>2. at' \in 1 .. Len(ais') + 1
      BY <1>1, <1>2 DEF GaTyped, GaTypeOK
    <2>3. rc' \in Errors \union {"0"}
      BY <1>1, <1>2 DEF GaTyped, GaTypeOK, Errors
    <2>4. gphase' \in {"search", "bad", "canon", "port", "returned"}
      BY <1>1
    <2> QED
      BY <1>1, <1>2, <2>1, <2>2, <2>3, <2>4 DEF GaTyped, GaTypeOK
  <1>4. GaBlocks'
    BY <1>1, <1>2, SameBlocks
  <1>5. IsUnix(req)' = IsUnix(req)
    BY <1>1, Zenon DEF IsUnix
  <1>6. GaPhases'
    BY <1>1, <1>2, <1>5 DEF GaPhases
  <1> QED
    BY <1>3, <1>4, <1>6 DEF GaInv

(* The name goes to the first structure.                                   *)
LEMMA CanonnameInv == GaInv /\ canonname => GaInv'
  <1> SUFFICES ASSUME GaInv, canonname PROVE GaInv'
    OBVIOUS
  <1>1. /\ gphase = "canon"
        /\ UNCHANGED <<req, useInet6, search, todo, ais, at, nfound, missed>>
    BY DEF canonname
  <1>2. \/ /\ req.host # Null /\ req.canon
           /\ canon' = "attached" /\ blocks' = IF canon = "held" THEN blocks ELSE blocks + 1
           /\ passes' = PortPasses(req) /\ gphase' = "port" /\ UNCHANGED <<rc, failed>>
        \/ /\ ~(req.host # Null /\ req.canon) /\ UNCHANGED <<canon, blocks>>
           /\ passes' = PortPasses(req) /\ gphase' = "port" /\ UNCHANGED <<rc, failed>>
        \/ /\ rc' = "EAI_MEMORY" /\ gphase' = "bad" /\ failed' = TRUE
           /\ UNCHANGED <<canon, blocks, passes>>
    BY DEF canonname, Bad
  <1>3. /\ GaTyped /\ GaBlocks /\ GaPhases /\ Len(ais) \in Nat /\ Addresses(ais) \in Nat
        /\ canon # "attached" /\ ais # <<>>
    BY <1>1, BlocksCounted DEF GaInv, GaPhases
  <1>4. GaTyped'
    <2>1. gphase' = "port" => passes' \in Seq(Pass)
      BY <1>2, <1>3, PassesTyped DEF GaTyped, GaTypeOK
    <2>2. rc' \in Errors \union {"0"} /\ failed' \in BOOLEAN
      BY <1>2, <1>3 DEF GaTyped, GaTypeOK, Errors
    <2>3. gphase' \in {"port", "bad"} /\ canon' \in {"none", "held", "attached"} /\ blocks' \in Nat
      BY <1>2, <1>3 DEF GaTyped, GaTypeOK
    <2> QED
      BY <1>1, <1>3, <2>1, <2>2, <2>3 DEF GaTyped, GaTypeOK
  <1>5. GaBlocks'
    <2>1. Len(ais') = Len(ais) /\ Addresses(ais)' = Addresses(ais) /\ ais' = ais
      BY <1>1, Zenon DEF Addresses, WithAddr
    <2>2. CASE UNCHANGED <<canon, blocks>>
      BY <1>1, <1>3, <2>2, SameBlocks
    <2>3. CASE canon' = "attached" /\ blocks' = IF canon = "held" THEN blocks ELSE blocks + 1
      <3>1. blocks = Len(ais) + Addresses(ais) + IF canon = "held" THEN 1 ELSE 0
        BY <1>3 DEF GaBlocks
      <3>2. blocks' = Len(ais) + Addresses(ais) + 1
        BY <1>3, <2>3, <3>1
      <3> QED
        BY <1>3, <2>1, <2>3, <3>2 DEF GaBlocks
    <2> QED
      BY <1>2, <2>2, <2>3
  <1>6. IsUnix(req)' = IsUnix(req)
    BY <1>1, Zenon DEF IsUnix
  <1>7. GaPhases'
    BY <1>1, <1>2, <1>3, <1>6 DEF GaPhases
  <1> QED
    BY <1>4, <1>5, <1>7 DEF GaInv

(* The list grows by n blocks, or one of its structures is changed.        *)
LEMMA PortStep ==
    ASSUME GaInv, gphase = "port", NEW n \in 0 .. 2,
           ais' \in Seq(Entry), ais' # <<>>, at' \in 1 .. Len(ais') + 1, nfound' \in Nat,
           Len(ais') + Addresses(ais') = Len(ais) + Addresses(ais) + n,
           blocks' = blocks + n,
           \/ UNCHANGED <<gphase, rc, failed>>
           \/ rc' = "EAI_MEMORY" /\ gphase' = "bad" /\ failed' = TRUE,
           UNCHANGED <<req, useInet6, search, todo, canon, passes, missed>>
    PROVE  GaInv'
  <1>1. /\ GaTyped /\ GaBlocks /\ GaPhases /\ Len(ais) \in Nat /\ Addresses(ais) \in Nat
        /\ ais # <<>>
    BY BlocksCounted DEF GaInv, GaPhases
  <1>2. blocks' \in Nat
    BY <1>1 DEF GaTyped, GaTypeOK
  <1>3. GaTyped'
    <2>1. rc' \in Errors \union {"0"} /\ failed' \in BOOLEAN /\ gphase' \in {"port", "bad"}
      BY <1>1 DEF GaTyped, GaTypeOK, Errors
    <2> QED
      BY <1>1, <1>2, <2>1 DEF GaTyped, GaTypeOK
  <1>4. GaBlocks'
    <2>1. Addresses(ais)' = Addresses(ais') /\ Addresses(ais') \in Nat /\ Len(ais') \in Nat
      <3>1. Addresses(ais)' = Addresses(ais')
        BY Zenon DEF Addresses, WithAddr
      <3> QED
        BY <3>1, AddressesCounted, LenProperties
    <2>2. PICK d \in {0, 1} :
              /\ d = IF canon = "held" \/ (canon = "attached" /\ ais # <<>>) THEN 1 ELSE 0
              /\ d = IF canon' = "held" \/ (canon' = "attached" /\ ais' # <<>>) THEN 1 ELSE 0
      BY <1>1
    <2>3. blocks = Len(ais) + Addresses(ais) + d
      BY <1>1, <2>2 DEF GaBlocks
    <2>4. blocks' = Len(ais') + Addresses(ais)' + d
      BY <1>1, <2>1, <2>3, SMTT(20)
    <2> QED
      BY <2>2, <2>4, Zenon DEF GaBlocks
  <1>5. IsUnix(req)' = IsUnix(req)
    BY Zenon DEF IsUnix
  <1>6. GaPhases'
    BY <1>1, <1>5 DEF GaPhases
  <1> QED
    BY <1>3, <1>4, <1>6 DEF GaInv

(* One round of ga_port.                                                   *)
LEMMA PortInv == GaInv /\ ga_port => GaInv'
  <1> SUFFICES ASSUME GaInv, ga_port PROVE GaInv'
    OBVIOUS
  <1>1. /\ gphase = "port" /\ passes # <<>> /\ at <= Len(ais)
        /\ UNCHANGED <<req, useInet6, search, todo, canon, passes, missed>>
    BY DEF ga_port
  <1>2. /\ GaTyped /\ GaPhases /\ Len(ais) \in Nat /\ Addresses(ais) \in Nat /\ ais # <<>>
        /\ ais \in Seq(Entry) /\ passes \in Seq(Pass) /\ nfound \in Nat /\ at \in 1 .. Len(ais) + 1
        /\ blocks \in Nat
    BY <1>1, BlocksCounted DEF GaInv, GaPhases, GaTyped, GaTypeOK
  <1>3. PICK ai \in Entry, pass \in Pass, k \in 1 .. Len(ais) :
            k = at /\ ai = ais[k] /\ pass = Head(passes)
    BY <1>1, <1>2, ElementOfSeq, HeadTailProperties
  <1>4. CASE ai.clone /\ ai.socktype # SockAny
    <2>1. PICK n \in 0 .. 2 :
              LET new == [ais[at] EXCEPT !.clone = FALSE, !.hasAddr = n = 2]
              IN  /\ blocks' = blocks + n
                  /\ IF n < 2
                     THEN /\ ais' = IF n = 0 THEN ais ELSE ga_clone(ais, at, new)
                          /\ Bad("EAI_MEMORY") /\ failed' = TRUE
                          /\ UNCHANGED <<at, nfound>>
                     ELSE /\ ais' = ga_clone(ais, at, [new EXCEPT !.socktype = Head(passes).socktype,
                                                                  !.port = Head(passes).port])
                          /\ at' = at + 2 /\ nfound' = nfound + 1
                          /\ UNCHANGED <<gphase, rc, failed>>
      BY <1>3, <1>4, Zenon DEF ga_port
    <2> DEFINE new == [ai EXCEPT !.clone = FALSE, !.hasAddr = n = 2]
               set == [new EXCEPT !.socktype = pass.socktype, !.port = pass.port]
    <2>2. new \in Entry /\ set \in Entry /\ (new.hasAddr <=> n = 2) /\ (set.hasAddr <=> n = 2)
      BY DEF Entry, Pass
    <2>3. /\ [ais[at] EXCEPT !.clone = FALSE, !.hasAddr = n = 2] = new
           /\ [new EXCEPT !.socktype = Head(passes).socktype, !.port = Head(passes).port] = set
      BY <1>3, Zenon
    <2> HIDE DEF new, set
    <2>4. /\ blocks' = blocks + n
           /\ IF n < 2
              THEN /\ ais' = IF n = 0 THEN ais ELSE ga_clone(ais, k, new)
                   /\ rc' = "EAI_MEMORY" /\ gphase' = "bad" /\ failed' = TRUE
                   /\ UNCHANGED <<at, nfound>>
              ELSE /\ ais' = ga_clone(ais, k, set)
                   /\ at' = at + 2 /\ nfound' = nfound + 1
                   /\ UNCHANGED <<gphase, rc, failed>>
      BY <1>3, <2>1, <2>3, Zenon DEF Bad
    <2>5. CASE n = 0
      <3>1. Len(ais') + Addresses(ais') = Len(ais) + Addresses(ais) + n /\ ais' = ais
        BY <1>2, <2>4, <2>5
      <3> QED
        BY <1>1, <1>2, <2>4, <2>5, <3>1, PortStep
    <2>6. CASE n = 1
      <3>1. ais' = ga_clone(ais, k, new) /\ UNCHANGED <<at, nfound>>
        BY <2>4, <2>6
      <3>2. /\ ais' \in Seq(Entry) /\ ais' # <<>> /\ Len(ais') = Len(ais) + 1
            /\ Addresses(ais') = Addresses(ais) + IF new.hasAddr THEN 1 ELSE 0
        BY <1>2, <2>2, <3>1, Inserted
      <3>3. Len(ais') + Addresses(ais') = Len(ais) + Addresses(ais) + n
        BY <1>2, <2>2, <2>6, <3>2
      <3>4. at' \in 1 .. Len(ais') + 1 /\ nfound' \in Nat
        BY <1>2, <3>1, <3>2
      <3> QED
        BY <1>1, <2>4, <2>6, <3>2, <3>3, <3>4, PortStep
    <2>7. CASE n = 2
      <3>1. /\ ais' = ga_clone(ais, k, set) /\ at' = at + 2 /\ nfound' = nfound + 1
            /\ UNCHANGED <<gphase, rc, failed>>
        BY <2>4, <2>7
      <3>2. /\ ais' \in Seq(Entry) /\ ais' # <<>> /\ Len(ais') = Len(ais) + 1
            /\ Addresses(ais') = Addresses(ais) + IF set.hasAddr THEN 1 ELSE 0
        BY <1>2, <2>2, <3>1, Inserted
      <3>3. Len(ais') + Addresses(ais') = Len(ais) + Addresses(ais) + n
        BY <1>2, <2>2, <2>7, <3>2
      <3>4. at' \in 1 .. Len(ais') + 1 /\ nfound' \in Nat
        BY <1>1, <1>2, <3>1, <3>2
      <3> QED
        BY <1>1, <2>4, <2>7, <3>1, <3>2, <3>3, <3>4, PortStep
    <2> QED
      BY <2>5, <2>6, <2>7
  <1>5. CASE ~(ai.clone /\ ai.socktype # SockAny)
    <2> DEFINE set == [ai EXCEPT !.socktype = pass.socktype, !.port = pass.port]
    <2>1. /\ \/ ais' = [ais EXCEPT ![k] = set] /\ nfound' = nfound + 1
             \/ UNCHANGED <<ais, nfound>>
          /\ at' = at + 1 /\ UNCHANGED <<gphase, rc, blocks, failed>>
      BY <1>3, <1>5, Zenon DEF ga_port
    <2>2. set \in Entry /\ set.hasAddr = ai.hasAddr
      BY DEF Entry, Pass
    <2> HIDE DEF set
    <2>3. /\ ais' \in Seq(Entry) /\ ais' # <<>> /\ Len(ais') = Len(ais)
          /\ Addresses(ais') = Addresses(ais) /\ nfound' \in Nat
      <3>1. CASE ais' = [ais EXCEPT ![k] = set] /\ nfound' = nfound + 1
        <4>1. set.hasAddr = ais[k].hasAddr
          BY <1>3, <2>2
        <4>2. /\ [ais EXCEPT ![k] = set] \in Seq(Entry) /\ [ais EXCEPT ![k] = set] # <<>>
              /\ Len([ais EXCEPT ![k] = set]) = Len(ais)
              /\ Addresses([ais EXCEPT ![k] = set]) = Addresses(ais)
          BY <1>2, <2>2, <4>1, Changed
        <4>3. nfound' \in Nat
          BY <1>2, <3>1
        <4> QED
          BY <3>1, <4>2, <4>3, Zenon
      <3>2. CASE UNCHANGED <<ais, nfound>>
        BY <1>2, <3>2
      <3> QED
        BY <2>1, <3>1, <3>2
    <2>4. PICK n \in 0 .. 2 : n = 0
      OBVIOUS
    <2>5. /\ Len(ais') + Addresses(ais') = Len(ais) + Addresses(ais) + n
          /\ blocks' = blocks + n /\ at' \in 1 .. Len(ais') + 1
      BY <1>1, <1>2, <2>1, <2>3, <2>4
    <2> QED
      BY <1>1, <2>1, <2>3, <2>5, PortStep
  <1> QED
    BY <1>4, <1>5

-----------------------------------------------------------------------------
(* ga_unix makes a structure for each type of socket.                      *)
LEMMA UnixCreateInv == GaInv /\ unix_create => GaInv'
  <1> SUFFICES ASSUME GaInv, unix_create PROVE GaInv'
    OBVIOUS
  <1>1. /\ gphase = "unix" /\ passes # <<>>
        /\ UNCHANGED <<req, search, todo, canon, at, nfound, useInet6, missed>>
    BY DEF unix_create
  <1>2. PICK n \in 0 .. 2 :
            /\ ga_aistruct(Local, ServTable[req.serv].path, Head(passes), n)
            /\ \/ rc' = "EAI_SERVICE" /\ gphase' = "returned" /\ UNCHANGED <<passes, failed>>
               \/ rc' = "EAI_MEMORY" /\ gphase' = "returned" /\ failed' = TRUE /\ UNCHANGED passes
               \/ n = 2 /\ passes' = Tail(passes) /\ UNCHANGED <<gphase, rc, failed>>
    BY DEF unix_create, UnixFails
  <1>3. GaTyped /\ GaPhases /\ canon = "none" /\ Len(ais) \in Nat /\ IsUnix(req)
    BY <1>1, BlocksCounted DEF GaInv, GaPhases
  <1>4. /\ ServTable[req.serv].path \in Nat /\ Head(passes) \in SocketTypes
        /\ Tail(passes) \in Seq(SocketTypes)
    <2>1. req.serv \in DOMAIN ServTable
      BY <1>3, RequestTyped DEF GaTyped, GaTypeOK
    <2>2. passes \in Seq(SocketTypes)
      BY <1>1, <1>3 DEF GaTyped
    <2> QED
      BY <1>1, <2>1, <2>2, TablesAssumption, HeadTailProperties
  <1>5. /\ GaBlocks' /\ ais' \in Seq(Entry) /\ blocks' \in Nat /\ Len(ais') >= Len(ais)
        /\ (n > 0 => ais' # <<>>)
    <2>1. Local \in {Inet, Inet6, Local}
      OBVIOUS
    <2> QED
      BY <1>1, <1>2, <1>3, <1>4, <2>1, StructMade
  <1>6. GaTyped'
    <2>1. at' \in 1 .. Len(ais') + 1
      <3>1. Len(ais') \in Nat
        BY <1>5, LenProperties
      <3> QED
        BY <1>1, <1>3, <1>5, <3>1 DEF GaTyped, GaTypeOK
    <2>2. rc' \in Errors \union {"0"} /\ failed' \in BOOLEAN
      BY <1>2, <1>3 DEF GaTyped, GaTypeOK, Errors
    <2>3. gphase' \in {"unix", "returned"} /\ (gphase' = "unix" => passes' \in Seq(SocketTypes))
      BY <1>1, <1>2, <1>4
    <2> QED
      BY <1>1, <1>3, <1>5, <2>1, <2>2, <2>3 DEF GaTyped, GaTypeOK
  <1>7. IsUnix(req)' = IsUnix(req)
    BY <1>1, Zenon DEF IsUnix
  <1>8. GaPhases'
    BY <1>1, <1>2, <1>3, <1>5, <1>7 DEF GaPhases
  <1> QED
    BY <1>5, <1>6, <1>8 DEF GaInv

(* The name of this host.                                                  *)
LEMMA UnixCanonInv == GaInv /\ unix_canonname => GaInv'
  <1> SUFFICES ASSUME GaInv, unix_canonname PROVE GaInv'
    OBVIOUS
  <1>1. /\ gphase = "unix" /\ passes = <<>> /\ gphase' = "returned"
        /\ UNCHANGED <<req, useInet6, search, todo, ais, passes, at, nfound, missed>>
        /\ \/ canon' = "attached" /\ blocks' = blocks + 1 /\ UNCHANGED <<rc, failed>>
           \/ UNCHANGED <<canon, blocks, rc, failed>>
           \/ rc' \in {"EAI_SYSTEM", "EAI_MEMORY"} /\ failed' = TRUE /\ UNCHANGED <<canon, blocks>>
    BY DEF unix_canonname, UnixFails
  <1>2. /\ GaTyped /\ GaBlocks /\ GaPhases /\ canon = "none" /\ ais # <<>> /\ IsUnix(req)
        /\ Len(ais) \in Nat /\ Addresses(ais) \in Nat
    BY <1>1, BlocksCounted DEF GaInv, GaPhases
  <1>3. GaTyped'
    <2>1. rc' \in Errors \union {"0"} /\ failed' \in BOOLEAN
      BY <1>1, <1>2 DEF GaTyped, GaTypeOK, Errors
    <2>2. canon' \in {"none", "held", "attached"} /\ blocks' \in Nat
      BY <1>1, <1>2 DEF GaTyped, GaTypeOK
    <2> QED
      BY <1>1, <1>2, <2>1, <2>2 DEF GaTyped, GaTypeOK
  <1>4. GaBlocks'
    <2>1. Len(ais') = Len(ais) /\ Addresses(ais)' = Addresses(ais) /\ ais' = ais
      BY <1>1, Zenon DEF Addresses, WithAddr
    <2>2. CASE UNCHANGED <<canon, blocks>>
      BY <1>1, <1>2, <2>2, SameBlocks
    <2>3. CASE canon' = "attached" /\ blocks' = blocks + 1
      <3>1. blocks = Len(ais) + Addresses(ais)
        BY <1>2 DEF GaBlocks
      <3> QED
        BY <1>2, <2>1, <2>3, <3>1 DEF GaBlocks
    <2> QED
      BY <1>1, <2>2, <2>3
  <1>5. IsUnix(req)' = IsUnix(req)
    BY <1>1, Zenon DEF IsUnix
  <1>6. GaPhases'
    BY <1>1, <1>2, <1>5 DEF GaPhases
  <1> QED
    BY <1>3, <1>4, <1>6 DEF GaInv

(* The list is freed, by getaddrinfo itself or by its caller.              *)
LEMMA FreedInv ==
    ASSUME GaInv, blocks' = blocks - BlocksOf(ais), ais' = <<>>, at' = 1,
           \/ gphase = "bad" /\ gphase' = "returned"
           \/ gphase = "returned" /\ rc = "0" /\ gphase' = "freed",
           UNCHANGED <<req, rc, useInet6, search, todo, canon, passes, nfound, missed, failed>>
    PROVE  GaInv' /\ blocks' = IF canon = "held" THEN 1 ELSE 0
  <1>1. /\ GaTyped /\ GaBlocks /\ GaPhases /\ Len(ais) \in Nat /\ Addresses(ais) \in Nat
        /\ BlocksOf(ais) = Len(ais) + Addresses(ais) + IF canon = "attached" /\ ais # <<>> THEN 1 ELSE 0
    BY BlocksCounted DEF GaInv
  <1>2. blocks' = IF canon = "held" THEN 1 ELSE 0
    BY <1>1 DEF GaBlocks
  <1>3. GaTyped'
    <2>1. blocks' \in Nat /\ gphase' \in {"returned", "freed"}
      BY <1>2
    <2>2. at' \in 1 .. Len(ais') + 1 /\ ais' \in Seq(Entry)
      BY NoList
    <2> QED
      BY <1>1, <2>1, <2>2 DEF GaTyped, GaTypeOK
  <1>4. GaBlocks'
    <2>1. Len(ais') = 0 /\ Addresses(ais)' = 0
      <3>1. Addresses(ais)' = Addresses(ais')
        BY Zenon DEF Addresses, WithAddr
      <3> QED
        BY <3>1, NoList
    <2>2. canon' = canon
      OBVIOUS
    <2> QED
      BY <1>2, <2>1, <2>2 DEF GaBlocks
  <1>5. IsUnix(req)' = IsUnix(req)
    BY Zenon DEF IsUnix
  <1>6. GaPhases'
    BY <1>1, <1>5 DEF GaPhases
  <1> QED
    BY <1>2, <1>3, <1>4, <1>6 DEF GaInv

(* An error frees the list as freeaddrinfo does.                           *)
LEMMA BadInv == GaInv /\ bad_freeaddrinfo => GaInv'
  BY FreedInv DEF bad_freeaddrinfo

(* Another call.                                                           *)
LEMMA NextCallInv == GaInv /\ next_call => GaInv'
  <1> SUFFICES ASSUME GaInv, next_call PROVE GaInv'
    OBVIOUS
  <1>1. /\ req' = NoRequest /\ gphase' = "idle"
        /\ search' = <<>> /\ todo' = <<>> /\ ais' = <<>> /\ canon' = "none"
        /\ passes' = <<>> /\ at' = 1 /\ nfound' = 0 /\ rc' = "0" /\ blocks' = 0
        /\ missed' = {} /\ failed' = FALSE /\ useInet6' = useInet6
    BY DEF next_call
  <1>2. useInet6 \in BOOLEAN
    BY DEF GaInv, GaTyped, GaTypeOK
  <1>3. GaTyped'
    <2>1. <<>> \in Seq(Sought) /\ <<>> \in Seq(Address)
      OBVIOUS
    <2>2. 1 \in 1 .. Len(ais') + 1
      BY <1>1, NoList
    <2>3. {} \subseteq {Inet, Inet6} /\ "0" \in Errors \union {"0"} /\ FALSE \in BOOLEAN
      OBVIOUS
    <2>4. GaTypeOK'
      BY <1>1, <1>2, <2>2, <2>3, NoList DEF GaTypeOK
    <2> QED
      BY <1>1, <2>1, <2>4 DEF GaTyped
  <1>4. GaBlocks'
    <2>1. Len(ais') = 0 /\ Addresses(ais)' = 0
      <3>1. Addresses(ais)' = Addresses(ais')
        BY Zenon DEF Addresses, WithAddr
      <3> QED
        BY <1>1, <3>1, NoList
    <2> QED
      BY <1>1, <2>1 DEF GaBlocks
  <1>5. GaPhases'
    BY <1>1 DEF GaPhases
  <1> QED
    BY <1>3, <1>4, <1>5 DEF GaInv

(* Every step of getaddrinfo keeps GaInv.                                  *)
LEMMA GaStepInv == GaInv /\ GaStep => GaInv'
  BY GaCallInv, SearchNumericInv, SearchNameInv, SearchFailsInv, CreateInv, OnwardInv,
     CanonnameInv, PortInv, UnixCreateInv, UnixCanonInv, BadInv, Zenon
     DEF GaStep

(* So does a step of somebody else.                                        *)
LEMMA GaSameInv == GaInv /\ UNCHANGED gaVars => GaInv'
  <1> SUFFICES ASSUME GaInv, UNCHANGED gaVars PROVE GaInv'
    OBVIOUS
  <1>1. UNCHANGED <<req, gphase, search, todo, ais, canon, passes, at, nfound, rc, blocks,
                    useInet6, missed, failed>>
    BY DEF gaVars, work
  <1>2. GaTyped /\ GaBlocks /\ GaPhases
    BY DEF GaInv
  <1>3. GaTyped'
    BY <1>1, <1>2, ZenonT(40) DEF GaTyped, GaTypeOK
  <1>4. GaBlocks'
    BY <1>1, <1>2, SameBlocks
  <1>5. IsUnix(req)' = IsUnix(req)
    BY <1>1, Zenon DEF IsUnix
  <1>6. GaPhases'
    BY <1>1, <1>2, <1>5 DEF GaPhases
  <1> QED
    BY <1>3, <1>4, <1>6 DEF GaInv

-----------------------------------------------------------------------------
(* Every step of the functions of lib/.                                    *)

(* getaddrinfo takes no step while its caller goes through the list.       *)
LEMMA GaStepBusy == GaStep => gphase \notin {"returned", "freed"}
  BY DEF GaStep, ga_call, search_numeric, search_name, search_fails, create, created, searched,
         canonname, ga_port, ga_port_end, served, unix_create, unix_canonname, bad_freeaddrinfo

(* Both invariants hold before the first call.                             *)
LEMMA ConnInitInv == ConnInit => GaInv /\ ConnInv
  BY GaInitInv DEF ConnInit, ConnInv

(* The steps of the loop do not touch the list.                            *)
LEMMA ConnLoopInv ==
    GaInv /\ ConnInv /\ (loop_begin \/ loop_socket \/ loop_use \/ loop_err_sys) => GaInv' /\ ConnInv'
  <1> SUFFICES ASSUME GaInv, ConnInv, loop_begin \/ loop_socket \/ loop_use \/ loop_err_sys
               PROVE  GaInv' /\ ConnInv'
    OBVIOUS
  <1>1. UNCHANGED gaVars
    BY DEF loop_begin, loop_socket, loop_use, loop_err_sys
  <1>2. GaInv' /\ UNCHANGED <<gphase, rc, ais>>
    BY <1>1, GaSameInv DEF gaVars, work
  <1>3. Len(ais) \in Nat /\ (gphase = "returned" /\ rc = "0" => Len(ais) # 0)
    <2>1. ais \in Seq(Entry) /\ (gphase = "returned" /\ rc = "0" => ais # <<>>)
      BY DEF GaInv, GaTyped, GaTypeOK, GaPhases
    <2> QED
      BY <2>1, EmptySeq, LenProperties
  <1>4. CASE loop_begin
    <2>1. /\ gphase = "returned" /\ cpc = "none" /\ UNCHANGED <<res, fds, tried>>
          /\ cpc' = IF rc = "0" THEN "socket" ELSE "ended"
      BY <1>4 DEF loop_begin
    <2>2. res = 1 /\ fds = {} /\ tried = {} /\ 1 .. 1 - 1 = {}
      BY <2>1 DEF ConnInv
    <2>3. rc = "0" => 1 \in 1 .. Len(ais)
      BY <1>3, <2>1
    <2> QED
      BY <1>2, <2>1, <2>2, <2>3 DEF ConnInv
  <1>5. CASE loop_socket \/ loop_use
    <2>1. /\ cpc \in {"socket", "use"} /\ gphase = "returned" /\ rc = "0" /\ res \in 1 .. Len(ais)
          /\ tried = 1 .. res - 1 /\ fds = IF cpc = "socket" THEN {} ELSE {res}
      BY <1>5 DEF loop_socket, loop_use, ConnInv
    <2>2. \/ TryNext /\ fds' = {}
          \/ cpc' \in {"use", "finish"} /\ UNCHANGED <<res, tried>> /\ fds' = {res}
      BY <1>5, <2>1 DEF loop_socket, loop_use
    <2>3. CASE TryNext /\ fds' = {}
      <3>1. /\ tried' = tried \union {res} /\ res' = res + 1
            /\ cpc' = IF res = Len(ais) THEN "ended" ELSE "socket"
        BY <2>3 DEF TryNext
      <3>2. res' \in Nat /\ res' >= 1 /\ tried' = 1 .. res' - 1
        BY <2>1, <3>1
      <3>3. cpc' = "socket" => res' \in 1 .. Len(ais)
        BY <1>3, <2>1, <3>1
      <3> QED
        BY <1>2, <2>1, <2>3, <3>1, <3>2, <3>3 DEF ConnInv
    <2>4. CASE cpc' \in {"use", "finish"} /\ UNCHANGED <<res, tried>> /\ fds' = {res}
      BY <1>2, <2>1, <2>4 DEF ConnInv
    <2> QED
      BY <2>2, <2>3, <2>4
  <1>6. CASE loop_err_sys
    <2>1. cpc' = "ended"
      BY <1>6 DEF loop_err_sys
    <2> QED
      BY <1>2, <2>1 DEF ConnInv
  <1> QED
    BY <1>4, <1>5, <1>6

(* The loop ends with the list freed.                                      *)
LEMMA ConnFinishInv == GaInv /\ ConnInv /\ loop_finish => GaInv' /\ ConnInv'
  <1> SUFFICES ASSUME GaInv, ConnInv, loop_finish PROVE GaInv' /\ ConnInv'
    OBVIOUS
  <1>1. /\ cpc = "finish" /\ cpc' = "returned" /\ gphase' = "freed"
        /\ blocks' = blocks - BlocksOf(ais) /\ ais' = <<>> /\ at' = 1
        /\ UNCHANGED <<req, rc, useInet6, search, todo, canon, passes, nfound,
                       missed, failed, fn, res, fds, tried>>
    BY DEF loop_finish
  <1>2. gphase = "returned" /\ rc = "0"
    BY <1>1 DEF ConnInv
  <1>3. GaInv'
    BY <1>1, <1>2, FreedInv
  <1>4. ConnInv'
    BY <1>1 DEF ConnInv
  <1> QED
    BY <1>3, <1>4

(* Both invariants hold in every reachable state.                          *)
LEMMA ConnInvariant == ConnSpec => [](GaInv /\ ConnInv)
  <1>1. GaInv /\ ConnInv /\ [ConnNext]_<<gaVars, connVars>> => GaInv' /\ ConnInv'
    <2> SUFFICES ASSUME GaInv, ConnInv, [ConnNext]_<<gaVars, connVars>> PROVE GaInv' /\ ConnInv'
      OBVIOUS
    <2>1. CASE GaStep /\ UNCHANGED connVars
      <3>1. gphase \notin {"returned", "freed"} /\ GaInv' /\ UNCHANGED <<cpc, res, fds, tried>>
        BY <2>1, GaStepBusy, GaStepInv DEF connVars
      <3>2. cpc \in {"none", "ended"}
        BY <3>1 DEF ConnInv
      <3> QED
        BY <3>1, <3>2 DEF ConnInv
    <2>2. CASE loop_begin \/ loop_socket \/ loop_use \/ loop_err_sys
      BY <2>2, ConnLoopInv
    <2>3. CASE loop_finish
      BY <2>3, ConnFinishInv
    <2>4. CASE conn_next
      BY <2>4, NextCallInv DEF conn_next, ConnInv
    <2>5. CASE UNCHANGED <<gaVars, connVars>>
      <3>1. UNCHANGED gaVars /\ UNCHANGED <<gphase, rc, ais, cpc, res, fds, tried>>
        BY <2>5 DEF gaVars, work, connVars
      <3> QED
        BY <3>1, GaSameInv, Zenon DEF ConnInv
    <2> QED
      BY <2>1, <2>2, <2>3, <2>4, <2>5 DEF ConnNext
  <1> QED
    BY <1>1, ConnInitInv, PTL DEF ConnSpec

(* MemoryAccounted of getaddrinfo under the functions of lib/: what is     *)
(* allocated when a call returns is the list, and after an error nothing,  *)
(* but for the two losses the property names.                              *)
THEOREM NoMoreLost == ConnSpec => []MemoryAccounted
  <1>1. GaInv => MemoryAccounted
    <2> SUFFICES ASSUME GaInv, gphase = "returned"
                 PROVE  blocks = CASE rc = "0" \/ IsUnix(req) -> BlocksOf(ais)
                                   [] rc # "0" /\ ~IsUnix(req) -> IF canon = "held" THEN 1 ELSE 0
      BY DEF MemoryAccounted
    <2>1. /\ GaBlocks /\ GaPhases /\ Len(ais) \in Nat /\ Addresses(ais) \in Nat
          /\ BlocksOf(ais) = Len(ais) + Addresses(ais)
                               + IF canon = "attached" /\ ais # <<>> THEN 1 ELSE 0
      BY BlocksCounted DEF GaInv
    <2>2. CASE rc = "0" \/ IsUnix(req)
      <3>1. canon # "held"
        BY <2>1, <2>2 DEF GaPhases
      <3>2. blocks = BlocksOf(ais)
        BY <2>1, <3>1 DEF GaBlocks
      <3> QED
        BY <2>2, <3>2
    <2>3. CASE rc # "0" /\ ~IsUnix(req)
      <3>1. ais = <<>>
        BY <2>1, <2>3 DEF GaPhases
      <3>2. blocks = IF canon = "held" THEN 1 ELSE 0
        <4>1. Len(ais) = 0 /\ Addresses(ais) = 0
          BY <3>1, NoList, Zenon
        <4>2. GaBlocks
          BY <2>1
        <4>3. blocks = 0 + 0 + IF canon = "held" THEN 1 ELSE 0
          BY <3>1, <4>1, <4>2, Zenon DEF GaBlocks
        <4> QED
          BY <4>3
      <3> QED
        BY <2>3, <3>2
    <2> QED
      BY <2>2, <2>3
  <1> QED
    BY <1>1, ConnInvariant, PTL

(* FirstUsableOnly of tcp_connect, tcp_listen, udp_connect, udp_client and *)
(* udp_server: they return the socket of the first usable address, with no *)
(* other descriptor open and the list freed.                               *)
THEOREM FirstUsable == ConnSpec => []FirstUsableOnly
  <1>1. GaInv /\ ConnInv => FirstUsableOnly
    <2> SUFFICES ASSUME GaInv, ConnInv, cpc = "returned"
                 PROVE  fds = {res} /\ tried = 1 .. res - 1 /\ blocks = 0
      BY DEF FirstUsableOnly
    <2>1. fds = {res} /\ tried = 1 .. res - 1 /\ gphase = "freed"
      BY DEF ConnInv
    <2>2. ais = <<>> /\ canon # "held" /\ GaBlocks
      BY <2>1 DEF GaInv, GaPhases
    <2>3. blocks = 0
      BY <2>2, NoList DEF GaBlocks
    <2> QED
      BY <2>1, <2>3
  <1> QED
    BY <1>1, ConnInvariant, PTL

-----------------------------------------------------------------------------
(***************************************************************************)
(* The way back from addresses to names.  An IPv6 entry of the list is one *)
(* of somebody's own addresses, or a mapped address of a host that has no  *)
(* others; an entry of a Unix path answers a request for one.              *)
(***************************************************************************)

MappedOf(a) ==
    \E h \in DOMAIN HostTable :
        /\ HostTable[h].numeric = "no" /\ HostTable[h].v6 = <<>>
        /\ a \in Range(Mapped(HostTable[h].v4))

Own(a) == a \in OwnAddresses

Origin(f, a) == f = Inet6 => Own(a) \/ MappedOf(a)

Named(e, r) == Origin(e.family, e.addr) /\ (e.family = Local => IsUnix(r))

TodoNamed == \A k \in DOMAIN todo : Origin(todo[k].family, todo[k].addr)
AisNamed == \A k \in DOMAIN ais : Named(ais[k], req)

GaNamed == TodoNamed /\ AisNamed

(* Where the addresses that the resolver returns for a host come from.     *)
LEMMA FoundNamed ==
    ASSUME NEW h \in DOMAIN HostTable
    PROVE  /\ \A k \in DOMAIN (HostTable[h].v4 \o HostTable[h].v6) :
                 Own((HostTable[h].v4 \o HostTable[h].v6)[k])
           /\ \A k \in DOMAIN gethostbyname2(h, Inet6) : Own(gethostbyname2(h, Inet6)[k])
           /\ HostTable[h].numeric = "no" =>
                 \A k \in DOMAIN gethostbyname(h, TRUE) :
                     Own(gethostbyname(h, TRUE)[k]) \/ MappedOf(gethostbyname(h, TRUE)[k])
  <1> DEFINE x == HostTable[h].v4
             y == HostTable[h].v6
  <1>1. x \in Seq(Nat) /\ y \in Seq(Nat)
    BY TablesAssumption
  <1>2. (\A k \in DOMAIN x : Own(x[k])) /\ (\A k \in DOMAIN y : Own(y[k]))
    <2>1. Range(x) \union Range(y) \subseteq OwnAddresses
      BY NamesAssumption, Zenon
    <2> HIDE DEF x, y
    <2> QED
      BY <2>1, Zenon DEF Range, Own
  <1> HIDE DEF x, y
  <1>3. \A k \in DOMAIN (x \o y) : Own((x \o y)[k])
    <2> SUFFICES ASSUME NEW k \in DOMAIN (x \o y) PROVE Own((x \o y)[k])
      OBVIOUS
    <2>1. PICK m \in Nat, n \in Nat : m = Len(x) /\ n = Len(y) /\ DOMAIN x = 1 .. m /\ DOMAIN y = 1 .. n
      BY <1>1, LenProperties
    <2>2. /\ x \o y \in Seq(Nat) /\ Len(x \o y) = m + n
          /\ \A i \in 1 .. m + n : (x \o y)[i] = IF i <= m THEN x[i] ELSE y[i - m]
      BY <1>1, <2>1, ConcatProperties
    <2>3. k \in 1 .. m + n
      BY <2>2, LenProperties
    <2>4. (k <= m => k \in 1 .. m) /\ (~(k <= m) => k - m \in 1 .. n)
      BY <2>3
    <2> QED
      BY <1>2, <2>1, <2>2, <2>3, <2>4, Zenon
  <1>4. gethostbyname2(h, Inet6) = y
    BY DEF gethostbyname2, y
  <1>5. ASSUME HostTable[h].numeric = "no", NEW k \in DOMAIN gethostbyname(h, TRUE)
        PROVE  Own(gethostbyname(h, TRUE)[k]) \/ MappedOf(gethostbyname(h, TRUE)[k])
    <2>1. CASE y # <<>>
      <3>1. gethostbyname(h, TRUE) = y
        BY <2>1 DEF gethostbyname, y
      <3> QED
        BY <1>2, <1>5, <3>1, Zenon
    <2>2. CASE y = <<>>
      <3>1. gethostbyname(h, TRUE) = Mapped(HostTable[h].v4)
        BY <2>2 DEF gethostbyname, y
      <3> QED
        BY <1>5, <2>2, <3>1, Zenon DEF MappedOf, Range, y
    <2> QED
      BY <2>1, <2>2
  <1> QED
    BY <1>2, <1>3, <1>4, <1>5, Zenon DEF x, y

(* Structures to make for addresses that are named.                        *)
LEMMA TodoOfFound ==
    ASSUME NEW z, NEW f, \A k \in DOMAIN z : Origin(f, z[k]),
           todo' = [k \in DOMAIN z |-> [family |-> f, addr |-> z[k]]]
    PROVE  TodoNamed'
  <1> SUFFICES ASSUME NEW k \in DOMAIN todo' PROVE Origin(todo'[k].family, todo'[k].addr)
    BY DEF TodoNamed
  <1>1. k \in DOMAIN z /\ todo'[k] = [family |-> f, addr |-> z[k]]
    BY Zenon
  <1>2. todo'[k].family = f /\ todo'[k].addr = z[k]
    BY <1>1
  <1> QED
    BY <1>1, <1>2, Zenon

LEMMA NumericNamed == GaInv /\ GaNamed /\ search_numeric => GaNamed'
  <1> SUFFICES ASSUME GaInv, GaNamed, search_numeric PROVE GaNamed'
    OBVIOUS
  <1> DEFINE s == Head(search)
             t == HostTable[s.host]
  <1>1. /\ search # <<>> /\ UNCHANGED <<req, ais>>
        /\ \/ UNCHANGED todo
           \/ todo' = [k \in DOMAIN (t.v4 \o t.v6) |->
                          [family |-> s.family, addr |-> (t.v4 \o t.v6)[k]]]
    BY DEF search_numeric, Bad
  <1>2. s.host \in DOMAIN HostTable
    BY <1>1, HeadSought DEF GaInv
  <1> HIDE DEF s
  <1>3. \A k \in DOMAIN (t.v4 \o t.v6) : Origin(s.family, (t.v4 \o t.v6)[k])
    BY <1>2, FoundNamed, Zenon DEF Origin
  <1> HIDE DEF t
  <1>4. TodoNamed'
    <2>1. CASE UNCHANGED todo
      BY <2>1, Zenon DEF GaNamed, TodoNamed
    <2>2. CASE ~UNCHANGED todo
      <3>1. todo' = [k \in DOMAIN (t.v4 \o t.v6) |->
                          [family |-> s.family, addr |-> (t.v4 \o t.v6)[k]]]
        BY <1>1, <2>2
      <3> QED
        BY <1>3, <3>1, TodoOfFound
    <2> QED
      BY <2>1, <2>2
  <1>5. AisNamed'
    BY <1>1, Zenon DEF GaNamed, AisNamed
  <1> QED
    BY <1>4, <1>5 DEF GaNamed

LEMMA NameNamed == GaInv /\ GaNamed /\ search_name => GaNamed'
  <1> SUFFICES ASSUME GaInv, GaNamed, search_name PROVE GaNamed'
    OBVIOUS
  <1> DEFINE s == Head(search)
             found == IF Len(Families(req)) = 2 THEN gethostbyname2(s.host, s.family)
                      ELSE gethostbyname(s.host, useInet6')
             addrtype == IF Len(Families(req)) = 2 THEN s.family
                         ELSE IF useInet6' THEN Inet6 ELSE Inet
  <1>1. /\ search # <<>> /\ UNCHANGED <<req, ais>> /\ useInet6' = Option(s)
        /\ HostTable[s.host].numeric = "no"
        /\ \/ UNCHANGED todo
           \/ todo' = [k \in DOMAIN found |-> [family |-> addrtype, addr |-> found[k]]]
    BY DEF search_name, Bad
  <1>2. s.host \in DOMAIN HostTable /\ useInet6' \in BOOLEAN
    BY <1>1, HeadSought DEF GaInv, Option
  <1> HIDE DEF s
  <1>3. \A k \in DOMAIN found : Origin(addrtype, found[k])
    <2> SUFFICES ASSUME NEW k \in DOMAIN found, addrtype = Inet6
                 PROVE  Own(found[k]) \/ MappedOf(found[k])
      BY Zenon DEF Origin
    <2>1. CASE Len(Families(req)) = 2
      <3>1. found = gethostbyname2(s.host, Inet6)
        BY <2>1
      <3> HIDE DEF found
      <3> QED
        BY <1>2, <3>1, FoundNamed, Zenon
    <2>2. CASE Len(Families(req)) # 2
      <3>1. useInet6' = TRUE
        BY <1>2, <2>2 DEF Inet, Inet6
      <3>2. found = gethostbyname(s.host, TRUE)
        BY <2>2, <3>1
      <3> HIDE DEF found
      <3> QED
        BY <1>1, <1>2, <3>2, FoundNamed, Zenon
    <2> QED
      BY <2>1, <2>2
  <1> HIDE DEF found, addrtype
  <1>4. TodoNamed'
    <2>1. CASE UNCHANGED todo
      BY <2>1, Zenon DEF GaNamed, TodoNamed
    <2>2. CASE ~UNCHANGED todo
      <3>1. todo' = [k \in DOMAIN found |-> [family |-> addrtype, addr |-> found[k]]]
        BY <1>1, <2>2
      <3> QED
        BY <1>3, <3>1, TodoOfFound
    <2> QED
      BY <2>1, <2>2
  <1>5. AisNamed'
    BY <1>1, Zenon DEF GaNamed, AisNamed
  <1> QED
    BY <1>4, <1>5 DEF GaNamed

(* A list each of whose entries is named, or was in it before.             *)
LEMMA ListNamed ==
    ASSUME AisNamed, UNCHANGED req,
           \A k \in DOMAIN ais' :
               \/ Named(ais'[k], req)
               \/ \E j \in DOMAIN ais : /\ ais'[k].family = ais[j].family
                                        /\ ais'[k].addr = ais[j].addr
    PROVE  AisNamed'
  BY Zenon DEF AisNamed, Named

(* ga_aistruct for an address that is named.                               *)
LEMMA StructNamed ==
    ASSUME GaInv, AisNamed, UNCHANGED req, NEW f \in {Inet, Inet6, Local}, NEW a \in Nat,
           NEW t \in SocketTypes, NEW n \in 0 .. 2, ga_aistruct(f, a, t, n),
           Origin(f, a), f = Local => IsUnix(req)
    PROVE  AisNamed'
  <1>1. ais \in Seq(Entry)
    BY DEF GaInv, GaTyped, GaTypeOK
  <1>2. CASE n = 0
    <2>1. ais' = ais
      BY <1>2 DEF ga_aistruct
    <2> QED
      BY <2>1, Zenon DEF AisNamed
  <1>3. CASE n # 0
    <2>1. PICK e : e = [family |-> f, addr |-> a, socktype |-> t, port |-> 0,
                        clone |-> t = SockAny, hasAddr |-> n = 2]
      OBVIOUS
    <2>2. e \in Entry /\ e.family = f /\ e.addr = a
      BY <2>1 DEF Entry
    <2>3. ais' = Append(ais, e)
      BY <1>3, <2>1 DEF ga_aistruct
    <2>4. /\ ais' \in Seq(Entry) /\ Len(ais') = Len(ais) + 1
          /\ \A i \in 1 .. Len(ais) + 1 :
                ais'[i] = e \/ \E j \in 1 .. Len(ais) : ais'[i] = ais[j]
      BY <1>1, <2>2, <2>3, Appended
    <2>5. DOMAIN ais' = 1 .. Len(ais) + 1 /\ DOMAIN ais = 1 .. Len(ais)
      BY <1>1, <2>4, LenProperties
    <2>6. Named(e, req)
      BY <2>2, Zenon DEF Named
    <2> QED
      BY <2>4, <2>5, <2>6, ListNamed, Zenon
  <1> QED
    BY <1>2, <1>3

LEMMA CreateNamed == GaInv /\ GaNamed /\ create => GaNamed'
  <1> SUFFICES ASSUME GaInv, GaNamed, create PROVE GaNamed'
    OBVIOUS
  <1>1. /\ todo # <<>> /\ UNCHANGED req
        /\ todo' = todo \/ todo' = Tail(todo)
        /\ \E n \in 0 .. 2 : ga_aistruct(Head(todo).family, Head(todo).addr, req.socktype, n)
    BY DEF create
  <1>2. todo \in Seq(Address) /\ req.socktype \in SocketTypes
    BY RequestTyped DEF GaInv, GaTyped, GaTypeOK
  <1>3. PICK n \in Nat : n = Len(todo) /\ DOMAIN todo = 1 .. n
    BY <1>2, LenProperties
  <1>4. 1 \in DOMAIN todo /\ Head(todo) = todo[1] /\ Head(todo) \in Address
    <2>1. n # 0
      BY <1>1, <1>2, <1>3, EmptySeq
    <2> QED
      BY <1>1, <1>2, <1>3, <2>1, HeadTailProperties
  <1>5. TodoNamed'
    <2>1. CASE todo' = Tail(todo)
      <3>1. /\ Tail(todo) \in Seq(Address) /\ Len(Tail(todo)) = n - 1
            /\ \A i \in 1 .. n - 1 : Tail(todo)[i] = todo[i + 1]
        BY <1>1, <1>2, <1>3, HeadTailProperties
      <3>2. DOMAIN Tail(todo) = 1 .. n - 1
        BY <3>1, LenProperties
      <3>3. \A i \in 1 .. n - 1 : i + 1 \in 1 .. n
        OBVIOUS
      <3> QED
        BY <1>3, <2>1, <3>1, <3>2, <3>3, Zenon DEF GaNamed, TodoNamed
    <2>2. CASE todo' = todo
      BY <2>2, Zenon DEF GaNamed, TodoNamed
    <2> QED
      BY <1>1, <2>1, <2>2
  <1>6. Origin(Head(todo).family, Head(todo).addr)
    BY <1>4, Zenon DEF GaNamed, TodoNamed
  <1>7. /\ Head(todo).family \in {Inet, Inet6, Local} /\ Head(todo).family # Local
        /\ Head(todo).addr \in Nat
    BY <1>4 DEF Address, Inet, Inet6, Local
  <1>8. AisNamed'
    BY <1>1, <1>2, <1>6, <1>7, StructNamed DEF GaNamed
  <1> QED
    BY <1>5, <1>8 DEF GaNamed

LEMMA PortNamed == GaInv /\ GaNamed /\ ga_port => GaNamed'
  <1> SUFFICES ASSUME GaInv, GaNamed, ga_port PROVE GaNamed'
    OBVIOUS
  <1>1. /\ passes # <<>> /\ at <= Len(ais) /\ gphase = "port" /\ UNCHANGED <<req, todo>>
    BY DEF ga_port
  <1>2. /\ ais \in Seq(Entry) /\ at \in 1 .. Len(ais) + 1 /\ passes \in Seq(Pass) /\ Len(ais) \in Nat
    BY <1>1, BlocksCounted DEF GaInv, GaTyped, GaTypeOK
  <1>3. PICK ai \in Entry, pass \in Pass, k \in 1 .. Len(ais) :
            k = at /\ ai = ais[k] /\ pass = Head(passes)
    BY <1>1, <1>2, ElementOfSeq, HeadTailProperties
  <1>4. \/ ais' = ais
        \/ \E e \in Entry :
              /\ e.family = ai.family /\ e.addr = ai.addr
              /\ ais' = ga_clone(ais, k, e) \/ ais' = [ais EXCEPT ![k] = e]
    <2>1. CASE ai.clone /\ ai.socktype # SockAny
      <3>1. PICK n \in 0 .. 2 :
              LET new == [ais[at] EXCEPT !.clone = FALSE, !.hasAddr = n = 2]
              IN  IF n < 2
                  THEN ais' = IF n = 0 THEN ais ELSE ga_clone(ais, at, new)
                  ELSE ais' = ga_clone(ais, at, [new EXCEPT !.socktype = Head(passes).socktype,
                                                            !.port = Head(passes).port])
        BY <1>3, <2>1, Zenon DEF ga_port
      <3> DEFINE new == [ai EXCEPT !.clone = FALSE, !.hasAddr = n = 2]
                 set == [new EXCEPT !.socktype = pass.socktype, !.port = pass.port]
      <3>2. /\ new \in Entry /\ new.family = ai.family /\ new.addr = ai.addr
            /\ set \in Entry /\ set.family = ai.family /\ set.addr = ai.addr
        BY DEF Entry, Pass
      <3>3. /\ [ais[at] EXCEPT !.clone = FALSE, !.hasAddr = n = 2] = new
            /\ [new EXCEPT !.socktype = Head(passes).socktype, !.port = Head(passes).port] = set
        BY <1>3, Zenon
      <3> HIDE DEF new, set
      <3>4. \/ ais' = ais \/ ais' = ga_clone(ais, k, new) \/ ais' = ga_clone(ais, k, set)
        BY <1>3, <3>1, <3>3, Zenon
      <3> QED
        BY <3>2, <3>4, Zenon
    <2>2. CASE ~(ai.clone /\ ai.socktype # SockAny)
      <3> DEFINE set == [ai EXCEPT !.socktype = pass.socktype, !.port = pass.port]
      <3>1. ais' = [ais EXCEPT ![k] = set] \/ ais' = ais
        BY <1>3, <2>2, Zenon DEF ga_port
      <3>2. set \in Entry /\ set.family = ai.family /\ set.addr = ai.addr
        BY DEF Entry, Pass
      <3> HIDE DEF set
      <3> QED
        BY <3>1, <3>2, Zenon
    <2> QED
      BY <2>1, <2>2
  <1>5. AisNamed'
    <2>1. CASE ais' = ais
      BY <1>1, <2>1, Zenon DEF GaNamed, AisNamed
    <2>2. ASSUME NEW e \in Entry, e.family = ai.family, e.addr = ai.addr,
                 ais' = ga_clone(ais, k, e) \/ ais' = [ais EXCEPT ![k] = e]
          PROVE  AisNamed'
      <3>1. /\ ais' \in Seq(Entry) /\ Len(ais') \in {Len(ais), Len(ais) + 1}
            /\ \A i \in 1 .. Len(ais') : ais'[i] = e \/ \E j \in 1 .. Len(ais) : ais'[i] = ais[j]
        <4>1. CASE ais' = ga_clone(ais, k, e)
          <5>1. /\ ais' \in Seq(Entry) /\ Len(ais') = Len(ais) + 1
                /\ \A i \in 1 .. Len(ais) + 1 :
                      ais'[i] = e \/ \E j \in 1 .. Len(ais) : ais'[i] = ais[j]
            BY <1>2, <4>1, Inserted
          <5> QED
            BY <5>1, Zenon
        <4>2. CASE ais' = [ais EXCEPT ![k] = e]
          BY <1>2, <4>2
        <4> QED
          BY <2>2, <4>1, <4>2
      <3>2. DOMAIN ais' = 1 .. Len(ais') /\ DOMAIN ais = 1 .. Len(ais)
        BY <1>2, <3>1, LenProperties
      <3>3. \A i \in DOMAIN ais' : \E j \in DOMAIN ais : /\ ais'[i].family = ais[j].family
                                                        /\ ais'[i].addr = ais[j].addr
        BY <1>3, <2>2, <3>1, <3>2, Zenon
      <3> QED
        BY <1>1, <3>3, ListNamed DEF GaNamed
    <2> QED
      BY <1>4, <2>1, <2>2, Zenon
  <1>6. TodoNamed'
    BY <1>1, Zenon DEF GaNamed, TodoNamed
  <1> QED
    BY <1>5, <1>6 DEF GaNamed

LEMMA UnixNamed == GaInv /\ GaNamed /\ unix_create => GaNamed'
  <1> SUFFICES ASSUME GaInv, GaNamed, unix_create PROVE GaNamed'
    OBVIOUS
  <1>1. /\ gphase = "unix" /\ passes # <<>> /\ UNCHANGED <<req, todo>>
        /\ \E n \in 0 .. 2 : ga_aistruct(Local, ServTable[req.serv].path, Head(passes), n)
    BY DEF unix_create
  <1>2. IsUnix(req) /\ passes \in Seq(SocketTypes) /\ req.serv \in DOMAIN ServTable
    BY <1>1, RequestTyped DEF GaInv, GaPhases, GaTyped, GaTypeOK
  <1>3. ServTable[req.serv].path \in Nat /\ Head(passes) \in SocketTypes
    BY <1>1, <1>2, TablesAssumption, HeadTailProperties
  <1>4. Local \in {Inet, Inet6, Local} /\ Origin(Local, ServTable[req.serv].path)
    BY DEF Origin, Local, Inet6
  <1>5. AisNamed'
    BY <1>1, <1>2, <1>3, <1>4, StructNamed DEF GaNamed
  <1>6. TodoNamed'
    BY <1>1, Zenon DEF GaNamed, TodoNamed
  <1> QED
    BY <1>5, <1>6 DEF GaNamed

(* Steps that leave the list as it is, or empty it.                        *)
LEMMA KeptNamed ==
    ASSUME GaNamed, UNCHANGED <<req, ais>> \/ ais' = <<>>, UNCHANGED todo \/ todo' = <<>>
    PROVE  GaNamed'
  <1>1. DOMAIN <<>> = {}
    OBVIOUS
  <1>2. AisNamed'
    BY <1>1, Zenon DEF GaNamed, AisNamed
  <1>3. TodoNamed'
    BY <1>1, Zenon DEF GaNamed, TodoNamed
  <1> QED
    BY <1>2, <1>3 DEF GaNamed

LEMMA GaStepNamed == GaInv /\ GaNamed /\ GaStep => GaNamed'
  <1> SUFFICES ASSUME GaInv, GaNamed, GaStep PROVE GaNamed'
    OBVIOUS
  <1>1. CASE ga_call
    <2>1. ais = <<>> /\ UNCHANGED <<ais, todo>>
      BY <1>1 DEF ga_call, GaInv, GaPhases
    <2> QED
      BY <2>1, KeptNamed
  <1>2. CASE search_fails \/ created \/ searched \/ canonname \/ ga_port_end \/ served \/ unix_canonname
    <2>1. UNCHANGED <<req, ais, todo>>
      BY <1>2 DEF search_fails, created, searched, canonname, ga_port_end, served, unix_canonname, work
    <2> QED
      BY <2>1, KeptNamed
  <1>3. CASE bad_freeaddrinfo
    BY <1>3, KeptNamed DEF bad_freeaddrinfo
  <1> QED
    BY <1>1, <1>2, <1>3, NumericNamed, NameNamed, CreateNamed, PortNamed, UnixNamed DEF GaStep

LEMMA NamedInvariant == ConnSpec => []GaNamed
  <1>1. ConnInit => GaNamed
    BY DEF ConnInit, GaInit, GaNamed, TodoNamed, AisNamed
  <1>2. GaInv /\ GaNamed /\ [ConnNext]_<<gaVars, connVars>> => GaNamed'
    <2> SUFFICES ASSUME GaInv, GaNamed, [ConnNext]_<<gaVars, connVars>> PROVE GaNamed'
      OBVIOUS
    <2>1. CASE GaStep /\ UNCHANGED connVars
      BY <2>1, GaStepNamed
    <2>2. CASE loop_begin \/ loop_socket \/ loop_use \/ loop_err_sys \/ UNCHANGED <<gaVars, connVars>>
      <3>1. UNCHANGED <<req, ais, todo>>
        BY <2>2 DEF loop_begin, loop_socket, loop_use, loop_err_sys, gaVars, work
      <3> QED
        BY <3>1, KeptNamed
    <2>3. CASE loop_finish
      <3>1. ais' = <<>> /\ UNCHANGED todo
        BY <2>3 DEF loop_finish
      <3> QED
        BY <3>1, KeptNamed
    <2>4. CASE conn_next
      <3>1. ais' = <<>> /\ todo' = <<>>
        BY <2>4 DEF conn_next, next_call
      <3> QED
        BY <3>1, KeptNamed
    <2> QED
      BY <2>1, <2>2, <2>3, <2>4 DEF ConnNext
  <1> QED
    BY <1>1, <1>2, ConnInvariant, PTL DEF ConnSpec

(* What getnameinfo gives for an entry.                                    *)
LEMMA NameOf ==
    ASSUME NEW e, NEW flags, e.family # Local, NEW r \in getnameinfo(e, flags)
    PROVE  \E h, s :
             /\ h \in gethostbyaddr(e.addr, e.family) \/ h = Null
             /\ r.host.name = IF h # Null /\ "NI_NOFQDN" \in flags THEN HostTable[h].label ELSE h
             /\ r.host.number = e.addr /\ r.serv.number = e.port /\ r.serv.name = s
             /\ s \in getservbyport(e.port, Protocol(flags)) \/ s = Null
  <1> DEFINE cut(h) == IF h # Null /\ "NI_NOFQDN" \in flags THEN HostTable[h].label ELSE h
             numeric == "NI_NUMERICHOST" \in flags
             hosts == {h \in IF numeric THEN {Null} ELSE gethostbyaddr(e.addr, e.family) :
                         numeric \/ h # Null \/ "NI_NAMEREQD" \notin flags}
             servs == IF "NI_NUMERICSERV" \in flags THEN {Null}
                      ELSE getservbyport(e.port, Protocol(flags))
  <1>1. r \in {[host |-> Text(cut(h), e.addr), serv |-> Text(s, e.port)] : h \in hosts, s \in servs}
    BY DEF getnameinfo, gn_ipv46
  <1>2. /\ \A h \in hosts : h \in gethostbyaddr(e.addr, e.family) \/ h = Null
        /\ \A s \in servs : s \in getservbyport(e.port, Protocol(flags)) \/ s = Null
    OBVIOUS
  <1> HIDE DEF hosts, servs
  <1>3. PICK h \in hosts, s \in servs : r = [host |-> Text(cut(h), e.addr), serv |-> Text(s, e.port)]
    BY <1>1
  <1> HIDE DEF cut
  <1>4. /\ r.host = Text(cut(h), e.addr) /\ r.serv = Text(s, e.port)
    BY <1>3
  <1>5. /\ r.host.name = cut(h) /\ r.host.number = e.addr
        /\ r.serv.name = s /\ r.serv.number = e.port
    BY <1>4 DEF Text
  <1> QED
    BY <1>2, <1>5, Zenon DEF cut

(* A name the resolver has for an address of the list has that address.    *)
LEMMA HostHasAddress ==
    ASSUME NEW f \in {Inet, Inet6}, NEW a, Origin(f, a), NEW h \in gethostbyaddr(a, f), h # Null
    PROVE  a \in Range(gethostbyname(h, f = Inet6))
  <1>1. /\ h \in DOMAIN HostTable /\ HostTable[h].numeric = "no"
        /\ a \in Range(IF f = Inet6 THEN HostTable[h].v6 \o Mapped(HostTable[h].v4) ELSE HostTable[h].v4)
    BY DEF gethostbyaddr
  <1> DEFINE x == HostTable[h].v4
             y == HostTable[h].v6
             m == Mapped(x)
  <1>2. /\ x \in Seq(Nat) /\ y \in Seq(Nat)
        /\ m \in Seq(Nat) /\ Len(m) = Len(x) /\ \A k \in DOMAIN x : m[k] = 1000 + x[k] /\ x[k] \in Nat
    <2>1. x \in Seq(Nat) /\ y \in Seq(Nat)
      BY <1>1, HostNumbers
    <2>2. PICK n \in Nat : n = Len(x) /\ DOMAIN x = 1 .. n
      BY <2>1, LenProperties
    <2>3. \A k \in 1 .. n : x[k] \in Nat /\ 1000 + x[k] \in Nat
      BY <2>1, <2>2, ElementOfSeq
    <2>4. m = [k \in 1 .. n |-> 1000 + x[k]]
      BY <2>2 DEF Mapped
    <2>5. m \in [1 .. n -> Nat]
      BY <2>3, <2>4
    <2>6. m \in Seq(Nat) /\ Len(m) = n
      BY <2>5, SeqDef, LenProperties
    <2> QED
      BY <2>1, <2>2, <2>3, <2>4, <2>6
  <1>3. CASE f # Inet6
    BY <1>1, <1>3 DEF gethostbyname
  <1>4. CASE f = Inet6
    <2>1. CASE y = <<>>
      <3>1. m \in Seq(Nat) /\ y \o m = m
        BY <1>2, <2>1, ConcatEmptySeq
      <3>2. gethostbyname(h, f = Inet6) = m
        BY <1>4, <2>1 DEF gethostbyname
      <3> QED
        BY <1>1, <1>4, <3>1, <3>2
    <2>2. CASE y # <<>>
      <3>1. gethostbyname(h, f = Inet6) = y
        BY <1>4, <2>2 DEF gethostbyname
      <3>2. a \in Range(y) \/ a \in Range(m)
        <4>1. a \in Range(y \o m)
          BY <1>1, <1>4
        <4> DEFINE z == y \o m
        <4>2. PICK k \in DOMAIN z : a = z[k]
          BY <4>1 DEF Range
        <4>3. PICK i \in Nat, j \in Nat : i = Len(y) /\ j = Len(m) /\ DOMAIN y = 1 .. i /\ DOMAIN m = 1 .. j
          BY <1>2, LenProperties
        <4> HIDE DEF x, y, m
        <4>4. /\ z \in Seq(Nat) /\ Len(z) = i + j
              /\ \A l \in 1 .. i + j : z[l] = IF l <= i THEN y[l] ELSE m[l - i]
          <5>1. y \in Seq(Nat) /\ m \in Seq(Nat)
            BY <1>2
          <5>2. /\ y \o m \in Seq(Nat) /\ Len(y \o m) = Len(y) + Len(m)
                /\ \A l \in 1 .. Len(y) + Len(m) :
                      (y \o m)[l] = IF l <= Len(y) THEN y[l] ELSE m[l - Len(y)]
            BY <5>1, ConcatProperties
          <5> QED
            BY <4>3, <5>2, Zenon
        <4>5. k \in 1 .. i + j
          BY <4>2, <4>4, LenProperties
        <4> HIDE DEF z
        <4>6. (k <= i /\ k \in 1 .. i) \/ (~(k <= i) /\ k - i \in 1 .. j)
          BY <4>5
        <4> QED
          BY <4>2, <4>3, <4>4, <4>5, <4>6, Zenon DEF Range
      <3>3. a \notin Range(m)
        <4> SUFFICES ASSUME NEW k \in DOMAIN m, a = m[k] PROVE FALSE
          BY DEF Range
        <4>1. k \in DOMAIN x /\ x[k] \in Nat /\ a = 1000 + x[k]
          BY <1>2, LenProperties
        <4>2. a \notin OwnAddresses
          <5> HIDE DEF x
          <5> QED
            BY <4>1 DEF OwnAddresses
        <4>3. PICK g \in DOMAIN HostTable :
                  /\ HostTable[g].numeric = "no" /\ HostTable[g].v6 = <<>>
                  /\ a \in Range(Mapped(HostTable[g].v4))
          BY <1>4, <4>2 DEF Origin, Own, MappedOf
        <4> DEFINE w == HostTable[g].v4
        <4>4. PICK j \in DOMAIN Mapped(w) : a = Mapped(w)[j]
          BY <4>3 DEF Range
        <4>5. w \in Seq(Nat) /\ j \in DOMAIN w /\ a = 1000 + w[j]
          <5>1. w \in Seq(Nat)
            BY <4>3, HostNumbers
          <5> HIDE DEF w
          <5>2. j \in DOMAIN w /\ Mapped(w)[j] = 1000 + w[j]
            BY <4>4 DEF Mapped
          <5> QED
            BY <4>4, <5>1, <5>2, Zenon
        <4>6. w[j] \in Nat
          BY <4>5, ElementOfSeq, LenProperties
        <4>7. w[j] = x[k]
          <5> HIDE DEF w, x
          <5> QED
            BY <4>1, <4>5, <4>6
        <4>8. Range(w) \intersect Range(x) # {}
          <5> HIDE DEF w, x
          <5>0. j \in DOMAIN w /\ k \in DOMAIN x
            BY <4>1, <4>5
          <5>1. w[j] \in Range(w) /\ x[k] \in Range(x)
            BY <5>0, Zenon DEF Range
          <5> QED
            BY <4>7, <5>1, Zenon
        <4>9. HostTable[g].v6 = <<>> <=> HostTable[h].v6 = <<>>
          BY <1>1, <4>3, <4>8, NamesAssumption, Zenon
        <4> QED
          BY <2>2, <4>3, <4>9
      <3> QED
        BY <3>1, <3>2, <3>3
    <2> QED
      BY <2>1, <2>2
  <1> QED
    BY <1>3, <1>4

(* A name that a port has with a protocol has the port with it.            *)
LEMMA ServiceHasPort ==
    ASSUME NEW port, NEW flags, NEW s \in getservbyport(port, Protocol(flags)), s # Null
    PROVE  /\ port \in {PortOf([serv |-> s], t) : t \in {SockStream, SockDgram}}
           /\ "NI_DGRAM" \in flags => port = PortOf([serv |-> s], SockDgram)
  <1>1. /\ s \in DOMAIN ServTable /\ port > 0
        /\ \/ "tcp" \in Protocol(flags) /\ ServTable[s].tcp = port
           \/ "udp" \in Protocol(flags) /\ ServTable[s].udp = port
    BY DEF getservbyport
  <1>2. ServTable[s].numeric = 0
    <2>1. ServTable[s].numeric \in Nat
      BY <1>1, TablesAssumption
    <2>2. ServTable[s].numeric > 0 => ServTable[s].tcp = 0 /\ ServTable[s].udp = 0
      BY <1>1, NamesAssumption
    <2> QED
      BY <1>1, <2>1, <2>2
  <1>3. /\ PortOf([serv |-> s], SockStream) = ServTable[s].tcp
        /\ PortOf([serv |-> s], SockDgram) = ServTable[s].udp
    BY <1>2 DEF PortOf, SockStream, SockDgram
  <1>4. "NI_DGRAM" \in flags => ~("tcp" \in Protocol(flags))
    BY DEF Protocol
  <1> QED
    BY <1>1, <1>3, <1>4

(* NamesMeanEntries of getaddrinfo under the functions of lib/: the names  *)
(* that getnameinfo gives for an entry lead back to its address and port.  *)
THEOREM NamesLeadBack == ConnSpec => []NamesMeanEntries
  <1>1. GaInv /\ GaNamed => NamesMeanEntries
    <2> SUFFICES ASSUME GaInv, GaNamed, NEW e \in Range(ais), NEW flags \in SUBSET NiFlags,
                        NEW r \in getnameinfo(e, flags)
                 PROVE
            /\ e.family # Local /\ r.host.name # Null /\ "NI_NOFQDN" \notin flags =>
                  e.addr \in Range(gethostbyname(r.host.name, e.family = Inet6))
            /\ e.family # Local /\ r.host.name = Null => r.host.number = e.addr
            /\ e.family = Local => IsUnix([host |-> r.host.name, serv |-> req.serv])
            /\ r.serv.name = Null => r.serv.number = IF e.family = Local THEN e.addr ELSE e.port
            /\ r.serv.name # Null /\ (e.socktype = SockDgram <=> "NI_DGRAM" \in flags) =>
                  e.port \in IF e.socktype = SockDgram
                            THEN {PortOf([serv |-> r.serv.name], SockDgram)}
                            ELSE {PortOf([serv |-> r.serv.name], t) : t \in {SockStream, SockDgram}}
      BY Zenon DEF NamesMeanEntries
    <2>1. Named(e, req) /\ e.family \in {Inet, Inet6, Local}
      <3>1. PICK k \in DOMAIN ais : e = ais[k]
        BY DEF Range
      <3>2. ais[k] \in Entry
        BY ElementOfSeq, LenProperties DEF GaInv, GaTyped, GaTypeOK
      <3> QED
        BY <3>1, <3>2 DEF GaNamed, AisNamed, Entry
    <2>2. CASE e.family = Local
      <3>1. r.host.name = "/local" /\ r.serv.name = Null /\ r.serv.number = e.addr
        BY <2>2 DEF getnameinfo, Text
      <3>2. IsUnix(req)
        BY <2>1, <2>2 DEF Named
      <3>3. IsUnix([host |-> r.host.name, serv |-> req.serv])
        BY <3>1, <3>2 DEF IsUnix
      <3> QED
        BY <2>2, <3>1, <3>3
    <2>3. CASE e.family # Local
      <3>1. PICK h, s :
             /\ h \in gethostbyaddr(e.addr, e.family) \/ h = Null
             /\ r.host.name = IF h # Null /\ "NI_NOFQDN" \in flags THEN HostTable[h].label ELSE h
             /\ r.host.number = e.addr /\ r.serv.number = e.port /\ r.serv.name = s
             /\ s \in getservbyport(e.port, Protocol(flags)) \/ s = Null
        BY <2>3, NameOf
      <3>2. e.family \in {Inet, Inet6} /\ Origin(e.family, e.addr)
        BY <2>1, <2>3 DEF Named
      <3>3. h # Null => e.addr \in Range(gethostbyname(h, e.family = Inet6))
        BY <3>1, <3>2, HostHasAddress
      <3>4. s # Null =>
              /\ e.port \in {PortOf([serv |-> s], t) : t \in {SockStream, SockDgram}}
              /\ "NI_DGRAM" \in flags => e.port = PortOf([serv |-> s], SockDgram)
        BY <3>1, ServiceHasPort
      <3> QED
        BY <2>3, <3>1, <3>3, <3>4, Zenon
    <2> QED
      BY <2>2, <2>3
  <1> QED
    BY <1>1, ConnInvariant, NamedInvariant, PTL

(* The descriptors and the places tried are numbers in every phase.        *)
ConnNumbers == fn \in Functions5 \union {NoFunction} /\ fds \subseteq Nat /\ tried \subseteq Nat

(* The variables of getaddrinfo and of the functions that call it keep     *)
(* their types: GaTypeOK and ConnTypeOK.                                   *)
THEOREM ConnTypeCorrect == ConnSpec => [](GaTypeOK /\ ConnTypeOK)
  <1>1. ConnInit => ConnNumbers
    BY DEF ConnInit, ConnNumbers
  <1>2. GaInv /\ ConnInv /\ ConnNumbers /\ [ConnNext]_<<gaVars, connVars>> => ConnNumbers'
    <2> SUFFICES ASSUME ConnInv, ConnNumbers, [ConnNext]_<<gaVars, connVars>> PROVE ConnNumbers'
      OBVIOUS
    <2>1. CASE (GaStep /\ UNCHANGED connVars) \/ UNCHANGED <<gaVars, connVars>>
      BY <2>1 DEF connVars, ConnNumbers
    <2>2. CASE loop_begin
      BY <2>2 DEF loop_begin, ConnNumbers
    <2>3. CASE loop_socket \/ loop_use
      <3>1. cpc \in {"socket", "use"} /\ res \in Nat
        BY <2>3 DEF loop_socket, loop_use, ConnInv
      <3>2. /\ fds' \in {fds, fds \union {res}, fds \ {res}} /\ fn' = fn
            /\ tried' \in {tried, tried \union {res}}
        BY <2>3 DEF loop_socket, loop_use, TryNext
      <3> QED
        BY <3>1, <3>2 DEF ConnNumbers
    <2>4. CASE loop_finish \/ loop_err_sys
      BY <2>4 DEF loop_finish, loop_err_sys, ConnNumbers
    <2>5. CASE conn_next
      BY <2>5 DEF conn_next, ConnNumbers
    <2> QED
      BY <2>1, <2>2, <2>3, <2>4, <2>5 DEF ConnNext
  <1>3. GaInv /\ ConnInv /\ ConnNumbers => GaTypeOK /\ ConnTypeOK
    <2> SUFFICES ASSUME GaInv, ConnInv, ConnNumbers PROVE GaTypeOK /\ ConnTypeOK
      OBVIOUS
    <2>1. GaTypeOK /\ Len(ais) \in Nat
      BY DEF GaInv, GaTyped, GaTypeOK
    <2>2. res \in 1 .. Len(ais) + 1 \/ cpc \in {"returned", "ended"}
      BY <2>1 DEF ConnInv
    <2> QED
      BY <2>1, <2>2 DEF ConnInv, ConnNumbers, ConnTypeOK
  <1> QED
    BY <1>1, <1>2, <1>3, ConnInvariant, PTL DEF ConnSpec
-----------------------------------------------------------------------------
(***************************************************************************)
(* The list returned is the one expected.  While the hosts are searched it *)
(* and todo are what has been looked up; then it has one structure for     *)
(* each address; the first pass of ga_port sets each of them, and the      *)
(* second puts a clone behind each.                                        *)
(***************************************************************************)

At(e, a) == e.family = a.family /\ e.addr = a.addr
For(e, p) == e.socktype = p.socktype /\ e.port = p.port
Clonable(e) == e.clone = (req.socktype = SockAny)

(* As ga_aistruct makes it.                                                *)
Made(e) == e.socktype = req.socktype /\ e.port = 0 /\ Clonable(e)

(* The second of two places to search.                                     *)
LastPlace(r) == <<[host |-> SearchHost(r, Inet), family |-> Inet]>>

(* The addresses in the places already searched.                           *)
Looked ==
    IF search = <<>> THEN Addrs(req)
    ELSE IF search = ga_nsearch(req) THEN <<>> ELSE AddrsOf(req, Inet6)

PlaceOK ==
    \/ search = <<>>
    \/ search = ga_nsearch(req) /\ missed = {}
    \/ req.family = Unspec /\ search = LastPlace(req) /\ missed \subseteq {Inet6}

Searching ==
    /\ PlaceOK
    /\ Len(ais) + Len(todo) = Len(Looked)
    /\ \A k \in 1 .. Len(ais) : At(ais[k], Looked[k]) /\ Made(ais[k])
    /\ \A k \in 1 .. Len(todo) : todo[k] = Looked[Len(ais) + k]

(* One structure for each address.                                         *)
Plain ==
    /\ Len(ais) = Len(Addrs(req))
    /\ \A k \in 1 .. Len(ais) : At(ais[k], Addrs(req)[k]) /\ Made(ais[k])

(* The first pass is at the structure at.                                  *)
FirstPass(p) ==
    /\ Len(ais) = Len(Addrs(req)) /\ nfound = at - 1
    /\ \A k \in 1 .. Len(ais) :
        /\ At(ais[k], Addrs(req)[k]) /\ Clonable(ais[k])
        /\ k < at => For(ais[k], p)
        /\ k >= at => Made(ais[k])

(* The first pass is over, and j addresses have a clone.                   *)
Cloned(p, q, j) ==
    /\ Len(ais) = Len(Addrs(req)) + j /\ nfound > 0
    /\ \A i \in 1 .. j :
        /\ At(ais[2 * i - 1], Addrs(req)[i]) /\ For(ais[2 * i - 1], p)
        /\ At(ais[2 * i], Addrs(req)[i]) /\ For(ais[2 * i], q)
    /\ \A i \in j + 1 .. Len(Addrs(req)) :
        At(ais[i + j], Addrs(req)[i]) /\ For(ais[i + j], p) /\ Clonable(ais[i + j])

(* Where ga_serv is in the passes ps.                                      *)
Passing(ps) ==
    \/ ps = <<>> /\ passes = <<>> /\ Plain /\ at = 1 /\ nfound = 0
    \/ ps # <<>> /\ passes = ps /\ FirstPass(ps[1])
    \/ Len(ps) = 1 /\ passes = <<>> /\ Cloned(ps[1], ps[1], 0)
    \/ /\ Len(ps) = 2 /\ passes = Tail(ps)
       /\ \E j \in 0 .. Len(Addrs(req)) : at = 2 * j + 1 /\ Cloned(ps[1], ps[2], j)
    \/ Len(ps) = 2 /\ passes = <<>> /\ Cloned(ps[1], ps[2], Len(Addrs(req)))

Regular == ga_echeck(req) = "0" /\ ~IsUnix(req) /\ req.family \in {Unspec, Inet, Inet6}

UnixEntry(e, t) ==
    e.family = Local /\ e.addr = ServTable[req.serv].path /\ e.socktype = t /\ e.port = 0

UnixMade ==
    /\ ga_echeck(req) = "0" /\ IsUnix(req) /\ req.family \in {Unspec, Local}
    /\ Len(ais) + Len(passes) = Len(UnixTypes(req))
    /\ \A k \in 1 .. Len(ais) : UnixEntry(ais[k], UnixTypes(req)[k])
    /\ \A k \in 1 .. Len(passes) : passes[k] = UnixTypes(req)[Len(ais) + k]
    /\ ServTable[req.serv].long => ais = <<>>

ListInv ==
    /\ gphase = "idle" => todo = <<>> /\ at = 1 /\ nfound = 0 /\ missed = {}
    /\ gphase \in {"search", "create", "canon", "port"} => Regular
    /\ gphase \in {"search", "create", "canon"} => at = 1 /\ nfound = 0
    /\ gphase \in {"search", "create"} => Searching
    /\ gphase = "search" => todo = <<>>
    /\ gphase = "canon" => Plain
    /\ gphase = "port" => Passing(PortPasses(req))
    /\ gphase = "unix" => UnixMade
    /\ gphase = "bad" => rc # "0" /\ (failed \/ Expected(req) = <<>>)
    /\ ListIsExpected

(* The families of a request, and their number.                            *)
LEMMA FamiliesOf ==
    ASSUME NEW r
    PROVE  /\ r.family = Unspec => Families(r) = <<Inet6, Inet>> /\ Len(Families(r)) = 2
           /\ r.family \in {Inet, Inet6} => Families(r) = <<r.family>> /\ Len(Families(r)) = 1
           /\ r.family \notin {Unspec, Inet, Inet6} => Families(r) = <<>>
  BY DEF Families, Unspec, Inet, Inet6

(* The places to search, and what is left after the first.                 *)
LEMMA PlacesOf ==
    ASSUME NEW r
    PROVE  /\ r.family = Unspec =>
                /\ ga_nsearch(r) # <<>> /\ Tail(ga_nsearch(r)) = LastPlace(r)
                /\ ga_nsearch(r) # LastPlace(r)
                /\ Head(ga_nsearch(r)).host = SearchHost(r, Inet6) /\ Head(ga_nsearch(r)).family = Inet6
           /\ r.family \in {Inet, Inet6} =>
                /\ ga_nsearch(r) # <<>> /\ Tail(ga_nsearch(r)) = <<>>
                /\ Head(ga_nsearch(r)).host = SearchHost(r, r.family) /\ Head(ga_nsearch(r)).family = r.family
           /\ r.family \notin {Unspec, Inet, Inet6} => ga_nsearch(r) = <<>>
           /\ LastPlace(r) # <<>> /\ Tail(LastPlace(r)) = <<>>
           /\ Head(LastPlace(r)).host = SearchHost(r, Inet) /\ Head(LastPlace(r)).family = Inet
  <1> DEFINE a == [host |-> SearchHost(r, Inet6), family |-> Inet6]
             b == [host |-> SearchHost(r, Inet), family |-> Inet]
             c == [host |-> SearchHost(r, r.family), family |-> r.family]
  <1>1. CASE r.family = Unspec
    <2>1. Families(r) = <<Inet6, Inet>>
      BY <1>1, FamiliesOf
    <2>2. ga_nsearch(r) = [k \in DOMAIN <<Inet6, Inet>> |->
              [host |-> SearchHost(r, <<Inet6, Inet>>[k]), family |-> <<Inet6, Inet>>[k]]]
      BY <2>1, Zenon DEF ga_nsearch
    <2>3. ga_nsearch(r) = <<a, b>>
      BY <2>2
    <2> HIDE DEF a, b
    <2> QED
      BY <1>1, <2>3 DEF LastPlace, b, a, Unspec, Inet, Inet6
  <1>2. CASE r.family \in {Inet, Inet6}
    <2>1. Families(r) = <<r.family>>
      BY <1>2, FamiliesOf
    <2>2. ga_nsearch(r) = [k \in DOMAIN <<r.family>> |->
              [host |-> SearchHost(r, <<r.family>>[k]), family |-> <<r.family>>[k]]]
      BY <2>1, Zenon DEF ga_nsearch
    <2>3. ga_nsearch(r) = <<c>>
      BY <2>2
    <2> HIDE DEF c
    <2> QED
      BY <1>2, <2>3 DEF LastPlace, c, Unspec, Inet, Inet6
  <1>3. CASE r.family \notin {Unspec, Inet, Inet6}
    <2>1. Families(r) = <<>>
      BY <1>3, FamiliesOf
    <2>2. ga_nsearch(r) = <<>>
      BY <2>1 DEF ga_nsearch
    <2> QED
      BY <1>3, <2>2 DEF LastPlace
  <1> QED
    BY <1>1, <1>2, <1>3

LEMMA SearchHostTyped ==
    ASSUME NEW r \in Requests \union {NoRequest}, NEW f
    PROVE  SearchHost(r, f) \in DOMAIN HostTable
  BY RequestTyped, TablesAssumption DEF SearchHost

(* Addresses to return are addresses of that family.                       *)
LEMMA AddrsTyped ==
    ASSUME NEW r \in Requests \union {NoRequest}
    PROVE  /\ \A f \in {Inet, Inet6} : AddrsOf(r, f) \in Seq(Address)
           /\ r.family \in {Unspec, Inet, Inet6} => Addrs(r) \in Seq(Address)
  <1>1. ASSUME NEW f \in {Inet, Inet6} PROVE AddrsOf(r, f) \in Seq(Address)
    <2> DEFINE h == SearchHost(r, f)
               z == IF HostTable[h].numeric = "no" /\ Len(Families(r)) = 1
                    THEN gethostbyname(h, f = Inet6) ELSE gethostbyname2(h, f)
    <2>1. z \in Seq(Nat)
      BY SearchHostTyped, FoundTyped
    <2>2. AddrsOf(r, f) = IF f \in missed THEN <<>> ELSE [k \in DOMAIN z |-> [family |-> f, addr |-> z[k]]]
      BY Zenon DEF AddrsOf
    <2> HIDE DEF z
    <2>3. [k \in DOMAIN z |-> [family |-> f, addr |-> z[k]]] \in Seq(Address)
      BY <2>1, TodoTyped
    <2>4. <<>> \in Seq(Address)
      OBVIOUS
    <2> QED
      BY <2>2, <2>3, <2>4, Zenon
  <1>2. ASSUME r.family \in {Unspec, Inet, Inet6} PROVE Addrs(r) \in Seq(Address)
    <2>1. CASE r.family = Unspec
      <3>1. Addrs(r) = AddrsOf(r, Inet6) \o AddrsOf(r, Inet)
        BY <2>1 DEF Addrs
      <3>2. AddrsOf(r, Inet6) \in Seq(Address) /\ AddrsOf(r, Inet) \in Seq(Address)
        BY <1>1
      <3> QED
        BY <3>1, <3>2, ConcatProperties
    <2>2. CASE r.family # Unspec
      BY <1>1, <1>2, <2>2 DEF Addrs
    <2> QED
      BY <2>1, <2>2
  <1> QED
    BY <1>1, <1>2

(* What is expected changes only with the request and with what is missed. *)
LEMMA SameExpected ==
    UNCHANGED <<req, missed>> =>
        /\ Addrs(req)' = Addrs(req) /\ Expected(req)' = Expected(req)
        /\ \A f : AddrsOf(req, f)' = AddrsOf(req, f)
  <1>1. UNCHANGED <<req, missed>> => \A f : AddrsOf(req, f)' = AddrsOf(req, f)
    BY Zenon DEF AddrsOf
  <1>2. UNCHANGED <<req, missed>> => Addrs(req)' = Addrs(req)
    BY Zenon DEF Addrs, AddrsOf
  <1>3. UNCHANGED <<req, missed>> => Expected(req)' = Expected(req)
    BY <1>2, Zenon DEF Expected
  <1> QED
    BY <1>1, <1>2, <1>3, Zenon

(* Tuples of one and of two.                                               *)
LEMMA OneOf ==
    ASSUME NEW P, NEW x, P = <<x>>
    PROVE  Len(P) = 1 /\ Tail(P) = <<>> /\ P[1] = x /\ P # <<>>
  OBVIOUS

LEMMA TwoOf ==
    ASSUME NEW P, NEW x, NEW y, P = <<x, y>>
    PROVE  Len(P) = 2 /\ Tail(P) = <<P[2]>> /\ P[1] = x /\ P[2] = y /\ P # <<>>
  OBVIOUS

(* The passes of ga_port are the socket types to return.                   *)
LEMMA PassesOf ==
    ASSUME NEW r \in Requests \union {NoRequest}
    PROVE  /\ r.serv = Null => PortPasses(r) = <<>> /\ Types(r) = <<[socktype |-> r.socktype, port |-> 0]>>
           /\ r.serv # Null => Types(r) = PortPasses(r)
           /\ Len(PortPasses(r)) \in 0 .. 2 /\ Len(Types(r)) \in 0 .. 2
           /\ (Len(PortPasses(r)) = 0 <=> PortPasses(r) = <<>>)
           /\ Len(PortPasses(r)) = 2 =>
                /\ r.socktype = SockAny /\ PortPasses(r)[1].socktype = SockStream
                /\ Tail(PortPasses(r)) = <<PortPasses(r)[2]>>
           /\ Len(PortPasses(r)) = 1 =>
                /\ Tail(PortPasses(r)) = <<>>
                /\ r.socktype # SockAny => PortPasses(r)[1].socktype = r.socktype
  <1> DEFINE s == ServTable[r.serv]
             pair(t, p) == [socktype |-> t, port |-> p]
             pass(type, port) ==
                 IF port > 0 /\ r.socktype \in {SockAny, type} THEN <<pair(type, port)>> ELSE <<>>
             offered(t) == IF PortOf(r, t) > 0 THEN <<pair(t, PortOf(r, t))>> ELSE <<>>
  <1>1. s.numeric \in Nat /\ s.tcp \in Nat /\ s.udp \in Nat
    BY RequestTyped, TablesAssumption
  <1>2. /\ s.numeric > 0 => \A t : PortOf(r, t) = s.numeric
        /\ ~(s.numeric > 0) =>
             /\ PortOf(r, SockStream) = s.tcp /\ PortOf(r, SockDgram) = s.udp
             /\ \A t : t \notin {SockStream, SockDgram} => PortOf(r, t) = 0
    BY <1>1 DEF PortOf, SockStream, SockDgram
  <1>3. /\ s.numeric > 0 /\ r.socktype # SockAny => PortPasses(r) = <<pair(r.socktype, s.numeric)>>
        /\ s.numeric > 0 /\ r.socktype = SockAny =>
             PortPasses(r) = pass(SockStream, s.numeric) \o pass(SockDgram, s.numeric)
        /\ ~(s.numeric > 0) => PortPasses(r) = pass(SockStream, s.tcp) \o pass(SockDgram, s.udp)
    BY Zenon DEF PortPasses
  <1>4. /\ r.serv = Null => Types(r) = <<pair(r.socktype, 0)>>
        /\ r.serv # Null /\ r.socktype = SockAny => Types(r) = offered(SockStream) \o offered(SockDgram)
        /\ r.serv # Null /\ r.socktype # SockAny => Types(r) = offered(r.socktype)
    BY DEF Types
  <1>5. r.serv = Null => s.numeric = 0 /\ s.tcp = 0 /\ s.udp = 0
    BY StringsAssumption
  <1>6. SockAny # SockStream /\ SockAny # SockDgram /\ SockStream # SockDgram
    BY DEF SockAny, SockStream, SockDgram
  <1>7. /\ \A x : <<>> \o <<x>> = <<x>> /\ <<x>> \o <<>> = <<x>>
        /\ \A x, y : <<x>> \o <<y>> = <<x, y>> /\ <<>> \o <<>> = <<>>
    <2>1. ASSUME NEW x PROVE <<>> \o <<x>> = <<x>>
      OBVIOUS
    <2>2. ASSUME NEW x PROVE <<x>> \o <<>> = <<x>>
      OBVIOUS
    <2>3. ASSUME NEW x, NEW y PROVE <<x>> \o <<y>> = <<x, y>>
      <3>1. /\ <<x>> \in Seq({x, y}) /\ <<y>> \in Seq({x, y}) /\ <<x, y>> \in Seq({x, y})
            /\ Len(<<x>>) = 1 /\ Len(<<y>>) = 1 /\ Len(<<x, y>>) = 2
            /\ <<x>>[1] = x /\ <<y>>[1] = y /\ <<x, y>>[1] = x /\ <<x, y>>[2] = y
        OBVIOUS
      <3>2. PICK a \in Seq({x, y}), b \in Seq({x, y}), c \in Seq({x, y}) :
                 /\ a = <<x>> /\ b = <<y>> /\ c = <<x, y>>
                 /\ Len(a) = 1 /\ Len(b) = 1 /\ Len(c) = 2
                 /\ a[1] = x /\ b[1] = y /\ c[1] = x /\ c[2] = y
        BY <3>1
      <3>3. /\ a \o b \in Seq({x, y}) /\ Len(a \o b) = Len(a) + Len(b)
            /\ \A i \in 1 .. Len(a) + Len(b) : (a \o b)[i] = IF i <= Len(a) THEN a[i] ELSE b[i - Len(a)]
        BY ConcatProperties
      <3>4. PICK d \in Seq({x, y}) :
                 /\ d = a \o b /\ Len(d) = Len(a) + Len(b)
                 /\ \A i \in 1 .. Len(a) + Len(b) : d[i] = IF i <= Len(a) THEN a[i] ELSE b[i - Len(a)]
        BY <3>3, Zenon
      <3>5. Len(d) = 2 /\ d[1] = x /\ d[2] = y
        BY <3>2, <3>4
      <3>6. d = c
        BY <3>2, <3>5, SeqEqual
      <3> QED
        BY <3>2, <3>4, <3>6, Zenon
    <2>4. <<>> \o <<>> = <<>>
      OBVIOUS
    <2> QED
      BY <2>1, <2>2, <2>3, <2>4
  <1>8. Len(<<>>) = 0
    OBVIOUS
  <1>9. \A t, p : pair(t, p).socktype = t
    OBVIOUS
  <1> HIDE DEF pair, s
  <1>10. CASE r.serv = Null
    <2>1. pass(SockStream, s.tcp) = <<>> /\ pass(SockDgram, s.udp) = <<>>
      BY <1>5, <1>10
    <2>2. PortPasses(r) = <<>>
      BY <1>3, <1>5, <1>7, <1>10, <2>1
    <2> QED
      BY <1>4, <1>8, <1>10, <2>2, OneOf DEF pair
  <1>11. CASE r.serv # Null /\ s.numeric > 0 /\ r.socktype # SockAny
    <2>1. Types(r) = <<pair(r.socktype, s.numeric)>>
      BY <1>2, <1>4, <1>11
    <2> QED
      BY <1>3, <1>9, <1>11, <2>1, OneOf
  <1>12. CASE r.serv # Null /\ s.numeric > 0 /\ r.socktype = SockAny
    <2>1. /\ pass(SockStream, s.numeric) = <<pair(SockStream, s.numeric)>>
          /\ pass(SockDgram, s.numeric) = <<pair(SockDgram, s.numeric)>>
          /\ offered(SockStream) = <<pair(SockStream, s.numeric)>>
          /\ offered(SockDgram) = <<pair(SockDgram, s.numeric)>>
      BY <1>2, <1>12
    <2>2. /\ PortPasses(r) = <<pair(SockStream, s.numeric), pair(SockDgram, s.numeric)>>
          /\ Types(r) = PortPasses(r)
      BY <1>3, <1>4, <1>7, <1>12, <2>1
    <2> QED
      BY <1>9, <1>12, <2>2, TwoOf, SMT
  <1>13. CASE r.serv # Null /\ ~(s.numeric > 0) /\ r.socktype = SockAny
    <2>1. /\ pass(SockStream, s.tcp) = offered(SockStream) /\ pass(SockDgram, s.udp) = offered(SockDgram)
      BY <1>2, <1>13
    <2>2. Types(r) = PortPasses(r)
      <3> HIDE DEF pass, offered
      <3> QED
        BY <1>3, <1>4, <1>13, <2>1, Zenon
    <2>3. /\ offered(SockStream) = <<>> \/ offered(SockStream) = <<pair(SockStream, s.tcp)>>
          /\ offered(SockDgram) = <<>> \/ offered(SockDgram) = <<pair(SockDgram, s.udp)>>
      BY <1>2, <1>13
    <2>4. \/ Types(r) = <<>>
          \/ Types(r) = <<pair(SockStream, s.tcp)>> \/ Types(r) = <<pair(SockDgram, s.udp)>>
          \/ Types(r) = <<pair(SockStream, s.tcp), pair(SockDgram, s.udp)>>
      BY <1>4, <1>7, <1>13, <2>3
    <2> QED
      BY <1>8, <1>9, <1>13, <2>2, <2>4, OneOf, TwoOf
  <1>14. CASE r.serv # Null /\ ~(s.numeric > 0) /\ r.socktype # SockAny
    <2>1. /\ r.socktype = SockStream =>
               /\ pass(SockStream, s.tcp) = offered(r.socktype) /\ pass(SockDgram, s.udp) = <<>>
          /\ r.socktype = SockDgram =>
               /\ pass(SockStream, s.tcp) = <<>> /\ pass(SockDgram, s.udp) = offered(r.socktype)
          /\ r.socktype \notin {SockStream, SockDgram} =>
               /\ pass(SockStream, s.tcp) = <<>> /\ pass(SockDgram, s.udp) = <<>>
               /\ offered(r.socktype) = <<>>
      BY <1>2, <1>6, <1>14
    <2>2. offered(r.socktype) = <<>> \/ \E p : offered(r.socktype) = <<pair(r.socktype, p)>>
      OBVIOUS
    <2>3. Types(r) = offered(r.socktype) /\ PortPasses(r) = Types(r)
      BY <1>3, <1>4, <1>7, <1>14, <2>1, <2>2
    <2> QED
      BY <1>8, <1>9, <1>14, <2>2, <2>3, OneOf
  <1> QED
    BY <1>10, <1>11, <1>12, <1>13, <1>14

(* What is known of the variables in every state.                          *)
LEMMA ListTyped ==
    ASSUME GaInv
    PROVE  /\ req \in Requests \union {NoRequest} /\ ais \in Seq(Entry) /\ Len(ais) \in Nat
           /\ todo \in Seq(Address) /\ Len(todo) \in Nat /\ at \in 1 .. Len(ais) + 1
           /\ missed \subseteq {Inet, Inet6} /\ (ais = <<>> <=> Len(ais) = 0)
           /\ search \in Seq(Sought)
  <1>1. /\ req \in Requests \union {NoRequest} /\ ais \in Seq(Entry) /\ todo \in Seq(Address)
        /\ at \in 1 .. Len(ais) + 1 /\ missed \subseteq {Inet, Inet6} /\ search \in Seq(Sought)
    BY DEF GaInv, GaTyped, GaTypeOK
  <1> QED
    BY <1>1, LenProperties, EmptySeq

(* No addresses or no socket types: nothing is expected.                   *)
LEMMA NothingExpected ==
    ASSUME Regular, req \in Requests \union {NoRequest},
           Addrs(req) = <<>> \/ Types(req) = <<>>
    PROVE  Expected(req) = <<>>
  <1> DEFINE n == Len(Types(req))
  <1>1. Expected(req) = [k \in 1 .. Len(Addrs(req)) * n |->
            Structure(Addrs(req)[((k - 1) \div n) + 1], Types(req)[((k - 1) % n) + 1])]
    BY Zenon DEF Expected, Regular
  <1>2. n \in Nat /\ Len(Addrs(req)) \in Nat
    BY PassesOf, AddrsTyped, LenProperties DEF Regular
  <1>3. Len(Addrs(req)) = 0 \/ n = 0
    BY EmptySeq
  <1>4. Len(Addrs(req)) * n = 0
    BY <1>2, <1>3
  <1> HIDE DEF n
  <1> QED
    BY <1>1, <1>4

(* The first place that has addresses.                                     *)
LEMMA FirstLooked ==
    ASSUME Len(ais') = 0, todo' \in Seq(Address), todo' = Looked', PlaceOK'
    PROVE  Searching'
  <1>1. Len(todo') \in Nat
    BY LenProperties
  <1>2. Len(ais') + Len(todo') = Len(Looked')
    BY <1>1
  <1>3. \A k \in 1 .. Len(todo') : k = Len(ais') + k
    BY <1>1
  <1>4. 1 .. Len(ais') = {}
    OBVIOUS
  <1>5. \A k \in 1 .. Len(todo') : todo'[k] = (Looked')[Len(ais') + k]
    BY <1>3, Zenon
  <1> QED
    BY <1>2, <1>4, <1>5, Zenon DEF Searching

(* The places, types and passes are those of the request.                  *)
LEMMA SameRequest ==
    UNCHANGED req =>
        /\ ga_nsearch(req)' = ga_nsearch(req) /\ LastPlace(req)' = LastPlace(req)
        /\ Types(req)' = Types(req) /\ PortPasses(req)' = PortPasses(req)
        /\ UnixTypes(req)' = UnixTypes(req) /\ IsUnix(req)' = IsUnix(req)
        /\ (Regular' <=> Regular) /\ (\A e : Made(e)' <=> Made(e)) /\ (\A e : Clonable(e)' <=> Clonable(e))
  <1> SUFFICES ASSUME UNCHANGED req
               PROVE  /\ ga_nsearch(req)' = ga_nsearch(req) /\ LastPlace(req)' = LastPlace(req)
                      /\ Types(req)' = Types(req) /\ PortPasses(req)' = PortPasses(req)
                      /\ UnixTypes(req)' = UnixTypes(req) /\ IsUnix(req)' = IsUnix(req)
                      /\ (Regular' <=> Regular)
                      /\ (\A e : Made(e)' <=> Made(e)) /\ (\A e : Clonable(e)' <=> Clonable(e))
    OBVIOUS
  <1>1. ga_nsearch(req)' = ga_nsearch(req) /\ LastPlace(req)' = LastPlace(req)
    BY Zenon DEF ga_nsearch, LastPlace, SearchHost, Families
  <1>2. Types(req)' = Types(req)
    OBVIOUS
  <1>3. PortPasses(req)' = PortPasses(req)
    BY Zenon DEF PortPasses
  <1>4. UnixTypes(req)' = UnixTypes(req) /\ IsUnix(req)' = IsUnix(req)
    BY Zenon DEF UnixTypes, IsUnix
  <1>5. Regular' <=> Regular
    BY <1>4, Zenon DEF Regular, ga_echeck
  <1>6. (\A e : Made(e)' <=> Made(e)) /\ (\A e : Clonable(e)' <=> Clonable(e))
    BY Zenon DEF Made, Clonable
  <1> QED
    BY <1>1, <1>2, <1>3, <1>4, <1>5, <1>6, Zenon

(* One place is searched: the addresses of its family are to be made.      *)
LEMMA SearchOn ==
    ASSUME GaInv, ListInv, gphase = "search", search # <<>>, search' = Tail(search),
           UNCHANGED <<req, ais>>, todo' \in Seq(Address),
           NEW f \in {Inet, Inet6}, Head(search).family = f,
           missed' = missed \/ missed' = missed \union {f}, todo' = AddrsOf(req, f)'
    PROVE  Searching'
  <1>1. /\ Regular /\ Searching /\ PlaceOK /\ todo = <<>> /\ ais \in Seq(Entry) /\ Len(ais) \in Nat
        /\ Len(todo) = 0 /\ req \in Requests \union {NoRequest}
    BY ListTyped, EmptySeq DEF ListInv, Searching
  <1>2. /\ req' = req /\ ais' = ais
        /\ ga_nsearch(req)' = ga_nsearch(req) /\ LastPlace(req)' = LastPlace(req)
        /\ \A e : Made(e)' <=> Made(e)
    BY SameRequest
  <1>3. CASE search = ga_nsearch(req) /\ missed = {}
    <2>1. Looked = <<>>
      BY <1>3 DEF Looked
    <2>2. Len(ais) = 0
      BY <1>1, <2>1, EmptySeq DEF Searching
    <2>3. CASE req.family = Unspec
      <3>1. search' = LastPlace(req) /\ search' # <<>> /\ search' # ga_nsearch(req)
            /\ Head(search).family = Inet6
        BY <1>3, <2>3, PlacesOf
      <3>2. PlaceOK'
        <4>1. missed' \subseteq {Inet6}
          BY <1>3, <3>1
        <4> QED
          BY <1>2, <2>3, <3>1, <4>1, Zenon DEF PlaceOK
      <3>3. Looked' = AddrsOf(req, Inet6)'
        BY <1>2, <3>1, Zenon DEF Looked
      <3> QED
        BY <1>2, <2>2, <3>1, <3>2, <3>3, FirstLooked
    <2>4. CASE req.family # Unspec
      <3>1. search' = <<>> /\ Head(search).family = req.family
        BY <1>1, <1>3, <2>4, PlacesOf DEF Regular
      <3>2. PlaceOK'
        BY <3>1 DEF PlaceOK
      <3>3. Looked' = AddrsOf(req, req.family)'
        BY <1>2, <2>4, <3>1, Zenon DEF Looked, Addrs
      <3> QED
        BY <1>2, <2>2, <3>1, <3>2, <3>3, FirstLooked
    <2> QED
      BY <2>3, <2>4
  <1>4. CASE req.family = Unspec /\ search = LastPlace(req) /\ missed \subseteq {Inet6}
    <2>1. search' = <<>> /\ Head(search).family = Inet /\ search # ga_nsearch(req)
      BY <1>4, PlacesOf
    <2>2. PlaceOK'
      BY <2>1 DEF PlaceOK
    <2>3. Looked = AddrsOf(req, Inet6)
      BY <1>4, <2>1 DEF Looked
    <2>4. AddrsOf(req, Inet6)' = AddrsOf(req, Inet6)
      <3>1. Inet6 \in missed' <=> Inet6 \in missed
        BY <2>1 DEF Inet, Inet6
      <3> QED
        BY <1>2, <3>1, Zenon DEF AddrsOf
    <2>5. Looked' = AddrsOf(req, Inet6)' \o AddrsOf(req, Inet)'
      BY <1>2, <1>4, <2>1, Zenon DEF Looked, Addrs
    <2>6. PICK x \in Seq(Address), y \in Seq(Address), z \in Seq(Address) :
              x = AddrsOf(req, Inet6) /\ y = todo' /\ z = x \o y /\ Looked' = z
      BY <1>1, <2>1, <2>4, <2>5, AddrsTyped, ConcatProperties
    <2>7. /\ Len(z) = Len(x) + Len(y) /\ Len(x) \in Nat /\ Len(y) \in Nat
          /\ \A i \in 1 .. Len(x) + Len(y) : z[i] = IF i <= Len(x) THEN x[i] ELSE y[i - Len(x)]
      BY <2>6, ConcatProperties, LenProperties
    <2>8. Len(ais) = Len(x) /\ \A k \in 1 .. Len(ais) : At(ais[k], x[k]) /\ Made(ais[k])
      BY <1>1, <2>3, <2>6, <2>7 DEF Searching
    <2>9. \A k \in 1 .. Len(ais) : At(ais[k], z[k]) /\ Made(ais[k])
      <3>1. \A k \in 1 .. Len(ais) : z[k] = x[k]
        BY <2>7, <2>8
      <3> QED
        BY <2>8, <3>1
    <2>10. \A k \in 1 .. Len(y) : y[k] = z[Len(ais) + k]
      <3> SUFFICES ASSUME NEW k \in 1 .. Len(y) PROVE y[k] = z[Len(ais) + k]
        OBVIOUS
      <3>1. PICK i : i = Len(ais) + k
        OBVIOUS
      <3>2. i \in 1 .. Len(x) + Len(y) /\ ~(i <= Len(x)) /\ i - Len(x) = k
        BY <2>7, <2>8, <3>1
      <3>3. z[i] = y[i - Len(x)]
        BY <2>7, <3>2, Zenon
      <3> QED
        BY <3>1, <3>2, <3>3, Zenon
    <2>11. Len(ais) + Len(y) = Len(z)
      BY <2>7, <2>8
    <2>12. Len(ais') + Len(todo') = Len(Looked')
      BY <1>2, <2>6, <2>11, Zenon
    <2>13. \A k \in 1 .. Len(ais') : At(ais'[k], (Looked')[k]) /\ Made(ais[k])'
      BY <1>2, <2>6, <2>9, Zenon
    <2>14. \A k \in 1 .. Len(todo') : todo'[k] = (Looked')[Len(ais') + k]
      BY <1>2, <2>6, <2>10, Zenon
    <2> QED
      BY <2>2, <2>12, <2>13, <2>14, Zenon DEF Searching, At
  <1> QED
    BY <1>1, <1>3, <1>4 DEF PlaceOK

(* The host loop goes on, or ends in an error.                             *)
LEMMA GoesOn ==
    ASSUME ListInv, gphase \in {"search", "create"}, gphase' \in {"search", "create"},
           UNCHANGED <<req, at, nfound>>, Searching', gphase' = "search" => todo' = <<>>
    PROVE  ListInv'
  <1>1. Regular' /\ at' = 1 /\ nfound' = 0
    BY SameRequest DEF ListInv
  <1>2. gphase' \notin {"idle", "canon", "port", "unix", "bad", "returned"}
    OBVIOUS
  <1> QED
    BY <1>1, <1>2 DEF ListInv, ListIsExpected

LEMMA GoesBad ==
    ASSUME gphase' = "bad", rc' # "0", failed' = TRUE \/ Expected(req)' = <<>>
    PROVE  ListInv'
  BY DEF ListInv, ListIsExpected

(* What is looked up is the string for the family in question.             *)
LEMMA NextPlace ==
    ASSUME GaInv, ListInv, gphase = "search", search # <<>>
    PROVE  /\ Head(search).family \in {Inet, Inet6} \ missed
           /\ Head(search).host = SearchHost(req, Head(search).family)
           /\ SearchHost(req, Head(search).family) \in DOMAIN HostTable
           /\ req.family # Unspec =>
                /\ Len(Families(req)) = 1 /\ Head(search).family = req.family
                /\ Addrs(req) = AddrsOf(req, req.family)
           /\ req.family = Unspec => Len(Families(req)) = 2
           /\ Regular /\ todo = <<>> /\ req \in Requests \union {NoRequest}
  <1>1. Regular /\ Searching /\ PlaceOK /\ todo = <<>> /\ req \in Requests \union {NoRequest}
    BY ListTyped DEF ListInv, Searching
  <1>2. Inet # Inet6
    BY DEF Inet, Inet6
  <1>3. req.family # Unspec => Addrs(req) = AddrsOf(req, req.family)
    BY DEF Addrs
  <1>4. CASE req.family = Unspec
    <2>1. \/ search = ga_nsearch(req) /\ missed = {}
          \/ search = LastPlace(req) /\ missed \subseteq {Inet6}
      BY <1>1 DEF PlaceOK
    <2>2. /\ Head(search).family \in {Inet, Inet6} \ missed
          /\ Head(search).host = SearchHost(req, Head(search).family)
      BY <1>2, <1>4, <2>1, PlacesOf
    <2> QED
      BY <1>1, <1>4, <2>2, FamiliesOf, SearchHostTyped
  <1>5. CASE req.family # Unspec
    <2>1. search = ga_nsearch(req) /\ missed = {} /\ req.family \in {Inet, Inet6}
      BY <1>1, <1>5 DEF PlaceOK, Regular
    <2>2. Head(search).family = req.family /\ Head(search).host = SearchHost(req, req.family)
      BY <2>1, PlacesOf
    <2> QED
      BY <1>1, <1>3, <1>5, <2>1, <2>2, FamiliesOf, SearchHostTyped
  <1> QED
    BY <1>4, <1>5

(* An address string has its addresses for its own family.                 *)
LEMMA NumericAddrs ==
    ASSUME NEW r, NEW f \in {Inet, Inet6} \ missed, SearchHost(r, f) \in DOMAIN HostTable,
           HostTable[SearchHost(r, f)].numeric # "no"
    PROVE  LET t == HostTable[SearchHost(r, f)]
           IN  AddrsOf(r, f) =
                 IF t.numeric = f
                 THEN [k \in DOMAIN (t.v4 \o t.v6) |-> [family |-> f, addr |-> (t.v4 \o t.v6)[k]]]
                 ELSE <<>>
  <1> DEFINE t == HostTable[SearchHost(r, f)]
             list(z) == [k \in DOMAIN z |-> [family |-> f, addr |-> z[k]]]
  <1>1. t.v4 \in Seq(Nat) /\ t.v6 \in Seq(Nat) /\ t.numeric \in {Inet, Inet6}
    BY FoundTyped, HostNumbers
  <1>2. AddrsOf(r, f) = list(IF f = Inet6 THEN t.v6 ELSE t.v4)
    BY Zenon DEF AddrsOf, gethostbyname2
  <1>3. (t.numeric = Inet => t.v6 = <<>>) /\ (t.numeric = Inet6 => t.v4 = <<>>)
    BY StringsAssumption
  <1>4. t.v4 \o t.v6 = IF t.numeric = Inet THEN t.v4 ELSE t.v6
    BY <1>1, <1>3, ConcatEmptySeq, Zenon
  <1>5. list(<<>>) = <<>>
    OBVIOUS
  <1>6. Inet # Inet6
    BY DEF Inet, Inet6
  <1> HIDE DEF t, list
  <1>7. AddrsOf(r, f) = IF t.numeric = f THEN list(t.v4 \o t.v6) ELSE <<>>
    <2>1. CASE t.numeric = f
      <3>1. (IF f = Inet6 THEN t.v6 ELSE t.v4) = t.v4 \o t.v6
        BY <1>1, <1>4, <1>6, <2>1, Zenon
      <3> QED
        BY <1>2, <2>1, <3>1, Zenon
    <2>2. CASE t.numeric # f
      <3>1. (IF f = Inet6 THEN t.v6 ELSE t.v4) = <<>>
        BY <1>1, <1>3, <1>6, <2>2, Zenon
      <3> QED
        BY <1>2, <1>5, <2>2, <3>1, Zenon
    <2> QED
      BY <2>1, <2>2
  <1> QED
    BY <1>7 DEF t, list

(* The host loop meets an address string.                                  *)
LEMMA SearchNumericList == GaInv /\ GaInv' /\ ListInv /\ search_numeric => ListInv'
  <1> SUFFICES ASSUME GaInv, GaInv', ListInv, search_numeric PROVE ListInv'
    OBVIOUS
  <1> DEFINE f == Head(search).family
             t == HostTable[SearchHost(req, f)]
             found == [k \in DOMAIN (t.v4 \o t.v6) |-> [family |-> f, addr |-> (t.v4 \o t.v6)[k]]]
  <1>1. /\ gphase = "search" /\ search # <<>>
        /\ UNCHANGED <<req, ais, at, nfound, missed, failed>>
    BY DEF search_numeric
  <1>2. /\ f \in {Inet, Inet6} \ missed /\ Head(search).host = SearchHost(req, f)
        /\ SearchHost(req, f) \in DOMAIN HostTable
        /\ req.family # Unspec => f = req.family /\ Addrs(req) = AddrsOf(req, req.family)
        /\ Regular /\ todo = <<>> /\ req \in Requests \union {NoRequest}
    BY <1>1, NextPlace
  <1>3. t.numeric # "no"
    BY <1>2 DEF search_numeric
  <1>4. \/ req.family \notin {Unspec, t.numeric} /\ rc' = "EAI_ADDRFAMILY" /\ gphase' = "bad"
        \/ /\ search' = Tail(search)
           /\ \/ f = t.numeric /\ todo' = found /\ gphase' = "create"
              \/ f # t.numeric /\ UNCHANGED <<todo, gphase>>
    BY <1>2 DEF search_numeric, Bad
  <1>5. AddrsOf(req, f) = IF t.numeric = f THEN found ELSE <<>>
    BY <1>2, <1>3, NumericAddrs
  <1>6. Expected(req)' = Expected(req)
    BY <1>1, SameExpected
  <1> HIDE DEF f, t, found
  <1>7. CASE req.family \notin {Unspec, t.numeric} /\ rc' = "EAI_ADDRFAMILY" /\ gphase' = "bad"
    <2>1. Addrs(req) = <<>>
      BY <1>2, <1>5, <1>7
    <2>2. Expected(req) = <<>>
      BY <1>2, <2>1, NothingExpected
    <2> QED
      BY <1>6, <1>7, <2>2, GoesBad
  <1>8. CASE /\ search' = Tail(search)
             /\ \/ f = t.numeric /\ todo' = found /\ gphase' = "create"
                \/ f # t.numeric /\ UNCHANGED <<todo, gphase>>
    <2>1. todo' = AddrsOf(req, f) /\ gphase' \in {"search", "create"} /\ (gphase' = "search" => todo' = <<>>)
      BY <1>1, <1>2, <1>5, <1>8
    <2>2. PICK g \in {Inet, Inet6} : g = f
      BY <1>2
    <2>3. todo' = AddrsOf(req, g)'
      BY <1>1, <2>1, <2>2, SameExpected, Zenon
    <2>4. todo' \in Seq(Address)
      BY DEF GaInv, GaTyped
    <2>5. Searching'
      BY <2>4, <1>1, <1>2, <1>8, <2>2, <2>3, SearchOn DEF f
    <2> QED
      BY <1>1, <2>1, <2>5, GoesOn
  <1> QED
    BY <1>4, <1>7, <1>8

(* The resolver finds addresses, or an allocation fails.                   *)
LEMMA SearchNameList == GaInv /\ GaInv' /\ ListInv /\ search_name => ListInv'
  <1> SUFFICES ASSUME GaInv, GaInv', ListInv, search_name PROVE ListInv'
    OBVIOUS
  <1> DEFINE f == Head(search).family
             h == SearchHost(req, f)
             found == IF Len(Families(req)) = 2 THEN gethostbyname2(h, f)
                      ELSE gethostbyname(h, useInet6')
             addrtype == IF Len(Families(req)) = 2 THEN f ELSE IF useInet6' THEN Inet6 ELSE Inet
             new == [k \in DOMAIN found |-> [family |-> addrtype, addr |-> found[k]]]
  <1>1. /\ gphase = "search" /\ search # <<>> /\ useInet6' = Option(Head(search))
        /\ UNCHANGED <<req, ais, at, nfound, missed>>
        /\ HostTable[Head(search).host].numeric = "no"
    BY DEF search_name
  <1>2. /\ f \in {Inet, Inet6} \ missed /\ Head(search).host = h
        /\ req.family # Unspec => Len(Families(req)) = 1 /\ f = req.family
        /\ req.family = Unspec => Len(Families(req)) = 2
    BY <1>1, NextPlace
  <1>3. \/ req.family \notin {Unspec, addrtype}
        \/ rc' = "EAI_MEMORY" /\ gphase' = "bad" /\ failed' = TRUE
        \/ gphase' = "create" /\ search' = Tail(search) /\ todo' = new
    BY <1>2 DEF search_name, Bad
  <1>4. addrtype = f
    BY <1>1, <1>2 DEF Option, Inet, Inet6
  <1>5. AddrsOf(req, f) = [k \in DOMAIN found |-> [family |-> f, addr |-> found[k]]]
    <2>1. AddrsOf(req, f) =
            LET z == IF HostTable[h].numeric = "no" /\ Len(Families(req)) = 1
                     THEN gethostbyname(h, f = Inet6) ELSE gethostbyname2(h, f)
            IN  [k \in DOMAIN z |-> [family |-> f, addr |-> z[k]]]
      BY <1>2, Zenon DEF AddrsOf
    <2>2. CASE req.family = Unspec
      <3>1. Len(Families(req)) = 2 /\ Len(Families(req)) # 1
        BY <1>2, <2>2
      <3>2. found = gethostbyname2(h, f)
        BY <3>1
      <3> HIDE DEF f, h, found
      <3> QED
        BY <2>1, <3>1, <3>2, Zenon
    <2>3. CASE req.family # Unspec
      <3>1. Len(Families(req)) = 1 /\ Len(Families(req)) # 2
        BY <1>2, <2>3
      <3>2. useInet6' = (f = Inet6)
        BY <1>1, <3>1, Zenon DEF Option
      <3>3. found = gethostbyname(h, f = Inet6)
        BY <3>1, <3>2, Zenon
      <3>4. HostTable[h].numeric = "no"
        BY <1>1, <1>2, Zenon
      <3> HIDE DEF f, h, found
      <3> QED
        BY <2>1, <3>1, <3>3, <3>4, Zenon
    <2> QED
      BY <2>2, <2>3
  <1>6. \/ rc' = "EAI_MEMORY" /\ gphase' = "bad" /\ failed' = TRUE
        \/ gphase' = "create" /\ search' = Tail(search) /\ todo' = AddrsOf(req, f)
    BY <1>2, <1>3, <1>4, <1>5, Zenon
  <1> HIDE DEF f, h, found, addrtype, new
  <1>7. CASE rc' = "EAI_MEMORY" /\ gphase' = "bad" /\ failed' = TRUE
    BY <1>7, GoesBad
  <1>8. CASE gphase' = "create" /\ search' = Tail(search) /\ todo' = AddrsOf(req, f)
    <2>1. PICK g \in {Inet, Inet6} : g = f
      BY <1>2
    <2>2. todo' = AddrsOf(req, g)'
      BY <1>1, <1>8, <2>1, SameExpected, Zenon
    <2>3. todo' \in Seq(Address)
      BY DEF GaInv, GaTyped
    <2>4. Searching'
      BY <1>1, <1>8, <2>1, <2>2, <2>3, SearchOn DEF f
    <2> QED
      BY <1>1, <1>8, <2>4, GoesOn
  <1> QED
    BY <1>6, <1>7, <1>8

(* The resolver finds nothing.                                             *)
LEMMA SearchFailsList == GaInv /\ GaInv' /\ ListInv /\ search_fails => ListInv'
  <1> SUFFICES ASSUME GaInv, GaInv', ListInv, search_fails PROVE ListInv'
    OBVIOUS
  <1> DEFINE f == Head(search).family
             h == SearchHost(req, f)
             found == IF Len(Families(req)) = 2 THEN gethostbyname2(h, f)
                      ELSE gethostbyname(h, useInet6')
  <1>1. /\ gphase = "search" /\ search # <<>> /\ useInet6' = Option(Head(search))
        /\ UNCHANGED <<req, todo, ais, at, nfound>>
        /\ HostTable[Head(search).host].numeric = "no"
    BY DEF search_fails
  <1>2. /\ f \in {Inet, Inet6} \ missed /\ Head(search).host = h
        /\ req.family # Unspec =>
             /\ Len(Families(req)) = 1 /\ f = req.family /\ Addrs(req) = AddrsOf(req, req.family)
        /\ req.family = Unspec => Len(Families(req)) = 2
        /\ Regular /\ todo = <<>> /\ req \in Requests \union {NoRequest}
    BY <1>1, NextPlace
  <1>3. \/ /\ Len(Families(req)) = 2 /\ search' = Tail(search) /\ missed' = missed \union {f}
           /\ gphase' = gphase
        \/ /\ Len(Families(req)) # 2 /\ gphase' = "bad" /\ missed' = missed
           /\ rc' \in {"EAI_NONAME", "EAI_AGAIN", "EAI_FAIL", "EAI_NODATA"}
           /\ failed' = (found # <<>>)
    BY <1>2, Zenon DEF search_fails, Bad
  <1>4. CASE /\ Len(Families(req)) = 2 /\ search' = Tail(search) /\ missed' = missed \union {f}
             /\ gphase' = gphase
    <2>1. PICK g \in {Inet, Inet6} : g = f
      BY <1>2
    <2>2. AddrsOf(req, g)' = <<>>
      BY <1>4, <2>1 DEF AddrsOf
    <2>3. todo' = <<>> /\ todo' \in Seq(Address)
      BY <1>1, <1>2 DEF GaInv, GaTyped
    <2>4. Searching'
      BY <1>1, <1>4, <2>1, <2>2, <2>3, SearchOn
    <2> QED
      BY <1>1, <1>4, <2>3, <2>4, GoesOn
  <1>5. CASE /\ Len(Families(req)) # 2 /\ gphase' = "bad" /\ missed' = missed
             /\ rc' \in {"EAI_NONAME", "EAI_AGAIN", "EAI_FAIL", "EAI_NODATA"}
             /\ failed' = (found # <<>>)
    <2>1. req.family # Unspec /\ Len(Families(req)) = 1 /\ f = req.family
      BY <1>2, <1>5
    <2>2. useInet6' = (f = Inet6)
      BY <1>1, <2>1, Zenon DEF Option
    <2>3. found = gethostbyname(h, f = Inet6)
      BY <1>5, <2>2, Zenon
    <2>4. found = <<>> => AddrsOf(req, f) = <<>>
      <3>1. HostTable[h].numeric = "no"
        BY <1>1, <1>2, Zenon
      <3>2. AddrsOf(req, f) = [k \in DOMAIN found |-> [family |-> f, addr |-> found[k]]]
        <4> HIDE DEF found
        <4> QED
          BY <1>2, <2>1, <2>3, <3>1, Zenon DEF AddrsOf
      <3> HIDE DEF f, h, found
      <3> QED
        BY <3>2
    <2> HIDE DEF f, h, found
    <2>5. found = <<>> => Expected(req) = <<>>
      BY <1>2, <2>1, <2>4, NothingExpected
    <2>6. Expected(req)' = Expected(req)
      BY <1>1, <1>5, SameExpected
    <2>7. failed' = TRUE \/ Expected(req)' = <<>>
      BY <1>5, <2>5, <2>6, Zenon
    <2> QED
      BY <1>5, <2>7, GoesBad
  <1> QED
    BY <1>3, <1>4, <1>5

LEMMA SameLooked == UNCHANGED <<req, missed, search>> => Looked' = Looked
  BY SameExpected, SameRequest, Zenon DEF Looked

(* What has been looked up is a list of addresses.                         *)
LEMMA LookedTyped ==
    ASSUME GaInv, Regular
    PROVE  Looked \in Seq(Address) /\ Addrs(req) \in Seq(Address) /\ Len(Addrs(req)) \in Nat
  <1>1. AddrsOf(req, Inet6) \in Seq(Address) /\ Addrs(req) \in Seq(Address)
    BY AddrsTyped, ListTyped DEF Regular
  <1>2. <<>> \in Seq(Address)
    OBVIOUS
  <1> QED
    BY <1>1, <1>2, LenProperties DEF Looked

(* A structure is made for the first address that has none.                *)
LEMMA CreateList == GaInv /\ GaInv' /\ ListInv /\ create => ListInv'
  <1> SUFFICES ASSUME GaInv, GaInv', ListInv, create PROVE ListInv'
    OBVIOUS
  <1>1. /\ gphase = "create" /\ todo # <<>>
        /\ UNCHANGED <<req, search, at, nfound, missed>>
    BY DEF create
  <1>2. PICK n \in 0 .. 2 :
          /\ ga_aistruct(Head(todo).family, Head(todo).addr, req.socktype, n)
          /\ IF n < 2 THEN Bad("EAI_MEMORY") /\ failed' = TRUE
             ELSE todo' = Tail(todo) /\ gphase' = gphase
    BY DEF create
  <1>3. CASE n < 2
    BY <1>2, <1>3, GoesBad DEF Bad
  <1>4. CASE ~(n < 2)
    <2> DEFINE e == [family |-> Head(todo).family, addr |-> Head(todo).addr, socktype |-> req.socktype,
                     port |-> 0, clone |-> req.socktype = SockAny, hasAddr |-> n = 2]
    <2>1. ais' = Append(ais, e) /\ todo' = Tail(todo) /\ gphase' = "create"
      BY <1>1, <1>2, <1>4 DEF ga_aistruct
    <2>2. At(e, Head(todo)) /\ Made(e)
      BY DEF At, Made, Clonable
    <2>3. /\ Searching /\ PlaceOK /\ ais \in Seq(Entry) /\ Len(ais) \in Nat /\ todo \in Seq(Address)
          /\ Len(todo) \in Nat /\ ais' \in Seq(Entry)
      BY <1>1, ListTyped DEF ListInv, Searching, GaInv, GaTyped, GaTypeOK
    <2>4. /\ Len(todo') = Len(todo) - 1 /\ Len(todo) > 0 /\ Head(todo) = todo[1]
          /\ \A i \in 1 .. Len(todo') : todo'[i] = todo[i + 1]
      BY <1>1, <2>1, <2>3, HeadTailProperties, EmptySeq
    <2> HIDE DEF e
    <2>5. Len(ais') = Len(ais) + 1 /\ ais'[Len(ais) + 1] = e /\ \A i \in 1 .. Len(ais) : ais'[i] = ais[i]
      BY <2>1, <2>3
    <2>6. Looked' = Looked /\ PlaceOK' /\ \A x : Made(x)' <=> Made(x)
      BY <1>1, <2>3, SameLooked, SameRequest, Zenon DEF PlaceOK
    <2>7. Len(ais) + Len(todo) = Len(Looked) /\ Len(ais') + Len(todo') = Len(Looked)
      <3>1. Len(ais) + Len(todo) = Len(Looked)
        BY <2>3, Zenon DEF Searching
      <3>2. Len(ais') + Len(todo') = Len(ais) + Len(todo)
        BY <2>3, <2>4, <2>5
      <3> QED
        BY <3>1, <3>2, Zenon
    <2>8. \A k \in 1 .. Len(ais') : At(ais'[k], Looked[k]) /\ Made(ais'[k])
      <3> SUFFICES ASSUME NEW k \in 1 .. Len(ais') PROVE At(ais'[k], Looked[k]) /\ Made(ais'[k])
        OBVIOUS
      <3>1. CASE k = Len(ais) + 1
        <4>1. 1 \in 1 .. Len(todo)
          BY <2>3, <2>4
        <4>2. Looked[Len(ais) + 1] = Head(todo)
          BY <2>3, <2>4, <4>1 DEF Searching
        <4> QED
          BY <2>2, <2>5, <3>1, <4>2
      <3>2. CASE k \in 1 .. Len(ais)
        BY <2>3, <2>5, <3>2 DEF Searching
      <3> QED
        BY <2>3, <2>5, <3>1, <3>2
    <2>9. \A k \in 1 .. Len(todo') : todo'[k] = Looked[Len(ais') + k]
      <3> SUFFICES ASSUME NEW k \in 1 .. Len(todo') PROVE todo'[k] = Looked[Len(ais') + k]
        OBVIOUS
      <3>1. k + 1 \in 1 .. Len(todo) /\ Len(ais) + (k + 1) = Len(ais') + k
        BY <2>3, <2>4, <2>5
      <3>2. todo[k + 1] = Looked[Len(ais) + (k + 1)]
        BY <2>3, <3>1 DEF Searching
      <3> QED
        BY <2>4, <3>1, <3>2
    <2>10. \A k \in 1 .. Len(ais') : At(ais'[k], Looked[k]) /\ Made(ais[k])'
      BY <2>6, <2>8
    <2>11. Searching'
      BY <2>6, <2>7, <2>9, <2>10, Zenon DEF Searching, At
    <2> QED
      BY <1>1, <2>1, <2>11, GoesOn
  <1> QED
    BY <1>3, <1>4

(* The addresses of a place are done.                                      *)
LEMMA CreatedList == ListInv /\ created => ListInv'
  <1> SUFFICES ASSUME ListInv, created PROVE ListInv'
    OBVIOUS
  <1>1. /\ gphase = "create" /\ todo = <<>> /\ gphase' = "search"
        /\ UNCHANGED <<req, search, todo, ais, at, nfound, missed>>
    BY DEF created, work
  <1>2. Searching'
    <2>1. Searching /\ PlaceOK
      BY <1>1 DEF ListInv, Searching
    <2>2. Looked' = Looked /\ PlaceOK' /\ \A x : Made(x)' <=> Made(x)
      BY <1>1, <2>1, SameLooked, SameRequest, Zenon DEF PlaceOK
    <2> QED
      BY <1>1, <2>1, <2>2, Zenon DEF Searching, At
  <1> QED
    BY <1>1, <1>2, GoesOn

(* All places are searched: each address has a structure, or there is none.*)
LEMMA SearchedList == GaInv /\ ListInv /\ searched => ListInv'
  <1> SUFFICES ASSUME GaInv, ListInv, searched PROVE ListInv'
    OBVIOUS
  <1>1. /\ gphase = "search" /\ search = <<>>
        /\ UNCHANGED <<req, search, todo, ais, at, nfound, missed, failed>>
        /\ \/ ais = <<>> /\ gphase' = "bad" /\ rc' = "EAI_NONAME"
           \/ gphase' = "canon"
    BY DEF searched, work, Bad
  <1>2. /\ Searching /\ todo = <<>> /\ Regular /\ Looked = Addrs(req) /\ at = 1 /\ nfound = 0
        /\ Addrs(req) \in Seq(Address) /\ Len(ais) \in Nat /\ (ais = <<>> => Len(ais) = 0)
        /\ req \in Requests \union {NoRequest}
    BY <1>1, ListTyped, LookedTyped DEF ListInv, Looked
  <1>3. Len(ais) = Len(Addrs(req))
    BY <1>2, EmptySeq DEF Searching
  <1>4. CASE ais = <<>> /\ gphase' = "bad" /\ rc' = "EAI_NONAME"
    <2>1. Addrs(req) = <<>>
      BY <1>2, <1>3, <1>4, EmptySeq
    <2>2. Expected(req) = <<>> /\ Expected(req)' = Expected(req)
      BY <1>1, <1>2, <2>1, NothingExpected, SameExpected
    <2> QED
      BY <1>4, <2>2, GoesBad
  <1>5. CASE gphase' = "canon"
    <2>1. Plain
      BY <1>2, <1>3 DEF Plain, Searching
    <2>2. Plain'
      BY <1>1, <2>1, SameRequest, SameExpected, Zenon DEF Plain, At
    <2>3. Regular' /\ at' = 1 /\ nfound' = 0
      BY <1>1, <1>2, SameRequest
    <2>4. gphase' \notin {"idle", "search", "create", "port", "unix", "bad", "returned"}
      BY <1>5
    <2> QED
      BY <1>5, <2>2, <2>3, <2>4 DEF ListInv, ListIsExpected
  <1> QED
    BY <1>1, <1>4, <1>5

(* The parts of the invariant for ga_port, where what they speak of stays. *)
LEMMA SameFirstPass ==
    ASSUME NEW p, FirstPass(p), UNCHANGED <<req, missed, ais, at, nfound>>
    PROVE  FirstPass(p)'
  <1>1. Addrs(req)' = Addrs(req) /\ (\A e : Made(e)' <=> Made(e)) /\ \A e : Clonable(e)' <=> Clonable(e)
    BY SameRequest, SameExpected
  <1> QED
    BY <1>1, Zenon DEF FirstPass, At, For

(* The service is looked up: no pass has been made.                        *)
LEMMA CanonnameList == GaInv /\ ListInv /\ canonname => ListInv'
  <1> SUFFICES ASSUME GaInv, ListInv, canonname PROVE ListInv'
    OBVIOUS
  <1>1. /\ gphase = "canon" /\ UNCHANGED <<req, ais, at, nfound, missed>>
        /\ \/ passes' = PortPasses(req) /\ gphase' = "port"
           \/ gphase' = "bad" /\ rc' = "EAI_MEMORY" /\ failed' = TRUE
    BY DEF canonname, Bad
  <1>2. CASE gphase' = "bad" /\ rc' = "EAI_MEMORY" /\ failed' = TRUE
    BY <1>2, GoesBad
  <1>3. CASE passes' = PortPasses(req) /\ gphase' = "port"
    <2>1. Plain /\ Regular /\ at = 1 /\ nfound = 0 /\ Len(ais) \in Nat
      BY <1>1, ListTyped DEF ListInv
    <2>2. PICK ps : ps = PortPasses(req)
      OBVIOUS
    <2>3. PortPasses(req)' = ps /\ passes' = ps
      BY <1>1, <1>3, <2>2, SameRequest
    <2>4. Plain'
      BY <1>1, <2>1, SameRequest, SameExpected, Zenon DEF Plain, At
    <2>5. Passing(ps)'
      <3>1. CASE ps = <<>>
        BY <1>1, <2>1, <2>3, <2>4, <3>1 DEF Passing
      <3>2. CASE ps # <<>>
        <4>1. PICK p : p = ps[1]
          OBVIOUS
        <4>2. FirstPass(p)
          <5>1. \A k \in 1 .. Len(ais) : ~(k < at) /\ Clonable(ais[k])
            BY <2>1 DEF Plain, Made
          <5>2. nfound = at - 1
            BY <2>1
          <5> QED
            BY <2>1, <5>1, <5>2, Zenon DEF FirstPass, Plain
        <4>3. FirstPass(p)'
          BY <1>1, <4>2, SameFirstPass
        <4>4. FirstPass(ps[1])'
          BY <4>1, <4>3, Zenon
        <4> QED
          BY <2>3, <3>2, <4>4, Zenon DEF Passing
      <3> QED
        BY <3>1, <3>2
    <2>7. Passing(PortPasses(req))'
      BY <2>3, <2>5, Zenon DEF Passing
    <2>8. Regular'
      BY <1>1, <2>1, SameRequest
    <2>9. gphase' \notin {"idle", "search", "create", "canon", "unix", "bad", "returned"}
      BY <1>3
    <2> QED
      BY <1>3, <2>7, <2>8, <2>9 DEF ListInv, ListIsExpected
  <1> QED
    BY <1>1, <1>2, <1>3

(* The first pass sets the structure at.                                   *)
LEMMA SetOne ==
    ASSUME GaInv, gphase = "port", passes # <<>>, at <= Len(ais), ga_port,
           NEW p, p = Head(passes), FirstPass(p),
           req.socktype = SockAny \/ p.socktype = req.socktype
    PROVE  FirstPass(p)' /\ gphase' = "port" /\ UNCHANGED <<req, passes, missed>>
  <1>1. /\ ais \in Seq(Entry) /\ Len(ais) \in Nat /\ passes \in Seq(Pass) /\ nfound \in Nat
        /\ at \in 1 .. Len(ais) + 1
    BY ListTyped DEF GaInv, GaTyped, GaTypeOK
  <1>2. PICK ai \in Entry, pass \in Pass, k \in 1 .. Len(ais) :
            k = at /\ ai = ais[k] /\ pass = Head(passes)
    BY <1>1, ElementOfSeq, HeadTailProperties
  <1>3. Made(ai) /\ At(ai, Addrs(req)[k]) /\ Clonable(ai)
    <2>1. k >= at
      BY <1>1, <1>2
    <2> QED
      BY <1>2, <2>1, Zenon DEF FirstPass
  <1>4. ~(ai.clone /\ ai.socktype # SockAny) /\ (ai.clone \/ ai.socktype = pass.socktype)
    BY <1>2, <1>3, Zenon DEF Made, Clonable
  <1> DEFINE set == [ai EXCEPT !.socktype = pass.socktype, !.port = pass.port]
  <1>5. /\ ais' = [ais EXCEPT ![k] = set] /\ nfound' = nfound + 1 /\ at' = at + 1
        /\ UNCHANGED <<gphase, req, passes, missed>>
    BY <1>2, <1>4, Zenon DEF ga_port
  <1>6. set \in Entry /\ At(set, Addrs(req)[k]) /\ For(set, pass) /\ Clonable(set)
    <2>1. /\ set \in Entry /\ set.family = ai.family /\ set.addr = ai.addr
          /\ set.socktype = pass.socktype /\ set.port = pass.port /\ set.clone = ai.clone
      BY DEF Entry, Pass
    <2> HIDE DEF set
    <2> QED
      BY <1>3, <2>1, Zenon DEF At, For, Clonable
  <1> HIDE DEF set
  <1>7. Len(ais') = Len(ais) /\ \A i \in 1 .. Len(ais) : ais'[i] = IF i = k THEN set ELSE ais[i]
    BY <1>1, <1>5, <1>6
  <1>8. \A i \in 1 .. Len(ais) :
            /\ At(ais'[i], Addrs(req)[i]) /\ Clonable(ais'[i])
            /\ i < at + 1 => For(ais'[i], p)
            /\ i >= at + 1 => Made(ais'[i])
    <2> SUFFICES ASSUME NEW i \in 1 .. Len(ais)
                 PROVE  /\ At(ais'[i], Addrs(req)[i]) /\ Clonable(ais'[i])
                        /\ i < at + 1 => For(ais'[i], p)
                        /\ i >= at + 1 => Made(ais'[i])
      OBVIOUS
    <2>1. CASE i = k
      <3>1. ~(i >= at + 1)
        BY <1>1, <1>2, <2>1
      <3> QED
        BY <1>2, <1>6, <1>7, <2>1, <3>1, Zenon
    <2>2. CASE i # k
      <3>1. ais'[i] = ais[i]
        BY <1>7, <2>2
      <3>2. (i < at + 1 => i < at) /\ (i >= at + 1 => i >= at)
        BY <1>1, <1>2, <2>2
      <3> QED
        BY <3>1, <3>2, Zenon DEF FirstPass
    <2> QED
      BY <2>1, <2>2
  <1>9. /\ Addrs(req)' = Addrs(req)
        /\ (\A e : Made(e)' <=> Made(e)) /\ \A e : Clonable(e)' <=> Clonable(e)
    BY <1>5, SameRequest, SameExpected
  <1>10. Len(ais') = Len(Addrs(req)) /\ nfound' = at' - 1
    BY <1>1, <1>5, <1>7 DEF FirstPass
  <1>11. \A i \in 1 .. Len(ais') :
            /\ At(ais'[i], Addrs(req)[i]) /\ Clonable(ais[i])'
            /\ i < at' => For(ais'[i], p)
            /\ i >= at' => Made(ais[i])'
    BY <1>5, <1>7, <1>8, <1>9, Zenon
  <1>12. FirstPass(p)'
    BY <1>9, <1>10, <1>11, Zenon DEF FirstPass, At, For
  <1> QED
    BY <1>5, <1>12

(* The second pass puts a clone behind the structure at.                   *)
LEMMA CloneOne ==
    ASSUME GaInv, Regular, gphase = "port", passes # <<>>, at <= Len(ais), ga_port,
           req.socktype = SockAny,
           NEW p, p.socktype = SockStream, NEW q, q = Head(passes),
           NEW j \in 0 .. Len(Addrs(req)), at = 2 * j + 1, Cloned(p, q, j)
    PROVE  \/ gphase' = "bad" /\ rc' = "EAI_MEMORY" /\ failed' = TRUE
           \/ /\ gphase' = "port" /\ UNCHANGED <<req, passes, missed>>
              /\ j + 1 \in 0 .. Len(Addrs(req))
              /\ at' = 2 * (j + 1) + 1 /\ Cloned(p, q, j + 1)'
  <1>1. /\ ais \in Seq(Entry) /\ Len(ais) \in Nat /\ passes \in Seq(Pass) /\ nfound \in Nat
        /\ at \in 1 .. Len(ais) + 1 /\ Len(Addrs(req)) \in Nat
    BY ListTyped, LookedTyped DEF GaInv, GaTyped, GaTypeOK
  <1>2. PICK ai \in Entry, pass \in Pass, k \in 1 .. Len(ais) :
            k = at /\ ai = ais[k] /\ pass = Head(passes)
    BY <1>1, ElementOfSeq, HeadTailProperties
  <1>3. PICK N \in Nat : N = Len(Addrs(req))
    BY <1>1
  <1>4. Len(ais) = N + j /\ j + 1 \in 1 .. N /\ j \in Nat /\ k = (j + 1) + j
    <2>1. Len(ais) = N + j
      BY <1>3, Zenon DEF Cloned
    <2> QED
      BY <1>1, <1>2, <1>3, <2>1
  <1>5. /\ \A i \in 1 .. j :
            /\ At(ais[2 * i - 1], Addrs(req)[i]) /\ For(ais[2 * i - 1], p)
            /\ At(ais[2 * i], Addrs(req)[i]) /\ For(ais[2 * i], q)
        /\ \A i \in j + 1 .. N :
            At(ais[i + j], Addrs(req)[i]) /\ For(ais[i + j], p) /\ Clonable(ais[i + j])
    BY <1>3, Zenon DEF Cloned
  <1>6. At(ai, Addrs(req)[j + 1]) /\ For(ai, p) /\ Clonable(ai)
    <2>1. j + 1 \in j + 1 .. N
      BY <1>4
    <2> QED
      BY <1>2, <1>4, <1>5, <2>1, Zenon
  <1>7. ai.clone /\ ai.socktype # SockAny
    <2>1. SockStream # SockAny
      BY DEF SockStream, SockAny
    <2> QED
      BY <1>6, <2>1, Zenon DEF For, Clonable
  <1>8. PICK n \in 0 .. 2 :
          LET new == [ais[at] EXCEPT !.clone = FALSE, !.hasAddr = n = 2]
          IN  IF n < 2
              THEN Bad("EAI_MEMORY") /\ failed' = TRUE
              ELSE /\ ais' = ga_clone(ais, at, [new EXCEPT !.socktype = Head(passes).socktype,
                                                           !.port = Head(passes).port])
                   /\ at' = at + 2 /\ nfound' = nfound + 1 /\ UNCHANGED gphase
    BY <1>2, <1>7, Zenon DEF ga_port
  <1>9. CASE n < 2
    BY <1>8, <1>9 DEF Bad
  <1>10. CASE ~(n < 2)
    <2> DEFINE set == [[ai EXCEPT !.clone = FALSE, !.hasAddr = n = 2]
                         EXCEPT !.socktype = pass.socktype, !.port = pass.port]
    <2>1. /\ ais' = ga_clone(ais, k, set) /\ at' = at + 2 /\ nfound' = nfound + 1
          /\ UNCHANGED <<gphase, req, passes, missed>>
      <3>1. UNCHANGED <<req, passes, missed>>
        BY DEF ga_port
      <3> QED
        BY <1>2, <1>8, <1>10, <3>1, Zenon
    <2>2. set \in Entry /\ At(set, Addrs(req)[j + 1]) /\ For(set, q)
      <3>1. /\ set \in Entry /\ set.family = ai.family /\ set.addr = ai.addr
            /\ set.socktype = pass.socktype /\ set.port = pass.port
        BY DEF Entry, Pass
      <3> HIDE DEF set
      <3> QED
        BY <1>2, <1>6, <3>1, Zenon DEF At, For
    <2> HIDE DEF set
    <2>3. PICK t : t = ais'
      OBVIOUS
    <2>4. /\ Len(t) = N + j + 1 /\ t[k + 1] = set
          /\ \A i \in 1 .. k : t[i] = ais[i]
          /\ \A i \in k + 2 .. N + j + 1 : t[i] = ais[i - 1]
      <3>1. /\ Len(t) = Len(ais) + 1 /\ t[k + 1] = set
            /\ \A i \in 1 .. k : t[i] = ais[i]
            /\ \A i \in k + 2 .. Len(ais) + 1 : t[i] = ais[i - 1]
        <4>1. /\ Len(ga_clone(ais, k, set)) = Len(ais) + 1
              /\ ga_clone(ais, k, set)[k + 1] = set
              /\ \A i \in 1 .. k : ga_clone(ais, k, set)[i] = ais[i]
              /\ \A i \in k + 2 .. Len(ais) + 1 : ga_clone(ais, k, set)[i] = ais[i - 1]
          <5>1. PICK s \in Seq(Entry), e \in Entry : s = ais /\ e = set
            BY <1>1, <2>2
          <5>2. k \in 1 .. Len(s)
            BY <5>1
          <5>3. /\ Len(ga_clone(s, k, e)) = Len(s) + 1
                /\ ga_clone(s, k, e)[k + 1] = e
                /\ \A i \in 1 .. k : ga_clone(s, k, e)[i] = s[i]
                /\ \A i \in k + 2 .. Len(s) + 1 : ga_clone(s, k, e)[i] = s[i - 1]
            BY <5>2, InsertedPlaces
          <5> QED
            BY <5>1, <5>3, Zenon
        <4>2. t = ga_clone(ais, k, set)
          BY <2>1, <2>3, Zenon
        <4> QED
          BY <4>1, <4>2, Zenon
      <3> QED
        BY <1>4, <3>1
    <2>5. ASSUME NEW i \in 1 .. j + 1
          PROVE  /\ At(t[2 * i - 1], Addrs(req)[i]) /\ For(t[2 * i - 1], p)
                 /\ At(t[2 * i], Addrs(req)[i]) /\ For(t[2 * i], q)
      <3>1. CASE i = j + 1
        <4>1. 2 * i - 1 = k /\ 2 * i = k + 1 /\ k \in 1 .. k
          BY <1>4, <3>1
        <4>2. t[2 * i - 1] = ai /\ t[2 * i] = set
          BY <1>2, <2>4, <4>1
        <4> QED
          BY <1>6, <2>2, <3>1, <4>2
      <3>2. CASE i \in 1 .. j
        <4>1. 2 * i - 1 \in 1 .. k /\ 2 * i \in 1 .. k
          BY <1>4, <3>2
        <4>2. t[2 * i - 1] = ais[2 * i - 1] /\ t[2 * i] = ais[2 * i]
          BY <2>4, <4>1
        <4> QED
          BY <1>5, <3>2, <4>2
      <3> QED
        BY <1>4, <3>1, <3>2
    <2>6. ASSUME NEW i \in j + 1 + 1 .. N
          PROVE  At(t[i + (j + 1)], Addrs(req)[i]) /\ For(t[i + (j + 1)], p) /\ Clonable(t[i + (j + 1)])
      <3>1. i + (j + 1) \in k + 2 .. N + j + 1 /\ i + (j + 1) - 1 = i + j /\ i \in j + 1 .. N
        BY <1>4
      <3>2. PICK x : x = i + (j + 1)
        OBVIOUS
      <3>3. x \in k + 2 .. N + j + 1 /\ x - 1 = i + j /\ i \in j + 1 .. N
        BY <3>1, <3>2
      <3>4. t[x] = ais[x - 1]
        BY <2>4, <3>3
      <3> QED
        BY <1>5, <3>2, <3>3, <3>4, Zenon
    <2>7. Len(t) = N + (j + 1) /\ nfound' > 0 /\ at' = 2 * (j + 1) + 1
      BY <1>1, <1>2, <1>4, <2>1, <2>4
    <2>8. Addrs(req)' = Addrs(req) /\ \A e : Clonable(e)' <=> Clonable(e)
      BY <2>1, SameRequest, SameExpected
    <2>9. PICK m \in Nat : m = j + 1
      BY <1>4
    <2>10. Cloned(p, q, m)'
      <3>1. Len(ais') = Len(Addrs(req)') + m /\ nfound' > 0
        BY <1>3, <2>3, <2>7, <2>8, <2>9, Zenon
      <3>2. \A i \in 1 .. m :
               /\ At(ais[2 * i - 1], Addrs(req)[i])' /\ For(ais[2 * i - 1], p)'
               /\ At(ais[2 * i], Addrs(req)[i])' /\ For(ais[2 * i], q)'
        BY <2>3, <2>5, <2>8, <2>9, Zenon DEF At, For
      <3>3. \A i \in m + 1 .. Len(Addrs(req)') :
               At(ais[i + m], Addrs(req)[i])' /\ For(ais[i + m], p)' /\ Clonable(ais[i + m])'
        BY <1>3, <2>3, <2>6, <2>8, <2>9, Zenon DEF At, For
      <3> QED
        BY <3>1, <3>2, <3>3, Zenon DEF Cloned
    <2>11. Cloned(p, q, j + 1)'
      BY <2>9, <2>10, Zenon
    <2> QED
      BY <1>3, <1>4, <2>1, <2>7, <2>11
  <1> QED
    BY <1>9, <1>10

(* ga_serv goes on.                                                        *)
LEMMA GoesPort ==
    ASSUME ListInv, gphase = "port", gphase' = "port", UNCHANGED req,
           NEW ps, ps = PortPasses(req), Passing(ps)'
    PROVE  ListInv'
  <1>1. Regular'
    BY SameRequest DEF ListInv
  <1>2. PortPasses(req)' = ps
    BY SameRequest
  <1>3. Passing(PortPasses(req))'
    BY <1>2, Zenon DEF Passing
  <1>4. gphase' \notin {"idle", "search", "create", "canon", "unix", "bad", "returned"}
    OBVIOUS
  <1> QED
    BY <1>1, <1>3, <1>4 DEF ListInv, ListIsExpected

(* What the passes are while ga_serv is at work.                           *)
LEMMA PassesNow ==
    ASSUME GaInv, ListInv, gphase = "port"
    PROVE  \E ps \in Seq(Pass) :
             /\ ps = PortPasses(req) /\ Passing(ps) /\ Regular
             /\ Len(ps) \in 0 .. 2 /\ (Len(ps) = 0 <=> ps = <<>>)
             /\ ps # <<>> => Head(ps) = ps[1]
             /\ Len(ps) = 2 =>
                  /\ req.socktype = SockAny /\ ps[1].socktype = SockStream
                  /\ Tail(ps) = <<ps[2]>> /\ Tail(ps) # <<>> /\ Head(Tail(ps)) = ps[2]
                  /\ Tail(Tail(ps)) = <<>>
             /\ Len(ps) = 1 =>
                  /\ Tail(ps) = <<>>
                  /\ req.socktype # SockAny => ps[1].socktype = req.socktype
  <1>1. req \in Requests \union {NoRequest}
    BY ListTyped
  <1>2. PICK ps \in Seq(Pass) : ps = PortPasses(req)
    BY <1>1, PassesTyped
  <1>3. Passing(ps) /\ Regular
    BY <1>2 DEF ListInv
  <1>4. /\ Len(ps) \in 0 .. 2 /\ (Len(ps) = 0 <=> ps = <<>>)
        /\ Len(ps) = 2 =>
             req.socktype = SockAny /\ ps[1].socktype = SockStream /\ Tail(ps) = <<ps[2]>>
        /\ Len(ps) = 1 =>
             /\ Tail(ps) = <<>>
             /\ req.socktype # SockAny => ps[1].socktype = req.socktype
    BY <1>1, <1>2, PassesOf
  <1>5. ps # <<>> => Head(ps) = ps[1]
    BY HeadTailProperties
  <1>6. \A x : <<x>> # <<>> /\ Head(<<x>>) = x /\ Tail(<<x>>) = <<>>
    OBVIOUS
  <1> QED
    BY <1>2, <1>3, <1>4, <1>5, <1>6, Zenon

(* A round of ga_port.                                                     *)
LEMMA PortList == GaInv /\ ListInv /\ ga_port => ListInv'
  <1> SUFFICES ASSUME GaInv, ListInv, ga_port PROVE ListInv'
    OBVIOUS
  <1>1. gphase = "port" /\ passes # <<>> /\ at <= Len(ais)
    BY DEF ga_port
  <1>2. PICK ps \in Seq(Pass) :
             /\ ps = PortPasses(req) /\ Passing(ps) /\ Regular
             /\ Len(ps) \in 0 .. 2 /\ (Len(ps) = 0 <=> ps = <<>>)
             /\ ps # <<>> => Head(ps) = ps[1]
             /\ Len(ps) = 2 =>
                  /\ req.socktype = SockAny /\ ps[1].socktype = SockStream
                  /\ Tail(ps) = <<ps[2]>> /\ Tail(ps) # <<>> /\ Head(Tail(ps)) = ps[2]
                  /\ Tail(Tail(ps)) = <<>>
             /\ Len(ps) = 1 =>
                  /\ Tail(ps) = <<>>
                  /\ req.socktype # SockAny => ps[1].socktype = req.socktype
    BY <1>1, PassesNow, Zenon
  <1>3. CASE ps # <<>> /\ passes = ps /\ FirstPass(ps[1])
    <2>1. PICK p : p = ps[1]
      OBVIOUS
    <2>2. p = Head(passes) /\ FirstPass(p)
      BY <1>2, <1>3, <2>1, Zenon
    <2>3. req.socktype = SockAny \/ p.socktype = req.socktype
      <3>1. Len(ps) = 1 \/ Len(ps) = 2
        BY <1>2, <1>3
      <3> QED
        BY <1>2, <2>1, <3>1, Zenon
    <2>4. FirstPass(p)' /\ gphase' = "port" /\ UNCHANGED <<req, passes, missed>>
      BY <1>1, <2>2, <2>3, SetOne
    <2>5. FirstPass(ps[1])'
      BY <2>1, <2>4, Zenon
    <2>6. Passing(ps)'
      BY <1>3, <2>4, <2>5, Zenon DEF Passing
    <2> QED
      BY <1>1, <1>2, <2>4, <2>6, GoesPort
  <1>4. CASE /\ Len(ps) = 2 /\ passes = Tail(ps)
             /\ \E j \in 0 .. Len(Addrs(req)) : at = 2 * j + 1 /\ Cloned(ps[1], ps[2], j)
    <2>1. PICK j \in 0 .. Len(Addrs(req)) : at = 2 * j + 1 /\ Cloned(ps[1], ps[2], j)
      BY <1>4
    <2>2. PICK p, q : p = ps[1] /\ q = ps[2]
      OBVIOUS
    <2>3. p.socktype = SockStream /\ q = Head(passes) /\ req.socktype = SockAny /\ Cloned(p, q, j)
      BY <1>2, <1>4, <2>1, <2>2, Zenon
    <2>4. \/ gphase' = "bad" /\ rc' = "EAI_MEMORY" /\ failed' = TRUE
          \/ /\ gphase' = "port" /\ UNCHANGED <<req, passes, missed>>
             /\ j + 1 \in 0 .. Len(Addrs(req))
             /\ at' = 2 * (j + 1) + 1 /\ Cloned(p, q, j + 1)'
      BY <1>1, <1>2, <2>1, <2>3, CloneOne
    <2>5. CASE gphase' = "bad" /\ rc' = "EAI_MEMORY" /\ failed' = TRUE
      BY <2>5, GoesBad
    <2>6. CASE /\ gphase' = "port" /\ UNCHANGED <<req, passes, missed>>
               /\ j + 1 \in 0 .. Len(Addrs(req))
               /\ at' = 2 * (j + 1) + 1 /\ Cloned(p, q, j + 1)'
      <3>1. Addrs(req)' = Addrs(req)
        BY <2>6, SameExpected
      <3>2. PICK m : m = j + 1
        OBVIOUS
      <3>3. m \in 0 .. Len(Addrs(req)') /\ at' = 2 * m + 1 /\ Cloned(ps[1], ps[2], m)'
        BY <2>2, <2>6, <3>1, <3>2, Zenon
      <3>4. Passing(ps)'
        BY <1>4, <2>6, <3>3, Zenon DEF Passing
      <3> QED
        BY <1>1, <1>2, <2>6, <3>4, GoesPort
    <2> QED
      BY <2>4, <2>5, <2>6
  <1> QED
    BY <1>1, <1>2, <1>3, <1>4, Zenon DEF Passing

(* The first pass is over when it is behind the last structure.            *)
LEMMA FirstPassOver ==
    ASSUME GaInv, gphase = "port", at > Len(ais), NEW p, FirstPass(p), NEW q,
           UNCHANGED <<req, missed, ais, nfound>>
    PROVE  Cloned(p, q, 0)'
  <1>1. /\ Len(ais) \in Nat /\ at \in 1 .. Len(ais) + 1 /\ ais # <<>> /\ Len(ais) # 0
    BY ListTyped DEF GaInv, GaPhases
  <1>2. Len(ais) = Len(Addrs(req)) /\ nfound = at - 1
    BY DEF FirstPass
  <1>3. nfound > 0 /\ Len(ais) = Len(Addrs(req)) + 0
    BY <1>1, <1>2
  <1>4. \A i \in 1 .. Len(ais) : At(ais[i], Addrs(req)[i]) /\ For(ais[i], p) /\ Clonable(ais[i])
    <2> SUFFICES ASSUME NEW i \in 1 .. Len(ais)
                 PROVE  At(ais[i], Addrs(req)[i]) /\ For(ais[i], p) /\ Clonable(ais[i])
      OBVIOUS
    <2>1. i < at
      BY <1>1
    <2> QED
      BY <2>1, Zenon DEF FirstPass
  <1>5. \A i \in 0 + 1 .. Len(Addrs(req)) : i + 0 = i /\ i \in 1 .. Len(ais)
    BY <1>1, <1>2
  <1>6. Addrs(req)' = Addrs(req) /\ \A e : Clonable(e)' <=> Clonable(e)
    BY SameRequest, SameExpected
  <1>7. /\ Len(ais') = Len(Addrs(req)') + 0 /\ nfound' > 0
        /\ 1 .. 0 = {}
        /\ \A i \in 0 + 1 .. Len(Addrs(req)') :
              At(ais'[i + 0], Addrs(req)'[i]) /\ For(ais'[i + 0], p) /\ Clonable(ais[i + 0])'
    <2>1. Len(ais') = Len(Addrs(req)') + 0 /\ nfound' > 0
      BY <1>3, <1>6, Zenon
    <2>2. \A i \in 0 + 1 .. Len(Addrs(req)') :
              At(ais'[i + 0], Addrs(req)'[i]) /\ For(ais'[i + 0], p) /\ Clonable(ais[i + 0])'
      BY <1>4, <1>5, <1>6, Zenon
    <2>3. 1 .. 0 = {}
      OBVIOUS
    <2> QED
      BY <2>1, <2>2, <2>3
  <1> QED
    BY <1>7, Zenon DEF Cloned, At, For

(* ga_port is at the end of the list.                                      *)
LEMMA PortEndList == GaInv /\ ListInv /\ ga_port_end => ListInv'
  <1> SUFFICES ASSUME GaInv, ListInv, ga_port_end PROVE ListInv'
    OBVIOUS
  <1>1. /\ gphase = "port" /\ passes # <<>> /\ at > Len(ais) /\ passes' = Tail(passes) /\ at' = 1
        /\ UNCHANGED <<req, gphase, missed, ais, nfound>>
    BY DEF ga_port_end
  <1>2. PICK ps \in Seq(Pass) :
             /\ ps = PortPasses(req) /\ Passing(ps) /\ Regular
             /\ Len(ps) \in 0 .. 2 /\ (Len(ps) = 0 <=> ps = <<>>)
             /\ ps # <<>> => Head(ps) = ps[1]
             /\ Len(ps) = 2 =>
                  /\ req.socktype = SockAny /\ ps[1].socktype = SockStream
                  /\ Tail(ps) = <<ps[2]>> /\ Tail(ps) # <<>> /\ Head(Tail(ps)) = ps[2]
                  /\ Tail(Tail(ps)) = <<>>
             /\ Len(ps) = 1 =>
                  /\ Tail(ps) = <<>>
                  /\ req.socktype # SockAny => ps[1].socktype = req.socktype
    BY <1>1, PassesNow, Zenon
  <1>3. /\ Len(ais) \in Nat /\ at \in 1 .. Len(ais) + 1 /\ Len(Addrs(req)) \in Nat
        /\ Addrs(req)' = Addrs(req) /\ \A e : Clonable(e)' <=> Clonable(e)
    BY <1>1, <1>2, ListTyped, LookedTyped, SameRequest, SameExpected
  <1>4. PICK p, q : p = ps[1] /\ q = ps[2]
    OBVIOUS
  <1>5. ASSUME ps # <<>>, passes = ps, FirstPass(ps[1]) PROVE Passing(ps)'
    <2>1. FirstPass(p)
      BY <1>4, <1>5, Zenon
    <2>2. Cloned(p, p, 0)' /\ Cloned(p, q, 0)'
      BY <1>1, <2>1, FirstPassOver
    <2>3. Len(ps) = 1 \/ Len(ps) = 2
      BY <1>2, <1>5
    <2>4. CASE Len(ps) = 1
      BY <1>1, <1>2, <1>4, <1>5, <2>2, <2>4, Zenon DEF Passing
    <2>5. CASE Len(ps) = 2
      <3>1. 0 \in 0 .. Len(Addrs(req)') /\ at' = 2 * 0 + 1
        BY <1>1, <1>3
      <3> QED
        BY <1>1, <1>2, <1>4, <1>5, <2>2, <2>5, <3>1, Zenon DEF Passing
    <2> QED
      BY <2>3, <2>4, <2>5
  <1>6. ASSUME Len(ps) = 2, passes = Tail(ps),
               \E j \in 0 .. Len(Addrs(req)) : at = 2 * j + 1 /\ Cloned(ps[1], ps[2], j)
        PROVE  Passing(ps)'
    <2>1. PICK j \in 0 .. Len(Addrs(req)) : at = 2 * j + 1 /\ Cloned(ps[1], ps[2], j)
      BY <1>6
    <2>2. j = Len(Addrs(req))
      <3>1. Len(ais) = Len(Addrs(req)) + j
        BY <2>1, Zenon DEF Cloned
      <3> QED
        BY <1>1, <1>3, <2>1, <3>1
    <2>3. Cloned(p, q, j)
      BY <1>4, <2>1, Zenon
    <2>4. Cloned(p, q, j)'
      BY <1>1, <1>3, <2>3, Zenon DEF Cloned, At, For
    <2>5. Cloned(ps[1], ps[2], Len(Addrs(req)))'
      BY <1>3, <1>4, <2>2, <2>4, Zenon
    <2>6. passes' = <<>>
      BY <1>1, <1>2, <1>6, Zenon
    <2> QED
      BY <1>6, <2>5, <2>6, Zenon DEF Passing
  <1>7. Passing(ps)'
    BY <1>1, <1>2, <1>5, <1>6, Zenon DEF Passing
  <1> QED
    BY <1>1, <1>2, <1>7, GoesPort

(* A list with the structures in the order of the addresses, and for each  *)
(* in the order of the types, is the one expected.                         *)
LEMMA ExpectedOf ==
    ASSUME Regular, ais \in Seq(Entry), ais # <<>>, NEW n, n = Len(Types(req)),
           Len(ais) = Len(Addrs(req)) * n,
           \A k \in 1 .. Len(ais) :
               /\ At(ais[k], Addrs(req)[((k - 1) \div n) + 1])
               /\ For(ais[k], Types(req)[((k - 1) % n) + 1])
    PROVE  Expected(req) = [k \in DOMAIN ais |-> Structure(ais[k], ais[k])] /\ Expected(req) # <<>>
  <1>1. Expected(req) = [k \in 1 .. Len(Addrs(req)) * n |->
            Structure(Addrs(req)[((k - 1) \div n) + 1], Types(req)[((k - 1) % n) + 1])]
    BY Zenon DEF Expected, Regular
  <1>2. DOMAIN ais = 1 .. Len(ais) /\ Len(ais) \in Nat /\ Len(ais) # 0
    BY LenProperties, EmptySeq
  <1>3. Expected(req) = [k \in 1 .. Len(ais) |->
            Structure(Addrs(req)[((k - 1) \div n) + 1], Types(req)[((k - 1) % n) + 1])]
    BY <1>1, Zenon
  <1>4. ASSUME NEW k \in 1 .. Len(ais)
        PROVE  Structure(Addrs(req)[((k - 1) \div n) + 1], Types(req)[((k - 1) % n) + 1])
                 = Structure(ais[k], ais[k])
    BY Zenon DEF At, For, Structure
  <1>5. Expected(req) = [k \in 1 .. Len(ais) |-> Structure(ais[k], ais[k])]
    BY <1>3, <1>4
  <1>6. DOMAIN Expected(req) = 1 .. Len(ais) /\ 1 \in 1 .. Len(ais)
    BY <1>2, <1>5
  <1>7. DOMAIN <<>> = {}
    OBVIOUS
  <1>8. Expected(req) # <<>>
    BY <1>6, <1>7
  <1> QED
    BY <1>2, <1>5, <1>8, Zenon

(* The call returns a list, or without one.                                *)
LEMMA Returned ==
    ASSUME gphase' = "returned",
           \/ /\ rc' = "0" /\ Expected(req)' # <<>>
              /\ Expected(req)' = [k \in DOMAIN ais' |-> Structure(ais'[k], ais'[k])]
           \/ rc' # "0" /\ (failed' = TRUE \/ Expected(req)' = <<>>)
    PROVE  ListInv'
  <1>1. ListIsExpected'
    BY Zenon DEF ListIsExpected, Structure
  <1>2. gphase' \notin {"idle", "search", "create", "canon", "port", "unix", "bad"}
    OBVIOUS
  <1> QED
    BY <1>1, <1>2 DEF ListInv

(* ga_serv is done.                                                        *)
LEMMA ServedList == GaInv /\ ListInv /\ served => ListInv'
  <1> SUFFICES ASSUME GaInv, ListInv, served PROVE ListInv'
    OBVIOUS
  <1>1. /\ gphase = "port" /\ passes = <<>> /\ UNCHANGED <<req, missed, ais>>
        /\ \/ (req.serv = Null \/ nfound > 0) /\ gphase' = "returned" /\ rc' = rc
           \/ /\ req.serv # Null /\ ~(nfound > 0) /\ gphase' = "bad"
              /\ rc' \in {"EAI_NONAME", "EAI_SERVICE"}
    BY DEF served, work, Bad
  <1>2. PICK ps \in Seq(Pass) :
             /\ ps = PortPasses(req) /\ Passing(ps) /\ Regular
             /\ Len(ps) \in 0 .. 2 /\ (Len(ps) = 0 <=> ps = <<>>)
             /\ ps # <<>> => Head(ps) = ps[1]
             /\ Len(ps) = 2 =>
                  /\ req.socktype = SockAny /\ ps[1].socktype = SockStream
                  /\ Tail(ps) = <<ps[2]>> /\ Tail(ps) # <<>> /\ Head(Tail(ps)) = ps[2]
                  /\ Tail(Tail(ps)) = <<>>
             /\ Len(ps) = 1 =>
                  /\ Tail(ps) = <<>>
                  /\ req.socktype # SockAny => ps[1].socktype = req.socktype
    BY <1>1, PassesNow, Zenon
  <1>3. /\ ais \in Seq(Entry) /\ Len(ais) \in Nat /\ Len(Addrs(req)) \in Nat /\ ais # <<>> /\ rc = "0"
        /\ Expected(req)' = Expected(req) /\ req \in Requests \union {NoRequest} /\ nfound \in Nat
    BY <1>1, <1>2, ListTyped, LookedTyped, SameExpected DEF GaInv, GaPhases, GaTyped, GaTypeOK
  <1>4. /\ req.serv = Null => ps = <<>> /\ Types(req) = <<[socktype |-> req.socktype, port |-> 0]>>
        /\ req.serv # Null => Types(req) = ps
    BY <1>2, <1>3, PassesOf, Zenon
  <1>5. \/ ps = <<>> /\ Plain /\ nfound = 0
        \/ Len(ps) = 1 /\ Cloned(ps[1], ps[1], 0)
        \/ Len(ps) = 2 /\ Cloned(ps[1], ps[2], Len(Addrs(req)))
    BY <1>1, <1>2, Zenon DEF Passing
  <1>6. CASE (req.serv = Null \/ nfound > 0) /\ gphase' = "returned" /\ rc' = rc
    <2>1. Expected(req) = [k \in DOMAIN ais |-> Structure(ais[k], ais[k])] /\ Expected(req) # <<>>
      <3>1. CASE ps = <<>> /\ Plain /\ nfound = 0
        <4> DEFINE x == [socktype |-> req.socktype, port |-> 0]
        <4>1. Types(req) = <<x>>
          BY <1>4, <1>6, <3>1
        <4>2. x.socktype = req.socktype /\ x.port = 0
          OBVIOUS
        <4> HIDE DEF x
        <4>3. Len(Types(req)) = 1 /\ Types(req)[1] = x
          BY <4>1, OneOf
        <4>4. Len(ais) = Len(Addrs(req)) * 1
          BY <1>3, <3>1 DEF Plain
        <4>5. ASSUME NEW k \in 1 .. Len(ais)
              PROVE  /\ At(ais[k], Addrs(req)[((k - 1) \div 1) + 1])
                     /\ For(ais[k], Types(req)[((k - 1) % 1) + 1])
          <5>1. ((k - 1) \div 1) + 1 = k /\ ((k - 1) % 1) + 1 = 1
            BY <1>3
          <5>2. At(ais[k], Addrs(req)[k]) /\ Made(ais[k])
            BY <3>1, Zenon DEF Plain
          <5>3. For(ais[k], Types(req)[1])
            BY <4>2, <4>3, <5>2, Zenon DEF For, Made
          <5> QED
            BY <5>1, <5>2, <5>3
        <4> QED
          BY <1>2, <1>3, <4>3, <4>4, <4>5, ExpectedOf
      <3>2. CASE Len(ps) = 1 /\ Cloned(ps[1], ps[1], 0)
        <4>1. Types(req) = ps
          BY <1>2, <1>4, <3>2
        <4>2. Len(ais) = Len(Addrs(req)) * 1 /\ Len(ais) = Len(Addrs(req))
          <5>1. Len(ais) = Len(Addrs(req)) + 0
            BY <3>2, Zenon DEF Cloned
          <5> QED
            BY <1>3, <5>1
        <4>3. PICK p : p = ps[1]
          OBVIOUS
        <4>4. \A i \in 0 + 1 .. Len(Addrs(req)) : At(ais[i + 0], Addrs(req)[i]) /\ For(ais[i + 0], p)
          BY <3>2, <4>3, Zenon DEF Cloned
        <4>5. ASSUME NEW k \in 1 .. Len(ais)
              PROVE  /\ At(ais[k], Addrs(req)[((k - 1) \div 1) + 1])
                     /\ For(ais[k], Types(req)[((k - 1) % 1) + 1])
          <5>1. ((k - 1) \div 1) + 1 = k /\ ((k - 1) % 1) + 1 = 1
            BY <1>3
          <5>2. k \in 0 + 1 .. Len(Addrs(req)) /\ k + 0 = k
            BY <1>3, <4>2
          <5>3. At(ais[k], Addrs(req)[k]) /\ For(ais[k], p)
            BY <4>4, <5>2, Zenon
          <5> QED
            BY <4>1, <4>3, <5>1, <5>3, Zenon
        <4> QED
          BY <1>2, <1>3, <3>2, <4>1, <4>2, <4>5, ExpectedOf
      <3>3. CASE Len(ps) = 2 /\ Cloned(ps[1], ps[2], Len(Addrs(req)))
        <4>1. Types(req) = ps
          BY <1>2, <1>4, <3>3
        <4>2. PICK p, q, j : p = ps[1] /\ q = ps[2] /\ j = Len(Addrs(req))
          OBVIOUS
        <4>3. j \in Nat /\ Len(ais) = j + j
          <5>1. Len(ais) = Len(Addrs(req)) + Len(Addrs(req))
            BY <3>3, Zenon DEF Cloned
          <5> QED
            BY <1>3, <4>2, <5>1
        <4>4. \A i \in 1 .. j :
                /\ At(ais[2 * i - 1], Addrs(req)[i]) /\ For(ais[2 * i - 1], p)
                /\ At(ais[2 * i], Addrs(req)[i]) /\ For(ais[2 * i], q)
          BY <3>3, <4>2, Zenon DEF Cloned
        <4>5. ASSUME NEW k \in 1 .. Len(ais)
              PROVE  /\ At(ais[k], Addrs(req)[((k - 1) \div 2) + 1])
                     /\ For(ais[k], Types(req)[((k - 1) % 2) + 1])
          <5>1. PICK i \in 1 .. j : i = ((k - 1) \div 2) + 1
            BY <4>3
          <5>2. CASE (k - 1) % 2 = 0
            <6>1. k = 2 * i - 1 /\ ((k - 1) % 2) + 1 = 1
              BY <4>3, <5>1, <5>2
            <6> QED
              BY <4>1, <4>2, <4>4, <5>1, <6>1, Zenon
          <5>3. CASE (k - 1) % 2 # 0
            <6>1. k = 2 * i /\ ((k - 1) % 2) + 1 = 2
              BY <4>3, <5>1, <5>3
            <6> QED
              BY <4>1, <4>2, <4>4, <5>1, <6>1, Zenon
          <5> QED
            BY <5>2, <5>3
        <4>6. Len(ais) = Len(Addrs(req)) * 2
          BY <4>2, <4>3
        <4> QED
          BY <1>2, <1>3, <3>3, <4>1, <4>6, <4>5, ExpectedOf
      <3> QED
        BY <1>5, <3>1, <3>2, <3>3
    <2>2. /\ Expected(req)' # <<>>
          /\ Expected(req)' = [k \in DOMAIN ais' |-> Structure(ais'[k], ais'[k])]
      BY <1>1, <1>3, <2>1, Zenon
    <2> QED
      BY <1>3, <1>6, <2>2, Returned
  <1>7. CASE /\ req.serv # Null /\ ~(nfound > 0) /\ gphase' = "bad"
             /\ rc' \in {"EAI_NONAME", "EAI_SERVICE"}
    <2>1. ps = <<>>
      BY <1>5, <1>7, Zenon DEF Cloned
    <2>2. Types(req) = <<>>
      BY <1>4, <1>7, <2>1
    <2>3. Expected(req)' = <<>>
      BY <1>2, <1>3, <2>2, NothingExpected
    <2> QED
      BY <1>7, <2>3, GoesBad
  <1> QED
    BY <1>1, <1>6, <1>7

(* getaddrinfo is called.                                                  *)
LEMMA CallList == GaInv /\ ListInv /\ ga_call => ListInv'
  <1> SUFFICES ASSUME GaInv, ListInv, ga_call PROVE ListInv'
    OBVIOUS
  <1>1. /\ gphase = "idle" /\ req' \in Requests /\ UNCHANGED <<todo, ais, at, nfound, missed>>
    BY DEF ga_call
  <1>2. PICK r \in Requests : r = req'
    BY <1>1
  <1>3. \/ ga_echeck(r) # "0" /\ rc' = ga_echeck(r) /\ gphase' = "bad"
        \/ /\ ga_echeck(r) = "0" /\ IsUnix(r) /\ r.family \notin {Unspec, Local}
           /\ rc' = "EAI_ADDRFAMILY" /\ gphase' = "returned"
        \/ /\ ga_echeck(r) = "0" /\ IsUnix(r) /\ r.family \in {Unspec, Local}
           /\ passes' = UnixTypes(r) /\ gphase' = "unix"
        \/ /\ ga_echeck(r) = "0" /\ ~IsUnix(r) /\ search' = ga_nsearch(r)
           /\ gphase' = IF ga_nsearch(r) = <<>> THEN "err_quit" ELSE "search"
    BY <1>2, Zenon DEF ga_call, Bad, UnixTypes
  <1>4. /\ todo = <<>> /\ at = 1 /\ nfound = 0 /\ missed = {} /\ ais = <<>> /\ Len(<<>>) = 0
    BY <1>1, NoList DEF ListInv, GaInv, GaPhases
  <1>5. /\ ga_echeck(r) # "0" => Expected(req)' = <<>>
        /\ ga_echeck(r) = "0" /\ IsUnix(r) /\ r.family \notin {Unspec, Local} => Expected(req)' = <<>>
    BY <1>2, Zenon DEF Expected
  <1>6. CASE ga_echeck(r) # "0" /\ rc' = ga_echeck(r) /\ gphase' = "bad"
    BY <1>5, <1>6, GoesBad
  <1>7. CASE /\ ga_echeck(r) = "0" /\ IsUnix(r) /\ r.family \notin {Unspec, Local}
             /\ rc' = "EAI_ADDRFAMILY" /\ gphase' = "returned"
    BY <1>5, <1>7, Returned
  <1>8. CASE /\ ga_echeck(r) = "0" /\ IsUnix(r) /\ r.family \in {Unspec, Local}
             /\ passes' = UnixTypes(r) /\ gphase' = "unix"
    <2>1. PICK u : u = UnixTypes(r)
      OBVIOUS
    <2>2. Len(u) \in Nat
      <3>1. u = <<SockStream, SockDgram>> \/ u = <<r.socktype>>
        BY <2>1 DEF UnixTypes
      <3> QED
        BY <3>1
    <2>3. ais' = <<>> /\ Len(ais') = 0 /\ Len(ais') + Len(u) = Len(u)
      BY <1>1, <1>4, <2>2
    <2>4. \A k \in 1 .. Len(u) : u[k] = u[Len(ais') + k]
      <3>1. \A k \in 1 .. Len(u) : Len(ais') + k = k
        BY <2>3
      <3> QED
        BY <3>1, Zenon
    <2>5. 1 .. Len(ais') = {}
      BY <2>3
    <2>6. UnixMade'
      BY <1>2, <1>8, <2>1, <2>3, <2>4, <2>5, Zenon DEF UnixMade
    <2>7. gphase' \notin {"idle", "search", "create", "canon", "port", "bad", "returned"}
      BY <1>8
    <2> QED
      BY <2>6, <2>7 DEF ListInv, ListIsExpected
  <1>9. CASE /\ ga_echeck(r) = "0" /\ ~IsUnix(r) /\ search' = ga_nsearch(r)
             /\ gphase' = IF ga_nsearch(r) = <<>> THEN "err_quit" ELSE "search"
    <2>1. CASE ga_nsearch(r) = <<>>
      <3>1. gphase' \notin {"idle", "search", "create", "canon", "port", "unix", "bad", "returned"}
        BY <1>9, <2>1
      <3> QED
        BY <3>1 DEF ListInv, ListIsExpected
    <2>2. CASE ga_nsearch(r) # <<>>
      <3>1. r.family \in {Unspec, Inet, Inet6}
        BY <2>2, PlacesOf, Zenon
      <3>2. Regular'
        BY <1>2, <1>9, <3>1, Zenon DEF Regular
      <3>3. PlaceOK' /\ Looked' = <<>>
        BY <1>1, <1>2, <1>4, <1>9, <2>2, Zenon DEF PlaceOK, Looked
      <3>4. Len(ais') = 0 /\ todo' = <<>> /\ todo' \in Seq(Address)
        BY <1>1, <1>4
      <3>5. Searching'
        BY <3>3, <3>4, FirstLooked
      <3>6. gphase' = "search" /\ at' = 1 /\ nfound' = 0
        BY <1>1, <1>4, <1>9, <2>2
      <3>7. gphase' \notin {"idle", "canon", "port", "unix", "bad", "returned"}
        BY <3>6
      <3> QED
        BY <3>2, <3>4, <3>5, <3>6, <3>7 DEF ListInv, ListIsExpected
    <2> QED
      BY <2>1, <2>2
  <1> QED
    BY <1>3, <1>6, <1>7, <1>8, <1>9

(* ga_unix makes a structure, or finds the path too long.                  *)
LEMMA UnixCreateList == GaInv /\ GaInv' /\ ListInv /\ unix_create => ListInv'
  <1> SUFFICES ASSUME GaInv, GaInv', ListInv, unix_create PROVE ListInv'
    OBVIOUS
  <1> DEFINE s == ServTable[req.serv]
  <1>1. gphase = "unix" /\ passes # <<>> /\ UNCHANGED <<req, missed>>
    BY DEF unix_create
  <1>2. PICK n \in IF s.long THEN 0 .. 1 ELSE 0 .. 2 :
            /\ ga_aistruct(Local, s.path, Head(passes), n)
            /\ IF n = 1 /\ s.long
               THEN UnixFails("EAI_SERVICE")
               ELSE IF n < 2
               THEN UnixFails("EAI_MEMORY") /\ failed' = TRUE
               ELSE passes' = Tail(passes) /\ gphase' = gphase
    BY Zenon DEF unix_create
  <1>3. /\ UnixMade /\ ais \in Seq(Entry) /\ Len(ais) \in Nat /\ passes \in Seq(SocketTypes)
        /\ ais' \in Seq(Entry)
    BY <1>1, ListTyped DEF ListInv, GaInv, GaTyped, GaTypeOK
  <1>4. n \in 0 .. 2 /\ (s.long => n < 2)
    BY <1>2
  <1> HIDE DEF s
  <1>5. CASE n = 1 /\ s.long
    <2>1. Expected(req) = <<>>
      BY <1>3, <1>5, Zenon DEF UnixMade, Expected, s
    <2>2. Expected(req)' = <<>>
      BY <1>1, <2>1, SameExpected
    <2> QED
      BY <1>2, <1>5, <2>2, Returned DEF UnixFails
  <1>6. CASE ~(n = 1 /\ s.long) /\ n < 2
    BY <1>2, <1>6, Returned DEF UnixFails
  <1>7. CASE ~(n < 2)
    <2> DEFINE e == [family |-> Local, addr |-> s.path, socktype |-> Head(passes),
                     port |-> 0, clone |-> Head(passes) = SockAny, hasAddr |-> n = 2]
    <2>1. ais' = Append(ais, e) /\ passes' = Tail(passes) /\ gphase' = "unix" /\ ~s.long
      BY <1>1, <1>2, <1>4, <1>7 DEF ga_aistruct
    <2>2. UnixEntry(e, Head(passes))
      BY DEF UnixEntry, s
    <2> HIDE DEF e
    <2>3. /\ Len(passes) \in Nat /\ Len(passes') = Len(passes) - 1 /\ Len(passes) > 0
          /\ Head(passes) = passes[1] /\ \A i \in 1 .. Len(passes') : passes'[i] = passes[i + 1]
      BY <1>1, <1>3, <2>1, HeadTailProperties, EmptySeq, LenProperties
    <2>4. Len(ais') = Len(ais) + 1 /\ ais'[Len(ais) + 1] = e /\ \A i \in 1 .. Len(ais) : ais'[i] = ais[i]
      BY <1>3, <2>1
    <2>5. PICK u : u = UnixTypes(req) /\ u = UnixTypes(req)'
      BY <1>1, SameRequest
    <2>6. /\ Len(ais) + Len(passes) = Len(u)
          /\ \A k \in 1 .. Len(ais) : UnixEntry(ais[k], u[k])
          /\ \A k \in 1 .. Len(passes) : passes[k] = u[Len(ais) + k]
      BY <1>3, <2>5, Zenon DEF UnixMade
    <2>7. Len(ais') + Len(passes') = Len(u)
      <3>1. Len(ais') + Len(passes') = Len(ais) + Len(passes)
        BY <1>3, <2>3, <2>4
      <3> QED
        BY <2>6, <3>1, Zenon
    <2>8. ASSUME NEW k \in 1 .. Len(ais') PROVE UnixEntry(ais'[k], u[k])
      <3>1. CASE k = Len(ais) + 1
        <4>1. 1 \in 1 .. Len(passes)
          BY <2>3
        <4>2. u[Len(ais) + 1] = Head(passes)
          BY <2>3, <2>6, <4>1, Zenon
        <4> QED
          BY <2>2, <2>4, <3>1, <4>2, Zenon
      <3>2. CASE k \in 1 .. Len(ais)
        BY <2>4, <2>6, <3>2, Zenon
      <3> QED
        BY <1>3, <2>4, <3>1, <3>2
    <2>9. ASSUME NEW k \in 1 .. Len(passes') PROVE passes'[k] = u[Len(ais') + k]
      <3>1. k + 1 \in 1 .. Len(passes) /\ Len(ais) + (k + 1) = Len(ais') + k
        BY <1>3, <2>3, <2>4
      <3>2. passes[k + 1] = u[Len(ais) + (k + 1)]
        BY <2>6, <3>1
      <3> QED
        BY <2>3, <3>1, <3>2, Zenon
    <2>10. \A x, t : UnixEntry(x, t)' <=> UnixEntry(x, t)
      BY <1>1, Zenon DEF UnixEntry
    <2>11. /\ ga_echeck(req)' = "0" /\ IsUnix(req)' /\ req'.family \in {Unspec, Local}
           /\ ~ServTable[req'.serv].long
      BY <1>1, <1>3, <2>1, Zenon DEF UnixMade, s
    <2>12. UnixMade'
      <3>1. \A k \in 1 .. Len(ais') : UnixEntry(ais[k], UnixTypes(req)[k])'
        BY <1>1, <2>5, <2>8, Zenon DEF UnixEntry
      <3>2. \A k \in 1 .. Len(passes') : passes'[k] = (UnixTypes(req)')[Len(ais') + k]
        BY <2>5, <2>9, Zenon
      <3>3. Len(ais') + Len(passes') = Len(UnixTypes(req)')
        BY <2>5, <2>7, Zenon
      <3> QED
        BY <2>11, <3>1, <3>2, <3>3, Zenon DEF UnixMade
    <2>13. gphase' \notin {"idle", "search", "create", "canon", "port", "bad", "returned"}
      BY <2>1
    <2> QED
      BY <2>12, <2>13 DEF ListInv, ListIsExpected
  <1> QED
    BY <1>5, <1>6, <1>7

(* ga_unix returns its list, or loses it.                                  *)
LEMMA UnixCanonList == GaInv /\ ListInv /\ unix_canonname => ListInv'
  <1> SUFFICES ASSUME GaInv, ListInv, unix_canonname PROVE ListInv'
    OBVIOUS
  <1>1. /\ gphase = "unix" /\ passes = <<>> /\ gphase' = "returned" /\ UNCHANGED <<req, missed, ais>>
        /\ \/ rc' = rc
           \/ rc' \in {"EAI_SYSTEM", "EAI_MEMORY"} /\ failed' = TRUE
    BY DEF unix_canonname, UnixFails
  <1>2. CASE rc' \in {"EAI_SYSTEM", "EAI_MEMORY"} /\ failed' = TRUE
    BY <1>1, <1>2, Returned
  <1>3. CASE rc' = rc
    <2>1. /\ UnixMade /\ ais \in Seq(Entry) /\ Len(ais) \in Nat /\ ais # <<>> /\ Len(ais) # 0
          /\ DOMAIN ais = 1 .. Len(ais) /\ rc = "0" /\ Len(<<>>) = 0
      BY <1>1, ListTyped, NoList, LenProperties DEF ListInv, GaInv, GaPhases
    <2>2. PICK u : u = UnixTypes(req)
      OBVIOUS
    <2>3. /\ Len(u) = Len(ais) /\ \A k \in 1 .. Len(ais) : UnixEntry(ais[k], u[k])
      <3>1. /\ Len(ais) + Len(passes) = Len(u) /\ \A k \in 1 .. Len(ais) : UnixEntry(ais[k], u[k])
        BY <2>1, <2>2, Zenon DEF UnixMade
      <3> QED
        BY <1>1, <2>1, <3>1
    <2>4. DOMAIN u = 1 .. Len(u)
      <3>1. u = <<SockStream, SockDgram>> \/ u = <<req.socktype>>
        BY <2>2 DEF UnixTypes
      <3> QED
        BY <3>1
    <2>5. Expected(req) = [k \in DOMAIN u |->
                  Structure([family |-> Local, addr |-> ServTable[req.serv].path],
                            [socktype |-> u[k], port |-> 0])]
      <3>1. /\ ga_echeck(req) = "0" /\ IsUnix(req) /\ ~ServTable[req.serv].long
            /\ req.family \in {Unspec, Local}
        BY <2>1, Zenon DEF UnixMade
      <3> QED
        BY <2>2, <3>1, Zenon DEF Expected
    <2>6. ASSUME NEW k \in 1 .. Len(ais)
          PROVE  Structure([family |-> Local, addr |-> ServTable[req.serv].path],
                           [socktype |-> u[k], port |-> 0]) = Structure(ais[k], ais[k])
      <3>1. UnixEntry(ais[k], u[k])
        BY <2>3
      <3> QED
        BY <3>1 DEF UnixEntry, Structure
    <2>7. Expected(req) = [k \in DOMAIN ais |-> Structure(ais[k], ais[k])]
      BY <2>1, <2>3, <2>4, <2>5, <2>6
    <2>8. Expected(req) # <<>>
      <3>1. DOMAIN Expected(req) = 1 .. Len(ais) /\ 1 \in 1 .. Len(ais)
        BY <2>1, <2>7
      <3>2. DOMAIN <<>> = {}
        OBVIOUS
      <3> QED
        BY <3>1, <3>2
    <2>9. /\ Expected(req)' # <<>>
          /\ Expected(req)' = [k \in DOMAIN ais' |-> Structure(ais'[k], ais'[k])]
      BY <1>1, <2>7, <2>8, SameExpected, Zenon
    <2> QED
      BY <1>1, <1>3, <2>1, <2>9, Returned
  <1> QED
    BY <1>1, <1>2, <1>3

(* The list is freed: the error stays.                                     *)
LEMMA BadList == ListInv /\ bad_freeaddrinfo => ListInv'
  <1> SUFFICES ASSUME ListInv, bad_freeaddrinfo PROVE ListInv'
    OBVIOUS
  <1>1. gphase = "bad" /\ gphase' = "returned" /\ UNCHANGED <<req, missed, failed, rc>>
    BY DEF bad_freeaddrinfo
  <1>2. rc # "0" /\ (failed \/ Expected(req) = <<>>) /\ Expected(req)' = Expected(req)
    BY <1>1, SameExpected DEF ListInv
  <1>3. CASE Expected(req) = <<>>
    BY <1>1, <1>2, <1>3, Returned
  <1>4. CASE failed
    <2>1. ListIsExpected'
      BY <1>1, <1>2, <1>4, Zenon DEF ListIsExpected
    <2>2. gphase' \notin {"idle", "search", "create", "canon", "port", "unix", "bad"}
      BY <1>1
    <2> QED
      BY <2>1, <2>2 DEF ListInv
  <1> QED
    BY <1>2, <1>3, <1>4

(* Before the first call, and before another.                              *)
LEMMA IdleList ==
    ASSUME gphase' = "idle", todo' = <<>>, at' = 1, nfound' = 0, missed' = {}
    PROVE  ListInv'
  <1>1. gphase' \notin {"search", "create", "canon", "port", "unix", "bad", "returned"}
    OBVIOUS
  <1> QED
    BY <1>1 DEF ListInv, ListIsExpected

LEMMA InitList == ConnInit => ListInv
  <1> SUFFICES ASSUME ConnInit PROVE ListInv
    OBVIOUS
  <1>1. gphase = "idle" /\ todo = <<>> /\ at = 1 /\ nfound = 0 /\ missed = {}
    BY DEF ConnInit, GaInit
  <1>2. gphase \notin {"search", "create", "canon", "port", "unix", "bad", "returned"}
    BY <1>1
  <1> QED
    BY <1>1, <1>2 DEF ListInv, ListIsExpected

(* A step that leaves getaddrinfo alone leaves its list.                   *)
LEMMA SameList == ListInv /\ UNCHANGED gaVars => ListInv'
  <1> SUFFICES ASSUME ListInv, UNCHANGED gaVars PROVE ListInv'
    OBVIOUS
  <1>1. UNCHANGED <<req, gphase, search, todo, ais, passes, at, nfound, rc, missed, failed>>
    BY DEF gaVars, work
  <1>2. /\ Addrs(req)' = Addrs(req) /\ Expected(req)' = Expected(req)
        /\ (Regular' <=> Regular) /\ UnixTypes(req)' = UnixTypes(req)
        /\ IsUnix(req)' = IsUnix(req) /\ Looked' = Looked /\ ga_nsearch(req)' = ga_nsearch(req)
        /\ LastPlace(req)' = LastPlace(req) /\ PortPasses(req)' = PortPasses(req)
        /\ (\A e : Made(e)' <=> Made(e)) /\ (\A e : Clonable(e)' <=> Clonable(e))
    BY <1>1, SameRequest, SameExpected, SameLooked, Zenon
  <1>3. (Plain' <=> Plain) /\ (Searching' <=> Searching) /\ (UnixMade' <=> UnixMade)
    <2>1. Plain' <=> Plain
      BY <1>1, <1>2, Zenon DEF Plain, At
    <2>2. Searching' <=> Searching
      BY <1>1, <1>2, Zenon DEF Searching, PlaceOK, At
    <2>3. UnixMade' <=> UnixMade
      BY <1>1, <1>2, Zenon DEF UnixMade, UnixEntry, ga_echeck
    <2> QED
      BY <2>1, <2>2, <2>3
  <1>4. Passing(PortPasses(req))' <=> Passing(PortPasses(req))
    <2>1. \A p : FirstPass(p)' <=> FirstPass(p)
      BY <1>1, <1>2, Zenon DEF FirstPass, At, For
    <2>2. \A p, q, j : Cloned(p, q, j)' <=> Cloned(p, q, j)
      <3>1. ais' = ais /\ nfound' = nfound /\ Addrs(req)' = Addrs(req)
        BY <1>1, <1>2
      <3>2. ASSUME NEW p, NEW q, NEW j PROVE Cloned(p, q, j)' <=> Cloned(p, q, j)
        <4>1. Cloned(p, q, j) => Cloned(p, q, j)'
          BY <1>2, <3>1, Zenon DEF Cloned, At, For
        <4>2. Cloned(p, q, j)' => Cloned(p, q, j)
          BY <1>2, <3>1, Zenon DEF Cloned, At, For
        <4> QED
          BY <4>1, <4>2
      <3> QED
        BY <3>2
    <2>3. PICK ps : ps = PortPasses(req)
      OBVIOUS
    <2>4. PICK p, q : p = ps[1] /\ q = ps[2]
      OBVIOUS
    <2>5. /\ Cloned(ps[1], ps[1], 0)' <=> Cloned(ps[1], ps[1], 0)
          /\ FirstPass(ps[1])' <=> FirstPass(ps[1])
          /\ \A j : Cloned(ps[1], ps[2], j)' <=> Cloned(ps[1], ps[2], j)
      BY <2>1, <2>2, <2>4, Zenon
    <2>6. Cloned(ps[1], ps[2], Len(Addrs(req)))' <=> Cloned(ps[1], ps[2], Len(Addrs(req)))
      BY <1>2, <2>5, Zenon
    <2>7. Passing(ps)' <=> Passing(ps)
      BY <1>1, <1>2, <1>3, <2>5, <2>6, Zenon DEF Passing
    <2> QED
      BY <1>2, <2>3, <2>7, Zenon
  <1>5. ListIsExpected' <=> ListIsExpected
    BY <1>1, <1>2, Zenon DEF ListIsExpected, Structure
  <1> QED
    BY <1>1, <1>2, <1>3, <1>4, <1>5, Zenon DEF ListInv

(* ListInv is an invariant of getaddrinfo under the functions of lib/.     *)
LEMMA ListInvariant == ConnSpec => []ListInv
  <1>1. ConnInit => ListInv
    BY InitList
  <1>2. GaInv /\ GaInv' /\ ListInv /\ [ConnNext]_<<gaVars, connVars>> => ListInv'
    <2> SUFFICES ASSUME GaInv, GaInv', ListInv, [ConnNext]_<<gaVars, connVars>> PROVE ListInv'
      OBVIOUS
    <2>1. CASE GaStep
      BY <2>1, CallList, SearchNumericList, SearchNameList, SearchFailsList, CreateList, CreatedList,
         SearchedList, CanonnameList, PortList, PortEndList, ServedList, UnixCreateList,
         UnixCanonList, BadList, Zenon DEF GaStep
    <2>2. CASE loop_begin \/ loop_socket \/ loop_use \/ loop_err_sys \/ UNCHANGED <<gaVars, connVars>>
      <3>1. UNCHANGED gaVars
        BY <2>2 DEF loop_begin, loop_socket, loop_use, loop_err_sys
      <3> QED
        BY <3>1, SameList
    <2>3. CASE loop_finish
      <3>1. gphase' \notin {"idle", "search", "create", "canon", "port", "unix", "bad", "returned"}
        BY <2>3 DEF loop_finish
      <3> QED
        BY <3>1 DEF ListInv, ListIsExpected
    <2>4. CASE conn_next
      BY <2>4, IdleList DEF conn_next, next_call
    <2> QED
      BY <2>1, <2>2, <2>3, <2>4 DEF ConnNext
  <1> QED
    BY <1>1, <1>2, ConnInvariant, PTL DEF ConnSpec

(* ListIsExpected of getaddrinfo under the functions of lib/: whatever was *)
(* asked for before, a call returns each address with each socket type     *)
(* that has the service, and an error means that there is none, or that    *)
(* something has failed.                                                   *)
THEOREM ListAsExpected == ConnSpec => []ListIsExpected
  <1>1. ListInv => ListIsExpected
    BY DEF ListInv
  <1> QED
    BY <1>1, ListInvariant, PTL
=============================================================================
