------------------------------- MODULE IfiInfo -------------------------------
(***************************************************************************)
(* get_ifi_info (lib/get_ifi_info.c): ask the kernel for all its           *)
(* interfaces with a buffer that grows until two answers are of the same   *)
(* length, then make a list of those of one family that are up, marking    *)
(* aliases.  Interfaces may come, go, and change their flags between the   *)
(* calls of ioctl.  The kernel and the structures are those of config.h,   *)
(* x86_64 Linux: answers hold IPv4 addresses only, in structures that are  *)
(* zero where nothing is set and longer than the steps of the walk.        *)
(***************************************************************************)
EXTENDS Integers, Sequences

CONSTANTS
    Tables,      \* what the kernel may have: sequences of
                 \* [name, suffix], the addresses of an interface together
    INITIAL,     \* structures in the first buffer (100)
    INCREMENT,   \* and by how many it grows (10)
    MaxChanges   \* bound: changes of the kernel's table or flags

NoName == "no name"   \* an empty string

(* Sizes in words of four bytes: a name, an address, an IPv6 address, and  *)
(* struct ifreq, whose union is longer than an address.                    *)
IFNAMSIZ == 4
sockaddr == 4
sockaddr_in6 == 7
ifreq == 10

(* The addresses of an interface are together, and no name is empty.       *)
ASSUME InterfacesAssumption ==
    \A t \in Tables :
        /\ t \in Seq([name : STRING \ {NoName}, suffix : Nat])
        /\ \A i, j, k \in DOMAIN t :
              i < j /\ j < k /\ t[i].name = t[k].name => t[j].name = t[i].name

ASSUME IncrementAssumption ==
    INITIAL \in Nat \ {0} /\ INCREMENT \in Nat \ {0} /\ MaxChanges \in Nat

VARIABLES
    ipc,        \* where the call is
    family,     \* its arguments
    doaliases,
    table,      \* the kernel's interfaces
    up,         \* names with IFF_UP
    truncates,  \* does this kernel fill a buffer that is too small, or fail?
    len, lastlen,
    buf_ifc,    \* the answer kept
    ptr,        \* the place in it, in words
    lastname,
    ifihead,    \* the list made: [entry, alias]
    changes,
    missing,    \* history: the kernel had more than the answer kept
    notUp       \* history: names that were not up, or gone, at some time

ifiVars == <<ipc, family, doaliases, table, up, truncates, len, lastlen, buf_ifc, ptr,
             lastname, ifihead, changes, missing, notUp>>

NamesOf(t) == {t[k].name : k \in DOMAIN t}
AllNames == UNION {NamesOf(t) : t \in Tables}
End == ifreq * Len(buf_ifc)

IfiTypeOK ==
    /\ ipc \in {"caller", "SIOCGIFCONF", "walk", "returned", "ended"}
    /\ family \in {"AF_INET", "AF_INET6", NoName}
    /\ table \in Tables \union {<<>>} /\ up \subseteq AllNames
    /\ len \in Nat /\ lastlen \in 0 .. len /\ Len(buf_ifc) <= len
    /\ ptr \in 0 .. End + ifreq /\ (IFNAMSIZ + sockaddr) * Len(ifihead) <= ptr
    /\ truncates \in BOOLEAN /\ doaliases \in BOOLEAN /\ missing \in BOOLEAN
    /\ notUp \subseteq AllNames /\ changes \in 0 .. MaxChanges

IfiInit ==
    /\ ipc = "caller" /\ family = NoName /\ doaliases = FALSE
    /\ table = <<>> /\ up = {} /\ truncates = FALSE
    /\ len = 0 /\ lastlen = 0 /\ buf_ifc = <<>> /\ ptr = 0 /\ lastname = NoName
    /\ ifihead = <<>> /\ changes = 0 /\ missing = FALSE /\ notUp = {}

get_ifi_info ==
    /\ ipc = "caller"
    /\ family' \in {"AF_INET", "AF_INET6"} /\ doaliases' \in BOOLEAN
    /\ table' \in Tables /\ up' \in SUBSET NamesOf(table') /\ truncates' \in BOOLEAN
    /\ notUp' = AllNames \ up'
    /\ ipc' = "SIOCGIFCONF" /\ len' = INITIAL
    /\ UNCHANGED <<lastlen, buf_ifc, ptr, lastname, ifihead, changes, missing>>

(* Interfaces come and go, or go up and down.                              *)
KernelChanges ==
    /\ ipc \in {"SIOCGIFCONF", "walk"} /\ changes < MaxChanges
    /\ changes' = changes + 1
    /\ table' \in Tables /\ up' \in SUBSET NamesOf(table')
    /\ notUp' = notUp \union (AllNames \ up')
    /\ UNCHANGED <<ipc, family, doaliases, truncates, len, lastlen, buf_ifc, ptr, lastname,
                   ifihead, missing>>

-----------------------------------------------------------------------------
(* The answer of n structures is as long as the last one.                  *)
Settled(n) == n = lastlen

(* One round of the first loop.                                            *)
SIOCGIFCONF ==
    LET n == IF Len(table) <= len THEN Len(table) ELSE len
    IN  /\ ipc = "SIOCGIFCONF"
        /\ IF Len(table) > len /\ ~truncates
           THEN (* EINVAL *)
                /\ IF lastlen # 0 THEN ipc' = "ended" /\ UNCHANGED len
                                  ELSE len' = len + INCREMENT /\ UNCHANGED ipc
                /\ UNCHANGED <<lastlen, buf_ifc, missing>>
           ELSE IF Settled(n)
           THEN /\ ipc' = "walk"
                /\ buf_ifc' = SubSeq(table, 1, n) /\ missing' = (n < Len(table))
                /\ UNCHANGED <<len, lastlen>>
           ELSE lastlen' = n /\ len' = len + INCREMENT /\ UNCHANGED <<ipc, buf_ifc, missing>>
        /\ UNCHANGED <<family, doaliases, table, up, truncates, ptr, lastname, ifihead,
                       changes, notUp>>

(* What the walk takes for a structure.  At the beginning of an entry, it  *)
(* is the entry; elsewhere its name and its family are parts of two, and   *)
(* where the family is that of an address, the name is of the zeros behind *)
(* an address.                                                             *)
ifr == IF ptr % ifreq = 0 THEN buf_ifc[(ptr \div ifreq) + 1]
                          ELSE [name |-> NoName, suffix |-> 0]

(* The families this word may be.  Behind the name of an entry there is    *)
(* its own; in a name, an address or zeros there is none (a name is of     *)
(* letters); and what is behind the answer nobody has set.                 *)
FamiliesAt(w) ==
    IF w >= End THEN {"AF_INET", "AF_INET6", "other"}
    ELSE IF w % ifreq = IFNAMSIZ THEN {"AF_INET"} ELSE {"other"}

(* Variant: the suffix of an alias is left on its name.                    *)
SameLabel(e) == e.name = lastname /\ e.suffix = 0

(* An address of the interface met last: the suffix is cut off first.      *)
SameInterface(e) == e.name = lastname

(* One round of the second loop: SIOCGIFFLAGS for the name without suffix. *)
(* The walk steps over a name and an address, not over a struct ifreq.     *)
(* lastname is kept whether or not the address is listed.                  *)
walk ==
    LET alias == SameInterface(ifr)
    IN  /\ ipc = "walk" /\ ptr < End
        /\ \E fam \in FamiliesAt(ptr + IFNAMSIZ) :
              /\ ptr' = ptr + IFNAMSIZ + (IF fam = "AF_INET6" THEN sockaddr_in6 ELSE sockaddr)
              /\ IF fam # family \/ (alias /\ ~doaliases)
                 THEN UNCHANGED <<ipc, lastname, ifihead>>
                 ELSE /\ lastname' = ifr.name
                      /\ ipc' = IF ifr.name \in NamesOf(table) THEN ipc ELSE "ended"
                      /\ ifihead' = IF ifr.name \in up
                                    THEN Append(ifihead, [entry |-> ifr, alias |-> alias])
                                    ELSE ifihead
        /\ UNCHANGED <<family, doaliases, table, up, truncates, len, lastlen, buf_ifc,
                       changes, missing, notUp>>

walked ==
    /\ ipc = "walk" /\ ptr >= End
    /\ ipc' = "returned"
    /\ UNCHANGED <<family, doaliases, table, up, truncates, len, lastlen, buf_ifc, ptr,
                   lastname, ifihead, changes, missing, notUp>>

(* Another error of ioctl, or no memory.                                   *)
ifi_err_sys ==
    /\ ipc \in {"SIOCGIFCONF", "walk"}
    /\ ipc' = "ended"
    /\ UNCHANGED <<family, doaliases, table, up, truncates, len, lastlen, buf_ifc, ptr,
                   lastname, ifihead, changes, missing, notUp>>

(* The caller is done with the list, and free_ifi_info frees it.           *)
free_ifi_info ==
    /\ ipc = "returned"
    /\ ipc' = "caller" /\ family' = NoName /\ doaliases' = FALSE
    /\ table' = <<>> /\ up' = {} /\ truncates' = FALSE
    /\ len' = 0 /\ lastlen' = 0 /\ buf_ifc' = <<>> /\ ptr' = 0 /\ lastname' = NoName
    /\ ifihead' = <<>> /\ changes' = 0 /\ missing' = FALSE /\ notUp' = {}

IfiNext ==
    \/ get_ifi_info \/ KernelChanges
    \/ SIOCGIFCONF \/ walk \/ walked \/ ifi_err_sys \/ free_ifi_info

IfiSpec == IfiInit /\ [][IfiNext]_ifiVars

-----------------------------------------------------------------------------
Listed(n) == {k \in DOMAIN ifihead : ifihead[k].entry.name = n}

(* The entries of the answer at whose beginning the walk comes by.         *)
Met == {k \in DOMAIN buf_ifc : (ifreq * (k - 1)) % (IFNAMSIZ + sockaddr) = 0}

Wanted(n) == IF family = "AF_INET" THEN {k \in Met : buf_ifc[k].name = n} ELSE {}

(* The answer that ends the first loop was not cut off by the buffer, even *)
(* if the interfaces changed between the two answers of equal length, and  *)
(* the walk reads nothing behind the buffer.  What it lists are entries it *)
(* has met, never what it reads between two of them.  Of an interface that *)
(* was up all the time, every address met is listed, or with doaliases 0   *)
(* the first; no interface has two entries that are not marked as aliases, *)
(* whatever its flags did meanwhile.                                       *)
InterfacesListed ==
    /\ ~missing
    /\ ipc = "walk" /\ ptr < End => ptr + ifreq <= ifreq * len
    /\ ipc = "returned" => \A n \in AllNames \union {NoName} :
        /\ {ifihead[k].entry : k \in Listed(n)} \subseteq {buf_ifc[k] : k \in Wanted(n)}
        /\ n \notin notUp /\ doaliases =>
              {buf_ifc[k] : k \in Wanted(n)} \subseteq {ifihead[k].entry : k \in Listed(n)}
        /\ n \notin notUp /\ ~doaliases /\ Wanted(n) # {} =>
              \E k \in Listed(n), i \in Wanted(n) :
                  ifihead[k].entry = buf_ifc[i] /\ \A j \in Wanted(n) : i <= j
        /\ \A j, k \in Listed(n) : ~ifihead[j].alias /\ ~ifihead[k].alias => j = k

=============================================================================
