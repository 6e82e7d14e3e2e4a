----------------------------- MODULE GetAddrInfo -----------------------------
(***************************************************************************)
(* getaddrinfo as libgai/ implements it, with IPv4, IPv6 and UNIXdomain    *)
(* defined.  One call goes through ga_echeck, then either ga_unix or       *)
(* ga_nsearch, the host loop (ga_aistruct), the canonical name and the     *)
(* service (ga_serv, ga_port, ga_clone).  Every allocation may fail and    *)
(* every lookup may fail; one call follows another in the same process,    *)
(* which keeps the resolver's option RES_USE_INET6 between them.           *)
(* getnameinfo, the way back from an address to names, changes nothing and *)
(* is an operator.                                                         *)
(*                                                                         *)
(* The list under aihead is a sequence in the order of its links.  Host    *)
(* and service strings are looked up in tables; an address or a path is a  *)
(* number.  blocks counts what has been allocated and not freed.           *)
(***************************************************************************)
EXTENDS Integers, Sequences, FiniteSets, SequencesExt

CONSTANTS
    HostTable,  \* host string -> [numeric, v4, v6, label]: the family of an
                \* address string, or "no"; its addresses; what is before a dot
    ServTable,  \* service string -> [path, long, numeric, tcp, udp]
    Requests    \* calls: [host, serv, family, socktype, badflags,
                \* canon, passive]

Null == "NULL"      \* a null pointer or an empty string
Unspec == "AF_UNSPEC"
Inet == "AF_INET"
Inet6 == "AF_INET6"
Local == "AF_LOCAL"
SockAny == "0"          \* ai_socktype 0
SockStream == "SOCK_STREAM"
SockDgram == "SOCK_DGRAM"
SockRaw == "SOCK_RAW"

ASSUME TablesAssumption ==
    /\ {Null, "0.0.0.0", "0::0", "0::1", "localhost", "/local"} \subseteq DOMAIN HostTable
    /\ Null \in DOMAIN ServTable
    /\ \A h \in DOMAIN HostTable :
          /\ HostTable[h].numeric \in {"no", Inet, Inet6}
          /\ HostTable[h].v4 \in Seq(Nat) /\ HostTable[h].v6 \in Seq(Nat)
    /\ \A s \in DOMAIN ServTable :
          /\ {ServTable[s].path, ServTable[s].numeric, ServTable[s].tcp, ServTable[s].udp} \subseteq Nat
          /\ ServTable[s].long \in BOOLEAN
    /\ \A r \in Requests : r.host \in DOMAIN HostTable /\ r.serv \in DOMAIN ServTable

(* An address string has addresses of its own family only, and there is no *)
(* service without a string.                                               *)
ASSUME StringsAssumption ==
    /\ \A h \in DOMAIN HostTable :
          /\ HostTable[h].numeric = Inet => HostTable[h].v6 = <<>>
          /\ HostTable[h].numeric = Inet6 => HostTable[h].v4 = <<>>
    /\ ServTable[Null].numeric = 0 /\ ServTable[Null].tcp = 0 /\ ServTable[Null].udp = 0

(* Addresses that are not mapped; the mapped ones begin at 1000.           *)
OwnAddresses == 0 .. 999

(* A decimal number is the name of no service.  Mapped addresses are       *)
(* nobody's own.  And names of the same IPv4 address, as aliases are,      *)
(* agree on whether it has IPv6.                                           *)
ASSUME NamesAssumption ==
    /\ \A s \in DOMAIN ServTable :
          ServTable[s].numeric > 0 => ServTable[s].tcp = 0 /\ ServTable[s].udp = 0
    /\ \A h \in DOMAIN HostTable :
          Range(HostTable[h].v4) \union Range(HostTable[h].v6) \subseteq OwnAddresses
    /\ \A g, h \in {n \in DOMAIN HostTable : HostTable[n].numeric = "no"} :
          Range(HostTable[g].v4) \intersect Range(HostTable[h].v4) # {} =>
              (HostTable[g].v6 = <<>> <=> HostTable[h].v6 = <<>>)

VARIABLES
    req,       \* the arguments
    gphase,    \* where the call is
    search,    \* what is left of search[]
    todo,      \* addresses to make structures for
    ais,       \* the list under aihead
    canon,     \* none, held (strdup'ed), attached to the first structure
    passes,    \* calls of ga_port (ga_aistruct in ga_unix) that are left
    at,        \* place of ga_port in the list
    nfound,    \* of ga_serv
    rc,        \* the value returned: 0 or an error
    blocks,    \* memory allocated and not freed
    useInet6,  \* RES_USE_INET6 in _res.options
    missed,    \* history: families whose lookup failed without an error
    failed     \* history: an allocation, uname or the resolver has failed

work == <<search, todo, ais, canon, passes, at, nfound, blocks, missed, failed>>
gaVars == <<req, gphase, rc, useInet6, work>>

NoRequest == [host |-> Null, serv |-> Null, family |-> Unspec, socktype |-> SockAny,
              badflags |-> FALSE, canon |-> FALSE, passive |-> FALSE]

Errors == {"EAI_BADFLAGS", "EAI_NONAME", "EAI_SOCKTYPE", "EAI_FAMILY", "EAI_ADDRFAMILY",
           "EAI_AGAIN", "EAI_FAIL", "EAI_NODATA", "EAI_MEMORY", "EAI_SERVICE", "EAI_SYSTEM"}

SocketTypes == {r.socktype : r \in Requests} \union {SockAny, SockStream, SockDgram}

Entry == [family : {Inet, Inet6, Local}, addr : Nat, socktype : SocketTypes, port : Nat,
          clone : BOOLEAN, hasAddr : BOOLEAN]

GaTypeOK ==
    /\ req \in Requests \union {NoRequest}
    /\ gphase \in {"idle", "search", "create", "canon", "port", "unix", "bad",
                   "returned", "freed", "err_quit"}
    /\ ais \in Seq(Entry) /\ canon \in {"none", "held", "attached"}
    /\ at \in 1 .. Len(ais) + 1 /\ nfound \in Nat
    /\ rc \in Errors \union {"0"} /\ blocks \in Nat
    /\ useInet6 \in BOOLEAN /\ missed \subseteq {Inet, Inet6} /\ failed \in BOOLEAN

GaInit ==
    /\ req = NoRequest /\ gphase = "idle"
    /\ search = <<>> /\ todo = <<>> /\ ais = <<>> /\ canon = "none"
    /\ passes = <<>> /\ at = 1 /\ nfound = 0 /\ rc = "0" /\ blocks = 0
    /\ useInet6 = FALSE /\ missed = {} /\ failed = FALSE

-----------------------------------------------------------------------------
(* The checks and tables of one call.                                      *)

(* The error of ga_echeck, or "0".  The types are not checked without a    *)
(* family.                                                                 *)
ga_echeck(r) ==
    LET types == {SockAny, SockStream, SockDgram} \union (IF r.family = Local THEN {} ELSE {SockRaw})
    IN  IF r.badflags THEN "EAI_BADFLAGS"
        ELSE IF r.host = Null /\ r.serv = Null THEN "EAI_NONAME"
        ELSE IF r.family \notin {Unspec, Inet, Inet6, Local} THEN "EAI_FAMILY"
        ELSE IF r.family # Unspec /\ r.socktype \notin types THEN "EAI_SOCKTYPE"
        ELSE "0"

IsUnix(r) == r.host = "/local" /\ ServTable[r.serv].path > 0

Families(r) ==
    CASE r.family = Unspec -> <<Inet6, Inet>>
      [] r.family \in {Inet, Inet6} -> <<r.family>>
      [] OTHER -> <<>>

(* The string searched for a family: without a hostname the wildcard for a *)
(* passive open, else the local host.                                      *)
SearchHost(r, f) ==
    CASE r.host # Null -> r.host
      [] r.host = Null /\ r.passive -> IF f = Inet THEN "0.0.0.0" ELSE "0::0"
      [] r.host = Null /\ ~r.passive -> IF f = Inet THEN "localhost" ELSE "0::1"

ga_nsearch(r) ==
    [k \in DOMAIN Families(r) |->
        [host |-> SearchHost(r, Families(r)[k]), family |-> Families(r)[k]]]

(* gethostbyname with RES_USE_INET6 maps the IPv4 addresses of a host that *)
(* has no others.                                                          *)
Mapped(v4) == [k \in DOMAIN v4 |-> 1000 + v4[k]]

gethostbyname(h, inet6) ==
    LET t == HostTable[h]
    IN  IF ~inet6 THEN t.v4 ELSE IF t.v6 # <<>> THEN t.v6 ELSE Mapped(t.v4)

gethostbyname2(h, f) == IF f = Inet6 THEN HostTable[h].v6 ELSE HostTable[h].v4

(* The calls of ga_port that ga_serv makes: socket types and ports.        *)
PortPasses(r) ==
    LET s == ServTable[r.serv]
        pass(type, port) ==
            IF port > 0 /\ r.socktype \in {SockAny, type}
            THEN <<[socktype |-> type, port |-> port]>> ELSE <<>>
    IN  IF s.numeric > 0 /\ r.socktype # SockAny
        THEN <<[socktype |-> r.socktype, port |-> s.numeric]>>
        ELSE IF s.numeric > 0
        THEN pass(SockStream, s.numeric) \o pass(SockDgram, s.numeric)
        ELSE pass(SockStream, s.tcp) \o pass(SockDgram, s.udp)

BlocksOf(list) ==
    Len(list) + Cardinality({k \in DOMAIN list : list[k].hasAddr})
              + IF canon = "attached" /\ list # <<>> THEN 1 ELSE 0

-----------------------------------------------------------------------------
(* getaddrinfo.                                                            *)

(* error(e): the list is freed next.                                       *)
Bad(e) == rc' = e /\ gphase' = "bad"

(* getaddrinfo is called.                                                  *)
ga_call ==
    /\ gphase = "idle"
    /\ req' \in Requests
    /\ LET rest == ga_nsearch(req')
       IN  IF ga_echeck(req') # "0"
           THEN Bad(ga_echeck(req')) /\ UNCHANGED <<search, passes>>
           ELSE IF IsUnix(req') /\ req'.family \notin {Unspec, Local}
           THEN rc' = "EAI_ADDRFAMILY" /\ gphase' = "returned" /\ UNCHANGED <<search, passes>>
           ELSE IF IsUnix(req')
           THEN /\ passes' = IF req'.socktype = SockAny THEN <<SockStream, SockDgram>>
                                                    ELSE <<req'.socktype>>
                /\ gphase' = "unix" /\ UNCHANGED <<search, rc>>
           ELSE /\ search' = rest
                /\ gphase' = IF rest = <<>> THEN "err_quit" ELSE "search"
                /\ UNCHANGED <<passes, rc>>
    /\ UNCHANGED <<todo, ais, canon, at, nfound, blocks, useInet6, missed, failed>>

(* The host loop meets an address string.                                  *)
search_numeric ==
    LET s == Head(search)
        t == HostTable[s.host]
    IN  /\ gphase = "search" /\ search # <<>> /\ t.numeric # "no"
        /\ IF req.family \notin {Unspec, t.numeric}
           THEN Bad("EAI_ADDRFAMILY") /\ UNCHANGED <<search, todo>>
           ELSE /\ search' = Tail(search)
                /\ IF s.family = t.numeric
                   THEN /\ todo' = [k \in DOMAIN (t.v4 \o t.v6) |->
                                        [family |-> s.family, addr |-> (t.v4 \o t.v6)[k]]]
                        /\ gphase' = "create"
                   ELSE UNCHANGED <<todo, gphase>>
                /\ UNCHANGED rc
        /\ UNCHANGED <<req, ais, canon, passes, at, nfound, blocks, useInet6, missed, failed>>

(* Variant: the option set for an earlier call is left on.                 *)
KeepOption(s) == useInet6 \/ (Len(Families(req)) = 1 /\ s.family = Inet6)

(* RES_USE_INET6 for the lookup of s.                                      *)
Option(s) == Len(Families(req)) = 1 /\ s.family = Inet6

(* The resolver is asked for a name and finds it.  The canonical name is   *)
(* kept the first time.                                                    *)
search_name ==
    LET s == Head(search)
        found == IF Len(Families(req)) = 2 THEN gethostbyname2(s.host, s.family)
                 ELSE gethostbyname(s.host, useInet6')
        addrtype == IF Len(Families(req)) = 2 THEN s.family
                    ELSE IF useInet6' THEN Inet6 ELSE Inet
    IN  /\ gphase = "search" /\ search # <<>> /\ HostTable[s.host].numeric = "no"
        /\ useInet6' = Option(s)
        /\ found # <<>>
        /\ IF req.family \notin {Unspec, addrtype}
           THEN Bad("EAI_ADDRFAMILY") /\ UNCHANGED <<search, todo, canon, blocks, failed>>
           ELSE IF req.host # Null /\ req.canon /\ canon = "none"
           THEN \/ /\ canon' = "held" /\ blocks' = blocks + 1
                   /\ gphase' = "create" /\ search' = Tail(search)
                   /\ todo' = [k \in DOMAIN found |-> [family |-> addrtype, addr |-> found[k]]]
                   /\ UNCHANGED <<rc, failed>>
                \/ Bad("EAI_MEMORY") /\ failed' = TRUE /\ UNCHANGED <<search, todo, canon, blocks>>
           ELSE /\ gphase' = "create" /\ search' = Tail(search)
                /\ todo' = [k \in DOMAIN found |-> [family |-> addrtype, addr |-> found[k]]]
                /\ UNCHANGED <<rc, canon, blocks, failed>>
        /\ UNCHANGED <<req, ais, passes, at, nfound, missed>>

(* The resolver finds nothing, or fails.  That is an error only when one   *)
(* family is searched for.                                                 *)
search_fails ==
    LET s == Head(search)
        found == IF Len(Families(req)) = 2 THEN gethostbyname2(s.host, s.family)
                 ELSE gethostbyname(s.host, useInet6')
    IN  /\ gphase = "search" /\ search # <<>> /\ HostTable[s.host].numeric = "no"
        /\ useInet6' = Option(s)
        /\ IF Len(Families(req)) = 2
           THEN /\ search' = Tail(search) /\ missed' = missed \union {s.family}
                /\ UNCHANGED <<gphase, rc, failed>>
           ELSE /\ \E e \in {"EAI_NONAME", "EAI_AGAIN", "EAI_FAIL", "EAI_NODATA"} : Bad(e)
                /\ failed' = (found # <<>>)
                /\ UNCHANGED <<search, missed>>
        /\ UNCHANGED <<req, todo, ais, canon, passes, at, nfound, blocks>>

(* Variant: the structure is linked when its address has been allocated.   *)
aistruct_late_link(family, addr, socktype, n) ==
    /\ blocks' = blocks + n
    /\ ais' = IF n < 2 THEN ais
              ELSE Append(ais, [family |-> family, addr |-> addr, socktype |-> socktype,
                                port |-> 0, clone |-> socktype = SockAny, hasAddr |-> TRUE])

(* ga_aistruct, when n of its two allocations succeed: the structure is    *)
(* linked to the list before the second.  That the file of a passive Unix  *)
(* path is removed is left out.                                            *)
ga_aistruct(family, addr, socktype, n) ==
    /\ blocks' = blocks + n
    /\ ais' = IF n = 0 THEN ais
              ELSE Append(ais, [family |-> family, addr |-> addr, socktype |-> socktype,
                                port |-> 0, clone |-> socktype = SockAny, hasAddr |-> n = 2])

create ==
    /\ gphase = "create" /\ todo # <<>>
    /\ \E n \in 0 .. 2 :
        /\ ga_aistruct(Head(todo).family, Head(todo).addr, req.socktype, n)
        /\ IF n < 2
           THEN Bad("EAI_MEMORY") /\ failed' = TRUE /\ UNCHANGED todo
           ELSE todo' = Tail(todo) /\ UNCHANGED <<gphase, rc, failed>>
    /\ UNCHANGED <<req, search, canon, passes, at, nfound, useInet6, missed>>

created ==
    /\ gphase = "create" /\ todo = <<>>
    /\ gphase' = "search"
    /\ UNCHANGED <<req, rc, useInet6, work>>

(* The host loop is done.                                                  *)
searched ==
    /\ gphase = "search" /\ search = <<>>
    /\ IF ais = <<>> THEN Bad("EAI_NONAME") ELSE gphase' = "canon" /\ UNCHANGED rc
    /\ UNCHANGED <<req, useInet6, work>>

(* The canonical name goes to the first structure, and the service is      *)
(* looked up.                                                              *)
canonname ==
    /\ gphase = "canon"
    /\ \/ /\ IF req.host # Null /\ req.canon
             THEN canon' = "attached" /\ blocks' = IF canon = "held" THEN blocks ELSE blocks + 1
             ELSE UNCHANGED <<canon, blocks>>
          /\ passes' = PortPasses(req)
          /\ gphase' = "port"
          /\ UNCHANGED <<rc, failed>>
       \/ /\ req.host # Null /\ req.canon /\ canon = "none"
          /\ Bad("EAI_MEMORY") /\ failed' = TRUE
          /\ UNCHANGED <<canon, blocks, passes>>
    /\ UNCHANGED <<req, useInet6, search, todo, ais, at, nfound, missed>>

(* ga_clone links the new structure behind the one it copies, before it    *)
(* allocates the address.                                                  *)
ga_clone(list, k, e) == InsertAt(list, k + 1, e)

(* One round of ga_port.                                                   *)
ga_port ==
    LET ai == ais[at]
        pass == Head(passes)
        set(e) == [e EXCEPT !.socktype = pass.socktype, !.port = pass.port]
    IN  /\ gphase = "port" /\ passes # <<>> /\ at <= Len(ais)
        /\ IF ai.clone /\ ai.socktype # SockAny
           THEN \E n \in 0 .. 2 :
                  LET new == [ai EXCEPT !.clone = FALSE, !.hasAddr = n = 2]
                  IN  /\ blocks' = blocks + n
                      /\ IF n < 2
                         THEN /\ ais' = IF n = 0 THEN ais ELSE ga_clone(ais, at, new)
                              /\ Bad("EAI_MEMORY") /\ failed' = TRUE
                              /\ UNCHANGED <<at, nfound>>
                         ELSE /\ ais' = ga_clone(ais, at, set(new))
                              /\ at' = at + 2 /\ nfound' = nfound + 1
                              /\ UNCHANGED <<gphase, rc, failed>>
           ELSE /\ IF ai.clone \/ ai.socktype = pass.socktype
                   THEN ais' = [ais EXCEPT ![at] = set(ai)] /\ nfound' = nfound + 1
                   ELSE UNCHANGED <<ais, nfound>>
                /\ at' = at + 1
                /\ UNCHANGED <<gphase, rc, blocks, failed>>
        /\ UNCHANGED <<req, useInet6, search, todo, canon, passes, missed>>

ga_port_end ==
    /\ gphase = "port" /\ passes # <<>> /\ at > Len(ais)
    /\ passes' = Tail(passes) /\ at' = 1
    /\ UNCHANGED <<req, gphase, rc, useInet6, search, todo, ais, canon, nfound, blocks,
                   missed, failed>>

(* ga_serv is done, or there is no service.                                *)
served ==
    /\ gphase = "port" /\ passes = <<>>
    /\ IF req.serv = Null \/ nfound > 0
       THEN gphase' = "returned" /\ UNCHANGED rc
       ELSE Bad(IF req.socktype = SockAny THEN "EAI_NONAME" ELSE "EAI_SERVICE")
    /\ UNCHANGED <<req, useInet6, work>>

-----------------------------------------------------------------------------
(* ga_unix, which returns its errors without freeing anything.             *)

UnixFails(e) == rc' = e /\ gphase' = "returned"

unix_create ==
    LET s == ServTable[req.serv]
    IN  /\ gphase = "unix" /\ passes # <<>>
        /\ \E n \in IF s.long THEN 0 .. 1 ELSE 0 .. 2 :
            /\ ga_aistruct(Local, s.path, Head(passes), n)
            /\ IF n = 1 /\ s.long
               THEN UnixFails("EAI_SERVICE") /\ UNCHANGED <<passes, failed>>
               ELSE IF n < 2
               THEN UnixFails("EAI_MEMORY") /\ failed' = TRUE /\ UNCHANGED passes
               ELSE passes' = Tail(passes) /\ UNCHANGED <<gphase, rc, failed>>
        /\ UNCHANGED <<req, search, todo, canon, at, nfound, useInet6, missed>>

(* The name of this host is the canonical name.                            *)
unix_canonname ==
    /\ gphase = "unix" /\ passes = <<>>
    /\ \/ /\ IF req.canon THEN canon' = "attached" /\ blocks' = blocks + 1
                          ELSE UNCHANGED <<canon, blocks>>
          /\ gphase' = "returned" /\ UNCHANGED <<rc, failed>>
       \/ /\ req.canon
          /\ \E e \in {"EAI_SYSTEM", "EAI_MEMORY"} : UnixFails(e)
          /\ failed' = TRUE /\ UNCHANGED <<canon, blocks>>
    /\ UNCHANGED <<req, useInet6, search, todo, ais, passes, at, nfound, missed>>

-----------------------------------------------------------------------------
(* The end of a call.                                                      *)

(* freeaddrinfo at the label bad.                                          *)
bad_freeaddrinfo ==
    /\ gphase = "bad"
    /\ blocks' = blocks - BlocksOf(ais)
    /\ ais' = <<>> /\ at' = 1
    /\ gphase' = "returned"
    /\ UNCHANGED <<req, rc, useInet6, search, todo, canon, passes, nfound, missed, failed>>

(* The caller is done with the result and calls again some time.           *)
next_call ==
    /\ gphase \in {"returned", "freed"}
    /\ req' = NoRequest /\ gphase' = "idle"
    /\ search' = <<>> /\ todo' = <<>> /\ ais' = <<>> /\ canon' = "none"
    /\ passes' = <<>> /\ at' = 1 /\ nfound' = 0 /\ rc' = "0" /\ blocks' = 0
    /\ missed' = {} /\ failed' = FALSE
    /\ UNCHANGED useInet6

GaStep ==
    \/ ga_call
    \/ search_numeric \/ search_name \/ search_fails \/ create \/ created \/ searched
    \/ canonname \/ ga_port \/ ga_port_end \/ served
    \/ unix_create \/ unix_canonname \/ bad_freeaddrinfo

GaNext == GaStep \/ next_call

GaSpec == GaInit /\ [][GaNext]_gaVars

-----------------------------------------------------------------------------
(* getnameinfo of an entry of the list.  Both buffers are given and large  *)
(* enough.                                                                 *)

NiFlags == {"NI_NUMERICHOST", "NI_NUMERICSERV", "NI_NOFQDN", "NI_NAMEREQD", "NI_DGRAM"}

(* Names of the address, or Null when the resolver gives none.             *)
gethostbyaddr(addr, f) ==
    {Null} \union {h \in DOMAIN HostTable :
                     LET t == HostTable[h]
                     IN  /\ t.numeric = "no"
                         /\ addr \in Range(IF f = Inet6 THEN t.v6 \o Mapped(t.v4) ELSE t.v4)}

(* A name that has the port with one of the protocols.                     *)
getservbyport(port, protos) ==
    LET names == {s \in DOMAIN ServTable :
                    /\ port > 0
                    /\ \/ "tcp" \in protos /\ ServTable[s].tcp = port
                       \/ "udp" \in protos /\ ServTable[s].udp = port}
    IN  IF names = {} THEN {Null} ELSE names

(* Variant: any protocol will do.                                          *)
AnyProtocol(flags) == {"tcp", "udp"}

(* The protocol given to getservbyport: without NI_DGRAM, none.            *)
Protocol(flags) == IF "NI_DGRAM" \in flags THEN {"udp"} ELSE {"tcp", "udp"}

(* A name, or else the number in its stead.                                *)
Text(name, number) == [name |-> name, number |-> number]

(* Host and service that gn_ipv46 may return: none when a name is required *)
(* and there is none.                                                      *)
gn_ipv46(addr, port, f, flags) ==
    LET numeric == "NI_NUMERICHOST" \in flags
        cut(h) == IF h # Null /\ "NI_NOFQDN" \in flags THEN HostTable[h].label ELSE h
        hosts == {h \in IF numeric THEN {Null} ELSE gethostbyaddr(addr, f) :
                    numeric \/ h # Null \/ "NI_NAMEREQD" \notin flags}
        servs == IF "NI_NUMERICSERV" \in flags THEN {Null} ELSE getservbyport(port, Protocol(flags))
    IN  {[host |-> Text(cut(h), addr), serv |-> Text(s, port)] : h \in hosts, s \in servs}

getnameinfo(e, flags) ==
    IF e.family = Local
    THEN {[host |-> Text("/local", 0), serv |-> Text(Null, e.addr)]}
    ELSE gn_ipv46(e.addr, e.port, e.family, flags)

-----------------------------------------------------------------------------
(* What a call should return.                                              *)

(* Does the service have the type t, at which port?                        *)
PortOf(r, t) ==
    LET s == ServTable[r.serv]
    IN  CASE s.numeric > 0 -> s.numeric
          [] s.numeric = 0 /\ t = SockStream -> s.tcp
          [] s.numeric = 0 /\ t = SockDgram -> s.udp
          [] OTHER -> 0

(* The socket types to return for each address, with their ports.          *)
Types(r) ==
    LET offered(t) ==
            IF PortOf(r, t) > 0 THEN <<[socktype |-> t, port |-> PortOf(r, t)]>> ELSE <<>>
    IN  CASE r.serv = Null -> <<[socktype |-> r.socktype, port |-> 0]>>
          [] r.serv # Null /\ r.socktype = SockAny -> offered(SockStream) \o offered(SockDgram)
          [] r.serv # Null /\ r.socktype # SockAny -> offered(r.socktype)

AddrsOf(r, f) ==
    LET h == SearchHost(r, f)
        addrs == IF HostTable[h].numeric = "no" /\ Len(Families(r)) = 1
                 THEN gethostbyname(h, f = Inet6) ELSE gethostbyname2(h, f)
    IN  IF f \in missed THEN <<>> ELSE [k \in DOMAIN addrs |-> [family |-> f, addr |-> addrs[k]]]

(* The addresses to return: those of IPv6 come first.                      *)
Addrs(r) ==
    IF r.family = Unspec THEN AddrsOf(r, Inet6) \o AddrsOf(r, Inet) ELSE AddrsOf(r, r.family)

UnixTypes(r) == IF r.socktype = SockAny THEN <<SockStream, SockDgram>> ELSE <<r.socktype>>

(* What the caller is to see of a structure: address a, socket type t.     *)
Structure(a, t) ==
    [family |-> a.family, addr |-> a.addr, socktype |-> t.socktype, port |-> t.port]

Expected(r) ==
    IF ga_echeck(r) # "0" THEN <<>>
    ELSE IF IsUnix(r)
    THEN IF r.family \notin {Unspec, Local} \/ ServTable[r.serv].long THEN <<>>
         ELSE [k \in DOMAIN UnixTypes(r) |->
                  Structure([family |-> Local, addr |-> ServTable[r.serv].path],
                            [socktype |-> UnixTypes(r)[k], port |-> 0])]
    ELSE LET n == Len(Types(r))
         IN  [k \in 1 .. Len(Addrs(r)) * n |->
                  Structure(Addrs(r)[((k - 1) \div n) + 1], Types(r)[((k - 1) % n) + 1])]

(* The list returned has, for each address in the order of the families    *)
(* and of the resolver, one structure for each socket type that has the    *)
(* service (stream first), with its port, whatever was asked for before;   *)
(* and an error means that there is none, or that something has failed.    *)
ListIsExpected ==
    gphase = "returned" =>
        /\ rc = "0" => Expected(req) = [k \in DOMAIN ais |-> Structure(ais[k], ais[k])]
        /\ rc = "0" => Expected(req) # <<>>
        /\ rc # "0" /\ ~failed => Expected(req) = <<>>

(* Memory: a list returned is all that is allocated, and after an error    *)
(* nothing is, but for the two ways in which the code loses some: a        *)
(* canonical name that had not yet been attached, and what ga_unix made.   *)
MemoryAccounted ==
    gphase = "returned" =>
        blocks = CASE rc = "0" \/ IsUnix(req) -> BlocksOf(ais)
                   [] rc # "0" /\ ~IsUnix(req) -> IF canon = "held" THEN 1 ELSE 0

(* The way back: the names that getnameinfo gives for an entry of the list *)
(* mean the address and the port of that entry to getaddrinfo, if NI_DGRAM *)
(* says of which type the socket is.  A stream socket may be given the     *)
(* name of a service that has its port only in the other protocol, since   *)
(* no flag asks for "tcp"; and of a name cut at its dot nothing is known.  *)
NamesMeanEntries ==
    gphase = "returned" /\ rc = "0" =>
        \A e \in Range(ais), flags \in SUBSET NiFlags : \A r \in getnameinfo(e, flags) :
            /\ e.family # Local /\ r.host.name # Null /\ "NI_NOFQDN" \notin flags =>
                  e.addr \in Range(gethostbyname(r.host.name, e.family = Inet6))
            /\ e.family # Local /\ r.host.name = Null => r.host.number = e.addr
            /\ e.family = Local => IsUnix([host |-> r.host.name, serv |-> req.serv])
            /\ r.serv.name = Null => r.serv.number = IF e.family = Local THEN e.addr ELSE e.port
            /\ r.serv.name # Null /\ (e.socktype = SockDgram <=> "NI_DGRAM" \in flags) =>
                  e.port \in IF e.socktype = SockDgram
                            THEN {PortOf([serv |-> r.serv.name], SockDgram)}
                            ELSE {PortOf([serv |-> r.serv.name], t) : t \in {SockStream, SockDgram}}
=============================================================================
