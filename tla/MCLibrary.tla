------------------------------ MODULE MCLibrary ------------------------------
(***************************************************************************)
(* Instances of the parts of lib/, libgai/ and libfree/ for TLC, side by   *)
(* side.  They share no state and call one another nowhere, so one of them *)
(* is chosen at the beginning and the others stay as they are.             *)
(***************************************************************************)
EXTENDS Framing, Datagram, Echo, ConnectTimeo, Rtt, Connections, IfiInfo, InetText

VARIABLE unit   \* the part

libVars == <<unit, vars, dgVars, echoVars, connectVars, rttVars, gaVars, connVars, ifiVars, inetVars>>

-----------------------------------------------------------------------------
(* Framing, Datagram: three messages with bodies of two bytes (an empty line of a    *)
(* user without a name) or three; behind msg_len_hex no digit, or 0.       *)
TwoOrThree == {2, 3}
AnyBehind == {NotHex, 0}

(* Echo: every text of up to four characters.                              *)
UpTo4 == UNION {[1 .. n -> {Letter, Newline, Nul}] : n \in 0 .. 4}

(* Rtt: an answer comes at once or after 50 s.                             *)
AtOnceOrLate == {0, 50000}
OneGap == {400000}

(* Connections: hosts with addresses of either family, of both and of      *)
(* none; services of either protocol, of both, of none, and paths.         *)
Host(h, numeric, v4, v6) ==
    [numeric |-> numeric, v4 |-> v4, v6 |-> v6, label |-> IF h = "dual.lan" THEN "dual" ELSE h]
Hosts ==
    [h \in {Null, "0.0.0.0", "0::0", "0::1", "localhost", "/local", "dual.lan", "two", "num4", "none"} |->
        CASE h = "0.0.0.0" -> Host(h, Inet, <<1>>, <<>>)
          [] h = "0::0" -> Host(h, Inet6, <<>>, <<100>>)
          [] h = "0::1" -> Host(h, Inet6, <<>>, <<101>>)
          [] h = "localhost" -> Host(h, "no", <<2>>, <<>>)
          [] h = "dual.lan" -> Host(h, "no", <<3>>, <<103>>)
          [] h = "two" -> Host(h, "no", <<4, 5>>, <<>>)
          [] h = "num4" -> Host(h, Inet, <<6>>, <<>>)
          [] OTHER -> Host(h, "no", <<>>, <<>>)]

Service(path, long, numeric, tcp, udp) ==
    [path |-> path, long |-> long, numeric |-> numeric, tcp |-> tcp, udp |-> udp]
Services ==
    [s \in {Null, "domain", "shell", "syslog", "7", "/path", "/long", "nosuch"} |->
        CASE s = "domain" -> Service(0, FALSE, 0, 53, 53)
          [] s = "shell" -> Service(0, FALSE, 0, 514, 0)
          [] s = "syslog" -> Service(0, FALSE, 0, 0, 514)
          [] s = "7" -> Service(0, FALSE, 7, 0, 0)
          [] s = "/path" -> Service(200, FALSE, 0, 0, 0)
          [] s = "/long" -> Service(201, TRUE, 0, 0, 0)
          [] OTHER -> Service(0, FALSE, 0, 0, 0)]

Calls ==
    [host : {Null, "localhost", "/local", "dual.lan", "two", "num4", "0::1", "none"},
     serv : DOMAIN Services, family : {Unspec, Inet, Inet6, Local, "AF_SNA"},
     socktype : {SockAny, SockStream, SockDgram, SockRaw}, badflags : {FALSE},
     canon : BOOLEAN, passive : BOOLEAN]
        \union {[NoRequest EXCEPT !.host = "dual.lan", !.badflags = TRUE]}

(* IfiInfo: the walk meets the first entry, the fifth and the ninth.  A    *)
(* loopback interface, and one with so many addresses that two or three of *)
(* them are met, or only aliases.                                          *)
Label(name, n) == [name |-> name, suffix |-> n]
Labels(name, n) == [k \in 1 .. n |-> Label(name, k - 1)]
InterfaceTables ==
    {<<Label("lo", 0)>>, <<Label("lo", 0), Label("eth0", 0)>>, Labels("eth0", 5),
     <<Label("lo", 0)>> \o Labels("eth0", 8)}

(* InetText: every run of zeros in an address, every length of a number;   *)
(* packets whose sum carries once, twice, or not at all.                   *)
AnyWords == [1 .. 8 -> {0, 1, 65535}]
AnyBytes == [1 .. 4 -> {0, 9, 10, 100, 255}]
Retyped ==
    {<<0, 0, 0, 0, 0, 0, 0, 0>>, <<1, 1, 1, 1, 1, 1, 1, 1>>, <<1, 0, 0, 1, 0, 0, 0, 1>>,
     <<0, 0, 0, 0, 0, 65535, 1, 65535>>, <<0, 0, 0, 0, 0, 0, 1, 1>>,
     <<0, 0, 65535, 1, 1, 1, 1, 1>>, <<1, 1, 1, 1, 1, 1, 0, 0>>, <<0, 1, 1, 1, 1, 1, 1, 1>>,
     <<255, 9, 10, 0>>, <<0, 0, 0, 0>>}
SomeKeys == {0, 1, 10, Colon, Dot, Other}
UpTo6 == UNION {[1 .. n -> {0, 1, 255}] : n \in 0 .. 6}

-----------------------------------------------------------------------------
LibInit ==
    /\ unit \in {"framing", "datagram", "echo", "connect", "rtt", "lookup", "interfaces", "text"}
    /\ Init /\ (unit # "framing" => msg_len_hex = <<0, 0, 0, 0>>)
    /\ DgInit /\ EchoInit /\ ConnectInit /\ RttInit /\ ConnInit /\ IfiInit /\ InetInit

LibNext ==
    /\ UNCHANGED unit
    /\ \/ /\ unit = "framing" /\ Next
          /\ UNCHANGED <<dgVars, echoVars, connectVars, rttVars, gaVars, connVars, ifiVars, inetVars>>
       \/ /\ unit = "datagram" /\ DgNext
          /\ UNCHANGED <<vars, echoVars, connectVars, rttVars, gaVars, connVars, ifiVars, inetVars>>
       \/ /\ unit = "echo" /\ EchoNext
          /\ UNCHANGED <<vars, dgVars, connectVars, rttVars, gaVars, connVars, ifiVars, inetVars>>
       \/ /\ unit = "connect" /\ ConnectNext
          /\ UNCHANGED <<vars, dgVars, echoVars, rttVars, gaVars, connVars, ifiVars, inetVars>>
       \/ /\ unit = "rtt" /\ RttNext
          /\ UNCHANGED <<vars, dgVars, echoVars, connectVars, gaVars, connVars, ifiVars, inetVars>>
       \/ /\ unit = "lookup" /\ ConnNext
          /\ UNCHANGED <<vars, dgVars, echoVars, connectVars, rttVars, ifiVars, inetVars>>
       \/ /\ unit = "interfaces" /\ IfiNext
          /\ UNCHANGED <<vars, dgVars, echoVars, connectVars, rttVars, gaVars, connVars, inetVars>>
       \/ /\ unit = "text" /\ InetNext
          /\ UNCHANGED <<vars, dgVars, echoVars, connectVars, rttVars, gaVars, connVars, ifiVars>>

(* Each part with the fairness its own module or the README gives for it.  *)
LibSpec ==
    /\ LibInit /\ [][LibNext]_libVars
    /\ WF_vars(unit = "framing" /\ writen) /\ WF_vars(unit = "framing" /\ Listen)
    /\ WF_echoVars(unit = "echo" /\ Client) /\ WF_echoVars(unit = "echo" /\ Server)
    /\ WF_connectVars(unit = "connect" /\ Connecting)
    /\ WF_connectVars(unit = "connect" /\ SIGALRM)
    /\ WF_connectVars(unit = "connect" /\ Select_timeout)

(* The variables of every part stay in their types.                        *)
LibTypeOK ==
    /\ TypeOK /\ DgTypeOK /\ EchoTypeOK /\ ConnectTypeOK /\ RttTypeOK
    /\ GaTypeOK /\ ConnTypeOK /\ IfiTypeOK /\ InetTypeOK
=============================================================================
