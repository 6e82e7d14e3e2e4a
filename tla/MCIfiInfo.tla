------------------------------ MODULE MCIfiInfo ------------------------------
(***************************************************************************)
(* An instance of IfiInfo for TLC: a host with a loopback interface and an *)
(* Ethernet interface.                                                     *)
(***************************************************************************)
EXTENDS IfiInfo

Interface(name) == [name |-> name, suffix |-> 0]
TwoInterfaces == {<<Interface("lo"), Interface("eth0")>>}
=============================================================================
