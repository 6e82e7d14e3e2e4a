------------------------------ MODULE MCInetText ------------------------------
(***************************************************************************)
(* An instance of InetText for TLC: an address without zeros, and one with *)
(* one zero, in whose texts a second colon may be put.                     *)
(***************************************************************************)
EXTENDS InetText

FullAddresses == {<<1, 1, 1, 1, 1, 1, 1, 1>>, <<1, 1, 0, 1, 1, 1, 1, 1>>}
OneQuad == {<<1, 1, 1, 1>>}
ColonKey == {Colon, Dot}
NoPackets == {}
=============================================================================
