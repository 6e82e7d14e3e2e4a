---------------------------- MODULE MCLanChatV5 ----------------------------
(***************************************************************************)
(* Instances of LanChatV5 for TLC.                                         *)
(***************************************************************************)
EXTENDS LanChatV5, TLC

CONSTANTS h1, h2

TwoHosts == {h1, h2}

(* Hosts are interchangeable: no definition tells them apart.              *)
HostSymmetry == Permutations(TwoHosts)

Zeroed == {FALSE}
Uninitialized == {TRUE, FALSE}
=============================================================================
