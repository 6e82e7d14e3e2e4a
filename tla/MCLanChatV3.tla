---------------------------- MODULE MCLanChatV3 ----------------------------
(***************************************************************************)
(* An instance of LanChatV3 for TLC: hosts 1 and 2 of a subnet whose       *)
(* broadcast address is 3.                                                 *)
(***************************************************************************)
EXTENDS LanChatV3

FromFirst == {1}

(* Host 1 may start the program twice.                                     *)
OneRestart == [p \in Peer |-> IF p = 1 THEN 2 ELSE 1]
=============================================================================
