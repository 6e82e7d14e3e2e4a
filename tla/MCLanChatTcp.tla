---------------------------- MODULE MCLanChatTcp ----------------------------
(***************************************************************************)
(* Instances of LanChatTcp for TLC: everybody works on host 1; v1 knows    *)
(* the ports 11000 and 11001.                                              *)
(***************************************************************************)
EXTENDS LanChatTcp

CONSTANTS u1, u2, u3

TwoUsers == {u1, u2}
ThreeUsers == {u1, u2, u3}

OneHost == [u \in User |-> 1]

FromFirst == {1}

(* Without a start index nobody can start v2.                              *)
Never == {}

(* Everybody starts once, or user u1 may start twice.                      *)
Once == [u \in User |-> 1]
OneRestart == [u \in User |-> IF u = u1 THEN 2 ELSE 1]
=============================================================================
