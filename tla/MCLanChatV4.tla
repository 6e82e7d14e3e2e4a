---------------------------- MODULE MCLanChatV4 ----------------------------
(***************************************************************************)
(* Instances of LanChatV4 for TLC: hosts .1 and .10, so that the digits of *)
(* the first begin those of the second.                                    *)
(***************************************************************************)
EXTENDS LanChatV4

HostsOneTen == {1, 10}

TheTenth == {10}
Nobody == {}

Zeroed == {FALSE}
Uninitialized == {TRUE, FALSE}
=============================================================================
