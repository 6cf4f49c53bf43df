---------------------------- MODULE MCApnsPusher ----------------------------
(* Model values for checking ApnsPusher with TLC: a message for two        *)
(* devices.                                                                *)
EXTENDS ApnsPusher, TLC

CONSTANTS m1, r1, r2

MCMessages == {m1}
MCRows == {r1, r2}
None == {}
=============================================================================
