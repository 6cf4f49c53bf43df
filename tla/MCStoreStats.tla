---------------------------- MODULE MCStoreStats ----------------------------
(* Model values for checking StoreStats with TLC: one worker, one callsign *)
(* of ordinary length and one whose key is too long for memcached.         *)
EXTENDS StoreStats, TLC

CONSTANTS w1, c1, long1, r1, o1

MCWorkers == {w1}
MCCalls == {c1, long1}
MCLong == {long1}
MCRows == {r1, o1}
MCOdd == {o1}
MCAnswers == {{}, {r1, o1}}
=============================================================================
