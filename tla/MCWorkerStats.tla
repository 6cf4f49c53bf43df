---------------------------- MODULE MCWorkerStats ----------------------------
(* Model values for checking WorkerStats with TLC.                         *)
EXTENDS WorkerStats, TLC

CONSTANTS m1, g1, r1, b1

MCMessages == {m1, g1}
MCGarbage == {g1}
MCRows == {r1, b1}
MCBadTokens == {b1}
None == {}
=============================================================================
