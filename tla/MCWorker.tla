------------------------------ MODULE MCWorker ------------------------------
(* Model values for checking Worker's liveness with TLC: a message to push *)
(* and one that does not parse.                                            *)
EXTENDS Worker, TLC

CONSTANTS m1, g1, r1, b1

MCMessages == {m1, g1}
MCGarbage == {g1}
MCRows == {r1, b1}
MCBadTokens == {b1}
None == {}
=============================================================================
