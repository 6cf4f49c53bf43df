----------------------------- MODULE MCProgram -----------------------------
(* Model values for checking Program with TLC: a message for one device,   *)
(* which is pushed again after a failure.                                  *)
EXTENDS Program, TLC

CONSTANTS t1, fb, m1, r1

MCThreads == {t1}
MCTexts == {m1}
MCRows == {r1}
None == {}
MCTickets == MCTexts \X MCRows \X (1 .. MaxTickets)
=============================================================================
