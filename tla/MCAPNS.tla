------------------------------- MODULE MCAPNS -------------------------------
(* Model values for checking APNS with TLC.                                *)
EXTENDS APNS, TLC

CONSTANTS t1, t2, fb, m1, m2, f1, f2

MCThreads == {t1, t2}
MCMessages == {m1, m2}
MCFeedbacks == {f1, f2}
=============================================================================
