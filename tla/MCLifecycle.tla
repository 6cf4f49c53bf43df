----------------------------- MODULE MCLifecycle -----------------------------
(* Model values for checking Lifecycle with TLC: two workers, each with two *)
(* threads of its own.                                                      *)
EXTENDS Lifecycle, TLC

CONSTANTS w1, w2, s1, s2

MCWorkers == {w1, w2}
MCSlots == {s1, s2}
=============================================================================
