------------------------------ MODULE MCStore ------------------------------
(* Model values for checking Store with TLC: workers that share the cache  *)
(* item of one callsign.                                                   *)
EXTENDS Store, TLC

CONSTANTS w1, w2, c1, r1, o1

MCCalls == {c1}
MCRows == {r1, o1}
MCAnswers == {{}, {r1}, {o1}}
MCOdd == {o1}
None == {}
MCWorkers == {w1, w2}
MCOneWorker == {w1}

\* Memcached errors strike one of the workers only.
OneUnlucky == \E w \in Workers : failAt[w] = 0

\* The workers are interchangeable.
Symmetry == Permutations(MCWorkers)
=============================================================================
