---------------------------- MODULE MCJobMaster -----------------------------
(* JobMaster with two chunks, one stored on the host of the first worker,  *)
(* one on hosts without a worker.                                          *)
EXTENDS JobMaster

CONSTANTS w1, w2, t1, t2

MCTask == {t1, t2}
MCWorker == {w1, w2}

MCHosts == [t \in MCTask |-> IF t = t1 THEN {w1} ELSE {}]

\* A spill of t1 has the index of t2; addresses of w2 start with w1's name.
OneClash == {<<t1, t2>>}
Prefix == [w \in MCWorker |-> IF w = w1 THEN {w1, w2} ELSE {w}]

NoClash == {}
Distinct == [w \in MCWorker |-> {w}]
=============================================================================
