-------------------------- MODULE MCWorkerExecutor --------------------------
EXTENDS WorkerExecutor

CONSTANTS q1, q2, k1, p1

MCRequests == {q1, q2}
MCKeys == {k1}
MCPlugins == {p1}

\* The installation p1 belongs to component version 1 and not to version 2,
\* so an update from 1 to 2 makes it stale.
MCInstalled == [v \in {1, 2} |-> IF v = 1 THEN {p1} ELSE {}]
=============================================================================
