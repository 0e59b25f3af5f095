---------------------------- MODULE MCWorkerFork ----------------------------
(***************************************************************************)
(* Two concurrent fork requests against one running source worker s.       *)
(* r1 forks s into t1, or (rejected) into s itself; r2 forks s, t2 (not    *)
(* owned) or u (owned, never created) into t2.                             *)
(***************************************************************************)
EXTENDS WorkerFork

CONSTANTS s, t1, t2, u, r1, r2

MCWorkers == {s, t1, t2, u}
MCRequests == {r1, r2}
MCOwned == {s, t1, u}
MCInitialOplog == [w \in MCWorkers |-> IF w = s THEN 2 ELSE 0]
MCInitialRunning == {s}
MCReqSource == [r \in MCRequests |-> IF r = r1 THEN {s} ELSE {s, t2, u}]
MCReqTarget == [r \in MCRequests |-> IF r = r1 THEN {t1, s} ELSE {t2}]
MCCutOffs == 1..4

\* Both requests name t1 as target: the race of two forks into one worker.
MCRaceSource == [r \in MCRequests |-> {s}]
MCRaceTarget == [r \in MCRequests |-> {t1}]
=============================================================================
