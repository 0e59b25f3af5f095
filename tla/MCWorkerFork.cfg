CONSTANTS
    s = s
    t1 = t1
    t2 = t2
    u = u
    r1 = r1
    r2 = r2
    Workers <- MCWorkers
    Requests <- MCRequests
    Owned <- MCOwned
    InitialOplog <- MCInitialOplog
    InitialRunning <- MCInitialRunning
    ReqSource <- MCReqSource
    ReqTarget <- MCReqTarget
    CutOffs <- MCCutOffs
    MaxOplog = 5

SPECIFICATION Spec

INVARIANT ForkedOplogIsSourcePrefix
INVARIANT ResumedTargetReplaysFork
PROPERTY ImplementsForkSpec

\* Once every request has answered, the workers stop at the oplog bound.
CHECK_DEADLOCK FALSE
