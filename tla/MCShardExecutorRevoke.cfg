CONSTANTS
    w1 = w1
    w2 = w2
    w3 = w3
    a = a
    b = b
    r1 = r1
    r2 = r2
    r3 = r3
    Workers <- MCWorkers
    Shards <- MCShards
    ShardOf <- MCShardOf
    Requests <- MCRequests
    ReqOps <- MCReqOps
    InitialOwned <- MCShards
    InitialInst <- MCInitialInst

SPECIFICATION Spec

PROPERTY ActivatedOnlyWhenOwned

\* The executor stops once every request has answered.
CHECK_DEADLOCK FALSE
