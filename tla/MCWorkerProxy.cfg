CONSTANTS
    c1 = c1
    c2 = c2
    w1 = w1
    w2 = w2
    k1 = k1
    Calls <- MCCalls
    Workers <- MCWorkers
    Keys <- MCKeys
    Versions = {1, 2}
    CutOffs = {1, 2}
    CallOps <- MCCallOps
    InitialWorkers <- MCInitialWorkers
    InitialVersion = 1
    MaxAttempts = 2
    MaxFaults = 2

SPECIFICATION Spec

INVARIANT TypeOK
INVARIANT OkMeansApplied

\* Every call ends in "done" (the retries are bounded); nothing is left
\* to do after that.
CHECK_DEADLOCK FALSE
