CONSTANTS
    q1 = q1
    q2 = q2
    k1 = k1
    p1 = p1
    Plugins <- MCPlugins
    Installed <- MCInstalled
    Requests <- MCRequests
    Keys <- MCKeys
    Versions = {1, 2}
    InitialVersion = 1
    MaxCalls = 3

SPECIFICATION Spec

PROPERTY FailedLeftOnlyByUpdate

CHECK_DEADLOCK FALSE
