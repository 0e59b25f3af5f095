CONSTANTS
    q1 = q1
    q2 = q2
    k1 = k1
    p1 = p1
    Plugins <- MCPlugins
    Installed <- MCInstalled
    Requests <- MCRequests
    Keys <- MCKeys
    Versions = {1, 2}
    InitialVersion = 1
    MaxCalls = 3

SPECIFICATION Spec

INVARIANT TypeOK
PROPERTY DeleteCompletes

\* Once MaxCalls requests have been answered and the worker is idle, nothing
\* is left to do: an executor without requests is at rest.
CHECK_DEADLOCK FALSE
