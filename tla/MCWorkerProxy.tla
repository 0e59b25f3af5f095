--------------------------- MODULE MCWorkerProxy ---------------------------
EXTENDS WorkerProxy, TLC

CONSTANTS c1, c2, w1, w2, k1

MCCalls == {c1, c2}
MCWorkers == {w1, w2}
MCKeys == {k1}

\* c1 invokes on w1 (which exists), resumes (with or without force),
\* updates or reverts either worker, or forks the absent w2 into either
\* worker; c2 forks w1 into w2 (with a valid or a too small cut-off) or
\* invokes on w2, so the two calls also race on the same worker.
MCCallOps ==
    c1 :> ({[op |-> o, w |-> w1, key |-> k1] : o \in {"invoke", "invokeAndAwait"}}
           \cup {[op |-> "resume", w |-> w, force |-> f] : w \in MCWorkers, f \in BOOLEAN}
           \cup {[op |-> "update", w |-> w, v |-> v] : w \in MCWorkers, v \in {1, 2}}
           \cup {[op |-> "fork", src |-> w2, tgt |-> t, cut |-> 2] : t \in MCWorkers}
           \cup {[op |-> "revert", w |-> w] : w \in MCWorkers})
    @@ c2 :> ({[op |-> "fork", src |-> w1, tgt |-> w2, cut |-> n] : n \in {1, 2}}
              \cup {[op |-> "invoke", w |-> w2, key |-> k1]})

MCInitialWorkers == {w1}
=============================================================================
