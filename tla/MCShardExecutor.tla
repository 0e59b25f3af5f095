-------------------------- MODULE MCShardExecutor --------------------------
(***************************************************************************)
(* Two shards: a holds w1, running; b holds w2, loaded but suspended, and *)
(* w3, not in the cache.  Three concurrent requests: r1 revokes a or both *)
(* shards, r2 revokes a or assigns it back, and r3 invokes w1, w2 or w3.   *)
(***************************************************************************)
EXTENDS ShardExecutor, TLC

CONSTANTS w1, w2, w3, a, b, r1, r2, r3

MCWorkers == {w1, w2, w3}
MCShards == {a, b}
MCShardOf == w1 :> a @@ w2 :> b @@ w3 :> b
MCRequests == {r1, r2, r3}
MCReqOps == r1 :> {[op |-> "revoke", shards |-> {a}], [op |-> "revoke", shards |-> {a, b}]}
         @@ r2 :> {[op |-> "revoke", shards |-> {a}], [op |-> "assign", shards |-> {a}]}
         @@ r3 :> {[op |-> "invoke", w |-> w] : w \in MCWorkers}
MCInitialInst == w1 :> "live" @@ w2 :> "suspended" @@ w3 :> "none"
=============================================================================
