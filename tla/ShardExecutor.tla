--------------------------- MODULE ShardExecutor ---------------------------
(***************************************************************************)
(* The shard handlers of the worker executor (grpc/mod.rs) and the path    *)
(* that activates a worker on an invocation.                               *)
(*                                                                         *)
(*   revoke_shards_internal: revoke the shards in the shard service, take  *)
(*     a snapshot of the active worker cache, and for every worker of the  *)
(*     snapshot no longer owned, set_interrupting(Restart) and await the   *)
(*     acknowledgement, one worker at a time.                              *)
(*   assign_shards_internal: assign the shards.                            *)
(*   invoke_worker_internal -> get_or_create: check that the worker        *)
(*     belongs to this executor, read its metadata (an await), then get or *)
(*     create the instance in the cache and start it.                      *)
(*                                                                         *)
(* The workers are modelled from spec 4.1: a running worker acknowledges   *)
(* an interrupt at its next checkpoint; Restart re-activates it.           *)
(***************************************************************************)
EXTENDS FiniteSets

CONSTANTS
    Workers,       \* worker ids
    Shards,        \* shard ids
    ShardOf,       \* [Workers -> Shards]: the shard a worker id hashes to
    Requests,      \* concurrent API requests (model values)
    ReqOps,        \* [Requests -> SUBSET Ops]: what each request may be
    InitialOwned,  \* shards assigned to this executor at start
    InitialInst    \* [Workers -> InstStates]: the cache at start

\* The requests, with their arguments.
Ops == [op : {"revoke", "assign"}, shards : SUBSET Shards] \cup [op : {"invoke"}, w : Workers]

\* A cached instance is suspended (loaded, not executing) or live.
InstStates == {"none", "suspended", "live"}

ASSUME /\ ShardOf \in [Workers -> Shards] /\ InitialOwned \subseteq Shards
       /\ InitialInst \in [Workers -> InstStates]
       /\ \A r \in Requests : ReqOps[r] \subseteq Ops

VARIABLES
    owned,   \* shards the shard service holds as assigned
    inst,    \* [Workers -> InstStates]: the active worker cache
    intr,    \* [Workers -> BOOLEAN]: a Restart is signalled to the instance
    op,      \* [Requests -> Ops]
    pc,      \* [Requests -> "start" | "activate" | "loop" | "await" | "done"]
    todo,    \* [Requests -> SUBSET Workers]: the snapshot not yet visited
    cur,     \* [Requests -> Workers]: the worker whose acknowledgement is awaited
    result   \* [Requests -> "pending" | "ok" | "notOwned" | "previousFailed"]

vars == <<owned, inst, intr, op, pc, todo, cur, result>>

Init ==
    /\ owned = InitialOwned
    /\ inst = InitialInst
    /\ intr = [w \in Workers |-> FALSE]
    /\ op \in {o \in [Requests -> Ops] : \A r \in Requests : o[r] \in ReqOps[r]}
    /\ pc = [r \in Requests |-> "start"]
    /\ todo = [r \in Requests |-> {}]
    /\ cur \in [Requests -> Workers]
    /\ result = [r \in Requests |-> "pending"]

\* ShardService::check_worker.
BelongsHere(w) == ShardOf[w] \in owned

Goto(r, l) == pc' = [pc EXCEPT ![r] = l]
Finish(r, res) == /\ Goto(r, "done")
                  /\ result' = [result EXCEPT ![r] = res]

-----------------------------------------------------------------------------
(* revoke_shards_internal                                                  *)

\* shard_service().revoke_shards, then active_workers().snapshot().
RevokeShards(r) ==
    /\ pc[r] = "start" /\ op[r].op = "revoke"
    /\ owned' = owned \ op[r].shards
    /\ todo' = [todo EXCEPT ![r] = {w \in Workers : inst[w] # "none"}]
    /\ Goto(r, "loop")
    /\ UNCHANGED <<inst, intr, op, cur, result>>

\* Mutant: awaits an acknowledgement from every unowned instance, running
\* or not.
RevokeVisitAwaitingAlways(r) ==
    /\ pc[r] = "loop"
    /\ \E w \in todo[r] :
        /\ todo' = [todo EXCEPT ![r] = @ \ {w}]
        /\ \/ BelongsHere(w) /\ UNCHANGED <<intr, pc, cur>>
           \/ /\ ~BelongsHere(w)
              /\ intr' = [intr EXCEPT ![w] = TRUE]
              /\ cur' = [cur EXCEPT ![r] = w]
              /\ Goto(r, "await")
    /\ UNCHANGED <<owned, inst, op, result>>

\* One iteration of the loop over the snapshot (in the map's order): a
\* worker no longer owned is sent Restart; set_interrupting returns a
\* receiver only for a running instance, which the loop then awaits.
RevokeVisit(r) ==
    /\ pc[r] = "loop"
    /\ \E w \in todo[r] :
        /\ todo' = [todo EXCEPT ![r] = @ \ {w}]
        /\ \/ /\ BelongsHere(w) \/ inst[w] # "live"
              /\ UNCHANGED <<intr, pc, cur>>
           \/ /\ ~BelongsHere(w) /\ inst[w] = "live"
              /\ intr' = [intr EXCEPT ![w] = TRUE]
              /\ cur' = [cur EXCEPT ![r] = w]
              /\ Goto(r, "await")
    /\ UNCHANGED <<owned, inst, op, result>>

\* await_interrupted.recv(): the worker has acknowledged.
RevokeAwaited(r) ==
    /\ pc[r] = "await"
    /\ ~intr[cur[r]]
    /\ Goto(r, "loop")
    /\ UNCHANGED <<owned, inst, intr, op, todo, cur, result>>

RevokeDone(r) ==
    /\ pc[r] = "loop" /\ todo[r] = {}
    /\ Finish(r, "ok")
    /\ UNCHANGED <<owned, inst, intr, op, todo, cur>>

-----------------------------------------------------------------------------
(* assign_shards_internal; Ctx::on_shard_assignment_changed is a hook of   *)
(* the worker context outside this crate.                                  *)

AssignShards(r) ==
    /\ pc[r] = "start" /\ op[r].op = "assign"
    /\ owned' = owned \cup op[r].shards
    /\ Finish(r, "ok")
    /\ UNCHANGED <<inst, intr, op, todo, cur>>

-----------------------------------------------------------------------------
(* invoke_worker_internal -> get_or_create                                 *)

\* get_or_create_pending: ensure_worker_belongs_to_this_executor, an early
\* return when the worker is not owned.
CheckOwnership(r) ==
    /\ pc[r] = "start" /\ op[r].op = "invoke"
    /\ \/ BelongsHere(op[r].w) /\ Goto(r, "activate") /\ UNCHANGED result
       \/ ~BelongsHere(op[r].w) /\ Finish(r, "notOwned")
    /\ UNCHANGED <<owned, inst, intr, op, todo, cur>>

\* After worker_service().get: ensure_not_failed returns early when the
\* worker's record shows it Failed or Exited or holds a last error (worker
\* status is not modelled here, so this is a free choice); otherwise
\* Worker::get_or_create_suspended puts the instance in the cache,
\* start_if_needed starts it, and the invocation is enqueued.
ActivateWorker(r) ==
    LET w == op[r].w IN
    /\ pc[r] = "activate"
    /\ \/ inst' = [inst EXCEPT ![w] = "live"] /\ Finish(r, "ok")
       \/ UNCHANGED inst /\ Finish(r, "previousFailed")
    /\ UNCHANGED <<owned, intr, op, todo, cur>>

-----------------------------------------------------------------------------
(* The workers (spec 4.1).                                                 *)

\* A live instance reaches a checkpoint, acknowledges the Restart and is
\* re-activated with the same arguments.
AckRestart(w) ==
    /\ inst[w] = "live" /\ intr[w]
    /\ intr' = [intr EXCEPT ![w] = FALSE]
    /\ UNCHANGED <<owned, inst, op, pc, todo, cur, result>>

RequestStep(r) ==
    \/ RevokeShards(r) \/ RevokeVisit(r) \/ RevokeAwaited(r) \/ RevokeDone(r)
    \/ AssignShards(r) \/ CheckOwnership(r) \/ ActivateWorker(r)

Next == (\E r \in Requests : RequestStep(r)) \/ (\E w \in Workers : AckRestart(w))

\* Every request is a tokio task the runtime keeps polling, and a running
\* worker keeps reaching checkpoints.
Fairness == /\ \A r \in Requests : WF_vars(RequestStep(r))
            /\ \A w \in Workers : WF_vars(AckRestart(w))

Spec == Init /\ [][Next]_vars /\ Fairness

-----------------------------------------------------------------------------
(* Properties.                                                             *)

\* revoke_shards awaits, one after the other and without a timeout, the
\* acknowledgement of every running worker it restarts, while invocations
\* and other revocations interleave: it still always answers, and so does
\* every other request.
RequestsComplete == \A r \in Requests : <>(pc[r] = "done")

\* Spec 4.1 / 5: a mutating operation confirms shard ownership before it
\* acts, so an executor never starts a worker whose shard it does not own.
\* get_or_create checks ownership, then awaits the metadata before it
\* creates or starts the instance.
ActivatedOnlyWhenOwned ==
    [][\A w \in Workers : inst[w] # "live" /\ inst'[w] = "live" => BelongsHere(w)]_vars
=============================================================================
