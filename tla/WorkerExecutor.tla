--------------------------- MODULE WorkerExecutor ---------------------------
(***************************************************************************)
(* The worker-facing handlers of the worker executor's gRPC API            *)
(* (src/golem-worker-executor/src/grpc/mod.rs) acting on one worker,       *)
(* together with the worker itself (the crate's worker module, not under   *)
(* src/, modelled from the spec).                                          *)
(*                                                                         *)
(* Every handler first reads the worker's latest metadata                  *)
(* (Worker::get_latest_metadata / worker_service().get) and then acts on   *)
(* that snapshot after further awaits; so a handler is two steps, Read and *)
(* its act, and other requests and the worker may step in between.         *)
(***************************************************************************)
EXTENDS Naturals, Sequences, FiniteSets

LOCAL SeqExt == INSTANCE SequencesExt

CONSTANTS
    Requests,       \* concurrent API requests (model values)
    Keys,           \* idempotency keys
    Versions,       \* component versions
    InitialVersion, \* the worker's component version at creation
    MaxCalls,       \* bound on the number of API calls in a behaviour
    Plugins,        \* plugin installation ids
    Installed       \* [Versions -> SUBSET Plugins]: the installations of each component version

ASSUME InitialVersion \in Versions /\ MaxCalls \in Nat /\ Installed \in [Versions -> SUBSET Plugins]

Statuses == {"Idle", "Running", "Suspended", "Interrupted", "Retrying", "Failed", "Exited"}
Ops == {"invoke", "interrupt", "resume", "delete", "complete", "update", "cancel",
        "create", "activate", "deactivate"}

(***************************************************************************)
(* WorkerMetadata.last_known_status, as far as the handlers read it.       *)
(* pending holds the pending invocations: [kind |-> "invoke", key] or      *)
(* [kind |-> "manual", v] (WorkerInvocation::ManualUpdate); updates holds  *)
(* the target versions of the pending automatic updates; lastError is      *)
(* whether get_last_error_and_retry_count finds an error at the oplog's    *)
(* tail.  active holds the active plugin installations.                    *)
(***************************************************************************)
Invocation == [kind : {"invoke"}, key : Keys] \cup [kind : {"manual"}, v : Versions]
Meta == [exists : BOOLEAN, status : Statuses, version : Versions,
         updates : Seq(Versions), pending : Seq(Invocation),
         results : SUBSET Keys, lastError : BOOLEAN, active : SUBSET Plugins]

NewWorker == [exists |-> TRUE, status |-> "Idle", version |-> InitialVersion,
              updates |-> <<>>, pending |-> <<>>, results |-> {}, lastError |-> FALSE,
              active |-> {}]
NoWorker == [NewWorker EXCEPT !.exists = FALSE]

VARIABLES
    meta,       \* the worker's metadata in the worker service
    inst,       \* the instance in the active worker cache:
                \*   "none" | "suspended" (created, not started) | "loading" | "live"
    intr,       \* interrupt signalled to the cached instance: "none" | "Interrupt" | "Restart"
    evicted,    \* live instances dropped from the cache before acknowledging an interrupt
    promise,    \* the promise the worker's current invocation awaits: "none" | "waiting" | "completed"
    req,        \* [Requests -> request record]
    calls,      \* API calls started so far
    executed,   \* history: [Keys -> Nat], times the worker completed the invocation with that key
    cancelled   \* history: keys a cancel_invocation call answered `true` for

vars == <<meta, inst, intr, evicted, promise, req, calls, executed, cancelled>>

Idle(r) == req[r].pc = "idle"

TypeOK ==
    /\ meta \in Meta
    /\ inst \in {"none", "suspended", "loading", "live"}
    /\ intr \in {"none", "Interrupt", "Restart"}
    /\ evicted \in Nat
    /\ promise \in {"none", "waiting", "completed"}
    /\ \A r \in Requests : req[r].pc \in {"idle", "act", "awaitInterrupt"} /\ req[r].op \in Ops \cup {"none"}
    /\ calls \in 0..MaxCalls
    /\ executed \in [Keys -> Nat]
    /\ cancelled \subseteq Keys

Init ==
    /\ meta \in {NewWorker, [NewWorker EXCEPT !.status = "Suspended"]}
    /\ inst = "none"
    /\ intr = "none"
    /\ evicted = 0
    /\ promise = IF meta.status = "Suspended" THEN "waiting" ELSE "none"
    /\ req = [r \in Requests |-> [pc |-> "idle", op |-> "none"]]
    /\ calls = 0
    /\ executed = [k \in Keys |-> 0]
    /\ cancelled = {}

-----------------------------------------------------------------------------
(* Helpers shared by the handlers.                                         *)

\* ensure_not_failed on a metadata snapshot.
NotFailed(m) == m.status \notin {"Failed", "Exited"} /\ ~m.lastError

\* Worker::get_or_create_suspended: reuse the cached instance or put a new,
\* unstarted one in the cache.  Without metadata the worker is constructed
\* from the request's creation parameters.
GetOrCreateSuspended(i) == IF i = "none" THEN "suspended" ELSE i
MetaAfterGetOrCreate(m) == IF m.exists THEN m ELSE NewWorker

\* Worker::start_if_needed: an instance that is not running starts loading.
StartIfNeeded(i) == IF i = "suspended" THEN "loading" ELSE i

\* An instance that has been started (replaying or executing).
IsRunning(i) == i \in {"loading", "live"}

\* Worker::set_interrupting on the cached instance i: a running instance is
\* signalled and acknowledges at its next checkpoint (the call returns a
\* receiver); an instance that is not running is marked Interrupted at once.
SetInterrupting(i, m, kind) ==
    IF IsRunning(i)
    THEN /\ intr' = kind
         /\ meta' = m
    ELSE /\ intr' = intr
         /\ meta' = [m EXCEPT !.status = "Interrupted"]

\* active_workers().remove of the cached instance i: a running instance is
\* not stopped by this and keeps running, and its interrupt, out of the cache.
RemoveFromCache(i) ==
    /\ inst' = "none"
    /\ intr' = "none"
    /\ evicted' = IF IsRunning(i) THEN evicted + 1 ELSE evicted

Reply(r) == req' = [req EXCEPT ![r] = [pc |-> "idle", op |-> "none"]]

\* worker_service().remove: the metadata is gone, and with it the history
\* of the worker's invocations (a worker created later under the same id
\* starts afresh).
RemoveMetadata ==
    /\ meta' = NoWorker
    /\ executed' = [k \in Keys |-> 0]
    /\ cancelled' = {}

-----------------------------------------------------------------------------
(* The handlers.                                                           *)

\* A request arrives and reads the worker's latest metadata.
Read(r) ==
    /\ Idle(r)
    /\ calls < MaxCalls
    /\ \E op \in Ops, k \in Keys, v \in Versions, flag \in BOOLEAN, manual \in BOOLEAN, p \in Plugins :
          \* only interrupt and resume read the flag (recover_immediately,
          \* force), only update the version and the mode, only the plugin
          \* handlers the installation id
          /\ op \notin {"interrupt", "resume"} => ~flag
          /\ op # "update" => v = InitialVersion /\ ~manual
          /\ op \notin {"activate", "deactivate"} => p = CHOOSE q \in Plugins : TRUE
          /\ req' = [req EXCEPT ![r] = [pc |-> "act", op |-> op, key |-> k, v |-> v,
                                     flag |-> flag, manual |-> manual, plugin |-> p, snap |-> meta]]
    /\ calls' = calls + 1
    /\ UNCHANGED <<meta, inst, intr, evicted, promise, executed, cancelled>>

Acting(r, op) == req[r].pc = "act" /\ req[r].op = op

\* invoke_worker_internal: get_or_create_pending (ensure_not_failed on the
\* snapshot when the worker exists, get_or_create_suspended), start_if_needed,
\* then Worker::invoke, which enqueues unless the key is already pending or
\* has a result.
InvokeWorker(r) ==
    LET m == req[r].snap
        k == req[r].key
        m1 == MetaAfterGetOrCreate(meta)
        known == k \in m1.results \/ \E j \in DOMAIN m1.pending : m1.pending[j] = [kind |-> "invoke", key |-> k]
    IN
    /\ Acting(r, "invoke")
    /\ \/ /\ m.exists /\ ~NotFailed(m)
          /\ UNCHANGED <<meta, inst>>
       \/ /\ ~m.exists \/ NotFailed(m)
          /\ inst' = StartIfNeeded(GetOrCreateSuspended(inst))
          /\ meta' = IF known THEN m1 ELSE [m1 EXCEPT !.pending = Append(@, [kind |-> "invoke", key |-> k])]
    /\ Reply(r)
    /\ UNCHANGED <<intr, evicted, promise, calls, executed, cancelled>>

\* Mutant: a plain interrupt sent as InterruptKind::Suspend.
InterruptWorkerSuspending(r) ==
    LET m == req[r].snap
        i1 == GetOrCreateSuspended(inst)
    IN
    /\ Acting(r, "interrupt")
    /\ \/ /\ ~m.exists /\ inst = "none"
          /\ UNCHANGED <<meta, inst, intr, evicted>>
       \/ /\ ~m.exists /\ inst # "none"
          /\ SetInterrupting(inst, meta, IF req[r].flag THEN "Restart" ELSE "Suspend")
          /\ UNCHANGED <<inst, evicted>>
       \/ /\ m.exists /\ m.status \in {"Exited", "Idle", "Failed", "Interrupted"}
          /\ UNCHANGED <<meta, inst, intr, evicted>>
       \/ /\ m.exists /\ m.status \in {"Suspended", "Retrying", "Running"}
          /\ meta' = IF IsRunning(i1) THEN MetaAfterGetOrCreate(meta)
                     ELSE [MetaAfterGetOrCreate(meta) EXCEPT !.status = "Interrupted"]
          /\ RemoveFromCache(i1)
    /\ Reply(r)
    /\ UNCHANGED <<promise, calls, executed, cancelled>>

\* interrupt_worker_internal, by the snapshot's status.  Without metadata an
\* instance still in the cache is signalled; Suspended, Retrying and Running
\* workers are signalled and dropped from the cache at once.
InterruptWorker(r) ==
    LET m == req[r].snap
        i1 == GetOrCreateSuspended(inst)
    IN
    /\ Acting(r, "interrupt")
    /\ \/ /\ ~m.exists /\ inst = "none"
          /\ UNCHANGED <<meta, inst, intr, evicted>>
       \/ /\ ~m.exists /\ inst # "none"
          /\ SetInterrupting(inst, meta, IF req[r].flag THEN "Restart" ELSE "Interrupt")
          /\ UNCHANGED <<inst, evicted>>
       \/ /\ m.exists /\ m.status \in {"Exited", "Idle", "Failed", "Interrupted"}
          /\ UNCHANGED <<meta, inst, intr, evicted>>
       \/ /\ m.exists /\ m.status \in {"Suspended", "Retrying", "Running"}
          /\ meta' = IF IsRunning(i1) THEN MetaAfterGetOrCreate(meta)
                     ELSE [MetaAfterGetOrCreate(meta) EXCEPT !.status = "Interrupted"]
          /\ RemoveFromCache(i1)
    /\ Reply(r)
    /\ UNCHANGED <<promise, calls, executed, cancelled>>

\* resume_worker_internal: NotFound without metadata, ensure_not_failed,
\* then get_or_create_running for a Suspended, Interrupted or Idle worker,
\* or for any status when forced.
ResumeWorker(r) ==
    LET m == req[r].snap IN
    /\ Acting(r, "resume")
    /\ \/ /\ ~m.exists \/ ~NotFailed(m)
          /\ UNCHANGED <<meta, inst>>
       \/ /\ m.exists /\ NotFailed(m)
          /\ ~(m.status \in {"Suspended", "Interrupted", "Idle"} \/ req[r].flag)
          /\ UNCHANGED <<meta, inst>>
       \/ /\ m.exists /\ NotFailed(m)
          /\ m.status \in {"Suspended", "Interrupted", "Idle"} \/ req[r].flag
          /\ inst' = StartIfNeeded(GetOrCreateSuspended(inst))
          /\ meta' = MetaAfterGetOrCreate(meta)
    /\ Reply(r)
    /\ UNCHANGED <<intr, evicted, promise, calls, executed, cancelled>>

\* Mutant: awaits an acknowledgement even from an instance that is not
\* running (set_interrupting returned no receiver).
DeleteWorkerAwaitingAlways(r) ==
    LET m == req[r].snap
        i1 == GetOrCreateSuspended(inst)
    IN
    /\ Acting(r, "delete")
    /\ \/ /\ ~m.exists
          /\ Reply(r)
          /\ UNCHANGED <<meta, inst, intr, evicted, executed, cancelled>>
       \/ /\ m.exists /\ m.status \in {"Exited", "Failed", "Interrupted"}
          /\ RemoveMetadata
          /\ RemoveFromCache(inst)
          /\ Reply(r)
       \/ /\ m.exists /\ m.status \in {"Idle", "Running", "Suspended", "Retrying"}
          /\ intr' = "Interrupt"
          /\ req' = [req EXCEPT ![r].pc = "awaitInterrupt"]
          /\ inst' = i1
          /\ UNCHANGED <<meta, evicted, executed, cancelled>>
    /\ UNCHANGED <<promise, calls>>

\* delete_worker_internal: for an Idle, Running, Suspended or Retrying
\* snapshot, interrupt the instance and, if it is running, await the
\* acknowledgement; then stop it, remove the metadata and drop the instance
\* from the cache.
DeleteWorker(r) ==
    LET m == req[r].snap
        i1 == GetOrCreateSuspended(inst)
    IN
    /\ Acting(r, "delete")
    /\ \/ /\ ~m.exists
          /\ Reply(r)
          /\ UNCHANGED <<meta, inst, intr, evicted, executed, cancelled>>
       \/ /\ m.exists /\ m.status \in {"Exited", "Failed", "Interrupted"}
          /\ RemoveMetadata
          /\ RemoveFromCache(inst)
          /\ Reply(r)
       \/ /\ m.exists /\ m.status \in {"Idle", "Running", "Suspended", "Retrying"}
          /\ IsRunning(i1)
          /\ intr' = "Interrupt"
          /\ req' = [req EXCEPT ![r].pc = "awaitInterrupt"]
          /\ UNCHANGED <<meta, inst, evicted, executed, cancelled>>
       \/ /\ m.exists /\ m.status \in {"Idle", "Running", "Suspended", "Retrying"}
          /\ ~IsRunning(i1)
          /\ RemoveMetadata
          /\ inst' = "none" /\ intr' = "none"
          /\ Reply(r)
          /\ UNCHANGED evicted
    /\ UNCHANGED <<promise, calls>>

\* delete_worker_internal after await_interrupted.recv(): worker.stop(),
\* worker_service().remove, active_workers().remove.
DeleteAfterInterrupt(r) ==
    /\ req[r].pc = "awaitInterrupt"
    /\ intr = "none"
    /\ RemoveMetadata
    /\ inst' = "none"
    /\ Reply(r)
    /\ UNCHANGED <<intr, evicted, promise, calls>>

\* complete_promise_internal: complete the promise first, then read the
\* latest metadata and activate the worker unless it is Exited, Failed or Idle.
CompletePromise(r) ==
    /\ Acting(r, "complete")
    /\ promise' = IF promise = "waiting" THEN "completed" ELSE promise
    /\ \/ /\ meta.exists /\ meta.status \in {"Interrupted", "Running", "Suspended", "Retrying"}
          /\ inst' = StartIfNeeded(GetOrCreateSuspended(inst))
       \/ /\ ~meta.exists \/ meta.status \in {"Exited", "Failed", "Idle"}
          /\ UNCHANGED inst
    /\ Reply(r)
    /\ UNCHANGED <<meta, intr, evicted, calls, executed, cancelled>>

\* update_worker_internal.  Automatic: an inactive worker gets the update
\* injected before it is started and its whole status record written back
\* from the snapshot (Failed reset to Retrying), with only pending_updates
\* taken from the worker (update_status(metadata.last_known_status)); a Running or Idle worker gets the
\* update enqueued and is interrupted with Restart.  Manual: the update is
\* enqueued in the invocation queue.
UpdateWorker(r) ==
    LET m == req[r].snap
        v == req[r].v
        i1 == GetOrCreateSuspended(inst)
        m1 == MetaAfterGetOrCreate(meta)
        withUpdate == [m1 EXCEPT !.updates = Append(@, v)]
        manualPending == \E j \in DOMAIN m.pending : m.pending[j] = [kind |-> "manual", v |-> v]
    IN
    /\ Acting(r, "update")
    /\ \/ /\ ~m.exists \/ m.version = v
          /\ UNCHANGED <<meta, inst, intr>>
       \/ /\ m.exists /\ m.version # v /\ ~req[r].manual
          /\ \/ v \in SeqExt!ToSet(m.updates)
             \/ m.status = "Exited"
          /\ UNCHANGED <<meta, inst, intr>>
       \/ /\ m.exists /\ m.version # v /\ ~req[r].manual /\ v \notin SeqExt!ToSet(m.updates)
          /\ m.status \in {"Interrupted", "Suspended", "Retrying", "Failed"}
          /\ meta' = [m EXCEPT !.status = IF m.status = "Failed" THEN "Retrying" ELSE m.status,
                               !.updates = withUpdate.updates,
                               !.lastError = meta.lastError]
          /\ inst' = StartIfNeeded(i1)
          /\ UNCHANGED intr
       \/ /\ m.exists /\ m.version # v /\ ~req[r].manual /\ v \notin SeqExt!ToSet(m.updates)
          /\ m.status \in {"Running", "Idle"}
          /\ inst' = i1
          /\ SetInterrupting(i1, withUpdate, "Restart")
       \/ /\ m.exists /\ m.version # v /\ req[r].manual /\ manualPending
          /\ UNCHANGED <<meta, inst, intr>>
       \/ /\ m.exists /\ m.version # v /\ req[r].manual /\ ~manualPending
          /\ meta' = [m1 EXCEPT !.pending = Append(@, [kind |-> "manual", v |-> v])]
          /\ inst' = i1
          /\ UNCHANGED intr
    /\ Reply(r)
    /\ UNCHANGED <<evicted, promise, calls, executed, cancelled>>

\* cancel_invocation_internal: a key pending in the snapshot is cancelled
\* through Worker::cancel_invocation (which drops it from the queue if it is
\* still there) and answered `true`; a key with a result is answered `false`;
\* an unknown key is an error.
CancelInvocation(r) ==
    LET m == req[r].snap
        k == req[r].key
        inv == [kind |-> "invoke", key |-> k]
        isPending(q) == \E j \in DOMAIN q : q[j] = inv
    IN
    /\ Acting(r, "cancel")
    /\ \/ /\ m.exists /\ isPending(m.pending)
          /\ inst' = GetOrCreateSuspended(inst)
          /\ meta' = [MetaAfterGetOrCreate(meta) EXCEPT !.pending = SeqExt!RemoveFirst(@, inv)]
          /\ cancelled' = cancelled \cup {k}
       \/ /\ ~m.exists \/ ~isPending(m.pending)
          /\ UNCHANGED <<meta, inst, cancelled>>
    /\ Reply(r)
    /\ UNCHANGED <<intr, evicted, promise, calls, executed>>

\* create_worker_internal: WorkerAlreadyExists when worker_service().get
\* finds metadata; otherwise get_or_create_suspended with the request's
\* creation parameters and start_if_needed.  The handler then waits for the
\* WorkerLoaded event of a loading worker, which changes no state.
CreateWorker(r) ==
    /\ Acting(r, "create")
    /\ \/ /\ req[r].snap.exists
          /\ UNCHANGED <<meta, inst>>
       \/ /\ ~req[r].snap.exists
          /\ meta' = MetaAfterGetOrCreate(meta)
          /\ inst' = StartIfNeeded(GetOrCreateSuspended(inst))
    /\ Reply(r)
    /\ UNCHANGED <<intr, evicted, promise, calls, executed, cancelled>>

\* activate_plugin_internal and deactivate_plugin_internal, on the metadata
\* read by worker_service().get: NotFound without it; a no-op when the
\* installation is already (in)active; InvalidRequest when it is not
\* installed on the snapshot's component version; otherwise
\* get_or_create_suspended and Worker::activate_plugin / deactivate_plugin,
\* which record the transition in the worker's status.
TogglePlugin(r, op, activate) ==
    LET m == req[r].snap
        p == req[r].plugin
    IN
    /\ Acting(r, op)
    /\ \/ /\ ~m.exists \/ (p \in m.active) = activate \/ p \notin Installed[m.version]
          /\ UNCHANGED <<meta, inst>>
       \/ /\ m.exists /\ (p \in m.active) # activate /\ p \in Installed[m.version]
          /\ inst' = GetOrCreateSuspended(inst)
          /\ meta' = [MetaAfterGetOrCreate(meta) EXCEPT
                         !.active = IF activate THEN @ \cup {p} ELSE @ \ {p}]
    /\ Reply(r)
    /\ UNCHANGED <<intr, evicted, promise, calls, executed, cancelled>>

ActivatePlugin(r) == TogglePlugin(r, "activate", TRUE)
DeactivatePlugin(r) == TogglePlugin(r, "deactivate", FALSE)

-----------------------------------------------------------------------------
(* The worker, modelled from the spec (sections 4.1, 4.2 and 5).           *)

\* Replay of a loading instance: pending automatic updates are applied first
\* (each succeeds or fails); then the instance goes live, or suspends again
\* if the call it was blocked in still awaits its promise.
LoadWorker ==
    /\ inst = "loading" /\ intr = "none" /\ meta.exists
    /\ \/ /\ meta.updates # <<>>
          /\ \/ meta' = [meta EXCEPT !.version = Head(meta.updates), !.updates = Tail(@), !.lastError = FALSE]
             \/ meta' = [meta EXCEPT !.updates = Tail(@)]
          /\ UNCHANGED inst
       \/ /\ meta.updates = <<>> /\ promise = "waiting"
          /\ meta' = [meta EXCEPT !.status = "Suspended"]
          /\ inst' = "suspended"
       \/ /\ meta.updates = <<>> /\ promise # "waiting"
          /\ meta' = [meta EXCEPT !.status = IF meta.pending # <<>> THEN "Running" ELSE "Idle"]
          /\ inst' = "live"
    /\ UNCHANGED <<intr, evicted, promise, req, calls, executed, cancelled>>

AfterHead(m) == [m EXCEPT !.pending = Tail(@),
                          !.status = IF Tail(m.pending) # <<>> THEN "Running" ELSE "Idle"]

\* The live instance runs the invocation at the head of its queue: it
\* completes, blocks on a promise (Suspended), traps (Retrying, with the
\* error at the oplog's tail) or exits; a manual update switches versions.
ExecuteInvocation ==
    LET h == Head(meta.pending) IN
    /\ inst = "live" /\ intr = "none" /\ meta.exists
    /\ meta.pending # <<>>
    /\ \/ /\ h.kind = "invoke"
          /\ \/ /\ meta' = [AfterHead(meta) EXCEPT !.results = @ \cup {h.key}, !.lastError = FALSE]
                /\ executed' = [executed EXCEPT ![h.key] = @ + 1]
                /\ promise' = "none"
                /\ UNCHANGED inst
             \/ /\ promise = "none"
                /\ meta' = [meta EXCEPT !.status = "Suspended"]
                /\ promise' = "waiting"
                /\ inst' = "suspended"
                /\ UNCHANGED executed
             \/ /\ meta' = [meta EXCEPT !.status = "Retrying", !.lastError = TRUE]
                /\ inst' = "suspended"
                /\ UNCHANGED <<executed, promise>>
             \/ /\ meta' = [meta EXCEPT !.status = "Exited", !.pending = Tail(@)]
                /\ inst' = "suspended"
                /\ UNCHANGED <<executed, promise>>
       \/ /\ h.kind = "manual"
          /\ meta' = [AfterHead(meta) EXCEPT !.version = h.v, !.lastError = FALSE]
          /\ UNCHANGED <<inst, executed, promise>>
    /\ UNCHANGED <<intr, evicted, req, calls, cancelled>>

\* A Retrying worker is retried after its backoff, or, with the retry budget
\* spent, becomes Failed.
RetryWorker ==
    /\ meta.exists /\ meta.status = "Retrying" /\ ~IsRunning(inst)
    /\ \/ inst' = "loading" /\ UNCHANGED meta
       \/ meta' = [meta EXCEPT !.status = "Failed"] /\ UNCHANGED inst
    /\ UNCHANGED <<intr, evicted, promise, req, calls, executed, cancelled>>

\* The cached instance reaches a checkpoint and honours its interrupt:
\* Interrupt stops it as Interrupted, Restart replays it at once.
AckInterrupt ==
    /\ IsRunning(inst) /\ intr # "none"
    /\ \/ /\ intr = "Interrupt"
          /\ meta' = [meta EXCEPT !.status = "Interrupted"]
          /\ inst' = "suspended"
       \/ /\ intr = "Restart"
          /\ inst' = "loading"
          /\ UNCHANGED meta
    /\ intr' = "none"
    /\ UNCHANGED <<evicted, promise, req, calls, executed, cancelled>>

\* Mutant: acknowledges without an evicted instance to acknowledge.
AckEvictedUnguarded ==
    /\ evicted' = evicted - 1
    /\ meta' = IF meta.exists THEN [meta EXCEPT !.status = "Interrupted"] ELSE meta
    /\ UNCHANGED <<inst, intr, promise, req, calls, executed, cancelled>>

\* An instance dropped from the cache honours its interrupt and records the
\* worker as Interrupted.
AckEvicted ==
    /\ evicted > 0
    /\ evicted' = evicted - 1
    /\ meta' = IF meta.exists THEN [meta EXCEPT !.status = "Interrupted"] ELSE meta
    /\ UNCHANGED <<inst, intr, promise, req, calls, executed, cancelled>>

RequestStep(r) ==
    \/ InvokeWorker(r) \/ InterruptWorker(r) \/ ResumeWorker(r) \/ DeleteWorker(r)
    \/ DeleteAfterInterrupt(r) \/ CompletePromise(r) \/ UpdateWorker(r) \/ CancelInvocation(r)
    \/ CreateWorker(r) \/ ActivatePlugin(r) \/ DeactivatePlugin(r)

WorkerStep == LoadWorker \/ ExecuteInvocation \/ RetryWorker \/ AckInterrupt \/ AckEvicted

Next == (\E r \in Requests : Read(r) \/ RequestStep(r)) \/ WorkerStep

\* Each request is a tokio task and the worker's invocation loop is another;
\* the runtime keeps polling all of them.
Fairness == /\ \A r \in Requests : WF_vars(RequestStep(r))
            /\ WF_vars(WorkerStep)

Spec == Init /\ [][Next]_vars /\ Fairness

-----------------------------------------------------------------------------
(* Properties.                                                             *)

\* Spec 5: the oplog of a worker is never mutated by two Worker instances at
\* once: no instance dropped from the cache is still running while another
\* one is started for the same worker.
SingleRunningInstance == evicted = 0 \/ ~IsRunning(inst)

\* Spec 4.1 / 8 (ensure_not_failed): a Failed worker is never reactivated;
\* it leaves Failed only when update_worker resets it to Retrying, or when it
\* is deleted.
FailedLeftOnlyByUpdate ==
    [][meta.exists /\ meta.status = "Failed" /\ meta'.exists
         => meta'.status \in {"Failed", "Retrying"}]_vars

\* Spec 4.7 / 8: cancel_invocation answers `true` only for an invocation that
\* then never runs.
CancelledNeverExecuted == \A k \in cancelled : executed[k] = 0

\* Spec 4.4 / 8 (update duplicate rejection): update_worker rejects an
\* automatic update whose target version is already pending ("The same
\* update is already in progress"), so no target version is ever pending
\* twice on a worker, however many update requests run at once.
UpdateNotDuplicated ==
    \A i, j \in DOMAIN meta.updates : i < j => meta.updates[i] # meta.updates[j]

\* Spec 4.6: a plugin installation is activated only when it belongs to the
\* worker's current component version; activate_plugin checks the
\* installations of the version in the metadata it read, then awaits the
\* component service and the worker before the activation is recorded.
PluginActivatedOnlyIfInstalled ==
    [][\A p \in Plugins : p \notin meta.active /\ p \in meta'.active => p \in Installed[meta'.version]]_vars

\* Spec 5: delete_worker awaits the interrupt of a running worker with no
\* timeout; the acknowledgement always comes, and the delete answers.
DeleteCompletes == \A r \in Requests : req[r].pc = "awaitInterrupt" ~> Idle(r)
=============================================================================
