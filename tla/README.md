# TLA+ models of the golem worker executor

These modules model the worker executor in `src/golem-worker-executor` for
the TLC model checker. The modelled code is the gRPC handlers that act on
workers (`grpc/mod.rs`) and the fork service (`services/worker_fork.rs`).
Each module is written from the Rust source. Where the code it calls is not
in `src/` (the `Worker` type, the oplog, the active worker cache), the
behaviour is taken from `spec.md` and marked `spec_modelled` in
`PROJECT.json`.

## The system

The executor hosts **workers**. A worker is a component instance whose
history is an append-only **oplog**. Its **status record** holds:

- the status: Idle, Running, Suspended, Interrupted, Retrying, Failed or Exited;
- the component version;
- pending invocations and pending updates;
- the results of completed invocations, keyed by idempotency key.

The **active worker cache** holds the in-memory `Worker` instance of each
worker the executor is running.

API requests are served by the handlers in `grpc/mod.rs`, each in its own
tokio task. Every handler follows the same pattern:

1. Check shard ownership.
2. Read the worker's latest metadata.
3. After further awaits, act on that snapshot: get or create the instance,
   signal an interrupt, enqueue an invocation or update, or write the status.

The worker's own task runs in parallel. It replays, executes its queue,
traps and retries, and acknowledges interrupts. Most hazards in this code
arise between a handler's read and its act.

The **fork service** creates a new worker from a prefix of another worker's
oplog, in these steps:

1. Validate the request.
2. Load the source and commit its oplog.
3. Create the target's oplog with the rewritten create entry.
4. Copy `[INITIAL.next(), cut_off)` from the source.
5. For `fork_and_write_fork_result`, add a `Forked` result entry.
6. Commit the target's oplog.
7. Resume the target through the worker proxy.

## Inventory

| Part | Source | Model |
|---|---|---|
| Fork service | `services/worker_fork.rs` | `WorkerFork`: modelled; `ForkSpec`: its abstract specification |
| Lifecycle handlers: create, invoke, interrupt, resume, delete, complete_promise, update, cancel | `grpc/mod.rs` | `WorkerExecutor`: partly (revert and fork_worker on the executor side not yet) |
| Shard assign/revoke, and the invocation path's ownership check | `grpc/mod.rs` 250-255, 814-940 | `ShardExecutor`: modelled |
| Plugin activate/deactivate | `grpc/mod.rs` 1539-1685 | `WorkerExecutor`: modelled |
| Read-only queries, event streams | `grpc/mod.rs` | not modelled: no state change |
| Remote worker proxy | `services/worker_proxy.rs` | `WorkerProxy`: modelled |
| Rib type flattening | `golem-rib/src/inferred_type/flatten.rs` | `RibFlatten`: modelled |
| Rib pattern-match variable binding | `golem-rib/src/type_inference/variable_binding_pattern_match.rs` | `RibBinding`: modelled (the traversal order of `ExprVisitor::top_down`, outside `src/`, taken both ways) |
| Rib global-input inference, parsers | `golem-rib` | not modelled: they rest on `InferredType::merge` and `rib_expr`, outside `src/` and the spec |
| Cloud service, worker-service auth and gateway, debugging auth, component DTOs | various | not modelled: stateless request mapping outside the spec's scope |
| Tests, generated bindings | various | not modelled |

## WorkerFork (`WorkerFork.tla`, `MCWorkerFork.tla`)

**State**
- `oplog[w]`: a sequence of entries `[k, w, n]`.
- `durable[w]`: the committed length of `oplog[w]`.
- The workers that are active and running.
- Per request: a program counter `pc`, the copy index `idx`, the `result`,
  and the parameters `src`, `tgt`, `cut` and `andResult`.
- `created[w]`: counts oplog creations.
- `replayed[w]`: what the resumed target replays.

**Actions.** There is one action per stretch of code between awaits that
changes state: `ValidateWorkerForking`, `LoadSource`, `CreateTargetOplog`,
`CopyEntry` (one loop iteration), `CopyDone`, `WriteForkResult`,
`CommitTarget` and `ResumeTarget`. Running workers keep taking
`WorkerAppend` and `WorkerCommit` steps meanwhile.

**Bounds.** The MC module has four workers:
- `s` is the source; it already exists and runs.
- `t1` is owned and absent.
- `t2` is not owned.
- `u` is owned and never created.

There are two requests:
- `r1` forks `s` into `t1` or into `s` itself.
- `r2` forks `s`, `t2` or `u` into `t2`.

Cut-offs range over 1..4 and oplogs are bounded at 5 entries. These bounds
are enough to reach:
- every validation error;
- a cut-off beyond the source's tail;
- a source that grows during the copy;
- both fork variants;
- a failing resume.

**Runs**
- `fork_pass` holds, with 166,578 distinct states:
  - `ForkedOplogIsSourcePrefix`: a committed fork is the rewritten create
    entry followed by the source's entries `2..cut-1`, plus the Forked entry
    for the second variant.
  - `ResumedTargetReplaysFork`: a resumed target replays exactly that
    content.
  - `ImplementsForkSpec`: the refinement described below.

  The run checks no type invariant and no "every request answers": the
  model's variables hold their types by the way the actions are written,
  and every request ends after a bounded number of weakly fair steps.
  `WorkerCreatedOnce` (no oplog created twice) is checked only by
  `fork_race`, where the two requests share a target.
- `fork_race` is a violation. With both requests aimed at `t1`, both pass
  the existence check (line 382) before either creates the oplog (line 466).

`validate_worker_forking` accepts `cut_off = 2` (line 374), where the spec
requires at least `INITIAL.next() + 1`. The cut-offs of `fork_pass`
include 2, and every property holds for such a fork: it creates a target
holding only its create entry. The divergence is one comparison against the
spec's bound, so it is recorded as a hazard rather than checked by a run.


No source in `fork_pass` is the target of another request. When `r2` may
fork from `t1` while `r1` is still copying into it, `ImplementsForkSpec`
fails: `r2`'s `LoadSource` force-commits `t1`'s partial copy (line 453).
That makes `t1` durable before its own fork commits. Whether the program
does this depends on whether the worker instance `r2` loads shares the
buffer `r1` writes to. That belongs to the oplog service, outside `src/`,
so it is listed as a hazard rather than a finding.

**Refinement (`ForkSpec.tla`).** `ForkSpec` states what a fork promises.
A request is either:
- rejected for the state-determined reason, or
- answered after these steps: the target is created holding its rewritten
  creation entry; then the source proves too short (abort), or the whole
  fork content is committed at once; then the target is resumed or
  reported as failed to resume.

`WorkerFork` maps onto it as follows:
- The program counter collapses to the phase: validate, load and create
  become `idle`; copy, mark and commit become `created`; resume becomes
  `committed`.
- While a request is copying into a target, or after its copy failed,
  readers see only the target's committed prefix (`AbsOplog`).
- `LoadSource`'s commit is the abstract `CommitLog` of the source.

Copy steps and the Forked entry are stuttering steps.
`ImplementsForkSpec == Abs!Spec`, including the abstract fairness.

**Fairness.** There is weak fairness per request. Each request is a tokio
task that is polled until it finishes. Workers get no fairness: they may
stop at any time.

## WorkerExecutor (`WorkerExecutor.tla`, `MCWorkerExecutor.tla`)

**State.** One worker:
- `meta`: the status record, or `NoWorker`. It includes the active plugin
  installations.
- `inst`: the cache entry, one of `none`, `suspended`, `loading` or `live`.
- `intr`: the interrupt signalled to the cached instance.
- `evicted`: running instances dropped from the cache before they
  acknowledged.
- `promise`: a promise the worker may block on.
- `req[r]`: one record per request, holding its pc, operation, arguments and
  the metadata snapshot it read.

It also keeps two history variables: `executed` (the completions per key)
and `cancelled` (the keys answered `true`). Both are reset when the worker
is deleted.

**Actions.**
- `Read(r)` is the request's metadata read.
- One act per handler follows it: `InvokeWorker`, `InterruptWorker`,
  `ResumeWorker`, `DeleteWorker` (plus `DeleteAfterInterrupt` once the
  awaited acknowledgement arrives), `CompletePromise`, `UpdateWorker`,
  `CancelInvocation`, `CreateWorker`, and `ActivatePlugin` /
  `DeactivatePlugin` (both `TogglePlugin`).
- `CreateWorker` answers AlreadyExists when the snapshot has metadata. The
  wait for the `WorkerLoaded` event changes no state and is not modelled.
- Each act's disjuncts follow the handler's match arms and early returns.

The worker's steps are modelled from spec sections 4.1, 4.2 and 5:
- `LoadWorker` applies pending updates, then goes live or suspends on an
  open promise.
- `ExecuteInvocation` completes, blocks on the promise, traps into
  Retrying, or exits.
- `RetryWorker` retries, or fails for good.
- `AckInterrupt` and `AckEvicted` acknowledge interrupts.

**Bounds.**
- Two requests, one idempotency key, versions {1, 2}.
- One plugin installation `p1`, installed on version 1 and not on 2.
- At most 3 API calls per behaviour.
- The worker starts Idle, or Suspended on an open promise.

Three calls allow a read, an interleaved second request and a worker step
between them, which is what every race below needs. The run has 141,932
distinct states (about 45 s), and every action and disjunct fires.

**Fairness.** There is weak fairness per request, and on the worker's
steps: the worker's task is polled by the same runtime.

**Deadlock.** Deadlock checking is off because the behaviour ends when the
call budget is spent and the worker is idle.

**Runs**
- `executor_pass` holds:
  - `TypeOK`: the state is well-formed.
  - `DeleteCompletes`: a delete that awaits an interrupt always gets its
    acknowledgement.
- `executor_cancel` is a violation. cancel answers `true` for an invocation
  the worker completed after cancel's read (line 560).
- `executor_evict` is a violation. interrupt drops a running instance from
  the cache without awaiting its acknowledgement (line 698), and a later
  invoke starts a second instance. This contradicts the single-writer rule
  of spec §5.
- `executor_failed_gate` is a violation. update, acting on a stale
  Idle/Running snapshot, interrupts a worker that has since failed
  (line 1177). That takes it out of Failed other than through the reset to
  Retrying.
- `executor_update_duplicate` is a violation. Two automatic updates to the
  same version both pass the "already in progress" check (line 1097) when
  both read the snapshot before either enqueues. `UpdateNotDuplicated` (no
  version is in `updates` twice) fails in five states: read, read, update,
  update. Spec §4.4 and the scenario of §8 say the second must be rejected.
  `Worker::enqueue_update` is outside `src/` and is modelled as an append,
  which is how the spec describes the pending-update list.
- `executor_plugin` is a violation. activate_plugin checks the installation
  against the version in the metadata it read (line 1574). An update
  applied by the worker in between moves it to version 2, and `p1` is
  activated on a version that does not install it, against spec §4.6.
- Two creates that both read no metadata both answer Ok (line 275); the
  second reuses the first's worker and drops its parameters. No state the
  properties read tells them apart, so this is a hazard without a run.
- update also writes back the whole status record it read (line 1152), so
  invocations completed in between become pending again. The model runs
  invocations from the status record. Whether a live instance would run
  them twice depends on `Worker`'s own queue and replay, which are outside
  `src/`, so no run claims it. It is listed as a hazard.

## ShardExecutor (`ShardExecutor.tla`, `MCShardExecutor.tla`)

**State**
- `owned`: the shards the shard service holds.
- `inst[w]`: the cache entry of each worker (`none`, `suspended` or `live`).
- `intr[w]`: a Restart signalled to the instance.
- Per request: the operation, `pc`, the snapshot `todo` still to visit, the
  worker `cur` being awaited, and the result.

**Actions**
- `revoke_shards` is four actions:
  - `RevokeShards`: revoke the shards, then snapshot the cache.
  - `RevokeVisit`: one loop iteration. A worker whose shard is no longer
    owned gets `set_interrupting(Restart)`. The loop waits only when that
    call returns a receiver, which happens for a running instance.
  - `RevokeAwaited`: the awaited acknowledgement arrives.
  - `RevokeDone`: the loop ends and the request answers.
- `AssignShards`.
- The invocation path is two actions:
  - `CheckOwnership`: `ensure_worker_belongs_to_this_executor`.
  - `ActivateWorker`: after the metadata await. It either ends early in
    `ensure_not_failed`, or creates and starts the instance.
- Workers acknowledge a Restart and are re-activated, per spec §4.1
  (`AckRestart`).

**Bounds.** Two shards and three workers:
- `w1` (shard a) is running.
- `w2` (shard b) is cached but suspended.
- `w3` (shard b) is not cached.

Three requests run concurrently:
- `r1` revokes a, or both shards.
- `r2` revokes a, or assigns it back.
- `r3` invokes any worker.

This gives two revokes waiting on the same worker, a shard revoked and
re-assigned during a revoke's loop, and an invocation racing a revoke.
The run has 39,906 states, and every action and disjunct fires.

**Fairness.** Weak fairness per request and on each worker's
acknowledgement. A running worker reaches its next checkpoint, per spec
§4.1. Without that fairness, revoke, which has no timeout, may wait for
ever.

**Runs**
- `shard_pass` holds `RequestsComplete`: every request, and so every
  revoke, answers.
- `shard_revoke_race` is a violation of `ActivatedOnlyWhenOwned`. An
  invocation checks ownership (line 847) and awaits the metadata (line
  849). A revoke then takes its snapshot. After that the invocation starts
  the worker, on an executor that no longer owns its shard, and nothing
  will restart it.

## WorkerProxy (`WorkerProxy.tla`, `MCWorkerProxy.tla`)

`RemoteWorkerProxy` calls a worker on another executor through the worker
service. `GrpcClient::call` retries transport errors and `Unavailable` up
to the configured attempts.

**State.**
- Per call: `pc` (send, inflight, answered, done), the operation, attempts,
  the last response and the result.
- `remote`: the remote executor's workers. Each has exists, a status
  (Suspended, Running, Retrying, Failed, Exited), a version, pending
  updates, the idempotency keys it has applied, reverts applied, and the
  set of (source, target) forks performed.
- `faults`: lost requests and answers, bounded by `MaxFaults`.

**Actions.**
- Client: `Send`, `RequestLost` and `AnswerLost`. Both losses go through
  `TransportError`. It retries while `attempts < MaxAttempts`; otherwise it
  gives up with an internal error.
- `Receive` converts the answer through the method's conversion:
  `From<WorkerError>` and then `From<WorkerProxyError>`.
  - `BadRequest` becomes `invalid_request`.
  - `InternalError(e)` passes `e` through (line 116).
  - Everything else becomes `unknown`.
- Remote: `ServeInvoke`, `ServeResume`, `ServeUpdate`, `ServeFork` and
  `ServeRevert`, the remote handlers' outcomes. `Err` is the worker
  service's mapping of an executor error to a `WorkerError`.
  - `ServeInvoke`: an existing worker must pass `ensure_not_failed`
    (`NotFailedErrors`: Failed, Exited, or Retrying with a recorded error).
  - `ServeResume`: a Suspended worker, or any worker when `force` is set,
    is activated. Otherwise the answer is invalid_request.
  - `ServeUpdate`: NotFound, then "already current" or "already pending".
    An Exited worker answers Ok without a change. A Failed worker becomes
    Retrying.
  - `ServeFork`: a cut-off below 2 is invalid. Then come AlreadyExists for
    the target and NotFound for the source.

**Bounds.**
- Two calls. `c1` may invoke, resume (forced or not), update, revert or
  fork. `c2` forks `w1` into `w2` with cut-off 1 or 2, or invokes `w2`.
- Two workers in every initial status, one key, versions {1, 2}.
- Two attempts and two faults: enough for a retry after a lost answer, and
  for exhausting the retries.

Every action and disjunct fires (29,618 states).

**Fairness.** None. `GrpcClient::call` bounds only the connection by a
timeout, not the remote's answer. A call may therefore wait forever, and no
liveness property is claimed.

**Runs**
- `proxy_pass` holds:
  - `TypeOK`: the state is well-formed. Its mutant is an off-by-one in the
    retry bound (`<=`), which leaves `attempts` past `MaxAttempts`.
  - `OkMeansApplied`: an Ok answer, even one to a retry, means the
    operation took effect at the named worker. For an invocation, the key
    is applied at that worker. For a resume, the worker runs. For an
    update, the version is pending or the worker has exited. For a fork,
    the pair was forked. For a revert, a revert was applied.
- A fork whose answer was lost is retried, and the remote answers
  `AlreadyExists` (an update: `BadRequest`, already in progress). The caller
  sees an error for a fork that happened, where spec §6 says such errors
  come without side effects. The model reaches this (`ServeFork` after an
  `AnswerLost`); it is listed as a hazard of line 208 and no run checks it.
- A revert that is retried is applied twice (`ServeRevert`). The model
  counts this, but whether it does harm depends on the revert target, which
  is outside `src/`. It is listed as a hazard.
- `From<WorkerProxyError>` turns the remote's NotFound and AlreadyExists
  into `unknown`. Spec line 121 says remote errors are preserved. The model
  reproduces the conversion; no run checks it.

## Rib passes (`RibFlatten.tla`, `RibBinding.tla`, `MCRib.tla`)

`MCRib` checks both Rib modules in one run: a state examines either a list
of types (with no expression) or an expression (with the empty list).

### RibFlatten

Rib's type inference keeps intersections (`AllOf`) and unions (`OneOf`) of
inferred types in a flat form. `flatten_all_of_list` splices nested AllOfs
into the list and gathers the members of every OneOf into one trailing
OneOf; `flatten_one_of_list` does the dual. Each call keeps a `seen` set, so
a type met again through a nested list is dropped, but a plain member of an
AllOf is pushed without the check.

**Operators.** The two functions are mutually `RECURSIVE` operators, each
a fold (`FoldLeft`) of its loop body (`AllOfStep`, `OneOfStep`) over the list,
with `PushUnseen` for the `seen.insert` pushes. The state is the list under
examination; `Examine` moves to its tail, so every suffix is checked too.

**Bounds.** Two concrete types. Every list of up to three types nested one
level deep, and every list holding a type nested two levels deep alone or
next to a shallower one: 14,786 lists. This reaches repeated members, an
AllOf inside an AllOf holding a OneOf, OneOfs at two depths, and AllOfs
inside OneOfs.

**Properties** (run `rib_passes`):
- `FlattenKeepsLeaves`: both functions keep exactly the concrete types of
  their input, checked against the recursive reference `Leaves`.
- `FlattenNormalForm`: on the shapes the comments say Rib produces (no AllOf
  inside a OneOf), an AllOf's members come out as concrete types and OneOfs
  of distinct concrete types, and a OneOf's as distinct concrete types.

Outside those shapes the form is not flat: `OneOf(OneOf(AllOf(a)), AllOf(a))`
flattens to two equal AllOfs. An AllOf can also come out with two OneOfs
(`AllOf(OneOf(b), AllOf(OneOf(a)))` gives `a`'s OneOf then `b`'s), which
flattening again merges, so the function is not idempotent.

### RibBinding

`bind_variables_of_pattern_match` gives every arm of every match a global
index. `process_arm` rewrites the identifiers the arm's pattern introduces
(through `go` and `update_all_identifier_in_lhs_expr`) to
`MatchIdentifier(name, index)` and calls `bind_variables` on the arm's
resolution with those names, which rewrites the uses it finds. Each
`bind_variables` call pops the whole `top_down` queue of its expression, so
a nested match is processed inside every enclosing arm and once more from
the top, each time with a higher index; the last write stays. A `let` of a
name, once popped, stops later uses of that name being bound in that call.

**Operators.** The expression is a tree of records; the in-place rewrite is
a function `vid` from the paths of identifier nodes to their `VariableId`.
`BindVariables` folds a step over the queue (`MatchStep` for the arms loop,
`IdentifierStep` for the lookup); it and `ProcessArm` are mutually
`RECURSIVE`. `ExprVisitor::top_down` is outside `src/`: it is known to put
each expression after its ancestors, so `TopDown` is checked both as
depth-first pre-order and as breadth-first order (the variable `order`).
The reference definitions (`Binder`, `PatternNames`, `UseSlots`) state
lexical scope directly.

**Bounds.** Names `x` and `y`. Patterns `some(x)`, `some(y)`, `none` and
`y @ some(x)`; uses `x`, `y` and `{ let x = 1; x }`. Every match on `x`
with one or two arms; every outer match whose first arm resolves to a
one-arm inner match on `x` or `y` (alone or before a use of `x`), with an
optional second arm; and the four unit-test expressions. That is 736
expressions, times two orders. It reaches shadowing of an outer match
variable by an inner one, an `@` binding two names, arms binding nothing,
and re-processing of a nested match from the top.

**Agreement with the unit tests.** On the nested unit test the model gives
the `ok` arm index 1 (and the inner scrutinee `x` with it), the `err` arm
4 and the inner `some` arm 5, as `expected_nested_match` asserts.

**Property** `LexicalBinding`: a use no enclosing arm binds stays global; a
use whose innermost binding arm has no `let` of that name carries that
arm's pattern index, which no other arm's pattern carries. The mutant that
drops `index += 1` breaks it (an inner first arm shares its parent's
index).

**What it leaves out.** Arms whose resolution has a `let` of the bound name
are excluded, because there the code does not follow scope and what it does
depends on the queue order. `shadowed_let_binding` is one flat list per
call: depth-first, `some(x) => { let y = { let x = 1; x }; x }` leaves the
last `x` global; breadth-first, `some(x) => { foo(x); let x = 1; x }`
leaves `foo`'s `x` global. Both were computed from the model and are listed
as a hazard at line 52; the order `top_down` really uses decides which one
the program has.

**Run.** `rib_passes` checks the three properties in about 16 s, over
16,259 distinct states.

## Mutants

Every property of a passing run is broken by a mutant: a plausible bug in a
mapped definition, listed in `PROJECT.json`. Examples:
- an inclusive copy range;
- a skipped commit;
- a dropped target-existence check;
- a retry loop bounded with `<=`;
- a fork result that answers Ok on AlreadyExists;
- a delete that awaits a non-running instance.

## Not modelled, and why

- **Data is abstracted.**
  - Oplog entries are records of kind, worker and position.
  - Invocation payloads, environment, arguments and limits are omitted.
  - Errors are result tags.
- **Worker internals.** The `Worker` type, the oplog service and the active
  worker cache are outside `src/`. Only what the spec states of them is
  modelled.
- **Not yet modelled.** revert and fork_worker on the executor side.
- **The rest of Rib.** `infer_global_inputs` merges types through
  `InferredType::merge` and `all_of`, and the pattern-match parsers are
  `combine` parsers over `rib_expr`. Those and the expression grammar are
  outside `src/` and the spec, so a model of them would be invented.
  `bind_variables_of_pattern_match` is modelled, with the one unknown (the
  order of `ExprVisitor::top_down`) taken both ways.
