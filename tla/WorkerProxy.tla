---------------------------- MODULE WorkerProxy ----------------------------
(***************************************************************************)
(* RemoteWorkerProxy (src/golem-worker-executor/src/services/             *)
(* worker_proxy.rs): an executor calls a worker on another executor       *)
(* through the worker service's gRPC API.  GrpcClient::call retries a      *)
(* call that fails with a transport error or Unavailable                   *)
(* (retries_on_unavailable), a bounded number of times; the remote        *)
(* executor's handler (grpc/mod.rs) answers Success or an error, which the *)
(* proxy converts to a WorkerProxyError and its caller to a                *)
(* WorkerExecutorError.                                                    *)
(*                                                                         *)
(* A request can be lost before the remote handler runs, or its answer    *)
(* after the handler has taken effect; the caller cannot tell the two      *)
(* apart, and retries both.                                                *)
(***************************************************************************)
EXTENDS Naturals, FiniteSets

CONSTANTS
    Calls,          \* concurrent proxy calls (model values)
    Workers,        \* remote worker ids
    Keys,           \* idempotency keys
    Versions,       \* component versions
    CutOffs,        \* oplog cut-off indexes a fork may name
    CallOps,        \* [Calls -> SUBSET Ops]: the operations a call may make
    InitialWorkers, \* remote workers that exist at start
    InitialVersion, \* their component version
    MaxAttempts,    \* RetryConfig::max_attempts of the client
    MaxFaults       \* bound on lost requests and lost answers in a behaviour

\* The proxy's operations, with their arguments.
Ops == [op : {"invoke", "invokeAndAwait"}, w : Workers, key : Keys]
       \cup [op : {"update"}, w : Workers, v : Versions]
       \cup [op : {"resume"}, w : Workers, force : BOOLEAN]
       \cup [op : {"fork"}, src : Workers, tgt : Workers, cut : CutOffs]
       \cup [op : {"revert"}, w : Workers]

ASSUME /\ \A c \in Calls : CallOps[c] \subseteq Ops
       /\ InitialWorkers \subseteq Workers /\ InitialVersion \in Versions
       /\ MaxAttempts \in Nat \ {0} /\ MaxFaults \in Nat

\* The remote worker's status as its handlers read it (Idle is handled like
\* Suspended by resume and like Running by update, and is left out).
Statuses == {"Suspended", "Running", "Retrying", "Failed", "Exited"}

\* The WorkerExecutorError kinds the remote handlers answer with.
ExecErrors == {"InvalidRequest", "WorkerNotFound", "WorkerAlreadyExists",
               "PreviousInvocationFailed", "PreviousInvocationExited", "Unknown"}

\* worker_error::Error as the worker service answers it.
WorkerErrors == {"BadRequest", "Unauthorized", "LimitExceeded", "NotFound",
                 "AlreadyExists", "InternalError"}

\* The result a caller of the proxy finally sees: Ok or a WorkerExecutorError.
Results == {"none", "ok"} \cup ExecErrors

VARIABLES
    remote,   \* the remote executor's workers: [exists, status, version, pending, results,
              \* reverts] and the forks it made
    pc,       \* [Calls -> "send" | "inflight" | "answered" | "done"]
    op,       \* [Calls -> Ops]: the call's operation
    attempts, \* [Calls -> Nat]: requests sent so far
    resp,     \* [Calls -> response record] of the last request served
    result,   \* [Calls -> Results]
    faults    \* lost requests and answers so far

vars == <<remote, pc, op, attempts, resp, result, faults>>

\* A response: Success, or an error carrying, for InternalError, the
\* executor error it wraps ("none" for the other kinds).
Responses == [kind : {"Success"}]
             \cup [kind : {"Error"}, err : WorkerErrors, inner : ExecErrors \cup {"none"}]
NoResponse == [kind |-> "Success"]

TypeOK ==
    /\ remote \in [exists : SUBSET Workers, status : [Workers -> Statuses],
                   version : [Workers -> Versions], pending : [Workers -> SUBSET Versions],
                   results : [Workers -> SUBSET Keys], reverts : [Workers -> Nat],
                   forked : SUBSET (Workers \X Workers)]
    /\ pc \in [Calls -> {"send", "inflight", "answered", "done"}]
    /\ \A c \in Calls : op[c] \in CallOps[c]
    /\ attempts \in [Calls -> 0..MaxAttempts]
    /\ resp \in [Calls -> Responses]
    /\ result \in [Calls -> Results]
    /\ faults \in 0..MaxFaults

\* The existing workers start in any status.
Init ==
    /\ \E st \in [Workers -> Statuses] :
          /\ \A w \in Workers \ InitialWorkers : st[w] = "Suspended"
          /\ remote = [exists |-> InitialWorkers, status |-> st,
                       version |-> [w \in Workers |-> InitialVersion],
                       pending |-> [w \in Workers |-> {}],
                       results |-> [w \in Workers |-> {}],
                       reverts |-> [w \in Workers |-> 0], forked |-> {}]
    /\ pc = [c \in Calls |-> "send"]
    /\ op \in [Calls -> UNION {CallOps[c] : c \in Calls}]
    /\ \A c \in Calls : op[c] \in CallOps[c]
    /\ attempts = [c \in Calls |-> 0]
    /\ resp = [c \in Calls |-> NoResponse]
    /\ result = [c \in Calls |-> "none"]
    /\ faults = 0

-----------------------------------------------------------------------------
(* Error conversions.                                                      *)

\* impl From<WorkerError> for WorkerProxyError: each worker_error::Error
\* becomes the WorkerProxyError of the same name; InternalError keeps the
\* executor error it carries.  (The arm for an absent error, which the
\* worker service never sends, is left out.)
FromWorkerError(r) == [kind |-> r.err, inner |-> r.inner]

\* impl From<WorkerProxyError> for WorkerExecutorError: BadRequest becomes
\* invalid_request, InternalError(error) is error itself, and Unauthorized,
\* LimitExceeded, NotFound and AlreadyExists become unknown errors.
ToExecutorError(pe) ==
    CASE pe.kind = "BadRequest"    -> "InvalidRequest"
      [] pe.kind = "InternalError" -> pe.inner
      [] OTHER                     -> "Unknown"

\* Mutant: an AlreadyExists answer to a fork taken for success.
ForkWorkerResultOkOnAlreadyExists(r) ==
    IF r.kind = "Success" \/ r.err = "AlreadyExists" THEN "ok" ELSE ToExecutorError(FromWorkerError(r))

\* The match on response.result that ends every method of
\* RemoteWorkerProxy: Success is Ok, Error(error) is error.into().  (The
\* arm for an empty result, which the worker service never sends, is left
\* out.)  One operator per method.
InvokeAndAwaitResult(r) ==
    IF r.kind = "Success" THEN "ok" ELSE ToExecutorError(FromWorkerError(r))
InvokeResult(r) ==
    IF r.kind = "Success" THEN "ok" ELSE ToExecutorError(FromWorkerError(r))
UpdateResult(r) ==
    IF r.kind = "Success" THEN "ok" ELSE ToExecutorError(FromWorkerError(r))
ResumeResult(r) ==
    IF r.kind = "Success" THEN "ok" ELSE ToExecutorError(FromWorkerError(r))
ForkWorkerResult(r) ==
    IF r.kind = "Success" THEN "ok" ELSE ToExecutorError(FromWorkerError(r))
RevertResult(r) ==
    IF r.kind = "Success" THEN "ok" ELSE ToExecutorError(FromWorkerError(r))

ProxyResult(c, r) ==
    CASE op[c].op = "invokeAndAwait" -> InvokeAndAwaitResult(r)
      [] op[c].op = "invoke"         -> InvokeResult(r)
      [] op[c].op = "update"         -> UpdateResult(r)
      [] op[c].op = "resume"         -> ResumeResult(r)
      [] op[c].op = "fork"           -> ForkWorkerResult(r)
      [] op[c].op = "revert"         -> RevertResult(r)

-----------------------------------------------------------------------------
(* The client side: GrpcClient::call (outside src/), configured by          *)
(* RemoteWorkerProxy::new with retries_on_unavailable.                      *)

\* client.call(..) sends one attempt of the request.
Send(c) ==
    /\ pc[c] = "send"
    /\ pc' = [pc EXCEPT ![c] = "inflight"]
    /\ attempts' = [attempts EXCEPT ![c] = @ + 1]
    /\ UNCHANGED <<remote, op, resp, result, faults>>

\* Mutant: the attempt that used up max_attempts is retried once more.
TransportErrorOffByOne(c) ==
    IF attempts[c] <= MaxAttempts
    THEN pc' = [pc EXCEPT ![c] = "send"] /\ UNCHANGED result
    ELSE /\ pc' = [pc EXCEPT ![c] = "done"]
         /\ result' = [result EXCEPT ![c] = ToExecutorError([kind |-> "InternalError", inner |-> "Unknown"])]

\* A transport error or an Unavailable status: retried while attempts are
\* left, otherwise returned through From<tonic::transport::Error> /
\* From<tonic::Status>, an InternalError wrapping an unknown error.
TransportError(c) ==
    IF attempts[c] < MaxAttempts
    THEN pc' = [pc EXCEPT ![c] = "send"] /\ UNCHANGED result
    ELSE /\ pc' = [pc EXCEPT ![c] = "done"]
         /\ result' = [result EXCEPT ![c] = ToExecutorError([kind |-> "InternalError", inner |-> "Unknown"])]

\* The request is lost, or the remote answers Unavailable, before its
\* handler ran.
RequestLost(c) ==
    /\ pc[c] = "inflight"
    /\ faults < MaxFaults
    /\ faults' = faults + 1
    /\ TransportError(c)
    /\ UNCHANGED <<remote, op, attempts, resp>>

\* The handler ran, but its answer is lost (connection reset, deadline).
AnswerLost(c) ==
    /\ pc[c] = "answered"
    /\ faults < MaxFaults
    /\ faults' = faults + 1
    /\ TransportError(c)
    /\ UNCHANGED <<remote, op, attempts, resp>>

\* The answer arrives and the method converts it.
Receive(c) ==
    /\ pc[c] = "answered"
    /\ pc' = [pc EXCEPT ![c] = "done"]
    /\ result' = [result EXCEPT ![c] = ProxyResult(c, resp[c])]
    /\ UNCHANGED <<remote, op, attempts, resp, faults>>

-----------------------------------------------------------------------------
(* The remote executor's handlers, as reached through the worker service.   *)

Answer(c, r) ==
    /\ pc[c] = "inflight"
    /\ pc' = [pc EXCEPT ![c] = "answered"]
    /\ resp' = [resp EXCEPT ![c] = r]

Ok == [kind |-> "Success"]

\* The worker service answers an executor error with the worker_error of
\* its kind where there is one, and wraps every other one in InternalError.
Err(e) ==
    CASE e = "InvalidRequest"      -> [kind |-> "Error", err |-> "BadRequest", inner |-> "none"]
      [] e = "WorkerNotFound"      -> [kind |-> "Error", err |-> "NotFound", inner |-> "none"]
      [] e = "WorkerAlreadyExists" -> [kind |-> "Error", err |-> "AlreadyExists", inner |-> "none"]
      [] OTHER                     -> [kind |-> "Error", err |-> "InternalError", inner |-> e]

\* ensure_not_failed: the errors it raises for the worker's status. A Failed
\* worker raises PreviousInvocationFailed when get_last_error_and_retry_count
\* finds the error, a runtime error otherwise; a Retrying worker raises
\* PreviousInvocationFailed when a last error is recorded, so both outcomes
\* are possible.
NotFailedErrors(w) ==
    CASE remote.status[w] = "Failed"   -> {"PreviousInvocationFailed", "Unknown"}
      [] remote.status[w] = "Exited"   -> {"PreviousInvocationExited"}
      [] remote.status[w] = "Retrying" -> {"PreviousInvocationFailed", "none"}
      [] OTHER                         -> {"none"}

\* invoke_worker_internal / invoke_and_await_worker_internal_typed through
\* get_or_create_pending: an existing worker must pass ensure_not_failed;
\* get_or_create creates a missing worker and starts it; Worker::invoke
\* enqueues the invocation unless the worker already knows its idempotency
\* key, and answers Success either way.
ServeInvoke(c) ==
    LET o == op[c] IN
    /\ o.op \in {"invoke", "invokeAndAwait"}
    /\ \E e \in IF o.w \in remote.exists THEN NotFailedErrors(o.w) ELSE {"none"} :
          \/ /\ e # "none"
             /\ Answer(c, Err(e))
             /\ UNCHANGED remote
          \/ /\ e = "none"
             /\ Answer(c, Ok)
             /\ remote' = [remote EXCEPT !.exists = @ \cup {o.w}, !.status[o.w] = "Running",
                                         !.results[o.w] = @ \cup {o.key}]
    /\ UNCHANGED <<op, attempts, result, faults>>

\* resume_worker_internal: NotFound without metadata, then ensure_not_failed;
\* a Suspended worker is activated (get_or_create_running), any other only
\* when force is set, else the request is invalid.
ServeResume(c) ==
    LET w == op[c].w IN
    /\ op[c].op = "resume"
    /\ \/ /\ w \notin remote.exists
          /\ Answer(c, Err("WorkerNotFound"))
          /\ UNCHANGED remote
       \/ /\ w \in remote.exists
          /\ \E e \in NotFailedErrors(w) :
                \/ /\ e # "none"
                   /\ Answer(c, Err(e))
                   /\ UNCHANGED remote
                \/ /\ e = "none"
                   /\ remote.status[w] = "Suspended" \/ op[c].force
                   /\ Answer(c, Ok)
                   /\ remote' = [remote EXCEPT !.status[w] = "Running"]
                \/ /\ e = "none"
                   /\ remote.status[w] # "Suspended" /\ ~op[c].force
                   /\ Answer(c, Err("InvalidRequest"))
                   /\ UNCHANGED remote
    /\ UNCHANGED <<op, attempts, result, faults>>

\* update_worker_internal, automatic mode: NotFound without metadata,
\* invalid_request when already at the target version or when the same
\* update is pending; an Exited worker is only warned about and the update
\* answered Ok; an inactive worker gets the update recorded (a Failed one
\* reset to Retrying), a Running one gets it enqueued.
ServeUpdate(c) ==
    LET w == op[c].w
        v == op[c].v IN
    /\ op[c].op = "update"
    /\ \/ /\ w \notin remote.exists
          /\ Answer(c, Err("WorkerNotFound"))
          /\ UNCHANGED remote
       \/ /\ w \in remote.exists
          /\ v = remote.version[w] \/ v \in remote.pending[w]
          /\ Answer(c, Err("InvalidRequest"))
          /\ UNCHANGED remote
       \/ /\ w \in remote.exists
          /\ v # remote.version[w] /\ v \notin remote.pending[w]
          /\ remote.status[w] = "Exited"
          /\ Answer(c, Ok)
          /\ UNCHANGED remote
       \/ /\ w \in remote.exists
          /\ v # remote.version[w] /\ v \notin remote.pending[w]
          /\ remote.status[w] # "Exited"
          /\ Answer(c, Ok)
          /\ remote' = [remote EXCEPT !.pending[w] = @ \cup {v},
                                      !.status[w] = IF @ = "Failed" THEN "Retrying" ELSE @]
    /\ UNCHANGED <<op, attempts, result, faults>>

\* fork_worker_internal -> WorkerForkService::fork: validate_worker_forking
\* rejects a cut-off below INITIAL.next() = 2, an existing target and a
\* missing source, in that order; otherwise the target is created and
\* resumed.
ServeFork(c) ==
    LET s == op[c].src
        t == op[c].tgt IN
    /\ op[c].op = "fork"
    /\ \/ /\ op[c].cut < 2
          /\ Answer(c, Err("InvalidRequest"))
          /\ UNCHANGED remote
       \/ /\ op[c].cut >= 2 /\ t \in remote.exists
          /\ Answer(c, Err("WorkerAlreadyExists"))
          /\ UNCHANGED remote
       \/ /\ op[c].cut >= 2 /\ t \notin remote.exists /\ s \notin remote.exists
          /\ Answer(c, Err("WorkerNotFound"))
          /\ UNCHANGED remote
       \/ /\ op[c].cut >= 2 /\ t \notin remote.exists /\ s \in remote.exists
          /\ Answer(c, Ok)
          /\ remote' = [remote EXCEPT !.exists = @ \cup {t}, !.status[t] = "Running",
                                      !.forked = @ \cup {<<s, t>>}]
    /\ UNCHANGED <<op, attempts, result, faults>>

\* revert_worker_internal: NotFound without metadata, otherwise the worker
\* is loaded and Worker::revert applies the target, on every request that
\* reaches it.
ServeRevert(c) ==
    LET w == op[c].w IN
    /\ op[c].op = "revert"
    /\ \/ /\ w \notin remote.exists
          /\ Answer(c, Err("WorkerNotFound"))
          /\ UNCHANGED remote
       \/ /\ w \in remote.exists
          /\ Answer(c, Ok)
          /\ remote' = [remote EXCEPT !.reverts[w] = @ + 1]
    /\ UNCHANGED <<op, attempts, result, faults>>

Serve(c) == ServeInvoke(c) \/ ServeResume(c) \/ ServeUpdate(c) \/ ServeFork(c) \/ ServeRevert(c)

Next == \E c \in Calls :
            \/ Send(c) \/ RequestLost(c) \/ Serve(c) \/ AnswerLost(c) \/ Receive(c)

Spec == Init /\ [][Next]_vars

-----------------------------------------------------------------------------
(* Properties.                                                             *)

\* A call the proxy answers Ok has taken effect at the remote worker it
\* names, also when GrpcClient::call retried it after a lost request or a
\* lost answer and the Ok belongs to a later attempt: the invocation's key
\* is known to that worker, the resumed worker runs, the target was forked
\* from the source, the revert was applied, and the update is pending
\* unless the worker had exited (update_worker_internal answers Ok for an
\* Exited worker without enqueuing anything).
OkMeansApplied ==
    \A c \in Calls : result[c] = "ok" =>
        CASE op[c].op \in {"invoke", "invokeAndAwait"} -> op[c].key \in remote.results[op[c].w]
          [] op[c].op = "resume" -> remote.status[op[c].w] = "Running"
          [] op[c].op = "update" -> \/ op[c].v \in remote.pending[op[c].w]
                                    \/ remote.status[op[c].w] = "Exited"
          [] op[c].op = "fork"   -> <<op[c].src, op[c].tgt>> \in remote.forked
          [] op[c].op = "revert" -> remote.reverts[op[c].w] > 0
=============================================================================
