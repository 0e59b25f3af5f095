----------------------------- MODULE WorkerFork -----------------------------
(***************************************************************************)
(* The worker fork service of the worker executor                          *)
(* (src/golem-worker-executor/src/services/worker_fork.rs).                *)
(*                                                                         *)
(* A fork request copies the prefix [INITIAL, cut_off) of a source worker's *)
(* oplog into a brand new oplog for a target worker, with the initial      *)
(* entry rewritten to the target's id, commits it and resumes the target   *)
(* through the worker proxy.  Every await of the Rust code is a point      *)
(* where other requests and the running source worker may take steps, so  *)
(* a request is a process with a program counter, one action per stretch   *)
(* of code between awaits that changes state.                              *)
(*                                                                         *)
(* Oplog indexes are those of the code: OplogIndex::INITIAL = 1, so the    *)
(* entry at OplogIndex i is oplog[w][i].                                   *)
(***************************************************************************)
EXTENDS Naturals, Sequences, FiniteSets

LOCAL SeqExt == INSTANCE SequencesExt

CONSTANTS
    Workers,        \* worker ids (model values)
    Requests,       \* concurrent fork requests (model values)
    Owned,          \* workers whose shard this executor owns
    InitialOplog,   \* [Workers -> Nat]: length of each worker's oplog at start, 0 = no worker
    InitialRunning, \* workers executing (and appending to their oplog) at start
    ReqSource,      \* [Requests -> SUBSET Workers]: sources a request may name
    ReqTarget,      \* [Requests -> SUBSET Workers]: targets a request may name
    CutOffs,        \* cut-off indexes a request may name
    MaxOplog        \* bound on the length of any oplog

ASSUME Owned \subseteq Workers /\ InitialRunning \subseteq Workers
ASSUME \A w \in InitialRunning : InitialOplog[w] > 0
ASSUME MaxOplog \in Nat \ {0}

INITIAL == 1
SecondIndex == INITIAL + 1     \* OplogIndex::INITIAL.next()

(***************************************************************************)
(* Oplog entries, abstracted to who wrote them.  The creation entry        *)
(* embeds the worker id; "op" is any entry written by a worker's own       *)
(* execution; "forked" is the ImportedFunctionInvoked entry for            *)
(* golem::api::fork returning ForkResult::Forked.                          *)
(***************************************************************************)
Entry == [k : {"create", "op", "forked"}, w : Workers, n : Nat]
CreateEntry(w) == [k |-> "create", w |-> w, n |-> INITIAL]
OpEntry(w, i) == [k |-> "op", w |-> w, n |-> i]
ForkedEntry(t) == [k |-> "forked", w |-> t, n |-> 0]

\* OplogEntry::update_worker_id: only the creation entry carries an id.
UpdateWorkerId(e, t) == [e EXCEPT !.w = t]

PcValues == {"validate", "load", "create", "copy", "mark", "commit", "resume", "done"}
Results == {"pending", "invalid", "exists", "notOwned", "notFound",
            "readFailed", "ok", "resumeFailed"}

VARIABLES
    oplog,      \* [Workers -> Seq(Entry)]; <<>> = the worker has no oplog
    durable,    \* [Workers -> Nat]: length of the committed prefix
    active,     \* the active worker cache: workers loaded in this executor
    running,    \* workers whose execution appends to their own oplog
    params,     \* [Requests -> [src, tgt, cut, andResult]]: the request
    pc,         \* [Requests -> PcValues]
    idx,        \* [Requests -> Nat]: next source index to copy
    result,     \* [Requests -> Results]
    created,    \* history: [Workers -> Nat], times OplogService::create ran for w
    replayed    \* history: [Workers -> Seq(Entry)], what a resumed target replayed

vars == <<oplog, durable, active, running, params, pc, idx, result, created, replayed>>

\* worker_service.get(w).is_some(): the metadata of a worker exists once its
\* oplog has been created.
Exists(w) == oplog[w] # <<>>

Init ==
    /\ oplog = [w \in Workers |->
                  IF InitialOplog[w] = 0 THEN <<>>
                  ELSE [i \in 1..InitialOplog[w] |-> IF i = INITIAL THEN CreateEntry(w) ELSE OpEntry(w, i)]]
    /\ durable = InitialOplog
    /\ active = InitialRunning
    /\ running = InitialRunning
    /\ params \in {p \in [Requests -> [src : Workers, tgt : Workers, cut : CutOffs, andResult : BOOLEAN]] :
                     \A r \in Requests : p[r].src \in ReqSource[r] /\ p[r].tgt \in ReqTarget[r]}
    /\ pc = [r \in Requests |-> "validate"]
    /\ idx = [r \in Requests |-> 0]
    /\ result = [r \in Requests |-> "pending"]
    /\ created = [w \in Workers |-> IF InitialOplog[w] = 0 THEN 0 ELSE 1]
    /\ replayed = [w \in Workers |-> <<>>]

Goto(r, l) == pc' = [pc EXCEPT ![r] = l]
Finish(r, res) == /\ pc' = [pc EXCEPT ![r] = "done"]
                  /\ result' = [result EXCEPT ![r] = res]

-----------------------------------------------------------------------------
(* The fork request.                                                       *)

\* validate_worker_forking: the checks run in the code's order, each an
\* early return; only reads, so the request keeps no other state.
ValidateWorkerForking(r) ==
    LET p == params[r] IN
    /\ pc[r] = "validate"
    /\ \/ /\ p.cut < SecondIndex
          /\ Finish(r, "invalid")
       \/ /\ p.cut >= SecondIndex /\ Exists(p.tgt)
          /\ Finish(r, "exists")
       \/ /\ p.cut >= SecondIndex /\ ~Exists(p.tgt) /\ p.src \notin Owned
          /\ Finish(r, "notOwned")
       \/ /\ p.cut >= SecondIndex /\ ~Exists(p.tgt) /\ p.src \in Owned /\ ~Exists(p.src)
          /\ Finish(r, "notFound")
       \/ /\ p.cut >= SecondIndex /\ ~Exists(p.tgt) /\ p.src \in Owned /\ Exists(p.src)
          /\ Goto(r, "load") /\ UNCHANGED result
    /\ UNCHANGED <<oplog, durable, active, running, params, idx, created, replayed>>

\* copy_source_oplog up to the creation of the new oplog: load the source
\* suspended (Worker::get_or_create_suspended), commit its oplog with
\* CommitLevel::Always.
LoadSource(r) ==
    LET s == params[r].src IN
    /\ pc[r] = "load"
    /\ active' = active \cup {s}
    /\ durable' = [durable EXCEPT ![s] = Len(oplog[s])]
    /\ Goto(r, "create")
    /\ UNCHANGED <<oplog, running, params, idx, result, created, replayed>>

\* Read the source's initial entry, rewrite its worker id and create the
\* target's oplog with it (OplogService::create persists the initial entry).
CreateTargetOplog(r) ==
    LET s == params[r].src
        t == params[r].tgt IN
    /\ pc[r] = "create"
    /\ oplog' = [oplog EXCEPT ![t] = <<UpdateWorkerId(oplog[s][INITIAL], t)>>]
    /\ durable' = [durable EXCEPT ![t] = 1]
    /\ created' = [created EXCEPT ![t] = @ + 1]
    /\ idx' = [idx EXCEPT ![r] = SecondIndex]
    /\ Goto(r, "copy")
    /\ UNCHANGED <<active, running, params, result, replayed>>

\* Mutant: the copy range taken as inclusive of the cut-off.
CopyEntryInclusive(r) ==
    LET s == params[r].src
        t == params[r].tgt
        i == idx[r] IN
    /\ pc[r] = "copy"
    /\ i <= params[r].cut
    /\ \/ /\ i <= Len(oplog[s])
          /\ oplog' = [oplog EXCEPT ![t] = Append(@, oplog[s][i])]
          /\ idx' = [idx EXCEPT ![r] = i + 1]
          /\ UNCHANGED <<pc, result>>
       \/ /\ i > Len(oplog[s])
          /\ Finish(r, "readFailed")
          /\ UNCHANGED <<oplog, idx>>
    /\ UNCHANGED <<durable, active, running, params, created, replayed>>

\* One iteration of `for oplog_index in OplogIndexRange::new(INITIAL.next(), cut_off)`:
\* source_oplog.read(i) then new_oplog.add(entry).  Reading an index the
\* source has not written fails the request, leaving the target's oplog as
\* far as it got.
CopyEntry(r) ==
    LET s == params[r].src
        t == params[r].tgt
        i == idx[r] IN
    /\ pc[r] = "copy"
    /\ i < params[r].cut
    /\ \/ /\ i <= Len(oplog[s])
          /\ oplog' = [oplog EXCEPT ![t] = Append(@, oplog[s][i])]
          /\ idx' = [idx EXCEPT ![r] = i + 1]
          /\ UNCHANGED <<pc, result>>
       \/ /\ i > Len(oplog[s])
          /\ Finish(r, "readFailed")
          /\ UNCHANGED <<oplog, idx>>
    /\ UNCHANGED <<durable, active, running, params, created, replayed>>

\* Mutant: fork_and_write_fork_result commits without the Forked entry.
CopyDoneWithoutForkResult(r) ==
    /\ pc[r] = "copy"
    /\ idx[r] >= params[r].cut
    /\ Goto(r, "commit")
    /\ UNCHANGED <<oplog, durable, active, running, params, idx, result, created, replayed>>

\* The copy loop has reached the cut-off: fork() goes on to commit,
\* fork_and_write_fork_result() first writes the Forked entry.
CopyDone(r) ==
    /\ pc[r] = "copy"
    /\ idx[r] >= params[r].cut
    /\ Goto(r, IF params[r].andResult THEN "mark" ELSE "commit")
    /\ UNCHANGED <<oplog, durable, active, running, params, idx, result, created, replayed>>

\* fork_and_write_fork_result: add_raw_imported_function_invoked("golem::api::fork", .., Forked).
WriteForkResult(r) ==
    LET t == params[r].tgt IN
    /\ pc[r] = "mark"
    /\ oplog' = [oplog EXCEPT ![t] = Append(@, ForkedEntry(t))]
    /\ Goto(r, "commit")
    /\ UNCHANGED <<durable, active, running, params, idx, result, created, replayed>>

\* Mutant: the target's oplog is not committed before the resume.
CommitTargetSkipped(r) ==
    /\ pc[r] = "commit"
    /\ Goto(r, "resume")
    /\ UNCHANGED <<oplog, durable, active, running, params, idx, result, created, replayed>>

\* new_oplog.commit(CommitLevel::Always).
CommitTarget(r) ==
    LET t == params[r].tgt IN
    /\ pc[r] = "commit"
    /\ durable' = [durable EXCEPT ![t] = Len(oplog[t])]
    /\ Goto(r, "resume")
    /\ UNCHANGED <<oplog, active, running, params, idx, result, created, replayed>>

\* worker_proxy.resume(target, force = true).  The owning executor loads the
\* target from its committed oplog, replays it and runs it; or the call fails
\* (after the proxy's retries) and the fork reports failed_to_resume_worker
\* without rolling the oplog back.
ResumeTarget(r) ==
    LET t == params[r].tgt IN
    /\ pc[r] = "resume"
    /\ \/ /\ replayed' = [replayed EXCEPT ![t] = SubSeq(oplog[t], 1, durable[t])]
          /\ active' = active \cup {t}
          /\ running' = running \cup {t}
          /\ Finish(r, "ok")
       \/ /\ Finish(r, "resumeFailed")
          /\ UNCHANGED <<replayed, active, running>>
    /\ UNCHANGED <<oplog, durable, params, idx, created>>

-----------------------------------------------------------------------------
(* The workers themselves, modelled from the spec (crate worker).          *)

\* A running worker appends an entry to its own oplog.
WorkerAppend(w) ==
    /\ w \in running
    /\ Len(oplog[w]) < MaxOplog
    /\ oplog' = [oplog EXCEPT ![w] = Append(@, OpEntry(w, Len(@) + 1))]
    /\ UNCHANGED <<durable, active, running, params, pc, idx, result, created, replayed>>

\* A running worker commits its oplog at a durability boundary.
WorkerCommit(w) ==
    /\ w \in running
    /\ durable[w] < Len(oplog[w])
    /\ durable' = [durable EXCEPT ![w] = Len(oplog[w])]
    /\ UNCHANGED <<oplog, active, running, params, pc, idx, result, created, replayed>>

Next ==
    \/ \E r \in Requests :
          \/ ValidateWorkerForking(r) \/ LoadSource(r) \/ CreateTargetOplog(r)
          \/ CopyEntry(r) \/ CopyDone(r) \/ WriteForkResult(r)
          \/ CommitTarget(r) \/ ResumeTarget(r)
    \/ \E w \in Workers : WorkerAppend(w) \/ WorkerCommit(w)

\* Every request runs on its own tokio task, which the runtime keeps polling.
Fairness == \A r \in Requests :
    WF_vars(ValidateWorkerForking(r) \/ LoadSource(r) \/ CreateTargetOplog(r)
            \/ CopyEntry(r) \/ CopyDone(r) \/ WriteForkResult(r)
            \/ CommitTarget(r) \/ ResumeTarget(r))

Spec == Init /\ [][Next]_vars /\ Fairness

-----------------------------------------------------------------------------
(* Properties.                                                             *)

\* The oplog a request must have produced for its target: the rewritten
\* creation entry, the source's entries [INITIAL.next(), cut_off), and for
\* fork_and_write_fork_result the Forked entry.
ForkContent(r) ==
    LET p == params[r] IN
    <<UpdateWorkerId(oplog[p.src][INITIAL], p.tgt)>>
      \o SubSeq(oplog[p.src], SecondIndex, p.cut - 1)
      \o (IF p.andResult THEN <<ForkedEntry(p.tgt)>> ELSE <<>>)

\* Fork range invariant (copy_source_oplog, fork_and_write_fork_result):
\* once a request has finished writing the target's oplog, that oplog starts
\* with exactly the fork content, however the source worker and the other
\* requests interleaved with the copy.
ForkedOplogIsSourcePrefix ==
    \A r \in Requests :
        (\/ pc[r] \in {"commit", "resume"}
         \/ pc[r] = "done" /\ result[r] \in {"ok", "resumeFailed"})
          => SeqExt!IsPrefix(ForkContent(r), oplog[params[r].tgt])

\* fork(): the target resumed through the worker proxy replays exactly the
\* fork content from durable storage, so the commit must come before the
\* resume and cover everything the fork wrote.
ResumedTargetReplaysFork ==
    \A r \in Requests :
        result[r] = "ok" => replayed[params[r].tgt] = ForkContent(r)

\* validate_worker_forking: a fork never creates the oplog of a worker that
\* already exists, so no worker's oplog is ever created twice and every
\* oplog's creation entry names its own worker.
WorkerCreatedOnce ==
    \A w \in Workers :
        /\ created[w] <= 1
        /\ Exists(w) => oplog[w][INITIAL] = CreateEntry(w)

-----------------------------------------------------------------------------
(* Refinement of ForkSpec.  A target's oplog is invisible to readers until *)
(* its first commit after the copy: while a request is copying into it, or *)
(* after the copy failed, its readers see only the committed creation      *)
(* entry.  The program counter is collapsed to the abstract phase.         *)

UnderConstruction(w) ==
    \E r \in Requests :
        /\ params[r].tgt = w
        /\ \/ pc[r] \in {"copy", "mark", "commit"}
           \/ result[r] = "readFailed"

AbsOplog == [w \in Workers |->
                IF UnderConstruction(w) THEN SubSeq(oplog[w], 1, durable[w]) ELSE oplog[w]]

AbsPhase == [r \in Requests |->
                CASE pc[r] \in {"validate", "load", "create"} -> "idle"
                  [] pc[r] \in {"copy", "mark", "commit"}    -> "created"
                  [] pc[r] = "resume"                        -> "committed"
                  [] pc[r] = "done"                          -> "done"]

Abs == INSTANCE ForkSpec WITH oplog <- AbsOplog, phase <- AbsPhase

\* The fork service implements its abstract specification: every step of a
\* request and of the workers is a step of ForkSpec or leaves its state
\* unchanged, so readers of the oplogs only ever see a target that is
\* absent, holds its creation entry, or holds the whole fork content.
ImplementsForkSpec == Abs!Spec
=============================================================================
