------------------------------ MODULE ForkSpec ------------------------------
(***************************************************************************)
(* What the worker fork service promises (spec 4.3), with each request an  *)
(* atomic step per observable change of the durable oplogs:                *)
(*   - it is rejected, with nothing written; or                            *)
(*   - the target's oplog is created holding the rewritten creation entry; *)
(*     then either reading the source fails, or the whole fork content is  *)
(*     committed at once;                                                  *)
(*   - a committed fork is resumed, or reported as failed to resume.       *)
(* The copy loop, the Forked entry written before the commit and the      *)
(* worker cache are not visible at this level.  WorkerFork implements     *)
(* this specification.                                                     *)
(***************************************************************************)
EXTENDS Naturals, Sequences

CONSTANTS Workers, Requests, Owned, InitialOplog, InitialRunning,
          ReqSource, ReqTarget, CutOffs, MaxOplog

INITIAL == 1
SecondIndex == INITIAL + 1

CreateEntry(w) == [k |-> "create", w |-> w, n |-> INITIAL]
OpEntry(w, i) == [k |-> "op", w |-> w, n |-> i]
ForkedEntry(t) == [k |-> "forked", w |-> t, n |-> 0]

VARIABLES
    oplog,    \* [Workers -> Seq(Entry)]: the oplogs as their readers see them
    durable,  \* [Workers -> Nat]: the committed prefix of each
    running,  \* workers executing
    params,   \* [Requests -> [src, tgt, cut, andResult]]
    phase,    \* [Requests -> "idle" | "created" | "committed" | "done"]
    result    \* [Requests -> result]

vars == <<oplog, durable, running, params, phase, result>>

Exists(w) == oplog[w] # <<>>

\* The target's oplog a successful fork commits.
Content(r) ==
    LET p == params[r] IN
    <<[oplog[p.src][INITIAL] EXCEPT !.w = p.tgt]>>
      \o SubSeq(oplog[p.src], SecondIndex, p.cut - 1)
      \o (IF p.andResult THEN <<ForkedEntry(p.tgt)>> ELSE <<>>)

Init ==
    /\ oplog = [w \in Workers |->
                  IF InitialOplog[w] = 0 THEN <<>>
                  ELSE [i \in 1..InitialOplog[w] |-> IF i = INITIAL THEN CreateEntry(w) ELSE OpEntry(w, i)]]
    /\ durable = InitialOplog
    /\ running = InitialRunning
    /\ params \in {p \in [Requests -> [src : Workers, tgt : Workers, cut : CutOffs, andResult : BOOLEAN]] :
                     \A r \in Requests : p[r].src \in ReqSource[r] /\ p[r].tgt \in ReqTarget[r]}
    /\ phase = [r \in Requests |-> "idle"]
    /\ result = [r \in Requests |-> "pending"]

SetPhase(r, ph) == phase' = [phase EXCEPT ![r] = ph]
Answer(r, res) == /\ SetPhase(r, "done")
                  /\ result' = [result EXCEPT ![r] = res]

\* The request fails validation; the reason is determined by the state.
Reject(r) ==
    LET p == params[r] IN
    /\ phase[r] = "idle"
    /\ \/ p.cut < SecondIndex /\ Answer(r, "invalid")
       \/ p.cut >= SecondIndex /\ Exists(p.tgt) /\ Answer(r, "exists")
       \/ p.cut >= SecondIndex /\ ~Exists(p.tgt) /\ p.src \notin Owned /\ Answer(r, "notOwned")
       \/ p.cut >= SecondIndex /\ ~Exists(p.tgt) /\ p.src \in Owned /\ ~Exists(p.src)
          /\ Answer(r, "notFound")
    /\ UNCHANGED <<oplog, durable, running, params>>

\* The target's oplog is created, durably holding its creation entry.
Create(r) ==
    LET p == params[r] IN
    /\ phase[r] = "idle"
    /\ p.cut >= SecondIndex /\ ~Exists(p.tgt) /\ p.src \in Owned /\ Exists(p.src)
    /\ oplog' = [oplog EXCEPT ![p.tgt] = <<[oplog[p.src][INITIAL] EXCEPT !.w = p.tgt]>>]
    /\ durable' = [durable EXCEPT ![p.tgt] = 1]
    /\ SetPhase(r, "created")
    /\ UNCHANGED <<running, params, result>>

\* The source has fewer entries than the cut-off asks for.
Abort(r) ==
    /\ phase[r] = "created"
    /\ Len(oplog[params[r].src]) < params[r].cut - 1
    /\ Answer(r, "readFailed")
    /\ UNCHANGED <<oplog, durable, running, params>>

\* The whole fork content becomes the target's committed oplog.
Commit(r) ==
    LET t == params[r].tgt IN
    /\ phase[r] = "created"
    /\ Len(oplog[params[r].src]) >= params[r].cut - 1
    /\ oplog' = [oplog EXCEPT ![t] = Content(r)]
    /\ durable' = [durable EXCEPT ![t] = Len(Content(r))]
    /\ SetPhase(r, "committed")
    /\ UNCHANGED <<running, params, result>>

\* The target is resumed from its committed oplog, or the resume fails and
\* the oplog stays.
Resume(r) ==
    /\ phase[r] = "committed"
    /\ \/ running' = running \cup {params[r].tgt} /\ Answer(r, "ok")
       \/ UNCHANGED running /\ Answer(r, "resumeFailed")
    /\ UNCHANGED <<oplog, durable, params>>

\* Workers append to and commit their own oplogs; a commit may also be
\* forced by a reader.
WorkerAppend(w) ==
    /\ w \in running
    /\ Len(oplog[w]) < MaxOplog
    /\ oplog' = [oplog EXCEPT ![w] = Append(@, OpEntry(w, Len(@) + 1))]
    /\ UNCHANGED <<durable, running, params, phase, result>>

CommitLog(w) ==
    /\ durable' = [durable EXCEPT ![w] = Len(oplog[w])]
    /\ UNCHANGED <<oplog, running, params, phase, result>>

Step(r) == Reject(r) \/ Create(r) \/ Abort(r) \/ Commit(r) \/ Resume(r)

Next == (\E r \in Requests : Step(r)) \/ (\E w \in Workers : WorkerAppend(w) \/ CommitLog(w))

Spec == Init /\ [][Next]_vars /\ \A r \in Requests : WF_vars(Step(r))
=============================================================================
