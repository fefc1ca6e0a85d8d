--------------------------- MODULE WorkerRuntime ---------------------------
(***************************************************************************)
(* Worker processes (src/sip/worker_runtime.py) over the operations table: *)
(* the polling loop of main, run_once, run_operation, the checkpoints of   *)
(* WorkerExecution, candidate staging and _record_failure, with every      *)
(* transaction a step of its own.  The operation rows change only through  *)
(* the operators of OperationRow.  Around the workers: a client that       *)
(* creates and cancels, a reviewer and a publisher of candidates           *)
(* (src/sip/representations.py), the clock, crashes and the restart of the *)
(* container.                                                              *)
(*                                                                         *)
(* Operations are numbered in the order of created_at, the order in which  *)
(* run_once polls them.  A handler's result is a payload; an output        *)
(* manifest is the payload and the attempt whose receipt it carries.       *)
(* Signatures and hashes of leases and receipts, telemetry and the sandbox *)
(* are left out; where they can raise, raises(w) may happen.               *)
(***************************************************************************)
EXTENDS OperationRow, FiniteSets, FiniteSetsExt

CONSTANTS MaxOperations,  \* bound on the operations created
          CandidateOps,   \* those whose type is in _CANDIDATE_POLICIES
          Payloads,       \* results a handler can compute
          MaxHandlerCheckpoints,  \* bound on the checkpoints of a handler
          MaxCrashes      \* bound on the processes killed

Ops == 1 .. MaxOperations

StartupProgress == 1                  \* checkpoint(0.01, "startup")
StagedProgress == FullProgress - 1    \* checkpoint(0.99, "stage_output")

Manifest(payload, attempt) == [payload |-> payload, attempt |-> attempt]

ASSUME WorkerAssumption ==
    /\ {MaxOperations, MaxHandlerCheckpoints, MaxCrashes} \subseteq Nat
    /\ CandidateOps \subseteq Ops
    /\ FullProgress > 2
    /\ None \notin Payloads
    /\ \A p \in Payloads : Manifest(p, 1) \in Outputs

VARIABLES rows,        \* the operations table
          candidates,  \* the representation of each operation, or None
          staged,      \* payloads ingested as assets of each operation
          pc,          \* what each worker process does next
          run,         \* the locals of its run_operation
          crashes      \* processes killed so far

vars == <<rows, candidates, staged, pc, run, crashes>>

Working == {"lease", "admit", "start", "beat", "checkpoint", "compute",
            "stage", "ingest", "candidate", "attach", "complete"}

PCs == Working \cup {"idle", "pick", "report", "fail", "down"}

(* Between two operations a process keeps nothing.                         *)
NoRun == [op |-> 0, attempt |-> 0, sequence |-> 0, floor |-> 0,
          stage |-> "compute", calls |-> 0, payload |-> None,
          retryable |-> FALSE]

Candidate ==
    [payload : Payloads, state : {"quarantined", "quality_failed", "approved",
                                  "published"},
     receipts : SUBSET Nat, receipt : Nat]

Init ==
    /\ rows = [k \in Ops |-> AbsentRow]
    /\ candidates = [k \in Ops |-> None]
    /\ staged = [k \in Ops |-> {}]
    /\ pc = [w \in Workers |-> "idle"]
    /\ run = [w \in Workers |-> NoRun]
    /\ crashes = 0

Write(k, r) == rows' = [rows EXCEPT ![k] = r]

Goto(w, label) == pc' = [pc EXCEPT ![w] = label]

(* run_operation returns to the loop, or its exception ends the process.   *)
Leave(w, label) == Goto(w, label) /\ run' = [run EXCEPT ![w] = NoRun]

Raise(w, retryable) ==
    Goto(w, "report") /\ run' = [run EXCEPT ![w].retryable = retryable]

(* operations.reconcile_expired_leases() at the start of run_once          *)
reconcile(w) ==
    /\ pc[w] = "idle"
    /\ rows' = [k \in Ops |-> IF Reconcilable(rows[k])
                              THEN Reconciled(rows[k]) ELSE rows[k]]
    /\ Goto(w, "pick")
    /\ UNCHANGED <<candidates, staged, run, crashes>>

(* The oldest pending or failed operation, read in a session of its own.   *)
pick(w) ==
    LET ready == {k \in Ops : rows[k].state \in {"pending", "failed"}}
    IN  /\ pc[w] = "pick"
        /\ IF ready = {} THEN Leave(w, "idle")
           ELSE /\ Goto(w, "lease")
                /\ run' = [run EXCEPT ![w].op = Min(ready)]
        /\ UNCHANGED <<rows, candidates, staged, crashes>>

AlreadyLeased(r, w) ==
    /\ r.state \in {"pending", "leased", "running", "failed"}
    /\ r.lease_owner \notin {None, w}
    /\ ~ LeaseExpired(r)

(* Deviation: a retry starts its checkpoint sequence from zero.            *)
lease_restarted(w) ==
    LET k == run[w].op
        r == rows[k]
    IN  /\ pc[w] = "lease"
        /\ IF CanLease(r, w)
           THEN /\ Write(k, Leased(r, w, MaxLease))
                /\ Goto(w, "admit")
                /\ run' = [run EXCEPT ![w].attempt = rows'[k].attempt,
                                      ![w].floor = r.progress]
           ELSE /\ Leave(w, IF AlreadyLeased(r, w) THEN "idle" ELSE "down")
                /\ UNCHANGED rows
        /\ UNCHANGED <<candidates, staged, crashes>>

(* Of the conflicts of lease() run_once swallows OPERATION_ALREADY_LEASED; *)
(* OPERATION_NOT_LEASABLE and OPERATION_ATTEMPTS_EXHAUSTED end the process.*)
(* The signed lease carries the checkpoint and progress to resume from.    *)
lease(w) ==
    LET k == run[w].op
        r == rows[k]
    IN  /\ pc[w] = "lease"
        /\ IF CanLease(r, w)
           THEN /\ Write(k, Leased(r, w, MaxLease))
                /\ Goto(w, "admit")
                /\ run' = [run EXCEPT ![w].attempt = rows'[k].attempt,
                                      ![w].sequence = r.checkpoint.sequence,
                                      ![w].floor = r.progress]
           ELSE /\ Leave(w, IF AlreadyLeased(r, w) THEN "idle" ELSE "down")
                /\ UNCHANGED rows
        /\ UNCHANGED <<candidates, staged, crashes>>

(* Input hash, sandbox limits, candidate admission, lease signature: reads *)
(* only.  Their refusals are raises(w).                                    *)
admit(w) ==
    /\ pc[w] = "admit"
    /\ Goto(w, "start")
    /\ UNCHANGED <<rows, candidates, staged, run, crashes>>

start(w) ==
    LET k == run[w].op
    IN  /\ pc[w] = "start"
        /\ IF OwnedLease(rows[k], w)
           THEN /\ Write(k, Started(rows[k]))
                /\ IF rows[k].cancel_requested THEN Leave(w, "idle")
                   ELSE Goto(w, "beat") /\ UNCHANGED run
           ELSE Raise(w, FALSE) /\ UNCHANGED rows
        /\ UNCHANGED <<candidates, staged, crashes>>

Target(stage) ==
    IF stage = "stage_output" THEN StagedProgress ELSE StartupProgress

(* WorkerExecution.checkpoint up to its heartbeat, which is left out when  *)
(* the row it just read is being cancelled.                                *)
beat(w) ==
    LET k == run[w].op
        r == rows[k]
    IN  /\ pc[w] = "beat"
        /\ IF r.cancel_requested \/ OwnedLease(r, w)
           THEN /\ Write(k, IF r.cancel_requested THEN r
                            ELSE Renewed(r, MaxLease))
                /\ Goto(w, "checkpoint")
                /\ run' = [run EXCEPT
                              ![w].sequence = @ + 1,
                              ![w].floor = Max({@, Target(run[w].stage)})]
           ELSE Raise(w, FALSE) /\ UNCHANGED rows
        /\ UNCHANGED <<candidates, staged, crashes>>

(* The checkpoint of every stage and handler is declared safe to resume.   *)
checkpoint(w) ==
    LET k == run[w].op
        c == [sequence |-> run[w].sequence, safe_to_resume |-> TRUE]
    IN  /\ pc[w] = "checkpoint"
        /\ IF OwnedLease(rows[k], w) /\ CanCheckpoint(rows[k], run[w].floor, c)
           THEN /\ Write(k, Checkpointed(rows[k], run[w].floor, c))
                /\ IF rows[k].cancel_requested THEN Leave(w, "idle")
                   ELSE /\ Goto(w, IF run[w].stage = "stage_output"
                                   THEN "stage" ELSE "compute")
                        /\ UNCHANGED run
           ELSE Raise(w, FALSE) /\ UNCHANGED rows
        /\ UNCHANGED <<candidates, staged, crashes>>

(* The handler returns, or passes a checkpoint of its own.                 *)
compute(w) ==
    /\ pc[w] = "compute"
    /\ Goto(w, "beat")
    /\ \/ \E p \in Payloads :
             run' = [run EXCEPT ![w].payload = p, ![w].calls = 0,
                                ![w].stage = "stage_output"]
       \/ /\ run[w].calls < MaxHandlerCheckpoints
          /\ run' = [run EXCEPT ![w].calls = @ + 1]
    /\ UNCHANGED <<rows, candidates, staged, crashes>>

(* Deviation: the candidate of an earlier attempt is reused unseen.        *)
stage_reused(w) ==
    LET k == run[w].op
        prior == candidates[k]
    IN  /\ pc[w] = "stage"
        /\ Goto(w, IF k \notin CandidateOps THEN "complete"
                   ELSE IF prior = None THEN "ingest" ELSE "attach")
        /\ UNCHANGED <<rows, candidates, staged, run, crashes>>

(* stage_candidate: the lookup of the candidate of an earlier attempt.     *)
(* From here on no step looks at the lease until complete().               *)
stage(w) ==
    LET k == run[w].op
        prior == candidates[k]
    IN  /\ pc[w] = "stage"
        /\ IF k \notin CandidateOps THEN Goto(w, "complete") /\ UNCHANGED run
           ELSE IF prior = None THEN Goto(w, "ingest") /\ UNCHANGED run
           ELSE IF prior.payload = run[w].payload /\ prior.state = "quarantined"
           THEN Goto(w, "attach") /\ UNCHANGED run
           ELSE Raise(w, FALSE)
        /\ UNCHANGED <<rows, candidates, staged, crashes>>

(* assets.ingest_bytes: the asset id is a hash of operation and payload.   *)
ingest(w) ==
    /\ pc[w] = "ingest"
    /\ staged' = [staged EXCEPT ![run[w].op] = @ \cup {run[w].payload}]
    /\ Goto(w, "candidate")
    /\ UNCHANGED <<rows, candidates, run, crashes>>

(* representations.create_candidate: a candidate another attempt created   *)
(* since the lookup differs in provenance (its run_id), a conflict.        *)
create_candidate(w) ==
    LET k == run[w].op
    IN  /\ pc[w] = "candidate"
        /\ IF candidates[k] = None
           THEN /\ candidates' = [candidates EXCEPT ![k] =
                       [payload |-> run[w].payload, state |-> "quarantined",
                        receipts |-> {}, receipt |-> 0]]
                /\ Goto(w, "attach")
                /\ UNCHANGED run
           ELSE Raise(w, FALSE) /\ UNCHANGED candidates
        /\ UNCHANGED <<rows, staged, crashes>>

(* Deviation: a receipt is attached whatever the state of the candidate.   *)
attach_reviewed(w) ==
    /\ pc[w] = "attach"
    /\ candidates' = [candidates EXCEPT
           ![run[w].op].receipts = @ \cup {run[w].attempt},
           ![run[w].op].receipt = run[w].attempt]
    /\ Goto(w, "complete")
    /\ UNCHANGED <<rows, staged, run, crashes>>

attach_worker_receipt(w) ==
    LET k == run[w].op
    IN  /\ pc[w] = "attach"
        /\ IF candidates[k].state = "quarantined"
           THEN /\ candidates' = [candidates EXCEPT
                       ![k].receipts = @ \cup {run[w].attempt},
                       ![k].receipt = run[w].attempt]
                /\ Goto(w, "complete")
                /\ UNCHANGED run
           ELSE Raise(w, FALSE) /\ UNCHANGED candidates
        /\ UNCHANGED <<rows, staged, crashes>>

complete(w) ==
    LET k == run[w].op
    IN  /\ pc[w] = "complete"
        /\ IF OwnedLease(rows[k], w) /\ ~ rows[k].cancel_requested
           THEN /\ Write(k, Completed(rows[k],
                                Manifest(run[w].payload, run[w].attempt)))
                /\ Leave(w, "idle")
           ELSE Raise(w, FALSE) /\ UNCHANGED rows
        /\ UNCHANGED <<candidates, staged, crashes>>

(* _record_failure: fail() only while the row it reads is this worker's    *)
(* and leased or running, and a conflict of fail() is swallowed.  The      *)
(* exception then leaves run_once and main, so the process ends.           *)
record_failure(w) ==
    LET r == rows[run[w].op]
    IN  /\ pc[w] = "report"
        /\ IF r.lease_owner = w /\ r.state \in {"leased", "running"}
           THEN Goto(w, "fail") /\ UNCHANGED run
           ELSE Leave(w, "down")
        /\ UNCHANGED <<rows, candidates, staged, crashes>>

fail(w) ==
    LET k == run[w].op
    IN  /\ pc[w] = "fail"
        /\ Write(k, IF OwnedLease(rows[k], w)
                    THEN Failed(rows[k], run[w].retryable) ELSE rows[k])
        /\ Leave(w, "down")
        /\ UNCHANGED <<candidates, staged, crashes>>

(* Exceptions of a step of run_operation after the lease: a refusal        *)
(* (Validation, Authorization, AuthenticationError) is not retryable; a    *)
(* deadline, a resource limit, a storage or a database error is.           *)
raises(w) ==
    /\ pc[w] \in Working \ {"lease"}
    /\ \E retryable \in BOOLEAN : Raise(w, retryable)
    /\ UNCHANGED <<rows, candidates, staged, crashes>>

crash(w) ==
    /\ pc[w] # "down"
    /\ crashes < MaxCrashes
    /\ crashes' = crashes + 1
    /\ Leave(w, "down")
    /\ UNCHANGED <<rows, candidates, staged>>

(* restart: unless-stopped, with the worker id of the container.           *)
restart(w) ==
    /\ pc[w] = "down"
    /\ Goto(w, "idle")
    /\ UNCHANGED <<rows, candidates, staged, run, crashes>>

step(w) ==
    \/ reconcile(w) \/ pick(w) \/ lease(w) \/ admit(w) \/ start(w) \/ beat(w)
    \/ checkpoint(w) \/ compute(w) \/ stage(w) \/ ingest(w)
    \/ create_candidate(w) \/ attach_worker_receipt(w) \/ complete(w)
    \/ record_failure(w) \/ fail(w) \/ raises(w)
-----------------------------------------------------------------------------
create(k, i) ==
    /\ ~ Exists(rows[k])
    /\ \A j \in 1 .. k - 1 : Exists(rows[j])
    /\ Write(k, Created(i))
    /\ UNCHANGED <<candidates, staged, pc, run, crashes>>

request_cancel(k) ==
    /\ CanCancel(rows[k])
    /\ rows[k].state # "cancel_requested"
    /\ Write(k, CancelRequested(rows[k]))
    /\ UNCHANGED <<candidates, staged, pc, run, crashes>>

(* review_quality asks for worker evidence and, once a use was approved,   *)
(* keeps the candidate approved.                                           *)
review_quality(k, passed) ==
    /\ candidates[k] # None
    /\ candidates[k].receipts # {}
    /\ candidates[k].state \in {"quarantined", "quality_failed", "approved"}
    /\ candidates' = [candidates EXCEPT ![k].state =
           IF passed \/ @ = "approved" THEN "approved" ELSE "quality_failed"]
    /\ candidates' # candidates
    /\ UNCHANGED <<rows, staged, pc, run, crashes>>

publish(k) ==
    /\ candidates[k] # None
    /\ candidates[k].state = "approved"
    /\ candidates' = [candidates EXCEPT ![k].state = "published"]
    /\ UNCHANGED <<rows, staged, pc, run, crashes>>

Tick ==
    /\ \E k \in Ops : rows[k].lease_left \notin {None, 0}
    /\ rows' = [k \in Ops |-> Aged(rows[k])]
    /\ UNCHANGED <<candidates, staged, pc, run, crashes>>

Next ==
    \/ \E w \in Workers : step(w) \/ crash(w) \/ restart(w)
    \/ \E k \in Ops : \/ \E i \in Inputs : create(k, i)
                      \/ request_cancel(k)
                      \/ \E passed \in BOOLEAN : review_quality(k, passed)
                      \/ publish(k)
    \/ Tick

Spec == Init /\ [][Next]_vars

(* The loop of main keeps running, the container restarts, time passes.    *)
Fairness ==
    /\ \A w \in Workers : WF_vars(step(w)) /\ WF_vars(restart(w))
    /\ WF_vars(Tick)

FairSpec == Spec /\ Fairness
-----------------------------------------------------------------------------
TypeOK ==
    /\ rows \in [Ops -> OperationRow]
    /\ \A k \in Ops : candidates[k] = None \/ candidates[k] \in Candidate
    /\ staged \in [Ops -> SUBSET Payloads]
    /\ pc \in [Workers -> PCs]
    /\ \A w \in Workers : /\ run[w].op \in Ops \cup {0}
                          /\ run[w].op = 0 => run[w] = NoRun
    /\ crashes \in 0 .. MaxCrashes

(***************************************************************************)
(* A retry resumes where the durable checkpoint left off: across crashes,  *)
(* take-overs and re-runs of the handler, the sequence and the progress a  *)
(* worker computes in WorkerExecution are never refused as a regression by *)
(* checkpoint() while the worker owns the lease.                           *)
(***************************************************************************)
ResumeIsAccepted ==
    \A w \in Workers :
        pc[w] = "checkpoint" /\ OwnedLease(rows[run[w].op], w)
            => CanCheckpoint(rows[run[w].op], run[w].floor,
                   [sequence |-> run[w].sequence, safe_to_resume |-> TRUE])

(***************************************************************************)
(* A worker whose lease was taken over is fenced off the row: no step of   *)
(* a run whose attempt is not the row's current one (checkpoint, complete, *)
(* fail, heartbeat) changes the row.                                       *)
(***************************************************************************)
ZombiesAreFenced ==
    [][\A w \in Workers : \A k \in Ops :
          /\ pc'[w] # pc[w]
          /\ run[w].op = k
          /\ run[w].attempt \notin {0, rows[k].attempt}
          => rows'[k] = rows[k]]_vars

(***************************************************************************)
(* A succeeded operation and its candidate tell the same story, although   *)
(* they are written by different transactions and other attempts may have  *)
(* staged in between: the candidate exists, holds the payload of the       *)
(* operation's output, its bytes were ingested, and the receipt in the     *)
(* output is among the receipts attached to the candidate.                 *)
(***************************************************************************)
SucceededMatchesCandidate ==
    \A k \in CandidateOps : rows[k].state = "succeeded" =>
        /\ candidates[k] # None
        /\ candidates[k].payload = rows[k].output.payload
        /\ candidates[k].payload \in staged[k]
        /\ rows[k].output.attempt \in candidates[k].receipts

(***************************************************************************)
(* Evidence is immutable once reviewed: when review_quality has moved a    *)
(* candidate out of quarantine no late worker adds a receipt or changes    *)
(* the payload it stands for.                                              *)
(***************************************************************************)
ReviewedEvidenceIsFrozen ==
    [][\A k \in Ops :
          candidates[k] # None /\ candidates[k].state # "quarantined"
          => /\ candidates'[k].payload = candidates[k].payload
             /\ candidates'[k].receipts = candidates[k].receipts
             /\ candidates'[k].receipt = candidates[k].receipt]_vars

(***************************************************************************)
(* What run_once makes of the attempt limit that lease() only tests for    *)
(* failed rows: a poll that is stale when it leases can start one attempt  *)
(* too many, but each other worker at most one.                            *)
(***************************************************************************)
AttemptsNearlyBounded ==
    \A k \in Ops : rows[k].attempt <= MaxAttempts + Cardinality(Workers) - 1

(***************************************************************************)
(* No operation stays leased or running for ever: its worker finishes it,  *)
(* or the lease runs out and some worker's reconcile_expired_leases takes  *)
(* it back, although processes crash, die of refused transactions and      *)
(* restart at any step.                                                    *)
(***************************************************************************)
LeasesAreResolved ==
    \A k \in Ops : rows[k].state \in {"leased", "running"}
                       ~> rows[k].state \notin {"leased", "running"}
=============================================================================
