---------------------------- MODULE Operations ----------------------------
(***************************************************************************)
(* OperationService (src/sip/operations.py) with each method as one        *)
(* serialized transaction.  Keys are the (tenant, project, operation_type, *)
(* idempotency_key) tuples under which operations are created; the unique  *)
(* constraint uq_operation_idempotency makes a key the identity of at most *)
(* one row.                                                                *)
(*                                                                         *)
(* A call that raises, or that returns the row unchanged, changes no       *)
(* state, so it is not a step.  updated_at, traceparent and the audit      *)
(* record of create are left out: no method reads them.                    *)
(***************************************************************************)
EXTENDS OperationRow

CONSTANTS Keys,           \* idempotency keys
          MaxSequence,    \* bound on the checkpoint sequences workers submit
          AttemptBound    \* bound on the attempts explored (lease has none
                          \* for rows in state leased or running)

ASSUME ExploredAssumption == MaxSequence \in Nat /\ AttemptBound \in Nat

VARIABLES rows,    \* the operations table
          outbox,  \* type of the newest outbox event of each operation
          held     \* ticks left on the lease each worker was last granted

vars == <<rows, outbox, held>>

EventTypes ==
    {"none", "created", "leased", "lease_renewed", "checkpointed",
     "cancel_requested", "succeeded", "failed", "lease_released",
     "quarantined"}

Checkpoints == [sequence : 0 .. MaxSequence, safe_to_resume : BOOLEAN]

Init ==
    /\ rows = [k \in Keys |-> AbsentRow]
    /\ outbox = [k \in Keys |-> "none"]
    /\ held = [k \in Keys |-> [w \in Workers |-> 0]]

Write(k, r) == rows' = [rows EXCEPT ![k] = r]

Emit(k, type) == outbox' = [outbox EXCEPT ![k] = type]

(* What the row returned to worker w tells it about its own lease.         *)
Granted(h, r, w) ==
    [h EXCEPT ![w] = IF r.lease_owner = w THEN r.lease_left ELSE 0]

Grant(k, w) == held' = [held EXCEPT ![k] = Granted(held[k], rows'[k], w)]

create(k, i) ==
    /\ ~ Exists(rows[k])
    /\ Write(k, Created(i))
    /\ Emit(k, "created")
    /\ UNCHANGED held

lease(k, w, seconds) ==
    /\ CanLease(rows[k], w)
    /\ rows[k].attempt < AttemptBound
    /\ Write(k, Leased(rows[k], w, seconds))
    /\ Emit(k, "leased")
    /\ Grant(k, w)

start(k, w) ==
    /\ OwnedLease(rows[k], w)
    /\ Write(k, Started(rows[k]))
    /\ Grant(k, w)
    /\ UNCHANGED outbox

heartbeat(k, w, seconds) ==
    /\ OwnedLease(rows[k], w)
    /\ Write(k, Renewed(rows[k], seconds))
    /\ Emit(k, "lease_renewed")
    /\ Grant(k, w)

checkpoint(k, w, progress, c) ==
    /\ OwnedLease(rows[k], w)
    /\ CanCheckpoint(rows[k], progress, c)
    /\ Write(k, Checkpointed(rows[k], progress, c))
    /\ Emit(k, "checkpointed")
    /\ Grant(k, w)

request_cancel(k) ==
    /\ CanCancel(rows[k])
    /\ Write(k, CancelRequested(rows[k]))
    /\ Emit(k, "cancel_requested")
    /\ UNCHANGED held

(* Deviation: complete() does not test cancel_requested.                   *)
complete_cancelled(k, w, output) ==
    /\ OwnedLease(rows[k], w)
    /\ Write(k, Completed(rows[k], output))
    /\ Emit(k, "succeeded")
    /\ Grant(k, w)

complete(k, w, output) ==
    /\ OwnedLease(rows[k], w)
    /\ ~ rows[k].cancel_requested
    /\ Write(k, Completed(rows[k], output))
    /\ Emit(k, "succeeded")
    /\ Grant(k, w)

(* Deviation: fail() writes no event.                                      *)
fail_silent(k, w, retryable) ==
    /\ OwnedLease(rows[k], w)
    /\ Write(k, Failed(rows[k], retryable))
    /\ Grant(k, w)
    /\ UNCHANGED outbox

fail(k, w, retryable) ==
    /\ OwnedLease(rows[k], w)
    /\ Write(k, Failed(rows[k], retryable))
    /\ Emit(k, "failed")
    /\ Grant(k, w)

(* One transaction over every selected row.                                *)
reconcile_expired_leases ==
    /\ \E k \in Keys : Reconcilable(rows[k])
    /\ rows' = [k \in Keys |-> IF Reconcilable(rows[k])
                               THEN Reconciled(rows[k]) ELSE rows[k]]
    /\ outbox' = [k \in Keys |->
                    IF ~ Reconcilable(rows[k]) THEN outbox[k]
                    ELSE IF ReleaseIsSafe(rows[k]) THEN "lease_released"
                    ELSE "quarantined"]
    /\ UNCHANGED held

(* The clock: every outstanding lease gets one tick older.                 *)
Tick ==
    /\ \E k \in Keys : rows[k].lease_left \notin {None, 0}
    /\ rows' = [k \in Keys |-> Aged(rows[k])]
    /\ held' = [k \in Keys |-> [w \in Workers |->
                    IF held[k][w] = 0 THEN 0 ELSE held[k][w] - 1]]
    /\ UNCHANGED outbox

WorkerCall(k, w) ==
    \/ \E seconds \in 1 .. MaxLease :
          lease(k, w, seconds) \/ heartbeat(k, w, seconds)
    \/ start(k, w)
    \/ \E progress \in Progress, c \in Checkpoints :
          checkpoint(k, w, progress, c)
    \/ \E output \in Outputs : complete(k, w, output)
    \/ \E retryable \in BOOLEAN : fail(k, w, retryable)

ClientCall(k) == (\E i \in Inputs : create(k, i)) \/ request_cancel(k)

Next ==
    \/ \E k \in Keys : ClientCall(k) \/ \E w \in Workers : WorkerCall(k, w)
    \/ reconcile_expired_leases
    \/ Tick

Spec == Init /\ [][Next]_vars
-----------------------------------------------------------------------------
TypeOK ==
    /\ rows \in [Keys -> OperationRow]
    /\ outbox \in [Keys -> EventTypes]
    /\ held \in [Keys -> [Workers -> 0 .. MaxLease]]

(***************************************************************************)
(* The lease columns follow the state, although _owned_lease never looks   *)
(* at the state: a row that left the leased, running and cancel_requested  *)
(* states has no lease left that a late worker could still act on, and a   *)
(* leased or running row always has one that can expire.                   *)
(***************************************************************************)
LeaseMatchesState ==
    \A k \in Keys :
        /\ rows[k].lease_owner = None <=> rows[k].lease_left = None
        /\ rows[k].state \in {"leased", "running"} => rows[k].lease_owner # None
        /\ rows[k].lease_owner # None
              => rows[k].state \in {"leased", "running", "cancel_requested"}

(***************************************************************************)
(* Lease exclusion: no two workers hold, at the same time, a lease on the  *)
(* same operation that has not run out by their own clock.  A worker only  *)
(* knows what lease() and heartbeat() returned to it, so this relates the  *)
(* grants handed out to the row they were read from.                       *)
(***************************************************************************)
LeaseExclusion ==
    \A k \in Keys : \A v, w \in Workers :
        held[k][v] > 0 /\ held[k][w] > 0 => v = w

(***************************************************************************)
(* An accepted cancellation freezes the evidence: after request_cancel no  *)
(* call of any worker, holding whichever lease, changes the progress, the  *)
(* checkpoint or the output of the row, nor withdraws the request.         *)
(***************************************************************************)
CancelFreezesEvidence ==
    [][\A k \in Keys : rows[k].cancel_requested =>
          /\ rows'[k].cancel_requested
          /\ rows'[k].progress = rows[k].progress
          /\ rows'[k].checkpoint = rows[k].checkpoint
          /\ rows'[k].output = rows[k].output]_vars

(***************************************************************************)
(* Work is put back in the queue only from a checkpoint declared safe to   *)
(* resume: a pending row that was attempted before went through            *)
(* reconcile_expired_leases with such a checkpoint.                        *)
(***************************************************************************)
RequeuedOnlyIfSafe ==
    \A k \in Keys : rows[k].state = "pending" /\ rows[k].attempt > 0
                        => rows[k].checkpoint.safe_to_resume

(***************************************************************************)
(* Quarantined work is never handed to a worker again by any sequence of   *)
(* calls (lease, reconcile_expired_leases, late calls of its old worker);  *)
(* it can only be cancelled.                                               *)
(***************************************************************************)
QuarantineHolds ==
    [][\A k \in Keys : rows[k].state = "quarantined"
          => /\ rows'[k].state \in {"quarantined", "cancel_requested"}
             /\ rows'[k].lease_owner = None]_vars

(***************************************************************************)
(* A consumer that has read the outbox up to its newest event of an        *)
(* operation knows whether it succeeded, failed, was quarantined or was    *)
(* requeued: the event is written in the transaction that writes the row.  *)
(***************************************************************************)
OutboxTellsOutcome ==
    \A k \in Keys :
        /\ outbox[k] = "succeeded" <=> rows[k].state = "succeeded"
        /\ outbox[k] = "failed" <=> rows[k].state = "failed"
        /\ outbox[k] = "quarantined" <=> rows[k].state = "quarantined"
        /\ outbox[k] \in {"created", "lease_released"}
              <=> rows[k].state = "pending"

(***************************************************************************)
(* The service implements DurableJob: the refinement reads what a client   *)
(* observes of the row.  It says that output appears at most once, only on *)
(* success, and never after an accepted cancellation, and that succeeded   *)
(* and cancelled are final, through every retry and lease change.          *)
(***************************************************************************)
JobStatus(r) ==
    CASE r.state = "absent" -> "unknown"
      [] r.state = "succeeded" -> "delivered"
      [] r.state = "cancelled" -> "stopped"
      [] OTHER -> IF r.cancel_requested THEN "cancelling" ELSE "open"

Job == INSTANCE DurableJob WITH
           Jobs <- Keys, Results <- Outputs, NoResult <- None,
           status <- [k \in Keys |-> JobStatus(rows[k])],
           result <- [k \in Keys |-> rows[k].output]

ImplementsDurableJob == Job!Spec
=============================================================================
