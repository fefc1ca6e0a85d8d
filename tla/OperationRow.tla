--------------------------- MODULE OperationRow ---------------------------
(***************************************************************************)
(* The durable operation row of src/sip/database.py (OperationRow) and the *)
(* methods of OperationService (src/sip/operations.py) as functions of one *)
(* row: for each method a guard, the negation of the conditions on which   *)
(* it raises, and the row it leaves behind.  Operations and                *)
(* OperationSessions build their actions from these operators, one with a  *)
(* method per step and one with a read and a later commit.                 *)
(*                                                                         *)
(* Abstractions.  Time is relative: lease_left is lease_expires_at - now,  *)
(* so 0 is an expired lease and None a NULL column.  progress is a grid    *)
(* 0..FullProgress in [0, 1].  A checkpoint is what later calls read of    *)
(* checkpoint_json: its sequence (0 when it carries none) and              *)
(* safe_to_resume.  Output and input manifests are opaque values.  The row *)
(* of an idempotency key that was never created has state "absent".        *)
(***************************************************************************)
EXTENDS Integers

CONSTANTS Workers,       \* worker identities
          Inputs,        \* input manifests an operation can be created with
          Outputs,       \* output manifests a worker can submit
          None,          \* a NULL column
          FullProgress,  \* the grid point of progress = 1.0
          MaxLease,      \* longest lease, in ticks (3600 s in the code)
          MaxAttempts    \* max_attempts of a row (3 by default)

ASSUME NoneAssumption ==
    None \notin Workers \cup Inputs \cup Outputs \cup Int

ASSUME BoundsAssumption ==
    /\ FullProgress \in Nat \ {0}
    /\ MaxLease \in Nat \ {0}
    /\ MaxAttempts \in Nat \ {0}

States == {"absent", "pending", "leased", "running", "cancel_requested",
           "succeeded", "failed", "cancelled", "quarantined"}

Errors == {"retryable", "final", "lease_expired_unsafe"}

Progress == 0 .. FullProgress

Checkpoint == [sequence : Nat, safe_to_resume : BOOLEAN]

OperationRow ==
    [state : States,
     input : Inputs \cup {None},
     lease_owner : Workers \cup {None},
     lease_left : (0 .. MaxLease) \cup {None},
     attempt : Nat,
     progress : Progress,
     checkpoint : Checkpoint,
     output : Outputs \cup {None},
     error : Errors \cup {None},
     cancel_requested : BOOLEAN]

AbsentRow ==
    [state |-> "absent", input |-> None, lease_owner |-> None,
     lease_left |-> None, attempt |-> 0, progress |-> 0,
     checkpoint |-> [sequence |-> 0, safe_to_resume |-> FALSE],
     output |-> None, error |-> None, cancel_requested |-> FALSE]
-----------------------------------------------------------------------------
Exists(r) == r.state # "absent"

LeaseExpired(r) == r.lease_left # None /\ r.lease_left <= 0

Released(r) == [r EXCEPT !.lease_owner = None, !.lease_left = None]

(* Deviation: any live lease is taken for the caller's own.                *)
OwnedLease_anyone(r, w) == Exists(r) /\ r.lease_left # None /\ r.lease_left > 0

(* _owned_lease: the lookup every worker-side method starts with.  It      *)
(* checks the owner and the expiry, and not the state.                     *)
OwnedLease(r, w) ==
    /\ Exists(r)
    /\ r.lease_owner = w
    /\ r.lease_left # None
    /\ r.lease_left > 0

Created(i) == [AbsentRow EXCEPT !.state = "pending", !.input = i]

(* Deviations: a live lease of another worker is no obstacle, quarantined  *)
(* rows can be leased, exhausted rows can be leased.                       *)
CanLease_takeover(r, w) ==
    /\ r.state \in {"pending", "leased", "running", "failed"}
    /\ ~ (r.attempt >= MaxAttempts /\ r.state = "failed")

CanLease_quarantined(r, w) ==
    /\ r.state \in {"pending", "leased", "running", "failed", "quarantined"}
    /\ r.lease_owner = None \/ LeaseExpired(r) \/ r.lease_owner = w

CanLease_unlimited(r, w) ==
    /\ r.state \in {"pending", "leased", "running", "failed"}
    /\ r.lease_owner = None \/ LeaseExpired(r) \/ r.lease_owner = w

CanLease(r, w) ==
    /\ r.state \in {"pending", "leased", "running", "failed"}
    /\ \/ r.lease_owner = None
       \/ LeaseExpired(r)
       \/ r.lease_owner = w
    /\ ~ (r.attempt >= MaxAttempts /\ r.state = "failed")

Leased(r, w, seconds) ==
    [r EXCEPT !.attempt = IF r.state \in {"pending", "failed"} \/ LeaseExpired(r)
                          THEN @ + 1 ELSE @,
              !.state = "leased",
              !.lease_owner = w,
              !.lease_left = seconds]

Started(r) ==
    IF r.cancel_requested
    THEN [Released(r) EXCEPT !.state = "cancelled"]
    ELSE [r EXCEPT !.state = "running"]

(* Deviation: the lease is extended from its expiry, not from now.         *)
Renewed_from_expiry(r, seconds) == [r EXCEPT !.lease_left = @ + seconds]

Renewed(r, seconds) == [r EXCEPT !.lease_left = seconds]

(* The conflicts of checkpoint(); a checkpoint without a sequence (0) is   *)
(* accepted whatever the prior one was.                                    *)
CanCheckpoint(r, progress, c) ==
    /\ c.sequence # 0 /\ r.checkpoint.sequence # 0
          => c.sequence > r.checkpoint.sequence
    /\ progress >= r.progress

(* Deviation: the evidence is written before cancel_requested is tested.   *)
Checkpointed_early(r, progress, c) ==
    IF r.cancel_requested
    THEN [Released(r) EXCEPT !.state = "cancelled", !.progress = progress,
                             !.checkpoint = c]
    ELSE [r EXCEPT !.state = "running", !.progress = progress, !.checkpoint = c]

Checkpointed(r, progress, c) ==
    IF r.cancel_requested
    THEN [Released(r) EXCEPT !.state = "cancelled"]
    ELSE [r EXCEPT !.state = "running", !.progress = progress, !.checkpoint = c]

CanCancel(r) == r.state \notin {"absent", "succeeded", "failed", "cancelled"}

CancelRequested(r) ==
    [r EXCEPT !.cancel_requested = TRUE, !.state = "cancel_requested"]

Completed(r, output) ==
    [Released(r) EXCEPT !.output = output,
                        !.progress = FullProgress,
                        !.state = "succeeded"]

(* Deviation: fail() keeps the lease.                                      *)
Failed_leased(r, retryable) ==
    [r EXCEPT !.error = IF retryable THEN "retryable" ELSE "final",
              !.state = "failed"]

Failed(r, retryable) ==
    [Released(r) EXCEPT !.error = IF retryable THEN "retryable" ELSE "final",
                        !.state = "failed"]

(* Deviation: only running rows are selected.                              *)
Reconcilable_running(r) == r.state = "running" /\ LeaseExpired(r)

(* The rows reconcile_expired_leases selects, and what it makes of one.    *)
Reconcilable(r) == r.state \in {"leased", "running"} /\ LeaseExpired(r)

(* Deviation: the safety flag of the checkpoint is ignored.                *)
ReleaseIsSafe_always(r) == r.attempt < MaxAttempts

ReleaseIsSafe(r) == r.checkpoint.safe_to_resume /\ r.attempt < MaxAttempts

Reconciled(r) ==
    IF ReleaseIsSafe(r)
    THEN [Released(r) EXCEPT !.state = "pending"]
    ELSE [Released(r) EXCEPT !.state = "quarantined",
                             !.error = "lease_expired_unsafe"]

(* One unit of time passes for a lease that is not NULL and not expired.   *)
Aged(r) ==
    [r EXCEPT !.lease_left = IF @ = None \/ @ = 0 THEN @ ELSE @ - 1]
=============================================================================
