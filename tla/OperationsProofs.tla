------------------------- MODULE OperationsProofs -------------------------
(***************************************************************************)
(* Proofs about Operations, for any sets of keys, workers, inputs and      *)
(* outputs and any bounds.  Every method changes one row, one outbox entry *)
(* and one grant, so the inductive invariant is a predicate OpInv on the   *)
(* (row, newest event, grants) of one key, and the work is done in one     *)
(* lemma per method about that triple.                                     *)
(***************************************************************************)
EXTENDS Operations, TLAPS

(* A grant that has not run out is the lease of the row.                   *)
GrantIsLease(r, h) ==
    \A w \in Workers : h[w] > 0 => r.lease_owner = w /\ r.lease_left = h[w]

LeaseFollowsState(r) ==
    /\ r.lease_owner = None <=> r.lease_left = None
    /\ r.state \in {"leased", "running"} => r.lease_owner # None
    /\ r.lease_owner # None
          => r.state \in {"leased", "running", "cancel_requested"}

EventTellsOutcome(r, e) ==
    /\ e = "succeeded" <=> r.state = "succeeded"
    /\ e = "failed" <=> r.state = "failed"
    /\ e = "quarantined" <=> r.state = "quarantined"
    /\ e \in {"created", "lease_released"} <=> r.state = "pending"

OpInv(r, e, h) ==
    /\ r \in OperationRow
    /\ e \in EventTypes
    /\ h \in [Workers -> 0 .. MaxLease]
    /\ LeaseFollowsState(r)
    /\ GrantIsLease(r, h)
    /\ r.state = "pending" /\ r.attempt > 0 => r.checkpoint.safe_to_resume
    /\ r.state = "absent" => r.output = None /\ ~ r.cancel_requested
    /\ EventTellsOutcome(r, e)

IInv ==
    /\ DOMAIN rows = Keys /\ rows = [k \in Keys |-> rows[k]]
    /\ DOMAIN outbox = Keys /\ outbox = [k \in Keys |-> outbox[k]]
    /\ DOMAIN held = Keys /\ held = [k \in Keys |-> held[k]]
    /\ \A k \in Keys : OpInv(rows[k], outbox[k], held[k])

(* None is not a worker, a manifest or a number.                           *)
LEMMA NoneIsNew == /\ None \notin Workers
                   /\ None \notin Outputs
                   /\ None \notin Inputs
                   /\ None \notin Int
                   /\ \A n \in 0 .. MaxLease : n # None
  BY NoneAssumption

(* What a worker that owns the lease may conclude about the row.           *)
LEMMA OwnerFacts ==
  ASSUME NEW r, NEW e, NEW h, OpInv(r, e, h),
         NEW w \in Workers, OwnedLease(r, w)
  PROVE  /\ r \in OperationRow
         /\ r.lease_owner = w
         /\ r.lease_left \in 1 .. MaxLease
         /\ r.state \in {"leased", "running", "cancel_requested"}
         /\ \A v \in Workers : v # w => h[v] = 0
<1>1. r \in OperationRow /\ h \in [Workers -> 0 .. MaxLease]
  BY DEF OpInv
<1>2. r.lease_owner = w /\ r.lease_left \in 1 .. MaxLease
  BY <1>1, BoundsAssumption DEF OperationRow, OwnedLease
<1>3. r.state \in {"leased", "running", "cancel_requested"}
  BY <1>2, NoneIsNew DEF OpInv, LeaseFollowsState
<1>4. \A v \in Workers : v # w => h[v] = 0
  BY <1>1, <1>2, BoundsAssumption DEF OpInv, GrantIsLease
<1> QED
  BY <1>1, <1>2, <1>3, <1>4

(***************************************************************************)
(* A method that gives the row a lease: what the caller is granted is what *)
(* the row says, and every other grant has run out.                        *)
(***************************************************************************)
LEMMA GrantSet ==
  ASSUME NEW h \in [Workers -> 0 .. MaxLease], NEW s, NEW w \in Workers,
         s.lease_owner = w, s.lease_left \in 0 .. MaxLease,
         \A v \in Workers : v # w => h[v] = 0
  PROVE  /\ Granted(h, s, w) \in [Workers -> 0 .. MaxLease]
         /\ GrantIsLease(s, Granted(h, s, w))
  BY DEF Granted, GrantIsLease

(* A method that clears the lease leaves no grant.                         *)
LEMMA GrantCleared ==
  ASSUME NEW h \in [Workers -> 0 .. MaxLease], NEW s, NEW w \in Workers,
         s.lease_owner = None,
         \A v \in Workers : v # w => h[v] = 0
  PROVE  /\ Granted(h, s, w) \in [Workers -> 0 .. MaxLease]
         /\ GrantIsLease(s, Granted(h, s, w))
<1>1. s.lease_owner # w
  BY NoneIsNew
<1>2. Granted(h, s, w) = [h EXCEPT ![w] = 0]
  BY <1>1 DEF Granted
<1> QED
  BY <1>2, BoundsAssumption DEF GrantIsLease

LEMMA CreatedInv ==
  ASSUME NEW r, NEW e, NEW h, OpInv(r, e, h), ~ Exists(r), NEW i \in Inputs
  PROVE  OpInv(Created(i), "created", h)
<1> DEFINE s == Created(i)
<1>1. s \in OperationRow
  <2>1. [sequence |-> 0, safe_to_resume |-> FALSE] \in Checkpoint
    BY DEF Checkpoint
  <2>2. "pending" \in States /\ 0 \in Progress
    BY BoundsAssumption DEF States, Progress
  <2> QED
    BY <2>1, <2>2 DEF Created, AbsentRow, OperationRow
<1>2. r.lease_owner = None
  BY DEF OpInv, LeaseFollowsState, Exists
<1>3. ASSUME NEW w \in Workers PROVE h[w] = 0
  <2>1. h[w] \in 0 .. MaxLease /\ (h[w] > 0 => r.lease_owner = w)
    BY DEF OpInv, GrantIsLease
  <2>2. ~ (h[w] > 0)
    BY <1>2, <2>1, NoneIsNew
  <2> QED
    BY <2>1, <2>2, BoundsAssumption
<1>4. LeaseFollowsState(s) /\ GrantIsLease(s, h) /\ EventTellsOutcome(s, "created")
  BY <1>3 DEF Created, AbsentRow, LeaseFollowsState, GrantIsLease,
              EventTellsOutcome
<1>5. s.attempt = 0 /\ s.state = "pending"
  BY DEF Created, AbsentRow
<1> QED
  BY <1>1, <1>4, <1>5 DEF OpInv, EventTypes

(* The events that announce an outcome or a queued row.                    *)
Outcomes == {"succeeded", "failed", "quarantined", "created", "lease_released"}

(* A call of the lease owner that leaves it the lease.                     *)
LEMMA KeepsLease ==
  ASSUME NEW h \in [Workers -> 0 .. MaxLease], NEW w \in Workers,
         \A v \in Workers : v # w => h[v] = 0,
         NEW s \in OperationRow, NEW f \in EventTypes,
         s.lease_owner = w, s.lease_left \in 1 .. MaxLease,
         s.state \in {"leased", "running", "cancel_requested"},
         f \notin Outcomes
  PROVE  OpInv(s, f, Granted(h, s, w))
<1>1. LeaseFollowsState(s)
  BY NoneIsNew DEF LeaseFollowsState
<1>2. EventTellsOutcome(s, f)
  BY DEF EventTellsOutcome, Outcomes
<1>3. s.lease_left \in 0 .. MaxLease
  BY BoundsAssumption
<1> QED
  BY <1>1, <1>2, <1>3, GrantSet DEF OpInv

(* A call of the lease owner that ends the attempt.                        *)
LEMMA ClearsLease ==
  ASSUME NEW h \in [Workers -> 0 .. MaxLease], NEW w \in Workers,
         \A v \in Workers : v # w => h[v] = 0,
         NEW s \in OperationRow, NEW f \in EventTypes,
         s.lease_owner = None, s.lease_left = None,
         s.state \in {"succeeded", "failed", "cancelled"},
         EventTellsOutcome(s, f)
  PROVE  OpInv(s, f, Granted(h, s, w))
<1>1. LeaseFollowsState(s)
  BY DEF LeaseFollowsState
<1> QED
  BY <1>1, GrantCleared DEF OpInv

LEMMA LeasedInv ==
  ASSUME NEW r, NEW e, NEW h, OpInv(r, e, h),
         NEW w \in Workers, NEW seconds \in 1 .. MaxLease, CanLease(r, w),
         NEW s, s = Leased(r, w, seconds)
  PROVE  OpInv(s, "leased", Granted(h, s, w))
<1> DEFINE n == IF r.state \in {"pending", "failed"} \/ LeaseExpired(r)
                THEN r.attempt + 1 ELSE r.attempt
<1>1. r \in OperationRow /\ h \in [Workers -> 0 .. MaxLease]
  BY DEF OpInv
<1>2. n \in Nat
  BY <1>1 DEF OperationRow
<1>3. s = [r EXCEPT !.attempt = n, !.state = "leased",
                    !.lease_owner = w, !.lease_left = seconds]
  BY DEF Leased
<1>4. seconds \in 0 .. MaxLease /\ "leased" \in States
  BY BoundsAssumption DEF States
<1> HIDE DEF n
<1>5. s \in OperationRow
  BY <1>1, <1>2, <1>3, <1>4 DEF OperationRow
<1>6. s.state = "leased" /\ s.lease_owner = w /\ s.lease_left = seconds
  BY <1>1, <1>3 DEF OperationRow
<1>7. \A v \in Workers : v # w => h[v] = 0
  <2> SUFFICES ASSUME NEW v \in Workers, v # w, h[v] # 0 PROVE FALSE
    OBVIOUS
  <2>1. r.lease_owner = v /\ r.lease_left = h[v] /\ h[v] > 0
    BY BoundsAssumption DEF OpInv, GrantIsLease
  <2> QED
    BY <2>1, NoneIsNew DEF CanLease, LeaseExpired, OpInv
<1> QED
  BY <1>1, <1>5, <1>6, <1>7, KeepsLease DEF EventTypes, Outcomes

LEMMA StartedInv ==
  ASSUME NEW r, NEW e, NEW h, OpInv(r, e, h),
         NEW w \in Workers, OwnedLease(r, w), NEW s, s = Started(r)
  PROVE  OpInv(s, e, Granted(h, s, w))
<1>1. /\ r \in OperationRow /\ r.lease_owner = w
      /\ r.lease_left \in 1 .. MaxLease
      /\ r.state \in {"leased", "running", "cancel_requested"}
      /\ \A v \in Workers : v # w => h[v] = 0
  BY OwnerFacts
<1>2. /\ h \in [Workers -> 0 .. MaxLease]
      /\ e \in EventTypes
      /\ e \notin Outcomes
  BY <1>1 DEF OpInv, EventTellsOutcome, Outcomes
<1>3. CASE r.cancel_requested
  <2>1. s = [r EXCEPT !.lease_owner = None, !.lease_left = None,
                      !.state = "cancelled"]
    BY <1>1, <1>3 DEF Started, Released, OperationRow
  <2>2. /\ s \in OperationRow
        /\ s.state = "cancelled" /\ s.lease_owner = None /\ s.lease_left = None
    BY <1>1, <2>1 DEF OperationRow, States
  <2>3. EventTellsOutcome(s, e)
    BY <1>2, <2>2 DEF EventTellsOutcome, Outcomes
  <2> QED
    BY <1>1, <1>2, <2>2, <2>3, ClearsLease
<1>4. CASE ~ r.cancel_requested
  <2>1. s = [r EXCEPT !.state = "running"]
    BY <1>1, <1>4 DEF Started
  <2>2. /\ s \in OperationRow
        /\ s.state = "running" /\ s.lease_owner = w
        /\ s.lease_left \in 1 .. MaxLease
    BY <1>1, <2>1 DEF OperationRow, States
  <2> QED
    BY <1>1, <1>2, <2>2, KeepsLease
<1> QED
  BY <1>3, <1>4

LEMMA RenewedInv ==
  ASSUME NEW r, NEW e, NEW h, OpInv(r, e, h),
         NEW w \in Workers, OwnedLease(r, w), NEW seconds \in 1 .. MaxLease,
         NEW s, s = Renewed(r, seconds)
  PROVE  OpInv(s, "lease_renewed", Granted(h, s, w))
<1>1. /\ r \in OperationRow /\ r.lease_owner = w
      /\ r.state \in {"leased", "running", "cancel_requested"}
      /\ \A v \in Workers : v # w => h[v] = 0
  BY OwnerFacts
<1>2. seconds \in 0 .. MaxLease
  BY BoundsAssumption
<1>3. /\ s \in OperationRow
      /\ s.state = r.state /\ s.lease_owner = w /\ s.lease_left = seconds
  BY <1>1, <1>2 DEF OperationRow, Renewed
<1> QED
  BY <1>1, <1>3, KeepsLease DEF OpInv, EventTypes, Outcomes

LEMMA CheckpointedInv ==
  ASSUME NEW r, NEW e, NEW h, OpInv(r, e, h),
         NEW w \in Workers, OwnedLease(r, w),
         NEW progress \in Progress, NEW c \in Checkpoint,
         NEW s, s = Checkpointed(r, progress, c)
  PROVE  OpInv(s, "checkpointed", Granted(h, s, w))
<1>1. /\ r \in OperationRow /\ r.lease_owner = w
      /\ r.lease_left \in 1 .. MaxLease
      /\ \A v \in Workers : v # w => h[v] = 0
  BY OwnerFacts
<1>2. h \in [Workers -> 0 .. MaxLease]
  BY DEF OpInv
<1>3. "checkpointed" \in EventTypes /\ "checkpointed" \notin Outcomes
  BY DEF EventTypes, Outcomes
<1>4. CASE r.cancel_requested
  <2>1. s = [r EXCEPT !.lease_owner = None, !.lease_left = None,
                      !.state = "cancelled"]
    BY <1>1, <1>4 DEF Checkpointed, Released, OperationRow
  <2>2. /\ s \in OperationRow
        /\ s.state = "cancelled" /\ s.lease_owner = None /\ s.lease_left = None
    BY <1>1, <2>1 DEF OperationRow, States
  <2>3. EventTellsOutcome(s, "checkpointed")
    BY <2>2 DEF EventTellsOutcome
  <2> QED
    BY <1>1, <1>2, <1>3, <2>2, <2>3, ClearsLease
<1>5. CASE ~ r.cancel_requested
  <2>1. s = [r EXCEPT !.state = "running", !.progress = progress,
                      !.checkpoint = c]
    BY <1>1, <1>5 DEF Checkpointed
  <2>2. /\ s \in OperationRow
        /\ s.state = "running" /\ s.lease_owner = w
        /\ s.lease_left \in 1 .. MaxLease
    BY <1>1, <2>1 DEF OperationRow, States
  <2> QED
    BY <1>1, <1>2, <1>3, <2>2, KeepsLease
<1> QED
  BY <1>4, <1>5

LEMMA CompletedInv ==
  ASSUME NEW r, NEW e, NEW h, OpInv(r, e, h),
         NEW w \in Workers, OwnedLease(r, w), NEW output \in Outputs,
         NEW s, s = Completed(r, output)
  PROVE  OpInv(s, "succeeded", Granted(h, s, w))
<1>1. r \in OperationRow /\ \A v \in Workers : v # w => h[v] = 0
  BY OwnerFacts
<1>2. s = [r EXCEPT !.lease_owner = None, !.lease_left = None,
                    !.output = output, !.progress = FullProgress,
                    !.state = "succeeded"]
  BY <1>1 DEF Completed, Released, OperationRow
<1>3. FullProgress \in Progress /\ "succeeded" \in States
  BY BoundsAssumption DEF Progress, States
<1>4. /\ s \in OperationRow
      /\ s.state = "succeeded" /\ s.lease_owner = None /\ s.lease_left = None
  BY <1>1, <1>2, <1>3 DEF OperationRow
<1>5. EventTellsOutcome(s, "succeeded")
  BY <1>4 DEF EventTellsOutcome
<1> QED
  BY <1>1, <1>4, <1>5, ClearsLease DEF OpInv, EventTypes

LEMMA FailedInv ==
  ASSUME NEW r, NEW e, NEW h, OpInv(r, e, h),
         NEW w \in Workers, OwnedLease(r, w), NEW retryable \in BOOLEAN,
         NEW s, s = Failed(r, retryable)
  PROVE  OpInv(s, "failed", Granted(h, s, w))
<1> DEFINE x == IF retryable THEN "retryable" ELSE "final"
<1>1. r \in OperationRow /\ \A v \in Workers : v # w => h[v] = 0
  BY OwnerFacts
<1>2. s = [r EXCEPT !.lease_owner = None, !.lease_left = None,
                    !.error = x, !.state = "failed"]
  BY <1>1 DEF Failed, Released, OperationRow
<1>3. x \in Errors /\ "failed" \in States
  BY DEF Errors, States
<1> HIDE DEF x
<1>4. /\ s \in OperationRow
      /\ s.state = "failed" /\ s.lease_owner = None /\ s.lease_left = None
  BY <1>1, <1>2, <1>3 DEF OperationRow
<1>5. EventTellsOutcome(s, "failed")
  BY <1>4 DEF EventTellsOutcome
<1> QED
  BY <1>1, <1>4, <1>5, ClearsLease DEF OpInv, EventTypes

LEMMA CancelRequestedInv ==
  ASSUME NEW r, NEW e, NEW h, OpInv(r, e, h), CanCancel(r),
         NEW s, s = CancelRequested(r)
  PROVE  OpInv(s, "cancel_requested", h)
<1>1. r \in OperationRow
  BY DEF OpInv
<1>2. /\ s \in OperationRow
      /\ s.state = "cancel_requested"
      /\ s.lease_owner = r.lease_owner /\ s.lease_left = r.lease_left
  BY <1>1 DEF CancelRequested, OperationRow, States
<1>3. LeaseFollowsState(s)
  BY <1>2 DEF OpInv, LeaseFollowsState
<1>4. GrantIsLease(s, h)
  BY <1>2 DEF OpInv, GrantIsLease
<1>5. EventTellsOutcome(s, "cancel_requested")
  BY <1>2 DEF EventTellsOutcome
<1> QED
  BY <1>2, <1>3, <1>4, <1>5 DEF OpInv, EventTypes

LEMMA ReconciledInv ==
  ASSUME NEW r, NEW e, NEW h, OpInv(r, e, h), Reconcilable(r),
         NEW s, s = Reconciled(r),
         NEW f, f = IF ReleaseIsSafe(r) THEN "lease_released" ELSE "quarantined"
  PROVE  OpInv(s, f, h)
<1>1. r \in OperationRow /\ h \in [Workers -> 0 .. MaxLease]
  BY DEF OpInv
<1>2. r.lease_left = 0
  BY <1>1, BoundsAssumption DEF Reconcilable, LeaseExpired, OperationRow
<1>3. ASSUME NEW w \in Workers PROVE ~ (h[w] > 0)
  <2>1. h[w] > 0 => r.lease_left = h[w]
    BY DEF OpInv, GrantIsLease
  <2> QED
    BY <1>2, <2>1
<1>4. GrantIsLease(s, h)
  BY <1>3 DEF GrantIsLease
<1>5. CASE ReleaseIsSafe(r)
  <2>1. s = [r EXCEPT !.lease_owner = None, !.lease_left = None,
                      !.state = "pending"]
    BY <1>1, <1>5 DEF Reconciled, Released, OperationRow
  <2>2. /\ s \in OperationRow
        /\ s.state = "pending" /\ s.lease_owner = None /\ s.lease_left = None
        /\ s.checkpoint = r.checkpoint
    BY <1>1, <2>1 DEF OperationRow, States
  <2>3. s.checkpoint.safe_to_resume
    BY <1>5, <2>2 DEF ReleaseIsSafe
  <2>4. LeaseFollowsState(s) /\ EventTellsOutcome(s, f)
    BY <1>5, <2>2 DEF LeaseFollowsState, EventTellsOutcome
  <2>5. f \in EventTypes
    BY <1>5 DEF EventTypes
  <2> QED
    BY <1>1, <1>4, <2>2, <2>3, <2>4, <2>5 DEF OpInv
<1>6. CASE ~ ReleaseIsSafe(r)
  <2>1. s = [r EXCEPT !.lease_owner = None, !.lease_left = None,
                      !.state = "quarantined", !.error = "lease_expired_unsafe"]
    BY <1>1, <1>6 DEF Reconciled, Released, OperationRow
  <2>2. /\ s \in OperationRow
        /\ s.state = "quarantined" /\ s.lease_owner = None /\ s.lease_left = None
    BY <1>1, <2>1 DEF OperationRow, States, Errors
  <2>3. LeaseFollowsState(s) /\ EventTellsOutcome(s, f)
    BY <1>6, <2>2 DEF LeaseFollowsState, EventTellsOutcome
  <2>4. f \in EventTypes
    BY <1>6 DEF EventTypes
  <2> QED
    BY <1>1, <1>4, <2>2, <2>3, <2>4 DEF OpInv
<1> QED
  BY <1>5, <1>6

(* A tick ages the lease of the row and the grant made from it together.   *)
LEMMA AgedInv ==
  ASSUME NEW r, NEW e, NEW h, OpInv(r, e, h), NEW s, s = Aged(r),
         NEW g, g = [w \in Workers |-> IF h[w] = 0 THEN 0 ELSE h[w] - 1]
  PROVE  OpInv(s, e, g)
<1> DEFINE n == IF r.lease_left = None \/ r.lease_left = 0
                THEN r.lease_left ELSE r.lease_left - 1
<1>1. r \in OperationRow /\ h \in [Workers -> 0 .. MaxLease]
  BY DEF OpInv
<1>2. r.lease_left \in (0 .. MaxLease) \cup {None}
  BY <1>1 DEF OperationRow
<1>3. n \in (0 .. MaxLease) \cup {None} /\ (n = None <=> r.lease_left = None)
  BY <1>2, NoneIsNew, BoundsAssumption
<1>4. s = [r EXCEPT !.lease_left = n]
  BY DEF Aged
<1>5. ASSUME NEW w \in Workers, h[w] > 1
      PROVE  n = h[w] - 1 /\ r.lease_owner = w
  <2>1. h[w] \in 0 .. MaxLease
    BY <1>1
  <2>2. r.lease_owner = w /\ r.lease_left = h[w]
    BY <1>5, <2>1 DEF OpInv, GrantIsLease
  <2> QED
    BY <1>5, <2>1, <2>2, NoneIsNew
<1> HIDE DEF n
<1>6. /\ s \in OperationRow
      /\ s.state = r.state /\ s.lease_owner = r.lease_owner /\ s.lease_left = n
      /\ s.attempt = r.attempt /\ s.checkpoint = r.checkpoint
      /\ s.output = r.output /\ s.cancel_requested = r.cancel_requested
  BY <1>1, <1>3, <1>4 DEF OperationRow
<1>7. LeaseFollowsState(s)
  BY <1>3, <1>6 DEF OpInv, LeaseFollowsState
<1>8. EventTellsOutcome(s, e)
  BY <1>6 DEF OpInv, EventTellsOutcome
<1>9. g \in [Workers -> 0 .. MaxLease]
  BY <1>1, BoundsAssumption
<1>10. GrantIsLease(s, g)
  <2> SUFFICES ASSUME NEW w \in Workers, g[w] > 0
               PROVE  s.lease_owner = w /\ s.lease_left = g[w]
    BY DEF GrantIsLease
  <2>1. h[w] \in 0 .. MaxLease /\ h[w] > 1 /\ g[w] = h[w] - 1
    BY <1>1, BoundsAssumption
  <2> QED
    BY <1>5, <1>6, <2>1
<1> QED
  BY <1>6, <1>7, <1>8, <1>9, <1>10 DEF OpInv
-----------------------------------------------------------------------------
(***************************************************************************)
(* The inductive invariant.                                                *)
(***************************************************************************)
LEMMA AbsentInv == OpInv(AbsentRow, "none", [w \in Workers |-> 0])
<1>1. AbsentRow \in OperationRow
  <2>1. [sequence |-> 0, safe_to_resume |-> FALSE] \in Checkpoint
    BY DEF Checkpoint
  <2>2. "absent" \in States /\ 0 \in Progress
    BY BoundsAssumption DEF States, Progress
  <2> QED
    BY <2>1, <2>2 DEF AbsentRow, OperationRow
<1>2. LeaseFollowsState(AbsentRow) /\ GrantIsLease(AbsentRow, [w \in Workers |-> 0])
  BY DEF AbsentRow, LeaseFollowsState, GrantIsLease
<1>3. EventTellsOutcome(AbsentRow, "none") /\ "none" \in EventTypes
  BY DEF AbsentRow, EventTellsOutcome, EventTypes
<1>4. /\ AbsentRow.state # "pending"
      /\ AbsentRow.output = None
      /\ ~ AbsentRow.cancel_requested
  BY DEF AbsentRow
<1> QED
  BY <1>1, <1>2, <1>3, <1>4, BoundsAssumption DEF OpInv

(* A step that changes the row, event and grants of one key only.          *)
LEMMA OneKey ==
  ASSUME IInv, NEW k \in Keys, OpInv(rows'[k], outbox'[k], held'[k]),
         rows' = [rows EXCEPT ![k] = rows'[k]],
         outbox' = [outbox EXCEPT ![k] = outbox'[k]],
         held' = [held EXCEPT ![k] = held'[k]]
  PROVE  IInv'
<1>1. /\ DOMAIN rows' = Keys /\ rows' = [q \in Keys |-> rows'[q]]
      /\ DOMAIN outbox' = Keys /\ outbox' = [q \in Keys |-> outbox'[q]]
      /\ DOMAIN held' = Keys /\ held' = [q \in Keys |-> held'[q]]
  BY DEF IInv
<1>2. ASSUME NEW q \in Keys PROVE OpInv(rows'[q], outbox'[q], held'[q])
  <2>1. CASE q = k
    BY <2>1
  <2>2. CASE q # k
    <3>1. rows'[q] = rows[q] /\ outbox'[q] = outbox[q] /\ held'[q] = held[q]
      BY <2>2 DEF IInv
    <3> QED
      BY <3>1 DEF IInv
  <2> QED
    BY <2>1, <2>2
<1> QED
  BY <1>1, <1>2 DEF IInv

LEMMA InitInv == Init => IInv
  BY AbsentInv DEF Init, IInv

(* Every method call of a worker on key k preserves the invariant.         *)
LEMMA WorkerCallInv ==
  ASSUME IInv, NEW k \in Keys, NEW w \in Workers, WorkerCall(k, w)
  PROVE  IInv'
<1> USE DEF Write, Emit, Grant
<1>1. OpInv(rows[k], outbox[k], held[k])
  BY DEF IInv
<1>2. ASSUME NEW seconds \in 1 .. MaxLease, lease(k, w, seconds)
      PROVE  IInv'
  <2>1. /\ rows'[k] = Leased(rows[k], w, seconds)
        /\ outbox'[k] = "leased"
        /\ held'[k] = Granted(held[k], rows'[k], w)
    BY <1>2 DEF lease, IInv
  <2>2. OpInv(rows'[k], outbox'[k], held'[k])
    BY <1>1, <1>2, <2>1, LeasedInv DEF lease
  <2> QED
    BY <1>2, <2>1, <2>2, OneKey DEF lease
<1>3. ASSUME NEW seconds \in 1 .. MaxLease, heartbeat(k, w, seconds)
      PROVE  IInv'
  <2>1. /\ rows'[k] = Renewed(rows[k], seconds)
        /\ outbox'[k] = "lease_renewed"
        /\ held'[k] = Granted(held[k], rows'[k], w)
    BY <1>3 DEF heartbeat, IInv
  <2>2. OpInv(rows'[k], outbox'[k], held'[k])
    BY <1>1, <1>3, <2>1, RenewedInv DEF heartbeat
  <2> QED
    BY <1>3, <2>1, <2>2, OneKey DEF heartbeat
<1>4. ASSUME start(k, w) PROVE IInv'
  <2>1. /\ rows'[k] = Started(rows[k])
        /\ outbox' = [outbox EXCEPT ![k] = outbox[k]]
        /\ held'[k] = Granted(held[k], rows'[k], w)
    BY <1>4 DEF start, IInv
  <2>2. OpInv(rows'[k], outbox'[k], held'[k])
    BY <1>1, <1>4, <2>1, StartedInv DEF start
  <2> QED
    BY <1>4, <2>1, <2>2, OneKey DEF start
<1>5. ASSUME NEW progress \in Progress, NEW c \in Checkpoints,
             checkpoint(k, w, progress, c)
      PROVE  IInv'
  <2>1. /\ rows'[k] = Checkpointed(rows[k], progress, c)
        /\ outbox'[k] = "checkpointed"
        /\ held'[k] = Granted(held[k], rows'[k], w)
    BY <1>5 DEF checkpoint, IInv
  <2>2. c \in Checkpoint
    BY ExploredAssumption DEF Checkpoints, Checkpoint
  <2>3. OpInv(rows'[k], outbox'[k], held'[k])
    BY <1>1, <1>5, <2>1, <2>2, CheckpointedInv DEF checkpoint
  <2> QED
    BY <1>5, <2>1, <2>3, OneKey DEF checkpoint
<1>6. ASSUME NEW output \in Outputs, complete(k, w, output) PROVE IInv'
  <2>1. /\ rows'[k] = Completed(rows[k], output)
        /\ outbox'[k] = "succeeded"
        /\ held'[k] = Granted(held[k], rows'[k], w)
    BY <1>6 DEF complete, IInv
  <2>2. OpInv(rows'[k], outbox'[k], held'[k])
    BY <1>1, <1>6, <2>1, CompletedInv DEF complete
  <2> QED
    BY <1>6, <2>1, <2>2, OneKey DEF complete
<1>7. ASSUME NEW retryable \in BOOLEAN, fail(k, w, retryable) PROVE IInv'
  <2>1. /\ rows'[k] = Failed(rows[k], retryable)
        /\ outbox'[k] = "failed"
        /\ held'[k] = Granted(held[k], rows'[k], w)
    BY <1>7 DEF fail, IInv
  <2>2. OpInv(rows'[k], outbox'[k], held'[k])
    BY <1>1, <1>7, <2>1, FailedInv DEF fail
  <2> QED
    BY <1>7, <2>1, <2>2, OneKey DEF fail
<1> QED
  BY <1>2, <1>3, <1>4, <1>5, <1>6, <1>7 DEF WorkerCall

LEMMA StepInv == IInv /\ [Next]_vars => IInv'
<1> SUFFICES ASSUME IInv, [Next]_vars PROVE IInv'
  OBVIOUS
<1> USE DEF Write, Emit
<1>1. ASSUME NEW k \in Keys, NEW i \in Inputs, create(k, i) PROVE IInv'
  <2>1. /\ rows'[k] = Created(i)
        /\ outbox'[k] = "created"
        /\ held' = [held EXCEPT ![k] = held[k]]
    BY <1>1 DEF create, IInv
  <2>2. OpInv(rows'[k], outbox'[k], held'[k])
    BY <1>1, <2>1, CreatedInv DEF create, IInv
  <2> QED
    BY <1>1, <2>1, <2>2, OneKey DEF create
<1>2. ASSUME NEW k \in Keys, request_cancel(k) PROVE IInv'
  <2>1. /\ rows'[k] = CancelRequested(rows[k])
        /\ outbox'[k] = "cancel_requested"
        /\ held' = [held EXCEPT ![k] = held[k]]
    BY <1>2 DEF request_cancel, IInv
  <2>2. OpInv(rows'[k], outbox'[k], held'[k])
    BY <1>2, <2>1, CancelRequestedInv DEF request_cancel, IInv
  <2> QED
    BY <1>2, <2>1, <2>2, OneKey DEF request_cancel
<1>3. ASSUME NEW k \in Keys, NEW w \in Workers, WorkerCall(k, w) PROVE IInv'
  BY <1>3, WorkerCallInv
<1>4. CASE reconcile_expired_leases
  <2>1. ASSUME NEW k \in Keys PROVE OpInv(rows'[k], outbox'[k], held'[k])
    <3>1. OpInv(rows[k], outbox[k], held[k]) /\ held'[k] = held[k]
      BY <1>4 DEF IInv, reconcile_expired_leases
    <3>2. CASE Reconcilable(rows[k])
      <4>1. /\ rows'[k] = Reconciled(rows[k])
            /\ outbox'[k] = IF ReleaseIsSafe(rows[k])
                            THEN "lease_released" ELSE "quarantined"
        BY <1>4, <3>2 DEF reconcile_expired_leases
      <4> QED
        BY <3>1, <3>2, <4>1, ReconciledInv
    <3>3. CASE ~ Reconcilable(rows[k])
      <4>1. rows'[k] = rows[k] /\ outbox'[k] = outbox[k]
        BY <1>4, <3>3 DEF reconcile_expired_leases
      <4> QED
        BY <3>1, <4>1
    <3> QED
      BY <3>2, <3>3
  <2> QED
    BY <1>4, <2>1 DEF IInv, reconcile_expired_leases
<1>5. CASE Tick
  <2>1. ASSUME NEW k \in Keys PROVE OpInv(rows'[k], outbox'[k], held'[k])
    <3>1. /\ rows'[k] = Aged(rows[k]) /\ outbox'[k] = outbox[k]
          /\ held'[k] = [w \in Workers |-> IF held[k][w] = 0
                                           THEN 0 ELSE held[k][w] - 1]
      BY <1>5 DEF Tick
    <3>2. OpInv(rows[k], outbox[k], held[k])
      BY DEF IInv
    <3> QED
      BY <3>1, <3>2, AgedInv
  <2> QED
    BY <1>5, <2>1 DEF IInv, Tick
<1>6. CASE UNCHANGED vars
  BY <1>6 DEF IInv, vars
<1> QED
  BY <1>1, <1>2, <1>3, <1>4, <1>5, <1>6 DEF Next, ClientCall

(***************************************************************************)
(* The invariant holds in every reachable state.                           *)
(***************************************************************************)
THEOREM Invariance == Spec => []IInv
  BY InitInv, StepInv, PTL DEF Spec

(***************************************************************************)
(* Type correctness, the lease invariants and the agreement of the outbox  *)
(* with the row, for every number of workers, keys and attempts.           *)
(***************************************************************************)
THEOREM TypeCorrect == Spec => []TypeOK
<1>1. IInv => TypeOK
  BY DEF IInv, OpInv, TypeOK
<1> QED
  BY <1>1, Invariance, PTL

THEOREM LeaseFollows == Spec => []LeaseMatchesState
<1>1. IInv => LeaseMatchesState
  BY DEF IInv, OpInv, LeaseFollowsState, LeaseMatchesState
<1> QED
  BY <1>1, Invariance, PTL

(***************************************************************************)
(* Lease exclusion: two unexpired grants on one operation are the same     *)
(* worker's, because each equals the lease of the row.                     *)
(***************************************************************************)
THEOREM Exclusion == Spec => []LeaseExclusion
<1>1. IInv => LeaseExclusion
  <2> SUFFICES ASSUME IInv, NEW k \in Keys, NEW v \in Workers, NEW w \in Workers,
                      held[k][v] > 0, held[k][w] > 0
               PROVE  v = w
    BY DEF LeaseExclusion
  <2>1. GrantIsLease(rows[k], held[k])
    BY DEF IInv, OpInv
  <2> QED
    BY <2>1 DEF GrantIsLease
<1> QED
  BY <1>1, Invariance, PTL

(***************************************************************************)
(* Queued work that was attempted before has a safe checkpoint.            *)
(***************************************************************************)
THEOREM RequeueIsSafe == Spec => []RequeuedOnlyIfSafe
<1>1. IInv => RequeuedOnlyIfSafe
  BY DEF IInv, OpInv, RequeuedOnlyIfSafe
<1> QED
  BY <1>1, Invariance, PTL

(***************************************************************************)
(* The newest outbox event of an operation tells its outcome.              *)
(***************************************************************************)
THEOREM OutboxAgrees == Spec => []OutboxTellsOutcome
<1>1. IInv => OutboxTellsOutcome
  BY DEF IInv, OpInv, EventTellsOutcome, OutboxTellsOutcome
<1> QED
  BY <1>1, Invariance, PTL
-----------------------------------------------------------------------------
(***************************************************************************)
(* Action properties and refinement.  A step is a call on one row or a     *)
(* quiet step (clock, reconciliation) of all rows.                         *)
(***************************************************************************)
Call(r, s) ==
    \/ ~ Exists(r) /\ \E i \in Inputs : s = Created(i)
    \/ CanCancel(r) /\ s = CancelRequested(r)
    \/ \E w \in Workers, seconds \in 1 .. MaxLease :
          CanLease(r, w) /\ s = Leased(r, w, seconds)
    \/ \E w \in Workers : OwnedLease(r, w) /\
          \/ s = Started(r)
          \/ \E seconds \in 1 .. MaxLease : s = Renewed(r, seconds)
          \/ \E progress \in Progress, c \in Checkpoint :
                s = Checkpointed(r, progress, c)
          \/ \E output \in Outputs :
                ~ r.cancel_requested /\ s = Completed(r, output)
          \/ \E retryable \in BOOLEAN : s = Failed(r, retryable)

Quiet(r, s) ==
    \/ s = r
    \/ Reconcilable(r) /\ s = Reconciled(r)
    \/ s = Aged(r)

LEMMA RowStep ==
  ASSUME IInv, [Next]_vars
  PROVE  \/ \E k \in Keys : /\ rows' = [rows EXCEPT ![k] = rows'[k]]
                            /\ Call(rows[k], rows'[k])
         \/ /\ rows' = [k \in Keys |-> rows'[k]]
            /\ \A k \in Keys : Quiet(rows[k], rows'[k])
<1> USE DEF Write
<1>0. DOMAIN rows = Keys /\ rows = [q \in Keys |-> rows[q]]
  BY DEF IInv
<1>1. ASSUME NEW k \in Keys, ClientCall(k)
      PROVE  rows' = [rows EXCEPT ![k] = rows'[k]] /\ Call(rows[k], rows'[k])
  BY <1>0, <1>1 DEF ClientCall, create, request_cancel, Call
<1>2. ASSUME NEW k \in Keys, NEW w \in Workers, WorkerCall(k, w)
      PROVE  rows' = [rows EXCEPT ![k] = rows'[k]] /\ Call(rows[k], rows'[k])
  <2>1. Checkpoints \subseteq Checkpoint
    BY ExploredAssumption DEF Checkpoints, Checkpoint
  <2>2. CASE \E seconds \in 1 .. MaxLease :
               lease(k, w, seconds) \/ heartbeat(k, w, seconds)
    BY <1>0, <2>2 DEF lease, heartbeat, Call
  <2>3. CASE start(k, w)
    BY <1>0, <2>3 DEF start, Call
  <2>4. CASE \E progress \in Progress, c \in Checkpoints :
               checkpoint(k, w, progress, c)
    BY <1>0, <2>1, <2>4 DEF checkpoint, Call
  <2>5. CASE \E output \in Outputs : complete(k, w, output)
    BY <1>0, <2>5 DEF complete, Call
  <2>6. CASE \E retryable \in BOOLEAN : fail(k, w, retryable)
    BY <1>0, <2>6 DEF fail, Call
  <2> QED
    BY <1>2, <2>2, <2>3, <2>4, <2>5, <2>6 DEF WorkerCall
<1>3. CASE reconcile_expired_leases
  <2>1. rows' = [k \in Keys |-> IF Reconcilable(rows[k])
                                THEN Reconciled(rows[k]) ELSE rows[k]]
    BY <1>3 DEF reconcile_expired_leases
  <2>2. rows' = [k \in Keys |-> rows'[k]]
    BY <2>1
  <2>3. \A k \in Keys : Quiet(rows[k], rows'[k])
    BY <2>1 DEF Quiet
  <2> QED
    BY <2>2, <2>3
<1>4. CASE Tick
  BY <1>4 DEF Tick, Quiet
<1>5. CASE UNCHANGED vars
  <2>1. rows' = rows
    BY <1>5 DEF vars
  <2>2. \A k \in Keys : Quiet(rows[k], rows'[k])
    BY <2>1 DEF Quiet
  <2> QED
    BY <1>0, <2>1, <2>2
<1> QED
  BY <1>1, <1>2, <1>3, <1>4, <1>5 DEF Next

(***************************************************************************)
(* What a call or a quiet step does to one row.                            *)
(***************************************************************************)
Frozen(r, s) ==
    r.cancel_requested =>
        /\ s.cancel_requested
        /\ s.progress = r.progress
        /\ s.checkpoint = r.checkpoint
        /\ s.output = r.output

Detained(r, s) ==
    r.state = "quarantined" =>
        /\ s.state \in {"quarantined", "cancel_requested"}
        /\ s.lease_owner = None

JobStep(r, s) ==
    \/ JobStatus(s) = JobStatus(r) /\ s.output = r.output
    \/ JobStatus(r) = "unknown" /\ JobStatus(s) = "open" /\ s.output = r.output
    \/ JobStatus(r) = "open" /\ JobStatus(s) = "delivered" /\ s.output \in Outputs
    \/ JobStatus(r) = "open" /\ JobStatus(s) = "cancelling" /\ s.output = r.output
    \/ JobStatus(r) = "cancelling" /\ JobStatus(s) = "stopped" /\ s.output = r.output

LEMMA QuietStep ==
  ASSUME NEW r, NEW e, NEW h, OpInv(r, e, h), NEW s, Quiet(r, s)
  PROVE  /\ Frozen(r, s) /\ Detained(r, s)
         /\ JobStatus(s) = JobStatus(r) /\ s.output = r.output
<1>1. r \in OperationRow /\ LeaseFollowsState(r)
  BY DEF OpInv
<1>2. CASE s = r
  BY <1>1, <1>2 DEF Frozen, Detained, LeaseFollowsState
<1>3. CASE Reconcilable(r) /\ s = Reconciled(r)
  <2>1. /\ s.state \in {"pending", "quarantined"} /\ s.output = r.output
        /\ s.cancel_requested = r.cancel_requested /\ s.progress = r.progress
        /\ s.checkpoint = r.checkpoint
    BY <1>1, <1>3 DEF Reconciled, Released, OperationRow
  <2>2. r.state \in {"leased", "running"}
    BY <1>3 DEF Reconcilable
  <2> QED
    BY <2>1, <2>2 DEF Frozen, Detained, JobStatus
<1>4. CASE s = Aged(r)
  <2>1. /\ s.state = r.state /\ s.output = r.output
        /\ s.lease_owner = r.lease_owner
        /\ s.cancel_requested = r.cancel_requested /\ s.progress = r.progress
        /\ s.checkpoint = r.checkpoint
    BY <1>1, <1>4 DEF Aged, OperationRow
  <2> QED
    BY <1>1, <2>1 DEF Frozen, Detained, JobStatus, LeaseFollowsState
<1> QED
  BY <1>2, <1>3, <1>4 DEF Quiet

LEMMA CallStep ==
  ASSUME NEW r, NEW e, NEW h, OpInv(r, e, h), NEW s, Call(r, s)
  PROVE  Frozen(r, s) /\ Detained(r, s) /\ JobStep(r, s)
<1>1. /\ r \in OperationRow /\ LeaseFollowsState(r)
      /\ r.state = "absent" => r.output = None /\ ~ r.cancel_requested
  BY DEF OpInv
<1> USE DEF Frozen, Detained, JobStep, JobStatus
<1>2. CASE ~ Exists(r) /\ \E i \in Inputs : s = Created(i)
  <2>1. r.state = "absent" /\ r.output = None /\ ~ r.cancel_requested
    BY <1>1, <1>2 DEF Exists
  <2>2. /\ s.state = "pending" /\ s.output = None
        /\ s.cancel_requested = FALSE
    BY <1>2 DEF Created, AbsentRow
  <2> QED
    BY <2>1, <2>2
<1>3. CASE CanCancel(r) /\ s = CancelRequested(r)
  <2>1. /\ s.state = "cancel_requested" /\ s.cancel_requested
        /\ s.progress = r.progress /\ s.checkpoint = r.checkpoint
        /\ s.output = r.output /\ s.lease_owner = r.lease_owner
    BY <1>1, <1>3 DEF CancelRequested, OperationRow
  <2> QED
    BY <1>1, <1>3, <2>1 DEF CanCancel, LeaseFollowsState
<1>4. CASE \E w \in Workers, seconds \in 1 .. MaxLease :
             CanLease(r, w) /\ s = Leased(r, w, seconds)
  <2>1. /\ s.state = "leased" /\ s.cancel_requested = r.cancel_requested
        /\ s.progress = r.progress /\ s.checkpoint = r.checkpoint
        /\ s.output = r.output
    BY <1>1, <1>4 DEF Leased, OperationRow
  <2>2. r.state \in {"pending", "leased", "running", "failed"}
    BY <1>4 DEF CanLease
  <2> QED
    BY <2>1, <2>2
<1>5. ASSUME NEW w \in Workers, OwnedLease(r, w),
             \/ s = Started(r)
             \/ \E seconds \in 1 .. MaxLease : s = Renewed(r, seconds)
             \/ \E progress \in Progress, c \in Checkpoint :
                   s = Checkpointed(r, progress, c)
             \/ \E output \in Outputs :
                   ~ r.cancel_requested /\ s = Completed(r, output)
             \/ \E retryable \in BOOLEAN : s = Failed(r, retryable)
      PROVE  Frozen(r, s) /\ Detained(r, s) /\ JobStep(r, s)
  <2>1. r.state \in {"leased", "running", "cancel_requested"}
    BY <1>5, OwnerFacts
  <2>2. CASE s = Started(r)
    BY <1>1, <2>1, <2>2 DEF Started, Released, OperationRow
  <2>3. CASE \E seconds \in 1 .. MaxLease : s = Renewed(r, seconds)
    BY <1>1, <2>1, <2>3 DEF Renewed, OperationRow
  <2>4. CASE \E progress \in Progress, c \in Checkpoint :
               s = Checkpointed(r, progress, c)
    BY <1>1, <2>1, <2>4 DEF Checkpointed, Released, OperationRow
  <2>5. CASE \E output \in Outputs :
               ~ r.cancel_requested /\ s = Completed(r, output)
    BY <1>1, <2>1, <2>5 DEF Completed, Released, OperationRow
  <2>6. CASE \E retryable \in BOOLEAN : s = Failed(r, retryable)
    BY <1>1, <2>1, <2>6 DEF Failed, Released, OperationRow
  <2> QED
    BY <1>5, <2>2, <2>3, <2>4, <2>5, <2>6
<1> QED
  BY <1>2, <1>3, <1>4, <1>5 DEF Call

(* Every row makes a permitted change at every step.                       *)
LEMMA EveryRow ==
  ASSUME IInv, [Next]_vars, NEW q \in Keys
  PROVE  Frozen(rows[q], rows'[q]) /\ Detained(rows[q], rows'[q])
<1>1. OpInv(rows[q], outbox[q], held[q])
  BY DEF IInv
<1>2. Quiet(rows[q], rows'[q]) \/ Call(rows[q], rows'[q])
  <2>1. CASE \E k \in Keys : /\ rows' = [rows EXCEPT ![k] = rows'[k]]
                            /\ Call(rows[k], rows'[k])
    <3> PICK k \in Keys : /\ rows' = [rows EXCEPT ![k] = rows'[k]]
                          /\ Call(rows[k], rows'[k])
      BY <2>1
    <3>1. q # k => rows'[q] = rows[q]
      BY DEF IInv
    <3> QED
      BY <3>1 DEF Quiet
  <2>2. CASE \A k \in Keys : Quiet(rows[k], rows'[k])
    BY <2>2
  <2> QED
    BY <2>1, <2>2, RowStep
<1> QED
  BY <1>1, <1>2, QuietStep, CallStep

(***************************************************************************)
(* An accepted cancellation freezes progress, checkpoint and output.       *)
(***************************************************************************)
THEOREM CancelFreezes == Spec => CancelFreezesEvidence
<1>1. IInv /\ [Next]_vars
        => [\A k \in Keys : rows[k].cancel_requested =>
              /\ rows'[k].cancel_requested
              /\ rows'[k].progress = rows[k].progress
              /\ rows'[k].checkpoint = rows[k].checkpoint
              /\ rows'[k].output = rows[k].output]_vars
  BY EveryRow DEF Frozen
<1> QED
  BY <1>1, Invariance, PTL DEF Spec, CancelFreezesEvidence

(***************************************************************************)
(* Quarantined work is never handed to a worker again.                     *)
(***************************************************************************)
THEOREM QuarantineDetains == Spec => QuarantineHolds
<1>1. IInv /\ [Next]_vars
        => [\A k \in Keys : rows[k].state = "quarantined"
              => /\ rows'[k].state \in {"quarantined", "cancel_requested"}
                 /\ rows'[k].lease_owner = None]_vars
  BY EveryRow DEF Detained
<1> QED
  BY <1>1, Invariance, PTL DEF Spec, QuarantineHolds

(***************************************************************************)
(* The service implements the abstract durable job.                        *)
(***************************************************************************)
THEOREM Refinement == Spec => ImplementsDurableJob
<1>1. Init => Job!Init
  BY DEF Init, Job!Init, JobStatus, AbsentRow
<1>2. ASSUME IInv, [Next]_vars PROVE [Job!Next]_Job!jobVars
  <2> DEFINE st == [k \in Keys |-> JobStatus(rows[k])]
             re == [k \in Keys |-> rows[k].output]
  <2>1. ASSUME NEW k \in Keys, rows' = [rows EXCEPT ![k] = rows'[k]],
               Call(rows[k], rows'[k])
        PROVE  [Job!Next]_Job!jobVars
    <3>1. JobStep(rows[k], rows'[k])
      BY <1>2, <2>1, CallStep DEF IInv
    <3>2. \A q \in Keys : q # k => rows'[q] = rows[q]
      BY <1>2, <2>1 DEF IInv
    <3>3. /\ st' = [st EXCEPT ![k] = JobStatus(rows'[k])]
          /\ re' = [re EXCEPT ![k] = rows'[k].output]
      BY <3>2
    <3>4. st[k] = JobStatus(rows[k]) /\ re[k] = rows[k].output
      OBVIOUS
    <3>5. rows'[k].output = rows[k].output => re' = re
      BY <3>3, <3>4
    <3>6. JobStatus(rows'[k]) = JobStatus(rows[k]) => st' = st
      BY <3>3, <3>4
    <3> HIDE DEF st, re
    <3>7. \/ st' = st /\ re' = re
          \/ /\ st[k] = "unknown" /\ re' = re
             /\ st' = [st EXCEPT ![k] = "open"]
          \/ /\ st[k] = "open" /\ rows'[k].output \in Outputs
             /\ st' = [st EXCEPT ![k] = "delivered"]
             /\ re' = [re EXCEPT ![k] = rows'[k].output]
          \/ /\ st[k] = "open" /\ re' = re
             /\ st' = [st EXCEPT ![k] = "cancelling"]
          \/ /\ st[k] = "cancelling" /\ re' = re
             /\ st' = [st EXCEPT ![k] = "stopped"]
      BY <3>1, <3>3, <3>4, <3>5, <3>6 DEF JobStep
    <3>8. st' = st /\ re' = re => UNCHANGED Job!jobVars
      BY DEF st, re, Job!jobVars
    <3>9. /\ st[k] = "unknown" /\ re' = re /\ st' = [st EXCEPT ![k] = "open"]
             => Job!Submit(k)
          /\ st[k] = "open" /\ re' = re /\ st' = [st EXCEPT ![k] = "cancelling"]
             => Job!AcceptCancel(k)
          /\ st[k] = "cancelling" /\ re' = re /\ st' = [st EXCEPT ![k] = "stopped"]
             => Job!Stop(k)
          /\ \A r \in Outputs :
               st[k] = "open" /\ st' = [st EXCEPT ![k] = "delivered"]
                              /\ re' = [re EXCEPT ![k] = r]
               => Job!Deliver(k, r)
      BY DEF st, re, Job!Submit, Job!AcceptCancel, Job!Stop, Job!Deliver
    <3> QED
      BY <3>7, <3>8, <3>9 DEF Job!Next
  <2>2. ASSUME \A k \in Keys : Quiet(rows[k], rows'[k])
        PROVE  [Job!Next]_Job!jobVars
    <3>1. \A k \in Keys : /\ JobStatus(rows'[k]) = JobStatus(rows[k])
                          /\ rows'[k].output = rows[k].output
      BY <1>2, <2>2, QuietStep DEF IInv
    <3>2. st' = st /\ re' = re
      BY <3>1
    <3> QED
      BY <3>2 DEF Job!jobVars
  <2> QED
    BY <1>2, <2>1, <2>2, RowStep
<1> QED
  BY <1>1, <1>2, Invariance, PTL DEF Spec, ImplementsDurableJob, Job!Spec
=============================================================================
