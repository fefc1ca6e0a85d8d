------------------------- MODULE OperationSessions -------------------------
(***************************************************************************)
(* OperationService at the granularity of database sessions.  Every method *)
(* runs in Database.session() (src/sip/database.py): it reads the row,     *)
(* decides, and commits when the block ends.  The engine is created with   *)
(* the default isolation level and, unlike scene commits, operations take  *)
(* no row lock (no with_for_update), so between the read and the commit    *)
(* any other session may commit.  The UPDATE that SQLAlchemy emits names   *)
(* only the columns whose value differs from the one that was read; the    *)
(* INSERT of create is refused by uq_operation_idempotency when the key    *)
(* exists.                                                                 *)
(*                                                                         *)
(* One operation is modelled.  A worker process and a client each run one  *)
(* session at a time.  Time is relative, as in OperationRow, and passes    *)
(* for pending writes too.                                                 *)
(***************************************************************************)
EXTENDS OperationRow

CONSTANTS Clients,       \* API callers that create and cancel
          MaxSequence,   \* bound on the checkpoint sequences submitted
          AttemptBound   \* bound on the attempts explored

VARIABLES row,     \* the committed row
          pending  \* for each process the columns its open session will write

vars == <<row, pending>>

Processes == Workers \cup Clients

Columns == DOMAIN AbsentRow

(* No session is open, or the open one has nothing to write.               *)
NoWrites == [c \in {} |-> None]

Checkpoints == [sequence : 0 .. MaxSequence, safe_to_resume : BOOLEAN]

Init ==
    /\ row = AbsentRow
    /\ pending = [p \in Processes |-> NoWrites]

(* Deviation: the UPDATE writes every column that may change back.         *)
Changed_all(new) ==
    [c \in IF Exists(row) THEN Columns \ {"input"} ELSE Columns |-> new[c]]

(* The changed columns of a unit of work that read row and leaves new.     *)
Changed(new) ==
    LET changed == {c \in Columns : new[c] # row[c]}
    IN  [c \in changed |-> new[c]]

Begin(p, new) ==
    /\ pending[p] = NoWrites
    /\ pending' = [pending EXCEPT ![p] = Changed(new)]
    /\ UNCHANGED row

begin_create(p, i) == ~ Exists(row) /\ Begin(p, Created(i))

begin_cancel(p) == CanCancel(row) /\ Begin(p, CancelRequested(row))

begin_lease(w, seconds) ==
    /\ CanLease(row, w)
    /\ row.attempt < AttemptBound
    /\ Begin(w, Leased(row, w, seconds))

begin_start(w) == OwnedLease(row, w) /\ Begin(w, Started(row))

begin_heartbeat(w, seconds) ==
    OwnedLease(row, w) /\ Begin(w, Renewed(row, seconds))

begin_checkpoint(w, progress, c) ==
    /\ OwnedLease(row, w)
    /\ CanCheckpoint(row, progress, c)
    /\ Begin(w, Checkpointed(row, progress, c))

begin_complete(w, output) ==
    /\ OwnedLease(row, w)
    /\ ~ row.cancel_requested
    /\ Begin(w, Completed(row, output))

begin_fail(w, retryable) ==
    OwnedLease(row, w) /\ Begin(w, Failed(row, retryable))

begin_reconcile(w) == Reconcilable(row) /\ Begin(w, Reconciled(row))

(* The column "input" is written by an INSERT only.                        *)
Inserts(p) == "input" \in DOMAIN pending[p]

(* Deviation: no unique constraint refuses a second INSERT.                *)
commit_unchecked(p) ==
    /\ pending[p] # NoWrites
    /\ row' = [c \in Columns |-> IF c \in DOMAIN pending[p]
                                 THEN pending[p][c] ELSE row[c]]
    /\ pending' = [pending EXCEPT ![p] = NoWrites]

commit(p) ==
    /\ pending[p] # NoWrites
    /\ ~ (Inserts(p) /\ Exists(row))
    /\ row' = [c \in Columns |-> IF c \in DOMAIN pending[p]
                                 THEN pending[p][c] ELSE row[c]]
    /\ pending' = [pending EXCEPT ![p] = NoWrites]

(* The session ends without effect: IntegrityError on the INSERT of a key  *)
(* another session created first, a lost connection or a killed process.   *)
rollback(p) ==
    /\ pending[p] # NoWrites
    /\ pending' = [pending EXCEPT ![p] = NoWrites]
    /\ UNCHANGED row

AgedColumn(left) == IF left \in {None, 0} THEN left ELSE left - 1

Tick ==
    /\ row.lease_left \notin {None, 0}
    /\ row' = Aged(row)
    /\ pending' = [p \in Processes |->
                    [c \in DOMAIN pending[p] |->
                        IF c = "lease_left" THEN AgedColumn(pending[p][c])
                        ELSE pending[p][c]]]

WorkerSession(w) ==
    \/ \E seconds \in 1 .. MaxLease :
          begin_lease(w, seconds) \/ begin_heartbeat(w, seconds)
    \/ begin_start(w)
    \/ \E progress \in Progress, c \in Checkpoints :
          begin_checkpoint(w, progress, c)
    \/ \E output \in Outputs : begin_complete(w, output)
    \/ \E retryable \in BOOLEAN : begin_fail(w, retryable)
    \/ begin_reconcile(w)

ClientSession(p) == (\E i \in Inputs : begin_create(p, i)) \/ begin_cancel(p)

Next ==
    \/ \E w \in Workers : WorkerSession(w)
    \/ \E p \in Clients : ClientSession(p)
    \/ \E p \in Processes : commit(p) \/ rollback(p)
    \/ Tick

Spec == Init /\ [][Next]_vars
-----------------------------------------------------------------------------
TypeOK ==
    /\ row \in OperationRow
    /\ \A p \in Processes : DOMAIN pending[p] \subseteq Columns

(***************************************************************************)
(* A committed cancellation request survives every session that read the   *)
(* row before it: their commits do not write the column back to false.     *)
(***************************************************************************)
CancelRequestSurvives ==
    [][row.cancel_requested => row'.cancel_requested]_vars

(***************************************************************************)
(* A committed output is never erased by a session that read the row       *)
(* before the operation completed.                                         *)
(***************************************************************************)
OutputSurvives == [][row.output # None => row'.output # None]_vars

(***************************************************************************)
(* One creation wins: of concurrent create calls with different inputs     *)
(* that all found no row, one inserts and its input is the operation's.    *)
(***************************************************************************)
CreatedOnce == [][row.input # None => row'.input = row.input]_vars

(***************************************************************************)
(* "cancelled operation cannot publish output": complete refuses when the  *)
(* row it read is being cancelled.                                         *)
(***************************************************************************)
CancelledNeverPublishes ==
    ~ (row.state = "succeeded" /\ row.cancel_requested)
=============================================================================
