---------------------------- MODULE AuditChain ----------------------------
(***************************************************************************)
(* The hash chain of AuditService (src/sip/audit.py) for one tenant.       *)
(* append() reads the newest record visible to the caller's session, takes *)
(* the time and a fresh uuid, and adds a record that carries the hash of   *)
(* the one it read; the record becomes visible to others when the caller's *)
(* transaction commits.  Nothing locks the tenant's chain in between.      *)
(* verify() reads the records in the order of (occurred_at, audit_id) and  *)
(* compares each previous_hash with the hash of the record before it.      *)
(*                                                                         *)
(* The hash of a record covers its uuid, so a hash is modelled by the uuid *)
(* of the record it was taken of, and 0 is the hash of nothing.  Uuids are *)
(* random: a record takes any unused one.                                  *)
(***************************************************************************)
EXTENDS Naturals, FiniteSets, FiniteSetsExt

CONSTANTS Sessions,    \* database sessions of the services that append
          MaxRecords,  \* bound on the records ever appended
          MaxTime      \* bound on the clock (microseconds in the code)

ASSUME AuditAssumption == MaxRecords \in Nat /\ MaxTime \in Nat

VARIABLES log,      \* the committed audit_events of the tenant
          pending,  \* the records each open session has added
          used,     \* uuids drawn so far
          clock,
          raced     \* history: two open sessions have appended

vars == <<log, pending, used, clock, raced>>

Ids == 1 .. MaxRecords

Record == [audit_id : Ids, occurred_at : 0 .. MaxTime, previous : 0 .. MaxRecords]

(* order_by(occurred_at, audit_id)                                         *)
Before(a, b) ==
    \/ a.occurred_at < b.occurred_at
    \/ a.occurred_at = b.occurred_at /\ a.audit_id < b.audit_id

Newest(records) == CHOOSE r \in records : \A s \in records \ {r} : Before(s, r)

(* The hash the chain continues from: of the newest record, or of nothing. *)
HeadHash(records) == IF records = {} THEN 0 ELSE Newest(records).audit_id

(* Deviation: verify() looks at the newest record only.                    *)
Valid_newest(records) ==
    records = {} \/ Newest(records).previous = HeadHash(records \ {Newest(records)})

(* Deviation: verify() skips the first record.                             *)
Valid_skipping(records) ==
    \A r \in records : LET earlier == {s \in records : Before(s, r)}
                       IN  earlier = {} \/ r.previous = HeadHash(earlier)

(* verify(): every record continues from the one sorted before it.         *)
Valid(records) ==
    \A r \in records : r.previous = HeadHash({s \in records : Before(s, r)})
-----------------------------------------------------------------------------
Init ==
    /\ log = {}
    /\ pending = [s \in Sessions |-> {}]
    /\ used = {}
    /\ clock = 0
    /\ raced = FALSE

Visible(s) == log \cup pending[s]

(* Deviation: the chain continues from the newest committed record only,   *)
(* without the records the session itself has added.                       *)
Appended_committed(s, id) ==
    [audit_id |-> id, occurred_at |-> clock, previous |-> HeadHash(log)]

(* Deviation: the time is rounded up.                                      *)
Appended_rounded(s, id) ==
    [audit_id |-> id, occurred_at |-> clock + 1, previous |-> HeadHash(Visible(s))]

Appended(s, id) ==
    [audit_id |-> id, occurred_at |-> clock, previous |-> HeadHash(Visible(s))]

(* What append() cannot see: the records of other open sessions.           *)
Races(s) == \E t \in Sessions \ {s} : pending[t] # {}

(* A record the session can see was added a query or a commit ago, so its  *)
(* time is an earlier one.                                                 *)
append(s, id) ==
    /\ id \notin used
    /\ \A r \in Visible(s) : r.occurred_at < clock
    /\ pending' = [pending EXCEPT ![s] = @ \cup {Appended(s, id)}]
    /\ used' = used \cup {id}
    /\ raced' = (raced \/ Races(s))
    /\ UNCHANGED <<log, clock>>

commit(s) ==
    /\ pending[s] # {}
    /\ log' = log \cup pending[s]
    /\ pending' = [pending EXCEPT ![s] = {}]
    /\ UNCHANGED <<used, clock, raced>>

rollback(s) ==
    /\ pending[s] # {}
    /\ pending' = [pending EXCEPT ![s] = {}]
    /\ UNCHANGED <<log, used, clock, raced>>

Tick ==
    /\ clock < MaxTime
    /\ clock' = clock + 1
    /\ UNCHANGED <<log, pending, used, raced>>

Next ==
    \/ \E s \in Sessions : (\E id \in Ids : append(s, id)) \/ commit(s) \/ rollback(s)
    \/ Tick

Spec == Init /\ [][Next]_vars
-----------------------------------------------------------------------------
TypeOK ==
    /\ log \subseteq Record
    /\ pending \in [Sessions -> SUBSET Record]
    /\ used \subseteq Ids
    /\ clock \in 0 .. MaxTime
    /\ raced \in BOOLEAN

(***************************************************************************)
(* As long as the transactions that append do not overlap, the chain       *)
(* verifies after every commit and every rollback, also when one of them   *)
(* appends several records.                                                *)
(***************************************************************************)
SerialChainVerifies == ~ raced => Valid(log)

(***************************************************************************)
(* A lost record is noticed: verify() of a chain that was valid fails when *)
(* any record but the newest is missing from it.                           *)
(***************************************************************************)
LossIsDetected ==
    Valid(log) => \A r \in log : r # Newest(log) => ~ Valid(log \ {r})

(***************************************************************************)
(* A chain that once failed to verify never verifies again: no later       *)
(* append or late commit hides the break.                                  *)
(***************************************************************************)
BreakIsPermanent == [][~ Valid(log) => ~ Valid(log')]_vars
=============================================================================
