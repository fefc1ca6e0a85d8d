----------------------------- MODULE Lifecycle -----------------------------
(***************************************************************************)
(* Governed deletion (src/sip/lifecycle.py): legal holds, retention rules, *)
(* local backups and their restore rehearsal, and the deletion workflow    *)
(* plan, request, approve, execute, which ends in AssetService.tombstone   *)
(* (src/sip/assets.py).  Every transaction, file-store access and copy is  *)
(* one step; the methods that consist of several are run by processes and  *)
(* interleave.                                                             *)
(*                                                                         *)
(* The other caller of tombstone(), the purge of recovery.py, is not part  *)
(* of this module.                                                         *)
(*                                                                         *)
(* The assets of one project that share one content object are modelled;   *)
(* the tables that may refer to an asset are abstracted to the number of   *)
(* records that do, ages to days, and the hash of a plan to the plan.      *)
(***************************************************************************)
EXTENDS Naturals, FiniteSets

CONSTANTS Processes,   \* calls under way at the same time
          Assets,      \* asset ids
          Project,     \* the project, as a resource a hold can name
          Actors,      \* requesters and approvers
          Backups,     \* identifiers of backup runs
          Requests,    \* identifiers of deletion requests
          None,        \* a NULL column
          MaxDays,     \* bound on the age of an asset and on minimum_days
          MaxRules,    \* bound on the versions of the retention rule
          MaxRecords,  \* bound on the records that refer to an asset
          MaxCrashes   \* bound on the calls that die half-way

ASSUME LifecycleAssumption ==
    /\ Project \notin Assets
    /\ None \notin Assets \cup Actors \cup Backups \cup Requests
    /\ {MaxDays, MaxRules, MaxRecords, MaxCrashes} \subseteq Nat

VARIABLES stored,      \* the content object is in the store
          object,      \* it has a row in assets
          refs,        \* asset_refs: state of each asset
          age,         \* days since each reference was created
          legal_hold,  \* asset_refs: those whose legal_hold is set
          holds,       \* resources with an active legal_holds row
          rule,        \* the retention rule in force
          records,     \* records that refer to each asset
          backups,     \* backup_runs with the contents of their copies
          requests,    \* deletion_requests
          evidence,    \* deletion_evidence: actions recorded per request
          pc, call,    \* the calls under way
          crashes      \* calls that died

data == <<stored, object, refs, age, legal_hold>>
policy == <<holds, rule, records>>
calls == <<pc, call, crashes>>
vars == <<data, policy, backups, requests, evidence, calls>>

Rules == [version : 0 .. MaxRules, minimum_days : 0 .. MaxDays]

NoCall == [asset |-> None, request |-> None, backup |-> None, actor |-> None,
           plan |-> None, removes |-> FALSE]

NoBackup == [state |-> "none", object |-> FALSE, stored |-> FALSE, busy |-> FALSE]

NoRequest == [state |-> "none", asset |-> None, plan |-> None, backup |-> None,
              requested_by |-> None, approved_by |-> None]

Init ==
    /\ stored = FALSE
    /\ object = FALSE
    /\ refs = [a \in Assets |-> "absent"]
    /\ age = [a \in Assets |-> 0]
    /\ legal_hold = {}
    /\ holds = {}
    /\ rule = [version |-> 0, minimum_days |-> 0]
    /\ records = [a \in Assets |-> 0]
    /\ backups = [b \in Backups |-> NoBackup]
    /\ requests = [d \in Requests |-> NoRequest]
    /\ evidence = [d \in Requests |-> {}]
    /\ pc = [p \in Processes |-> "idle"]
    /\ call = [p \in Processes |-> NoCall]
    /\ crashes = 0

Begin(p, label, locals) ==
    /\ pc[p] = "idle"
    /\ pc' = [pc EXCEPT ![p] = label]
    /\ call' = [call EXCEPT ![p] = locals]
    /\ UNCHANGED crashes

Goto(p, label) == pc' = [pc EXCEPT ![p] = label] /\ UNCHANGED <<call, crashes>>

(* The call returns or raises.                                             *)
Leave(p) ==
    /\ pc' = [pc EXCEPT ![p] = "idle"]
    /\ call' = [call EXCEPT ![p] = NoCall]
    /\ UNCHANGED crashes

OtherActive(a) == Cardinality({b \in Assets \ {a} : refs[b] = "active"})
-----------------------------------------------------------------------------
(* Deviation: the object is not read back, and a failed write goes         *)
(* unnoticed.                                                              *)
ingest_bytes_unverified(p, a) ==
    /\ refs[a] = "absent"
    /\ \A q \in Processes : call[q].asset # a
    /\ Begin(p, "register", [NoCall EXCEPT !.asset = a])
    /\ stored' \in {stored, TRUE}
    /\ UNCHANGED <<object, refs, age, legal_hold, policy, backups, requests, evidence>>

(* ingest_bytes stores and verifies the bytes, then registers them.        *)
ingest_bytes(p, a) ==
    /\ refs[a] = "absent"
    /\ \A q \in Processes : call[q].asset # a
    /\ Begin(p, "register", [NoCall EXCEPT !.asset = a])
    /\ stored' = TRUE
    /\ UNCHANGED <<object, refs, age, legal_hold, policy, backups, requests, evidence>>

register(p) ==
    /\ pc[p] = "register"
    /\ object' = TRUE
    /\ refs' = [refs EXCEPT ![call[p].asset] = "active"]
    /\ Leave(p)
    /\ UNCHANGED <<stored, age, legal_hold, policy, backups, requests, evidence>>

(* Deviation: the flag is set whatever the type of the resource.           *)
place_hold_any(r) ==
    /\ r \notin holds
    /\ r \in Assets => refs[r] # "absent"
    /\ holds' = holds \cup {r}
    /\ legal_hold' = legal_hold \cup {r}
    /\ UNCHANGED <<stored, object, refs, age, rule, records, backups,
                   requests, evidence, calls>>

place_hold(r) ==
    /\ r \notin holds
    /\ r \in Assets => refs[r] # "absent"
    /\ holds' = holds \cup {r}
    /\ legal_hold' = legal_hold \cup ({r} \cap Assets)
    /\ UNCHANGED <<stored, object, refs, age, rule, records, backups,
                   requests, evidence, calls>>

release_hold(r) ==
    /\ r \in holds
    /\ holds' = holds \ {r}
    /\ legal_hold' = legal_hold \ {r}
    /\ UNCHANGED <<stored, object, refs, age, rule, records, backups,
                   requests, evidence, calls>>

(* create_candidate marks an output whose sources are held.                *)
inherit_hold(a) ==
    /\ refs[a] # "absent"
    /\ legal_hold' = legal_hold \cup {a}
    /\ UNCHANGED <<stored, object, refs, age, policy, backups, requests, evidence, calls>>

set_retention_rule(days) ==
    /\ rule.version < MaxRules
    /\ rule' = [version |-> rule.version + 1, minimum_days |-> days]
    /\ UNCHANGED <<data, holds, records, backups, requests, evidence, calls>>

(* Any service that stores a record naming the asset.                      *)
record(a) ==
    /\ refs[a] = "active"
    /\ records[a] < MaxRecords
    /\ records' = [records EXCEPT ![a] = @ + 1]
    /\ UNCHANGED <<data, holds, rule, backups, requests, evidence, calls>>

(* A day passes.                                                           *)
new_day ==
    /\ \A a \in Assets : age[a] < MaxDays
    /\ age' = [a \in Assets |-> IF refs[a] = "absent" THEN 0 ELSE age[a] + 1]
    /\ UNCHANGED <<stored, object, refs, legal_hold, policy, backups, requests,
                   evidence, calls>>
-----------------------------------------------------------------------------
(* backup_local copies the database, then the object store; the backup_runs *)
(* row is added after both.  busy: some operation is leased or running.     *)
create_local_backup(p, b, busy) ==
    /\ backups[b].state = "none"
    /\ \A q \in Processes : call[q].backup # b
    /\ Begin(p, "copy_store", [NoCall EXCEPT !.backup = b])
    /\ backups' = [backups EXCEPT ![b].object = object, ![b].busy = busy]
    /\ UNCHANGED <<data, policy, requests, evidence>>

copy_store(p) ==
    /\ pc[p] = "copy_store"
    /\ backups' = [backups EXCEPT ![call[p].backup].stored = stored,
                                  ![call[p].backup].state = "created"]
    /\ Leave(p)
    /\ UNCHANGED <<data, policy, requests, evidence>>

Restorable(b) == backups[b].object => backups[b].stored

(* verify_and_rehearse reads every object that has a row in the copy.      *)
verify_and_rehearse(b) ==
    /\ backups[b].state # "none"
    /\ Restorable(b)
    /\ backups' = [backups EXCEPT ![b].state =
           IF backups[b].busy THEN "verified_reconciliation_required" ELSE "verified"]
    /\ UNCHANGED <<data, policy, requests, evidence, calls>>
-----------------------------------------------------------------------------
Blockers(a) ==
    (IF a \in legal_hold \/ {a, Project} \cap holds # {}
     THEN {"legal_hold_active"} ELSE {})
    \cup (IF age[a] < rule.minimum_days THEN {"minimum_retention_not_met"} ELSE {})
    \cup (IF refs[a] = "tombstoned" THEN {"already_tombstoned"} ELSE {})

(* plan_asset_deletion: the snapshot that is hashed.                       *)
plan_asset_deletion(a) ==
    [dependencies |-> records[a],
     other_active_references |-> OtherActive(a),
     legal_holds |-> {a, Project} \cap holds,
     retention_rule |-> rule,
     age_days |-> age[a],
     blockers |-> Blockers(a)]

request_asset_deletion(p, d, a, b, actor) ==
    /\ requests[d].state = "none"
    /\ \A q \in Processes : call[q].request # d
    /\ refs[a] # "absent"
    /\ Blockers(a) = {}
    /\ Begin(p, "request", [NoCall EXCEPT !.asset = a, !.request = d, !.backup = b,
                               !.actor = actor, !.plan = plan_asset_deletion(a)])
    /\ UNCHANGED <<data, policy, backups, requests, evidence>>

(* The second transaction; the plan is the one of the first.               *)
add_request(p) ==
    /\ pc[p] = "request"
    /\ requests' = IF backups[call[p].backup].state # "verified" THEN requests
                   ELSE [requests EXCEPT ![call[p].request] =
                           [state |-> "awaiting_approval", asset |-> call[p].asset,
                            plan |-> call[p].plan, backup |-> call[p].backup,
                            requested_by |-> call[p].actor, approved_by |-> None]]
    /\ Leave(p)
    /\ UNCHANGED <<data, policy, backups, evidence>>

(* Deviation: the requester may approve.                                   *)
approve_deletion_alone(d, actor) ==
    /\ requests[d].state = "awaiting_approval"
    /\ requests' = [requests EXCEPT ![d].state = "approved", ![d].approved_by = actor]
    /\ UNCHANGED <<data, policy, backups, evidence, calls>>

approve_deletion(d, actor) ==
    /\ requests[d].state = "awaiting_approval"
    /\ requests[d].requested_by # actor
    /\ requests' = [requests EXCEPT ![d].state = "approved", ![d].approved_by = actor]
    /\ UNCHANGED <<data, policy, backups, evidence, calls>>

(* execute_deletion, first transaction: the request is approved.           *)
execute_deletion(p, d) ==
    /\ requests[d].state = "approved"
    /\ Begin(p, "plan", [NoCall EXCEPT !.request = d, !.asset = requests[d].asset])
    /\ UNCHANGED <<data, policy, backups, requests, evidence>>

(* Second: a new plan must equal the approved one and have no blockers.    *)
check_plan(p) ==
    LET a == call[p].asset
    IN  /\ pc[p] = "plan"
        /\ IF /\ plan_asset_deletion(a) = requests[call[p].request].plan
              /\ Blockers(a) = {}
           THEN Goto(p, "tombstone") ELSE Leave(p)
        /\ UNCHANGED <<data, policy, backups, requests, evidence>>

(* Deviation: tombstone() relies on the holds the plan has seen.           *)
tombstone_unchecked(p) ==
    LET a == call[p].asset
    IN  /\ pc[p] = "tombstone"
        /\ refs' = [refs EXCEPT ![a] = "tombstoned"]
        /\ pc' = [pc EXCEPT ![p] = IF OtherActive(a) = 0 THEN "erase" ELSE "evidence"]
        /\ call' = [call EXCEPT ![p].removes = (OtherActive(a) = 0)]
        /\ UNCHANGED <<stored, object, age, legal_hold, policy, backups, requests,
                       evidence, crashes>>

(* Third, in AssetService.tombstone: the hold is looked at again, and the  *)
(* other references are counted again.                                     *)
tombstone(p) ==
    LET a == call[p].asset
    IN  /\ pc[p] = "tombstone"
        /\ IF a \in legal_hold THEN Leave(p) /\ UNCHANGED refs
           ELSE /\ refs' = [refs EXCEPT ![a] = "tombstoned"]
                /\ pc' = [pc EXCEPT ![p] = IF OtherActive(a) = 0 THEN "erase"
                                           ELSE "evidence"]
                /\ call' = [call EXCEPT ![p].removes = (OtherActive(a) = 0)]
                /\ UNCHANGED crashes
        /\ UNCHANGED <<stored, object, age, legal_hold, policy, backups, requests,
                       evidence>>

erase(p) ==
    /\ pc[p] = "erase"
    /\ stored' = FALSE
    /\ Goto(p, "evidence")
    /\ UNCHANGED <<object, refs, age, legal_hold, policy, backups, requests, evidence>>

(* Deviation: the request is closed in a transaction without evidence.     *)
add_evidence_never(p) ==
    /\ pc[p] = "evidence"
    /\ requests' = [requests EXCEPT ![call[p].request].state = "executed"]
    /\ Leave(p)
    /\ UNCHANGED <<data, policy, backups, evidence>>

(* Fourth: evidence and the final state of the request.                    *)
add_evidence(p) ==
    LET d == call[p].request
    IN  /\ pc[p] = "evidence"
        /\ evidence' = [evidence EXCEPT ![d] = @ \cup
               {IF call[p].removes THEN "erased" ELSE "retained"}]
        /\ requests' = [requests EXCEPT ![d].state = "executed"]
        /\ Leave(p)
        /\ UNCHANGED <<data, policy, backups>>

(* The process dies or a call to the store or the database fails.          *)
crash(p) ==
    /\ pc[p] # "idle"
    /\ crashes < MaxCrashes
    /\ crashes' = crashes + 1
    /\ pc' = [pc EXCEPT ![p] = "idle"]
    /\ call' = [call EXCEPT ![p] = NoCall]
    /\ UNCHANGED <<data, policy, backups, requests, evidence>>

step(p) ==
    \/ register(p) \/ copy_store(p) \/ add_request(p) \/ check_plan(p)
    \/ tombstone(p) \/ erase(p) \/ add_evidence(p)

Administer ==
    \/ \E r \in Assets \cup {Project} : place_hold(r) \/ release_hold(r)
    \/ \E a \in Assets : inherit_hold(a) \/ record(a)
    \/ \E days \in 0 .. MaxDays : set_retention_rule(days)
    \/ \E b \in Backups : verify_and_rehearse(b)
    \/ \E d \in Requests, actor \in Actors : approve_deletion(d, actor)
    \/ new_day

Next ==
    \/ Administer
    \/ \E p \in Processes :
          \/ \E a \in Assets : ingest_bytes(p, a)
          \/ \E b \in Backups, busy \in BOOLEAN : create_local_backup(p, b, busy)
          \/ \E d \in Requests, a \in Assets, b \in Backups, actor \in Actors :
                request_asset_deletion(p, d, a, b, actor)
          \/ \E d \in Requests : execute_deletion(p, d)
          \/ step(p)
          \/ crash(p)

Spec == Init /\ [][Next]_vars
-----------------------------------------------------------------------------
TypeOK ==
    /\ {stored, object} \subseteq BOOLEAN
    /\ refs \in [Assets -> {"absent", "active", "tombstoned"}]
    /\ age \in [Assets -> 0 .. MaxDays]
    /\ legal_hold \subseteq Assets
    /\ holds \subseteq Assets \cup {Project}
    /\ rule \in Rules
    /\ records \in [Assets -> 0 .. MaxRecords]
    /\ backups \in [Backups ->
           [state : {"none", "created", "verified", "verified_reconciliation_required"},
            object : BOOLEAN, stored : BOOLEAN, busy : BOOLEAN]]
    /\ evidence \in [Requests -> SUBSET {"erased", "retained"}]
    /\ crashes \in 0 .. MaxCrashes

(***************************************************************************)
(* A held asset survives: whatever was planned, approved or under way when *)
(* a hold on the asset was placed or inherited, no step of an execution    *)
(* tombstones it.                                                          *)
(***************************************************************************)
HeldAssetsSurvive ==
    [][\A a \in (legal_hold \cup holds) \cap Assets :
          refs[a] = "active" => refs'[a] = "active"]_vars

(***************************************************************************)
(* Deletion is governed: behind every tombstoned asset there is a request  *)
(* for it that somebody other than its requester approved and that names a *)
(* backup whose restore was rehearsed with nothing left to reconcile.      *)
(***************************************************************************)
DeletionIsGoverned ==
    \A a \in Assets : refs[a] = "tombstoned" =>
        \E d \in Requests :
            /\ requests[d].asset = a
            /\ requests[d].state \in {"approved", "executed"}
            /\ requests[d].approved_by \notin {None, requests[d].requested_by}
            /\ backups[requests[d].backup].state = "verified"

(***************************************************************************)
(* A backup taken while assets are being ingested can be restored: the     *)
(* objects of its copy of the database are in its copy of the store, as    *)
(* long as nothing was ever erased.                                        *)
(***************************************************************************)
BackupIsRestorable ==
    \A b \in Backups : backups[b].state # "none" =>
        Restorable(b) \/ \E a \in Assets : refs[a] = "tombstoned"

(***************************************************************************)
(* No deletion without evidence: unless a call died on the way, a          *)
(* tombstoned asset has deletion evidence or the execution that            *)
(* tombstoned it is about to write it; and evidence is only of assets that *)
(* were tombstoned.                                                        *)
(***************************************************************************)
DeletionIsEvidenced ==
    /\ crashes = 0 => \A a \in Assets : refs[a] = "tombstoned" =>
           \/ \E d \in Requests : requests[d].asset = a /\ evidence[d] # {}
           \/ \E p \in Processes : call[p].asset = a /\ pc[p] \in {"erase", "evidence"}
    /\ \A d \in Requests : evidence[d] # {} => refs[requests[d].asset] = "tombstoned"
-----------------------------------------------------------------------------
(***************************************************************************)
(* Every backup can be rehearsed: the copies agree if they were taken with *)
(* nothing erased in between.  Refuted by a run of its own: an erased      *)
(* object keeps its row in assets, which every later rehearsal tries to    *)
(* read.                                                                   *)
(***************************************************************************)
BackupAfterErasureIsRestorable ==
    [][\A p \in Processes : pc[p] = "copy_store" /\ pc'[p] = "idle" =>
          \/ crashes' # crashes
          \/ (backups'[call[p].backup].object => backups'[call[p].backup].stored)
          \/ \E q \in Processes : pc[q] # "idle" /\ q # p]_vars
=============================================================================
