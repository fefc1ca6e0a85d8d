------------------------------- MODULE Scene -------------------------------
(***************************************************************************)
(* SceneService (src/sip/scene.py): the commits and branches of one scene, *)
(* at the granularity of database sessions.  A call reads in one step and  *)
(* writes when its session commits.  commit_in_session reads the branch    *)
(* with with_for_update, rollback_branch does not.                         *)
(*                                                                         *)
(* The two databases differ in what that means.  PostgreSQL locks the      *)
(* selected rows until the session ends, and an UPDATE waits for them.     *)
(* SQLite ignores FOR UPDATE and holds no lock between SELECTs; the first  *)
(* write of a session locks the whole file until it ends.                  *)
(*                                                                         *)
(* The semantic snapshot of a commit, its message, hashes, valid times and *)
(* the outbox and audit rows written with it appear in no property and are *)
(* left out.                                                               *)
(***************************************************************************)
EXTENDS Naturals, Sequences

CONSTANTS Callers,      \* concurrent API calls
          Branches,     \* branch names
          Main,         \* the branch create_scene makes
          FieldEvents,  \* workflow events clients commit with
          Databases,    \* the databases explored
          MaxCommits    \* bound on the commits of the scene

VARIABLES database,  \* the database deployed
          commits,   \* rows of scene_commits; the identifier is the index
          heads,     \* head_commit_id of each branch, 0 when it has no row
          calls,     \* what each open session has read, and its locks
          answers    \* history: <<event, commit>> pairs returned to callers

sceneVars == <<database, commits, heads, calls, answers>>

NoEvent == "no workflow event"

Commit(branch, parent, event, review_state) ==
    [branch |-> branch, parent |-> parent, event |-> event,
     review_state |-> review_state]

Idle == [op |-> "idle", locks |-> {}]

Init ==
    /\ database \in Databases
    /\ commits = <<Commit(Main, 0, NoEvent, "system_initialized")>>
    /\ heads = [b \in Branches |-> IF b = Main THEN 1 ELSE 0]
    /\ calls = [p \in Callers |-> Idle]
    /\ answers = {}
-----------------------------------------------------------------------------
BranchRow(b) == <<"branch", b>>

(* Deviation: the rows are selected without FOR UPDATE.                    *)
ForUpdate_none(rows) == {}

(* The locks SELECT ... FOR UPDATE takes, and those a write needs.         *)
ForUpdate(rows) == IF database = "sqlite" THEN {} ELSE rows

Writing(rows) == IF database = "sqlite" THEN {<<"file">>} ELSE rows

Free(p, locks) == \A q \in Callers \ {p} : calls[q].locks \cap locks = {}

Opens(p, session) ==
    /\ calls[p] = Idle
    /\ Free(p, session.locks)
    /\ calls' = [calls EXCEPT ![p] = session]

Ends(p) == calls' = [calls EXCEPT ![p] = Idle]

Carriers(event) == {i \in DOMAIN commits : commits[i].event = event}

(* Deviation: no unique index on the workflow event.                       *)
Unbound_always(event) == TRUE

(* uq_scene_commit_workflow_event admits a row with this event; NULLs are  *)
(* distinct.                                                               *)
Unbound(event) == event = NoEvent \/ Carriers(event) = {}

(* Deviation: the branch is moved to the identifier after the new one.     *)
Advance_beyond(p, branch, parent, event, review_state) ==
    /\ Len(commits) < MaxCommits
    /\ Free(p, Writing({BranchRow(branch)}))
    /\ Unbound(event)
    /\ commits' = Append(commits, Commit(branch, parent, event, review_state))
    /\ heads' = [heads EXCEPT ![branch] = Len(commits) + 2]

(* The INSERT of a commit and the UPDATE of its branch.                    *)
Advance(p, branch, parent, event, review_state) ==
    /\ Len(commits) < MaxCommits
    /\ Free(p, Writing({BranchRow(branch)}))
    /\ Unbound(event)
    /\ commits' = Append(commits, Commit(branch, parent, event, review_state))
    /\ heads' = [heads EXCEPT ![branch] = Len(commits) + 1]

Answered(event, commit) ==
    answers' = answers \cup {<<event, commit>> : e \in {event} \ {NoEvent}}
-----------------------------------------------------------------------------
(* commit: the caller's expected_head is compared with the locked branch.  *)
commit(p, b, event) ==
    /\ heads[b] # 0
    /\ Unbound(event)
    /\ Opens(p, [op |-> "commit", branch |-> b, head |-> heads[b],
                 event |-> event, locks |-> ForUpdate({BranchRow(b)})])
    /\ UNCHANGED <<database, commits, heads, answers>>

finish_commit(p) ==
    LET c == calls[p]
    IN  /\ c.op = "commit"
        /\ Advance(p, c.branch, c.head, c.event, "unreviewed")
        /\ Answered(c.event, Len(commits) + 1)
        /\ Ends(p)
        /\ UNCHANGED database

(* The event already has a commit of the same branch and review state.     *)
commit_replay(p, b, event) ==
    /\ calls[p] = Idle
    /\ \E i \in Carriers(event) :
          /\ commits[i].branch = b
          /\ commits[i].review_state = "unreviewed"
          /\ Answered(event, i)
    /\ UNCHANGED <<database, commits, heads, calls>>

(* The name is new, by the lookup and by uq_scene_branch.                  *)
create_branch(p, b, from) ==
    /\ calls[p] = Idle
    /\ heads[b] = 0
    /\ Free(p, Writing({BranchRow(b)}))
    /\ heads' = [heads EXCEPT ![b] = from]
    /\ UNCHANGED <<database, commits, calls, answers>>

rollback_branch(p, b, target) ==
    /\ heads[b] # 0
    /\ Opens(p, [op |-> "rollback", branch |-> b, head |-> heads[b],
                 target |-> target, locks |-> {}])
    /\ UNCHANGED <<database, commits, heads, answers>>

(* The new row copies the target's workflow event, so the unique index     *)
(* refuses it whenever the target has one.                                 *)
finish_rollback(p) ==
    LET c == calls[p]
    IN  /\ c.op = "rollback"
        /\ Advance(p, c.branch, c.head, commits[c.target].event, "rollback")
        /\ Ends(p)
        /\ UNCHANGED <<database, answers>>

(* The session is rolled back: a failed constraint, a lock timeout, a lost *)
(* connection or a killed process.                                         *)
abort(p) ==
    /\ calls[p] # Idle
    /\ Ends(p)
    /\ UNCHANGED <<database, commits, heads, answers>>

SceneCall(p) ==
    \/ \E b \in Branches :
          \/ \E event \in FieldEvents \cup {NoEvent} : commit(p, b, event)
          \/ \E event \in FieldEvents : commit_replay(p, b, event)
          \/ \E i \in DOMAIN commits :
                create_branch(p, b, i) \/ rollback_branch(p, b, i)
    \/ finish_commit(p) \/ finish_rollback(p) \/ abort(p)
-----------------------------------------------------------------------------
(***************************************************************************)
(* On PostgreSQL, a commit made by commit_in_session extends the head that *)
(* it replaces: the row lock keeps every other call, rollbacks included,   *)
(* from moving the branch between the expected_head test and the update.   *)
(***************************************************************************)
CommitExtendsHead ==
    [][\A b \in Branches :
          LET new == heads'[b]
          IN  /\ database = "postgresql"
              /\ new # heads[b] /\ heads[b] # 0
              /\ commits'[new].review_state # "rollback"
              => commits'[new].parent = heads[b]]_sceneVars

(* The commits reachable from the head of a branch.                        *)
History(b) ==
    LET line[i \in 0 .. Len(commits)] ==
            IF i = 0 THEN {} ELSE {i} \cup line[commits[i].parent]
    IN  line[heads[b]]

(***************************************************************************)
(* No call drops a commit from the history of a branch: rollback_branch    *)
(* adds a commit rather than deleting intervening history.                 *)
(***************************************************************************)
HistoryKept ==
    [][\A b \in Branches : heads[b] # 0 => heads[b] \in History(b)']_sceneVars

(***************************************************************************)
(* Every caller that is given a result for one workflow event, by a new    *)
(* commit, by the idempotent lookup or by the resolution of a lost race,   *)
(* is given the same commit.                                               *)
(***************************************************************************)
AnswersAgree ==
    \A x, y \in answers : x[1] = y[1] => x[2] = y[2]
=============================================================================
