---------------------------- MODULE ChangeReview ----------------------------
(***************************************************************************)
(* SceneRuntimeService (src/sip/scene_runtime.py): temporal comparisons of *)
(* scene commits, the review of their change candidates, and the           *)
(* application of the accepted changes to a branch in one transaction with *)
(* the scene commit.  The workflow event of an application is its          *)
(* comparison.                                                             *)
(*                                                                         *)
(* Evidence, hashes, metrics and the contracts that validate them are left *)
(* out; a request that fails validation has no effect.  A review reads,    *)
(* then flushes its rows before it asks which candidates remain, then      *)
(* commits: on PostgreSQL the question does not see the uncommitted        *)
(* reviews of other sessions.                                              *)
(***************************************************************************)
EXTENDS Scene, FiniteSets

CONSTANTS Comparisons,   \* temporal comparisons (idempotency keys)
          Candidates,    \* change candidates of a comparison
          Actors,        \* people who request comparisons and review
          ReviewKeys,    \* idempotency keys of reviews
          Outcomes       \* the review outcomes explored

VARIABLES comparisons,  \* each comparison and the state of its candidates
          reviews,      \* rows of change_reviews
          events        \* rows of semantic_change_events

changeVars == <<comparisons, reviews, events>>

vars == <<sceneVars, changeVars>>

ASSUME OutcomesAssumption ==
    Outcomes \subseteq {"accepted", "rejected", "disputed"}

ComparisonStates == {"absent", "pending_review", "reviewed", "applied"}

CandidateStates == {"active", "suppressed"} \cup Outcomes

NoActor == "nobody"

Absent == [state |-> "absent", created_by |-> NoActor,
           candidates |-> [k \in Candidates |-> "suppressed"]]

ChangeInit ==
    /\ Init
    /\ comparisons = [c \in Comparisons |-> Absent]
    /\ reviews = {}
    /\ events = {}
-----------------------------------------------------------------------------
ComparisonRow(c) == <<"comparison", c>>

CandidateRow(c, k) == <<"candidate", c, k>>

(* The KEY SHARE lock a row of p that references the comparison holds on   *)
(* it: shared among sessions, exclusive of FOR UPDATE.                     *)
KeyShare(c, p) == <<"key share", c, p>>

ReviewKey(reviewer, key) == <<"review", reviewer, key>>

ApplyLocks(c, b) ==
    {BranchRow(b), ComparisonRow(c)} \cup {KeyShare(c, q) : q \in Callers}

EventsOf(c) == {e \in events : e.comparison = c}

ActiveCandidates(c) ==
    {k \in Candidates : comparisons[c].candidates[k] = "active"}
-----------------------------------------------------------------------------
(* _normalize_candidate suppresses nuisance and unobserved differences;    *)
(* the others are active.                                                  *)
create_temporal_comparison(p, c, actor, active) ==
    /\ calls[p] = Idle
    /\ comparisons[c] = Absent
    /\ Len(commits) >= 2
    /\ Free(p, Writing({ComparisonRow(c)}))
    /\ comparisons' = [comparisons EXCEPT ![c] =
          [state |-> "pending_review", created_by |-> actor,
           candidates |-> [k \in Candidates |->
              IF k \in active THEN "active" ELSE "suppressed"]]]
    /\ UNCHANGED <<sceneVars, reviews, events>>

Reviewable(c, k, reviewer) ==
    /\ k \in ActiveCandidates(c)
    /\ reviewer # comparisons[c].created_by

(* A key that has a review returns it, or is refused for other content.    *)
review_change_candidate(p, c, k, reviewer, key, outcome) ==
    /\ \A r \in reviews : <<r.reviewer, r.key>> # <<reviewer, key>>
    /\ Reviewable(c, k, reviewer)
    /\ Opens(p, [op |-> "review", comparison |-> c,
                 state |-> comparisons[c].state,
                 row |-> [candidate |-> k, comparison |-> c, key |-> key,
                          reviewer |-> reviewer, outcome |-> outcome],
                 locks |-> {}])
    /\ UNCHANGED <<database, commits, heads, answers, changeVars>>

(* Deviation: the candidate under review is not left out of the question.  *)
NoneRemain_itself(c, k) == ActiveCandidates(c) = {}

(* No other candidate is active, in what other sessions have committed.    *)
NoneRemain(c, k) == ActiveCandidates(c) \subseteq {k}

(* The review and the candidate are written; uq_change_review_idempotency  *)
(* refuses a second review of the key.                                     *)
flush_review(p) ==
    LET s == calls[p]
        c == s.comparison
        locks == Writing({CandidateRow(c, s.row.candidate), KeyShare(c, p),
                          ReviewKey(s.row.reviewer, s.row.key)})
    IN  /\ s.op = "review"
        /\ Free(p, locks)
        /\ \A r \in reviews :
              <<r.reviewer, r.key>> # <<s.row.reviewer, s.row.key>>
        /\ calls' = [calls EXCEPT ![p] =
              [op |-> "flushed", row |-> s.row, locks |-> locks,
               comparison |-> c,
               reviewed |-> NoneRemain(c, s.row.candidate)
                               /\ s.state # "reviewed"]]
        /\ UNCHANGED <<database, commits, heads, answers, changeVars>>

_create_semantic_change_event(row) ==
    IF row.outcome = "accepted"
    THEN {[comparison |-> row.comparison, candidate |-> row.candidate,
           reviewer |-> row.reviewer, key |-> row.key, applied |-> 0]}
    ELSE {}

finish_review(p) ==
    LET s == calls[p]
        c == s.comparison
    IN  /\ s.op = "flushed"
        /\ s.reviewed => Free(p, Writing({ComparisonRow(c)}))
        /\ comparisons' = [comparisons EXCEPT
              ![c].candidates[s.row.candidate] = s.row.outcome,
              ![c].state = IF s.reviewed THEN "reviewed" ELSE @]
        /\ reviews' = reviews \cup {s.row}
        /\ events' = events \cup _create_semantic_change_event(s.row)
        /\ Ends(p)
        /\ UNCHANGED <<database, commits, heads, answers>>
-----------------------------------------------------------------------------
(* Deviation: the state of the comparison is not tested.                   *)
Applicable_unreviewed(c) ==
    /\ EventsOf(c) # {}
    /\ \A e \in EventsOf(c) : e.applied = 0
    /\ Carriers(c) = {}

(* Nothing is applied yet and everything has been reviewed; the other      *)
(* admitted state, partially_applied, is written nowhere.                  *)
Applicable(c) ==
    /\ EventsOf(c) # {}
    /\ \A e \in EventsOf(c) : e.applied = 0
    /\ Carriers(c) = {}
    /\ comparisons[c].state = "reviewed"

apply_accepted_changes(p, c, b) ==
    /\ Applicable(c)
    /\ heads[b] # 0
    /\ Opens(p, [op |-> "apply", comparison |-> c, branch |-> b,
                 head |-> heads[b], pending |-> EventsOf(c),
                 locks |-> ForUpdate(ApplyLocks(c, b))])
    /\ UNCHANGED <<database, commits, heads, answers, changeVars>>

(* Everything is applied, by the one commit that carries the comparison.   *)
apply_replay(p, c) ==
    /\ calls[p] = Idle
    /\ Free(p, ForUpdate({ComparisonRow(c)}))
    /\ EventsOf(c) # {}
    /\ \E i \in Carriers(c) :
          /\ \A e \in EventsOf(c) : e.applied = i
          /\ Answered(c, i)
    /\ UNCHANGED <<database, commits, heads, calls, changeVars>>

finish_apply(p) ==
    LET s == calls[p]
        commit_id == Len(commits) + 1
    IN  /\ s.op = "apply"
        /\ Advance(p, s.branch, s.head, s.comparison, "accepted_change_commit")
        /\ events' = (events \ s.pending) \cup
                     {[e EXCEPT !.applied = commit_id] : e \in s.pending}
        /\ comparisons' = [comparisons EXCEPT ![s.comparison].state = "applied"]
        /\ Answered(s.comparison, commit_id)
        /\ Ends(p)
        /\ UNCHANGED <<database, reviews>>

(* IntegrityError: another session applied the comparison first.           *)
lose_apply(p) ==
    LET s == calls[p]
    IN  /\ s.op = "apply"
        /\ Free(p, Writing({BranchRow(s.branch)}))
        /\ ~ Unbound(s.comparison)
        /\ calls' = [calls EXCEPT ![p] =
              [op |-> "resolve", comparison |-> s.comparison,
               branch |-> s.branch, head |-> s.head, locks |-> {}]]
        /\ UNCHANGED <<database, commits, heads, answers, changeVars>>

(* The winner's result, seen from a fresh transaction, is the one this     *)
(* call would have made.                                                   *)
Equivalent(s, i) ==
    /\ commits[i] = Commit(s.branch, s.head, s.comparison,
                           "accepted_change_commit")
    /\ EventsOf(s.comparison) # {}
    /\ \A e \in EventsOf(s.comparison) : e.applied = i
    /\ comparisons[s.comparison].state = "applied"
    /\ heads[s.branch] = i

_resolve_concurrent_change_application(p) ==
    LET s == calls[p]
    IN  /\ s.op = "resolve"
        /\ \E i \in Carriers(s.comparison) :
              IF Equivalent(s, i) THEN Answered(s.comparison, i)
              ELSE UNCHANGED answers
        /\ Ends(p)
        /\ UNCHANGED <<database, commits, heads, changeVars>>

ChangeCall(p) ==
    \/ \E c \in Comparisons :
          \/ \E actor \in Actors, active \in SUBSET Candidates :
                create_temporal_comparison(p, c, actor, active)
          \/ \E k \in Candidates, reviewer \in Actors, key \in ReviewKeys,
                outcome \in Outcomes :
                review_change_candidate(p, c, k, reviewer, key, outcome)
          \/ \E b \in Branches : apply_accepted_changes(p, c, b)
          \/ apply_replay(p, c)
    \/ flush_review(p) \/ finish_review(p)
    \/ finish_apply(p) \/ lose_apply(p)
    \/ _resolve_concurrent_change_application(p)

ChangeNext ==
    \E p \in Callers :
        (SceneCall(p) /\ UNCHANGED changeVars) \/ ChangeCall(p)

ChangeSpec == ChangeInit /\ [][ChangeNext]_vars
-----------------------------------------------------------------------------
TypeOK ==
    /\ database \in {"postgresql", "sqlite"}
    /\ \A i \in DOMAIN commits : commits[i].parent \in 0 .. i - 1
    /\ heads \in [Branches -> 0 .. Len(commits)]
    /\ \A c \in Comparisons :
          /\ comparisons[c].state \in ComparisonStates
          /\ comparisons[c].candidates \in [Candidates -> CandidateStates]
    /\ \A e \in events : e.applied \in 0 .. Len(commits)

ReviewsOf(c, k) == {r \in reviews : r.comparison = c /\ r.candidate = k}

(* Two overlapping reviews of one candidate both went through.             *)
ReviewedTwice(c) == \E k \in Candidates : Cardinality(ReviewsOf(c, k)) > 1

(***************************************************************************)
(* The changes of a comparison are applied together and only as reviewed:  *)
(* once one is applied, no candidate is active, the semantic events are    *)
(* those of the accepted candidates, all are linked to the one commit that *)
(* carries the comparison, and the comparison is applied.  Two overlapping *)
(* reviews of one candidate are the exception: neither locks it.           *)
(***************************************************************************)
AppliedTogether ==
    \A c \in Comparisons :
        (\E e \in EventsOf(c) : e.applied # 0) /\ ~ ReviewedTwice(c) =>
            /\ ActiveCandidates(c) = {}
            /\ {e.candidate : e \in EventsOf(c)} =
                  {k \in Candidates : comparisons[c].candidates[k] = "accepted"}
            /\ {e.applied : e \in EventsOf(c)} = Carriers(c)
            /\ comparisons[c].state = "applied"

(***************************************************************************)
(* On SQLite, where the write lock orders the flushes, the review of the   *)
(* last active candidate makes the comparison applicable: none is left     *)
(* with everything reviewed and no review that could still complete it.    *)
(***************************************************************************)
ReviewsConclude ==
    \A c \in Comparisons :
        /\ database = "sqlite"
        /\ EventsOf(c) # {}
        /\ ActiveCandidates(c) = {}
        => comparisons[c].state # "pending_review"
=============================================================================
