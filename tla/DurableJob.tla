---------------------------- MODULE DurableJob ----------------------------
(***************************************************************************)
(* What the durable operation service promises the client of a long        *)
(* operation, whatever workers, leases, retries and crashes do underneath: *)
(* a job is submitted once, it is delivered at most once, and a job whose  *)
(* cancellation was accepted can only stop; it never delivers.             *)
(* (operations.py: create, request_cancel, complete and the refusal        *)
(* "cancelled operation cannot publish output".)                           *)
(***************************************************************************)
CONSTANTS Jobs, Results, NoResult

VARIABLES status,  \* what the client can observe of each job
          result   \* the manifest delivered for each job

jobVars == <<status, result>>

Init ==
    /\ status = [j \in Jobs |-> "unknown"]
    /\ result = [j \in Jobs |-> NoResult]

Submit(j) ==
    /\ status[j] = "unknown"
    /\ status' = [status EXCEPT ![j] = "open"]
    /\ UNCHANGED result

Deliver(j, r) ==
    /\ status[j] = "open"
    /\ status' = [status EXCEPT ![j] = "delivered"]
    /\ result' = [result EXCEPT ![j] = r]

AcceptCancel(j) ==
    /\ status[j] = "open"
    /\ status' = [status EXCEPT ![j] = "cancelling"]
    /\ UNCHANGED result

Stop(j) ==
    /\ status[j] = "cancelling"
    /\ status' = [status EXCEPT ![j] = "stopped"]
    /\ UNCHANGED result

Next ==
    \E j \in Jobs :
        \/ Submit(j)
        \/ \E r \in Results : Deliver(j, r)
        \/ AcceptCancel(j)
        \/ Stop(j)

Spec == Init /\ [][Next]_jobVars
=============================================================================
