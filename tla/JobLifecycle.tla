---------------------------- MODULE JobLifecycle ----------------------------
(***************************************************************************)
(* What the job API promises of a job, seen through GET /jobs/{id}: the     *)
(* order of its statuses and the use of its retries.  A job that completed  *)
(* or failed never changes again, a job fails only when its retries are     *)
(* used, and only an operator moves a paused job.  JobService implements it *)
(* when every decision is asynchronous.                                     *)
(***************************************************************************)
EXTENDS Naturals

CONSTANTS Jobs, MaxRetries

VARIABLES status, used

vars == <<status, used>>

Init == /\ status = [j \in Jobs |-> "absent"]
        /\ used = [j \in Jobs |-> 0]

Move(j, from, to) == /\ status[j] = from
                     /\ status' = [status EXCEPT ![j] = to]

Submit(j) == Move(j, "absent", "queued") /\ UNCHANGED used

Claim(j) == Move(j, "queued", "running") /\ UNCHANGED used

Complete(j) == Move(j, "running", "completed") /\ UNCHANGED used

Pause(j) == Move(j, "running", "awaiting_approval") /\ UNCHANGED used

Decide(j) == Move(j, "awaiting_approval", "queued") /\ UNCHANGED used

Retry(j) == /\ Move(j, "running", "queued")
            /\ used' = [used EXCEPT ![j] = @ + 1]

Fail(j) == /\ used[j] >= MaxRetries
           /\ Move(j, "running", "failed")
           /\ UNCHANGED used

Next == \E j \in Jobs : \/ Submit(j) \/ Claim(j) \/ Complete(j) \/ Pause(j)
                        \/ Decide(j) \/ Retry(j) \/ Fail(j)

Spec == Init /\ [][Next]_vars
=============================================================================
