------------------------------ MODULE JobQueue ------------------------------
(***************************************************************************)
(* The `jobs' table of src/agents/job_queue.py: what a row holds and what   *)
(* each SQL statement of JobQueue does to the table.  A statement is one    *)
(* transaction, so each operator below maps a table to the next table; the  *)
(* methods that run two statements (claim_next, resume_from_approval) are   *)
(* split into two actions by JobService.                                    *)
(*                                                                          *)
(* A job is its rank in created_at order.  A payload is the gate (the       *)
(* `apxv:approve' pause) it resumes from, 0 for the payload of the original *)
(* run, with the operator's decision; a result is the pipeline's            *)
(* final_status, with the gate it is paused at.                             *)
(***************************************************************************)
EXTENDS Naturals

CONSTANTS Jobs,      \* job identities, numbered by created_at
          MaxGates   \* bound: approval pauses a pipeline can reach in a row

ASSUME JobQueueAssumption == /\ Jobs \subseteq Nat \ {0}
                             /\ MaxGates \in Nat

Gates == 1 .. MaxGates

NoJob == 0

Payload == [gate: 0 .. MaxGates, approved: BOOLEAN]

RunPayload == [gate |-> 0, approved |-> TRUE]

Result == [final: {"none", "awaiting_approval", "succeeded", "failed"},
           gate: 0 .. MaxGates]

NoResult == [final |-> "none", gate |-> 0]

Status == {"absent", "queued", "running", "awaiting_approval",
           "completed", "failed"}

Row == [status: Status, payload: Payload, result: Result, retry: Nat]

AbsentRow == [status |-> "absent", payload |-> RunPayload,
              result |-> NoResult, retry |-> 0]

-----------------------------------------------------------------------------
(* enqueue *)
Inserted(table, j) == [table EXCEPT ![j] = [AbsentRow EXCEPT !.status = "queued"]]

(* Mutant: the SELECT forgets its status filter, so an older job blocks.     *)
OldestOfAnyStatus(table) ==
  {j \in Jobs : /\ table[j].status = "queued"
                /\ \A k \in Jobs : table[k].status # "absent" => j <= k}

(* The SELECT of claim_next: the queued rows with the smallest created_at.   *)
Oldest(table) ==
  {j \in Jobs : /\ table[j].status = "queued"
                /\ \A k \in Jobs : table[k].status = "queued" => j <= k}

(* Mutant: the UPDATE without its guard on the status.                       *)
CanClaimUnguarded(table, j) == TRUE

(* The UPDATE of claim_next changes the row only while it is queued.         *)
CanClaim(table, j) == table[j].status = "queued"

Claimed(table, j) == [table EXCEPT ![j].status = "running"]

(* complete and pause_awaiting_approval look at no status.                   *)
Completed(table, j, res) ==
  [table EXCEPT ![j].status = "completed", ![j].result = res]

(* Mutant: the pause does not store the result that holds resume_state.      *)
PausedWithoutResult(table, j, res) ==
  [table EXCEPT ![j].status = "awaiting_approval"]

Paused(table, j, res) ==
  [table EXCEPT ![j].status = "awaiting_approval", ![j].result = res]

(* What both callers do with the result of an execution.                     *)
Recorded(table, j, res) ==
  IF res.final = "awaiting_approval" THEN Paused(table, j, res)
                                     ELSE Completed(table, j, res)

(* The SELECT of resume_from_approval, and the guard of its UPDATE.          *)
CanResume(table, j) == table[j].status = "awaiting_approval"

Resumed(table, j, p) ==
  [table EXCEPT ![j].status = "queued", ![j].payload = p, ![j].result = NoResult]

(* Mutants: the retry leaves the status alone, or gives it a new name.       *)
RetriedInPlace(table, j) == [table EXCEPT ![j].retry = @ + 1]

RetriedAsRetrying(table, j) ==
  [table EXCEPT ![j].status = "retrying", ![j].retry = @ + 1]

(* fail(retry=True) and fail(retry=False); neither looks at the status.      *)
Retried(table, j) ==
  [table EXCEPT ![j].status = "queued", ![j].retry = @ + 1]

Failed(table, j) == [table EXCEPT ![j].status = "failed"]
=============================================================================
