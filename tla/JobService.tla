----------------------------- MODULE JobService -----------------------------
(***************************************************************************)
(* The job service of the local API: the worker thread of                   *)
(* src/agents/local_api.py (JobWorker) and the request threads that enqueue *)
(* a pipeline run or decide a paused one (src/agents/api_v2/router.py,      *)
(* _jobs_approve), all sharing the table of JobQueue.                       *)
(*                                                                          *)
(* What a pipeline does while it executes is left to PipelineRunner; here   *)
(* an execution raises, or returns a final status, or pauses at the next    *)
(* gate.                                                                    *)
(***************************************************************************)
EXTENDS JobQueue

CONSTANTS Workers,     \* worker threads; a server process starts one
          Handlers,    \* request threads deciding a paused job
          AsyncModes,  \* values of the request's "async" field in use
          MaxRetries,  \* max_job_retries of server.json, 1 by default
          MaxCrashes,  \* bound: crashes of the server process
          MaxFaults    \* bound: database errors and answers that cannot be sent

ASSUME JobServiceAssumption == /\ AsyncModes \subseteq BOOLEAN
                               /\ MaxRetries \in Nat
                               /\ MaxCrashes \in Nat
                               /\ MaxFaults \in Nat

VARIABLES row,      \* the jobs table
          worker,   \* the local variables of each worker thread
          handler,  \* the local variables of each approval request
          crashes, faults,
          (* History variables, read by the properties only.              *)
          decided,  \* decisions that operators submitted
          acked,    \* decisions answered with 202 or 200
          started   \* payloads whose execution has begun

history == <<decided, acked, started>>
vars == <<row, worker, handler, crashes, faults, history>>

Decision == [job: Jobs, gate: 0 .. MaxGates, approved: BOOLEAN]

Of(j, p) == [job |-> j, gate |-> p.gate, approved |-> p.approved]

WorkerState ==
  [pc: {"idle", "selected", "executing", "recording", "raised", "dead"},
   job: Jobs \cup {NoJob}, payload: Payload, retry: Nat, result: Result]

IdleWorker == [pc |-> "idle", job |-> NoJob, payload |-> RunPayload,
               retry |-> 0, result |-> NoResult]

HandlerState ==
  [pc: {"idle", "read", "selected", "executing", "recording", "raised"},
   job: Jobs \cup {NoJob}, payload: Payload, async: BOOLEAN, result: Result]

IdleHandler == [pc |-> "idle", job |-> NoJob, payload |-> RunPayload,
                async |-> TRUE, result |-> NoResult]

Init == /\ row = [j \in Jobs |-> AbsentRow]
        /\ worker = [w \in Workers |-> IdleWorker]
        /\ handler = [h \in Handlers |-> IdleHandler]
        /\ crashes = 0
        /\ faults = 0
        /\ decided = {}
        /\ acked = {}
        /\ started = {}

-----------------------------------------------------------------------------
(* execute_job_payload: the results it can return.  A rejected resume       *)
(* returns the failed result at once and cannot raise.                      *)
PauseAfter(p) ==
  [final: {"awaiting_approval"}, gate: Gates \cap {p.gate + 1}]

(* Mutant: the resume does not look at the decision.                        *)
ResultsIgnoringDecision(p) ==
  [final: {"succeeded", "failed"}, gate: {0}] \cup PauseAfter(p)

Results(p) ==
  IF ~p.approved
  THEN {[final |-> "failed", gate |-> 0]}
  ELSE [final: {"succeeded", "failed"}, gate: {0}] \cup PauseAfter(p)

MayRaise(p) == p.approved

(* POST /pipeline/run and /pipelines/{id}/run with async: one INSERT.  The  *)
(* rows may become visible out of created_at order.                         *)
Enqueue(j) ==
  /\ row[j].status = "absent"
  /\ row' = Inserted(row, j)
  /\ UNCHANGED <<worker, handler, crashes, faults, history>>

-----------------------------------------------------------------------------
(* The worker thread.  claim_next: the SELECT, then the UPDATE.  The job it *)
(* goes on with is the row as the SELECT saw it.                            *)
ClaimSelect(w) ==
  /\ worker[w].pc = "idle"
  /\ \E j \in Oldest(row) :
       worker' = [worker EXCEPT ![w] =
                    [IdleWorker EXCEPT !.pc = "selected", !.job = j,
                                       !.payload = row[j].payload,
                                       !.retry = row[j].retry]]
  /\ UNCHANGED <<row, handler, crashes, faults, history>>

ClaimUpdate(w) ==
  LET j == worker[w].job IN
  /\ worker[w].pc = "selected"
  /\ CanClaim(row, j)
  /\ row' = Claimed(row, j)
  /\ worker' = [worker EXCEPT ![w].pc = "executing"]
  /\ started' = started \cup {Of(j, worker[w].payload)}
  /\ UNCHANGED <<handler, crashes, faults, decided, acked>>

(* total_changes is 0: claim_next returns None and the loop sleeps.         *)
ClaimLost(w) ==
  /\ worker[w].pc = "selected"
  /\ ~CanClaim(row, worker[w].job)
  /\ worker' = [worker EXCEPT ![w] = IdleWorker]
  /\ UNCHANGED <<row, handler, crashes, faults, history>>

Execute(w) ==
  /\ worker[w].pc = "executing"
  /\ \E res \in Results(worker[w].payload) :
       worker' = [worker EXCEPT ![w].pc = "recording", ![w].result = res]
  /\ UNCHANGED <<row, handler, crashes, faults, history>>

ExecuteRaises(w) ==
  /\ worker[w].pc = "executing"
  /\ MayRaise(worker[w].payload)
  /\ worker' = [worker EXCEPT ![w].pc = "raised"]
  /\ UNCHANGED <<row, handler, crashes, faults, history>>

Record(w) ==
  /\ worker[w].pc = "recording"
  /\ row' = Recorded(row, worker[w].job, worker[w].result)
  /\ worker' = [worker EXCEPT ![w] = IdleWorker]
  /\ UNCHANGED <<handler, crashes, faults, history>>

(* The except branch: the retry count is the one the SELECT saw.            *)
NeverRetry(w) == FALSE                              \* mutant

RetryOnceMore(w) == worker[w].retry <= MaxRetries   \* mutant

ShouldRetry(w) == worker[w].retry < MaxRetries

HandleFailure(w) ==
  LET j == worker[w].job IN
  /\ worker[w].pc = "raised"
  /\ row' = IF ShouldRetry(w) THEN Retried(row, j) ELSE Failed(row, j)
  /\ worker' = [worker EXCEPT ![w] = IdleWorker]
  /\ UNCHANGED <<handler, crashes, faults, history>>

(* A statement raises ("database is locked").  Inside the try block the     *)
(* exception is treated as a failure of the pipeline; in claim_next and in  *)
(* the except branch it ends the thread.                                    *)
Fault(w) ==
  /\ faults < MaxFaults
  /\ faults' = faults + 1
  /\ \/ /\ worker[w].pc = "recording"
        /\ worker' = [worker EXCEPT ![w].pc = "raised"]
     \/ /\ worker[w].pc \in {"idle", "selected", "raised"}
        /\ worker' = [worker EXCEPT ![w] = [IdleWorker EXCEPT !.pc = "dead"]]
  /\ UNCHANGED <<row, handler, crashes, history>>

-----------------------------------------------------------------------------
(* _jobs_approve.  queue.get, the status check and the resume_state of the  *)
(* pause the operator answers.                                              *)
ApproveGet(h, j, approved, async) ==
  /\ handler[h].pc = "idle"
  /\ row[j].status = "awaiting_approval"
  /\ row[j].result.gate # 0
  /\ LET p == [gate |-> row[j].result.gate, approved |-> approved] IN
       /\ handler' = [handler EXCEPT ![h] =
                        [IdleHandler EXCEPT !.pc = "read", !.job = j,
                                            !.payload = p, !.async = async]]
       /\ decided' = decided \cup {Of(j, p)}
  /\ UNCHANGED <<row, worker, crashes, faults, acked, started>>

(* resume_from_approval: the SELECT; without a row the request ends in 500. *)
ApproveSelect(h) ==
  /\ handler[h].pc = "read"
  /\ handler' = IF CanResume(row, handler[h].job)
                THEN [handler EXCEPT ![h].pc = "selected"]
                ELSE [handler EXCEPT ![h] = IdleHandler]
  /\ UNCHANGED <<row, worker, crashes, faults, history>>

(* The UPDATE is guarded, but whether it changed the row is not looked at:  *)
(* the request goes on either way.                                          *)
ApproveUpdate(h) ==
  LET j == handler[h].job
      p == handler[h].payload IN
  /\ handler[h].pc = "selected"
  /\ row' = IF CanResume(row, j) THEN Resumed(row, j, p) ELSE row
  /\ IF handler[h].async
     THEN /\ handler' = [handler EXCEPT ![h] = IdleHandler]
          /\ acked' = acked \cup {Of(j, p)}
          /\ UNCHANGED started
     ELSE /\ handler' = [handler EXCEPT ![h].pc = "executing"]
          /\ started' = started \cup {Of(j, p)}
          /\ UNCHANGED acked
  /\ UNCHANGED <<worker, crashes, faults, decided>>

(* With async: false the request thread executes the payload itself, while  *)
(* the row is queued for the worker.                                        *)
SyncExecute(h) ==
  /\ handler[h].pc = "executing"
  /\ \/ \E res \in Results(handler[h].payload) :
          handler' = [handler EXCEPT ![h].pc = "recording", ![h].result = res]
     \/ /\ MayRaise(handler[h].payload)
        /\ handler' = [handler EXCEPT ![h].pc = "raised"]
  /\ UNCHANGED <<row, worker, crashes, faults, history>>

SyncRecord(h) ==
  LET j == handler[h].job IN
  /\ handler[h].pc = "recording"
  /\ row' = Recorded(row, j, handler[h].result)
  /\ handler' = [handler EXCEPT ![h] = IdleHandler]
  /\ acked' = acked \cup {Of(j, handler[h].payload)}
  /\ UNCHANGED <<worker, crashes, faults, decided, started>>

SyncFail(h) ==
  /\ handler[h].pc = "raised"
  /\ row' = Failed(row, handler[h].job)
  /\ handler' = [handler EXCEPT ![h] = IdleHandler]
  /\ UNCHANGED <<worker, crashes, faults, history>>

(* A statement of the request raises: storing the result falls into the     *)
(* except branch, anywhere else the request ends without an answer.         *)
HandlerFault(h) ==
  /\ faults < MaxFaults
  /\ faults' = faults + 1
  /\ \/ /\ handler[h].pc = "recording"
        /\ handler' = [handler EXCEPT ![h].pc = "raised"]
     \/ /\ handler[h].pc \in {"read", "selected", "raised"}
        /\ handler' = [handler EXCEPT ![h] = IdleHandler]
  /\ UNCHANGED <<row, worker, crashes, history>>

(* The client is gone when the answer is sent: the row is stored, then the  *)
(* except branch fails the job all the same.                                *)
AnswerLost(h) ==
  /\ handler[h].pc = "recording"
  /\ faults < MaxFaults
  /\ faults' = faults + 1
  /\ row' = Recorded(row, handler[h].job, handler[h].result)
  /\ handler' = [handler EXCEPT ![h].pc = "raised"]
  /\ UNCHANGED <<worker, crashes, history>>

-----------------------------------------------------------------------------
(* The process ends: a crash, or a shutdown that waits five seconds for the *)
(* worker and then leaves its daemon thread.  Only the table survives.      *)
Crash ==
  /\ crashes < MaxCrashes
  /\ crashes' = crashes + 1
  /\ worker' = [w \in Workers |-> [IdleWorker EXCEPT !.pc = "dead"]]
  /\ handler' = [h \in Handlers |-> IdleHandler]
  /\ UNCHANGED <<row, faults, history>>

(* APXVLocalServer starts a new worker; it does not look at running rows.   *)
Restart ==
  /\ \A w \in Workers : worker[w].pc = "dead"
  /\ worker' = [w \in Workers |-> IdleWorker]
  /\ UNCHANGED <<row, handler, crashes, faults, history>>

WorkerStep(w) == \/ ClaimSelect(w) \/ ClaimUpdate(w) \/ ClaimLost(w)
                 \/ Execute(w) \/ ExecuteRaises(w)
                 \/ Record(w) \/ HandleFailure(w)

HandlerStep(h) == \/ ApproveSelect(h) \/ ApproveUpdate(h)
                  \/ SyncExecute(h) \/ SyncRecord(h) \/ SyncFail(h)

Next == \/ \E j \in Jobs : Enqueue(j)
        \/ \E w \in Workers : WorkerStep(w) \/ Fault(w)
        \/ \E h \in Handlers, j \in Jobs, a \in BOOLEAN, s \in AsyncModes :
             ApproveGet(h, j, a, s)
        \/ \E h \in Handlers : HandlerStep(h) \/ HandlerFault(h) \/ AnswerLost(h)
        \/ Crash
        \/ Restart

Spec == Init /\ [][Next]_vars

(* The threads of a process that is up keep running: nothing else is fair.  *)
FairSpec == /\ Spec
            /\ \A w \in Workers : WF_vars(WorkerStep(w))
            /\ \A h \in Handlers : WF_vars(HandlerStep(h))

-----------------------------------------------------------------------------
TypeOK == /\ row \in [Jobs -> Row]
          /\ worker \in [Workers -> WorkerState]
          /\ handler \in [Handlers -> HandlerState]
          /\ crashes \in 0 .. MaxCrashes
          /\ faults \in 0 .. MaxFaults
          /\ decided \subseteq Decision
          /\ acked \subseteq Decision
          /\ started \subseteq Decision

(* Nothing past the k-th approval pause runs before an operator approved    *)
(* each of the first k pauses, one after the other; and a rejection is      *)
(* executed only if an operator rejected (pause_awaiting_approval,          *)
(* _jobs_approve and claim_next together, under every race of theirs).      *)
NoGateSkipped ==
  \A d \in started :
    d.gate # 0 =>
      /\ d \in decided
      /\ \A g \in 1 .. d.gate - 1 :
           [job |-> d.job, gate |-> g, approved |-> TRUE] \in decided \cap started

(* A job is re-queued after an exception at most max_retries times in its   *)
(* life, whatever the request threads do to it meanwhile (JobWorker._run).  *)
RetryBounded == \A j \in Jobs : row[j].retry <= MaxRetries

(* A paused job can always be decided: it holds the pause it waits at, and  *)
(* that pause was reached by an execution that started at the gate before   *)
(* (what _jobs_approve needs to find a resume_state).                       *)
PausedCanBeDecided ==
  \A j \in Jobs :
    row[j].status = "awaiting_approval" =>
      /\ row[j].result.final = "awaiting_approval"
      /\ row[j].result.gate \in Gates
      /\ [job |-> j, gate |-> row[j].result.gate - 1, approved |-> TRUE] \in started

Active(w) == worker[w].pc \in {"executing", "recording", "raised"}

(* Two workers never execute the same job, and a job that a worker executes *)
(* is running (the guarded UPDATE of claim_next).                           *)
ExclusiveExecution ==
  \A w \in Workers :
    Active(w) =>
      /\ row[worker[w].job].status = "running"
      /\ \A v \in Workers \ {w} : Active(v) => worker[v].job # worker[w].job

Down == \A w \in Workers : worker[w].pc = "dead"

(* With asynchronous decisions the service implements the lifecycle the API *)
(* documents: ended jobs stay ended, a job fails only with its retries used *)
(* and only a decision moves a paused job.                                  *)
Lifecycle == INSTANCE JobLifecycle
               WITH status <- [j \in Jobs |-> row[j].status],
                    used <- [j \in Jobs |-> row[j].retry]

ImplementsLifecycle == Lifecycle!Spec

(* While a worker lives, every queued job is claimed, in whatever order     *)
(* jobs are submitted, retried and approved.                                *)
QueuedIsServed ==
  \A j \in Jobs :
    row[j].status = "queued" ~> (row[j].status # "queued" \/ Down)

(* Without a crash or a database error no job stays running: it ends, waits *)
(* for an operator, or is queued again.                                     *)
RunningSettles ==
  \A j \in Jobs :
    row[j].status = "running" ~> \/ row[j].status # "running"
                                 \/ crashes + faults > 0

-----------------------------------------------------------------------------
(* "approval accepted; job re-queued" (api_v2/router.py:862): a rejection   *)
(* answered so is carried out, the job never runs on past its gate.         *)
RejectionStands ==
  \A d \in acked :
    ~d.approved => [d EXCEPT !.approved = TRUE] \notin started
=============================================================================
