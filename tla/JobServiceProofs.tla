-------------------------- MODULE JobServiceProofs --------------------------
(***************************************************************************)
(* Proofs about JobService, for every set of jobs, workers and request      *)
(* threads and every bound.                                                 *)
(***************************************************************************)
EXTENDS JobService, TLAPS

USE JobQueueAssumption, JobServiceAssumption

-----------------------------------------------------------------------------
(* What an execution returns is a result, and pauses only at the next gate. *)
LEMMA ResultsAreResults ==
  ASSUME NEW p \in Payload, NEW res \in Results(p)
  PROVE  /\ res \in Result
         /\ res.final = "awaiting_approval" =>
              p.approved /\ res.gate \in Gates /\ res.gate = p.gate + 1
  BY DEF Results, PauseAfter, Result, Payload, Gates

LEMMA DecisionType ==
  ASSUME NEW j \in Jobs, NEW p \in Payload
  PROVE  Of(j, p) \in Decision
  BY DEF Of, Decision, Payload

LEMMA ValuesExist == RunPayload \in Payload /\ NoResult \in Result
  BY DEF RunPayload, Payload, NoResult, Result

(* The statements of the queue map tables to tables.                        *)
LEMMA TableType ==
  ASSUME NEW table \in [Jobs -> Row], NEW j \in Jobs,
         NEW p \in Payload, NEW res \in Result
  PROVE  /\ Inserted(table, j) \in [Jobs -> Row]
         /\ Claimed(table, j) \in [Jobs -> Row]
         /\ Recorded(table, j, res) \in [Jobs -> Row]
         /\ Resumed(table, j, p) \in [Jobs -> Row]
         /\ Retried(table, j) \in [Jobs -> Row]
         /\ Failed(table, j) \in [Jobs -> Row]
  <1>1. AbsentRow \in Row
    BY DEF AbsentRow, Row, Status, RunPayload, Payload, NoResult, Result
  <1>2. NoResult \in Result
    BY DEF NoResult, Result
  <1>3. Inserted(table, j) \in [Jobs -> Row]
    BY <1>1 DEF Inserted, Row, Status
  <1>4. Claimed(table, j) \in [Jobs -> Row] /\ Failed(table, j) \in [Jobs -> Row]
    BY DEF Claimed, Failed, Row, Status
  <1>5. Recorded(table, j, res) \in [Jobs -> Row]
    BY DEF Recorded, Completed, Paused, Row, Status
  <1>6. Resumed(table, j, p) \in [Jobs -> Row]
    <2> DEFINE r == [table[j] EXCEPT !.status = "queued", !.payload = p, !.result = NoResult]
    <2>1. r \in Row
      BY <1>2 DEF Row, Status
    <2>2. Resumed(table, j, p) = [table EXCEPT ![j] = r]
      BY DEF Resumed
    <2> HIDE DEF r
    <2> QED
      BY <2>1, <2>2
  <1>7. Retried(table, j) \in [Jobs -> Row]
    <2>1. table[j] \in Row /\ table[j].retry + 1 \in Nat
      BY DEF Row
    <2>2. [table[j] EXCEPT !.status = "queued", !.retry = @ + 1] \in Row
      BY <2>1 DEF Row, Status
    <2> QED
      BY <2>2 DEF Retried
  <1> QED
    BY <1>3, <1>4, <1>5, <1>6, <1>7

(* A thread that holds a job holds one of the table.                        *)
HoldsJob == /\ \A w \in Workers :
                 worker[w].pc \notin {"idle", "dead"} => worker[w].job \in Jobs
            /\ \A h \in Handlers :
                 handler[h].pc # "idle" => handler[h].job \in Jobs

Typed == TypeOK /\ HoldsJob

LEMMA IdleStates ==
  /\ IdleWorker \in WorkerState
  /\ [IdleWorker EXCEPT !.pc = "dead"] \in WorkerState
  /\ IdleHandler \in HandlerState
  <1>1. IdleWorker \in WorkerState
    BY ValuesExist DEF IdleWorker, WorkerState
  <1>2. [IdleWorker EXCEPT !.pc = "dead"] \in WorkerState
    BY <1>1 DEF WorkerState
  <1>3. IdleHandler \in HandlerState
    BY ValuesExist DEF IdleHandler, HandlerState
  <1> QED
    BY <1>1, <1>2, <1>3

LEMMA InitTyped == Init => Typed
  <1> SUFFICES ASSUME Init PROVE Typed
    OBVIOUS
  <1>1. AbsentRow \in Row
    BY DEF AbsentRow, Row, Status, RunPayload, Payload, NoResult, Result
  <1>2. TypeOK
    BY <1>1, IdleStates DEF Init, TypeOK
  <1>3. HoldsJob
    BY DEF Init, HoldsJob, IdleWorker, IdleHandler
  <1> QED
    BY <1>2, <1>3 DEF Typed

LEMMA NextTyped == Typed /\ [Next]_vars => Typed'
  <1> SUFFICES ASSUME Typed, [Next]_vars PROVE Typed'
    OBVIOUS
  <1> USE IdleStates DEF Typed, TypeOK, HoldsJob, history
  <1>1. ASSUME NEW j \in Jobs, Enqueue(j) PROVE Typed'
    <2>1. row' \in [Jobs -> Row]
      BY <1>1, TableType, ValuesExist DEF Enqueue
    <2> QED
      BY <1>1, <2>1 DEF Enqueue
  <1>2. ASSUME NEW w \in Workers, ClaimSelect(w) PROVE Typed'
    <2>1. PICK j \in Jobs :
            worker' = [worker EXCEPT ![w] =
                        [IdleWorker EXCEPT !.pc = "selected", !.job = j,
                                           !.payload = row[j].payload,
                                           !.retry = row[j].retry]]
      BY <1>2 DEF ClaimSelect, Oldest
    <2>2. row[j].payload \in Payload /\ row[j].retry \in Nat
      BY DEF Row
    <2> QED
      BY <1>2, <2>1, <2>2 DEF ClaimSelect, IdleWorker, WorkerState
  <1>3. ASSUME NEW w \in Workers, ClaimUpdate(w) PROVE Typed'
    <2>1. worker[w].job \in Jobs /\ worker[w].payload \in Payload
      BY <1>3 DEF ClaimUpdate, WorkerState
    <2>2. row' \in [Jobs -> Row]
      BY <1>3, <2>1 DEF ClaimUpdate, Claimed, Row, Status
    <2>3. started' \subseteq Decision
      BY <1>3, <2>1, DecisionType DEF ClaimUpdate
    <2>4. worker' \in [Workers -> WorkerState]
      BY <1>3 DEF ClaimUpdate, WorkerState
    <2> QED
      BY <1>3, <2>1, <2>2, <2>3, <2>4 DEF ClaimUpdate
  <1>4. ASSUME NEW w \in Workers, ClaimLost(w) PROVE Typed'
    BY <1>4 DEF ClaimLost, IdleWorker
  <1>5. ASSUME NEW w \in Workers, Execute(w) PROVE Typed'
    <2>1. PICK res \in Results(worker[w].payload) :
            worker' = [worker EXCEPT ![w].pc = "recording", ![w].result = res]
      BY <1>5 DEF Execute
    <2>2. res \in Result
      BY ResultsAreResults DEF WorkerState
    <2> QED
      BY <1>5, <2>1, <2>2 DEF Execute, WorkerState
  <1>6. ASSUME NEW w \in Workers, ExecuteRaises(w) PROVE Typed'
    BY <1>6 DEF ExecuteRaises, WorkerState
  <1>7. ASSUME NEW w \in Workers, Record(w) PROVE Typed'
    <2>1. worker[w].job \in Jobs /\ worker[w].result \in Result
      BY <1>7 DEF Record, WorkerState
    <2>2. row' \in [Jobs -> Row]
      BY <1>7, <2>1 DEF Record, Recorded, Completed, Paused, Row, Status
    <2> QED
      BY <1>7, <2>2 DEF Record, IdleWorker
  <1>8. ASSUME NEW w \in Workers, HandleFailure(w) PROVE Typed'
    <2>1. worker[w].job \in Jobs
      BY <1>8 DEF HandleFailure
    <2>2. row' \in [Jobs -> Row]
      BY <1>8, <2>1 DEF HandleFailure, Retried, Failed, Row, Status
    <2> QED
      BY <1>8, <2>2 DEF HandleFailure, IdleWorker
  <1>9. ASSUME NEW w \in Workers, Fault(w) PROVE Typed'
    <2>1. faults' \in 0 .. MaxFaults
      BY <1>9 DEF Fault
    <2>2. worker' \in [Workers -> WorkerState]
      BY <1>9 DEF Fault, WorkerState
    <2>3. CASE worker' = [worker EXCEPT ![w].pc = "raised"]
      BY <1>9, <2>1, <2>2, <2>3 DEF Fault, WorkerState
    <2>4. CASE worker' = [worker EXCEPT ![w] = [IdleWorker EXCEPT !.pc = "dead"]]
      <3>1. worker'[w].pc = "dead" /\ \A v \in Workers \ {w} : worker'[v] = worker[v]
        BY <2>4 DEF IdleWorker
      <3>2. HoldsJob'
        BY <1>9, <3>1 DEF Fault
      <3> QED
        BY <1>9, <2>1, <2>2, <3>2 DEF Fault
    <2> QED
      BY <1>9, <2>3, <2>4 DEF Fault
  <1>10. ASSUME NEW h \in Handlers, NEW j \in Jobs, NEW a \in BOOLEAN,
                NEW s \in AsyncModes, ApproveGet(h, j, a, s)
         PROVE  Typed'
    <2> DEFINE p == [gate |-> row[j].result.gate, approved |-> a]
    <2>1. p \in Payload
      BY DEF Row, Result, Payload
    <2>2. handler' = [handler EXCEPT ![h] =
                        [IdleHandler EXCEPT !.pc = "read", !.job = j,
                                            !.payload = p, !.async = s]]
      BY <1>10 DEF ApproveGet
    <2>3. handler' \in [Handlers -> HandlerState]
      BY <2>1, <2>2 DEF IdleHandler, HandlerState
    <2>4. decided' \subseteq Decision
      BY <1>10, <2>1, DecisionType DEF ApproveGet
    <2> QED
      BY <1>10, <2>2, <2>3, <2>4 DEF ApproveGet, IdleHandler
  <1>11. ASSUME NEW h \in Handlers, ApproveSelect(h) PROVE Typed'
    BY <1>11 DEF ApproveSelect, HandlerState, IdleHandler
  <1>12. ASSUME NEW h \in Handlers, ApproveUpdate(h) PROVE Typed'
    <2>1. handler[h].job \in Jobs /\ handler[h].payload \in Payload
      BY <1>12 DEF ApproveUpdate, HandlerState
    <2>2. row' \in [Jobs -> Row]
      BY <1>12, <2>1 DEF ApproveUpdate, Resumed, Row, Status, NoResult, Result
    <2>3. acked' \subseteq Decision /\ started' \subseteq Decision
      BY <1>12, <2>1, DecisionType DEF ApproveUpdate
    <2>4. handler' \in [Handlers -> HandlerState]
      BY <1>12 DEF ApproveUpdate, HandlerState
    <2> QED
      <3>1. \A k \in Handlers : \/ handler'[k].pc = "idle"
                                \/ handler'[k].job = handler[k].job /\ handler[k].pc # "idle"
        BY <1>12 DEF ApproveUpdate, IdleHandler, HandlerState
      <3>2. HoldsJob'
        BY <1>12, <3>1 DEF ApproveUpdate
      <3> QED
        BY <1>12, <2>2, <2>3, <2>4, <3>2 DEF ApproveUpdate
  <1>13. ASSUME NEW h \in Handlers, SyncExecute(h) PROVE Typed'
    <2>1. CASE handler' = [handler EXCEPT ![h].pc = "raised"]
      BY <1>13, <2>1 DEF SyncExecute, HandlerState
    <2>2. CASE \E res \in Results(handler[h].payload) :
                 handler' = [handler EXCEPT ![h].pc = "recording", ![h].result = res]
      <3>1. PICK res \in Results(handler[h].payload) :
              handler' = [handler EXCEPT ![h].pc = "recording", ![h].result = res]
        BY <2>2
      <3>2. res \in Result
        BY ResultsAreResults DEF HandlerState
      <3> QED
        BY <1>13, <3>1, <3>2 DEF SyncExecute, HandlerState
    <2> QED
      BY <1>13, <2>1, <2>2 DEF SyncExecute
  <1>14. ASSUME NEW h \in Handlers, SyncRecord(h) PROVE Typed'
    <2>1. /\ handler[h].job \in Jobs
          /\ handler[h].payload \in Payload
          /\ handler[h].result \in Result
      BY <1>14 DEF SyncRecord, HandlerState
    <2>2. row' \in [Jobs -> Row]
      BY <1>14, <2>1 DEF SyncRecord, Recorded, Completed, Paused, Row, Status
    <2>3. acked' \subseteq Decision
      BY <1>14, <2>1, DecisionType DEF SyncRecord
    <2> QED
      BY <1>14, <2>2, <2>3 DEF SyncRecord, IdleHandler
  <1>15. ASSUME NEW h \in Handlers, SyncFail(h) PROVE Typed'
    <2>1. row' \in [Jobs -> Row]
      BY <1>15 DEF SyncFail, Failed, Row, Status
    <2> QED
      BY <1>15, <2>1 DEF SyncFail, IdleHandler
  <1>16. ASSUME NEW h \in Handlers, HandlerFault(h) PROVE Typed'
    <2>1. faults' \in 0 .. MaxFaults
      BY <1>16 DEF HandlerFault
    <2>2. handler' \in [Handlers -> HandlerState]
      BY <1>16 DEF HandlerFault, HandlerState
    <2>3. \A k \in Handlers : \/ handler'[k].pc = "idle"
                              \/ handler'[k].job = handler[k].job /\ handler[k].pc # "idle"
      BY <1>16 DEF HandlerFault, IdleHandler, HandlerState
    <2>4. HoldsJob'
      BY <1>16, <2>3 DEF HandlerFault
    <2> QED
      BY <1>16, <2>1, <2>2, <2>4 DEF HandlerFault
  <1>17. CASE Crash
    BY <1>17 DEF Crash, IdleWorker, IdleHandler
  <1>20. ASSUME NEW h \in Handlers, AnswerLost(h) PROVE Typed'
    <2>1. handler[h].job \in Jobs /\ handler[h].result \in Result
      BY <1>20 DEF AnswerLost, HandlerState
    <2>2. row' \in [Jobs -> Row]
      BY <1>20, <2>1 DEF AnswerLost, Recorded, Completed, Paused, Row, Status
    <2>3. handler' \in [Handlers -> HandlerState]
      BY <1>20 DEF AnswerLost, HandlerState
    <2>4. \A k \in Handlers : \/ handler'[k].pc = "idle"
                              \/ handler'[k].job = handler[k].job /\ handler[k].pc # "idle"
      BY <1>20 DEF AnswerLost, HandlerState
    <2>5. faults' \in 0 .. MaxFaults
      BY <1>20 DEF AnswerLost
    <2> QED
      BY <1>20, <2>2, <2>3, <2>4, <2>5 DEF AnswerLost
  <1>18. CASE Restart
    BY <1>18 DEF Restart, IdleWorker
  <1>19. CASE UNCHANGED vars
    BY <1>19 DEF vars
  <1> QED
    BY <1>1, <1>2, <1>3, <1>4, <1>5, <1>6, <1>7, <1>8, <1>9, <1>10, <1>11,
       <1>12, <1>13, <1>14, <1>15, <1>16, <1>17, <1>18, <1>19, <1>20
       DEF Next, WorkerStep, HandlerStep

(* Every reachable state is of the declared types, and a thread at work     *)
(* holds a job of the table.                                                *)
THEOREM TypeCorrect == Spec => []TypeOK
  <1>1. Spec => []Typed
    BY InitTyped, NextTyped, PTL DEF Spec
  <1> QED
    BY <1>1, PTL DEF Typed

(* Spec => []Typed, for the proofs that build on it.                        *)
LEMMA AlwaysTyped == Spec => []Typed
  BY InitTyped, NextTyped, PTL DEF Spec

-----------------------------------------------------------------------------
(* The retry count.  Only the worker increments it, and between the claim   *)
(* and the except branch no other thread does: what the worker remembers is *)
(* what the row says.  With two workers this fails (the other one may retry *)
(* the job between the SELECT and the UPDATE of claim_next).                *)
SoleWorker == \A v, w \in Workers : v = w

AbsentIsFresh == \A j \in Jobs : row[j].status = "absent" => row[j].retry = 0

RetryRemembered ==
  \A w \in Workers : worker[w].pc \notin {"idle", "dead"} =>
                       worker[w].retry = row[worker[w].job].retry

RetryInv == AbsentIsFresh /\ RetryRemembered /\ RetryBounded

(* Every action but Enqueue and HandleFailure leaves retry counts alone, and *)
(* none makes a row absent.                                                 *)
RetriesKept ==
  \A j \in Jobs : /\ row'[j].retry = row[j].retry
                  /\ row'[j].status = "absent" => row[j].status = "absent"

LEMMA HandlersKeepRetries ==
  ASSUME Typed, NEW h \in Handlers,
         HandlerStep(h) \/ HandlerFault(h) \/ AnswerLost(h)
  PROVE  RetriesKept /\ worker' = worker
  <1> USE DEF Typed, TypeOK, HoldsJob, RetriesKept
  <1>1. CASE ApproveSelect(h)
    BY <1>1 DEF ApproveSelect
  <1>2. CASE ApproveUpdate(h)
    BY <1>2 DEF ApproveUpdate, Resumed, Row
  <1>3. CASE SyncExecute(h)
    BY <1>3 DEF SyncExecute
  <1>4. CASE SyncRecord(h)
    BY <1>4 DEF SyncRecord, Recorded, Completed, Paused, Row
  <1>5. CASE SyncFail(h)
    BY <1>5 DEF SyncFail, Failed, Row
  <1>6. CASE HandlerFault(h)
    BY <1>6 DEF HandlerFault
  <1>7. CASE AnswerLost(h)
    BY <1>7 DEF AnswerLost, Recorded, Completed, Paused, Row
  <1> QED
    BY <1>1, <1>2, <1>3, <1>4, <1>5, <1>6, <1>7 DEF HandlerStep

(* A step that keeps the retry counts and what busy workers remember keeps  *)
(* the invariant.                                                           *)
LEMMA KeptRetries ==
  ASSUME Typed, RetryInv, RetriesKept,
         \A w \in Workers : \/ worker'[w].pc \in {"idle", "dead"}
                            \/ /\ worker[w].pc \notin {"idle", "dead"}
                               /\ worker'[w].job = worker[w].job
                               /\ worker'[w].retry = worker[w].retry
  PROVE  RetryInv'
  <1>1. AbsentIsFresh'
    BY DEF RetryInv, AbsentIsFresh, RetriesKept
  <1>2. RetryBounded'
    BY DEF RetryInv, RetryBounded, RetriesKept
  <1>3. ASSUME NEW w \in Workers, worker'[w].pc \notin {"idle", "dead"}
        PROVE  worker'[w].retry = row'[worker'[w].job].retry
    <2>1. /\ worker[w].pc \notin {"idle", "dead"}
          /\ worker'[w].job = worker[w].job
          /\ worker'[w].retry = worker[w].retry
      BY <1>3
    <2>2. worker[w].job \in Jobs
      BY <2>1 DEF Typed, HoldsJob
    <2>3. worker[w].retry = row[worker[w].job].retry
      BY <2>1 DEF RetryInv, RetryRemembered
    <2> QED
      BY <2>1, <2>2, <2>3 DEF RetriesKept
  <1> QED
    BY <1>1, <1>2, <1>3 DEF RetryInv, RetryRemembered

LEMMA NextRetry ==
  ASSUME SoleWorker, Typed, RetryInv, [Next]_vars
  PROVE  RetryInv'
  <1> USE DEF Typed, TypeOK, HoldsJob
  <1>1. ASSUME NEW j \in Jobs, Enqueue(j) PROVE RetryInv'
    <2>1. row[j].retry = 0 /\ row[j].status = "absent"
      BY <1>1 DEF Enqueue, RetryInv, AbsentIsFresh
    <2>2. /\ row'[j].retry = 0
          /\ row'[j].status = "queued"
          /\ \A k \in Jobs \ {j} : row'[k] = row[k]
      BY <1>1 DEF Enqueue, Inserted, AbsentRow
    <2>3. RetriesKept /\ worker' = worker
      BY <1>1, <2>1, <2>2 DEF Enqueue, RetriesKept
    <2> QED
      BY <2>3, KeptRetries
  <1>2. ASSUME NEW w \in Workers, ClaimSelect(w) PROVE RetryInv'
    <2>1. PICK j \in Jobs :
            worker' = [worker EXCEPT ![w] =
                        [IdleWorker EXCEPT !.pc = "selected", !.job = j,
                                           !.payload = row[j].payload,
                                           !.retry = row[j].retry]]
      BY <1>2 DEF ClaimSelect, Oldest
    <2>2. worker'[w].job = j /\ worker'[w].retry = row[j].retry
      BY <2>1 DEF IdleWorker
    <2>3. row' = row /\ \A v \in Workers : v = w
      BY <1>2 DEF ClaimSelect, SoleWorker
    <2> QED
      BY <2>2, <2>3 DEF RetryInv, AbsentIsFresh, RetryRemembered, RetryBounded
  <1>3. ASSUME NEW w \in Workers, ClaimUpdate(w) PROVE RetryInv'
    <2>1. RetriesKept
      BY <1>3 DEF ClaimUpdate, Claimed, Row, RetriesKept
    <2> QED
      BY <1>3, <2>1, KeptRetries DEF ClaimUpdate, WorkerState
  <1>4. ASSUME NEW w \in Workers,
               ClaimLost(w) \/ Execute(w) \/ ExecuteRaises(w) \/ Fault(w)
        PROVE  RetryInv'
    <2>1. RetriesKept
      BY <1>4 DEF ClaimLost, Execute, ExecuteRaises, Fault, RetriesKept
    <2>2. \A v \in Workers : \/ worker'[v].pc \in {"idle", "dead"}
                             \/ /\ worker[v].pc \notin {"idle", "dead"}
                                /\ worker'[v].job = worker[v].job
                                /\ worker'[v].retry = worker[v].retry
      BY <1>4 DEF ClaimLost, Execute, ExecuteRaises, Fault, IdleWorker, WorkerState
    <2> QED
      BY <2>1, <2>2, KeptRetries
  <1>5. ASSUME NEW w \in Workers, Record(w) PROVE RetryInv'
    <2>1. RetriesKept
      BY <1>5 DEF Record, Recorded, Completed, Paused, Row, RetriesKept
    <2> QED
      BY <1>5, <2>1, KeptRetries DEF Record, IdleWorker
  <1>6. ASSUME NEW w \in Workers, HandleFailure(w) PROVE RetryInv'
    <2> DEFINE j == worker[w].job
    <2>1. j \in Jobs /\ worker[w].retry = row[j].retry
      BY <1>6 DEF HandleFailure, RetryInv, RetryRemembered
    <2>2. \A v \in Workers : worker'[v].pc = "idle"
      BY <1>6 DEF HandleFailure, IdleWorker, SoleWorker
    <2>3. CASE ShouldRetry(w)
      <3>1. row' = Retried(row, j)
        BY <1>6, <2>3 DEF HandleFailure
      <3>2. row[j].retry + 1 <= MaxRetries
        <4>1. row[j].retry \in Nat
          BY <2>1 DEF Row
        <4>2. row[j].retry < MaxRetries
          BY <2>1, <2>3 DEF ShouldRetry
        <4> QED
          BY <4>1, <4>2
      <3>3. /\ row'[j].retry = row[j].retry + 1
            /\ row'[j].status = "queued"
            /\ \A k \in Jobs \ {j} : row'[k] = row[k]
        BY <2>1, <3>1 DEF Retried, Row
      <3> QED
        BY <2>2, <3>2, <3>3 DEF RetryInv, AbsentIsFresh, RetryRemembered, RetryBounded
    <2>4. CASE ~ShouldRetry(w)
      <3>1. row' = Failed(row, j)
        BY <1>6, <2>4 DEF HandleFailure
      <3>2. RetriesKept
        BY <2>1, <3>1 DEF Failed, Row, RetriesKept
      <3> QED
        BY <2>2, <3>2, KeptRetries
    <2> QED
      BY <2>3, <2>4
  <1>7. ASSUME NEW h \in Handlers, NEW j \in Jobs, NEW a \in BOOLEAN,
               NEW s \in AsyncModes, ApproveGet(h, j, a, s)
        PROVE  RetryInv'
    BY <1>7, KeptRetries DEF ApproveGet, RetriesKept
  <1>8. ASSUME NEW h \in Handlers, HandlerStep(h) \/ HandlerFault(h) \/ AnswerLost(h)
        PROVE  RetryInv'
    BY <1>8, HandlersKeepRetries, KeptRetries
  <1>9. CASE Crash \/ Restart \/ UNCHANGED vars
    <2>1. RetriesKept
      BY <1>9 DEF Crash, Restart, vars, RetriesKept
    <2>2. \A v \in Workers : \/ worker'[v].pc \in {"idle", "dead"}
                             \/ worker'[v] = worker[v]
      BY <1>9 DEF Crash, Restart, vars, IdleWorker
    <2> QED
      BY <2>1, <2>2, KeptRetries
  <1> QED
    BY <1>1, <1>2, <1>3, <1>4, <1>5, <1>6, <1>7, <1>8, <1>9 DEF Next, WorkerStep

(* With the one worker a server process starts, a job is re-queued after an *)
(* exception at most MaxRetries times, whatever the request threads do,     *)
(* synchronously or not (JobWorker._run against _jobs_approve).             *)
THEOREM RetriesAreBounded ==
  ASSUME SoleWorker
  PROVE  Spec => []RetryBounded
  <1>1. Init => RetryInv
    BY DEF Init, RetryInv, AbsentIsFresh, RetryRemembered, RetryBounded,
           AbsentRow, IdleWorker
  <1>2. Typed /\ RetryInv /\ [Next]_vars => RetryInv'
    BY NextRetry
  <1>3. RetryInv => RetryBounded
    BY DEF RetryInv
  <1> QED
    BY <1>1, <1>2, <1>3, AlwaysTyped, PTL DEF Spec

-----------------------------------------------------------------------------
(* Asynchronous decisions only.  Then a request thread executes nothing, and *)
(* the job a worker executes is running until that worker itself ends it,    *)
(* although complete, pause_awaiting_approval and fail look at no status.    *)
AsyncDecisions == AsyncModes = {TRUE}

NoSyncRequest ==
  \A h \in Handlers : /\ handler[h].pc \in {"idle", "read", "selected"}
                      /\ handler[h].async = TRUE

RetryNotAhead ==
  \A w \in Workers : worker[w].pc \notin {"idle", "dead"} =>
                       worker[w].retry <= row[worker[w].job].retry

AsyncInv == NoSyncRequest /\ ExclusiveExecution /\ AbsentIsFresh /\ RetryNotAhead

(* A step that moves job j to status s and adds n retries to it.             *)
Moved(j, s, n) ==
  /\ row'[j].status = s
  /\ row'[j].retry = row[j].retry + n
  /\ \A k \in Jobs \ {j} : row'[k] = row[k]

(* What each statement does to the columns the lifecycle sees.               *)
LEMMA StatementMoves ==
  ASSUME Typed, NEW j \in Jobs, NEW p \in Payload, NEW res \in Result
  PROVE  /\ row' = Inserted(row, j) /\ row[j].retry = 0 => Moved(j, "queued", 0)
         /\ row' = Claimed(row, j) => Moved(j, "running", 0)
         /\ row' = Recorded(row, j, res) =>
              Moved(j, "completed", 0) \/ Moved(j, "awaiting_approval", 0)
         /\ row' = Resumed(row, j, p) => Moved(j, "queued", 0)
         /\ row' = Retried(row, j) => Moved(j, "queued", 1)
         /\ row' = Failed(row, j) => Moved(j, "failed", 0)
  <1> USE DEF Typed, TypeOK, Moved
  <1>1. row[j] \in Row /\ row[j].retry \in Nat
    BY DEF Row
  <1>2. row' = Inserted(row, j) /\ row[j].retry = 0 => Moved(j, "queued", 0)
    BY DEF Inserted, AbsentRow
  <1>3. row' = Claimed(row, j) => Moved(j, "running", 0)
    BY <1>1 DEF Claimed, Row
  <1>4. row' = Recorded(row, j, res) =>
          Moved(j, "completed", 0) \/ Moved(j, "awaiting_approval", 0)
    BY <1>1 DEF Recorded, Completed, Paused, Row
  <1>5. row' = Resumed(row, j, p) => Moved(j, "queued", 0)
    BY <1>1 DEF Resumed, Row
  <1>6. row' = Retried(row, j) => Moved(j, "queued", 1)
    BY <1>1 DEF Retried, Row
  <1>7. row' = Failed(row, j) => Moved(j, "failed", 0)
    BY <1>1 DEF Failed, Row
  <1> QED
    BY <1>2, <1>3, <1>4, <1>5, <1>6, <1>7

(* The move a step makes in the table, if any, and the threads it is made    *)
(* for: the heart of both theorems below.                                    *)
Quiet == row' = row

WorkerEnds(w) ==
  /\ Active(w)
  /\ worker'[w].pc = "idle"
  /\ \A v \in Workers \ {w} : worker'[v] = worker[v]

LEMMA AsyncStep ==
  ASSUME AsyncDecisions, Typed, AsyncInv, [Next]_vars
  PROVE  \/ Quiet
         \/ \E j \in Jobs : /\ row[j].status = "absent"
                            /\ Moved(j, "queued", 0)
                            /\ worker' = worker
         \/ \E w \in Workers : /\ worker[w].pc = "selected"
                               /\ row[worker[w].job].status = "queued"
                               /\ Moved(worker[w].job, "running", 0)
                               /\ worker' = [worker EXCEPT ![w].pc = "executing"]
         \/ \E w \in Workers :
              /\ WorkerEnds(w)
              /\ \/ Moved(worker[w].job, "completed", 0)
                 \/ Moved(worker[w].job, "awaiting_approval", 0)
                 \/ Moved(worker[w].job, "queued", 1)
                 \/ /\ worker[w].retry >= MaxRetries
                    /\ Moved(worker[w].job, "failed", 0)
         \/ \E j \in Jobs : /\ row[j].status = "awaiting_approval"
                            /\ Moved(j, "queued", 0)
                            /\ worker' = worker
  <1> USE DEF Typed, TypeOK, HoldsJob
  <1>1. ASSUME NEW j \in Jobs, Enqueue(j)
        PROVE  row[j].status = "absent" /\ Moved(j, "queued", 0) /\ worker' = worker
    BY <1>1, StatementMoves, ValuesExist DEF Enqueue, AsyncInv, AbsentIsFresh
  <1>2. ASSUME NEW w \in Workers, ClaimUpdate(w)
        PROVE  /\ worker[w].pc = "selected"
               /\ row[worker[w].job].status = "queued"
               /\ Moved(worker[w].job, "running", 0)
               /\ worker' = [worker EXCEPT ![w].pc = "executing"]
    BY <1>2, StatementMoves, ValuesExist DEF ClaimUpdate, CanClaim
  <1>3. ASSUME NEW w \in Workers, Record(w)
        PROVE  /\ WorkerEnds(w)
               /\ \/ Moved(worker[w].job, "completed", 0)
                  \/ Moved(worker[w].job, "awaiting_approval", 0)
    <2>1. WorkerEnds(w)
      BY <1>3 DEF Record, WorkerEnds, Active, IdleWorker
    <2>2. worker[w].job \in Jobs /\ worker[w].result \in Result
      BY <1>3 DEF Record, WorkerState
    <2> QED
      BY <1>3, <2>1, <2>2, StatementMoves, ValuesExist DEF Record
  <1>4. ASSUME NEW w \in Workers, HandleFailure(w)
        PROVE  /\ WorkerEnds(w)
               /\ \/ Moved(worker[w].job, "queued", 1)
                  \/ worker[w].retry >= MaxRetries /\ Moved(worker[w].job, "failed", 0)
    <2>1. WorkerEnds(w)
      BY <1>4 DEF HandleFailure, WorkerEnds, Active, IdleWorker
    <2>2. worker[w].job \in Jobs /\ worker[w].retry \in Nat
      BY <1>4 DEF HandleFailure, WorkerState
    <2>3. CASE ShouldRetry(w)
      BY <1>4, <2>1, <2>2, <2>3, StatementMoves, ValuesExist DEF HandleFailure
    <2>4. CASE ~ShouldRetry(w)
      <3>1. worker[w].retry >= MaxRetries
        BY <2>2, <2>4 DEF ShouldRetry
      <3>2. row' = Failed(row, worker[w].job)
        BY <1>4, <2>4 DEF HandleFailure
      <3> QED
        BY <2>1, <2>2, <3>1, <3>2, StatementMoves, ValuesExist
    <2> QED
      BY <2>3, <2>4
  <1>5. ASSUME NEW w \in Workers,
               ClaimSelect(w) \/ ClaimLost(w) \/ Execute(w) \/ ExecuteRaises(w) \/ Fault(w)
        PROVE  Quiet
    BY <1>5 DEF ClaimSelect, ClaimLost, Execute, ExecuteRaises, Fault, Quiet
  <1>6. ASSUME NEW h \in Handlers, ApproveUpdate(h)
        PROVE  \/ Quiet
               \/ \E j \in Jobs : /\ row[j].status = "awaiting_approval"
                                  /\ Moved(j, "queued", 0)
                                  /\ worker' = worker
    <2>1. handler[h].job \in Jobs /\ handler[h].payload \in Payload
      BY <1>6 DEF ApproveUpdate, HandlerState
    <2> QED
      BY <1>6, <2>1, StatementMoves, ValuesExist DEF ApproveUpdate, CanResume, Quiet
  <1>7. ASSUME NEW h \in Handlers, ApproveSelect(h) \/ HandlerFault(h)
        PROVE  Quiet
    BY <1>7 DEF ApproveSelect, HandlerFault, Quiet
  <1>8. ASSUME NEW h \in Handlers,
               SyncExecute(h) \/ SyncRecord(h) \/ SyncFail(h) \/ AnswerLost(h)
        PROVE  FALSE
    BY <1>8 DEF SyncExecute, SyncRecord, SyncFail, AnswerLost, AsyncInv, NoSyncRequest
  <1>9. ASSUME NEW h \in Handlers, NEW j \in Jobs, NEW a \in BOOLEAN,
               NEW s \in AsyncModes, ApproveGet(h, j, a, s)
        PROVE  Quiet
    BY <1>9 DEF ApproveGet, Quiet
  <1>10. CASE Crash \/ Restart \/ UNCHANGED vars
    BY <1>10 DEF Crash, Restart, vars, Quiet
  <1> QED
    BY <1>1, <1>2, <1>3, <1>4, <1>5, <1>6, <1>7, <1>8, <1>9, <1>10
       DEF Next, WorkerStep, HandlerStep

(* A step that starts no execution and leaves the rows of active workers     *)
(* alone keeps executions exclusive.                                         *)
LEMMA ExclusiveKept ==
  ASSUME Typed, ExclusiveExecution,
         \A v \in Workers : Active(v)' => /\ Active(v)
                                          /\ worker'[v].job = worker[v].job
                                          /\ row'[worker[v].job] = row[worker[v].job]
  PROVE  ExclusiveExecution'
  BY DEF ExclusiveExecution

(* A row that changed its retry count kept or raised it; a worker that still *)
(* remembers one remembers the same one.                                     *)
LEMMA NotAheadKept ==
  ASSUME Typed, RetryNotAhead, row' \in [Jobs -> Row],
         \A j \in Jobs : row'[j].retry >= row[j].retry,
         \A v \in Workers : \/ worker'[v].pc \in {"idle", "dead"}
                            \/ /\ worker[v].pc \notin {"idle", "dead"}
                               /\ worker'[v].job = worker[v].job
                               /\ worker'[v].retry = worker[v].retry
  PROVE  RetryNotAhead'
  <1> SUFFICES ASSUME NEW v \in Workers, worker'[v].pc \notin {"idle", "dead"}
               PROVE  worker'[v].retry <= row'[worker'[v].job].retry
    BY DEF RetryNotAhead
  <1> DEFINE j == worker[v].job
  <1>1. /\ worker[v].pc \notin {"idle", "dead"}
        /\ worker'[v].job = j
        /\ worker'[v].retry = worker[v].retry
        /\ worker[v].retry <= row[j].retry
    BY DEF RetryNotAhead
  <1>2. j \in Jobs /\ worker[v].retry \in Nat
    BY <1>1 DEF Typed, TypeOK, HoldsJob, WorkerState
  <1>3. row[j].retry \in Nat /\ row'[j].retry \in Nat /\ row'[j].retry >= row[j].retry
    BY <1>2 DEF Typed, TypeOK, Row
  <1> HIDE DEF j
  <1> QED
    BY <1>1, <1>2, <1>3

LEMMA MovedRetries ==
  ASSUME Typed, NEW j \in Jobs, NEW s, NEW n \in {0, 1}, Moved(j, s, n)
  PROVE  \A k \in Jobs : row'[k].retry >= row[k].retry
  <1> SUFFICES ASSUME NEW k \in Jobs PROVE row'[k].retry >= row[k].retry
    OBVIOUS
  <1>1. row[k].retry \in Nat /\ row[j].retry \in Nat
    BY DEF Typed, TypeOK, Row
  <1>2. CASE k = j
    BY <1>1, <1>2 DEF Moved
  <1>3. CASE k # j
    BY <1>1, <1>3 DEF Moved
  <1> QED
    BY <1>2, <1>3

LEMMA NextAsync ==
  ASSUME AsyncDecisions, Typed, Typed', AsyncInv, [Next]_vars
  PROVE  AsyncInv'
  <1>1. NoSyncRequest'
    <2> USE DEF Typed, TypeOK, NoSyncRequest
    <2>1. NoSyncRequest
      BY DEF AsyncInv
    <2>2. ASSUME NEW h \in Handlers, NEW j \in Jobs, NEW a \in BOOLEAN,
                 NEW s \in AsyncModes, ApproveGet(h, j, a, s)
          PROVE  NoSyncRequest'
      BY <2>1, <2>2 DEF ApproveGet, IdleHandler, AsyncDecisions
    <2>3. ASSUME NEW h \in Handlers, HandlerStep(h) PROVE NoSyncRequest'
      BY <2>1, <2>3 DEF HandlerStep, ApproveSelect, ApproveUpdate, SyncExecute,
                        SyncRecord, SyncFail, IdleHandler, HandlerState
    <2>4. ASSUME NEW h \in Handlers, HandlerFault(h) \/ AnswerLost(h)
          PROVE  NoSyncRequest'
      BY <2>1, <2>4 DEF HandlerFault, AnswerLost, IdleHandler, HandlerState
    <2>5. CASE Crash
      BY <2>1, <2>5 DEF Crash, IdleHandler
    <2>6. ASSUME handler' = handler PROVE NoSyncRequest'
      BY <2>1, <2>6
    <2>7. ASSUME NEW w \in Workers, WorkerStep(w) \/ Fault(w) PROVE handler' = handler
      BY <2>7 DEF WorkerStep, ClaimSelect, ClaimUpdate, ClaimLost, Execute,
                  ExecuteRaises, Record, HandleFailure, Fault
    <2>8. ASSUME NEW j \in Jobs, Enqueue(j) PROVE handler' = handler
      BY <2>8 DEF Enqueue
    <2>9. CASE Restart \/ UNCHANGED vars
      BY <2>1, <2>9 DEF Restart, vars
    <2> QED
      BY <2>2, <2>3, <2>4, <2>5, <2>6, <2>7, <2>8, <2>9 DEF Next
  <1>2. AbsentIsFresh'
    <2> USE DEF Typed, TypeOK, HoldsJob
    <2>1. AbsentIsFresh
      BY DEF AsyncInv
    <2>2. ASSUME NEW j \in Jobs, NEW s, NEW n \in {0, 1}, s # "absent", Moved(j, s, n)
          PROVE  AbsentIsFresh'
      BY <2>1, <2>2 DEF AbsentIsFresh, Moved
    <2>3. CASE Quiet
      BY <2>1, <2>3 DEF Quiet, AbsentIsFresh
    <2>4. \A w \in Workers : worker[w].pc = "selected" \/ Active(w) => worker[w].job \in Jobs
      BY DEF Active
    <2> QED
      BY <2>2, <2>3, <2>4, AsyncStep DEF WorkerEnds
  <1>3. ExclusiveExecution'
    <2>1. ExclusiveExecution
      BY DEF AsyncInv
    <2>2. ASSUME NEW j \in Jobs, row[j].status # "running", NEW s, NEW n \in {0, 1},
                 Moved(j, s, n), worker' = worker
          PROVE  ExclusiveExecution'
      BY <2>1, <2>2 DEF ExclusiveExecution, Moved, Active, Typed, HoldsJob
    <2>3. ASSUME NEW w \in Workers, worker[w].pc = "selected",
                 row[worker[w].job].status = "queued",
                 Moved(worker[w].job, "running", 0),
                 worker' = [worker EXCEPT ![w].pc = "executing"]
          PROVE  ExclusiveExecution'
      <3>1. worker[w].job \in Jobs
        BY <2>3 DEF Typed, HoldsJob
      <3>2. /\ worker'[w].job = worker[w].job
            /\ \A v \in Workers \ {w} : worker'[v] = worker[v]
        BY <2>3 DEF Typed, TypeOK, WorkerState
      <3>3. \A v \in Workers \ {w} : Active(v) =>
              /\ worker[v].job # worker[w].job
              /\ row'[worker[v].job] = row[worker[v].job]
        BY <2>1, <2>3, <3>1 DEF ExclusiveExecution, Moved, Active, Typed, HoldsJob
      <3> QED
        BY <2>1, <2>3, <3>1, <3>2, <3>3 DEF ExclusiveExecution, Moved, Active
    <2>4. ASSUME NEW w \in Workers, WorkerEnds(w), NEW s, NEW n \in {0, 1},
                 Moved(worker[w].job, s, n)
          PROVE  ExclusiveExecution'
      <3>1. worker[w].job \in Jobs
        BY <2>4 DEF WorkerEnds, Active, Typed, HoldsJob
      <3>2. \A v \in Workers : Active(v)' => v # w /\ Active(v) /\ worker'[v] = worker[v]
        BY <2>4 DEF WorkerEnds, Active
      <3>3. \A v \in Workers \ {w} : Active(v) =>
              row'[worker[v].job] = row[worker[v].job]
        BY <2>1, <2>4, <3>1 DEF ExclusiveExecution, WorkerEnds, Moved, Active, Typed, HoldsJob
      <3> QED
        BY <2>1, <3>2, <3>3, ExclusiveKept
    <2>5. CASE Quiet
      <3> USE DEF Typed, TypeOK, HoldsJob
      <3>1. ASSUME \A v \in Workers : Active(v)' =>
                     Active(v) /\ worker'[v].job = worker[v].job
            PROVE  ExclusiveExecution'
        BY <2>1, <2>5, <3>1, ExclusiveKept DEF Quiet
      <3>2. ASSUME NEW w \in Workers, WorkerStep(w) \/ Fault(w)
            PROVE  ExclusiveExecution'
        <4>1. CASE ClaimUpdate(w)
          BY <2>5, <4>1 DEF ClaimUpdate, CanClaim, Claimed, Quiet, Row
        <4>2. CASE ~ClaimUpdate(w)
          <5>1. \A v \in Workers : Active(v)' => Active(v) /\ worker'[v].job = worker[v].job
            <6> USE DEF Active, IdleWorker
            <6>1. CASE ClaimSelect(w)
              BY <6>1 DEF ClaimSelect
            <6>2. CASE ClaimLost(w) \/ Record(w) \/ HandleFailure(w)
              BY <6>2 DEF ClaimLost, Record, HandleFailure
            <6>3. CASE Execute(w) \/ ExecuteRaises(w)
              BY <6>3 DEF Execute, ExecuteRaises, WorkerState
            <6>4. CASE Fault(w)
              BY <6>4 DEF Fault, WorkerState
            <6> QED
              BY <3>2, <4>2, <6>1, <6>2, <6>3, <6>4 DEF WorkerStep
          <5> QED
            BY <3>1, <5>1
        <4> QED
          BY <4>1, <4>2
      <3>3. CASE Crash \/ Restart
        BY <3>1, <3>3 DEF Crash, Restart, Active, IdleWorker
      <3>4. ASSUME worker' = worker PROVE ExclusiveExecution'
        BY <3>1, <3>4 DEF Active
      <3>5. ASSUME NEW h \in Handlers, HandlerStep(h) \/ HandlerFault(h) \/ AnswerLost(h)
            PROVE  worker' = worker
        BY <3>5, HandlersKeepRetries
      <3>6. ASSUME NEW h \in Handlers, NEW j \in Jobs, NEW a \in BOOLEAN,
                   NEW s \in AsyncModes, ApproveGet(h, j, a, s)
            PROVE  worker' = worker
        BY <3>6 DEF ApproveGet
      <3>7. ASSUME NEW j \in Jobs, Enqueue(j) PROVE worker' = worker
        BY <3>7 DEF Enqueue
      <3>8. CASE UNCHANGED vars
        BY <3>4, <3>8 DEF vars
      <3> QED
        BY <3>2, <3>3, <3>4, <3>5, <3>6, <3>7, <3>8 DEF Next
    <2> QED
      BY <2>2, <2>3, <2>4, <2>5, AsyncStep
  <1>4. RetryNotAhead'
    <2> USE DEF Typed, TypeOK, HoldsJob
    <2>1. RetryNotAhead
      BY DEF AsyncInv
    <2>2. \A j \in Jobs : row'[j].retry >= row[j].retry
      <3>1. CASE Quiet
        BY <3>1 DEF Quiet, Row
      <3>2. \A w \in Workers : worker[w].pc = "selected" \/ Active(w) => worker[w].job \in Jobs
        BY DEF Active
      <3> QED
        BY <3>1, <3>2, AsyncStep, MovedRetries DEF WorkerEnds
    <2>3. ASSUME NEW w \in Workers, ClaimSelect(w) PROVE RetryNotAhead'
      <3>1. PICK j \in Jobs :
              worker' = [worker EXCEPT ![w] =
                          [IdleWorker EXCEPT !.pc = "selected", !.job = j,
                                             !.payload = row[j].payload,
                                             !.retry = row[j].retry]]
        BY <2>3 DEF ClaimSelect, Oldest
      <3>2. /\ worker'[w].job = j /\ worker'[w].retry = row[j].retry
            /\ \A v \in Workers \ {w} : worker'[v] = worker[v]
        BY <3>1 DEF IdleWorker
      <3>3. row' = row /\ row[j].retry <= row[j].retry
        BY <2>3 DEF ClaimSelect, Row
      <3> QED
        BY <2>1, <3>2, <3>3 DEF RetryNotAhead
    <2>4. ASSUME \A v \in Workers : \/ worker'[v].pc \in {"idle", "dead"}
                                    \/ /\ worker[v].pc \notin {"idle", "dead"}
                                       /\ worker'[v].job = worker[v].job
                                       /\ worker'[v].retry = worker[v].retry
          PROVE  RetryNotAhead'
      BY <2>1, <2>2, <2>4, NotAheadKept
    <2>5. ASSUME NEW w \in Workers,
                 \/ ClaimUpdate(w) \/ ClaimLost(w) \/ Execute(w) \/ ExecuteRaises(w)
                 \/ Record(w) \/ HandleFailure(w) \/ Fault(w)
          PROVE  RetryNotAhead'
      <3>1. \A v \in Workers : \/ worker'[v].pc \in {"idle", "dead"}
                               \/ /\ worker[v].pc \notin {"idle", "dead"}
                                  /\ worker'[v].job = worker[v].job
                                  /\ worker'[v].retry = worker[v].retry
        BY <2>5 DEF ClaimUpdate, ClaimLost, Execute, ExecuteRaises, Record,
                    HandleFailure, Fault, IdleWorker, WorkerState
      <3> QED
        BY <2>4, <3>1
    <2>6. ASSUME worker' = worker PROVE RetryNotAhead'
      BY <2>4, <2>6
    <2>7. ASSUME NEW h \in Handlers, HandlerStep(h) \/ HandlerFault(h) \/ AnswerLost(h)
          PROVE  worker' = worker
      BY <2>7, HandlersKeepRetries
    <2>8. ASSUME NEW h \in Handlers, NEW j \in Jobs, NEW a \in BOOLEAN,
                 NEW s \in AsyncModes, ApproveGet(h, j, a, s)
          PROVE  worker' = worker
      BY <2>8 DEF ApproveGet
    <2>9. ASSUME NEW j \in Jobs, Enqueue(j) PROVE worker' = worker
      BY <2>9 DEF Enqueue
    <2>10. CASE Crash \/ Restart
      BY <2>4, <2>10 DEF Crash, Restart, IdleWorker
    <2>11. CASE UNCHANGED vars
      BY <2>6, <2>11 DEF vars
    <2> QED
      BY <2>3, <2>5, <2>6, <2>7, <2>8, <2>9, <2>10, <2>11 DEF Next, WorkerStep
  <1> QED
    BY <1>1, <1>2, <1>3, <1>4 DEF AsyncInv

LEMMA AlwaysAsync ==
  ASSUME AsyncDecisions
  PROVE  Spec => []AsyncInv
  <1>1. Init => AsyncInv
    BY DEF Init, AsyncInv, NoSyncRequest, ExclusiveExecution, AbsentIsFresh,
           RetryNotAhead, AbsentRow, IdleWorker, IdleHandler, Active
  <1>2. Typed /\ Typed' /\ AsyncInv /\ [Next]_vars => AsyncInv'
    BY NextAsync
  <1> QED
    BY <1>1, <1>2, AlwaysTyped, PTL DEF Spec

(* With asynchronous decisions, no two workers ever execute the same job,    *)
(* and the job a worker executes is running: however many workers share the  *)
(* table, and across crashes and database errors.                            *)
THEOREM ExecutionIsExclusive ==
  ASSUME AsyncDecisions
  PROVE  Spec => []ExclusiveExecution
  <1>1. AsyncInv => ExclusiveExecution
    BY DEF AsyncInv
  <1> QED
    BY <1>1, AlwaysAsync, PTL

-----------------------------------------------------------------------------
(* The lifecycle of JobLifecycle, column by column.                          *)
LEMMA MoveIsMove ==
  ASSUME Typed, NEW j \in Jobs, NEW s, NEW n \in {0, 1}, Moved(j, s, n)
  PROVE  /\ Lifecycle!Move(j, row[j].status, s)
         /\ n = 0 => UNCHANGED [k \in Jobs |-> row[k].retry]
         /\ n = 1 => [k \in Jobs |-> row[k].retry]'
                       = [[k \in Jobs |-> row[k].retry] EXCEPT ![j] = @ + 1]
  <1>1. [k \in Jobs |-> row[k].status]'
          = [[k \in Jobs |-> row[k].status] EXCEPT ![j] = s]
    BY DEF Moved
  <1>2. Lifecycle!Move(j, row[j].status, s)
    BY <1>1 DEF Lifecycle!Move
  <1>3. row[j].retry \in Nat
    BY DEF Typed, TypeOK, Row
  <1>4. ASSUME n = 0 PROVE UNCHANGED [k \in Jobs |-> row[k].retry]
    <2>1. \A k \in Jobs : row'[k].retry = row[k].retry
      BY <1>3, <1>4 DEF Moved
    <2> QED
      BY <2>1
  <1>5. ASSUME n = 1
        PROVE  [k \in Jobs |-> row[k].retry]'
                 = [[k \in Jobs |-> row[k].retry] EXCEPT ![j] = @ + 1]
    BY <1>3, <1>5 DEF Moved
  <1> QED
    BY <1>2, <1>4, <1>5

LEMMA LifecycleStep ==
  ASSUME AsyncDecisions, Typed, AsyncInv, [Next]_vars
  PROVE  [Lifecycle!Next]_(Lifecycle!vars)
  <1>1. CASE Quiet
    BY <1>1 DEF Quiet, Lifecycle!vars
  <1>2. ASSUME NEW j \in Jobs, row[j].status = "absent", Moved(j, "queued", 0)
        PROVE  Lifecycle!Submit(j)
    BY <1>2, MoveIsMove DEF Lifecycle!Submit
  <1>3. ASSUME NEW j \in Jobs, row[j].status = "queued", Moved(j, "running", 0)
        PROVE  Lifecycle!Claim(j)
    BY <1>3, MoveIsMove DEF Lifecycle!Claim
  <1>4. ASSUME NEW j \in Jobs, row[j].status = "awaiting_approval",
               Moved(j, "queued", 0)
        PROVE  Lifecycle!Decide(j)
    BY <1>4, MoveIsMove DEF Lifecycle!Decide
  <1>5. ASSUME NEW j \in Jobs, row[j].status = "running", Moved(j, "completed", 0)
        PROVE  Lifecycle!Complete(j)
    BY <1>5, MoveIsMove DEF Lifecycle!Complete
  <1>6. ASSUME NEW j \in Jobs, row[j].status = "running",
               Moved(j, "awaiting_approval", 0)
        PROVE  Lifecycle!Pause(j)
    BY <1>6, MoveIsMove DEF Lifecycle!Pause
  <1>7. ASSUME NEW j \in Jobs, row[j].status = "running", Moved(j, "queued", 1)
        PROVE  Lifecycle!Retry(j)
    BY <1>7, MoveIsMove DEF Lifecycle!Retry
  <1>8. ASSUME NEW j \in Jobs, row[j].status = "running", Moved(j, "failed", 0),
               row[j].retry >= MaxRetries
        PROVE  Lifecycle!Fail(j)
    BY <1>8, MoveIsMove DEF Lifecycle!Fail
  <1>9. ASSUME NEW w \in Workers, Active(w)
        PROVE  /\ worker[w].job \in Jobs
               /\ row[worker[w].job].status = "running"
               /\ worker[w].retry >= MaxRetries => row[worker[w].job].retry >= MaxRetries
    <2>1. worker[w].job \in Jobs /\ row[worker[w].job].status = "running"
      BY <1>9 DEF AsyncInv, ExclusiveExecution, Active, Typed, HoldsJob
    <2>2. worker[w].retry <= row[worker[w].job].retry
      BY <1>9 DEF AsyncInv, RetryNotAhead, Active
    <2>3. worker[w].retry \in Nat /\ row[worker[w].job].retry \in Nat
      BY <2>1 DEF Typed, TypeOK, WorkerState, Row
    <2> QED
      BY <2>1, <2>2, <2>3
  <1>10. \A w \in Workers : worker[w].pc = "selected" => worker[w].job \in Jobs
    BY DEF Typed, HoldsJob
  <1>11. Quiet \/ Lifecycle!Next
    BY AsyncStep, <1>2, <1>3, <1>4, <1>5, <1>6, <1>7, <1>8, <1>9, <1>10
       DEF Lifecycle!Next, WorkerEnds
  <1> QED
    BY <1>1, <1>11

(* With asynchronous decisions the service implements the job lifecycle: an  *)
(* ended job stays ended, a job fails only once its retries are used, only a *)
(* decision moves a paused job (ImplementsLifecycle is Lifecycle!Spec).      *)
THEOREM ServiceImplementsLifecycle ==
  ASSUME AsyncDecisions
  PROVE  Spec => ImplementsLifecycle
  <1>1. Init => Lifecycle!Init
    BY DEF Init, Lifecycle!Init, AbsentRow
  <1>2. Typed /\ AsyncInv /\ [Next]_vars => [Lifecycle!Next]_(Lifecycle!vars)
    BY LifecycleStep
  <1> QED
    BY <1>1, <1>2, AlwaysTyped, AlwaysAsync, PTL
       DEF Spec, ImplementsLifecycle, Lifecycle!Spec

-----------------------------------------------------------------------------
(* Approval gates.  Whoever holds a payload of gate g, in a row or in a      *)
(* thread, holds a decision of an operator about g, and every gate before g  *)
(* was approved and executed; a pause at gate g says so of the gates before. *)
(* D and S stand for the decisions made and the payloads started.            *)
Passed(D, S, j, g) ==
  \A i \in 0 .. MaxGates :
    i < g => LET d == [job |-> j, gate |-> i, approved |-> TRUE]
             IN  d \in S /\ (i # 0 => d \in D)

Backed(D, S, j, p) == /\ Passed(D, S, j, p.gate)
                      /\ p.gate # 0 => Of(j, p) \in D

BackedResult(D, S, j, res) ==
  res.final = "awaiting_approval" => res.gate \in Gates /\ Passed(D, S, j, res.gate)

RowBacked(D, S, j, r) ==
  /\ Backed(D, S, j, r.payload)
  /\ BackedResult(D, S, j, r.result)
  /\ r.status = "awaiting_approval" => r.result.final = "awaiting_approval"

ThreadBacked(D, S, t) ==
  /\ t.pc \notin {"idle", "dead"} => Backed(D, S, t.job, t.payload)
  /\ t.pc \in {"executing", "recording"} => Of(t.job, t.payload) \in S
  /\ t.pc = "recording" => BackedResult(D, S, t.job, t.result)

StartedBacked(D, S) ==
  \A d \in S : Passed(D, S, d.job, d.gate) /\ (d.gate # 0 => d \in D)

GateInv == /\ \A j \in Jobs : RowBacked(decided, started, j, row[j])
           /\ \A w \in Workers : ThreadBacked(decided, started, worker[w])
           /\ \A h \in Handlers : ThreadBacked(decided, started, handler[h])
           /\ StartedBacked(decided, started)

(* What was backed stays backed as the history grows.                        *)
LEMMA BackedStays ==
  ASSUME NEW D, NEW S, NEW D2, NEW S2, D \subseteq D2, S \subseteq S2
  PROVE  /\ \A j, g : Passed(D, S, j, g) => Passed(D2, S2, j, g)
         /\ \A j, p : Backed(D, S, j, p) => Backed(D2, S2, j, p)
         /\ \A j, res : BackedResult(D, S, j, res) => BackedResult(D2, S2, j, res)
         /\ \A j, r : RowBacked(D, S, j, r) => RowBacked(D2, S2, j, r)
         /\ \A t : ThreadBacked(D, S, t) => ThreadBacked(D2, S2, t)
  <1>1. \A j, g : Passed(D, S, j, g) => Passed(D2, S2, j, g)
    BY DEF Passed
  <1>2. \A j, p : Backed(D, S, j, p) => Backed(D2, S2, j, p)
    BY <1>1 DEF Backed
  <1>3. \A j, res : BackedResult(D, S, j, res) => BackedResult(D2, S2, j, res)
    BY <1>1 DEF BackedResult
  <1>4. \A j, r : RowBacked(D, S, j, r) => RowBacked(D2, S2, j, r)
    BY <1>2, <1>3 DEF RowBacked
  <1>5. \A t : ThreadBacked(D, S, t) => ThreadBacked(D2, S2, t)
    BY <1>2, <1>3 DEF ThreadBacked
  <1> QED
    BY <1>1, <1>2, <1>3, <1>4, <1>5

(* Starting a backed payload keeps the history backed.                       *)
LEMMA StartIsBacked ==
  ASSUME NEW D, NEW S, StartedBacked(D, S),
         NEW j \in Jobs, NEW p \in Payload, Backed(D, S, j, p)
  PROVE  StartedBacked(D, S \cup {Of(j, p)})
  <1> DEFINE T == S \cup {Of(j, p)}
  <1> SUFFICES ASSUME NEW d \in T
               PROVE  Passed(D, T, d.job, d.gate) /\ (d.gate # 0 => d \in D)
    BY DEF StartedBacked
  <1>1. CASE d \in S
    BY <1>1, BackedStays DEF StartedBacked
  <1>2. CASE d = Of(j, p)
    <2>1. d.job = j /\ d.gate = p.gate
      BY <1>2 DEF Of
    <2> QED
      BY <1>2, <2>1, BackedStays DEF Backed
  <1> QED
    BY <1>1, <1>2

(* An execution of a backed payload returns a backed result: it pauses at    *)
(* the next gate only if the payload passed the one it comes from.           *)
LEMMA ResultIsBacked ==
  ASSUME NEW D, NEW S, NEW j \in Jobs, NEW p \in Payload,
         Backed(D, S, j, p), Of(j, p) \in S, NEW res \in Results(p)
  PROVE  BackedResult(D, S, j, res)
  <1> SUFFICES ASSUME res.final = "awaiting_approval"
               PROVE  res.gate \in Gates /\ Passed(D, S, j, res.gate)
    BY DEF BackedResult
  <1>1. p.approved /\ res.gate \in Gates /\ res.gate = p.gate + 1
    BY ResultsAreResults
  <1>2. p.gate \in 0 .. MaxGates /\ p.approved = TRUE
    BY <1>1 DEF Payload
  <1>3. Of(j, p) = [job |-> j, gate |-> p.gate, approved |-> TRUE]
    BY <1>2 DEF Of
  <1>4. ASSUME NEW i \in 0 .. MaxGates, i < res.gate
        PROVE  i < p.gate \/ i = p.gate
    BY <1>1, <1>2, <1>4
  <1> QED
    BY <1>1, <1>3, <1>4 DEF Passed, Backed

LEMMA HistoryStays ==
  ASSUME decided \subseteq decided', started \subseteq started'
  PROVE  /\ \A j, g : Passed(decided, started, j, g) => Passed(decided', started', j, g)
         /\ \A j, p : Backed(decided, started, j, p) => Backed(decided', started', j, p)
         /\ \A j, r : RowBacked(decided, started, j, r) => RowBacked(decided', started', j, r)
  BY BackedStays

(* A step keeps the invariant if the history grows and whatever it changes   *)
(* is backed.                                                                *)
LEMMA GateKept ==
  ASSUME GateInv, decided \subseteq decided', started \subseteq started',
         StartedBacked(decided', started'),
         \A j \in Jobs : row'[j] = row[j] \/ RowBacked(decided', started', j, row'[j]),
         \A w \in Workers :
           worker'[w] = worker[w] \/ ThreadBacked(decided', started', worker'[w]),
         \A h \in Handlers :
           handler'[h] = handler[h] \/ ThreadBacked(decided', started', handler'[h])
  PROVE  GateInv'
  <1>1. \A j \in Jobs : RowBacked(decided', started', j, row'[j])
    BY BackedStays DEF GateInv
  <1>2. \A w \in Workers : ThreadBacked(decided', started', worker'[w])
    BY BackedStays DEF GateInv
  <1>3. \A h \in Handlers : ThreadBacked(decided', started', handler'[h])
    BY BackedStays DEF GateInv
  <1> QED
    BY <1>1, <1>2, <1>3 DEF GateInv

LEMMA IdleIsBacked ==
  \A D, S : /\ ThreadBacked(D, S, IdleWorker)
            /\ ThreadBacked(D, S, [IdleWorker EXCEPT !.pc = "dead"])
            /\ ThreadBacked(D, S, IdleHandler)
            /\ \A j : RowBacked(D, S, j, AbsentRow)
  BY JobQueueAssumption DEF ThreadBacked, IdleWorker, IdleHandler, RowBacked, AbsentRow, Backed,
     BackedResult, Passed, RunPayload, NoResult

(* Storing a backed result, and a change of status to anything but           *)
(* awaiting_approval, leave every row backed.                                *)
LEMMA RecordKeepsGates ==
  ASSUME Typed, GateInv, NEW j \in Jobs, NEW res \in Result,
         BackedResult(decided, started, j, res), row' = Recorded(row, j, res)
  PROVE  \A k \in Jobs : row'[k] = row[k] \/ RowBacked(decided, started, k, row'[k])
  <1>1. row[j] \in Row /\ RowBacked(decided, started, j, row[j])
    BY DEF Typed, TypeOK, GateInv
  <1>2. row'[j] = [row[j] EXCEPT !.status = IF res.final = "awaiting_approval"
                                            THEN "awaiting_approval" ELSE "completed",
                                 !.result = res]
    BY <1>1 DEF Recorded, Completed, Paused, Typed, TypeOK, Row
  <1>3. RowBacked(decided, started, j, row'[j])
    BY <1>1, <1>2 DEF RowBacked, Row
  <1>4. \A k \in Jobs \ {j} : row'[k] = row[k]
    BY DEF Recorded, Completed, Paused, Typed, TypeOK
  <1> QED
    BY <1>3, <1>4

LEMMA StatusKeepsGates ==
  ASSUME Typed, GateInv, NEW j \in Jobs,
         \/ row' = Claimed(row, j)
         \/ row' = Failed(row, j)
         \/ row' = Retried(row, j)
  PROVE  \A k \in Jobs : row'[k] = row[k] \/ RowBacked(decided, started, k, row'[k])
  <1>1. row[j] \in Row /\ RowBacked(decided, started, j, row[j])
    BY DEF Typed, TypeOK, GateInv
  <1>2. /\ row'[j].status # "awaiting_approval"
        /\ row'[j].payload = row[j].payload
        /\ row'[j].result = row[j].result
    BY <1>1 DEF Claimed, Failed, Retried, Typed, TypeOK, Row
  <1>3. RowBacked(decided, started, j, row'[j])
    BY <1>1, <1>2 DEF RowBacked
  <1>4. \A k \in Jobs \ {j} : row'[k] = row[k]
    BY DEF Claimed, Failed, Retried, Typed, TypeOK
  <1> QED
    BY <1>3, <1>4

LEMMA NextGate ==
  ASSUME Typed, GateInv, [Next]_vars
  PROVE  GateInv'
  <1> USE DEF Typed, TypeOK, HoldsJob, history
  <1>0. StartedBacked(decided, started)
    BY DEF GateInv
  <1>1. ASSUME NEW j \in Jobs, Enqueue(j) PROVE GateInv'
    <2>1. row'[j].payload = RunPayload /\ row'[j].result = NoResult
            /\ row'[j].status = "queued"
      BY <1>1 DEF Enqueue, Inserted, AbsentRow
    <2>2. RowBacked(decided, started, j, row'[j])
      BY <2>1, JobQueueAssumption DEF RowBacked, Backed, BackedResult, Passed, RunPayload, NoResult
    <2>3. \A k \in Jobs : row'[k] = row[k] \/ RowBacked(decided, started, k, row'[k])
      BY <1>1, <2>2 DEF Enqueue, Inserted
    <2> QED
      BY <1>0, <1>1, <2>3, GateKept DEF Enqueue
  <1>2. ASSUME NEW w \in Workers, ClaimSelect(w) PROVE GateInv'
    <2>1. PICK j \in Jobs :
            worker' = [worker EXCEPT ![w] =
                        [IdleWorker EXCEPT !.pc = "selected", !.job = j,
                                           !.payload = row[j].payload,
                                           !.retry = row[j].retry]]
      BY <1>2 DEF ClaimSelect, Oldest
    <2>2. /\ worker'[w].pc = "selected" /\ worker'[w].job = j
          /\ worker'[w].payload = row[j].payload
      BY <2>1 DEF IdleWorker
    <2>3. ThreadBacked(decided, started, worker'[w])
      BY <2>2 DEF ThreadBacked, GateInv, RowBacked
    <2>4. \A v \in Workers : worker'[v] = worker[v] \/ ThreadBacked(decided, started, worker'[v])
      BY <2>1, <2>3
    <2> QED
      BY <1>0, <1>2, <2>4, GateKept DEF ClaimSelect
  <1>3. ASSUME NEW w \in Workers, ClaimUpdate(w) PROVE GateInv'
    <2> DEFINE j == worker[w].job
               p == worker[w].payload
    <2>1. j \in Jobs /\ p \in Payload /\ Backed(decided, started, j, p)
      BY <1>3 DEF ClaimUpdate, WorkerState, GateInv, ThreadBacked
    <2>2. started' = started \cup {Of(j, p)} /\ decided' = decided
      BY <1>3 DEF ClaimUpdate
    <2>3. StartedBacked(decided', started')
      BY <1>0, <2>1, <2>2, StartIsBacked
    <2>4. /\ worker'[w].pc = "executing" /\ worker'[w].job = j /\ worker'[w].payload = p
          /\ \A v \in Workers \ {w} : worker'[v] = worker[v]
      BY <1>3 DEF ClaimUpdate, WorkerState
    <2>9. decided \subseteq decided' /\ started \subseteq started' /\ Of(j, p) \in started'
      BY <2>2
    <2>10. Backed(decided', started', j, p)
      BY <2>1, <2>9, HistoryStays
    <2>5. ThreadBacked(decided', started', worker'[w])
      BY <2>4, <2>9, <2>10 DEF ThreadBacked
    <2>6. \A k \in Jobs : row'[k] = row[k] \/ RowBacked(decided, started, k, row'[k])
      BY <1>3, <2>1, StatusKeepsGates DEF ClaimUpdate
    <2>7. \A k \in Jobs : row'[k] = row[k] \/ RowBacked(decided', started', k, row'[k])
      BY <2>6, <2>9, HistoryStays
    <2>8. \A v \in Workers : worker'[v] = worker[v] \/ ThreadBacked(decided', started', worker'[v])
      BY <2>4, <2>5
    <2> QED
      BY <1>3, <2>2, <2>3, <2>7, <2>8, GateKept DEF ClaimUpdate
  <1>4. ASSUME NEW w \in Workers, ClaimLost(w) PROVE GateInv'
    BY <1>0, <1>4, IdleIsBacked, GateKept DEF ClaimLost
  <1>5. ASSUME NEW w \in Workers, Execute(w) PROVE GateInv'
    <2> DEFINE j == worker[w].job
               p == worker[w].payload
    <2>1. PICK res \in Results(p) :
            worker' = [worker EXCEPT ![w].pc = "recording", ![w].result = res]
      BY <1>5 DEF Execute
    <2>2. /\ j \in Jobs /\ p \in Payload /\ Backed(decided, started, j, p)
          /\ Of(j, p) \in started
      BY <1>5 DEF Execute, WorkerState, GateInv, ThreadBacked
    <2>3. BackedResult(decided, started, j, res)
      BY <2>2, ResultIsBacked
    <2>4. /\ worker'[w].job = j /\ worker'[w].payload = p /\ worker'[w].result = res
          /\ \A v \in Workers \ {w} : worker'[v] = worker[v]
      BY <2>1 DEF WorkerState
    <2>5. ThreadBacked(decided, started, worker'[w])
      BY <2>2, <2>3, <2>4 DEF ThreadBacked
    <2>6. \A v \in Workers : worker'[v] = worker[v] \/ ThreadBacked(decided, started, worker'[v])
      BY <2>4, <2>5
    <2> QED
      BY <1>0, <1>5, <2>6, GateKept DEF Execute
  <1>6. ASSUME NEW w \in Workers, ExecuteRaises(w) PROVE GateInv'
    <2>1. /\ worker'[w].pc = "raised" /\ worker'[w].job = worker[w].job
          /\ worker'[w].payload = worker[w].payload
          /\ \A v \in Workers \ {w} : worker'[v] = worker[v]
      BY <1>6 DEF ExecuteRaises, WorkerState
    <2>2. ThreadBacked(decided, started, worker'[w])
      BY <1>6, <2>1 DEF ExecuteRaises, GateInv, ThreadBacked
    <2>3. \A v \in Workers : worker'[v] = worker[v] \/ ThreadBacked(decided, started, worker'[v])
      BY <2>1, <2>2
    <2> QED
      BY <1>0, <1>6, <2>3, GateKept DEF ExecuteRaises
  <1>7. ASSUME NEW w \in Workers, Record(w) PROVE GateInv'
    <2>1. /\ worker[w].job \in Jobs /\ worker[w].result \in Result
          /\ BackedResult(decided, started, worker[w].job, worker[w].result)
      BY <1>7 DEF Record, WorkerState, GateInv, ThreadBacked
    <2>2. \A k \in Jobs : row'[k] = row[k] \/ RowBacked(decided, started, k, row'[k])
      BY <1>7, <2>1, RecordKeepsGates DEF Record
    <2>3. \A v \in Workers : worker'[v] = worker[v] \/ ThreadBacked(decided, started, worker'[v])
      BY <1>7, IdleIsBacked DEF Record
    <2> QED
      BY <1>0, <1>7, <2>2, <2>3, GateKept DEF Record
  <1>8. ASSUME NEW w \in Workers, HandleFailure(w) PROVE GateInv'
    <2>1. \A k \in Jobs : row'[k] = row[k] \/ RowBacked(decided, started, k, row'[k])
      BY <1>8, StatusKeepsGates DEF HandleFailure
    <2>2. \A v \in Workers : worker'[v] = worker[v] \/ ThreadBacked(decided, started, worker'[v])
      BY <1>8, IdleIsBacked DEF HandleFailure
    <2> QED
      BY <1>0, <1>8, <2>1, <2>2, GateKept DEF HandleFailure
  <1>9. ASSUME NEW w \in Workers, Fault(w) PROVE GateInv'
    <2>1. CASE worker' = [worker EXCEPT ![w].pc = "raised"] /\ worker[w].pc = "recording"
      <3>1. /\ worker'[w].pc = "raised" /\ worker'[w].job = worker[w].job
            /\ worker'[w].payload = worker[w].payload
            /\ \A v \in Workers \ {w} : worker'[v] = worker[v]
        BY <2>1 DEF WorkerState
      <3>2. ThreadBacked(decided, started, worker'[w])
        BY <2>1, <3>1 DEF GateInv, ThreadBacked
      <3>3. \A v \in Workers : worker'[v] = worker[v] \/ ThreadBacked(decided, started, worker'[v])
        BY <3>1, <3>2
      <3> QED
        BY <1>0, <1>9, <3>3, GateKept DEF Fault
    <2>2. CASE worker' = [worker EXCEPT ![w] = [IdleWorker EXCEPT !.pc = "dead"]]
      <3>1. \A v \in Workers : worker'[v] = worker[v] \/ ThreadBacked(decided, started, worker'[v])
        BY <2>2, IdleIsBacked
      <3> QED
        BY <1>0, <1>9, <3>1, GateKept DEF Fault
    <2> QED
      BY <1>9, <2>1, <2>2 DEF Fault
  <1>10. ASSUME NEW h \in Handlers, NEW j \in Jobs, NEW a \in BOOLEAN,
                NEW s \in AsyncModes, ApproveGet(h, j, a, s)
         PROVE  GateInv'
    <2> DEFINE p == [gate |-> row[j].result.gate, approved |-> a]
    <2>1. /\ handler' = [handler EXCEPT ![h] =
                          [IdleHandler EXCEPT !.pc = "read", !.job = j,
                                              !.payload = p, !.async = s]]
          /\ decided' = decided \cup {Of(j, p)}
          /\ started' = started
          /\ row[j].status = "awaiting_approval"
      BY <1>10 DEF ApproveGet
    <2>2. Passed(decided, started, j, p.gate)
      BY <2>1 DEF GateInv, RowBacked, BackedResult
    <2>8. decided \subseteq decided' /\ started \subseteq started' /\ Of(j, p) \in decided'
      BY <2>1
    <2>9. Passed(decided', started', j, p.gate)
      BY <2>2, <2>8, HistoryStays
    <2>3. Backed(decided', started', j, p)
      BY <2>8, <2>9 DEF Backed
    <2>4. /\ handler'[h].pc = "read" /\ handler'[h].job = j /\ handler'[h].payload = p
          /\ \A k \in Handlers \ {h} : handler'[k] = handler[k]
      BY <2>1 DEF IdleHandler
    <2>5. ThreadBacked(decided', started', handler'[h])
      BY <2>3, <2>4 DEF ThreadBacked
    <2>6. \A k \in Handlers : handler'[k] = handler[k] \/ ThreadBacked(decided', started', handler'[k])
      BY <2>4, <2>5
    <2>7. StartedBacked(decided', started')
      BY <1>0, <2>1, <2>8, HistoryStays DEF StartedBacked
    <2> QED
      BY <1>10, <2>1, <2>6, <2>7, GateKept DEF ApproveGet
  <1>11. ASSUME NEW h \in Handlers, ApproveSelect(h) PROVE GateInv'
    <2>1. CASE handler' = [handler EXCEPT ![h].pc = "selected"]
      <3>1. /\ handler'[h].pc = "selected" /\ handler'[h].job = handler[h].job
            /\ handler'[h].payload = handler[h].payload
            /\ \A k \in Handlers \ {h} : handler'[k] = handler[k]
        BY <2>1 DEF HandlerState
      <3>2. ThreadBacked(decided, started, handler'[h])
        BY <1>11, <3>1 DEF ApproveSelect, GateInv, ThreadBacked
      <3>3. \A k \in Handlers : handler'[k] = handler[k] \/ ThreadBacked(decided, started, handler'[k])
        BY <3>1, <3>2
      <3> QED
        BY <1>0, <1>11, <3>3, GateKept DEF ApproveSelect
    <2>2. CASE handler' = [handler EXCEPT ![h] = IdleHandler]
      <3>1. \A k \in Handlers : handler'[k] = handler[k] \/ ThreadBacked(decided, started, handler'[k])
        BY <2>2, IdleIsBacked
      <3> QED
        BY <1>0, <1>11, <3>1, GateKept DEF ApproveSelect
    <2> QED
      BY <1>11, <2>1, <2>2 DEF ApproveSelect
  <1>12. ASSUME NEW h \in Handlers, ApproveUpdate(h) PROVE GateInv'
    <2> DEFINE j == handler[h].job
               p == handler[h].payload
    <2>1. j \in Jobs /\ p \in Payload /\ Backed(decided, started, j, p)
      BY <1>12 DEF ApproveUpdate, HandlerState, GateInv, ThreadBacked
    <2>2. \A k \in Jobs : row'[k] = row[k] \/ RowBacked(decided, started, k, row'[k])
      <3>1. CASE row' = row
        BY <3>1
      <3>2. CASE row' = Resumed(row, j, p)
        <4>1. /\ row'[j].payload = p /\ row'[j].status = "queued" /\ row'[j].result = NoResult
              /\ \A k \in Jobs \ {j} : row'[k] = row[k]
          BY <2>1, <3>2 DEF Resumed, Row
        <4>2. RowBacked(decided, started, j, row'[j])
          BY <2>1, <4>1 DEF RowBacked, BackedResult, NoResult
        <4> QED
          BY <4>1, <4>2
      <3> QED
        BY <1>12, <3>1, <3>2 DEF ApproveUpdate
    <2>3. CASE handler[h].async
      <3>1. \A k \in Handlers : handler'[k] = handler[k] \/ ThreadBacked(decided, started, handler'[k])
        BY <1>12, <2>3, IdleIsBacked DEF ApproveUpdate
      <3> QED
        BY <1>0, <1>12, <2>2, <2>3, <3>1, GateKept DEF ApproveUpdate
    <2>4. CASE ~handler[h].async
      <3>1. started' = started \cup {Of(j, p)} /\ decided' = decided /\ worker' = worker
              /\ handler' = [handler EXCEPT ![h].pc = "executing"]
        BY <1>12, <2>4 DEF ApproveUpdate
      <3>2. StartedBacked(decided', started')
        BY <1>0, <2>1, <3>1, StartIsBacked
      <3>3. /\ handler'[h].pc = "executing" /\ handler'[h].job = j /\ handler'[h].payload = p
            /\ \A k \in Handlers \ {h} : handler'[k] = handler[k]
        BY <3>1 DEF HandlerState
      <3>7. decided \subseteq decided' /\ started \subseteq started' /\ Of(j, p) \in started'
        BY <3>1
      <3>8. Backed(decided', started', j, p)
        BY <2>1, <3>7, HistoryStays
      <3>4. ThreadBacked(decided', started', handler'[h])
        BY <3>3, <3>7, <3>8 DEF ThreadBacked
      <3>5. \A k \in Jobs : row'[k] = row[k] \/ RowBacked(decided', started', k, row'[k])
        BY <2>2, <3>7, HistoryStays
      <3>6. \A k \in Handlers : handler'[k] = handler[k] \/ ThreadBacked(decided', started', handler'[k])
        BY <3>3, <3>4
      <3> QED
        BY <3>1, <3>2, <3>5, <3>6, GateKept
    <2> QED
      BY <2>3, <2>4
  <1>13. ASSUME NEW h \in Handlers, SyncExecute(h) PROVE GateInv'
    <2> DEFINE j == handler[h].job
               p == handler[h].payload
    <2>1. /\ j \in Jobs /\ p \in Payload /\ Backed(decided, started, j, p)
          /\ Of(j, p) \in started
      BY <1>13 DEF SyncExecute, HandlerState, GateInv, ThreadBacked
    <2>2. ThreadBacked(decided, started, handler'[h])
      <3>1. CASE handler' = [handler EXCEPT ![h].pc = "raised"]
        <4>1. handler'[h].pc = "raised" /\ handler'[h].job = j /\ handler'[h].payload = p
          BY <3>1 DEF HandlerState
        <4> QED
          BY <2>1, <4>1 DEF ThreadBacked
      <3>2. ASSUME NEW res \in Results(p),
                   handler' = [handler EXCEPT ![h].pc = "recording", ![h].result = res]
            PROVE  ThreadBacked(decided, started, handler'[h])
        <4>1. /\ handler'[h].job = j /\ handler'[h].payload = p
              /\ handler'[h].result = res
          BY <3>2 DEF HandlerState
        <4>2. BackedResult(decided, started, j, res)
          BY <2>1, ResultIsBacked
        <4> QED
          BY <2>1, <4>1, <4>2 DEF ThreadBacked
      <3> QED
        BY <1>13, <3>1, <3>2 DEF SyncExecute
    <2>3. \A k \in Handlers : handler'[k] = handler[k] \/ ThreadBacked(decided, started, handler'[k])
      BY <1>13, <2>2 DEF SyncExecute
    <2> QED
      BY <1>0, <1>13, <2>3, GateKept DEF SyncExecute
  <1>14. ASSUME NEW h \in Handlers, SyncRecord(h) PROVE GateInv'
    <2>1. /\ handler[h].job \in Jobs /\ handler[h].result \in Result
          /\ BackedResult(decided, started, handler[h].job, handler[h].result)
      BY <1>14 DEF SyncRecord, HandlerState, GateInv, ThreadBacked
    <2>2. \A k \in Jobs : row'[k] = row[k] \/ RowBacked(decided, started, k, row'[k])
      BY <1>14, <2>1, RecordKeepsGates DEF SyncRecord
    <2>3. \A k \in Handlers : handler'[k] = handler[k] \/ ThreadBacked(decided, started, handler'[k])
      BY <1>14, IdleIsBacked DEF SyncRecord
    <2> QED
      BY <1>0, <1>14, <2>2, <2>3, GateKept DEF SyncRecord
  <1>15. ASSUME NEW h \in Handlers, SyncFail(h) PROVE GateInv'
    <2>1. \A k \in Jobs : row'[k] = row[k] \/ RowBacked(decided, started, k, row'[k])
      BY <1>15, StatusKeepsGates DEF SyncFail
    <2>2. \A k \in Handlers : handler'[k] = handler[k] \/ ThreadBacked(decided, started, handler'[k])
      BY <1>15, IdleIsBacked DEF SyncFail
    <2> QED
      BY <1>0, <1>15, <2>1, <2>2, GateKept DEF SyncFail
  <1>16. ASSUME NEW h \in Handlers, HandlerFault(h) PROVE GateInv'
    <2>1. CASE handler' = [handler EXCEPT ![h].pc = "raised"] /\ handler[h].pc = "recording"
      <3>1. /\ handler'[h].pc = "raised" /\ handler'[h].job = handler[h].job
            /\ handler'[h].payload = handler[h].payload
            /\ \A k \in Handlers \ {h} : handler'[k] = handler[k]
        BY <2>1 DEF HandlerState
      <3>2. ThreadBacked(decided, started, handler'[h])
        BY <2>1, <3>1 DEF GateInv, ThreadBacked
      <3>3. \A k \in Handlers : handler'[k] = handler[k] \/ ThreadBacked(decided, started, handler'[k])
        BY <3>1, <3>2
      <3> QED
        BY <1>0, <1>16, <3>3, GateKept DEF HandlerFault
    <2>2. CASE handler' = [handler EXCEPT ![h] = IdleHandler]
      <3>1. \A k \in Handlers : handler'[k] = handler[k] \/ ThreadBacked(decided, started, handler'[k])
        BY <2>2, IdleIsBacked
      <3> QED
        BY <1>0, <1>16, <3>1, GateKept DEF HandlerFault
    <2> QED
      BY <1>16, <2>1, <2>2 DEF HandlerFault
  <1>20. ASSUME NEW h \in Handlers, AnswerLost(h) PROVE GateInv'
    <2>1. /\ handler[h].job \in Jobs /\ handler[h].result \in Result
          /\ BackedResult(decided, started, handler[h].job, handler[h].result)
      BY <1>20 DEF AnswerLost, HandlerState, GateInv, ThreadBacked
    <2>2. \A k \in Jobs : row'[k] = row[k] \/ RowBacked(decided, started, k, row'[k])
      BY <1>20, <2>1, RecordKeepsGates DEF AnswerLost
    <2>3. /\ handler'[h].pc = "raised" /\ handler'[h].job = handler[h].job
          /\ handler'[h].payload = handler[h].payload
          /\ \A k \in Handlers \ {h} : handler'[k] = handler[k]
      BY <1>20 DEF AnswerLost, HandlerState
    <2>4. ThreadBacked(decided, started, handler'[h])
      BY <1>20, <2>3 DEF GateInv, ThreadBacked, AnswerLost
    <2>5. \A k \in Handlers : handler'[k] = handler[k] \/ ThreadBacked(decided, started, handler'[k])
      BY <2>3, <2>4
    <2> QED
      BY <1>0, <1>20, <2>2, <2>5, GateKept DEF AnswerLost
  <1>17. CASE Crash
    <2>1. /\ \A w \in Workers : ThreadBacked(decided, started, worker'[w])
          /\ \A h \in Handlers : ThreadBacked(decided, started, handler'[h])
      BY <1>17, IdleIsBacked DEF Crash
    <2> QED
      BY <1>0, <1>17, <2>1, GateKept DEF Crash
  <1>18. CASE Restart
    <2>1. \A w \in Workers : ThreadBacked(decided, started, worker'[w])
      BY <1>18, IdleIsBacked DEF Restart
    <2> QED
      BY <1>0, <1>18, <2>1, GateKept DEF Restart
  <1>19. CASE UNCHANGED vars
    BY <1>0, <1>19, GateKept DEF vars
  <1> QED
    BY <1>1, <1>2, <1>3, <1>4, <1>5, <1>6, <1>7, <1>8, <1>9, <1>10, <1>11,
       <1>12, <1>13, <1>14, <1>15, <1>16, <1>17, <1>18, <1>19, <1>20
       DEF Next, WorkerStep, HandlerStep

LEMMA AlwaysGated == Spec => []GateInv
  <1>1. Init => GateInv
    <2> SUFFICES ASSUME Init PROVE GateInv
      OBVIOUS
    <2>1. \A j \in Jobs : RowBacked(decided, started, j, row[j])
      BY IdleIsBacked DEF Init
    <2>2. \A w \in Workers : ThreadBacked(decided, started, worker[w])
      BY IdleIsBacked DEF Init
    <2>3. \A h \in Handlers : ThreadBacked(decided, started, handler[h])
      BY IdleIsBacked DEF Init
    <2>4. StartedBacked(decided, started)
      BY DEF Init, StartedBacked
    <2> QED
      BY <2>1, <2>2, <2>3, <2>4 DEF GateInv
  <1>2. Typed /\ GateInv /\ [Next]_vars => GateInv'
    BY NextGate
  <1> QED
    BY <1>1, <1>2, AlwaysTyped, PTL DEF Spec

(* No execution goes past an approval pause that was not approved, and none  *)
(* skips one: in every interleaving of any number of workers and requests,   *)
(* synchronous ones included, and across crashes.                            *)
THEOREM GatesAreKept == Spec => []NoGateSkipped
  <1>1. Typed /\ GateInv => NoGateSkipped
    <2> SUFFICES ASSUME Typed, GateInv, NEW d \in started, d.gate # 0
                 PROVE  /\ d \in decided
                        /\ \A g \in 1 .. d.gate - 1 :
                             [job |-> d.job, gate |-> g, approved |-> TRUE]
                               \in decided \cap started
      BY DEF NoGateSkipped
    <2>1. d \in decided /\ Passed(decided, started, d.job, d.gate)
      BY DEF GateInv, StartedBacked
    <2>2. d.gate \in 0 .. MaxGates
      BY DEF Typed, TypeOK, Decision
    <2>3. ASSUME NEW g \in 1 .. d.gate - 1
          PROVE  g \in 0 .. MaxGates /\ g < d.gate /\ g # 0
      BY <2>2, JobQueueAssumption
    <2> QED
      BY <2>1, <2>3 DEF Passed
  <1> QED
    BY <1>1, AlwaysTyped, AlwaysGated, PTL

(* A job that waits for approval can be decided, under the same conditions.  *)
THEOREM PausesCanBeDecided == Spec => []PausedCanBeDecided
  <1>1. GateInv => PausedCanBeDecided
    <2> SUFFICES ASSUME GateInv, NEW j \in Jobs, row[j].status = "awaiting_approval"
                 PROVE  /\ row[j].result.final = "awaiting_approval"
                        /\ row[j].result.gate \in Gates
                        /\ [job |-> j, gate |-> row[j].result.gate - 1,
                            approved |-> TRUE] \in started
      BY DEF PausedCanBeDecided
    <2>1. /\ row[j].result.final = "awaiting_approval"
          /\ row[j].result.gate \in Gates
          /\ Passed(decided, started, j, row[j].result.gate)
      BY DEF GateInv, RowBacked, BackedResult
    <2>2. /\ row[j].result.gate - 1 \in 0 .. MaxGates
          /\ row[j].result.gate - 1 < row[j].result.gate
      BY <2>1, JobQueueAssumption DEF Gates
    <2> QED
      BY <2>1, <2>2 DEF Passed
  <1> QED
    BY <1>1, AlwaysGated, PTL
=============================================================================
