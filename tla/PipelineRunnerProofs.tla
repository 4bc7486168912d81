------------------------ MODULE PipelineRunnerProofs ------------------------
(***************************************************************************)
(* Proofs about PipelineRunner, for every number of steps, every set of     *)
(* documents and requests and any number of pauses.                         *)
(***************************************************************************)
EXTENDS PipelineRunner, SequenceTheorems, FiniteSetTheorems, TLAPS

USE PipelineAssumption

-----------------------------------------------------------------------------
(* The orders of a set of steps are sequences of its elements.              *)
LEMMA OrdersOfSteps ==
  ASSUME NEW T \in SUBSET Steps, NEW q \in SetToSeqs(T)
  PROVE  q \in Seq(T) /\ \A i \in DOMAIN q : q[i] \in T
  <1>1. IsFiniteSet(Steps)
    BY FS_Interval DEF Steps
  <1>2. Cardinality(T) \in Nat
    BY <1>1, FS_Subset, FS_CardinalityType
  <1>3. q \in [1 .. Cardinality(T) -> T]
    BY DEF SetToSeqs
  <1> QED
    BY <1>2, <1>3

(* Where a step leads are steps, and so are the entries.                    *)
LEMMA TargetsAreSteps ==
  ASSUME TypeOK, NEW s \in Steps
  PROVE  /\ OnSuccess(s) \subseteq Steps
         /\ OnFailure(s) \subseteq Steps
         /\ AfterFailure(s) \subseteq OnSuccess(s) \cup OnFailure(s)
  <1>1. doc \in Document
    BY DEF TypeOK, doc
  <1>2. doc.step[s] \in Step /\ doc.edges \in SUBSET Edge
    BY <1>1 DEF Document
  <1>3. OnSuccess(s) \subseteq Steps
    BY <1>2 DEF OnSuccess, Step, Edge, NoStep
  <1>4. OnFailure(s) \subseteq Steps
    BY <1>2 DEF OnFailure, Step, Edge, NoStep
  <1> QED
    BY <1>3, <1>4 DEF AfterFailure

LEMMA EntriesAreSteps ==
  ASSUME TypeOK
  PROVE  Entries \subseteq Steps
  BY DEF Entries, Steps

(* The step in front, what is left behind it and what is enqueued.          *)
LEMMA QueueSteps ==
  ASSUME TypeOK, queue # <<>>, NEW T \in SUBSET Steps, NEW q \in Enqueued(T)
  PROVE  /\ Current \in Steps /\ 1 \in DOMAIN queue /\ Current = queue[1]
         /\ q \in Seq(Steps)
         /\ \A i \in DOMAIN q : q[i] \in T \/ \E j \in DOMAIN queue : q[i] = queue[j]
  <1> USE DEF TypeOK
  <1>1. PICK r \in SetToSeqs(T) : q = Tail(queue) \o r
    BY DEF Enqueued
  <1>2. r \in Seq(Steps) /\ \A i \in DOMAIN r : r[i] \in T
    <2>1. r \in Seq(T) /\ \A i \in DOMAIN r : r[i] \in T
      BY <1>1, OrdersOfSteps
    <2> QED
      BY <2>1
  <1>3. /\ Tail(queue) \in Seq(Steps)
        /\ Len(Tail(queue)) = Len(queue) - 1
        /\ \A i \in 1 .. Len(Tail(queue)) : Tail(queue)[i] = queue[i + 1]
    BY HeadTailProperties
  <1>4. /\ q \in Seq(Steps)
        /\ Len(q) = Len(Tail(queue)) + Len(r)
        /\ \A i \in 1 .. Len(q) :
             q[i] = IF i <= Len(Tail(queue)) THEN Tail(queue)[i]
                                             ELSE r[i - Len(Tail(queue))]
    BY <1>1, <1>2, <1>3, ConcatProperties
  <1>5. Len(queue) \in Nat \ {0}
    BY EmptySeq
  <1>8. DOMAIN queue = 1 .. Len(queue)
    BY LenProperties
  <1>6. Current \in Steps /\ 1 \in DOMAIN queue /\ Current = queue[1]
    <2>1. Current \in Steps
      BY HeadTailProperties DEF Current
    <2>2. 1 \in DOMAIN queue
      BY <1>5
    <2> QED
      BY <2>1, <2>2 DEF Current
  <1>7. ASSUME NEW i \in DOMAIN q
        PROVE  q[i] \in T \/ \E j \in DOMAIN queue : q[i] = queue[j]
    <2>1. i \in 1 .. Len(q) /\ Len(r) \in Nat
      BY <1>2, <1>4
    <2>2. CASE i <= Len(Tail(queue))
      <3>1. i \in 1 .. Len(Tail(queue))
        BY <1>3, <1>5, <2>1, <2>2
      <3>2. q[i] = queue[i + 1]
        BY <1>3, <1>4, <2>1, <2>2, <3>1
      <3>3. i + 1 \in 1 .. Len(queue)
        BY <1>3, <1>5, <3>1
      <3>4. DOMAIN queue = 1 .. Len(queue)
        BY <1>8
      <3> QED
        BY <3>2, <3>3, <3>4
    <2>3. CASE ~(i <= Len(Tail(queue)))
      <3>1. i - Len(Tail(queue)) \in DOMAIN r
        BY <1>2, <1>3, <1>4, <1>5, <2>1, <2>3
      <3> QED
        BY <1>2, <1>4, <2>1, <2>3, <3>1
    <2> QED
      BY <2>2, <2>3
  <1> QED
    BY <1>4, <1>6, <1>7

-----------------------------------------------------------------------------
(* TypeOK is inductive once the pauses are typed: a run that awaits an      *)
(* approval awaits it at a step.                                            *)
Awaited == status = "awaiting_approval" => pausedAt \in Steps

Typed == TypeOK /\ Awaited

LEMMA AppendedTrace ==
  ASSUME NEW tr \in [Steps -> Seq(Statuses)], NEW s \in Steps, NEW o \in Statuses
  PROVE  [tr EXCEPT ![s] = Append(@, o)] \in [Steps -> Seq(Statuses)]
  <1>1. Append(tr[s], o) \in Seq(Statuses)
    BY AppendProperties
  <1> QED
    BY <1>1

LEMMA FilledTrace ==
  ASSUME NEW tr \in [Steps -> Seq(Statuses)]
  PROVE  Filled(tr) \in [Steps -> Seq(Statuses)]
  <1>1. "unreached" \in Statuses
    BY DEF Statuses
  <1>2. <<"unreached">> \in Seq(Statuses)
    BY <1>1
  <1> QED
    BY <1>2 DEF Filled

(* The local state after a step that is done with.                          *)
LEMMA DoneTypes ==
  ASSUME TypeOK, queue # <<>>, NEW o \in Statuses, o \in {"succeeded", "failed", "skipped"},
         NEW T \in SUBSET Steps, Done(o, T)
  PROVE  /\ Current \in Steps
         /\ queue' \in Seq(Steps)
         /\ visited' \subseteq Steps
         /\ trace' \in [Steps -> Seq(Statuses)]
         /\ previous' \in {"none", "succeeded", "failed", "skipped"}
  <1>1. T \ Visit(Current) \in SUBSET Steps
    OBVIOUS
  <1>2. queue' \in Enqueued(T \ Visit(Current))
    BY DEF Done
  <1>3. Current \in Steps /\ queue' \in Seq(Steps)
    BY <1>1, <1>2, QueueSteps
  <1>4. visited' \subseteq Steps
    BY <1>3 DEF Done, Visit, TypeOK
  <1>5. trace' \in [Steps -> Seq(Statuses)]
    BY <1>3, AppendedTrace DEF Done, TypeOK
  <1> QED
    BY <1>3, <1>4, <1>5 DEF Done

LEMMA InitTyped ==
  ASSUME Init
  PROVE  Typed
  <1>1. case \in [doc: Document, request: Request]
    BY DEF Init
  <1>2. Entries \subseteq Steps
    BY DEF Entries, Steps
  <1>3. queue \in Seq(Steps)
    <2>1. queue \in SetToSeqs(Entries)
      BY DEF Init
    <2>2. queue \in Seq(Entries)
      BY <1>2, <2>1, OrdersOfSteps
    <2> QED
      BY <1>2, <2>2
  <1>4. auto \in BOOLEAN /\ profile \in Profile
    BY <1>1 DEF Init, Request, Profile, DocumentProfile
  <1>5. trace \in [Steps -> Seq(Statuses)]
    BY DEF Init
  <1>6. /\ status = "running" /\ error = "none" /\ visited = {} /\ previous = "none"
        /\ opened = NoStep /\ pausedAt = NoStep /\ judged = "none"
        /\ pauses = 0 /\ approved = {}
    BY DEF Init
  <1> QED
    BY <1>1, <1>3, <1>4, <1>5, <1>6 DEF Typed, TypeOK, Awaited, Profile

(* Every way to be done with a step leaves it with one of its targets.      *)
LEMMA FreshQueue ==
  ASSUME TypeOK, Fresh
  PROVE  queue # <<>> /\ Current \in Steps /\ status = "running" /\ Current \notin visited
  <1>1. queue # <<>> /\ queue \in Seq(Steps)
    BY DEF Fresh, TypeOK
  <1>2. Head(queue) \in Steps
    BY <1>1, HeadTailProperties
  <1> QED
    BY <1>1, <1>2 DEF Fresh, Current

LEMMA DoneKeepsTypes ==
  ASSUME Typed, Fresh, NEW o \in {"succeeded", "failed", "skipped"},
         NEW T \in SUBSET Steps, Done(o, T),
         opened' \in Steps \cup {NoStep}, UNCHANGED history
  PROVE  Typed'
  <1>1. /\ queue' \in Seq(Steps) /\ visited' \subseteq Steps
        /\ trace' \in [Steps -> Seq(Statuses)]
        /\ previous' \in {"none", "succeeded", "failed", "skipped"}
    BY FreshQueue, DoneTypes DEF Typed, Statuses
  <1>2. UNCHANGED <<case, status, error, auto, profile, pausedAt, judged, pauses, approved>>
    BY DEF Done, call, history
  <1> QED
    BY <1>1, <1>2 DEF Typed, TypeOK, Awaited

LEMMA ReturnKeepsTypes ==
  ASSUME Typed, NEW final \in {"succeeded", "failed"},
         NEW why \in {"none", "step", "cycle", "attest", "claim", "rejected"},
         Return(final, why),
         trace' \in [Steps -> Seq(Statuses)],
         previous' \in {"none", "succeeded", "failed", "skipped"},
         judged' \in Profile,
         UNCHANGED <<case, call, pausedAt, history>>
  PROVE  Typed'
  <1>1. /\ status' = final /\ error' = why /\ queue' = <<>> /\ visited' = {}
        /\ opened' = NoStep
    BY DEF Return
  <1>2. UNCHANGED <<case, auto, profile, pausedAt, pauses, approved>>
    BY DEF call, history
  <1>3. queue' \in Seq(Steps)
    BY <1>1
  <1> QED
    BY <1>1, <1>2, <1>3 DEF Typed, TypeOK, Awaited

LEMMA StepTyped ==
  ASSUME Typed, [Next]_vars
  PROVE  Typed'
  <1> USE DEF Typed
  <1>1. CASE Skip
    <2>1. OnSuccess(Current) \subseteq Steps /\ opened' \in Steps \cup {NoStep}
      BY <1>1, FreshQueue, TargetsAreSteps DEF Skip, TypeOK
    <2> QED
      BY <1>1, <2>1, DoneKeepsTypes DEF Skip
  <1>2. CASE StepSucceeds
    <2>1. OnSuccess(Current) \subseteq Steps /\ opened' \in Steps \cup {NoStep}
      BY <1>2, FreshQueue, TargetsAreSteps DEF StepSucceeds, TypeOK
    <2> QED
      BY <1>2, <2>1, DoneKeepsTypes DEF StepSucceeds
  <1>3. CASE StepFails
    <2>1. AfterFailure(Current) \subseteq Steps /\ opened' \in Steps \cup {NoStep}
      BY <1>3, FreshQueue, TargetsAreSteps DEF StepFails, TypeOK
    <2> QED
      BY <1>3, <2>1, DoneKeepsTypes DEF StepFails
  <1>4. CASE PassGate
    <2>1. OnSuccess(Current) \subseteq Steps /\ opened' \in Steps \cup {NoStep}
      BY <1>4, FreshQueue, TargetsAreSteps DEF PassGate
    <2> QED
      BY <1>4, <2>1, DoneKeepsTypes DEF PassGate
  <1>5. CASE Pause
    <2>1. Current \in Steps
      BY <1>5, FreshQueue DEF Pause
    <2>2. trace' \in [Steps -> Seq(Statuses)]
      BY <1>5, <2>1, AppendedTrace DEF Pause, TypeOK, Statuses
    <2>3. /\ status' = "awaiting_approval" /\ error' = "none" /\ queue' = <<>>
          /\ visited' = {} /\ opened' = NoStep /\ pausedAt' = Current
      BY <1>5 DEF Pause, Return
    <2>4. UNCHANGED <<case, previous, auto, profile, judged, pauses, approved>>
      BY <1>5 DEF Pause, call, history
    <2>5. queue' \in Seq(Steps)
      BY <2>3
    <2> QED
      BY <2>1, <2>2, <2>3, <2>4, <2>5 DEF TypeOK, Awaited
  <1>6. CASE StepStops
    <2>1. Current \in Steps
      BY <1>6, FreshQueue DEF StepStops
    <2>2. trace' \in [Steps -> Seq(Statuses)]
      BY <1>6, <2>1, AppendedTrace, FilledTrace DEF StepStops, TypeOK, Statuses
    <2>3. judged' \in Profile /\ previous' = "failed" /\ Return("failed", "step")
      BY <1>6 DEF StepStops, TypeOK
    <2> QED
      BY <1>6, <2>2, <2>3, ReturnKeepsTypes DEF StepStops
  <1>7. CASE CycleDetected
    <2>1. trace' \in [Steps -> Seq(Statuses)]
      BY <1>7, FilledTrace DEF CycleDetected, TypeOK
    <2>2. judged' \in Profile /\ previous' \in {"none", "succeeded", "failed", "skipped"}
      BY <1>7 DEF CycleDetected, TypeOK
    <2> QED
      BY <1>7, <2>1, <2>2, ReturnKeepsTypes DEF CycleDetected
  <1>8. CASE Finish
    <2>1. trace' \in [Steps -> Seq(Statuses)]
      BY <1>8, FilledTrace DEF Finish, TypeOK
    <2>2. judged' \in Profile /\ previous' \in {"none", "succeeded", "failed", "skipped"}
      BY <1>8 DEF Finish, TypeOK
    <2>3. Return("failed", "attest") \/ Return("succeeded", "none") \/ Return("failed", "claim")
      BY <1>8 DEF Finish
    <2> QED
      BY <1>8, <2>1, <2>2, <2>3, ReturnKeepsTypes DEF Finish
  <1>9. CASE Approve
    <2>1. pausedAt \in Steps
      BY <1>9 DEF Approve, Awaited
    <2>2. queue' \in Seq(Steps)
      BY <1>9, <2>1 DEF Approve, Seeded
    <2>3. auto' \in BOOLEAN /\ profile' \in Profile
      BY <1>9 DEF Approve, ResumedAuto, ResumedProfile, DocumentProfile, Profile
    <2>4. /\ status' = "running" /\ visited' = {} /\ opened' = pausedAt /\ pausedAt' = NoStep
          /\ pauses < MaxPauses /\ pauses' = pauses + 1 /\ approved' = approved \cup {pausedAt}
          /\ UNCHANGED <<case, error, previous, trace, judged>>
      BY <1>9 DEF Approve
    <2> QED
      BY <2>1, <2>2, <2>3, <2>4 DEF TypeOK, Awaited
  <1>10. CASE Reject
    <2>1. /\ status' = "failed" /\ error' = "rejected" /\ pausedAt' = NoStep
          /\ pauses < MaxPauses /\ pauses' = pauses + 1
          /\ UNCHANGED <<case, queue, visited, previous, opened, auto, profile, trace, judged,
                         approved>>
      BY <1>10 DEF Reject, loop, call
    <2> QED
      BY <2>1 DEF TypeOK, Awaited
  <1>11. CASE UNCHANGED vars
    BY <1>11 DEF vars, loop, call, history, TypeOK, Awaited
  <1> QED
    BY <1>1, <1>2, <1>3, <1>4, <1>5, <1>6, <1>7, <1>8, <1>9, <1>10, <1>11
       DEF Next, RunnerStep

LEMMA AlwaysTyped == Spec => []Typed
  <1>1. Init => Typed
    BY InitTyped
  <1>2. Typed /\ [Next]_vars => Typed'
    BY StepTyped
  <1> QED
    BY <1>1, <1>2, PTL DEF Spec

(* The variables of every run keep their types; in particular a call that   *)
(* resumes a pause always has a step to go on from                          *)
(* (resume_pipeline_approval).                                              *)
THEOREM TypeCorrect == Spec => []TypeOK
  <1>1. Typed => TypeOK
    BY DEF Typed
  <1> QED
    BY <1>1, AlwaysTyped, PTL

-----------------------------------------------------------------------------
(* What a step writes into a trace.                                         *)
Occurs(tr, s, o) == \E i \in DOMAIN tr[s] : tr[s][i] = o

Outcomes == {"succeeded", "failed", "skipped"}

LEMMA AppendedOccurs ==
  ASSUME NEW tr \in [Steps -> Seq(Statuses)], NEW s \in Steps, NEW o \in Statuses,
         NEW t \in Steps, NEW p
  PROVE  Occurs([tr EXCEPT ![s] = Append(@, o)], t, p)
           <=> Occurs(tr, t, p) \/ (t = s /\ p = o)
  <1> DEFINE new == [tr EXCEPT ![s] = Append(@, o)]
  <1>1. CASE t # s
    BY <1>1 DEF Occurs
  <1>2. CASE t = s
    <2>1. new[t] = Append(tr[s], o) /\ tr[s] \in Seq(Statuses)
      BY <1>2
    <2>2. /\ DOMAIN tr[s] = 1 .. Len(tr[s]) /\ Len(tr[s]) \in Nat
          /\ DOMAIN new[t] = 1 .. (Len(tr[s]) + 1)
          /\ \A i \in 1 .. Len(tr[s]) : new[t][i] = tr[s][i]
          /\ new[t][Len(tr[s]) + 1] = o
      BY <2>1, AppendProperties, LenProperties
    <2>3. \A i \in DOMAIN new[t] : i \in DOMAIN tr[s] \/ i = Len(tr[s]) + 1
      BY <2>2
    <2>4. Len(tr[s]) + 1 \in DOMAIN new[t] /\ DOMAIN tr[s] \subseteq DOMAIN new[t]
      BY <2>2
    <2>5. Occurs(new, t, p) => Occurs(tr, t, p) \/ p = o
      BY <1>2, <2>2, <2>3 DEF Occurs
    <2>6. Occurs(tr, t, p) \/ p = o => Occurs(new, t, p)
      BY <1>2, <2>2, <2>4 DEF Occurs
    <2> QED
      BY <1>2, <2>5, <2>6
  <1> QED
    BY <1>1, <1>2

LEMMA FilledOccurs ==
  ASSUME NEW tr \in [Steps -> Seq(Statuses)], NEW t \in Steps, NEW p, p # "unreached"
  PROVE  Occurs(Filled(tr), t, p) <=> Occurs(tr, t, p)
  <1>1. CASE tr[t] = <<>>
    <2>1. Filled(tr)[t] = <<"unreached">>
      BY <1>1 DEF Filled
    <2>2. ~Occurs(Filled(tr), t, p)
      BY <2>1 DEF Occurs
    <2>3. ~Occurs(tr, t, p)
      BY <1>1 DEF Occurs
    <2> QED
      BY <2>2, <2>3
  <1>2. CASE tr[t] # <<>>
    BY <1>2 DEF Filled, Occurs
  <1> QED
    BY <1>1, <1>2

(* What a step of the run adds to the outcomes in the trace.                *)
LEMMA DoneOutcomes ==
  ASSUME TypeOK, Fresh, NEW o \in Outcomes, NEW T, Done(o, T),
         NEW t \in Steps, NEW p
  PROVE  Has(t, p)' <=> Has(t, p) \/ (t = Current /\ p = o)
  <1>1. /\ trace \in [Steps -> Seq(Statuses)] /\ Current \in Steps /\ o \in Statuses
        /\ trace' = [trace EXCEPT ![Current] = Append(@, o)]
    BY FreshQueue DEF TypeOK, Done, Statuses, Outcomes
  <1>2. Occurs(trace', t, p) <=> Occurs(trace, t, p) \/ (t = Current /\ p = o)
    BY <1>1, AppendedOccurs
  <1> QED
    BY <1>2 DEF Has, Occurs

LEMMA OtherOutcomes ==
  ASSUME TypeOK,
         Pause \/ CycleDetected \/ Finish \/ Approve \/ Reject \/ UNCHANGED vars,
         NEW t \in Steps, NEW p \in Outcomes
  PROVE  Has(t, p)' <=> Has(t, p)
  <1>1. p # "unreached" /\ p # "awaiting_approval" /\ trace \in [Steps -> Seq(Statuses)]
    BY DEF Outcomes, TypeOK
  <1>2. CASE Pause
    <2>1. /\ Current \in Steps /\ "awaiting_approval" \in Statuses
          /\ trace' = [trace EXCEPT ![Current] = Append(@, "awaiting_approval")]
      BY <1>2, FreshQueue DEF Pause, Statuses
    <2>2. Occurs(trace', t, p)
            <=> Occurs(trace, t, p) \/ (t = Current /\ p = "awaiting_approval")
      BY <1>1, <2>1, AppendedOccurs
    <2> QED
      BY <1>1, <2>2 DEF Has, Occurs
  <1>3. CASE CycleDetected \/ Finish
    <2>1. trace' = Filled(trace)
      BY <1>3 DEF CycleDetected, Finish
    <2>2. Occurs(trace', t, p) <=> Occurs(trace, t, p)
      BY <1>1, <2>1, FilledOccurs
    <2> QED
      BY <2>2 DEF Has, Occurs
  <1>4. CASE Approve \/ Reject \/ UNCHANGED vars
    <2>1. trace' = trace
      BY <1>4 DEF Approve, Reject, vars
    <2> QED
      BY <2>1 DEF Has
  <1> QED
    BY <1>2, <1>3, <1>4

LEMMA StopOutcomes ==
  ASSUME TypeOK, StepStops, NEW t \in Steps, NEW p \in Outcomes
  PROVE  Has(t, p)' <=> Has(t, p) \/ (t = Current /\ p = "failed")
  <1> DEFINE new == [trace EXCEPT ![Current] = Append(@, "failed")]
  <1>1. p # "unreached" /\ trace \in [Steps -> Seq(Statuses)] /\ "failed" \in Statuses
    BY DEF Outcomes, TypeOK, Statuses
  <1>2. Current \in Steps /\ trace' = Filled(new)
    BY FreshQueue DEF StepStops
  <1>3. new \in [Steps -> Seq(Statuses)]
    BY <1>1, <1>2, AppendedTrace
  <1>4. Occurs(new, t, p) <=> Occurs(trace, t, p) \/ (t = Current /\ p = "failed")
    BY <1>1, <1>2, AppendedOccurs
  <1> HIDE DEF new
  <1>5. Occurs(trace', t, p) <=> Occurs(new, t, p)
    BY <1>1, <1>2, <1>3, FilledOccurs
  <1> QED
    BY <1>4, <1>5 DEF Has, Occurs

(* No outcome is ever removed, and the document stays the same.             *)
LEMMA OutcomesGrow ==
  ASSUME TypeOK, [Next]_vars
  PROVE  /\ \A t \in Steps, p \in Outcomes : Has(t, p) => Has(t, p)'
         /\ case' = case
  <1>1. ASSUME Skip \/ StepSucceeds \/ StepFails \/ PassGate, NEW t \in Steps, NEW p \in Outcomes
        PROVE  Has(t, p) => Has(t, p)'
    <2>1. Fresh /\ \E o \in Outcomes, T \in SUBSET Steps : Done(o, T)
      <3>1. Fresh /\ TypeOK
        BY <1>1 DEF Skip, StepSucceeds, StepFails, PassGate
      <3>2. OnSuccess(Current) \subseteq Steps /\ AfterFailure(Current) \subseteq Steps
        BY <3>1, FreshQueue, TargetsAreSteps
      <3> QED
        BY <1>1, <3>1, <3>2 DEF Skip, StepSucceeds, StepFails, PassGate, Outcomes
    <2> QED
      BY <2>1, DoneOutcomes
  <1>2. ASSUME NEW t \in Steps, NEW p \in Outcomes
        PROVE  Has(t, p) => Has(t, p)'
    BY <1>1, <1>2, OtherOutcomes, StopOutcomes DEF Next, RunnerStep
  <1>3. case' = case
    BY DEF Next, RunnerStep, Skip, StepSucceeds, StepFails, PassGate, Pause, StepStops,
           CycleDetected, Finish, Approve, Reject, Done, vars
  <1> QED
    BY <1>2, <1>3

(* The run is still outside of C: nothing in C is queued, awaits an         *)
(* operator or has been processed.                                          *)
Avoided(C) == /\ \A i \in DOMAIN queue : queue[i] \notin C
              /\ pausedAt \notin C
              /\ \A s \in C : ~Processed(s)

LEMMA InitAvoids ==
  ASSUME Init, NEW C \in SUBSET Steps, Entries \cap C = {}
  PROVE  Avoided(C)
  <1>1. TypeOK
    BY InitTyped DEF Typed
  <1>2. queue \in SetToSeqs(Entries) /\ Entries \in SUBSET Steps
    BY <1>1, EntriesAreSteps DEF Init
  <1>3. \A i \in DOMAIN queue : queue[i] \in Entries
    BY <1>2, OrdersOfSteps
  <1>4. pausedAt \notin C
    BY DEF Init, NoStep, Steps
  <1>5. \A s \in C : ~Processed(s)
    <2>1. \A s \in Steps : trace[s] = <<>>
      BY DEF Init
    <2> QED
      BY <2>1 DEF Processed, Executed, Has
  <1> QED
    BY <1>3, <1>4, <1>5 DEF Avoided

LEMMA DoneAvoids ==
  ASSUME TypeOK, Fresh, NEW C \in SUBSET Steps, Avoided(C),
         NEW o \in Outcomes, NEW T \in SUBSET Steps, T \cap C = {}, Done(o, T)
  PROVE  Avoided(C)'
  <1>1. queue # <<>> /\ T \ Visit(Current) \in SUBSET Steps /\ queue' \in Enqueued(T \ Visit(Current))
    BY FreshQueue DEF Done
  <1>2. /\ Current \in Steps /\ 1 \in DOMAIN queue /\ Current = queue[1]
        /\ \A i \in DOMAIN queue' : queue'[i] \in T \ Visit(Current)
                                      \/ \E j \in DOMAIN queue : queue'[i] = queue[j]
    BY <1>1, QueueSteps
  <1>3. Current \notin C
    BY <1>2 DEF Avoided
  <1>4. \A i \in DOMAIN queue' : queue'[i] \notin C
    BY <1>2 DEF Avoided
  <1>5. pausedAt' \notin C
    BY DEF Done, Avoided
  <1>6. ASSUME NEW s \in C
        PROVE  ~Processed(s)'
    <2>1. \A p \in Outcomes : Has(s, p)' <=> Has(s, p)
      BY <1>3, DoneOutcomes
    <2>2. ~Processed(s)
      BY DEF Avoided
    <2> QED
      BY <2>1, <2>2 DEF Processed, Executed, Outcomes
  <1> QED
    BY <1>4, <1>5, <1>6 DEF Avoided

(* A step of the run keeps out of C unless it leads there.                  *)
LEMMA StepAvoids ==
  ASSUME Typed, [Next]_vars, NEW C \in SUBSET Steps, Avoided(C),
         Skip \/ StepSucceeds \/ PassGate => OnSuccess(Current) \cap C = {},
         StepFails => AfterFailure(Current) \cap C = {}
  PROVE  Avoided(C)'
  <1>0. TypeOK
    BY DEF Typed
  <1>1. CASE Skip \/ StepSucceeds \/ PassGate
    <2>1. Fresh
      BY <1>1 DEF Skip, StepSucceeds, PassGate
    <2>2. OnSuccess(Current) \in SUBSET Steps
      BY <1>0, <2>1, FreshQueue, TargetsAreSteps
    <2>3. PICK o \in Outcomes : Done(o, OnSuccess(Current))
      BY <1>1 DEF Skip, StepSucceeds, PassGate, Outcomes
    <2> QED
      BY <1>0, <1>1, <2>1, <2>2, <2>3, DoneAvoids
  <1>2. CASE StepFails
    <2>1. Fresh /\ Done("failed", AfterFailure(Current)) /\ "failed" \in Outcomes
      BY <1>2 DEF StepFails, Outcomes
    <2>2. AfterFailure(Current) \in SUBSET Steps
      BY <1>0, <2>1, FreshQueue, TargetsAreSteps
    <2> QED
      BY <1>0, <1>2, <2>1, <2>2, DoneAvoids
  <1>3. CASE Pause \/ StepStops \/ CycleDetected \/ Finish
    <2>1. queue' = <<>>
      BY <1>3 DEF Pause, StepStops, CycleDetected, Finish, Return
    <2>2. CASE Pause \/ StepStops
      <3>1. queue # <<>> /\ Fresh
        BY <2>2 DEF Pause, StepStops, Fresh
      <3>2. Current \notin C
        <4>1. queue # <<>> /\ queue \in Seq(Steps)
          BY <1>0, <3>1 DEF TypeOK
        <4>2. 1 \in DOMAIN queue /\ Current = queue[1]
          BY <4>1, EmptySeq, LenProperties DEF Current
        <4> QED
          BY <4>2 DEF Avoided
      <3>3. pausedAt' \notin C
        BY <2>2, <3>2 DEF Pause, StepStops, Avoided
      <3>4. \A s \in C, p \in Outcomes : Has(s, p)' <=> Has(s, p)
        BY <1>0, <2>2, <3>2, OtherOutcomes, StopOutcomes
      <3> QED
        BY <2>1, <3>3, <3>4 DEF Avoided, Processed, Executed, Outcomes
    <2>3. CASE CycleDetected \/ Finish
      <3>1. pausedAt' \notin C
        BY <2>3 DEF CycleDetected, Finish, Avoided
      <3>2. \A s \in C, p \in Outcomes : Has(s, p)' <=> Has(s, p)
        BY <1>0, <2>3, OtherOutcomes
      <3> QED
        BY <2>1, <3>1, <3>2 DEF Avoided, Processed, Executed, Outcomes
    <2> QED
      BY <1>3, <2>2, <2>3
  <1>4. CASE Approve \/ Reject \/ UNCHANGED vars
    <2>1. \A s \in C, p \in Outcomes : Has(s, p)' <=> Has(s, p)
      BY <1>0, <1>4, OtherOutcomes
    <2>2. pausedAt' \notin C
      BY <1>4 DEF Approve, Reject, vars, Avoided, NoStep, Steps
    <2>3. \A i \in DOMAIN queue' : queue'[i] \notin C
      BY <1>4 DEF Approve, Seeded, Reject, loop, vars, Avoided
    <2> QED
      BY <2>1, <2>2, <2>3 DEF Avoided, Processed, Executed, Outcomes
  <1> QED
    BY <1>1, <1>2, <1>3, <1>4 DEF Next, RunnerStep

-----------------------------------------------------------------------------
(* The hypotheses of GatesHold and of FollowsRoutes.                        *)
Sealed(C) == /\ Entries \cap C = {}
             /\ \A s \in Steps \ C : ~Closed(s) => (OnSuccess(s) \cup OnFailure(s)) \cap C = {}

Cut(C) == /\ Entries \cap C = {}
          /\ \A s \in Steps \ C : Leads(s) \cap C = {}

(* The gate a resume passes was approved, and only a request passes gates   *)
(* without an approval.                                                     *)
Opened == /\ auto => case.request.auto
          /\ opened # NoStep => opened \in approved

GatesInv == \A C \in SUBSET Steps : Sealed(C) => Avoided(C)

RoutesInv == \A C \in SUBSET Steps : Cut(C) => Avoided(C)

LEMMA StepOpened ==
  ASSUME TypeOK, Opened, [Next]_vars
  PROVE  Opened'
  <1>1. CASE Approve
    BY <1>1 DEF Approve, ResumedAuto, Opened
  <1>2. CASE Reject \/ UNCHANGED vars
    BY <1>2 DEF Reject, loop, call, vars, history, Opened
  <1>3. CASE RunnerStep
    <2>1. auto' = auto /\ approved' = approved /\ case' = case
      BY <1>3 DEF RunnerStep, Skip, StepSucceeds, StepFails, PassGate, Pause, StepStops,
                  CycleDetected, Finish, Done, call, history
    <2>2. opened' = opened \/ opened' = NoStep
      BY <1>3 DEF RunnerStep, Skip, StepSucceeds, StepFails, PassGate, Pause, StepStops,
                  CycleDetected, Finish, Return
    <2> QED
      BY <2>1, <2>2 DEF Opened
  <1> QED
    BY <1>1, <1>2, <1>3 DEF Next

(* A step that is done with is no closed gate.                              *)
LEMMA DoneIsOpen ==
  ASSUME TypeOK, Opened, Skip \/ StepSucceeds \/ StepFails \/ PassGate
  PROVE  ~Closed(Current)
  <1>0. Current \in Steps
    BY FreshQueue DEF Skip, StepSucceeds, StepFails, PassGate
  <1>1. CASE Skip
    BY <1>1 DEF Skip, Runs, WhenMet, Closed
  <1>2. CASE StepSucceeds \/ StepFails
    BY <1>2 DEF StepSucceeds, StepFails, Closed
  <1>3. CASE PassGate
    BY <1>0, <1>3 DEF PassGate, Passes, Opened, Closed, NoStep, Steps
  <1> QED
    BY <1>1, <1>2, <1>3

LEMMA StepGates ==
  ASSUME Typed, Opened, GatesInv, [Next]_vars
  PROVE  GatesInv'
  <1>0. TypeOK
    BY DEF Typed
  <1>1. case' = case /\ approved \subseteq approved'
    <2>1. approved \subseteq approved'
      BY DEF Next, RunnerStep, Skip, StepSucceeds, StepFails, PassGate, Pause, StepStops,
             CycleDetected, Finish, Approve, Reject, history, vars
    <2> QED
      BY <1>0, <2>1, OutcomesGrow
  <1>2. ASSUME NEW C \in SUBSET Steps, Sealed(C)'
        PROVE  Avoided(C)'
    <2>1. Sealed(C)
      <3>1. \A s \in Steps : /\ OnSuccess(s)' = OnSuccess(s) /\ OnFailure(s)' = OnFailure(s)
                             /\ Closed(s)' => Closed(s)
        BY <1>1 DEF OnSuccess, OnFailure, Closed, doc
      <3>2. Entries' = Entries
        BY <1>1 DEF Entries, doc
      <3> QED
        BY <1>2, <3>1, <3>2 DEF Sealed
    <2>2. Avoided(C)
      BY <2>1 DEF GatesInv
    <2>3. ASSUME Skip \/ StepSucceeds \/ StepFails \/ PassGate
          PROVE  (OnSuccess(Current) \cup OnFailure(Current)) \cap C = {}
      <3>1. Fresh
        BY <2>3 DEF Skip, StepSucceeds, StepFails, PassGate
      <3>2. Current \in Steps /\ queue # <<>> /\ queue \in Seq(Steps)
        BY <1>0, <3>1, FreshQueue DEF TypeOK
      <3>3. 1 \in DOMAIN queue /\ Current = queue[1]
        BY <3>2, EmptySeq, LenProperties DEF Current
      <3>4. Current \notin C
        BY <2>2, <3>3 DEF Avoided
      <3> QED
        BY <1>0, <2>1, <2>3, <3>2, <3>4, DoneIsOpen DEF Sealed
    <2>4. Skip \/ StepSucceeds \/ PassGate => OnSuccess(Current) \cap C = {}
      BY <2>3
    <2>5. StepFails => AfterFailure(Current) \cap C = {}
      <3>1. StepFails => Current \in Steps
        BY <1>0, FreshQueue DEF StepFails
      <3>2. StepFails => AfterFailure(Current) \subseteq OnSuccess(Current) \cup OnFailure(Current)
        BY <1>0, <3>1, TargetsAreSteps
      <3> QED
        BY <2>3, <3>2
    <2> QED
      BY <2>2, <2>4, <2>5, StepAvoids
  <1> QED
    BY <1>2 DEF GatesInv

LEMMA StepRoutes ==
  ASSUME Typed, RoutesInv, [Next]_vars
  PROVE  RoutesInv'
  <1>0. TypeOK
    BY DEF Typed
  <1>1. /\ case' = case
        /\ \A t \in Steps, p \in Outcomes : Has(t, p) => Has(t, p)'
    BY <1>0, OutcomesGrow
  <1>2. /\ Entries' = Entries
        /\ \A s \in Steps : /\ OnSuccess(s)' = OnSuccess(s)
                            /\ OnFailure(s)' = OnFailure(s)
        /\ doc' = doc
    BY <1>1 DEF Entries, OnSuccess, OnFailure, doc
  <1>3. ASSUME NEW C \in SUBSET Steps, Cut(C)'
        PROVE  Avoided(C)'
    <2>1. Cut(C)
      <3>1. \A s \in Steps : Leads(s) \subseteq Leads(s)'
        BY <1>1, <1>2 DEF Leads, Outcomes
      <3> QED
        BY <1>2, <1>3, <3>1 DEF Cut
    <2>2. Avoided(C)
      BY <2>1 DEF RoutesInv
    <2>3. Fresh => Current \in Steps \ C
      <3>1. Fresh => Current \in Steps /\ queue # <<>> /\ queue \in Seq(Steps)
        BY <1>0, FreshQueue DEF TypeOK
      <3>2. Fresh => 1 \in DOMAIN queue /\ Current = queue[1]
        BY <3>1, EmptySeq, LenProperties DEF Current
      <3> QED
        BY <2>2, <3>1, <3>2 DEF Avoided
    <2>4. ASSUME Skip \/ StepSucceeds \/ PassGate
          PROVE  OnSuccess(Current) \cap C = {}
      <3>1. Fresh
        BY <2>4 DEF Skip, StepSucceeds, PassGate
      <3>2. PICK o \in {"succeeded", "skipped"} : Done(o, OnSuccess(Current))
        BY <2>4 DEF Skip, StepSucceeds, PassGate
      <3>3. o \in Outcomes
        BY DEF Outcomes
      <3>4. \A t \in Steps : t = Current => Has(t, o)'
        BY <1>0, <3>1, <3>2, <3>3, DoneOutcomes
      <3>5. \A t \in Steps : Has(t, o)' => OnSuccess(t) \subseteq Leads(t)'
        BY <1>2 DEF Leads
      <3>6. \A t \in Steps \ C : Leads(t)' \cap C = {}
        BY <1>3 DEF Cut
      <3>7. \A t \in Steps \ C : t = Current => OnSuccess(t) \cap C = {}
        BY <3>4, <3>5, <3>6
      <3> QED
        BY <2>3, <3>1, <3>7
    <2>5. ASSUME StepFails
          PROVE  AfterFailure(Current) \cap C = {}
      <3>1. Fresh /\ Done("failed", AfterFailure(Current)) /\ "failed" \in Outcomes
        BY <2>5 DEF StepFails, Outcomes
      <3>2. \A t \in Steps : t = Current => Has(t, "failed")'
        BY <1>0, <3>1, DoneOutcomes
      <3>3. \A t \in Steps : Has(t, "failed")' => AfterFailure(t) \subseteq Leads(t)'
        BY <1>2 DEF Leads, AfterFailure
      <3>4. \A t \in Steps \ C : Leads(t)' \cap C = {}
        BY <1>3 DEF Cut
      <3>5. \A t \in Steps \ C : t = Current => AfterFailure(t) \cap C = {}
        BY <3>2, <3>3, <3>4
      <3> QED
        BY <2>3, <3>1, <3>5
    <2> QED
      BY <2>2, <2>4, <2>5, StepAvoids
  <1> QED
    BY <1>3 DEF RoutesInv

-----------------------------------------------------------------------------
(* An approval opens its own gate and no other, across every pause and      *)
(* resume of a run: steps behind closed gates are not executed              *)
(* (run_pipeline_document, resume_pipeline_approval).                       *)
THEOREM ApprovalsAreNeeded == Spec => []GatesHold
  <1>1. Init => Opened
    BY DEF Init, Opened, NoStep
  <1>2. Init => GatesInv
    BY InitAvoids DEF GatesInv, Sealed
  <1>3. Typed /\ Opened /\ GatesInv /\ [Next]_vars => Opened' /\ GatesInv'
    BY StepOpened, StepGates DEF Typed
  <1>4. GatesInv => GatesHold
    BY DEF GatesInv, GatesHold, Sealed, Avoided
  <1> QED
    BY <1>1, <1>2, <1>3, <1>4, AlwaysTyped, PTL DEF Spec

(* Each processed step lies on a path from an entry along which each        *)
(* outcome in the trace leads to the next step (_successors and             *)
(* _enqueue_after of run_pipeline_document).                                *)
THEOREM RoutesAreFollowed == Spec => []FollowsRoutes
  <1>1. Init => RoutesInv
    BY InitAvoids DEF RoutesInv, Cut
  <1>2. Typed /\ RoutesInv /\ [Next]_vars => RoutesInv'
    BY StepRoutes
  <1>3. RoutesInv => FollowsRoutes
    BY DEF RoutesInv, FollowsRoutes, Cut, Avoided
  <1> QED
    BY <1>1, <1>2, <1>3, AlwaysTyped, PTL DEF Spec

-----------------------------------------------------------------------------
(* No step is named twice in an order.                                      *)
LEMMA OrdersAreDistinct ==
  ASSUME NEW T \in SUBSET Steps, NEW q \in SetToSeqs(T)
  PROVE  \A i, j \in DOMAIN q : q[i] = q[j] => i = j
  <1> DEFINE D == 1 .. Cardinality(T)
  <1>1. q \in [D -> T] /\ \A i, j \in D : i # j => q[i] # q[j]
    BY DEF SetToSeqs
  <1>2. DOMAIN q = D
    BY <1>1
  <1> HIDE DEF D
  <1>3. ASSUME NEW i \in D, NEW j \in D, q[i] = q[j]
        PROVE  i = j
    BY <1>1, <1>3
  <1> QED
    BY <1>2, <1>3

(* The queue behind the step in front, followed by targets in some order.   *)
LEMMA QueueShape ==
  ASSUME TypeOK, queue # <<>>, NEW T \in SUBSET Steps, NEW q \in Enqueued(T)
  PROVE  \E n \in Nat : \A i \in DOMAIN q :
           /\ i \in Nat
           /\ i <= n => i + 1 \in DOMAIN queue /\ i + 1 # 1 /\ q[i] = queue[i + 1]
           /\ i > n => /\ q[i] \in T
                       /\ \A j \in DOMAIN q : j > n /\ q[j] = q[i] => j = i
  <1>1. PICK r \in SetToSeqs(T) : q = Tail(queue) \o r
    BY DEF Enqueued
  <1>2. r \in Seq(T) /\ \A i \in DOMAIN r : r[i] \in T
    BY <1>1, OrdersOfSteps
  <1>3. \A i, j \in DOMAIN r : r[i] = r[j] => i = j
    BY <1>1, OrdersAreDistinct
  <1>4. /\ queue \in Seq(Steps) /\ Len(queue) \in Nat \ {0}
        /\ DOMAIN queue = 1 .. Len(queue)
    BY EmptySeq, LenProperties DEF TypeOK
  <1>5. /\ Tail(queue) \in Seq(Steps)
        /\ Len(Tail(queue)) = Len(queue) - 1
        /\ \A i \in 1 .. Len(Tail(queue)) : Tail(queue)[i] = queue[i + 1]
    BY <1>4, HeadTailProperties
  <1>6. r \in Seq(Steps) /\ Len(r) \in Nat /\ DOMAIN r = 1 .. Len(r)
    BY <1>2, LenProperties
  <1>7. /\ DOMAIN q = 1 .. (Len(Tail(queue)) + Len(r))
        /\ \A i \in 1 .. (Len(Tail(queue)) + Len(r)) :
             q[i] = IF i <= Len(Tail(queue)) THEN Tail(queue)[i]
                                             ELSE r[i - Len(Tail(queue))]
    BY <1>1, <1>5, <1>6, ConcatProperties, LenProperties
  <1> DEFINE n == Len(queue) - 1
  <1>8. n \in Nat /\ n = Len(Tail(queue))
    BY <1>4, <1>5
  <1> HIDE DEF n
  <1>9. ASSUME NEW i \in DOMAIN q
        PROVE  /\ i \in Nat
               /\ i <= n => i + 1 \in DOMAIN queue /\ i + 1 # 1 /\ q[i] = queue[i + 1]
               /\ i > n => /\ q[i] \in T
                           /\ \A j \in DOMAIN q : j > n /\ q[j] = q[i] => j = i
    <2>1. i \in 1 .. (n + Len(r)) /\ i \in Nat /\ i # 0
      BY <1>6, <1>7, <1>8
    <2>2. CASE i <= n
      <3>1. i \in 1 .. Len(Tail(queue)) /\ i + 1 \in 1 .. Len(queue)
        BY <1>4, <1>5, <1>8, <2>1, <2>2
      <3>2. q[i] = queue[i + 1]
        BY <1>5, <1>7, <1>8, <2>1, <2>2, <3>1
      <3> QED
        BY <1>4, <1>8, <2>1, <2>2, <3>1, <3>2
    <2>3. CASE i > n
      <3>1. \A j \in DOMAIN q : j > n => j - n \in DOMAIN r /\ q[j] = r[j - n] /\ j \in Nat
        BY <1>6, <1>7, <1>8
      <3>2. i - n \in DOMAIN r /\ q[i] = r[i - n]
        BY <2>3, <3>1
      <3>3. q[i] \in T
        BY <1>2, <3>2
      <3>4. ASSUME NEW j \in DOMAIN q, j > n, q[j] = q[i]
            PROVE  j = i
        <4>1. j - n \in DOMAIN r /\ q[j] = r[j - n] /\ j \in Nat
          BY <3>1, <3>4
        <4>2. j - n = i - n
          BY <1>3, <3>2, <3>4, <4>1
        <4> QED
          BY <1>8, <2>1, <4>1, <4>2
      <3> QED
        BY <1>8, <2>1, <2>3, <3>3, <3>4
    <2> QED
      BY <1>8, <2>1, <2>2, <2>3
  <1> QED
    BY <1>8, <1>9

-----------------------------------------------------------------------------
(* Why no step of a tree runs twice: what is queued or awaits an operator   *)
(* is new and each step that was reached is an entry or was led to, so that *)
(* no step leads to a step that was reached before.                         *)
Queued(s) == \E i \in DOMAIN queue : queue[i] = s

Awaits(s) == status = "awaiting_approval" /\ pausedAt = s

Targets(s) == OnSuccess(s) \cup OnFailure(s)

Reached(s) == s \in Entries \/ \E p \in Steps : Processed(p) /\ s \in Targets(p)

Distinct == \A i, j \in DOMAIN queue : queue[i] = queue[j] => i = j

Once(tr, s) == \A i, j \in DOMAIN tr[s] :
                 {tr[s][i], tr[s][j]} \subseteq Outcomes => i = j

Growing == /\ error # "cycle"
           /\ Distinct
           /\ \A s \in Steps : Queued(s) \/ Awaits(s) => ~Processed(s) /\ Reached(s)
           /\ \A s \in visited : Processed(s)
           /\ \A s \in Steps : Processed(s) => Reached(s)
           /\ \A s \in Steps : Once(trace, s)

TreeInv == Tree => Growing

LEMMA InitGrowing ==
  ASSUME Init
  PROVE  Growing
  <1>1. TypeOK
    BY InitTyped DEF Typed
  <1>2. queue \in SetToSeqs(Entries) /\ Entries \in SUBSET Steps
    BY <1>1, EntriesAreSteps DEF Init
  <1>3. \A i \in DOMAIN queue : queue[i] \in Entries
    BY <1>2, OrdersOfSteps
  <1>4. Distinct
    BY <1>2, OrdersAreDistinct DEF Distinct
  <1>5. \A s \in Steps : trace[s] = <<>>
    BY DEF Init
  <1>6. \A s \in Steps : ~Processed(s)
    BY <1>5 DEF Processed, Executed, Has
  <1>7. \A s \in Steps : Once(trace, s)
    BY <1>5 DEF Once
  <1>8. \A s \in Steps : Queued(s) \/ Awaits(s) => Reached(s)
    BY <1>3 DEF Queued, Awaits, Reached, Init
  <1> QED
    BY <1>4, <1>6, <1>7, <1>8 DEF Growing, Init

LEMMA AppendedOnce ==
  ASSUME NEW tr \in [Steps -> Seq(Statuses)], NEW s \in Steps, NEW o \in Statuses,
         NEW t \in Steps, Once(tr, t),
         o \in Outcomes => \A p \in Outcomes : ~Occurs(tr, s, p)
  PROVE  Once([tr EXCEPT ![s] = Append(@, o)], t)
  <1> DEFINE new == [tr EXCEPT ![s] = Append(@, o)]
  <1>1. CASE t # s
    <2>1. new[t] = tr[t]
      BY <1>1
    <2> QED
      BY <2>1 DEF Once
  <1>2. CASE t = s
    <2>1. new[t] = Append(tr[s], o) /\ tr[s] \in Seq(Statuses)
      BY <1>2
    <2>2. /\ DOMAIN tr[s] = 1 .. Len(tr[s]) /\ Len(tr[s]) \in Nat
          /\ DOMAIN new[t] = 1 .. (Len(tr[s]) + 1)
          /\ \A i \in 1 .. Len(tr[s]) : new[t][i] = tr[s][i]
          /\ new[t][Len(tr[s]) + 1] = o
      <3>1. o \in Statuses /\ DOMAIN tr[s] = 1 .. Len(tr[s]) /\ Len(tr[s]) \in Nat
        BY <2>1, LenProperties
      <3>2. new[t] \in Seq(Statuses) /\ Len(new[t]) = Len(tr[s]) + 1
        BY <2>1, <3>1, AppendProperties
      <3>3. DOMAIN new[t] = 1 .. (Len(tr[s]) + 1)
        BY <3>2, LenProperties
      <3>4. /\ \A i \in 1 .. Len(tr[s]) : new[t][i] = tr[s][i]
            /\ new[t][Len(tr[s]) + 1] = o
        BY <2>1, <3>1, AppendProperties
      <3> QED
        BY <3>1, <3>3, <3>4
    <2> HIDE DEF new
    <2>3. \A i \in DOMAIN new[t] : \/ i \in DOMAIN tr[s] /\ new[t][i] = tr[s][i]
                                   \/ i = Len(tr[s]) + 1 /\ new[t][i] = o
      BY <2>2
    <2>4. ASSUME NEW i \in DOMAIN new[t], NEW j \in DOMAIN new[t],
                 new[t][i] \in Outcomes, new[t][j] \in Outcomes
          PROVE  i = j
      <3>1. CASE o \in Outcomes
        <4>1. \A k \in DOMAIN tr[s] : tr[s][k] \notin Outcomes
          BY <3>1 DEF Occurs
        <4> QED
          BY <2>3, <2>4, <4>1
      <3>2. CASE o \notin Outcomes
        <4>1. /\ i \in DOMAIN tr[s] /\ new[t][i] = tr[s][i]
              /\ j \in DOMAIN tr[s] /\ new[t][j] = tr[s][j]
          BY <2>3, <2>4, <3>2
        <4>2. {tr[t][i], tr[t][j]} \subseteq Outcomes /\ i \in DOMAIN tr[t] /\ j \in DOMAIN tr[t]
          BY <1>2, <2>4, <4>1
        <4> QED
          BY <4>2 DEF Once
      <3> QED
        BY <3>1, <3>2
    <2>5. Once(new, t)
      BY <2>4 DEF Once
    <2> QED
      BY <2>5 DEF new
  <1> QED
    BY <1>1, <1>2

LEMMA FilledOnce ==
  ASSUME NEW tr \in [Steps -> Seq(Statuses)], NEW t \in Steps, Once(tr, t)
  PROVE  Once(Filled(tr), t)
  <1>1. CASE tr[t] = <<>>
    <2>1. Filled(tr)[t] = <<"unreached">>
      BY <1>1 DEF Filled
    <2> QED
      BY <2>1 DEF Once
  <1>2. CASE tr[t] # <<>>
    <2>1. Filled(tr)[t] = tr[t]
      BY <1>2 DEF Filled
    <2> QED
      BY <2>1 DEF Once
  <1> QED
    BY <1>1, <1>2

(* The document does not change, and what was reached stays reached.        *)
LEMMA ReachedGrows ==
  ASSUME TypeOK, [Next]_vars
  PROVE  /\ Tree' <=> Tree
         /\ \A s \in Steps : Targets(s)' = Targets(s)
         /\ \A s \in Steps : Processed(s) => Processed(s)'
         /\ \A s \in Steps : Reached(s) => Reached(s)'
  <1>1. case' = case /\ \A t \in Steps, p \in Outcomes : Has(t, p) => Has(t, p)'
    BY OutcomesGrow
  <1>2. /\ Entries' = Entries
        /\ \A s \in Steps : OnSuccess(s)' = OnSuccess(s) /\ OnFailure(s)' = OnFailure(s)
    BY <1>1 DEF Entries, OnSuccess, OnFailure, doc
  <1>3. \A s \in Steps : Processed(s) => Processed(s)'
    BY <1>1 DEF Processed, Executed, Outcomes
  <1>4. \A s \in Steps : Targets(s)' = Targets(s)
    BY <1>2 DEF Targets
  <1>5. \A s \in Steps : Reached(s) => Reached(s)'
    BY <1>2, <1>3, <1>4 DEF Reached
  <1> QED
    BY <1>2, <1>3, <1>4, <1>5 DEF Tree

LEMMA DoneGrowing ==
  ASSUME TypeOK, Fresh, [Next]_vars, Tree, Growing,
         NEW o \in Outcomes, NEW T \in SUBSET Targets(Current), Done(o, T)
  PROVE  Growing'
  <1>1. PICK c \in Steps : c = Current
    BY FreshQueue
  <1>2. T \subseteq Steps
    BY <1>1, TargetsAreSteps DEF Targets
  <1>3. /\ queue # <<>> /\ queue' \in Enqueued(T \ Visit(c))
        /\ visited' = Visit(c) /\ status = "running" /\ status' = "running" /\ error' = error
        /\ trace' = [trace EXCEPT ![c] = Append(@, o)]
    BY <1>1, FreshQueue DEF Done
  <1>4. 1 \in DOMAIN queue /\ c = queue[1] /\ DOMAIN queue \subseteq Nat
    <2>1. queue \in Seq(Steps)
      BY DEF TypeOK
    <2> QED
      BY <1>1, <1>3, <2>1, EmptySeq, LenProperties DEF Current
  <1>5. ~Processed(c)
    BY <1>4 DEF Growing, Queued
  <1>6. \A s \in Steps : Processed(s)' <=> Processed(s) \/ s = c
    <2>1. \A s \in Steps, p \in Outcomes : Has(s, p)' <=> Has(s, p) \/ (s = c /\ p = o)
      BY <1>1, DoneOutcomes
    <2> QED
      BY <2>1 DEF Processed, Executed, Outcomes
  <1>7. \A s \in T : s # c => ~Processed(s) /\ ~Queued(s)
    <2>1. ASSUME NEW s \in T, s # c, Reached(s)
          PROVE  FALSE
      <3>1. s \in Steps /\ s \in OnSuccess(c) \cup OnFailure(c)
        BY <1>1, <1>2, <2>1 DEF Targets
      <3>2. s \notin Entries
        BY <3>1 DEF Tree
      <3>3. PICK p \in Steps : Processed(p) /\ s \in OnSuccess(p) \cup OnFailure(p)
        BY <2>1, <3>2 DEF Reached, Targets
      <3>4. p = c
        BY <3>1, <3>3 DEF Tree
      <3> QED
        BY <1>5, <3>3, <3>4
    <2> QED
      BY <1>2, <2>1 DEF Growing
  <1>8. PICK n \in Nat : \A i \in DOMAIN queue' :
           /\ i \in Nat
           /\ i <= n => i + 1 \in DOMAIN queue /\ i + 1 # 1 /\ queue'[i] = queue[i + 1]
           /\ i > n => /\ queue'[i] \in T \ Visit(c)
                       /\ \A j \in DOMAIN queue' : j > n /\ queue'[j] = queue'[i] => j = i
    <2>1. T \ Visit(c) \in SUBSET Steps
      BY <1>2
    <2> QED
      BY <1>3, <2>1, QueueShape
  <1>9. \A i \in DOMAIN queue' :
          /\ i <= n => queue'[i] # c /\ Queued(queue'[i])
          /\ i > n => queue'[i] # c /\ queue'[i] \in T /\ ~Queued(queue'[i])
    <2>1. \A i \in DOMAIN queue : i # 1 => queue[i] # c
      BY <1>4 DEF Growing, Distinct
    <2>2. c \in Visit(c)
      BY DEF Visit
    <2> QED
      BY <1>7, <1>8, <2>1, <2>2 DEF Queued
  <1>10. Distinct'
    <2>1. ASSUME NEW i \in DOMAIN queue', NEW j \in DOMAIN queue', queue'[i] = queue'[j]
          PROVE  i = j
      <3>1. i \in Nat /\ j \in Nat
        BY <1>8
      <3>2. CASE i <= n /\ j <= n
        <4>1. /\ i + 1 \in DOMAIN queue /\ j + 1 \in DOMAIN queue
              /\ queue[i + 1] = queue[j + 1]
          BY <1>8, <2>1, <3>2
        <4>2. i + 1 = j + 1
          BY <4>1 DEF Growing, Distinct
        <4> QED
          BY <3>1, <4>2
      <3>3. CASE i > n /\ j > n
        BY <1>8, <2>1, <3>3
      <3>4. CASE (i <= n /\ j > n) \/ (i > n /\ j <= n)
        BY <1>9, <2>1, <3>4
      <3> QED
        BY <3>1, <3>2, <3>3, <3>4
    <2> QED
      BY <2>1 DEF Distinct
  <1>11. ASSUME NEW s \in Steps, Queued(s)'
         PROVE  ~Processed(s)' /\ Reached(s)'
    <2>1. PICK i \in DOMAIN queue' : queue'[i] = s
      BY <1>11 DEF Queued
    <2>2. i \in Nat
      BY <1>8
    <2>3. CASE i <= n
      <3>1. s # c /\ Queued(s)
        BY <1>9, <2>1, <2>3
      <3>2. ~Processed(s) /\ Reached(s)
        BY <3>1 DEF Growing
      <3> QED
        BY <1>6, <3>1, <3>2, ReachedGrows
    <2>4. CASE i > n
      <3>1. s # c /\ s \in T
        BY <1>9, <2>1, <2>4
      <3>2. ~Processed(s) /\ s \in Targets(c)'
        BY <1>1, <1>7, <3>1, ReachedGrows
      <3>3. Processed(c)'
        BY <1>6
      <3> QED
        BY <1>6, <3>1, <3>2, <3>3 DEF Reached
    <2> QED
      BY <2>2, <2>3, <2>4
  <1>12. \A s \in Steps : Processed(s)' => Reached(s)'
    <2>1. Queued(c)
      BY <1>4 DEF Queued
    <2>2. \A s \in Steps : Processed(s)' => Reached(s)
      BY <1>6, <2>1 DEF Growing
    <2> QED
      BY <2>2, ReachedGrows
  <1>13. \A s \in visited' : Processed(s)'
    <2>1. visited \subseteq Steps
      BY DEF TypeOK
    <2> QED
      BY <1>3, <1>6, <2>1 DEF Visit, Growing
  <1>14. \A s \in Steps : Once(trace', s)
    <2>1. trace \in [Steps -> Seq(Statuses)] /\ o \in Statuses
      BY DEF TypeOK, Outcomes, Statuses
    <2>2. \A p \in Outcomes : ~Occurs(trace, c, p)
      BY <1>5 DEF Processed, Executed, Has, Occurs, Outcomes
    <2> QED
      BY <1>3, <2>1, <2>2, AppendedOnce DEF Growing
  <1>15. \A s \in Steps : ~Awaits(s)'
    BY <1>3 DEF Awaits
  <1> QED
    BY <1>3, <1>10, <1>11, <1>12, <1>13, <1>14, <1>15 DEF Growing

(* A call that returns leaves no queue, and a resume restores the one step  *)
(* that was awaited.                                                        *)
LEMMA OtherGrowing ==
  ASSUME Typed, [Next]_vars, Tree, Growing,
         Pause \/ CycleDetected \/ Finish \/ Approve \/ Reject \/ UNCHANGED vars
  PROVE  Growing'
  <1>0. TypeOK /\ trace \in [Steps -> Seq(Statuses)]
    BY DEF Typed, TypeOK
  <1>1. \A s \in Steps : Processed(s)' <=> Processed(s)
    <2>1. \A s \in Steps, p \in Outcomes : Has(s, p)' <=> Has(s, p)
      BY <1>0, OtherOutcomes
    <2> QED
      BY <2>1 DEF Processed, Executed, Outcomes
  <1>2. \A s \in Steps : Reached(s) => Reached(s)'
    BY <1>0, ReachedGrows
  <1>3. \A s \in Steps : Processed(s)' => Reached(s)'
    BY <1>1, <1>2 DEF Growing
  <1>4. \A s \in Steps : Once(trace', s)
    <2>1. CASE Pause
      <3>1. /\ Current \in Steps /\ "awaiting_approval" \in Statuses \ Outcomes
            /\ trace' = [trace EXCEPT ![Current] = Append(@, "awaiting_approval")]
        BY <1>0, <2>1, FreshQueue DEF Pause, Statuses, Outcomes
      <3> QED
        BY <1>0, <3>1, AppendedOnce DEF Growing
    <2>2. CASE CycleDetected \/ Finish
      <3>1. trace' = Filled(trace)
        BY <2>2 DEF CycleDetected, Finish
      <3> QED
        BY <1>0, <3>1, FilledOnce DEF Growing
    <2>3. CASE Approve \/ Reject \/ UNCHANGED vars
      <3>1. trace' = trace
        BY <2>3 DEF Approve, Reject, vars
      <3> QED
        BY <3>1 DEF Growing
    <2> QED
      BY <2>1, <2>2, <2>3
  <1>5. visited' \subseteq visited
    BY DEF Pause, CycleDetected, Finish, Return, Approve, Reject, loop, vars
  <1>6. \A s \in visited' : Processed(s)'
    <2>1. visited \subseteq Steps
      BY <1>0 DEF TypeOK
    <2> QED
      BY <1>1, <1>5, <2>1 DEF Growing
  <1>7. \A s \in Steps : Queued(s)' \/ Awaits(s)' => Queued(s) \/ Awaits(s)
    <2>1. CASE Pause
      <3>1. queue' = <<>> /\ pausedAt' = Current
        BY <2>1 DEF Pause, Return
      <3>2. queue # <<>> /\ queue \in Seq(Steps)
        BY <1>0, <2>1 DEF Pause, Fresh, TypeOK
      <3>3. 1 \in DOMAIN queue /\ Current = queue[1]
        BY <3>2, EmptySeq, LenProperties DEF Current
      <3>4. \A s \in Steps : ~Queued(s)'
        BY <3>1 DEF Queued
      <3>5. \A s \in Steps : Awaits(s)' => s = Current
        BY <3>1 DEF Awaits
      <3> QED
        BY <3>3, <3>4, <3>5 DEF Queued
    <2>2. CASE CycleDetected \/ Finish
      <3>1. queue' = <<>> /\ status' # "awaiting_approval"
        BY <2>2 DEF CycleDetected, Finish, Return
      <3> QED
        BY <3>1 DEF Queued, Awaits
    <2>3. CASE Approve
      <3>1. queue' = <<pausedAt>> /\ status' # "awaiting_approval" /\ status = "awaiting_approval"
        BY <2>3 DEF Approve, Seeded
      <3>2. \A s \in Steps : Queued(s)' => s = pausedAt
        BY <3>1 DEF Queued
      <3> QED
        BY <3>1, <3>2 DEF Awaits
    <2>4. CASE Reject \/ UNCHANGED vars
      BY <2>4 DEF Reject, loop, vars, Queued, Awaits
    <2> QED
      BY <2>1, <2>2, <2>3, <2>4
  <1>8. Distinct'
    <2>1. CASE Pause \/ CycleDetected \/ Finish
      <3>1. queue' = <<>>
        BY <2>1 DEF Pause, CycleDetected, Finish, Return
      <3> QED
        BY <3>1 DEF Distinct
    <2>2. CASE Approve
      <3>1. queue' = <<pausedAt>>
        BY <2>2 DEF Approve, Seeded
      <3> QED
        BY <3>1 DEF Distinct
    <2>3. CASE Reject \/ UNCHANGED vars
      BY <2>3 DEF Reject, loop, vars, Distinct, Growing
    <2> QED
      BY <2>1, <2>2, <2>3
  <1>9. error' # "cycle"
    <2>1. ~CycleDetected
      <3>1. SUFFICES ASSUME CycleDetected PROVE FALSE
        OBVIOUS
      <3>2. queue # <<>> /\ queue \in Seq(Steps) /\ Current \in visited /\ visited \subseteq Steps
        BY <1>0, <3>1 DEF CycleDetected, TypeOK
      <3>3. 1 \in DOMAIN queue /\ Current = queue[1]
        BY <3>2, EmptySeq, LenProperties DEF Current
      <3>4. Queued(Current) /\ Processed(Current) /\ Current \in Steps
        BY <3>2, <3>3 DEF Queued, Growing
      <3> QED
        BY <3>4 DEF Growing
    <2> QED
      BY <2>1 DEF Pause, Finish, Return, Approve, Reject, vars, Growing
  <1> QED
    BY <1>1, <1>2, <1>3, <1>4, <1>6, <1>7, <1>8, <1>9 DEF Growing

LEMMA StopGrowing ==
  ASSUME TypeOK, StepStops, [Next]_vars, Tree, Growing
  PROVE  Growing'
  <1>1. PICK c \in Steps : c = Current
    BY FreshQueue DEF StepStops
  <1>2. queue # <<>> /\ queue \in Seq(Steps) /\ trace \in [Steps -> Seq(Statuses)]
    BY DEF StepStops, Fresh, TypeOK
  <1>3. 1 \in DOMAIN queue /\ c = queue[1]
    BY <1>1, <1>2, EmptySeq, LenProperties DEF Current
  <1>4. ~Processed(c) /\ Reached(c)
    BY <1>3 DEF Growing, Queued
  <1>5. \A s \in Steps : Processed(s)' <=> Processed(s) \/ s = c
    <2>1. \A s \in Steps, p \in Outcomes : Has(s, p)' <=> Has(s, p) \/ (s = c /\ p = "failed")
      BY <1>1, StopOutcomes
    <2> QED
      BY <2>1 DEF Processed, Executed, Outcomes
  <1>6. \A s \in Steps : Processed(s)' => Reached(s)'
    BY <1>4, <1>5, ReachedGrows DEF Growing
  <1>7. \A s \in Steps : Once(trace', s)
    <2> DEFINE new == [trace EXCEPT ![c] = Append(@, "failed")]
    <2>1. "failed" \in Statuses /\ \A p \in Outcomes : ~Occurs(trace, c, p)
      BY <1>4 DEF Statuses, Processed, Executed, Has, Occurs, Outcomes
    <2>2. \A s \in Steps : Once(new, s)
      BY <1>2, <2>1, AppendedOnce DEF Growing
    <2>3. new \in [Steps -> Seq(Statuses)]
      BY <1>2, <2>1, AppendedTrace
    <2>4. trace' = Filled(new)
      BY <1>1 DEF StepStops
    <2> HIDE DEF new
    <2> QED
      BY <2>2, <2>3, <2>4, FilledOnce
  <1>8. queue' = <<>> /\ visited' = {} /\ status' = "failed" /\ error' = "step"
    BY DEF StepStops, Return
  <1>9. Distinct' /\ \A s \in Steps : ~Queued(s)' /\ ~Awaits(s)'
    BY <1>8 DEF Distinct, Queued, Awaits
  <1> QED
    BY <1>6, <1>7, <1>8, <1>9 DEF Growing

LEMMA StepTree ==
  ASSUME Typed, TreeInv, [Next]_vars
  PROVE  TreeInv'
  <1>0. TypeOK
    BY DEF Typed
  <1>1. SUFFICES ASSUME Tree, Growing
                 PROVE  Growing'
    BY <1>0, ReachedGrows DEF TreeInv
  <1>2. CASE Skip \/ StepSucceeds \/ StepFails \/ PassGate
    <2>1. Fresh
      BY <1>2 DEF Skip, StepSucceeds, StepFails, PassGate
    <2>2. /\ OnSuccess(Current) \subseteq Targets(Current)
          /\ AfterFailure(Current) \subseteq Targets(Current)
      BY <1>0, <2>1, FreshQueue, TargetsAreSteps DEF Targets
    <2>3. PICK o \in Outcomes, T \in SUBSET Targets(Current) : Done(o, T)
      BY <1>2, <2>2 DEF Skip, StepSucceeds, StepFails, PassGate, Outcomes
    <2> QED
      BY <1>0, <1>1, <2>1, <2>3, DoneGrowing
  <1>3. CASE StepStops
    BY <1>0, <1>1, <1>3, StopGrowing
  <1>4. CASE Pause \/ CycleDetected \/ Finish \/ Approve \/ Reject \/ UNCHANGED vars
    BY <1>1, <1>4, OtherGrowing
  <1> QED
    BY <1>2, <1>3, <1>4 DEF Next, RunnerStep

(* Where each step of a document has one way in, no step is executed twice  *)
(* and no cycle is reported, however often the run pauses: a resume forgets *)
(* what was visited but never goes back (run_pipeline_document).            *)
THEOREM TreesRunOnce == Spec => []TreeRunsOnce
  <1>1. Init => TreeInv
    BY InitGrowing DEF TreeInv
  <1>2. Typed /\ TreeInv /\ [Next]_vars => TreeInv'
    BY StepTree
  <1>3. TreeInv => TreeRunsOnce
    BY DEF TreeInv, TreeRunsOnce, Growing, Once, Outcomes
  <1> QED
    BY <1>1, <1>2, <1>3, AlwaysTyped, PTL DEF Spec

-----------------------------------------------------------------------------
(* A call on a document bound to a profile has a profile, resumed or not.   *)
ProfileKept == doc.profile => profile # "none"

(* A document bound to a proof profile never succeeds without a claim, also *)
(* over its pauses: what a resume drops is the requested profile alone      *)
(* (run_pipeline_document, resume_pipeline_approval).                       *)
THEOREM ClaimsAreMade == Spec => []ProfileIsJudged
  <1>1. Init => ProfileKept /\ ProfileIsJudged
    BY DEF Init, ProfileKept, DocumentProfile, ProfileIsJudged
  <1>2. ASSUME Typed, ProfileKept, ProfileIsJudged, [Next]_vars
        PROVE  ProfileKept' /\ ProfileIsJudged'
    <2>0. case' = case
      BY <1>2, OutcomesGrow DEF Typed
    <2>1. CASE Skip \/ StepSucceeds \/ StepFails \/ PassGate
      <3>1. UNCHANGED <<profile, status, judged>>
        BY <2>1 DEF Skip, StepSucceeds, StepFails, PassGate, Done, call
      <3> QED
        BY <1>2, <2>0, <3>1 DEF ProfileKept, ProfileIsJudged, doc
    <2>2. CASE Pause \/ StepStops \/ CycleDetected
      <3>1. profile' = profile /\ status' # "succeeded"
        BY <2>2 DEF Pause, StepStops, CycleDetected, Return, call
      <3> QED
        BY <1>2, <2>0, <3>1 DEF ProfileKept, ProfileIsJudged, doc
    <2>3. CASE Finish
      <3>1. /\ profile' = profile
            /\ \/ status' = "failed"
               \/ profile # "none" /\ judged' = profile
               \/ profile = "none"
        BY <2>3 DEF Finish, Return, call
      <3> QED
        BY <1>2, <2>0, <3>1 DEF ProfileKept, ProfileIsJudged, doc
    <2>4. CASE Approve
      <3>1. profile' = DocumentProfile /\ status' = "running"
        BY <2>4 DEF Approve, ResumedProfile
      <3> QED
        BY <2>0, <3>1 DEF ProfileKept, ProfileIsJudged, DocumentProfile, doc
    <2>5. CASE Reject
      <3>1. profile' = profile /\ status' = "failed"
        BY <2>5 DEF Reject, call
      <3> QED
        BY <1>2, <2>0, <3>1 DEF ProfileKept, ProfileIsJudged, doc
    <2>6. CASE UNCHANGED vars
      BY <1>2, <2>6 DEF vars, call, ProfileKept, ProfileIsJudged, doc
    <2> QED
      BY <1>2, <2>1, <2>2, <2>3, <2>4, <2>5, <2>6 DEF Next, RunnerStep
  <1> QED
    BY <1>1, <1>2, AlwaysTyped, PTL DEF Spec
-----------------------------------------------------------------------------
(* Every step of a set is named in each of its orders.                      *)
LEMMA OrdersAreComplete ==
  ASSUME NEW T \in SUBSET Steps, NEW q \in SetToSeqs(T), NEW t \in T
  PROVE  \E i \in DOMAIN q : q[i] = t
  <1> DEFINE D == 1 .. Cardinality(T)
  <1>1. IsFiniteSet(Steps)
    BY FS_Interval DEF Steps
  <1>2. IsFiniteSet(T) /\ Cardinality(T) \in Nat
    BY <1>1, FS_Subset, FS_CardinalityType
  <1>3. IsFiniteSet(D) /\ Cardinality(D) = Cardinality(T)
    BY <1>2, FS_Interval
  <1>4. q \in [D -> T]
    BY DEF SetToSeqs
  <1>5. \A i, j \in DOMAIN q : q[i] = q[j] => i = j
    BY OrdersAreDistinct
  <1> HIDE DEF D
  <1>6. q \in Injection(D, T)
    BY <1>4, <1>5 DEF Injection, IsInjective
  <1>7. q \in Surjection(D, T)
    BY <1>2, <1>3, <1>6, FS_Injection
  <1>8. \E i \in D : q[i] = t
    BY <1>7 DEF Surjection
  <1> QED
    BY <1>4, <1>8

(* A step that is done with leaves the others in the queue and adds all its *)
(* targets.                                                                 *)
LEMMA EnqueuedCovers ==
  ASSUME TypeOK, queue # <<>>, NEW T \in SUBSET Steps, NEW q \in Enqueued(T)
  PROVE  /\ \A i \in DOMAIN queue : i = 1 \/ \E j \in DOMAIN q : q[j] = queue[i]
         /\ \A t \in T : \E j \in DOMAIN q : q[j] = t
  <1>1. PICK r \in SetToSeqs(T) : q = Tail(queue) \o r
    BY DEF Enqueued
  <1>2. r \in Seq(T)
    BY <1>1, OrdersOfSteps
  <1>3. /\ queue \in Seq(Steps) /\ Len(queue) \in Nat \ {0}
        /\ DOMAIN queue = 1 .. Len(queue)
    BY EmptySeq, LenProperties DEF TypeOK
  <1>4. /\ Tail(queue) \in Seq(Steps)
        /\ Len(Tail(queue)) = Len(queue) - 1
        /\ \A i \in 1 .. Len(Tail(queue)) : Tail(queue)[i] = queue[i + 1]
    BY <1>3, HeadTailProperties
  <1>5. r \in Seq(Steps) /\ Len(r) \in Nat /\ DOMAIN r = 1 .. Len(r)
    BY <1>2, LenProperties
  <1>6. /\ DOMAIN q = 1 .. (Len(Tail(queue)) + Len(r))
        /\ \A i \in 1 .. (Len(Tail(queue)) + Len(r)) :
             q[i] = IF i <= Len(Tail(queue)) THEN Tail(queue)[i]
                                             ELSE r[i - Len(Tail(queue))]
    BY <1>1, <1>4, <1>5, ConcatProperties, LenProperties
  <1> DEFINE n == Len(queue) - 1
  <1>7. n \in Nat /\ n = Len(Tail(queue)) /\ Len(queue) = n + 1
    BY <1>3, <1>4
  <1> HIDE DEF n
  <1>8. ASSUME NEW i \in DOMAIN queue, i # 1
        PROVE  \E j \in DOMAIN q : q[j] = queue[i]
    <2>1. i - 1 \in 1 .. n /\ i - 1 \in Nat /\ (i - 1) + 1 = i
      BY <1>3, <1>7, <1>8
    <2>2. Tail(queue)[i - 1] = queue[i]
      BY <1>4, <1>7, <2>1
    <2>3. i - 1 \in 1 .. (n + Len(r))
      BY <1>5, <1>7, <2>1
    <2>4. q[i - 1] = Tail(queue)[i - 1]
      BY <1>6, <1>7, <2>1, <2>3
    <2> QED
      BY <1>6, <1>7, <2>2, <2>3, <2>4
  <1>9. ASSUME NEW t \in T
        PROVE  \E j \in DOMAIN q : q[j] = t
    <2>1. PICK i \in DOMAIN r : r[i] = t
      BY <1>1, OrdersAreComplete
    <2>2. /\ n + i \in 1 .. (n + Len(r)) /\ ~(n + i <= n) /\ (n + i) - n = i
      BY <1>5, <1>7, <2>1
    <2>3. q[n + i] = r[i]
      BY <1>6, <1>7, <2>2
    <2> QED
      BY <1>6, <1>7, <2>1, <2>2, <2>3
  <1> QED
    BY <1>8, <1>9

-----------------------------------------------------------------------------
(* Why a run that was never resumed forgets nothing: a step that an entry   *)
(* or an outcome leads to has been processed or is still in the queue, and  *)
(* what is visited and not enqueued for that reason has been processed.     *)
LedTo(s) == s \in Entries \/ \E p \in Steps : s \in Leads(p)

Remembered ==
  approved = {} =>
    /\ status = "running" => /\ \A s \in visited : Processed(s)
                             /\ \A s \in Steps : LedTo(s) => Processed(s) \/ Queued(s)
    /\ status = "succeeded" => \A s \in Steps : LedTo(s) => Processed(s)

LEMMA InitRemembered ==
  ASSUME Init
  PROVE  Remembered
  <1>1. TypeOK
    BY InitTyped DEF Typed
  <1>2. queue \in SetToSeqs(Entries) /\ Entries \in SUBSET Steps
    BY <1>1, EntriesAreSteps DEF Init
  <1>3. \A s \in Entries : Queued(s)
    BY <1>2, OrdersAreComplete DEF Queued
  <1>4. \A s \in Steps : trace[s] = <<>>
    BY DEF Init
  <1>5. \A p \in Steps : Leads(p) = {}
    BY <1>4 DEF Leads, Has
  <1> QED
    BY <1>3, <1>5 DEF Remembered, LedTo, Init

(* What a step that is done with adds to where outcomes lead are its own    *)
(* targets.                                                                 *)
LEMMA DoneLeads ==
  ASSUME TypeOK, Fresh, NEW o \in Outcomes, NEW T \in SUBSET Steps, Done(o, T),
         o # "failed" => T = OnSuccess(Current),
         o = "failed" => T = AfterFailure(Current),
         NEW p \in Steps
  PROVE  Leads(p)' \subseteq Leads(p) \cup (IF p = Current THEN T ELSE {})
  <1>1. case' = case
    BY DEF Done
  <1>2. OnSuccess(p)' = OnSuccess(p) /\ OnFailure(p)' = OnFailure(p) /\ doc' = doc
    BY <1>1 DEF OnSuccess, OnFailure, doc
  <1>3. \A x \in Outcomes : Has(p, x)' <=> Has(p, x) \/ (p = Current /\ x = o)
    BY DoneOutcomes
  <1>4. CASE p # Current
    <2>1. \A x \in Outcomes : Has(p, x)' <=> Has(p, x)
      BY <1>3, <1>4
    <2> QED
      BY <1>2, <2>1 DEF Leads, Outcomes
  <1>5. CASE p = Current /\ o # "failed"
    <2>1. Has(p, "failed")' <=> Has(p, "failed")
      BY <1>3, <1>5 DEF Outcomes
    <2>2. T = OnSuccess(p)
      BY <1>5
    <2> QED
      BY <1>2, <1>5, <2>1, <2>2 DEF Leads
  <1>6. CASE p = Current /\ o = "failed"
    <2>1. /\ Has(p, "succeeded")' <=> Has(p, "succeeded")
          /\ Has(p, "skipped")' <=> Has(p, "skipped")
      BY <1>3, <1>6 DEF Outcomes
    <2>2. T = AfterFailure(p)
      BY <1>6
    <2>3. OnFailure(p) \subseteq T
      BY <2>2 DEF AfterFailure
    <2>4. OnFailure(p) = {} /\ ~doc.step[p].stop => T = OnSuccess(p)
      BY <2>2 DEF AfterFailure
    <2> QED
      BY <1>2, <1>6, <2>1, <2>3, <2>4 DEF Leads
  <1> QED
    BY <1>4, <1>5, <1>6

LEMMA DoneRemembered ==
  ASSUME TypeOK, Fresh, Remembered, NEW o \in Outcomes, NEW T \in SUBSET Steps, Done(o, T),
         o # "failed" => T = OnSuccess(Current),
         o = "failed" => T = AfterFailure(Current),
         approved' = approved
  PROVE  Remembered'
  <1>1. SUFFICES ASSUME approved = {}
                 PROVE  /\ \A s \in visited' : Processed(s)'
                        /\ \A s \in Steps : LedTo(s)' => Processed(s)' \/ Queued(s)'
    BY FreshQueue DEF Remembered, Done
  <1>2. PICK c \in Steps : c = Current
    BY FreshQueue
  <1>3. /\ queue # <<>> /\ queue' \in Enqueued(T \ Visit(c)) /\ visited' = Visit(c)
        /\ status = "running" /\ case' = case
    BY <1>2, FreshQueue DEF Done
  <1>4. /\ \A s \in visited : Processed(s)
        /\ \A s \in Steps : LedTo(s) => Processed(s) \/ Queued(s)
    BY <1>1, <1>3 DEF Remembered
  <1>5. \A s \in Steps : Processed(s)' <=> Processed(s) \/ s = c
    <2>1. \A s \in Steps, p \in Outcomes : Has(s, p)' <=> Has(s, p) \/ (s = c /\ p = o)
      BY <1>2, DoneOutcomes
    <2> QED
      BY <2>1 DEF Processed, Executed, Outcomes
  <1>6. \A s \in visited' : s \in Steps /\ Processed(s)'
    <2>1. visited \subseteq Steps
      BY DEF TypeOK
    <2> QED
      BY <1>3, <1>4, <1>5, <2>1 DEF Visit
  <1>7. /\ \A i \in DOMAIN queue : i = 1 \/ \E j \in DOMAIN queue' : queue'[j] = queue[i]
        /\ \A t \in T \ Visit(c) : \E j \in DOMAIN queue' : queue'[j] = t
    <2>1. T \ Visit(c) \in SUBSET Steps
      OBVIOUS
    <2> QED
      BY <1>3, <2>1, EnqueuedCovers
  <1>8. \A s \in Steps : Queued(s) => s = c \/ Queued(s)'
    <2>1. queue[1] = c
      BY <1>2 DEF Current
    <2> QED
      BY <1>7, <2>1 DEF Queued
  <1>9. \A s \in T : Processed(s)' \/ Queued(s)'
    BY <1>3, <1>6, <1>7 DEF Queued
  <1>10. \A s \in Steps : LedTo(s)' => LedTo(s) \/ s \in T
    <2>1. Entries' = Entries
      BY <1>3 DEF Entries, doc
    <2>2. \A p \in Steps : Leads(p)' \subseteq Leads(p) \cup T
      BY DoneLeads
    <2> QED
      BY <2>1, <2>2 DEF LedTo
  <1>11. ASSUME NEW s \in Steps, LedTo(s)'
         PROVE  Processed(s)' \/ Queued(s)'
    <2>1. CASE s \in T
      BY <1>9, <2>1
    <2>2. CASE LedTo(s)
      BY <1>4, <1>5, <1>8, <2>2
    <2> QED
      BY <1>10, <1>11, <2>1, <2>2
  <1> QED
    BY <1>6, <1>11

(* A call ends with success only when its queue is empty.                   *)
LEMMA FinishRemembered ==
  ASSUME TypeOK, Finish, Remembered
  PROVE  Remembered'
  <1>1. SUFFICES ASSUME approved = {}
                 PROVE  \A s \in Steps : LedTo(s)' => Processed(s)'
    BY DEF Remembered, Finish, Return, history
  <1>2. \A s \in Steps : ~Queued(s)
    BY DEF Finish, Queued
  <1>3. \A s \in Steps : LedTo(s) => Processed(s)
    BY <1>1, <1>2 DEF Remembered, Finish
  <1>4. \A s \in Steps, p \in Outcomes : Has(s, p)' <=> Has(s, p)
    BY OtherOutcomes
  <1>5. \A s \in Steps : Processed(s)' <=> Processed(s)
    BY <1>4 DEF Processed, Executed, Outcomes
  <1>6. /\ Entries' = Entries /\ doc' = doc
        /\ \A s \in Steps : OnSuccess(s)' = OnSuccess(s) /\ OnFailure(s)' = OnFailure(s)
    BY DEF Finish, Entries, OnSuccess, OnFailure, doc
  <1>7. \A s \in Steps : Leads(s)' = Leads(s)
    BY <1>4, <1>6 DEF Leads, Outcomes
  <1>8. \A s \in Steps : LedTo(s)' => LedTo(s)
    BY <1>6, <1>7 DEF LedTo
  <1> QED
    BY <1>3, <1>5, <1>8

LEMMA StepRemembered ==
  ASSUME Typed, Remembered, [Next]_vars
  PROVE  Remembered'
  <1>0. TypeOK
    BY DEF Typed
  <1>1. CASE Skip \/ StepSucceeds \/ PassGate
    <2>1. Fresh /\ approved' = approved
      BY <1>1 DEF Skip, StepSucceeds, PassGate, history
    <2>2. OnSuccess(Current) \in SUBSET Steps
      BY <1>0, <2>1, FreshQueue, TargetsAreSteps
    <2>3. PICK o \in Outcomes : o # "failed" /\ Done(o, OnSuccess(Current))
      BY <1>1 DEF Skip, StepSucceeds, PassGate, Outcomes
    <2> QED
      BY <1>0, <2>1, <2>2, <2>3, DoneRemembered
  <1>2. CASE StepFails
    <2>1. Fresh /\ approved' = approved /\ Done("failed", AfterFailure(Current))
      BY <1>2 DEF StepFails, history
    <2>2. AfterFailure(Current) \in SUBSET Steps
      BY <1>0, <2>1, FreshQueue, TargetsAreSteps
    <2>3. "failed" \in Outcomes
      BY DEF Outcomes
    <2> QED
      BY <1>0, <2>1, <2>2, <2>3, DoneRemembered
  <1>3. CASE Finish
    BY <1>0, <1>3, FinishRemembered
  <1>4. CASE Pause \/ StepStops \/ CycleDetected \/ Reject
    <2>1. status' # "running" /\ status' # "succeeded"
      BY <1>4 DEF Pause, StepStops, CycleDetected, Reject, Return
    <2> QED
      BY <2>1 DEF Remembered
  <1>5. CASE Approve
    <2>1. approved' # {}
      BY <1>5 DEF Approve
    <2> QED
      BY <2>1 DEF Remembered
  <1>6. CASE UNCHANGED vars
    <2>1. UNCHANGED <<case, status, queue, visited, trace, approved>>
      BY <1>6 DEF vars, loop, history
    <2>2. /\ \A s : Processed(s)' <=> Processed(s)
          /\ \A s : Queued(s)' <=> Queued(s)
          /\ \A s : LedTo(s)' <=> LedTo(s)
      BY <2>1 DEF Processed, Executed, Has, Queued, LedTo, Leads, Entries, OnSuccess,
                  OnFailure, doc
    <2> QED
      BY <2>1, <2>2 DEF Remembered
  <1> QED
    BY <1>1, <1>2, <1>3, <1>4, <1>5, <1>6 DEF Next, RunnerStep

(* A run that succeeds without a pause has processed every entry and every  *)
(* step its outcomes lead to (_enqueue_after of run_pipeline_document).     *)
THEOREM NothingIsForgotten == Spec => []NothingForgotten
  <1>1. Init => Remembered
    BY InitRemembered
  <1>2. Typed /\ Remembered /\ [Next]_vars => Remembered'
    BY StepRemembered
  <1>3. Typed /\ Remembered => NothingForgotten
    <2>1. SUFFICES ASSUME TypeOK, Remembered, status = "succeeded", approved = {},
                          NEW s \in Steps
                   PROVE  /\ s \in Entries => Processed(s)
                          /\ \A t \in Leads(s) : Processed(t)
      BY DEF NothingForgotten, Typed
    <2>2. Leads(s) \subseteq Steps
      BY <2>1, TargetsAreSteps DEF Leads
    <2>3. \A t \in Steps : LedTo(t) => Processed(t)
      BY <2>1 DEF Remembered
    <2> QED
      BY <2>1, <2>2, <2>3 DEF LedTo
  <1> QED
    BY <1>1, <1>2, <1>3, AlwaysTyped, PTL DEF Spec
=============================================================================
