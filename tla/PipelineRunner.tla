--------------------------- MODULE PipelineRunner ---------------------------
(***************************************************************************)
(* One run of a pipeline document (src/agents/pipeline_runner.py): a queue  *)
(* of steps that follows the document's edges, skips, gates that pause the  *)
(* run for an operator, and the resume from what the pause saved.           *)
(*                                                                          *)
(* What a step computes is abstracted to whether it raises.  A step's       *)
(* entries in the run trace are kept apart from those of other steps, in    *)
(* their order; the trace is the only record of what was executed.          *)
(***************************************************************************)
EXTENDS Naturals, Sequences, FiniteSets, SequencesExt

CONSTANTS N,        \* number of steps of a document, numbered in its order
          Cases,    \* the documents to run and the requests to run them
          MaxPauses \* bound: pauses answered by the operator

Steps == 1 .. N

NoStep == 0

Edge == [from: Steps, to: Steps, kind: {"success", "failure", "always"}]

(* "stop" is on_failure with the document's default filled in.              *)
Step == [gate: BOOLEAN, enabled: BOOLEAN,
         when: {"always", "previous_succeeded", "previous_failed"},
         stop: BOOLEAN, onSuccess: Steps \cup {NoStep},
         onFailure: Steps \cup {NoStep}]

(* "profile": the document's defaults name a proof profile.                 *)
Document == [edges: SUBSET Edge, step: [Steps -> Step], profile: BOOLEAN]

Profile == {"none", "document", "request"}

Request == [auto: BOOLEAN, attest: BOOLEAN, profile: Profile \ {"document"}]

ASSUME PipelineAssumption == /\ N \in Nat \ {0}
                             /\ Cases \subseteq [doc: Document, request: Request]
                             /\ MaxPauses \in Nat

VARIABLES case,      \* the document and the request
          status,    \* "running", or the final_status of the last result
          error,
          queue, visited, previous,
          opened,    \* the gate a resume passes, until it is passed
          auto, profile,   \* what this call was given
          trace,
          pausedAt,  \* the gate in the saved resume_state
          judged,    \* the profile the claim was evaluated for
          (* History variables, read by the properties only.              *)
          pauses, approved

call == <<auto, profile>>
loop == <<queue, visited, previous, opened>>
history == <<pauses, approved>>
vars == <<case, status, error, loop, call, trace, pausedAt, judged, history>>

Statuses == {"succeeded", "failed", "skipped", "awaiting_approval", "unreached"}

doc == case.doc

-----------------------------------------------------------------------------
(* _successors: the targets of the edges, or without edges the jumps of a   *)
(* step and the step that follows it.  The order in which an edge list      *)
(* names the targets is left open.                                          *)
OnSuccess(s) ==
  IF doc.edges # {} THEN {e.to : e \in {x \in doc.edges : x.from = s /\ x.kind # "failure"}}
  ELSE IF doc.step[s].onSuccess # NoStep THEN {doc.step[s].onSuccess}
  ELSE {s + 1} \cap Steps

OnFailure(s) ==
  IF doc.edges # {} THEN {e.to : e \in {x \in doc.edges : x.from = s /\ x.kind = "failure"}}
  ELSE {doc.step[s].onFailure} \ {NoStep}

(* _entry_step_ids: the steps no edge leads to, or else the first.          *)
Entries ==
  LET roots == Steps \ {e.to : e \in doc.edges} IN
  IF doc.edges = {} \/ roots = {} THEN {1} ELSE roots

(* Mutant: the success path is followed as well.                            *)
AfterFailureToo(s) == OnFailure(s) \cup OnSuccess(s)

(* Where a step that raised leads: its failure edges, or along the success  *)
(* path if failures are to be ignored.                                      *)
AfterFailure(s) == IF OnFailure(s) # {} THEN OnFailure(s)
                   ELSE IF doc.step[s].stop THEN {} ELSE OnSuccess(s)

(* The parameters of the call that resumes a run.                           *)
ResumedAutoTrue == TRUE           \* mutant
ResumedAuto == FALSE

DocumentProfile == IF doc.profile THEN "document" ELSE "none"

ResumedNoProfile == "none"        \* mutant
ResumedProfile == DocumentProfile

Init == /\ case \in Cases
        /\ status = "running"
        /\ error = "none"
        /\ queue \in SetToSeqs(Entries)
        /\ visited = {}
        /\ previous = "none"
        /\ opened = NoStep
        /\ auto = case.request.auto
        /\ profile = IF case.request.profile = "none" THEN DocumentProfile
                                                     ELSE "request"
        /\ trace = [s \in Steps |-> <<>>]
        /\ pausedAt = NoStep
        /\ judged = "none"
        /\ pauses = 0
        /\ approved = {}

-----------------------------------------------------------------------------
Current == Head(queue)

Fresh == /\ status = "running"
         /\ queue # <<>>
         /\ Current \notin visited

Visit(s) == visited \cup {s}

(* Mutant: the targets replace the queue.                                   *)
EnqueuedAlone(targets) == SetToSeqs(targets)

Enqueued(targets) == {Tail(queue) \o q : q \in SetToSeqs(targets)}

(* A step is done with: its entry, and what it leads to.                    *)
Done(outcome, targets) ==
  /\ trace' = [trace EXCEPT ![Current] = Append(@, outcome)]
  /\ previous' = outcome
  /\ visited' = Visit(Current)
  /\ queue' \in Enqueued(targets \ Visit(Current))
  /\ UNCHANGED <<case, status, error, call, pausedAt, judged>>

(* when = previous_succeeded accepts a skipped predecessor, or none.        *)
WhenMet(s) ==
  /\ doc.step[s].when = "previous_succeeded" => previous # "failed"
  /\ doc.step[s].when = "previous_failed" => previous = "failed"

Runs(s) == doc.step[s].enabled /\ WhenMet(s)

Skip == /\ Fresh
        /\ ~Runs(Current)
        /\ Done("skipped", OnSuccess(Current))
        /\ UNCHANGED <<opened, history>>

StepSucceeds == /\ Fresh
                /\ Runs(Current)
                /\ ~doc.step[Current].gate
                /\ Done("succeeded", OnSuccess(Current))
                /\ UNCHANGED <<opened, history>>

StepFails == /\ Fresh
             /\ Runs(Current)
             /\ ~doc.step[Current].gate
             /\ OnFailure(Current) # {} \/ ~doc.step[Current].stop
             /\ Done("failed", AfterFailure(Current))
             /\ UNCHANGED <<opened, history>>

Passes(s) == auto \/ opened = s

PassGate == /\ Fresh
            /\ Runs(Current)
            /\ doc.step[Current].gate
            /\ Passes(Current)
            /\ Done("succeeded", OnSuccess(Current))
            /\ opened' = NoStep
            /\ UNCHANGED history

-----------------------------------------------------------------------------
(* Mutant: the final status is not stored.                                  *)
ReturnUnstored(final, why) == /\ status' = status
                              /\ error' = why
                              /\ queue' = <<>>
                              /\ visited' = {}
                              /\ opened' = NoStep

(* The call returns: its local variables are gone.                          *)
Return(final, why) == /\ status' = final
                      /\ error' = why
                      /\ queue' = <<>>
                      /\ visited' = {}
                      /\ opened' = NoStep

(* Mutant: the status has another name than the one skipped steps have.     *)
FilledAsMissing(tr) == [s \in Steps |-> IF tr[s] = <<>> THEN <<"missing">> ELSE tr[s]]

(* "not reached by graph" for every step without an entry.                  *)
Filled(tr) == [s \in Steps |-> IF tr[s] = <<>> THEN <<"unreached">> ELSE tr[s]]

(* Of all the queued steps the resume state keeps the gate alone.           *)
Pause == /\ Fresh
         /\ Runs(Current)
         /\ doc.step[Current].gate
         /\ ~Passes(Current)
         /\ trace' = [trace EXCEPT ![Current] = Append(@, "awaiting_approval")]
         /\ pausedAt' = Current
         /\ Return("awaiting_approval", "none")
         /\ UNCHANGED <<case, previous, call, judged, history>>

StepStops == /\ Fresh
             /\ Runs(Current)
             /\ ~doc.step[Current].gate
             /\ OnFailure(Current) = {} /\ doc.step[Current].stop
             /\ trace' = Filled([trace EXCEPT ![Current] = Append(@, "failed")])
             /\ previous' = "failed"
             /\ Return("failed", "step")
             /\ UNCHANGED <<case, call, pausedAt, judged, history>>

(* A step that was queued twice.                                            *)
CycleDetected == /\ status = "running"
                 /\ queue # <<>>
                 /\ Current \in visited
                 /\ trace' = Filled(trace)
                 /\ Return("failed", "cycle")
                 /\ UNCHANGED <<case, previous, call, pausedAt, judged, history>>

(* The queue is empty: attest if asked to, then evaluate the proof profile, *)
(* which fails the run unless it is not fail-closed.                        *)
Finish == /\ status = "running"
          /\ queue = <<>>
          /\ trace' = Filled(trace)
          /\ \/ /\ case.request.attest
                /\ Return("failed", "attest")
                /\ UNCHANGED judged
             \/ /\ profile # "none"
                /\ judged' = profile
                /\ Return("succeeded", "none") \/ Return("failed", "claim")
             \/ /\ profile = "none"
                /\ Return("succeeded", "none")
                /\ UNCHANGED judged
          /\ UNCHANGED <<case, previous, call, pausedAt, history>>

-----------------------------------------------------------------------------
(* The operator answers the pause (resume_pipeline_approval).               *)
SeededAgain(g) == SetToSeqs(Entries)     \* mutant
Seeded(g) == {<<g>>}

Approve == /\ status = "awaiting_approval"
           /\ pauses < MaxPauses
           /\ status' = "running"
           /\ queue' \in Seeded(pausedAt)
           /\ visited' = {}
           /\ opened' = pausedAt
           /\ auto' = ResumedAuto
           /\ profile' = ResumedProfile
           /\ pausedAt' = NoStep
           /\ pauses' = pauses + 1
           /\ approved' = approved \cup {pausedAt}
           /\ UNCHANGED <<case, error, previous, trace, judged>>

Reject == /\ status = "awaiting_approval"
          /\ pauses < MaxPauses
          /\ status' = "failed"
          /\ error' = "rejected"
          /\ pausedAt' = NoStep
          /\ pauses' = pauses + 1
          /\ UNCHANGED <<case, loop, call, trace, judged, approved>>

RunnerStep == \/ Skip \/ StepSucceeds \/ StepFails \/ PassGate \/ Pause
              \/ StepStops \/ CycleDetected \/ Finish

Next == RunnerStep \/ Approve \/ Reject

Spec == Init /\ [][Next]_vars

(* The call runs on; the operator may never answer.                         *)
FairSpec == Spec /\ WF_vars(RunnerStep)

-----------------------------------------------------------------------------
TypeOK == /\ case \in [doc: Document, request: Request]
          /\ status \in {"running", "awaiting_approval", "succeeded", "failed"}
          /\ error \in {"none", "step", "cycle", "attest", "claim", "rejected"}
          /\ queue \in Seq(Steps)
          /\ visited \subseteq Steps
          /\ previous \in {"none", "succeeded", "failed", "skipped"}
          /\ opened \in Steps \cup {NoStep}
          /\ auto \in BOOLEAN
          /\ profile \in Profile
          /\ trace \in [Steps -> Seq(Statuses)]
          /\ pausedAt \in Steps \cup {NoStep}
          /\ judged \in Profile
          /\ pauses \in 0 .. MaxPauses
          /\ approved \subseteq Steps

Has(s, outcome) == \E i \in DOMAIN trace[s] : trace[s][i] = outcome

Executed(s) == Has(s, "succeeded") \/ Has(s, "failed")

Processed(s) == Executed(s) \/ Has(s, "skipped")

(* A gate that no condition and no operator has opened.                     *)
Closed(s) == /\ doc.step[s].gate /\ doc.step[s].enabled
             /\ doc.step[s].when = "always"
             /\ ~case.request.auto
             /\ s \notin approved

(* Steps that can be entered through closed gates only are not executed: an *)
(* approval opens its own gate and no other, across every pause and resume  *)
(* of a run (run_pipeline_document, resume_pipeline_approval).              *)
GatesHold ==
  \A C \in SUBSET Steps :
    /\ Entries \cap C = {}
    /\ \A s \in Steps \ C : ~Closed(s) => (OnSuccess(s) \cup OnFailure(s)) \cap C = {}
    => \A s \in C : ~Processed(s)

(* Where the outcomes in the trace lead.                                    *)
Leads(s) ==
  (IF \/ Has(s, "succeeded") \/ Has(s, "skipped")
      \/ Has(s, "failed") /\ OnFailure(s) = {} /\ ~doc.step[s].stop
   THEN OnSuccess(s) ELSE {})
  \cup (IF Has(s, "failed") THEN OnFailure(s) ELSE {})

(* Every processed step lies on a path from an entry along which each       *)
(* outcome in the trace leads to the next step: nothing runs past a failure *)
(* that stops the run, a branch not taken or an unanswered gate.            *)
FollowsRoutes ==
  \A C \in SUBSET Steps :
    /\ Entries \cap C = {}
    /\ \A s \in Steps \ C : Leads(s) \cap C = {}
    => \A s \in C : ~Processed(s)

(* A run that succeeds without a pause has processed all that its outcomes  *)
(* lead to.                                                                 *)
NothingForgotten ==
  status = "succeeded" /\ approved = {} =>
    \A s \in Steps : /\ s \in Entries => Processed(s)
                     /\ \A t \in Leads(s) : Processed(t)

Tree == /\ \A s \in Steps, t \in Steps :
             s # t => (OnSuccess(s) \cup OnFailure(s)) \cap (OnSuccess(t) \cup OnFailure(t)) = {}
        /\ \A s \in Steps : (OnSuccess(s) \cup OnFailure(s)) \cap Entries = {}

(* Where each step has one way in, no step is executed twice and no cycle   *)
(* is reported, however often the run pauses: a resume forgets what was     *)
(* visited but never goes back.                                             *)
TreeRunsOnce ==
  Tree => /\ error # "cycle"
          /\ \A s \in Steps : \A i, j \in DOMAIN trace[s] :
               {trace[s][i], trace[s][j]} \subseteq {"succeeded", "failed", "skipped"}
                 => i = j

(* A document bound to a proof profile never succeeds without a claim, also *)
(* over its pauses ("fail-closed", docs/PROOF-STUDIO.md:20).                *)
ProfileIsJudged == status = "succeeded" /\ doc.profile => judged # "none"

(* Every call ends, on cyclic documents too.                                *)
CallReturns == status = "running" ~> status # "running"

-----------------------------------------------------------------------------
Cyclic == \E C \in SUBSET Steps \ {{}} :
            \A s \in C : (OnSuccess(s) \cup OnFailure(s)) \cap C # {}

(* "cycle detected at step" (src/agents/pipeline_runner.py:500): a run that *)
(* fails so is one of a document with a cycle.                              *)
CycleIsReal == error = "cycle" => Cyclic
=============================================================================
