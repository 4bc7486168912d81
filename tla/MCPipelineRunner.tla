-------------------------- MODULE MCPipelineRunner --------------------------
(* Families of small documents.                                             *)
EXTENDS PipelineRunner

Plain == [gate |-> FALSE, enabled |-> TRUE, when |-> "always", stop |-> TRUE,
          onSuccess |-> NoStep, onFailure |-> NoStep]

Gate == [Plain EXCEPT !.gate = TRUE]

Kinds == {Plain, Gate, [Plain EXCEPT !.stop = FALSE],
          [Plain EXCEPT !.when = "previous_failed"],
          [Gate EXCEPT !.when = "previous_succeeded"],
          [Plain EXCEPT !.enabled = FALSE]}

Wire(f, t, k) == [from |-> f, to |-> t, kind |-> k]

(* Forward edges of either kind or none, and at most one edge back.         *)
Ways(f, t) == {{}, {Wire(f, t, "success")}, {Wire(f, t, "failure")}}

Wirings == {a \cup b \cup c \cup d :
              a \in Ways(1, 2), b \in Ways(1, 3), c \in Ways(2, 3),
              d \in {{}, {Wire(2, 1, "success")}, {Wire(3, 1, "success")},
                    {Wire(3, 2, "success")}}}

Ask == [auto |-> FALSE, attest |-> FALSE, profile |-> "none"]

Run(wires, steps, bound, request) ==
  [doc |-> [edges |-> wires, step |-> steps, profile |-> bound], request |-> request]

(* Each of these wirings with three steps of every kind.                    *)
Wired == {Run(w, s, FALSE, Ask) : w \in Wirings, s \in [Steps -> Kinds]}

(* Without edges: the jumps of the first two steps.                         *)
Jumps == {[k EXCEPT !.onSuccess = a, !.onFailure = b] :
            k \in {Plain, Gate}, a \in Steps \cup {NoStep}, b \in Steps \cup {NoStep}}

Linear == {Run({}, <<x, y, z>>, FALSE, Ask) : x \in Jumps, y \in Jumps, z \in {Plain}}

(* Proof profiles, attestation and automatic approval over a few documents. *)
Few == {[s \in Steps |-> Plain], [s \in Steps |-> Gate], <<Plain, Gate, Plain>>}

Asked == {Run(w, s, p, [auto |-> a, attest |-> t, profile |-> r]) :
            w \in {{}, {[from |-> 1, to |-> 2, kind |-> "always"],
                        [from |-> 1, to |-> 3, kind |-> "failure"]}},
            s \in Few, p \in BOOLEAN, a \in BOOLEAN, t \in BOOLEAN,
            r \in {"none", "request"}}

AllCases == Wired \cup Linear \cup Asked
=============================================================================
