---------------------------- MODULE Attestation -----------------------------
(***************************************************************************)
(* What the three agents and the provers write down about one document       *)
(* (src/agents/agent1.py, agent2.py, agent3.py, src/scripts/run_apxv.py,      *)
(* prepare_proof_inputs.py, src/agents/zk/bridge.py), and how                 *)
(* src/scripts/verify_attestation.py checks it.  A hash is what was hashed;   *)
(* the three specifications are one version number, read anew by each agent.  *)
(***************************************************************************)
EXTENDS Redaction, MerkleTree

Governance == {"redaction", "rule-binding", "pipeline"}
Agents == <<"APXV-AGENT-001", "APXV-AGENT-002", "APXV-AGENT-003">>
None == [status |-> "none"]

RedactorOutput(doc, spec) ==
  LET redaction == Apply(doc)
  IN  [texts |-> redaction.texts, entities |-> redaction.entities,
       total |-> redaction.total, categories |-> redaction.categories,
       input |-> doc, governed |-> spec]

(* Agent 2 records the specifications that it read, not those of agent 1.   *)
ProposedArtifact(redactor, spec) ==
  [governed |-> spec,
   original |-> redactor.input,
   redacted |-> redactor.texts,
   entities |-> redactor.entities,
   total |-> redactor.total,
   categories |-> redactor.categories]

(* Mutant: ten entities are already too many.                               *)
DecisionAtTen(artifact) ==
  CASE artifact.total = 0 -> "APPROVED_NO_CHANGES"
    [] artifact.total \in 1..5 /\ "SSN" \notin artifact.categories -> "APPROVED"
    [] "SSN" \in artifact.categories -> "APPROVED_WITH_REVIEW_FLAG"
    [] artifact.total >= 10 -> "APPROVED_WITH_REVIEW_FLAG"
    [] OTHER -> "APPROVED"

Decision(artifact) ==
  CASE artifact.total = 0 -> "APPROVED_NO_CHANGES"
    [] artifact.total \in 1..5 /\ "SSN" \notin artifact.categories -> "APPROVED"
    [] "SSN" \in artifact.categories -> "APPROVED_WITH_REVIEW_FLAG"
    [] artifact.total > 10 -> "APPROVED_WITH_REVIEW_FLAG"
    [] OTHER -> "APPROVED"

(* Agent 3 hashes the artifact, its decision and a placeholder proof that is *)
(* itself a hash of the artifact, and records the specifications it read.    *)
Attested(artifact, spec) ==
  [artifact |-> artifact,
   governed |-> spec,
   decision |-> Decision(artifact),
   chain |-> Agents,
   placeholder |-> artifact,
   provenance |-> <<artifact, Decision(artifact), artifact>>,
   zk |-> [c \in Governance |-> None],
   entity |-> <<>>,
   universal |-> None,
   claim |-> None,
   e2ee |-> None]

-----------------------------------------------------------------------------
(* Proofs.  A prover that fails leaves a status instead of a proof; the      *)
(* commitment to a redaction proof that is none is zero.                     *)
Failed == [status |-> "proof_failed"]
IsProof(p) == p # None /\ p # Failed
Commitment(p) == IF IsProof(p) THEN p.inputs ELSE None

CircuitInputs(a, circuit, redactionProof) ==
  CASE circuit = "redaction" ->
         [original |-> a.artifact.original, redacted |-> a.artifact.redacted,
          count |-> a.artifact.total]
    [] circuit = "rule-binding" ->
         [rule |-> a.artifact.governed, proof |-> Commitment(redactionProof),
          count |-> a.artifact.total]
    [] circuit = "pipeline" ->
         [specifications |-> a.artifact.governed, decision |-> a.decision,
          chain |-> a.provenance]

GovernanceProof(a, circuit, vk) ==
  [circuit |-> circuit, vk |-> vk,
   inputs |-> CircuitInputs(a, circuit, a.zk["redaction"])]

(* The commitment of an entity; one without a position has the sentinel.    *)
Leaves(artifact) == artifact.entities

(* The default policy applies when the text was changed.                    *)
HasPolicy(artifact) ==
  \E i \in DOMAIN artifact.redacted :
     artifact.redacted[i] # Text(artifact.original.parts[i].kinds)

(* The entity circuits, in the order they are proved, with their inputs.    *)
EntityCircuits(artifact) ==
  LET leaves == Leaves(artifact)
      whole == [root |-> Root(leaves), count |-> Len(leaves)]
  IN  <<[key |-> [name |-> "redaction_v1"], circuit |-> "redaction-v1",
         inputs |-> whole],
        [key |-> [name |-> "core_redaction"], circuit |-> "core-redaction",
         inputs |-> whole]>>
      \o (IF Len(leaves) <= BatchSize
          THEN <<[key |-> [name |-> "batch_merkle"], circuit |-> "batch-merkle",
                  inputs |-> BatchWitness(leaves)]>>
          ELSE <<>>)
      \o [i \in DOMAIN Inclusions(leaves) |->
            [key |-> [name |-> "merkle_inclusion", index |-> i],
             circuit |-> "merkle-inclusion", inputs |-> Inclusions(leaves)[i]]]
      \o (IF HasPolicy(artifact)
          THEN <<[key |-> [name |-> "compliance"], circuit |-> "compliance",
                  inputs |-> [policy |-> 1, count |-> Len(leaves)]]>>
          ELSE <<>>)

(* Without entities there is nothing to prove (ValueError), with too many    *)
(* the tree does not fit the circuits (IndexError).                          *)
Provable(artifact) == /\ artifact.entities # <<>>
                      /\ Fits(Leaves(artifact))

EntityProofs(artifact, vk, failing) ==
  LET circuits == EntityCircuits(artifact)
  IN  [i \in DOMAIN circuits |->
         [key |-> circuits[i].key,
          proof |-> IF i \in failing THEN Failed
                    ELSE [circuit |-> circuits[i].circuit, vk |-> vk]]]

AllValid(a) == /\ \A c \in Governance : IsProof(a.zk[c])
               /\ \A i \in DOMAIN a.entity : IsProof(a.entity[i].proof)

-----------------------------------------------------------------------------
(* Encryption at rest hides the artifact and nothing else.                  *)
Hidden == [status |-> "E2EE_ENCRYPTED"]

Encrypted(a, key) == [a EXCEPT !.e2ee = [key |-> key, content |-> a.artifact],
                               !.artifact = Hidden]

CanOpen(a, key) == a.e2ee = None \/ a.e2ee.key = key
Opened(a) == IF a.e2ee = None THEN a
             ELSE [a EXCEPT !.artifact = a.e2ee.content, !.e2ee = None]

-----------------------------------------------------------------------------
(* verify_attestation.                                                      *)
ExpectedDecision(total, hasSsn) ==
  CASE total = 0 -> "APPROVED_NO_CHANGES"
    [] total > 0 /\ total <= 5 /\ ~hasSsn -> "APPROVED"
    [] total > 0 /\ (hasSsn \/ total > 10) -> "APPROVED_WITH_REVIEW_FLAG"
    [] total > 5 /\ total <= 10 /\ ~hasSsn -> "APPROVED"

VerifyPython(a) ==
  /\ a.provenance = <<a.artifact, a.decision, a.placeholder>>
  /\ a.decision = ExpectedDecision(a.artifact.total,
                                   "SSN" \in a.artifact.categories)
  /\ a.artifact.governed \in Nat
  /\ a.chain = Agents

(* The circuit whose key an attached entity proof is checked with.          *)
CircuitForKey(key) ==
  CASE key.name = "redaction_v1" -> "redaction-v1"
    [] key.name = "core_redaction" -> "core-redaction"
    [] key.name = "batch_merkle" -> "batch-merkle"
    [] key.name = "compliance" -> "compliance"
    [] OTHER -> "merkle-inclusion"

(* A proof is accepted for a circuit if it was made for it with the key the  *)
(* manifest now names.                                                       *)
Accepted(p, circuit, vk) == IsProof(p) /\ p.circuit = circuit /\ p.vk = vk

VerifyRealZk(a, vk) ==
  /\ \A c \in Governance : Accepted(a.zk[c], c, vk)
  /\ \A i \in DOMAIN a.entity :
       Accepted(a.entity[i].proof, CircuitForKey(a.entity[i].key), vk)

(* What is printed as the inputs that must match the proofs.                *)
InputsMatch(a) ==
  \A c \in Governance :
    IsProof(a.zk[c]) => a.zk[c].inputs = CircuitInputs(a, c, a.zk["redaction"])
=============================================================================
