------------------------------ MODULE Evidence ------------------------------
(***************************************************************************)
(* A document on its way to evidence: three agents in turn, the artifact     *)
(* that is stored, the proofs attached to it, the profile it is judged by    *)
(* and its encryption.  The ways are the command (scripts/run_apxv.py), a     *)
(* pack run of the server (agents/pipeline_service.py) and a composition      *)
(* with the pack as its step (agents/pipeline_runner.py).  Meanwhile an       *)
(* operator replaces specifications and rotates the circuits' keys.           *)
(***************************************************************************)
EXTENDS ProofProfile

CONSTANTS Runs,
          Cases,         \* what each run is asked for, or None: functions on Runs
          Absent, Torn,  \* the key file of the encryption, not there or cut
          MaxChanges,    \* bound: changes of the specifications
          MaxRotations,  \* bound: rotations of the circuits' keys
          MaxFailures,   \* bound: provers that fail
          MaxDeaths      \* bound: processes that die

ASSUME EvidenceAssumption == /\ Absent \notin Runs
                             /\ Torn \notin Runs
                             /\ Absent # Torn
                             /\ \A n \in {MaxChanges, MaxRotations, MaxFailures,
                                          MaxDeaths} : n \in Nat

ASSUME DocumentsAssumption ==
  \A c \in Cases, r \in Runs : c[r] # None => c[r].doc \in Documents

ASSUME ProfilesAssumption ==
  \A c \in Cases, r \in Runs :
    c[r] # None /\ c[r].profile # None => c[r].profile.predicates \in Seq(Predicates)

VARIABLES case, pc,
          work,      \* by run: what its last stage made
          stored,    \* by run: the artifact it wrote last, or None
          spec,      \* version of the specifications in force
          vk,        \* version of the circuits' keys
          keypair,   \* the key file of the encryption: Absent, Torn, or the
                     \* run that made the key
          held,      \* by run: the encryption key in its memory
          failures, deaths,
          began,     \* history, by run: vk when its first proof was made
          met        \* history: two runs made an encryption key at once

keys == <<spec, vk, keypair, held, met>>
bounds == <<failures, deaths>>
vars == <<case, pc, work, stored, keys, bounds, began>>

Init == /\ case \in Cases
        /\ pc = [r \in Runs |-> IF case[r] = None THEN "idle" ELSE "redact"]
        /\ work = [r \in Runs |-> None]
        /\ stored = [r \in Runs |-> None]
        /\ spec = 0
        /\ vk = 0
        /\ keypair = Absent
        /\ held = [r \in Runs |-> Absent]
        /\ failures = 0
        /\ deaths = 0
        /\ began = [r \in Runs |-> 0]
        /\ met = FALSE

At(r, stage) == pc[r] = stage /\ UNCHANGED case
Goes(r, stage) == pc' = [pc EXCEPT ![r] = stage]
Makes(r, product) == work' = [work EXCEPT ![r] = product]
Writes(r, artifact) == stored' = [stored EXCEPT ![r] = artifact]
MayFail == failures < MaxFailures /\ failures' = failures + 1 /\ UNCHANGED deaths

-----------------------------------------------------------------------------
(* The agents.  Each reads the specifications when it starts.               *)
Redacts(r) ==
  /\ At(r, "redact")
  /\ Makes(r, RedactorOutput(case[r].doc, spec))
  /\ Goes(r, "orchestrate")
  /\ UNCHANGED <<stored, keys, bounds, began>>

(* The text is too long, or the redaction takes too long.                   *)
RedactRaises(r) ==
  /\ At(r, "redact")
  /\ MayFail
  /\ Goes(r, "failed")
  /\ UNCHANGED <<work, stored, keys, began>>

Orchestrates(r) ==
  /\ At(r, "orchestrate")
  /\ Makes(r, ProposedArtifact(work[r], spec))
  /\ Goes(r, "coordinate")
  /\ UNCHANGED <<stored, keys, bounds, began>>

Composition(r) == case[r].way = "composition"

(* After the agents a composition attests and judges before it stores; the  *)
(* others store first.  A profile may ask for proofs the request did not.    *)
Wanted(r) == \/ case[r].attest
             \/ case[r].profile # None /\ case[r].profile.requireAttest

Judged(r) == IF case[r].profile = None THEN "finish" ELSE "judge"

Coordinates(r) ==
  /\ At(r, "coordinate")
  /\ Makes(r, Attested(work[r], spec))
  /\ Goes(r, IF ~Composition(r) THEN "persist"
             ELSE IF Wanted(r) THEN "redaction" ELSE Judged(r))
  /\ UNCHANGED <<stored, keys, bounds, began>>

Encrypting(r) == IF case[r].encrypt THEN "encrypt" ELSE "succeeded"

Persists(r) ==
  /\ At(r, "persist")
  /\ Writes(r, work[r])
  /\ Goes(r, IF case[r].attest THEN "redaction" ELSE Encrypting(r))
  /\ UNCHANGED <<work, keys, bounds, began>>

-----------------------------------------------------------------------------
(* The proofs: the three circuits of the governance track, then the entity   *)
(* track.  A prover that fails leaves its status and the run goes on.        *)
AfterCircuit(c) == CASE c = "redaction" -> "rule-binding"
                     [] c = "rule-binding" -> "pipeline"
                     [] c = "pipeline" -> "entity"

Begun(r, c) == began' = IF c = "redaction" THEN [began EXCEPT ![r] = vk]
                        ELSE began

Proves(r, c) ==
  /\ At(r, c)
  /\ Makes(r, [work[r] EXCEPT !.zk[c] = GovernanceProof(work[r], c, vk)])
  /\ Goes(r, AfterCircuit(c))
  /\ Begun(r, c)
  /\ UNCHANGED <<stored, keys, bounds>>

ProverFails(r, c) ==
  /\ At(r, c)
  /\ MayFail
  /\ Makes(r, [work[r] EXCEPT !.zk[c] = Failed])
  /\ Goes(r, AfterCircuit(c))
  /\ Begun(r, c)
  /\ UNCHANGED <<stored, keys>>

AfterProofs(r) == IF Composition(r) THEN Judged(r) ELSE "persistProofs"

ProvesEntities(r, failing) ==
  /\ At(r, "entity")
  /\ Provable(work[r].artifact)
  /\ failing \subseteq DOMAIN EntityCircuits(work[r].artifact)
  /\ IF failing = {} THEN UNCHANGED bounds ELSE MayFail
  /\ Makes(r, [work[r] EXCEPT !.entity =
                 EntityProofs(work[r].artifact, vk, failing)])
  /\ Goes(r, AfterProofs(r))
  /\ UNCHANGED <<stored, keys, began>>

(* No entities, too many of them, or a prover that times out.  The exception *)
(* ends a run that was asked to attest; one whose profile asked is judged    *)
(* with what it has.                                                         *)
EntitiesRaise(r) ==
  /\ At(r, "entity")
  /\ IF Provable(work[r].artifact) THEN MayFail ELSE UNCHANGED bounds
  /\ Goes(r, IF case[r].attest THEN "failed" ELSE "judge")
  /\ UNCHANGED <<work, stored, keys, began>>

PersistsProofs(r) ==
  /\ At(r, "persistProofs")
  /\ Writes(r, work[r])
  /\ Goes(r, Encrypting(r))
  /\ UNCHANGED <<work, keys, bounds, began>>

-----------------------------------------------------------------------------
(* The proof profile of a composition.                                      *)
Profile(r) == case[r].profile

(* A claim that does not hold ends the run unless the profile is lenient.    *)
Rejects(r, claim) == ~claim.ok /\ Profile(r).failClosed

WantsUniversal(r, claim) ==
  /\ claim.ok
  /\ Profile(r).universal \/ case[r].universalKeys
  /\ Mask(Profile(r)) # <<>>

Judges(r) ==
  /\ At(r, "judge")
  /\ LET claim == Claim(Profile(r), work[r])
     IN  /\ Makes(r, [work[r] EXCEPT !.claim = claim])
         /\ Goes(r, IF Rejects(r, claim) THEN "failed"
                    ELSE IF WantsUniversal(r, claim) THEN "universal"
                    ELSE "finish")
  /\ UNCHANGED <<stored, keys, bounds, began>>

(* With the proof attached a profile that asks for it is evaluated again.    *)
AsksForUniversal(profile) ==
  \E i \in DOMAIN profile.predicates :
     profile.predicates[i].id = "UNIVERSAL_PROOF_VALID"

ProvesUniversal(r, valid) ==
  /\ At(r, "universal")
  /\ Satisfies(Witness(Profile(r), work[r]))
  /\ IF valid THEN UNCHANGED bounds ELSE MayFail
  /\ LET proved == [work[r] EXCEPT !.universal = [valid |-> valid]]
         claim == IF AsksForUniversal(Profile(r)) THEN Claim(Profile(r), proved)
                  ELSE work[r].claim
     IN  /\ Makes(r, [proved EXCEPT !.claim = claim])
         /\ Goes(r, IF Rejects(r, claim) THEN "failed" ELSE "finish")
  /\ UNCHANGED <<stored, keys, began>>

(* Mutant: the bridge tolerates every exception.                            *)
Tolerated(r) == "finish"

(* A prover that raises fails only a run bound to the universal circuit.     *)
Unproved(r) == IF Profile(r).universal THEN "failed" ELSE "finish"

UniversalRaises(r) ==
  /\ At(r, "universal")
  /\ IF Satisfies(Witness(Profile(r), work[r])) THEN MayFail
     ELSE UNCHANGED bounds
  /\ Goes(r, Unproved(r))
  /\ UNCHANGED <<work, stored, keys, began>>

Finishes(r) ==
  /\ At(r, "finish")
  /\ Writes(r, work[r])
  /\ Goes(r, "succeeded")
  /\ UNCHANGED <<work, keys, bounds, began>>

-----------------------------------------------------------------------------
(* Encryption.  The key is read from its file, and made and written if there *)
(* is none; a file that is cut is never replaced.                            *)
LoadsKey(r) ==
  /\ At(r, "encrypt")
  /\ keypair \in Runs
  /\ held' = [held EXCEPT ![r] = keypair]
  /\ Goes(r, "hide")
  /\ UNCHANGED <<work, stored, spec, vk, keypair, met, bounds, began>>

MakesKey(r) ==
  /\ At(r, "encrypt")
  /\ keypair = Absent
  /\ held' = [held EXCEPT ![r] = r]
  /\ met' = (met \/ \E s \in Runs \ {r} : pc[s] \in {"makeFile", "writeKey"})
  /\ Goes(r, "makeFile")
  /\ UNCHANGED <<work, stored, spec, vk, keypair, bounds, began>>

RefusesKey(r) ==
  /\ At(r, "encrypt")
  /\ keypair = Torn
  /\ Goes(r, "failed")
  /\ UNCHANGED <<work, stored, keys, bounds, began>>

MakesFile(r) ==
  /\ At(r, "makeFile")
  /\ keypair' = Torn
  /\ Goes(r, "writeKey")
  /\ UNCHANGED <<work, stored, spec, vk, held, met, bounds, began>>

WritesKey(r) ==
  /\ At(r, "writeKey")
  /\ keypair' = held[r]
  /\ Goes(r, "hide")
  /\ UNCHANGED <<work, stored, spec, vk, held, met, bounds, began>>

Hides(r) ==
  /\ At(r, "hide")
  /\ Makes(r, Encrypted(work[r], held[r]))
  /\ Writes(r, Encrypted(work[r], held[r]))
  /\ Goes(r, "succeeded")
  /\ UNCHANGED <<keys, bounds, began>>

-----------------------------------------------------------------------------
ChangesSpecs ==
  /\ spec < MaxChanges
  /\ spec' = spec + 1
  /\ UNCHANGED <<case, pc, work, stored, vk, keypair, held, met, bounds, began>>

RotatesKeys ==
  /\ vk < MaxRotations
  /\ vk' = vk + 1
  /\ UNCHANGED <<case, pc, work, stored, spec, keypair, held, met, bounds, began>>

Ended == {"idle", "failed", "succeeded", "dead"}

Dies(r) ==
  /\ pc[r] \notin Ended
  /\ deaths < MaxDeaths
  /\ deaths' = deaths + 1
  /\ Goes(r, "dead")
  /\ UNCHANGED <<case, work, stored, keys, failures, began>>

AgentStep(r) == \/ Redacts(r) \/ RedactRaises(r)
                \/ Orchestrates(r) \/ Coordinates(r) \/ Persists(r)

ProofStep(r) == \/ \E c \in Governance : Proves(r, c) \/ ProverFails(r, c)
                \/ \E failing \in {{}} \cup {{i} : i \in 1..MaxInclusions + 4} :
                     ProvesEntities(r, failing)
                \/ EntitiesRaise(r) \/ PersistsProofs(r)

ProfileStep(r) == \/ Judges(r) \/ UniversalRaises(r) \/ Finishes(r)
                  \/ \E valid \in BOOLEAN : ProvesUniversal(r, valid)

KeyStep(r) == \/ LoadsKey(r) \/ MakesKey(r) \/ RefusesKey(r)
              \/ MakesFile(r) \/ WritesKey(r) \/ Hides(r)

Next == \/ \E r \in Runs : \/ AgentStep(r) \/ ProofStep(r) \/ ProfileStep(r)
                           \/ KeyStep(r) \/ Dies(r)
        \/ ChangesSpecs
        \/ RotatesKeys

Spec == Init /\ [][Next]_vars

-----------------------------------------------------------------------------
(* Properties.                                                              *)

(* The values of a document that the rules promise to redact, names aside.   *)
Sought(kinds) == {v \in DOMAIN kinds : kinds[v] \notin {"refused", "word"}}

Found(doc) == UNION {{i} \X Sought(doc.parts[i].kinds) :
                       i \in {j \in DOMAIN doc.parts : Walked(doc.parts[j])}}

Kind(doc, f) == doc.parts[f[1]].kinds[f[2]]

(* What agent 1 hands on is exact, wherever a part has at most one number   *)
(* for each of the two supplements and its names stand apart: nothing the     *)
(* rules name is left, nothing else is lost, and every value is recorded.     *)
RedactionExact ==
  \A r \in Runs : pc[r] = "orchestrate" =>
    LET doc == case[r].doc IN
    (\A i \in DOMAIN doc.parts : /\ Single(doc.parts[i])
                                 /\ NamesApart(doc, doc.parts[i])) =>
      /\ \A i \in DOMAIN doc.parts : Exact(doc, work[r], i)
      /\ Cardinality(Found(doc)) =
           Cardinality({i \in DOMAIN work[r].entities :
                          work[r].entities[i].kind \notin {"bridge", "orphan", "name"}})

(* The same for several numbers, as managed/knowledge/knowledge1.md:57       *)
(* promises: every instance, independently.                                  *)
EveryInstance ==
  \A r \in Runs : pc[r] = "orchestrate" =>
    LET doc == case[r].doc IN
    (\A i \in DOMAIN doc.parts : NamesApart(doc, doc.parts[i])) =>
      \A i \in DOMAIN doc.parts : Exact(doc, work[r], i)

(* What was stored verifies later, however specifications and keys change    *)
(* meanwhile: an encrypted artifact opens, unless two runs made the key at    *)
(* once; hashes, decision and chain pass; attached proofs stand for the       *)
(* inputs derived from the artifact; and proofs that were all made with one   *)
(* key are accepted as long as it is in force.                               *)
FreshVerifies ==
  \A r \in Runs : stored[r] # None =>
    /\ met \/ CanOpen(stored[r], keypair)
    /\ VerifyPython(Opened(stored[r]))
    /\ InputsMatch(Opened(stored[r]))
    /\ AllValid(stored[r]) /\ vk = began[r] => VerifyRealZk(stored[r], vk)

(* What a predicate of a profile says of the document itself; words in       *)
(* capitals are set aside, for one beside a mark may count as a name.         *)
NoWords(doc) == \A i \in DOMAIN doc.parts : "word" \notin Range(doc.parts[i].kinds)

Earned(p, r) ==
  LET doc == case[r].doc
      counted == {f \in Found(doc) : Category(Kind(doc, f)) # {}}
  IN  CASE p.id \in {"REDACTION_NONEMPTY", "GOVERNANCE_APPROVED"} -> counted # {}
        [] p.id = "ENTITY_COUNT_GTE" -> Cardinality(Found(doc)) >= p.n
        [] p.id = "CATEGORY_INCLUDES" ->
             \A c \in p.categories : \E f \in Found(doc) :
               c \in Category(Kind(doc, f)) \cup {Kind(doc, f)}
        [] p.id = "ZK_ENTITY_PRESENT" ->
             /\ Found(doc) # {}
             /\ Provable(stored[r].artifact)
             /\ stored[r].entity # <<>>
        [] p.id = "UNIVERSAL_PROOF_VALID" ->
             Profile(r).universal /\ Mask(Profile(r)) # <<>>
               => stored[r].universal # None /\ stored[r].universal.valid
        [] p.id = "HANDOFF_RECORDED" -> FALSE
        [] OTHER -> TRUE

(* A composition that succeeded under a strict profile has earned each of    *)
(* its predicates, whatever provers did in between.                          *)
ClaimEarned ==
  \A r \in Runs :
    /\ pc[r] = "succeeded"
    /\ Composition(r)
    /\ Profile(r) # None
    => /\ stored[r].claim # None
       /\ Profile(r).failClosed /\ NoWords(case[r].doc) =>
            \A i \in DOMAIN Profile(r).predicates :
              Earned(Profile(r).predicates[i], r)

(* What the bridges hand to the circuits satisfies them: each inclusion      *)
(* witness and each slot of a batch leads from its leaf to the root the       *)
(* other circuits state, and a claim that holds can be proved, unless it      *)
(* counts up to zero.                                                        *)
WitnessesSatisfy ==
  \A r \in Runs :
    /\ pc[r] = "entity" /\ Provable(work[r].artifact) =>
         LET leaves == Leaves(work[r].artifact)
             root == EntityCircuits(work[r].artifact)[1].inputs.root
             leads(w, i) == Climb(w) = root /\ w.leaf = leaves[i]
         IN  /\ \A i \in DOMAIN Inclusions(leaves) :
                   leads(Inclusions(leaves)[i], i)
             /\ \A i \in 1..BatchSize :
                   Len(leaves) <= BatchSize =>
                     leads(BatchWitness(leaves)[i], IF i <= Len(leaves) THEN i ELSE 1)
    /\ pc[r] = "universal" =>
         \/ \E i \in DOMAIN Profile(r).predicates : Profile(r).predicates[i].n = 0
         \/ Satisfies(Witness(Profile(r), work[r]))
=============================================================================
