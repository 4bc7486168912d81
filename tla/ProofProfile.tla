---------------------------- MODULE ProofProfile ----------------------------
(***************************************************************************)
(* Proof profiles (src/agents/proof_studio.py): a profile is compiled from   *)
(* predicates, evaluated over an attested result, and its claim is proved    *)
(* with the universal circuit (src/agents/zk/universal_bridge.py).           *)
(***************************************************************************)
EXTENDS Attestation, Lists

(* The predicates that the universal circuit knows.                         *)
Bits == {"REDACTION_NONEMPTY", "ENTITY_COUNT_GTE", "CATEGORY_INCLUDES",
         "RULE_BOUND", "PIPELINE_CHAIN", "ATTESTED_STATUS",
         "GOVERNANCE_APPROVED", "ZK_GOVERNANCE_PRESENT", "ZK_ENTITY_PRESENT"}

(* A predicate, checked against the catalog when its profile is compiled.   *)
Catalog == Bits \cup {"ARTIFACT_HASH_PRESENT", "HANDOFF_RECORDED",
                      "UNIVERSAL_PROOF_VALID"}

Predicates == [id : Catalog, n : Nat, categories : SUBSET STRING]

Pred(id) == [id |-> id, n |-> 1, categories |-> {}]
CountGte(n) == [Pred("ENTITY_COUNT_GTE") EXCEPT !.n = n]
Includes(c) == [Pred("CATEGORY_INCLUDES") EXCEPT !.categories = c]

RequiresZk == {"ZK_GOVERNANCE_PRESENT", "ZK_ENTITY_PRESENT",
               "UNIVERSAL_PROOF_VALID"}

(* A profile names at least one predicate; a binding to the universal        *)
(* circuit needs its keys; proofs are required where a predicate needs them.  *)
Compiled(preds, universal, failClosed) ==
  [predicates |-> preds, universal |-> universal, failClosed |-> failClosed,
   requireAttest |-> \E i \in DOMAIN preds : preds[i].id \in RequiresZk]

EntityCount(a) == IF a.artifact.entities # <<>> THEN Len(a.artifact.entities)
                  ELSE a.artifact.total

CategoriesPresent(a) ==
  a.artifact.categories
    \cup {a.artifact.entities[i].kind : i \in DOMAIN a.artifact.entities}

(* A failed prover's status counts as an attached proof, and a universal     *)
(* proof that is not there yet as a valid one.                               *)
Holds(p, a) ==
  CASE p.id = "REDACTION_NONEMPTY" -> a.artifact.total > 0
    [] p.id = "ENTITY_COUNT_GTE" -> EntityCount(a) >= p.n
    [] p.id = "CATEGORY_INCLUDES" -> p.categories \subseteq CategoriesPresent(a)
    [] p.id \in {"RULE_BOUND", "PIPELINE_CHAIN", "ATTESTED_STATUS",
                 "ARTIFACT_HASH_PRESENT"} -> TRUE
    [] p.id = "GOVERNANCE_APPROVED" ->
         a.decision \in {"APPROVED", "APPROVED_WITH_REVIEW_FLAG"}
    [] p.id = "ZK_GOVERNANCE_PRESENT" -> \A c \in Governance : a.zk[c] # None
    [] p.id = "ZK_ENTITY_PRESENT" -> a.entity # <<>>
    [] p.id = "HANDOFF_RECORDED" -> FALSE
    [] p.id = "UNIVERSAL_PROOF_VALID" ->
         a.universal # None => a.universal.valid

Claim(profile, a) ==
  LET preds == profile.predicates
      failed == Sublist(preds, {i \in DOMAIN preds : ~Holds(preds[i], a)})
  IN  [ok |-> failed = <<>>, failed |-> failed]

(* What is given to the universal circuit: the predicates it has a bit for.  *)
Mask(profile) ==
  LET preds == profile.predicates
  IN  Sublist(preds, {i \in DOMAIN preds : preds[i].id \in Bits})

Largest(S) == CHOOSE x \in S : \A y \in S : y <= x

(* A threshold of zero is taken for one; the count is that of the last       *)
(* predicate that mentions it.                                               *)
Witness(profile, a) ==
  LET mask == Mask(profile)
      least(p) == IF p.n = 0 THEN 1 ELSE p.n
      counted(n, p) == CASE p.id = "ENTITY_COUNT_GTE" -> EntityCount(a)
                         [] p.id = "REDACTION_NONEMPTY" ->
                              Largest({n, a.artifact.total})
                         [] OTHER -> n
      count == FoldLeft(counted, 0, mask)
      required == UNION {mask[i].categories : i \in DOMAIN mask}
  IN  [mask |-> {mask[i].id : i \in DOMAIN mask},
       flags |-> {mask[i].id : i \in {j \in DOMAIN mask : Holds(mask[j], a)}},
       count |-> IF count = 0 THEN EntityCount(a) ELSE count,
       least |-> Largest({0} \cup {least(mask[i]) : i \in
                            {j \in DOMAIN mask : mask[j].id = "ENTITY_COUNT_GTE"}}),
       required |-> required,
       present |-> required \cup CategoriesPresent(a)]

(* The constraints of universal_predicate.rs; the two hashes always differ,  *)
(* because the bridge changes one of two that are equal.                     *)
Satisfies(w) ==
  /\ w.mask \subseteq w.flags
  /\ "REDACTION_NONEMPTY" \in w.mask => w.count # 0
  /\ "ENTITY_COUNT_GTE" \in w.mask => w.least <= w.count
  /\ "CATEGORY_INCLUDES" \in w.mask => w.required \subseteq w.present
=============================================================================
