----------------------------- MODULE MerkleTree -----------------------------
(***************************************************************************)
(* The tree over the commitments of a document's entities and the witnesses *)
(* cut from it for the entity circuits (src/agents/zk/merkle_tree.py).  A    *)
(* hash is the term it was computed from, so two hashes are equal only if    *)
(* they were computed from the same leaves in the same order.                *)
(***************************************************************************)
EXTENDS Integers, Sequences, SequencesExt

CONSTANTS MerkleDepth,   \* 8 in the code
          BatchSize,     \* 4 in the code
          MaxInclusions  \* 8 in the code

ASSUME MerkleAssumption == /\ MerkleDepth \in Nat \ {0}
                           /\ BatchSize \in Nat \ {0}
                           /\ MaxInclusions \in Nat \ {0}

HashTwo(l, r) == [left |-> l, right |-> r]
DomainLeaf(c) == [leaf |-> c]
Padding == [padding |-> TRUE]

Paired(level) ==
  [i \in 1..(Len(level) + 1) \div 2 |->
     HashTwo(level[2 * i - 1],
             IF 2 * i <= Len(level) THEN level[2 * i] ELSE Padding)]

(* Level k of the tree, level 0 being the hashed leaves; each level is half  *)
(* the one before, rounded up, and the tree ends at the first of one hash.    *)
Levels(leaves) ==
  LET level[k \in 0..Len(leaves)] ==
        IF k = 0 THEN [i \in DOMAIN leaves |-> DomainLeaf(leaves[i])]
        ELSE Paired(level[k - 1])
  IN  level

Height(leaves) == CHOOSE k \in 0..Len(leaves) :
                    /\ Len(Levels(leaves)[k]) <= 1
                    /\ \A j \in 0..k - 1 : Len(Levels(leaves)[j]) > 1

(* The root is padded up to the depth of the circuits; a taller tree is not *)
(* cut, and its paths do not fit (IndexError).                              *)
Root(leaves) ==
  FoldLeft(LAMBDA h, k : HashTwo(h, Padding), Levels(leaves)[Height(leaves)][1],
           [k \in 1..MerkleDepth - Height(leaves) |-> k])

Fits(leaves) == Height(leaves) <= MerkleDepth

(* Mutant: a hash that has no sibling is paired with itself.                *)
SiblingOrSelf(level, i) ==
  LET s == IF i % 2 = 0 THEN i + 1 ELSE i - 1
  IN  IF s < Len(level) THEN level[s + 1] ELSE level[i + 1]

(* The element and the side at level k on the path from leaf i (from 0).    *)
Sibling(level, i) ==
  LET s == IF i % 2 = 0 THEN i + 1 ELSE i - 1
  IN  IF s < Len(level) THEN level[s + 1] ELSE Padding

(* Where the path from leaf i stands at level k.                            *)
Index(i) ==
  LET index[k \in 0..MerkleDepth] == IF k = 0 THEN i ELSE index[k - 1] \div 2
  IN  index

PathStep(leaves, i, k) ==
  IF k < Height(leaves)
  THEN [element |-> Sibling(Levels(leaves)[k], Index(i)[k]), side |-> Index(i)[k] % 2]
  ELSE [element |-> Padding, side |-> 0]

Path(leaves, i) == [k \in 1..MerkleDepth |-> PathStep(leaves, i, k - 1)]

InclusionWitness(leaves, i) ==
  [root |-> Root(leaves), leaf |-> leaves[i + 1], path |-> Path(leaves, i)]

(* The slots behind the last entity repeat the first.                       *)
BatchWitness(leaves) ==
  [s \in 1..BatchSize |->
     InclusionWitness(leaves, IF s <= Len(leaves) THEN s - 1 ELSE 0)]

Inclusions(leaves) ==
  [i \in 1..(IF Len(leaves) < MaxInclusions THEN Len(leaves) ELSE MaxInclusions)
     |-> InclusionWitness(leaves, i - 1)]

(* How a circuit checks a witness.                                          *)
Climb(w) ==
  FoldLeft(LAMBDA h, s : IF s.side = 0 THEN HashTwo(h, s.element)
                         ELSE HashTwo(s.element, h),
           DomainLeaf(w.leaf), w.path)
=============================================================================
