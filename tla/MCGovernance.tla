---------------------------- MODULE MCGovernance ----------------------------
(* Governance on small instances: the loops over the types with one         *)
(* operator, the races of two operators with one type.                      *)
EXTENDS Governance, TLC

CONSTANTS o1, o2, f1, a1, p1, New

AllContents == {Original, Pack, New}
OneType == {1}
TwoTypes == {1, 2}
OneOperator == {o1}
TwoOperators == {o1, o2}
OneProfile == {f1}
NoProfile == {}
NoAgent == {}
OneAgent == {a1}
OneProposal == {p1}

Requests == Permutations(Operators)
=============================================================================
