----------------------------- MODULE MCOperator -----------------------------
EXTENDS Operator, TLC

CONSTANTS s1, s2, c1, a1, p0, p1, q1, k0, k1, d1

TwoServerThreads == {s1, s2}
OneCommand == {c1}
TwoSpecs == <<"rule", "workflow">>
TwoFormats == <<"yaml", "json">>
Deltas == p0 :> {} @@ p1 :> {a1}
OneAgent == {a1}
OnePack == {p0}
TwoPacks == {p0, p1}
OneProof == {q1}
TwoKeys == {k0, k1}
OneDocument == {d1}

Bounds == [studio |-> 2, keys |-> 4, pipelines |-> 3]

NewAndUsed == {{}, {a1, p1, q1}}

Symmetric == Permutations({s1, s2})
=============================================================================
