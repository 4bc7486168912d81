----------------------------- MODULE MCRecords ------------------------------
EXTENDS Records, TLC

CONSTANTS s1, s2, c1, a1, a2

TwoServerThreads == {s1, s2}
OneServerThread == {s1}
OneCommand == {c1}
OneArtifact == {a1}
TwoArtifacts == {a1, a2}

Symmetric == Permutations({s1, s2}) \cup Permutations({a1, a2})
=============================================================================
