-------------------------------- MODULE Lists -------------------------------
(***************************************************************************)
(* The one construct of Python's lists that the sequences of TLA+ lack in a *)
(* form that can be reasoned about: the list comprehension with a           *)
(* condition, such as the one in revoke_key of src/agents/auth.py.          *)
(***************************************************************************)
EXTENDS Integers, Sequences, FiniteSets

(* The place of i among the members of T.                                   *)
Rank(T, i) == Cardinality({j \in T : j <= i})

(* The elements of s at the places in T, in their order.                    *)
Sublist(s, T) ==
  [n \in 1 .. Cardinality(T) |-> s[CHOOSE i \in T : Rank(T, i) = n]]
=============================================================================
