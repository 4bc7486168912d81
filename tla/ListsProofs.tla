----------------------------- MODULE ListsProofs ----------------------------
(***************************************************************************)
(* What a list comprehension with a condition returns, for every list and   *)
(* every condition: the elements that meet it, each once per place, in the  *)
(* order of their places.                                                   *)
(***************************************************************************)
EXTENDS Lists, FiniteSetTheorems, WellFoundedInduction, TLAPS

(* The places that meet the condition are finitely many, and so are those   *)
(* up to one of them.                                                       *)
LEMMA PlacesAreFinite ==
  ASSUME NEW m \in Nat, NEW T \in SUBSET (1 .. m)
  PROVE  /\ IsFiniteSet(T)
         /\ Cardinality(T) \in Nat
         /\ \A i : IsFiniteSet({j \in T : j <= i})
         /\ \A i : Rank(T, i) \in 0 .. Cardinality(T)
  <1>1. IsFiniteSet(1 .. m)
    BY FS_Interval
  <1>2. IsFiniteSet(T)
    BY <1>1, FS_Subset
  <1>3. Cardinality(T) \in Nat
    BY <1>2, FS_CardinalityType
  <1>4. ASSUME NEW i
        PROVE  /\ IsFiniteSet({j \in T : j <= i})
               /\ Rank(T, i) \in 0 .. Cardinality(T)
    <2> DEFINE U == {j \in T : j <= i}
    <2>1. U \in SUBSET T
      OBVIOUS
    <2> HIDE DEF U
    <2>2. IsFiniteSet(U) /\ Cardinality(U) <= Cardinality(T)
      BY <1>2, <2>1, FS_Subset
    <2>3. Cardinality(U) \in Nat
      BY <2>2, FS_CardinalityType
    <2>4. Rank(T, i) = Cardinality(U)
      BY DEF Rank, U
    <2>5. Rank(T, i) \in 0 .. Cardinality(T)
      BY <1>3, <2>2, <2>3, <2>4
    <2> QED
      BY <2>2, <2>5 DEF U
  <1> QED
    BY <1>2, <1>3, <1>4

(* A later place that meets the condition has a higher rank.                *)
LEMMA RankGrows ==
  ASSUME NEW m \in Nat, NEW T \in SUBSET (1 .. m), NEW i \in T, NEW j \in T, i < j
  PROVE  Rank(T, i) < Rank(T, j)
  <1> DEFINE U == {k \in T : k <= i}
             W == {k \in T : k <= j}
  <1>1. IsFiniteSet(U) /\ IsFiniteSet(W)
    BY PlacesAreFinite
  <1>2. U \in SUBSET W /\ U # W
    <2>1. \A k \in T : k \in 1 .. m
      OBVIOUS
    <2>2. j \in W /\ j \notin U
      BY <2>1
    <2>3. \A k \in T : k <= i => k <= j
      BY <2>1
    <2>4. U \in SUBSET W
      BY <2>3
    <2> QED
      BY <2>2, <2>4
  <1>3. Rank(T, i) = Cardinality(U) /\ Rank(T, j) = Cardinality(W)
    BY DEF Rank
  <1> HIDE DEF U, W
  <1>4. Cardinality(U) \in Nat /\ Cardinality(W) \in Nat
    BY <1>1, FS_CardinalityType
  <1>5. Cardinality(U) <= Cardinality(W) /\ Cardinality(U) # Cardinality(W)
    BY <1>1, <1>2, FS_Subset
  <1> QED
    BY <1>3, <1>4, <1>5

(* Each rank from 1 on is taken, by one place.                              *)
LEMMA RanksAreTaken ==
  ASSUME NEW m \in Nat, NEW T \in SUBSET (1 .. m)
  PROVE  \A n \in 1 .. Cardinality(T) : \E i \in T : Rank(T, i) = n
  <1> DEFINE c == Cardinality(T)
             f == [i \in T |-> Rank(T, i)]
  <1>1. IsFiniteSet(T) /\ c \in Nat
    BY PlacesAreFinite
  <1>2. IsFiniteSet(1 .. c) /\ Cardinality(1 .. c) = c
    BY <1>1, FS_Interval
  <1>3. ASSUME NEW i \in T  PROVE  Rank(T, i) \in 1 .. c
    <2>1. Rank(T, i) \in 0 .. c
      BY PlacesAreFinite
    <2> DEFINE U == {j \in T : j <= i}
    <2>2. i \in U
      <3>1. i \in 1 .. m
        OBVIOUS
      <3> QED
        BY <3>1
    <2>5. IsFiniteSet(U)
      BY PlacesAreFinite
    <2>3. Rank(T, i) = Cardinality(U)
      BY DEF Rank
    <2> HIDE DEF U
    <2>4. Rank(T, i) # 0
      BY <2>2, <2>3, <2>5, FS_EmptySet
    <2> QED
      BY <1>1, <2>1, <2>4
  <1> HIDE DEF c
  <1>4. f \in [T -> 1 .. c]
    BY <1>3
  <1>5. ASSUME NEW i \in T, NEW j \in T, i # j  PROVE  f[i] # f[j]
    <2>1. i < j \/ j < i
      <3>1. i \in 1 .. m /\ j \in 1 .. m
        OBVIOUS
      <3> QED
        BY <1>5, <3>1
    <2>2. Rank(T, i) \in 1 .. c /\ Rank(T, j) \in 1 .. c
      BY <1>3
    <2>3. Rank(T, i) < Rank(T, j) \/ Rank(T, j) < Rank(T, i)
      BY <2>1, RankGrows
    <2> QED
      BY <1>1, <2>2, <2>3
  <1> HIDE DEF f
  <1>6. f \in Injection(T, 1 .. c)
    BY <1>4, <1>5 DEF Injection, IsInjective
  <1>7. f \in Surjection(T, 1 .. c)
    BY <1>1, <1>2, <1>6, FS_Injection DEF c
  <1>8. \A n \in 1 .. c : \E i \in T : f[i] = n
    BY <1>7 DEF Surjection
  <1> QED
    BY <1>8 DEF f, c

-----------------------------------------------------------------------------
(* p lists the places of T in their order, and r is what s has there.       *)
Picks(p, r, s, T) ==
  LET c == Cardinality(T) IN
  /\ p \in [1 .. c -> T]
  /\ \A n \in 1 .. c : r[n] = s[p[n]]
  /\ \A k, n \in 1 .. c : k < n => p[k] < p[n]
  /\ \A i \in T : \E n \in 1 .. c : p[n] = i

(* A comprehension returns the elements at the places that meet the         *)
(* condition, in the order of these places.                                 *)
THEOREM SublistPlaces ==
  ASSUME NEW s, NEW m \in Nat, NEW T \in SUBSET (1 .. m)
  PROVE  \E p : Picks(p, Sublist(s, T), s, T)
  <1> DEFINE c == Cardinality(T)
             at(n) == CHOOSE i \in T : Rank(T, i) = n
             p == [n \in 1 .. c |-> at(n)]
  <1>1. \A n \in 1 .. c : at(n) \in T /\ Rank(T, at(n)) = n
    <2>1. \A n \in 1 .. c : \E i \in T : Rank(T, i) = n
      BY RanksAreTaken
    <2> QED
      BY <2>1
  <1>2. \A n \in 1 .. c : Sublist(s, T)[n] = s[at(n)]
    BY DEF Sublist
  <1>3. c \in Nat /\ IsFiniteSet(T)
    BY PlacesAreFinite
  <1> HIDE DEF at, c
  <1>4. p \in [1 .. c -> T]
    BY <1>1
  <1>5. ASSUME NEW k \in 1 .. c, NEW n \in 1 .. c, k < n  PROVE  p[k] < p[n]
    <2>1. at(k) \in T /\ at(n) \in T /\ Rank(T, at(k)) = k /\ Rank(T, at(n)) = n
      BY <1>1
    <2>2. at(k) \in 1 .. m /\ at(n) \in 1 .. m
      BY <2>1
    <2>3. ~(at(n) < at(k))
      <3>1. at(n) < at(k) => n < k
        BY <2>1, RankGrows
      <3> QED
        BY <1>3, <1>5, <3>1
    <2>4. at(n) # at(k)
      BY <1>3, <1>5, <2>1
    <2> QED
      BY <2>2, <2>3, <2>4
  <1>6. ASSUME NEW i \in T  PROVE  \E n \in 1 .. c : p[n] = i
    <2> DEFINE n == Rank(T, i)
               U == {j \in T : j <= i}
    <2>1. n \in 0 .. c /\ IsFiniteSet(U) /\ n = Cardinality(U)
      BY PlacesAreFinite DEF c, Rank
    <2>2. i \in U
      OBVIOUS
    <2> HIDE DEF U
    <2>3. n # 0
      BY <2>1, <2>2, FS_EmptySet
    <2>4. n \in 1 .. c
      BY <1>3, <2>1, <2>3
    <2>5. at(n) \in T /\ Rank(T, at(n)) = n
      BY <1>1, <2>4
    <2>6. ~(at(n) < i) /\ ~(i < at(n))
      <3>1. at(n) < i => n < n
        BY <2>5, RankGrows
      <3>2. i < at(n) => n < n
        BY <2>5, RankGrows
      <3> QED
        BY <1>3, <2>4, <3>1, <3>2
    <2>7. at(n) = i
      <3>1. at(n) \in 1 .. m /\ i \in 1 .. m
        BY <2>5
      <3> QED
        BY <2>6, <3>1
    <2> QED
      BY <2>4, <2>7
  <1>7. \A n \in 1 .. c : Sublist(s, T)[n] = s[p[n]]
    BY <1>2
  <1>8. \A k, n \in 1 .. c : k < n => p[k] < p[n]
    BY <1>5
  <1>9. \A i \in T : \E n \in 1 .. c : p[n] = i
    BY <1>6
  <1> HIDE DEF p
  <1> QED
    BY <1>4, <1>7, <1>8, <1>9 DEF c, Picks

(* It is a list of such elements, as long as there are places, and it holds *)
(* the elements of these places and no other.                               *)
THEOREM SublistIsList ==
  ASSUME NEW S, NEW s \in Seq(S), NEW T \in SUBSET (DOMAIN s)
  PROVE  /\ Cardinality(T) \in Nat
         /\ Sublist(s, T) \in Seq(S)
         /\ Len(Sublist(s, T)) = Cardinality(T)
         /\ {Sublist(s, T)[n] : n \in DOMAIN Sublist(s, T)} = {s[i] : i \in T}
  <1> DEFINE c == Cardinality(T)
             r == Sublist(s, T)
  <1>1. T \in SUBSET (1 .. Len(s)) /\ Len(s) \in Nat
    OBVIOUS
  <1>2. PICK p \in [1 .. c -> T] :
          /\ \A n \in 1 .. c : r[n] = s[p[n]]
          /\ \A i \in T : \E n \in 1 .. c : p[n] = i
    <2> DEFINE m == Len(s)
    <2>1. m \in Nat /\ T \in SUBSET (1 .. m)
      BY <1>1
    <2> HIDE DEF m
    <2>2. PICK p : Picks(p, Sublist(s, T), s, T)
      BY <2>1, SublistPlaces
    <2> QED
      BY <2>2 DEF Picks
  <1>3. c \in Nat
    BY <1>1, PlacesAreFinite
  <1>4. DOMAIN r = 1 .. c /\ r = [n \in 1 .. c |-> r[n]]
    BY DEF Sublist
  <1> HIDE DEF c, r
  <1>5. \A n \in 1 .. c : r[n] \in S
    BY <1>2
  <1>6. r \in Seq(S) /\ Len(r) = c
    <2>1. r \in [1 .. c -> S]
      BY <1>4, <1>5
    <2> QED
      BY <1>3, <2>1
  <1>7. {r[n] : n \in DOMAIN r} = {s[i] : i \in T}
    <2>1. \A n \in DOMAIN r : \E i \in T : r[n] = s[i]
      BY <1>2, <1>4
    <2>2. \A i \in T : \E n \in DOMAIN r : r[n] = s[i]
      BY <1>2, <1>4
    <2> QED
      BY <2>1, <2>2
  <1> QED
    BY <1>3, <1>6, <1>7 DEF c, r

-----------------------------------------------------------------------------
(* Numbers have a least one, and places of a list a last one.              *)
LEMMA LeastOfNumbers ==
  ASSUME NEW T \in SUBSET Nat, T # {}
  PROVE  \E x \in T : \A y \in T : x <= y
  <1> DEFINE less == OpToRel(<, Nat)
  <1>1. IsWellFoundedOn(less, Nat)
    BY NatLessThanWellFounded
  <1>2. \A x, y \in T : y < x => <<y, x>> \in less
    BY DEF OpToRel
  <1> HIDE DEF less
  <1>3. PICK x \in T : \A y \in T : ~(<<y, x>> \in less)
    BY <1>1, WFMin
  <1>4. \A y \in T : ~(y < x)
    BY <1>2, <1>3
  <1> QED
    BY <1>4

LEMMA LastOfPlaces ==
  ASSUME NEW n \in Nat, NEW s \in SUBSET (1 .. n), s # {}
  PROVE  \E x \in s : \A y \in s : x >= y
  <1> DEFINE T == {n - x : x \in s}
  <1>1. T \in SUBSET Nat
    <2>1. \A x \in s : n - x \in Nat
      <3>1. \A x \in s : x \in 1 .. n
        OBVIOUS
      <3> QED
        BY <3>1
    <2> QED
      BY <2>1
  <1>2. T # {}
    OBVIOUS
  <1>3. PICK m \in T : \A y \in T : m <= y
    BY <1>1, <1>2, LeastOfNumbers
  <1>4. PICK x \in s : m = n - x
    BY <1>3
  <1>5. \A y \in s : n - x <= n - y
    BY <1>3, <1>4
  <1> QED
    BY <1>5

(* A fold that starts in a set and whose steps stay in it ends in it.       *)
LEMMA FoldStays ==
  ASSUME NEW D, IsFiniteSet(D), NEW last, \A s \in SUBSET D : s # {} => last[s] \in s,
         NEW X, NEW g, g[{}] \in X,
         \A s \in SUBSET D : s # {} /\ g[s \ {last[s]}] \in X => g[s] \in X
  PROVE  g[D] \in X
  <1> DEFINE B == {s \in SUBSET D : g[s] \notin X}
             T == {Cardinality(s) : s \in B}
  <1>1. \A s \in SUBSET D : IsFiniteSet(s) /\ Cardinality(s) \in Nat
    BY FS_Subset, FS_CardinalityType
  <1>2. SUFFICES ASSUME B # {}
                 PROVE  FALSE
    OBVIOUS
  <1>3. T \in SUBSET Nat /\ T # {}
    BY <1>1, <1>2
  <1>4. PICK m \in T : \A y \in T : m <= y
    BY <1>3, LeastOfNumbers
  <1>5. PICK s \in B : m = Cardinality(s)
    BY <1>4
  <1>6. s # {} /\ last[s] \in s
    BY <1>5
  <1> DEFINE t == s \ {last[s]}
  <1>7. t \in SUBSET D /\ Cardinality(t) = Cardinality(s) - 1
    BY <1>1, <1>6, FS_RemoveElement
  <1>8. t \notin B
    <2>1. Cardinality(t) < m /\ Cardinality(t) \in Nat /\ m \in Nat
      BY <1>1, <1>5, <1>7
    <2> HIDE DEF t
    <2> QED
      BY <1>4, <2>1
  <1> QED
    BY <1>5, <1>6, <1>7, <1>8

(* And there is such a fold: the recursion has a solution.                  *)
Folded(g, D, last, base, h) ==
  g = [s \in SUBSET D |-> IF s = {} THEN base
                          ELSE h[g[s \ {last[s]}]][last[s]]]

LEMMA FoldExists ==
  ASSUME NEW D, IsFiniteSet(D), NEW last, \A s \in SUBSET D : s # {} => last[s] \in s,
         NEW X, NEW base \in X, NEW h, \A x \in X, i \in D : h[x][i] \in X
  PROVE  \E g \in [SUBSET D -> X] : Folded(g, D, last, base, h)
  <1> DEFINE Upto(n) == {s \in SUBSET D : Cardinality(s) <= n}
             Step(g, s) == IF s = {} THEN base ELSE h[g[s \ {last[s]}]][last[s]]
             Solves(g, n) == \A s \in Upto(n) : g[s] = Step(g, s)
             T == {n \in Nat : ~ \E g \in [Upto(n) -> X] : Solves(g, n)}
  <1>1. \A s \in SUBSET D : IsFiniteSet(s) /\ Cardinality(s) \in Nat
    BY FS_Subset, FS_CardinalityType
  <1>2. T = {}
    <2>1. SUFFICES ASSUME T # {}
                   PROVE  FALSE
      OBVIOUS
    <2>2. T \in SUBSET Nat
      OBVIOUS
    <2>3. PICK n \in T : \A m \in T : n <= m
      BY <2>1, <2>2, LeastOfNumbers
    <2>4. n \in Nat /\ ~ \E g \in [Upto(n) -> X] : Solves(g, n)
      OBVIOUS
    <2>5. CASE n = 0
      <3> DEFINE g == [s \in Upto(0) |-> base]
      <3>1. \A s \in Upto(0) : s = {}
        BY <1>1, FS_EmptySet
      <3>2. g \in [Upto(0) -> X] /\ Solves(g, 0)
        BY <3>1
      <3> QED
        BY <2>4, <2>5, <3>2
    <2>6. CASE n # 0
      <3>1. n - 1 \in Nat /\ n - 1 \notin T
        <4>1. n \in Nat
          BY <2>4
        <4>2. \A m \in T : n <= m
          BY <2>3
        <4> HIDE DEF T
        <4> QED
          BY <2>6, <4>1, <4>2
      <3>2. PICK g \in [Upto(n - 1) -> X] : Solves(g, n - 1)
        BY <3>1
      <3> DEFINE f == [s \in Upto(n) |-> Step(g, s)]
      <3>3. ASSUME NEW s \in Upto(n), s # {}
            PROVE  s \ {last[s]} \in Upto(n - 1) /\ s \ {last[s]} \in Upto(n) /\ last[s] \in D
        <4>1. Cardinality(s \ {last[s]}) = Cardinality(s) - 1 /\ last[s] \in D
          BY <1>1, <3>3, FS_RemoveElement
        <4>2. s \ {last[s]} \in SUBSET D /\ Cardinality(s) <= n /\ Cardinality(s) \in Nat
          BY <1>1
        <4> HIDE DEF Step
        <4> QED
          BY <2>4, <4>1, <4>2
      <3>4. \A s \in Upto(n - 1) : s \in Upto(n) /\ f[s] = g[s]
        <4>1. \A s \in Upto(n - 1) : s \in Upto(n)
          BY <1>1, <2>4
        <4> QED
          BY <3>2, <4>1
      <3>5. f \in [Upto(n) -> X]
        <4>1. ASSUME NEW s \in Upto(n)
              PROVE  Step(g, s) \in X
          BY <3>2, <3>3
        <4> QED
          BY <4>1
      <3>6. Solves(f, n)
        <4>1. ASSUME NEW s \in Upto(n)
              PROVE  Step(g, s) = Step(f, s)
          BY <3>3, <3>4
        <4> QED
          BY <4>1
      <3> QED
        BY <2>4, <3>5, <3>6
    <2> QED
      BY <2>5, <2>6
  <1>3. Cardinality(D) \in Nat /\ Upto(Cardinality(D)) = SUBSET D
    <2>1. \A s \in SUBSET D : Cardinality(s) <= Cardinality(D)
      BY FS_Subset
    <2> QED
      BY <1>1, <2>1
  <1>4. PICK g \in [SUBSET D -> X] : \A s \in SUBSET D : g[s] = Step(g, s)
    <2>1. \E g \in [Upto(Cardinality(D)) -> X] : Solves(g, Cardinality(D))
      BY <1>2, <1>3
    <2> QED
      BY <1>3, <2>1
  <1>5. g = [s \in SUBSET D |-> Step(g, s)]
    BY <1>4
  <1> QED
    BY <1>5 DEF Folded
(* The same of a recursion along the places of a list.                      *)
ChainOf(f, n, s, h) ==
  \A i \in 1 .. n : f[i] = IF i = 1 THEN s[i] ELSE h[f[i - 1]][s[i]]

LEMMA ChainExists ==
  ASSUME NEW n \in Nat, NEW X, NEW s, \A i \in 1 .. n : s[i] \in X,
         NEW h, \A x, y \in X : h[x][y] \in X
  PROVE  \E f \in [1 .. n -> X] : ChainOf(f, n, s, h)
  <1> DEFINE Step(f, i) == IF i = 1 THEN s[i] ELSE h[f[i - 1]][s[i]]
             Solves(f, m) == \A i \in 1 .. m : f[i] = Step(f, i)
             T == {m \in 0 .. n : ~ \E f \in [1 .. m -> X] : Solves(f, m)}
  <1>1. T = {}
    <2>1. SUFFICES ASSUME T # {}
                   PROVE  FALSE
      OBVIOUS
    <2>2. T \in SUBSET Nat
      OBVIOUS
    <2>3. PICK m \in T : \A k \in T : m <= k
      BY <2>1, <2>2, LeastOfNumbers
    <2>4. m \in 0 .. n /\ ~ \E f \in [1 .. m -> X] : Solves(f, m)
      OBVIOUS
    <2>5. CASE m = 0
      <3> DEFINE f == [i \in 1 .. 0 |-> s[i]]
      <3>1. f \in [1 .. 0 -> X] /\ Solves(f, 0)
        OBVIOUS
      <3> QED
        BY <2>4, <2>5, <3>1
    <2>6. CASE m # 0
      <3>1. m - 1 \in 0 .. n /\ m - 1 \notin T
        <4>1. m \in 0 .. n
          BY <2>4
        <4>2. \A k \in T : m <= k
          BY <2>3
        <4> HIDE DEF T
        <4> QED
          BY <2>6, <4>1, <4>2
      <3>2. PICK g \in [1 .. (m - 1) -> X] : Solves(g, m - 1)
        BY <3>1
      <3> DEFINE f == [i \in 1 .. m |-> Step(g, i)]
      <3>3. ASSUME NEW i \in 1 .. m
            PROVE  Step(g, i) \in X /\ (i # m => f[i] = g[i]) /\ Step(g, i) = Step(f, i)
        <4>1. i \in 1 .. n /\ (i # m => i \in 1 .. (m - 1))
          BY <2>4
        <4>2. i # 1 => i - 1 \in 1 .. (m - 1) /\ i - 1 \in 1 .. m
          BY <2>4
        <4>3. \A j \in 1 .. (m - 1) : j \in 1 .. m /\ f[j] = g[j] /\ g[j] \in X
          BY <2>4, <3>2
        <4> HIDE DEF f
        <4> QED
          BY <4>1, <4>2, <4>3
      <3>4. f \in [1 .. m -> X] /\ Solves(f, m)
        <4>1. \A i \in 1 .. m : f[i] = Step(g, i)
          OBVIOUS
        <4>2. f \in [1 .. m -> X]
          BY <3>3
        <4> HIDE DEF f, Step
        <4> QED
          BY <3>3, <4>1, <4>2
      <3> QED
        BY <2>4, <3>4
    <2> QED
      BY <2>5, <2>6
  <1>2. n \in 0 .. n
    OBVIOUS
  <1> QED
    BY <1>1, <1>2 DEF ChainOf

LEMMA ChainStays ==
  ASSUME NEW n \in Nat, NEW X, NEW f, n # 0, f[1] \in X,
         \A i \in 2 .. n : f[i - 1] \in X => f[i] \in X
  PROVE  f[n] \in X
  <1> DEFINE B == {i \in 1 .. n : f[i] \notin X}
  <1>1. SUFFICES ASSUME B # {}
                 PROVE  FALSE
    OBVIOUS
  <1>2. B \in SUBSET Nat
    OBVIOUS
  <1>3. PICK i \in B : \A j \in B : i <= j
    BY <1>1, <1>2, LeastOfNumbers
  <1>4. i \in 2 .. n /\ i - 1 \in 1 .. n
    OBVIOUS
  <1>5. i - 1 \notin B
    <2> HIDE DEF B
    <2> QED
      BY <1>3, <1>4
  <1> QED
    BY <1>4, <1>5
=============================================================================
