--------------------------- MODULE EvidenceProofs ---------------------------
(***************************************************************************)
(* Proofs about Evidence: what a run has stored verifies later, what it     *)
(* asks the circuits to prove can be proved, and what it claims of a         *)
(* document is true of it; for every document, any number of runs, changes  *)
(* of the specifications, rotations of the circuits' keys, provers that     *)
(* fail and processes that die.                                             *)
(***************************************************************************)
EXTENDS Evidence, ListsProofs, SequenceTheorems

-----------------------------------------------------------------------------
(* What holds at 0 and goes from each number to the next holds up to n.     *)
LEMMA Upward ==
  ASSUME NEW n \in Nat, NEW S, 0 \in S, \A i \in 1 .. n : i - 1 \in S => i \in S
  PROVE  \A i \in 0 .. n : i \in S
  <1> DEFINE B == {i \in 0 .. n : i \notin S}
  <1>1. SUFFICES ASSUME B # {}
                 PROVE  FALSE
    OBVIOUS
  <1>2. B \in SUBSET Nat
    OBVIOUS
  <1>3. PICK i \in B : \A j \in B : i <= j
    BY <1>1, <1>2, LeastOfNumbers
  <1>4. i # 0 /\ i \in 1 .. n /\ i - 1 \in 0 .. n
    OBVIOUS
  <1>5. i - 1 \notin B
    <2> HIDE DEF B
    <2> QED
      BY <1>3, <1>4
  <1> QED
    BY <1>4, <1>5

(* A list of lists is made flat by joining one after the other.             *)
LEMMA FlattenSteps ==
  ASSUME NEW S, NEW seqs \in Seq(Seq(S))
  PROVE  \E a : /\ a \in [0 .. Len(seqs) -> Seq(S)]
                /\ a[0] = <<>> /\ a[Len(seqs)] = FlattenSeq(seqs)
                /\ \A i \in 1 .. Len(seqs) : a[i] = a[i - 1] \o seqs[i]
  <1> DEFINE n == Len(seqs)
             X == Seq(S)
             h == [x \in X |-> [y \in X |-> x \o y]]
             Body(f) == [i \in 1 .. n |-> IF i = 1 THEN seqs[i] ELSE f[i - 1] \o seqs[i]]
             flat == CHOOSE f : f = Body(f)
             a == [i \in 0 .. n |-> IF i = 0 THEN <<>> ELSE flat[i]]
  <1>1. FlattenSeq(seqs) = IF n = 0 THEN seqs ELSE flat[n]
    BY DEF FlattenSeq
  <1>2. n \in Nat /\ \A i \in 1 .. n : seqs[i] \in X
    BY LenProperties
  <1>3. \A x, y \in X : x \o y \in X
    BY ConcatProperties
  <1>4. n = 0 => seqs = <<>>
    BY EmptySeq
  <1>5. <<>> \in X /\ \A x \in X : <<>> \o x = x
    BY ConcatEmptySeq, EmptySeq
  <1> HIDE DEF n, X
  <1>6. \A x, y \in X : h[x][y] = x \o y
    OBVIOUS
  <1> HIDE DEF h
  <1>7. \A x, y \in X : h[x][y] \in X
    BY <1>3, <1>6
  <1>8. n \in Nat
    BY <1>2
  <1>9. \A i \in 1 .. n : seqs[i] \in X
    BY <1>2
  <1>10. PICK f \in [1 .. n -> X] :
           \A i \in 1 .. n : f[i] = IF i = 1 THEN seqs[i] ELSE h[f[i - 1]][seqs[i]]
    <2>1. \E f \in [1 .. n -> X] : ChainOf(f, n, seqs, h)
      BY <1>7, <1>8, <1>9, ChainExists
    <2> QED
      BY <2>1 DEF ChainOf
  <1>11. ASSUME NEW i \in 1 .. n
         PROVE  f[i] = IF i = 1 THEN seqs[i] ELSE f[i - 1] \o seqs[i]
    <2>1. i # 1 => f[i - 1] \in X /\ seqs[i] \in X
      BY <1>2, <1>10
    <2> QED
      BY <1>6, <1>10, <2>1
  <1>12. f = Body(f)
    BY <1>10, <1>11
  <1>13. flat = Body(flat)
    BY <1>12
  <1> HIDE DEF flat
  <1>14. \A i \in 1 .. n : flat[i] = IF i = 1 THEN seqs[i] ELSE flat[i - 1] \o seqs[i]
    BY <1>13
  <1>15. \A i \in 0 .. n : a[i] = IF i = 0 THEN <<>> ELSE flat[i]
    OBVIOUS
  <1>16. a[0] = <<>> /\ a[n] = FlattenSeq(seqs)
    <2>1. 0 \in 0 .. n /\ n \in 0 .. n
      BY <1>8
    <2> HIDE DEF a
    <2> QED
      BY <1>1, <1>4, <1>15, <2>1
  <1>17. ASSUME NEW i \in 1 .. n
         PROVE  a[i] = a[i - 1] \o seqs[i]
    <2>1. i \in 0 .. n /\ i - 1 \in 0 .. n /\ i # 0
      BY <1>8
    <2>2. CASE i = 1
      <3>1. a[i] = seqs[1] /\ a[i - 1] = <<>>
        BY <1>14, <1>15, <2>1, <2>2
      <3> QED
        BY <1>5, <1>9, <2>2, <3>1
    <2>3. CASE i # 1
      <3>1. i - 1 # 0
        BY <1>8, <2>3
      <3> HIDE DEF a
      <3> QED
        BY <1>14, <1>15, <2>1, <2>3, <3>1
    <2> QED
      BY <2>2, <2>3
  <1>18. DOMAIN a = 0 .. n /\ a = [i \in 0 .. n |-> a[i]]
    OBVIOUS
  <1> HIDE DEF a
  <1> DEFINE U == {i \in 0 .. n : a[i] \in X}
  <1>19. 0 \in U
    BY <1>5, <1>8, <1>16
  <1>20. \A i \in 1 .. n : i - 1 \in U => i \in U
    <2>1. \A i \in 1 .. n : i \in 0 .. n
      BY <1>8
    <2> QED
      BY <1>3, <1>9, <1>17, <2>1
  <1>21. \A i \in 0 .. n : a[i] \in X
    <2> HIDE DEF U
    <2>1. \A i \in 0 .. n : i \in U
      BY <1>8, <1>19, <1>20, Upward
    <2> QED
      BY <2>1 DEF U
  <1>22. a \in [0 .. n -> X]
    BY <1>18, <1>21
  <1> QED
    BY <1>16, <1>17, <1>22 DEF n, X

(* Nothing is lost of a list of lists that is made flat.                    *)
LEMMA FlattenedIsList ==
  ASSUME NEW S, NEW seqs \in Seq(Seq(S))
  PROVE  FlattenSeq(seqs) \in Seq(S)
  <1>1. PICK a : /\ a \in [0 .. Len(seqs) -> Seq(S)]
                 /\ a[Len(seqs)] = FlattenSeq(seqs)
    BY FlattenSteps
  <1>2. Len(seqs) \in 0 .. Len(seqs)
    BY LenProperties
  <1> QED
    BY <1>1, <1>2

(* The places of a text or of a list of matches, and the last of some.      *)
LastPlace(D) == [s \in SUBSET D |-> Max(s)]

LEMMA LastPlaceIsThere ==
  ASSUME NEW S, NEW seq \in Seq(S)
  PROVE  /\ IsFiniteSet(DOMAIN seq) /\ DOMAIN seq \in SUBSET (DOMAIN seq)
         /\ \A s \in SUBSET (DOMAIN seq) :
              /\ LastPlace(DOMAIN seq)[s] = Max(s)
              /\ s # {} => Max(s) \in s
  <1>1. Len(seq) \in Nat /\ DOMAIN seq = 1 .. Len(seq)
    BY LenProperties
  <1>2. IsFiniteSet(DOMAIN seq)
    BY <1>1, FS_Interval
  <1>3. ASSUME NEW s \in SUBSET (DOMAIN seq), s # {}
        PROVE  Max(s) \in s
    BY <1>1, <1>3, LastOfPlaces DEF Max
  <1> QED
    BY <1>2, <1>3 DEF LastPlace

(* The places up to k, of which the last is taken first.                    *)
LEMMA PlacesUpTo ==
  ASSUME NEW n \in Nat, NEW k \in 1..n
  PROVE  /\ 1..k \in SUBSET (1..n) /\ 1..k # {}
         /\ Max(1..k) = k
         /\ (1..k) \ {k} = 1..(k - 1)
  <1>1. \E x \in 1..k : \A y \in 1..k : x >= y
    OBVIOUS
  <1>2. \A x \in 1..k : (\A y \in 1..k : x >= y) => x = k
    OBVIOUS
  <1>3. Max(1..k) = k
    BY <1>1, <1>2 DEF Max
  <1> QED
    BY <1>3

(* Texts, entities and matches, as the engine makes them.                  *)
Chars == [value : Int, at : Int]

Marks == {"email", "date", "ssn", "bareSsn", "card", "month",
          "orphan", "bridge", "name"}

Entities == [kind : Marks, start : Int]

Results == [text : Seq(Chars), entities : Seq(Entities)]

Spans == (Nat \ {0}) \X Nat

(* The text of a part, a mark, and a text with a mark spliced in.           *)
LEMMA TextIsList ==
  ASSUME NEW kinds \in Seq(Kinds)
  PROVE  Text(kinds) \in Seq(Chars)
  <1> DEFINE value(i) == Append([j \in 1..Width(kinds[i]) |-> Char(i, j)], Blank)
             values == [i \in DOMAIN kinds |-> value(i)]
  <1>1. Len(kinds) \in Nat /\ DOMAIN kinds = 1 .. Len(kinds)
    OBVIOUS
  <1>2. ASSUME NEW i \in 1 .. Len(kinds)
        PROVE  value(i) \in Seq(Chars)
    <2> DEFINE w == Width(kinds[i])
               c == [j \in 1 .. w |-> Char(i, j)]
    <2>1. w \in Nat
      BY DEF Width
    <2> HIDE DEF w
    <2>2. c \in Seq(Chars)
      BY <1>1, <2>1 DEF Char, Chars
    <2>3. Blank \in Chars
      BY DEF Blank, Char, Chars
    <2> HIDE DEF c
    <2>4. Append(c, Blank) \in Seq(Chars)
      BY <2>2, <2>3
    <2> QED
      BY <2>4 DEF c, w
  <1> HIDE DEF value
  <1>3. values \in Seq(Seq(Chars))
    BY <1>1, <1>2
  <1>4. Text(kinds) = FlattenSeq(values)
    BY DEF Text, value
  <1> HIDE DEF values
  <1> QED
    BY <1>3, <1>4, FlattenedIsList

LEMMA MarkIsList ==
  ASSUME NEW k
  PROVE  MarkOf(k) \in Seq(Chars)
  <1> DEFINE n == IF k = "card" THEN 1 ELSE 2
             c == [j \in 1 .. n |-> Char(0, j)]
  <1>1. n \in Nat
    OBVIOUS
  <1> HIDE DEF n
  <1>2. c \in Seq(Chars)
    BY <1>1 DEF Char, Chars
  <1>3. <<Close>> \in Seq(Chars)
    <2>1. Close \in Chars
      BY DEF Close, Char, Chars
    <2> QED
      BY <2>1
  <1> HIDE DEF c
  <1>4. c \o <<Close>> \in Seq(Chars)
    BY <1>2, <1>3, ConcatProperties
  <1> QED
    BY <1>4 DEF MarkOf, c, n

LEMMA SplicedIsList ==
  ASSUME NEW S, NEW text \in Seq(S), NEW p \in Nat \ {0}, NEW q \in Nat, NEW mark \in Seq(S)
  PROVE  Spliced(text, p, q, mark) \in Seq(S)
  <1> DEFINE m == IF p - 1 > Len(text) THEN Len(text) ELSE p - 1
  <1>1. Len(text) \in Nat /\ m \in 0 .. Len(text)
    BY LenProperties
  <1> HIDE DEF m
  <1>2. SubSeq(text, 1, m) \in Seq(S)
    BY <1>1
  <1>3. SubSeq(text, q + 1, Len(text)) \in Seq(S)
    BY <1>1
  <1>4. (SubSeq(text, 1, m) \o mark) \o SubSeq(text, q + 1, Len(text)) \in Seq(S)
    BY <1>2, <1>3, ConcatProperties
  <1> QED
    BY <1>4 DEF Spliced, m

(* One substitution.                                                        *)
LEMMA SubstitutedIsResult ==
  ASSUME NEW r \in Results, NEW match \in Spans, NEW k \in Marks
  PROVE  Substituted(r, match, k) \in Results
  <1>1. match[1] \in Nat \ {0} /\ match[2] \in Nat
    BY DEF Spans
  <1>2. r.text \in Seq(Chars) /\ r.entities \in Seq(Entities)
    BY DEF Results
  <1>3. Spliced(r.text, match[1], match[2], MarkOf(k)) \in Seq(Chars)
    BY <1>1, <1>2, MarkIsList, SplicedIsList
  <1>4. [kind |-> k, start |-> match[1]] \in Entities
    BY <1>1 DEF Entities
  <1>5. Append(r.entities, [kind |-> k, start |-> match[1]]) \in Seq(Entities)
    BY <1>2, <1>4
  <1> QED
    BY <1>3, <1>5 DEF Substituted, Results

(* The substitutions of a list of matches, one after the other.             *)
LEMMA InOrderSteps ==
  ASSUME NEW r \in Results, NEW k \in Marks, NEW ms \in Seq(Spans)
  PROVE  \E a : /\ a[0] = r /\ a[Len(ms)] = InOrder(r, k, ms)
                /\ \A i \in 1 .. Len(ms) : a[i] = Substituted(a[i - 1], ms[i], k)
  <1> DEFINE D == DOMAIN ms
             n == Len(ms)
             last == LastPlace(D)
             h == [x \in Results |-> [i \in D |-> Substituted(x, ms[i], k)]]
             Body(f) == [s \in SUBSET D |->
                           IF s = {} THEN r
                           ELSE Substituted(f[s \ {Max(s)}], ms[Max(s)], k)]
             iter == CHOOSE f : f = Body(f)
             a == [i \in 0 .. n |-> iter[1 .. i]]
  <1>1. InOrder(r, k, ms) = iter[D]
    BY DEF InOrder, FoldLeft, MapThenFoldSet
  <1>2. /\ IsFiniteSet(D) /\ D \in SUBSET D
        /\ \A s \in SUBSET D : last[s] = Max(s) /\ (s # {} => last[s] \in s)
    BY LastPlaceIsThere
  <1>3. \A x \in Results, i \in D : Substituted(x, ms[i], k) \in Results
    <2>1. \A i \in D : ms[i] \in Spans
      OBVIOUS
    <2> QED
      BY <2>1, SubstitutedIsResult
  <1>4. \A x \in Results, i \in D : h[x][i] = Substituted(x, ms[i], k)
    OBVIOUS
  <1>5. \A x \in Results, i \in D : h[x][i] \in Results
    BY <1>3, <1>4
  <1>6. r \in Results
    OBVIOUS
  <1>7. D = 1 .. n /\ n \in Nat
    OBVIOUS
  <1> HIDE DEF D, last, h, n
  <1>8. PICK g \in [SUBSET D -> Results] : Folded(g, D, last, r, h)
    BY <1>2, <1>5, <1>6, FoldExists
  <1>9. ASSUME NEW s \in SUBSET D, s # {}
        PROVE  s \ {Max(s)} \in SUBSET D /\ Max(s) \in D /\ last[s] = Max(s)
    BY <1>2, <1>9
  <1>10. ASSUME NEW s \in SUBSET D
         PROVE  g[s] = IF s = {} THEN r
                       ELSE Substituted(g[s \ {Max(s)}], ms[Max(s)], k)
    <2>1. g[s] = IF s = {} THEN r ELSE h[g[s \ {last[s]}]][last[s]]
      BY <1>8 DEF Folded
    <2>2. CASE s = {}
      BY <2>1, <2>2
    <2>3. CASE s # {}
      <3>1. g[s \ {Max(s)}] \in Results
        BY <1>9, <2>3
      <3> QED
        BY <1>4, <1>9, <2>1, <2>3, <3>1
    <2> QED
      BY <2>2, <2>3
  <1>11. g = Body(g)
    BY <1>10
  <1>12. iter = Body(iter)
    BY <1>11
  <1> HIDE DEF iter
  <1>13. a[0] = r /\ a[n] = iter[D]
    <2>1. 1 .. 0 = {} /\ {} \in SUBSET D /\ 0 \in 0 .. n /\ n \in 0 .. n
      BY <1>7
    <2>2. iter[{}] = r
      BY <1>12, <2>1
    <2> QED
      BY <1>7, <2>1, <2>2
  <1>14. ASSUME NEW i \in 1 .. n
         PROVE  a[i] = Substituted(a[i - 1], ms[i], k)
    <2>1. /\ 1 .. i \in SUBSET D /\ 1 .. i # {}
          /\ Max(1 .. i) = i /\ (1 .. i) \ {i} = 1 .. (i - 1)
      BY <1>7, PlacesUpTo
    <2>2. i \in 0 .. n /\ i - 1 \in 0 .. n
      BY <1>7
    <2>3. iter[1 .. i] = Substituted(iter[1 .. (i - 1)], ms[i], k)
      BY <1>12, <2>1
    <2> QED
      BY <2>2, <2>3
  <1> HIDE DEF a
  <1> QED
    BY <1>1, <1>13, <1>14 DEF n

LEMMA InOrderIsResult ==
  ASSUME NEW r \in Results, NEW k \in Marks, NEW ms \in Seq(Spans)
  PROVE  InOrder(r, k, ms) \in Results
  <1> DEFINE n == Len(ms)
  <1>1. n \in Nat /\ \A i \in 1 .. n : ms[i] \in Spans
    BY LenProperties
  <1>2. PICK a : /\ a[0] = r /\ a[n] = InOrder(r, k, ms)
                 /\ \A i \in 1 .. n : a[i] = Substituted(a[i - 1], ms[i], k)
    BY InOrderSteps
  <1> HIDE DEF n
  <1> DEFINE S == {i \in 0 .. n : a[i] \in Results}
  <1>3. 0 \in S
    BY <1>1, <1>2
  <1>4. \A i \in 1 .. n : i - 1 \in S => i \in S
    BY <1>1, <1>2, SubstitutedIsResult
  <1> HIDE DEF S
  <1>5. \A i \in 0 .. n : i \in S
    BY <1>1, <1>3, <1>4, Upward
  <1> QED
    BY <1>1, <1>2, <1>5 DEF S

(* The same from the right.                                                 *)
LEMMA FromTheRightIsResult ==
  ASSUME NEW r \in Results, NEW k \in Marks, NEW ms \in Seq(Spans)
  PROVE  FromTheRight(r, k, ms) \in Results
  <1>1. Reverse(ms) \in Seq(Spans)
    BY DEF Reverse
  <1> DEFINE rs == Reverse(ms)
  <1>2. FromTheRight(r, k, ms) = InOrder(r, k, rs)
    BY DEF FromTheRight, InOrder
  <1> HIDE DEF rs
  <1> QED
    BY <1>1, <1>2, InOrderIsResult DEF rs

LEMMA LongestIsMatch ==
  ASSUME NEW p \in Nat \ {0}, NEW n \in Nat, NEW E \in SUBSET (p .. n), E # {}
  PROVE  LET longest == CHOOSE q \in E : \A e \in E : e <= q
         IN  longest \in E /\ \A e \in E : e <= longest
  <1>1. E \in SUBSET (1 .. n)
    OBVIOUS
  <1>2. PICK q \in E : \A e \in E : q >= e
    BY <1>1, LastOfPlaces
  <1>3. \A e \in E : e \in Nat
    OBVIOUS
  <1>4. \A e \in E : e <= q
    BY <1>2, <1>3
  <1> QED
    BY <1>4

(* One step of the search for matches, from left to right.                  *)
NextFound(found, p, ends) ==
  IF (found # <<>> /\ Last(found)[2] >= p) \/ ends[p] = {} THEN found
  ELSE Append(found, <<p, CHOOSE q \in ends[p] : \A e \in ends[p] : e <= q>>)

LEMMA FoundAreSpans ==
  ASSUME NEW x \in Seq(Spans), NEW p \in Nat \ {0}, NEW n \in Nat, NEW ends,
         ends[p] \in SUBSET (p .. n)
  PROVE  NextFound(x, p, ends) \in Seq(Spans)
  <1>1. CASE (x # <<>> /\ Last(x)[2] >= p) \/ ends[p] = {}
    BY <1>1 DEF NextFound
  <1>2. CASE ~((x # <<>> /\ Last(x)[2] >= p) \/ ends[p] = {})
    <2> DEFINE q == CHOOSE q \in ends[p] : \A e \in ends[p] : e <= q
    <2>1. q \in Nat
      <3>1. q \in ends[p]
        BY <1>2, LongestIsMatch
      <3> QED
        BY <3>1
    <2> HIDE DEF q
    <2>2. <<p, q>> \in Spans
      BY <2>1 DEF Spans
    <2>3. Append(x, <<p, q>>) \in Seq(Spans)
      BY <2>2
    <2> QED
      BY <1>2, <2>3 DEF NextFound, q
  <1> QED
    BY <1>1, <1>2

(* What a search from left to right has found up to p: matches as long as    *)
(* they can be, none in another, and one over each place where one begins.   *)
FoundUpTo(x, p, ends) ==
  /\ x \in Seq(Spans)
  /\ \A i \in DOMAIN x : /\ x[i][1] \in 1 .. p
                         /\ x[i][2] \in ends[x[i][1]]
                         /\ \A e \in ends[x[i][1]] : e <= x[i][2]
  /\ \A i, j \in DOMAIN x : i < j => x[i][2] < x[j][1]
  /\ \A e \in 1 .. p : ends[e] # {} => \E i \in DOMAIN x : x[i][1] <= e /\ e <= x[i][2]

LEMMA OneMoreFound ==
  ASSUME NEW n \in Nat, NEW p \in 1 .. n, NEW ends,
         \A e \in 1 .. n : ends[e] \in SUBSET (e .. n),
         NEW x, FoundUpTo(x, p - 1, ends)
  PROVE  FoundUpTo(NextFound(x, p, ends), p, ends)
  <1>1. /\ x \in Seq(Spans) /\ Len(x) \in Nat /\ DOMAIN x = 1 .. Len(x)
        /\ \A i \in DOMAIN x : x[i][1] \in Nat \ {0} /\ x[i][2] \in Nat
    BY LenProperties DEF FoundUpTo, Spans
  <1>2. \A i \in DOMAIN x : /\ x[i][1] \in 1 .. (p - 1)
                            /\ x[i][2] \in ends[x[i][1]]
                            /\ x[i][1] <= x[i][2]
                            /\ \A e \in ends[x[i][1]] : e <= x[i][2]
    BY DEF FoundUpTo
  <1>3. \A i \in DOMAIN x : x[i][1] \in 1 .. p
    BY <1>2
  <1>4. p \in Nat \ {0} /\ \A e \in 1 .. p : e = p \/ e \in 1 .. (p - 1)
    OBVIOUS
  <1>5. \A i, j \in DOMAIN x : i < j => x[i][2] < x[j][1]
    BY DEF FoundUpTo
  <1>6. \A e \in 1 .. (p - 1) :
          ends[e] # {} => \E i \in DOMAIN x : x[i][1] <= e /\ e <= x[i][2]
    BY DEF FoundUpTo
  <1>7. CASE ends[p] = {}
    <2>1. \A e \in 1 .. p :
            ends[e] # {} => \E i \in DOMAIN x : x[i][1] <= e /\ e <= x[i][2]
      BY <1>4, <1>6, <1>7
    <2>2. FoundUpTo(x, p, ends)
      BY <1>1, <1>2, <1>3, <1>5, <2>1 DEF FoundUpTo
    <2> QED
      BY <1>7, <2>2 DEF NextFound
  <1>8. CASE x # <<>> /\ Last(x)[2] >= p
    <2>1. Len(x) \in DOMAIN x /\ Last(x) = x[Len(x)]
      BY <1>1, <1>8, EmptySeq DEF Last
    <2>2. x[Len(x)][1] <= p /\ p <= x[Len(x)][2]
      BY <1>1, <1>2, <1>8, <2>1
    <2>3. \A e \in 1 .. p :
            ends[e] # {} => \E i \in DOMAIN x : x[i][1] <= e /\ e <= x[i][2]
      BY <1>4, <1>6, <2>1, <2>2
    <2>4. FoundUpTo(x, p, ends)
      BY <1>1, <1>2, <1>3, <1>5, <2>3 DEF FoundUpTo
    <2> QED
      BY <1>8, <2>4 DEF NextFound
  <1>9. CASE ends[p] # {} /\ ~(x # <<>> /\ Last(x)[2] >= p)
    <2> DEFINE q == CHOOSE q \in ends[p] : \A e \in ends[p] : e <= q
               y == Append(x, <<p, q>>)
    <2>1. ends[p] \in SUBSET (p .. n)
      OBVIOUS
    <2>2. q \in ends[p] /\ \A e \in ends[p] : e <= q
      BY <1>4, <1>9, <2>1, LongestIsMatch
    <2>3. q \in Nat /\ p <= q
      BY <2>1, <2>2
    <2> HIDE DEF q
    <2>4. <<p, q>> \in Spans
      BY <1>4, <2>3 DEF Spans
    <2>5. /\ y \in Seq(Spans) /\ DOMAIN y = 1 .. Len(x) + 1
          /\ \A i \in DOMAIN x : y[i] = x[i]
          /\ y[Len(x) + 1] = <<p, q>>
      BY <1>1, <2>4
    <2> HIDE DEF y
    <2>6. \A i \in DOMAIN x : x[i][2] < p
      <3>1. ASSUME NEW i \in DOMAIN x
            PROVE  x[i][2] < p
        <4>1. x # <<>> /\ Len(x) \in DOMAIN x /\ Last(x) = x[Len(x)]
          BY <1>1, EmptySeq DEF Last
        <4>2. x[Len(x)][2] < p
          BY <1>1, <1>9, <4>1
        <4>3. CASE i = Len(x)
          BY <4>2, <4>3
        <4>4. CASE i < Len(x)
          <5>1. x[i][2] < x[Len(x)][1] /\ x[Len(x)][1] <= x[Len(x)][2]
            BY <1>2, <1>5, <4>1, <4>4
          <5> QED
            BY <1>1, <4>1, <4>2, <5>1
        <4> QED
          BY <1>1, <4>3, <4>4
      <3> QED
        BY <3>1
    <2>7. \A i \in DOMAIN y : i \in DOMAIN x \/ i = Len(x) + 1
      BY <1>1, <2>5
    <2>8. \A i \in DOMAIN y : /\ y[i][1] \in 1 .. p
                             /\ y[i][2] \in ends[y[i][1]]
                             /\ \A e \in ends[y[i][1]] : e <= y[i][2]
      <3>1. <<p, q>>[1] = p /\ <<p, q>>[2] = q /\ p \in 1 .. p
        BY <1>4
      <3> QED
        BY <1>2, <1>3, <2>2, <2>5, <2>7, <3>1
    <2>9. \A i, j \in DOMAIN y : i < j => y[i][2] < y[j][1]
      <3>1. ASSUME NEW i \in DOMAIN y, NEW j \in DOMAIN y, i < j
            PROVE  y[i][2] < y[j][1]
        <4>1. i \in DOMAIN x
          BY <1>1, <2>5, <3>1
        <4>2. CASE j \in DOMAIN x
          BY <1>5, <2>5, <3>1, <4>1, <4>2
        <4>3. CASE j = Len(x) + 1
          <5>1. y[j][1] = p
            BY <2>5, <4>3
          <5> QED
            BY <2>5, <2>6, <4>1, <5>1
        <4> QED
          BY <2>7, <4>2, <4>3
      <3> QED
        BY <3>1
    <2>10. \A e \in 1 .. p :
             ends[e] # {} => \E i \in DOMAIN y : y[i][1] <= e /\ e <= y[i][2]
      <3>1. \A i \in DOMAIN x : i \in DOMAIN y
        BY <1>1, <2>5
      <3>2. Len(x) + 1 \in DOMAIN y /\ y[Len(x) + 1][1] = p /\ y[Len(x) + 1][2] = q
        BY <1>1, <2>5
      <3>3. p <= p /\ p <= q
        BY <1>4, <2>3
      <3> QED
        BY <1>4, <1>6, <2>5, <3>1, <3>2, <3>3
    <2>11. FoundUpTo(y, p, ends)
      BY <2>5, <2>8, <2>9, <2>10 DEF FoundUpTo
    <2> QED
      BY <1>9, <2>11 DEF NextFound, y, q
  <1> QED
    BY <1>7, <1>8, <1>9

(* The matches in a text.                                                   *)
LEMMA MatchesAreFound ==
  ASSUME NEW S, NEW text \in Seq(S), NEW ends,
         \A p \in DOMAIN text : ends[p] \in SUBSET (p .. Len(text))
  PROVE  FoundUpTo(Matches(text, ends), Len(text), ends)
  <1> DEFINE n == Len(text)
             places == [p \in DOMAIN text |-> p]
             D == DOMAIN places
             last == LastPlace(D)
             h == [x \in Seq(Spans) |-> [i \in D |-> NextFound(x, places[i], ends)]]
             Body(f) == [s \in SUBSET D |->
                           IF s = {} THEN <<>>
                           ELSE NextFound(f[s \ {Max(s)}], places[Max(s)], ends)]
             iter == CHOOSE f : f = Body(f)
  <1>1. Matches(text, ends) = iter[D]
    BY DEF Matches, NextFound, FoldLeft, MapThenFoldSet
  <1>2. n \in Nat /\ DOMAIN text = 1 .. n /\ D = 1 .. n /\ \A i \in D : places[i] = i
    BY LenProperties
  <1>3. /\ IsFiniteSet(D) /\ D \in SUBSET D
        /\ \A s \in SUBSET D : last[s] = Max(s) /\ (s # {} => last[s] \in s)
    <2>1. DOMAIN text = D
      OBVIOUS
    <2> QED
      BY <2>1, LastPlaceIsThere
  <1>4. \A x \in Seq(Spans), i \in D : NextFound(x, places[i], ends) \in Seq(Spans)
    <2>1. \A i \in D : /\ places[i] \in Nat \ {0}
                       /\ ends[places[i]] \in SUBSET (places[i] .. n)
      BY <1>2
    <2> QED
      BY <1>2, <2>1, FoundAreSpans
  <1>5. \A x \in Seq(Spans), i \in D : h[x][i] = NextFound(x, places[i], ends)
    OBVIOUS
  <1>6. \A x \in Seq(Spans), i \in D : h[x][i] \in Seq(Spans)
    BY <1>4, <1>5
  <1>7. <<>> \in Seq(Spans)
    OBVIOUS
  <1> HIDE DEF D, last, h, places, n
  <1>8. PICK g \in [SUBSET D -> Seq(Spans)] : Folded(g, D, last, <<>>, h)
    BY <1>3, <1>6, <1>7, FoldExists
  <1>9. ASSUME NEW s \in SUBSET D, s # {}
        PROVE  s \ {Max(s)} \in SUBSET D /\ Max(s) \in D /\ last[s] = Max(s)
    BY <1>3, <1>9
  <1>10. ASSUME NEW s \in SUBSET D
         PROVE  g[s] = IF s = {} THEN <<>>
                       ELSE NextFound(g[s \ {Max(s)}], places[Max(s)], ends)
    <2>1. g[s] = IF s = {} THEN <<>> ELSE h[g[s \ {last[s]}]][last[s]]
      BY <1>8 DEF Folded
    <2>2. CASE s = {}
      BY <2>1, <2>2
    <2>3. CASE s # {}
      <3>1. g[s \ {Max(s)}] \in Seq(Spans)
        BY <1>9, <2>3
      <3> QED
        BY <1>5, <1>9, <2>1, <2>3, <3>1
    <2> QED
      BY <2>2, <2>3
  <1>11. g = Body(g)
    BY <1>10
  <1>12. iter = Body(iter)
    BY <1>11
  <1> HIDE DEF iter
  <1> DEFINE U == {p \in 0 .. n : FoundUpTo(iter[1 .. p], p, ends)}
  <1>13. 0 \in U
    <2>1. iter[1 .. 0] = <<>>
      <3>1. 1 .. 0 = {} /\ {} \in SUBSET D
        OBVIOUS
      <3> QED
        BY <1>12, <3>1
    <2>2. <<>> \in Seq(Spans) /\ DOMAIN <<>> = {} /\ 1 .. 0 = {}
      OBVIOUS
    <2>3. FoundUpTo(<<>>, 0, ends)
      BY <2>2 DEF FoundUpTo
    <2> QED
      BY <1>2, <2>1, <2>3
  <1>14. ASSUME NEW p \in 1 .. n, p - 1 \in U
         PROVE  p \in U
    <2>1. /\ 1 .. p \in SUBSET D /\ 1 .. p # {}
          /\ Max(1 .. p) = p /\ (1 .. p) \ {p} = 1 .. (p - 1)
      BY <1>2, PlacesUpTo
    <2>2. iter[1 .. p] = NextFound(iter[1 .. (p - 1)], p, ends)
      <3>1. iter[1 .. p] = NextFound(iter[(1 .. p) \ {Max(1 .. p)}], places[Max(1 .. p)], ends)
        BY <1>12, <2>1
      <3>2. places[p] = p
        BY <1>2
      <3> QED
        BY <2>1, <3>1, <3>2
    <2>3. FoundUpTo(iter[1 .. (p - 1)], p - 1, ends)
      BY <1>14
    <2>4. \A e \in 1 .. n : ends[e] \in SUBSET (e .. n)
      BY <1>2 DEF n
    <2>5. FoundUpTo(iter[1 .. p], p, ends)
      <3> DEFINE x == iter[1 .. (p - 1)]
      <3>1. FoundUpTo(x, p - 1, ends)
        BY <2>3
      <3> HIDE DEF x
      <3>2. FoundUpTo(NextFound(x, p, ends), p, ends)
        BY <1>2, <2>4, <3>1, OneMoreFound
      <3> QED
        BY <2>2, <3>2 DEF x
    <2> QED
      BY <1>2, <2>5
  <1>15. n \in U
    <2> HIDE DEF U
    <2>1. \A p \in 0 .. n : p \in U
      BY <1>2, <1>13, <1>14, Upward
    <2> QED
      BY <1>2, <2>1
  <1> QED
    BY <1>1, <1>2, <1>15 DEF n

LEMMA MatchesAreSpans ==
  ASSUME NEW S, NEW text \in Seq(S), NEW ends,
         \A p \in DOMAIN text : ends[p] \in SUBSET (p .. Len(text))
  PROVE  Matches(text, ends) \in Seq(Spans)
  BY MatchesAreFound DEF FoundUpTo

(* The matches of a pattern.                                                *)
LEMMA ValuesAreSpans ==
  ASSUME NEW S, NEW text \in Seq(S), NEW kinds, NEW k
  PROVE  ValuesOf(text, kinds, k) \in Seq(Spans)
  <1> DEFINE ends == [p \in DOMAIN text |->
                        {q \in p..Len(text) : IsValue(text, kinds, k, p, q)}]
  <1>1. \A p \in DOMAIN text : ends[p] \in SUBSET (p .. Len(text))
    OBVIOUS
  <1>2. ValuesOf(text, kinds, k) = Matches(text, ends)
    BY DEF ValuesOf
  <1> HIDE DEF ends
  <1> QED
    BY <1>1, <1>2, MatchesAreSpans

LEMMA ListsOfPatterns == Patterns \in Seq(Marks) /\ Supplements \in Seq(Marks)
  BY DEF Patterns, Supplements, Marks

(* A pass over a text for one kind of values.                               *)
Passed(a, kinds, k) == FromTheRight(a, k, ValuesOf(a.text, kinds, k))

Supplemented(a, kinds, k) == InOrder(a, k, ValuesOf(a.text, kinds, k))

LEMMA PassesAreResults ==
  ASSUME NEW a \in Results, NEW kinds, NEW k \in Marks
  PROVE  Passed(a, kinds, k) \in Results /\ Supplemented(a, kinds, k) \in Results
  <1>1. a.text \in Seq(Chars)
    BY DEF Results
  <1>2. ValuesOf(a.text, kinds, k) \in Seq(Spans)
    BY <1>1, ValuesAreSpans
  <1> QED
    BY <1>2, FromTheRightIsResult, InOrderIsResult DEF Passed, Supplemented

Patterned(r, kinds) ==
  FoldLeft(LAMBDA a, k : FromTheRight(a, k, ValuesOf(a.text, kinds, k)), r, Patterns)

(* The passes of the table and of the supplements, written out.             *)
LEMMA PatternedIs ==
  ASSUME NEW r \in Results, NEW kinds
  PROVE  Patterned(r, kinds) =
           Passed(Passed(Passed(r, kinds, "email"), kinds, "date"), kinds, "ssn")
  <1> DEFINE D == DOMAIN Patterns
             last == LastPlace(D)
             h == [x \in Results |-> [i \in D |-> Passed(x, kinds, Patterns[i])]]
             Body(f) == [s \in SUBSET D |->
                           IF s = {} THEN r
                           ELSE Passed(f[s \ {Max(s)}], kinds, Patterns[Max(s)])]
             iter == CHOOSE f : f = Body(f)
  <1>1. Patterned(r, kinds) = iter[D]
    BY DEF Patterned, Passed, FoldLeft, MapThenFoldSet
  <1>2. /\ IsFiniteSet(D) /\ D \in SUBSET D
        /\ \A s \in SUBSET D : last[s] = Max(s) /\ (s # {} => last[s] \in s)
    BY LastPlaceIsThere, ListsOfPatterns
  <1>3. \A x \in Results, i \in D : Passed(x, kinds, Patterns[i]) \in Results
    <2>1. \A i \in D : Patterns[i] \in Marks
      BY ListsOfPatterns
    <2> QED
      BY <2>1, PassesAreResults
  <1>4. \A x \in Results, i \in D : h[x][i] = Passed(x, kinds, Patterns[i])
    OBVIOUS
  <1>5. \A x \in Results, i \in D : h[x][i] \in Results
    BY <1>3, <1>4
  <1>6. r \in Results
    OBVIOUS
  <1>7. D = 1 .. 3 /\ Patterns[1] = "email" /\ Patterns[2] = "date" /\ Patterns[3] = "ssn"
    BY DEF Patterns
  <1> HIDE DEF D, last, h
  <1>8. PICK g \in [SUBSET D -> Results] : Folded(g, D, last, r, h)
    BY <1>2, <1>5, <1>6, FoldExists
  <1>9. ASSUME NEW s \in SUBSET D, s # {}
        PROVE  s \ {Max(s)} \in SUBSET D /\ Max(s) \in D /\ last[s] = Max(s)
    BY <1>2, <1>9
  <1>10. ASSUME NEW s \in SUBSET D
         PROVE  g[s] = IF s = {} THEN r
                       ELSE Passed(g[s \ {Max(s)}], kinds, Patterns[Max(s)])
    <2>1. g[s] = IF s = {} THEN r ELSE h[g[s \ {last[s]}]][last[s]]
      BY <1>8 DEF Folded
    <2>2. CASE s = {}
      BY <2>1, <2>2
    <2>3. CASE s # {}
      <3>1. g[s \ {Max(s)}] \in Results
        BY <1>9, <2>3
      <3> QED
        BY <1>4, <1>9, <2>1, <2>3, <3>1
    <2> QED
      BY <2>2, <2>3
  <1>11. g = Body(g)
    BY <1>10
  <1>12. iter = Body(iter)
    BY <1>11
  <1> HIDE DEF iter
  <1>13. \A i \in 1 .. 3 : iter[1 .. i] = Passed(iter[1 .. (i - 1)], kinds, Patterns[i])
    <2>1. ASSUME NEW i \in 1 .. 3
          PROVE  iter[1 .. i] = Passed(iter[1 .. (i - 1)], kinds, Patterns[i])
      <3>1. /\ 1 .. i \in SUBSET D /\ 1 .. i # {}
            /\ Max(1 .. i) = i /\ (1 .. i) \ {i} = 1 .. (i - 1)
        BY <1>7, PlacesUpTo
      <3>2. iter[1 .. i] =
              Passed(iter[(1 .. i) \ {Max(1 .. i)}], kinds, Patterns[Max(1 .. i)])
        BY <1>12, <3>1
      <3> QED
        BY <3>1, <3>2
    <2> QED
      BY <2>1
  <1>14. iter[1 .. 0] = r
    <2>1. 1 .. 0 = {} /\ {} \in SUBSET D
      OBVIOUS
    <2> QED
      BY <1>12, <2>1
  <1>15. /\ iter[1 .. 1] = Passed(r, kinds, "email")
         /\ iter[1 .. 2] = Passed(iter[1 .. 1], kinds, "date")
         /\ iter[1 .. 3] = Passed(iter[1 .. 2], kinds, "ssn")
    <2>1. 1 \in 1 .. 3 /\ 2 \in 1 .. 3 /\ 3 \in 1 .. 3 /\ 1 - 1 = 0 /\ 2 - 1 = 1 /\ 3 - 1 = 2
      OBVIOUS
    <2> QED
      BY <1>7, <1>13, <1>14, <2>1
  <1> QED
    BY <1>1, <1>7, <1>15

LEMMA PatternedIsResult ==
  ASSUME NEW r \in Results, NEW kinds
  PROVE  Patterned(r, kinds) \in Results
  <1>1. Passed(r, kinds, "email") \in Results
    BY PassesAreResults DEF Marks
  <1>2. Passed(Passed(r, kinds, "email"), kinds, "date") \in Results
    BY <1>1, PassesAreResults DEF Marks
  <1>3. Passed(Passed(Passed(r, kinds, "email"), kinds, "date"), kinds, "ssn") \in Results
    BY <1>2, PassesAreResults DEF Marks
  <1> QED
    BY <1>3, PatternedIs

LEMMA SupplementedIs ==
  ASSUME NEW r \in Results, NEW kinds
  PROVE  SupplementPass(r, kinds) =
           Supplemented(Supplemented(r, kinds, "bareSsn"), kinds, "card")
  <1> DEFINE D == DOMAIN Supplements
             last == LastPlace(D)
             h == [x \in Results |-> [i \in D |-> Supplemented(x, kinds, Supplements[i])]]
             Body(f) == [s \in SUBSET D |->
                           IF s = {} THEN r
                           ELSE Supplemented(f[s \ {Max(s)}], kinds, Supplements[Max(s)])]
             iter == CHOOSE f : f = Body(f)
  <1>1. SupplementPass(r, kinds) = iter[D]
    BY DEF SupplementPass, Supplemented, FoldLeft, MapThenFoldSet
  <1>2. /\ IsFiniteSet(D) /\ D \in SUBSET D
        /\ \A s \in SUBSET D : last[s] = Max(s) /\ (s # {} => last[s] \in s)
    BY LastPlaceIsThere, ListsOfPatterns
  <1>3. \A x \in Results, i \in D : Supplemented(x, kinds, Supplements[i]) \in Results
    <2>1. \A i \in D : Supplements[i] \in Marks
      BY ListsOfPatterns
    <2> QED
      BY <2>1, PassesAreResults
  <1>4. \A x \in Results, i \in D : h[x][i] = Supplemented(x, kinds, Supplements[i])
    OBVIOUS
  <1>5. \A x \in Results, i \in D : h[x][i] \in Results
    BY <1>3, <1>4
  <1>6. r \in Results
    OBVIOUS
  <1>7. D = 1 .. 2 /\ Supplements[1] = "bareSsn" /\ Supplements[2] = "card"
    BY DEF Supplements
  <1> HIDE DEF D, last, h
  <1>8. PICK g \in [SUBSET D -> Results] : Folded(g, D, last, r, h)
    BY <1>2, <1>5, <1>6, FoldExists
  <1>9. ASSUME NEW s \in SUBSET D, s # {}
        PROVE  s \ {Max(s)} \in SUBSET D /\ Max(s) \in D /\ last[s] = Max(s)
    BY <1>2, <1>9
  <1>10. ASSUME NEW s \in SUBSET D
         PROVE  g[s] = IF s = {} THEN r
                       ELSE Supplemented(g[s \ {Max(s)}], kinds, Supplements[Max(s)])
    <2>1. g[s] = IF s = {} THEN r ELSE h[g[s \ {last[s]}]][last[s]]
      BY <1>8 DEF Folded
    <2>2. CASE s = {}
      BY <2>1, <2>2
    <2>3. CASE s # {}
      <3>1. g[s \ {Max(s)}] \in Results
        BY <1>9, <2>3
      <3> QED
        BY <1>4, <1>9, <2>1, <2>3, <3>1
    <2> QED
      BY <2>2, <2>3
  <1>11. g = Body(g)
    BY <1>10
  <1>12. iter = Body(iter)
    BY <1>11
  <1> HIDE DEF iter
  <1>13. \A i \in 1 .. 2 : iter[1 .. i] = Supplemented(iter[1 .. (i - 1)], kinds, Supplements[i])
    <2>1. ASSUME NEW i \in 1 .. 2
          PROVE  iter[1 .. i] = Supplemented(iter[1 .. (i - 1)], kinds, Supplements[i])
      <3>1. /\ 1 .. i \in SUBSET D /\ 1 .. i # {}
            /\ Max(1 .. i) = i /\ (1 .. i) \ {i} = 1 .. (i - 1)
        BY <1>7, PlacesUpTo
      <3>2. iter[1 .. i] =
              Supplemented(iter[(1 .. i) \ {Max(1 .. i)}], kinds, Supplements[Max(1 .. i)])
        BY <1>12, <3>1
      <3> QED
        BY <3>1, <3>2
    <2> QED
      BY <2>1
  <1>14. iter[1 .. 0] = r
    <2>1. 1 .. 0 = {} /\ {} \in SUBSET D
      OBVIOUS
    <2> QED
      BY <1>12, <2>1
  <1>15. /\ iter[1 .. 1] = Supplemented(r, kinds, "bareSsn")
         /\ iter[1 .. 2] = Supplemented(iter[1 .. 1], kinds, "card")
    <2>1. 1 \in 1 .. 2 /\ 2 \in 1 .. 2 /\ 1 - 1 = 0 /\ 2 - 1 = 1
      OBVIOUS
    <2> QED
      BY <1>7, <1>13, <1>14, <2>1
  <1> QED
    BY <1>1, <1>7, <1>15

LEMMA SupplementPassIsResult ==
  ASSUME NEW r \in Results, NEW kinds
  PROVE  SupplementPass(r, kinds) \in Results
  <1>1. Supplemented(r, kinds, "bareSsn") \in Results
    BY PassesAreResults DEF Marks
  <1>2. Supplemented(Supplemented(r, kinds, "bareSsn"), kinds, "card") \in Results
    BY <1>1, PassesAreResults DEF Marks
  <1> QED
    BY <1>2, SupplementedIs

(* The three passes over a text.                                            *)
LEMMA PatternPassIsResult ==
  ASSUME NEW r \in Results, NEW kinds
  PROVE  PatternPass(r, kinds) \in Results
  <1> DEFINE found == Patterned(r, kinds)
             ends == [p \in DOMAIN found.text |->
                        {q \in p..Len(found.text) : IsOrphan(found.text, kinds, p, q)}]
             ms == Matches(found.text, ends)
  <1>1. PatternPass(r, kinds) = FromTheRight(found, "orphan", ms)
    BY DEF PatternPass, Patterned
  <1>2. found \in Results
    BY PatternedIsResult
  <1> HIDE DEF found
  <1>3. found.text \in Seq(Chars)
    BY <1>2 DEF Results
  <1>4. \A p \in DOMAIN found.text : ends[p] \in SUBSET (p .. Len(found.text))
    OBVIOUS
  <1> HIDE DEF ends
  <1>5. ms \in Seq(Spans)
    BY <1>3, <1>4, MatchesAreSpans
  <1> HIDE DEF ms
  <1> QED
    BY <1>1, <1>2, <1>5, FromTheRightIsResult DEF Marks

LEMMA NoPositionIsResult ==
  ASSUME NEW r \in Results, NEW n
  PROVE  NoPosition(r, n) \in Results
  <1> DEFINE es == r.entities
             fs == [i \in DOMAIN es |-> IF i <= n THEN es[i] ELSE [es[i] EXCEPT !.start = -1]]
  <1>1. r.text \in Seq(Chars) /\ es \in Seq(Entities)
    BY DEF Results
  <1>2. r = [text |-> r.text, entities |-> es]
    BY DEF Results
  <1>3. NoPosition(r, n) = [text |-> r.text, entities |-> fs]
    BY <1>2 DEF NoPosition
  <1> HIDE DEF es
  <1>4. ASSUME NEW i \in DOMAIN es
        PROVE  fs[i] \in Entities
    <2>1. es[i] \in Entities
      BY <1>1
    <2>2. [es[i] EXCEPT !.start = -1] \in Entities
      BY <2>1 DEF Entities
    <2> QED
      BY <2>1, <2>2
  <1>5. DOMAIN es = 1 .. Len(es) /\ Len(es) \in Nat
    BY <1>1
  <1>6. fs \in Seq(Entities)
    BY <1>4, <1>5
  <1> HIDE DEF fs
  <1> QED
    BY <1>1, <1>3, <1>6 DEF Results

LEMMA PostPassIsResult ==
  ASSUME NEW r \in Results, NEW kinds, NEW names
  PROVE  PostPass(r, kinds, names) \in Results
  <1> DEFINE over == [p \in DOMAIN r.text |->
                        {q \in p..Len(r.text) : IsBridge(r.text, kinds, p, q)}]
             bridged == FromTheRight(r, "bridge", Matches(r.text, over))
             text == bridged.text
             pairs == [p \in DOMAIN text |->
                         {q \in p..Len(text) : IsName(text, kinds, p, q)}]
             named == IF ~names THEN bridged
                      ELSE FromTheRight(bridged, "name", Matches(text, pairs))
             months == FromTheRight(named, "month", ValuesOf(named.text, kinds, "month"))
  <1>1. PostPass(r, kinds, names) = NoPosition(months, Len(r.entities))
    BY DEF PostPass
  <1>2. bridged \in Results
    <2>1. r.text \in Seq(Chars)
      BY DEF Results
    <2>2. \A p \in DOMAIN r.text : over[p] \in SUBSET (p .. Len(r.text))
      OBVIOUS
    <2> HIDE DEF over
    <2>3. Matches(r.text, over) \in Seq(Spans)
      BY <2>1, <2>2, MatchesAreSpans
    <2> QED
      BY <2>3, FromTheRightIsResult DEF Marks
  <1> HIDE DEF bridged
  <1>3. named \in Results
    <2>1. text \in Seq(Chars)
      BY <1>2 DEF Results
    <2> HIDE DEF text
    <2>2. \A p \in DOMAIN text : pairs[p] \in SUBSET (p .. Len(text))
      OBVIOUS
    <2> HIDE DEF pairs
    <2>3. Matches(text, pairs) \in Seq(Spans)
      BY <2>1, <2>2, MatchesAreSpans
    <2>4. FromTheRight(bridged, "name", Matches(text, pairs)) \in Results
      BY <1>2, <2>3, FromTheRightIsResult DEF Marks
    <2> QED
      BY <1>2, <2>4
  <1> HIDE DEF named
  <1>4. months \in Results
    BY <1>3, PassesAreResults DEF Passed, Marks
  <1> HIDE DEF months
  <1> QED
    BY <1>1, <1>4, NoPositionIsResult

(* What the engine returns for a document: a text and a list of entities    *)
(* for each of its parts, and all the entities in one list.                 *)
LEMMA RedactedIsResult ==
  ASSUME NEW kinds \in Seq(Kinds), NEW names
  PROVE  RedactPii(kinds, names) \in Results
  <1> DEFINE r == [text |-> Text(kinds), entities |-> <<>>]
  <1>1. r \in Results
    BY TextIsList DEF Results
  <1> HIDE DEF r
  <1>2. PatternPass(r, kinds) \in Results
    BY <1>1, PatternPassIsResult
  <1>3. SupplementPass(PatternPass(r, kinds), kinds) \in Results
    BY <1>2, SupplementPassIsResult
  <1>4. PostPass(SupplementPass(PatternPass(r, kinds), kinds), kinds, names) \in Results
    BY <1>3, PostPassIsResult
  <1> QED
    BY <1>4 DEF RedactPii, r

LEMMA EntitiesAreList ==
  ASSUME NEW doc \in Documents
  PROVE  Apply(doc).entities \in Seq(Entities)
  <1> DEFINE Part(i) == IF Walked(doc.parts[i])
                        THEN RedactPii(doc.parts[i].kinds, doc.names)
                        ELSE [text |-> Text(doc.parts[i].kinds), entities |-> <<>>]
             lists == [i \in DOMAIN doc.parts |-> Part(i).entities]
  <1>1. doc.parts \in Seq([place : STRING, kinds : Seq(Kinds)])
    BY DEF Documents
  <1>2. Len(doc.parts) \in Nat /\ DOMAIN doc.parts = 1 .. Len(doc.parts)
    BY <1>1
  <1>3. ASSUME NEW i \in DOMAIN doc.parts
        PROVE  Part(i).entities \in Seq(Entities)
    <2>1. doc.parts[i] \in [place : STRING, kinds : Seq(Kinds)]
      <3> DEFINE P == [place : STRING, kinds : Seq(Kinds)]
                 s == doc.parts
      <3>1. s \in Seq(P) /\ i \in 1 .. Len(s)
        BY <1>1, <1>2
      <3> HIDE DEF P, s
      <3>2. s[i] \in P
        BY <3>1
      <3> QED
        BY <3>2 DEF P, s
    <2>2. doc.parts[i].kinds \in Seq(Kinds)
      BY <2>1
    <2>3. RedactPii(doc.parts[i].kinds, doc.names).entities \in Seq(Entities)
      BY <2>2, RedactedIsResult DEF Results
    <2> QED
      BY <2>3
  <1>4. Apply(doc).entities = FlattenSeq(lists)
    <2> DEFINE parts == [i \in DOMAIN doc.parts |-> Part(i)]
    <2>1. Apply(doc).entities = FlattenSeq([i \in DOMAIN parts |-> parts[i].entities])
      BY DEF Apply
    <2>2. [i \in DOMAIN parts |-> parts[i].entities] = lists
      OBVIOUS
    <2> QED
      BY <2>1, <2>2
  <1> HIDE DEF Part
  <1>5. lists \in Seq(Seq(Entities))
    BY <1>2, <1>3
  <1> HIDE DEF lists
  <1> QED
    BY <1>4, <1>5, FlattenedIsList
-----------------------------------------------------------------------------
(* What a splice has where: m characters of the text, the mark, and the n    *)
(* behind the match.                                                        *)
Before(text, p) == IF p - 1 > Len(text) THEN Len(text) ELSE p - 1

Behind(text, q) == IF q < Len(text) THEN Len(text) - q ELSE 0

Splice(s, text, mark, m, l, q, n) ==
  /\ Len(s) = m + l + n
  /\ \A i \in 1 .. m : s[i] = text[i]
  /\ \A i \in 1 .. l : s[m + i] = mark[i]
  /\ \A i \in 1 .. n : s[m + l + i] = text[q + i]

LEMMA SplicedAt ==
  ASSUME NEW S, NEW text \in Seq(S), NEW p \in Nat \ {0}, NEW q \in Nat,
         NEW mark \in Seq(S)
  PROVE  /\ Before(text, p) \in Nat /\ Behind(text, q) \in Nat
         /\ Spliced(text, p, q, mark) \in Seq(S)
         /\ Splice(Spliced(text, p, q, mark), text, mark,
                   Before(text, p), Len(mark), q, Behind(text, q))
  <1> DEFINE m == Before(text, p)
             l == Len(mark)
             n == Behind(text, q)
             a == SubSeq(text, 1, m)
             c == SubSeq(text, q + 1, Len(text))
  <1>1. Len(text) \in Nat /\ l \in Nat
    BY LenProperties
  <1>2. m \in Nat /\ n \in Nat /\ m <= Len(text)
    BY <1>1 DEF Before, Behind
  <1>3. a \in Seq(S) /\ Len(a) = m /\ \A i \in 1 .. m : a[i] = text[i]
    <2> HIDE DEF m
    <2> QED
      BY <1>1, <1>2
  <1>4. c \in Seq(S) /\ Len(c) = n /\ \A i \in 1 .. n : c[i] = text[q + i]
    <2>1. CASE q < Len(text)
      BY <1>1, <2>1 DEF Behind
    <2>2. CASE ~(q < Len(text))
      BY <1>1, <2>2 DEF Behind
    <2> QED
      BY <2>1, <2>2
  <1>5. Spliced(text, p, q, mark) = (a \o mark) \o c
    BY DEF Spliced, Before
  <1> HIDE DEF a, c, m, n
  <1> DEFINE b == a \o mark
  <1>6. /\ b \in Seq(S) /\ Len(b) = m + l
        /\ \A i \in 1 .. m : b[i] = text[i]
        /\ \A i \in 1 .. l : b[m + i] = mark[i]
    BY <1>1, <1>2, <1>3
  <1> HIDE DEF b, l
  <1> DEFINE s == b \o c
             w == m + l
  <1>7. w \in Nat /\ Len(b) = w
    BY <1>1, <1>2, <1>6
  <1> HIDE DEF w
  <1>8. s \in Seq(S) /\ Len(s) = w + n
    BY <1>2, <1>4, <1>6, <1>7, ConcatProperties
  <1>9. /\ \A i \in 1 .. w : s[i] = b[i]
        /\ \A i \in 1 .. n : s[w + i] = c[i]
    <2>1. \A i \in 1 .. Len(b) + Len(c) :
            s[i] = IF i <= Len(b) THEN b[i] ELSE c[i - Len(b)]
      BY <1>4, <1>6, ConcatProperties
    <2>2. \A i \in 1 .. w : i \in 1 .. w + n /\ i <= w
      BY <1>2, <1>7
    <2>3. \A i \in 1 .. n : w + i \in 1 .. w + n /\ ~(w + i <= w) /\ (w + i) - w = i
      BY <1>2, <1>7
    <2> HIDE DEF s
    <2> QED
      BY <1>4, <1>7, <2>1, <2>2, <2>3
  <1> HIDE DEF s
  <1>10. \A i \in 1 .. m : s[i] = text[i]
    BY <1>1, <1>2, <1>6, <1>9 DEF w
  <1>11. \A i \in 1 .. l : s[m + i] = mark[i]
    BY <1>1, <1>2, <1>6, <1>9 DEF w
  <1>12. \A i \in 1 .. n : s[m + l + i] = text[q + i]
    BY <1>4, <1>9 DEF w
  <1>13. Spliced(text, p, q, mark) = s
    BY <1>5 DEF b, s
  <1>14. Splice(s, text, mark, m, l, q, n)
    BY <1>8, <1>10, <1>11, <1>12 DEF Splice, w
  <1> QED
    BY <1>2, <1>8, <1>13, <1>14 DEF l, m, n

(* A text whose characters are of marks or of values of the part, and that   *)
(* has no character of a value twice.                                       *)
Traced(text, kinds) ==
  /\ text \in Seq(Chars)
  /\ \A i \in DOMAIN text : text[i].value \in {0} \cup DOMAIN kinds
  /\ \A i, j \in DOMAIN text : text[i] = text[j] /\ text[i].value # 0 => i = j

LEMMA MarkIsBlank ==
  ASSUME NEW k
  PROVE  \A i \in DOMAIN MarkOf(k) : MarkOf(k)[i].value = 0
  <1> DEFINE n == IF k = "card" THEN 1 ELSE 2
             c == [j \in 1 .. n |-> Char(0, j)]
  <1>1. n \in Nat
    OBVIOUS
  <1> HIDE DEF n
  <1>2. c \in Seq(Chars) /\ Len(c) = n /\ \A j \in 1 .. n : c[j].value = 0
    BY <1>1 DEF Char, Chars
  <1>3. <<Close>> \in Seq(Chars) /\ Close.value = 0
    <2>1. Close \in Chars
      BY DEF Close, Char, Chars
    <2> QED
      BY <2>1 DEF Close, Char
  <1> HIDE DEF c
  <1> DEFINE z == Close
             t == c \o <<z>>
  <1>4. z.value = 0 /\ <<z>> \in Seq(Chars) /\ Len(<<z>>) = 1 /\ <<z>>[1] = z
    BY <1>3
  <1> HIDE DEF z
  <1>5. DOMAIN t = 1 .. n + 1 /\ t[n + 1] = z /\ \A j \in 1 .. n : t[j] = c[j]
    BY <1>1, <1>2, <1>4
  <1> HIDE DEF t
  <1>6. \A i \in DOMAIN t : t[i].value = 0
    BY <1>1, <1>2, <1>4, <1>5
  <1>7. MarkOf(k) = t
    BY DEF MarkOf, c, n, t, z
  <1> QED
    BY <1>6, <1>7

LEMMA SplicedIsTraced ==
  ASSUME NEW text, NEW kinds, Traced(text, kinds), NEW p \in Nat \ {0}, NEW q \in Nat,
         p <= q, NEW k
  PROVE  Traced(Spliced(text, p, q, MarkOf(k)), kinds)
  <1> DEFINE s == Spliced(text, p, q, MarkOf(k))
             m == Before(text, p)
             l == Len(MarkOf(k))
             n == Behind(text, q)
  <1>1. text \in Seq(Chars) /\ Len(text) \in Nat /\ DOMAIN text = 1 .. Len(text)
    BY LenProperties DEF Traced
  <1>2. MarkOf(k) \in Seq(Chars) /\ DOMAIN MarkOf(k) = 1 .. l
    BY MarkIsList, LenProperties
  <1>3. /\ m \in Nat /\ l \in Nat /\ n \in Nat
        /\ s \in Seq(Chars) /\ Len(s) = m + l + n
        /\ \A i \in 1 .. m : s[i] = text[i]
        /\ \A i \in 1 .. l : s[m + i] = MarkOf(k)[i]
        /\ \A i \in 1 .. n : s[m + l + i] = text[q + i]
    <2>1. /\ m \in Nat /\ n \in Nat /\ s \in Seq(Chars)
          /\ Splice(s, text, MarkOf(k), m, l, q, n)
      BY <1>1, <1>2, SplicedAt
    <2>2. l \in Nat
      BY <1>2, LenProperties
    <2> HIDE DEF s, m, l, n
    <2> QED
      BY <2>1, <2>2 DEF Splice
  <1>4. /\ m <= q /\ m <= Len(text)
        /\ \A i \in 1 .. n : q + i \in DOMAIN text
    BY <1>1 DEF Before, Behind
  <1>5. DOMAIN s = 1 .. (m + l + n)
    BY <1>3
  <1> HIDE DEF s, m, l, n
  <1> DEFINE From(i) == IF i <= m THEN i ELSE q + (i - m - l)
  <1>6. ASSUME NEW i \in DOMAIN s
        PROVE  \/ s[i].value = 0
               \/ /\ ~(i \in m + 1 .. m + l)
                  /\ From(i) \in DOMAIN text
                  /\ s[i] = text[From(i)]
    <2>1. CASE i <= m
      BY <1>1, <1>3, <1>4, <1>5, <2>1
    <2>2. CASE i \in m + 1 .. m + l
      <3>1. i - m \in 1 .. l /\ m + (i - m) = i
        BY <1>3, <2>2
      <3>2. s[i] = MarkOf(k)[i - m]
        BY <1>3, <3>1
      <3> QED
        BY <1>2, <3>1, <3>2, MarkIsBlank
    <2>3. CASE i > m + l
      <3>1. i - m - l \in 1 .. n /\ m + l + (i - m - l) = i
        BY <1>3, <1>5, <2>3
      <3>2. s[i] = text[q + (i - m - l)]
        BY <1>3, <3>1
      <3>3. From(i) = q + (i - m - l) /\ ~(i \in m + 1 .. m + l)
        BY <1>3, <1>5, <2>3
      <3>4. q + (i - m - l) \in DOMAIN text
        BY <1>4, <3>1
      <3> HIDE DEF From
      <3> QED
        BY <3>2, <3>3, <3>4
    <2> QED
      BY <1>3, <1>5, <2>1, <2>2, <2>3
  <1>7. ASSUME NEW i \in DOMAIN s, NEW j \in DOMAIN s, s[i] = s[j], s[i].value # 0
        PROVE  i = j
    <2>1. /\ ~(i \in m + 1 .. m + l) /\ From(i) \in DOMAIN text /\ s[i] = text[From(i)]
          /\ ~(j \in m + 1 .. m + l) /\ From(j) \in DOMAIN text /\ s[j] = text[From(j)]
      BY <1>6, <1>7
    <2>2. From(i) = From(j)
      <3> HIDE DEF From
      <3> QED
        BY <1>7, <2>1 DEF Traced
    <2>3. m \in Nat /\ l \in Nat /\ q \in Nat /\ m <= q /\ i \in Nat /\ j \in Nat
      BY <1>3, <1>4, <1>5
    <2>4. (i <= m \/ i > m + l) /\ (j <= m \/ j > m + l)
      BY <2>1, <2>3
    <2>5. CASE i <= m
      BY <2>2, <2>3, <2>4, <2>5
    <2>6. CASE i > m + l
      BY <2>2, <2>3, <2>4, <2>6
    <2> QED
      BY <2>4, <2>5, <2>6
  <1>8. \A i \in DOMAIN s : s[i].value \in {0} \cup DOMAIN kinds
    <2> HIDE DEF From
    <2> QED
      BY <1>6 DEF Traced
  <1> QED
    BY <1>3, <1>7, <1>8 DEF Traced, s
-----------------------------------------------------------------------------
(* What m substitutions add to a result: m entities, all of one kind.       *)
Extended(r, s, k, m) ==
  /\ s \in Results
  /\ Len(s.entities) = Len(r.entities) + m
  /\ \A i \in DOMAIN s.entities :
       IF i <= Len(r.entities) THEN s.entities[i] = r.entities[i]
       ELSE s.entities[i].kind = k

LEMMA OneMoreEntity ==
  ASSUME NEW r \in Results, NEW s, NEW k \in Marks, NEW m \in Nat,
         Extended(r, s, k, m), NEW match \in Spans
  PROVE  Extended(r, Substituted(s, match, k), k, m + 1)
  <1> DEFINE t == Substituted(s, match, k)
             e == [kind |-> k, start |-> match[1]]
  <1>1. s \in Results /\ t \in Results
    BY SubstitutedIsResult DEF Extended
  <1>2. t.entities = Append(s.entities, e)
    BY DEF Substituted
  <1>3. /\ r.entities \in Seq(Entities) /\ Len(r.entities) \in Nat
        /\ s.entities \in Seq(Entities) /\ Len(s.entities) \in Nat
        /\ DOMAIN s.entities = 1 .. Len(s.entities)
    BY <1>1, LenProperties DEF Results
  <1>4. e.kind = k
    OBVIOUS
  <1> HIDE DEF e, t
  <1>5. /\ Len(t.entities) = Len(s.entities) + 1
        /\ DOMAIN t.entities = 1 .. Len(s.entities) + 1
        /\ t.entities[Len(s.entities) + 1] = e
        /\ \A i \in DOMAIN s.entities : t.entities[i] = s.entities[i]
    <2> DEFINE es == s.entities
    <2>1. es \in Seq(Entities) /\ t.entities = Append(es, e)
      BY <1>2, <1>3
    <2> HIDE DEF es
    <2>2. /\ Len(t.entities) = Len(es) + 1
          /\ DOMAIN t.entities = 1 .. Len(es) + 1
          /\ t.entities[Len(es) + 1] = e
          /\ \A i \in DOMAIN es : t.entities[i] = es[i]
      BY <2>1
    <2> QED
      BY <2>2 DEF es
  <1>6. /\ Len(s.entities) = Len(r.entities) + m
        /\ \A i \in DOMAIN s.entities :
             IF i <= Len(r.entities) THEN s.entities[i] = r.entities[i]
             ELSE s.entities[i].kind = k
    BY DEF Extended
  <1>7. ASSUME NEW i \in DOMAIN t.entities
        PROVE  IF i <= Len(r.entities) THEN t.entities[i] = r.entities[i]
               ELSE t.entities[i].kind = k
    <2>1. CASE i \in DOMAIN s.entities
      BY <1>5, <1>6, <2>1
    <2>2. CASE i = Len(s.entities) + 1
      BY <1>3, <1>4, <1>5, <1>6, <2>2
    <2> QED
      BY <1>3, <1>5, <2>1, <2>2
  <1>8. Len(t.entities) = Len(r.entities) + (m + 1)
    <2> DEFINE b == Len(r.entities)
               c == Len(s.entities)
               d == Len(t.entities)
    <2>1. b \in Nat /\ c \in Nat /\ d = c + 1 /\ c = b + m
      BY <1>3, <1>5, <1>6
    <2> HIDE DEF b, c, d
    <2>2. d = b + (m + 1)
      BY <2>1
    <2> QED
      BY <2>2 DEF b, d
  <1> QED
    BY <1>1, <1>7, <1>8 DEF Extended, t

LEMMA InOrderAdds ==
  ASSUME NEW r \in Results, NEW k \in Marks, NEW ms \in Seq(Spans), NEW kinds,
         Traced(r.text, kinds), \A i \in DOMAIN ms : ms[i][1] <= ms[i][2]
  PROVE  /\ Extended(r, InOrder(r, k, ms), k, Len(ms))
         /\ Traced(InOrder(r, k, ms).text, kinds)
  <1> DEFINE n == Len(ms)
  <1>1. PICK a : /\ a[0] = r /\ a[n] = InOrder(r, k, ms)
                 /\ \A i \in 1 .. n : a[i] = Substituted(a[i - 1], ms[i], k)
    BY InOrderSteps
  <1>2. n \in Nat /\ DOMAIN ms = 1 .. n /\ \A i \in 1 .. n : ms[i] \in Spans
    BY LenProperties
  <1> HIDE DEF n
  <1> DEFINE S == {i \in 0 .. n : Extended(r, a[i], k, i) /\ Traced(a[i].text, kinds)}
  <1>3. 0 \in S
    <2>1. r.entities \in Seq(Entities)
      BY DEF Results
    <2>2. Extended(r, r, k, 0)
      BY <2>1 DEF Extended
    <2> QED
      BY <1>1, <1>2, <2>2
  <1>4. ASSUME NEW i \in 1 .. n, i - 1 \in S
        PROVE  i \in S
    <2> DEFINE s == a[i - 1]
               match == ms[i]
    <2>1. Extended(r, s, k, i - 1) /\ Traced(s.text, kinds) /\ a[i] = Substituted(s, match, k)
      BY <1>1, <1>4
    <2>2. /\ match \in Spans /\ match[1] \in Nat \ {0} /\ match[2] \in Nat
          /\ match[1] <= match[2] /\ i - 1 \in Nat /\ i - 1 + 1 = i
      <3>1. match \in Spans /\ i \in DOMAIN ms /\ i - 1 \in Nat /\ i - 1 + 1 = i
        BY <1>2
      <3>2. match[1] <= match[2]
        BY <3>1
      <3> HIDE DEF match
      <3> QED
        BY <3>1, <3>2 DEF Spans
    <2> HIDE DEF s, match
    <2>3. Extended(r, Substituted(s, match, k), k, i)
      BY <2>1, <2>2, OneMoreEntity
    <2>4. Traced(Spliced(s.text, match[1], match[2], MarkOf(k)), kinds)
      BY <2>1, <2>2, SplicedIsTraced
    <2>5. Substituted(s, match, k).text = Spliced(s.text, match[1], match[2], MarkOf(k))
      BY DEF Substituted
    <2> QED
      BY <1>2, <2>1, <2>3, <2>4, <2>5
  <1>5. n \in S
    <2> HIDE DEF S
    <2>1. \A i \in 0 .. n : i \in S
      BY <1>2, <1>3, <1>4, Upward
    <2> QED
      BY <1>2, <2>1
  <1> QED
    BY <1>1, <1>5 DEF n
-----------------------------------------------------------------------------
(* What the entities of a part are, when the values of the kinds K have been *)
(* replaced: each is of the kind of a value, and there are no more of them    *)
(* than values.                                                             *)
Values(kinds, K) == {v \in DOMAIN kinds : kinds[v] \in K}

Tracked(r, kinds, K) ==
  /\ r \in Results
  /\ Traced(r.text, kinds)
  /\ \A i \in DOMAIN r.entities :
       \E v \in Values(kinds, K) : kinds[v] = r.entities[i].kind
  /\ Len(r.entities) <= Cardinality(Values(kinds, K))

LEMMA ValuesAreFinite ==
  ASSUME NEW kinds \in Seq(Kinds), NEW K
  PROVE  IsFiniteSet(Values(kinds, K)) /\ Cardinality(Values(kinds, K)) \in Nat
  <1>1. DOMAIN kinds = 1 .. Len(kinds) /\ Len(kinds) \in Nat
    BY LenProperties
  <1>2. IsFiniteSet(DOMAIN kinds)
    BY <1>1, FS_Interval
  <1>3. Values(kinds, K) \in SUBSET (DOMAIN kinds)
    BY DEF Values
  <1> QED
    BY <1>2, <1>3, FS_Subset, FS_CardinalityType

LEMMA ValuesOfMore ==
  ASSUME NEW kinds \in Seq(Kinds), NEW K, NEW k, k \notin K
  PROVE  Cardinality(Values(kinds, K \cup {k})) =
           Cardinality(Values(kinds, K)) + Cardinality(Values(kinds, {k}))
  <1> DEFINE A == Values(kinds, K)
             B == Values(kinds, {k})
  <1>1. IsFiniteSet(A) /\ IsFiniteSet(B) /\ Cardinality(A) \in Nat /\ Cardinality(B) \in Nat
    BY ValuesAreFinite
  <1>2. A \cup B = Values(kinds, K \cup {k}) /\ A \cap B = {}
    BY DEF Values
  <1> HIDE DEF A, B
  <1>3. Cardinality(A \cup B) = Cardinality(A) + Cardinality(B) - Cardinality(A \cap B)
    BY <1>1, FS_Union
  <1>4. Cardinality(A \cap B) = 0
    BY <1>2, FS_EmptySet
  <1>5. Cardinality(A \cup B) = Cardinality(A) + Cardinality(B)
    BY <1>1, <1>3, <1>4
  <1> QED
    BY <1>2, <1>5 DEF A, B

(* The matches of a kind are of as many values.                             *)
LEMMA MatchesOfValues ==
  ASSUME NEW kinds \in Seq(Kinds), NEW text, Traced(text, kinds), NEW k
  PROVE  LET ms == ValuesOf(text, kinds, k)
         IN  /\ ms \in Seq(Spans)
             /\ \A i \in DOMAIN ms : ms[i][1] <= ms[i][2]
             /\ Len(ms) \in Nat
             /\ Len(ms) <= Cardinality(Values(kinds, {k}))
             /\ Len(ms) # 0 => Values(kinds, {k}) # {}
  <1> DEFINE ends == [p \in DOMAIN text |->
                        {q \in p..Len(text) : IsValue(text, kinds, k, p, q)}]
             ms == Matches(text, ends)
             v == [i \in DOMAIN ms |-> text[ms[i][1]].value]
             T == Values(kinds, {k})
  <1>1. text \in Seq(Chars) /\ DOMAIN text = 1 .. Len(text) /\ Len(text) \in Nat
    BY LenProperties DEF Traced
  <1>2. ValuesOf(text, kinds, k) = ms
    BY DEF ValuesOf
  <1>3. \A p \in DOMAIN text : ends[p] \in SUBSET (p .. Len(text))
    OBVIOUS
  <1>4. \A p \in DOMAIN text : \A q \in ends[p] : p <= q /\ IsValue(text, kinds, k, p, q)
    BY <1>1
  <1> HIDE DEF ends
  <1>5. FoundUpTo(ms, Len(text), ends)
    BY <1>1, <1>3, MatchesAreFound
  <1> HIDE DEF ms
  <1>6. ms \in Seq(Spans) /\ Len(ms) \in Nat /\ DOMAIN ms = 1 .. Len(ms)
    BY <1>5, LenProperties DEF FoundUpTo
  <1>7. \A i \in DOMAIN ms : /\ ms[i][1] \in DOMAIN text
                             /\ ms[i][1] <= ms[i][2]
                             /\ IsValue(text, kinds, k, ms[i][1], ms[i][2])
    BY <1>1, <1>4, <1>5 DEF FoundUpTo
  <1>8. \A i \in DOMAIN ms : /\ v[i] \in T
                             /\ v[i] # 0
                             /\ text[ms[i][1]] = [value |-> v[i], at |-> Keyword(k) + 1]
    <2>1. ASSUME NEW i \in DOMAIN ms
          PROVE  /\ v[i] \in T /\ v[i] # 0
                 /\ text[ms[i][1]] = [value |-> v[i], at |-> Keyword(k) + 1]
      <3> DEFINE p == ms[i][1]
      <3>1. p \in DOMAIN text /\ IsValue(text, kinds, k, p, ms[i][2])
        BY <1>7
      <3> HIDE DEF p
      <3>2. /\ text[p].value # 0 /\ kinds[text[p].value] = k
            /\ text[p].at = Keyword(k) + 1
        BY <3>1 DEF IsValue
      <3>3. text[p].value \in DOMAIN kinds /\ text[p] \in Chars
        BY <1>1, <3>1, <3>2 DEF Traced
      <3>4. text[p] = [value |-> text[p].value, at |-> Keyword(k) + 1]
        BY <3>2, <3>3 DEF Chars
      <3>5. v[i] = text[p].value
        BY DEF p
      <3> QED
        BY <3>2, <3>3, <3>4, <3>5 DEF Values, p
    <2> QED
      BY <2>1
  <1>9. ASSUME NEW i \in DOMAIN ms, NEW j \in DOMAIN ms, v[i] = v[j]
        PROVE  i = j
    <2>1. text[ms[i][1]] = text[ms[j][1]] /\ text[ms[i][1]].value # 0
      BY <1>8, <1>9
    <2>2. ms[i][1] = ms[j][1]
      BY <1>7, <2>1 DEF Traced
    <2>3. /\ ms[i][1] \in Nat /\ ms[i][2] \in Nat /\ ms[j][1] \in Nat /\ ms[j][2] \in Nat
          /\ ms[i][1] <= ms[i][2] /\ ms[j][1] <= ms[j][2]
      BY <1>6, <1>7 DEF Spans
    <2>4. /\ i < j => ms[i][2] < ms[j][1]
          /\ j < i => ms[j][2] < ms[i][1]
      BY <1>5 DEF FoundUpTo
    <2> QED
      BY <1>6, <2>2, <2>3, <2>4
  <1>10. v \in Injection(1 .. Len(ms), T)
    <2>1. v \in [1 .. Len(ms) -> T]
      BY <1>6, <1>8
    <2> HIDE DEF v
    <2> QED
      BY <1>6, <1>9, <2>1 DEF Injection, IsInjective
  <1>11. IsFiniteSet(T)
    BY ValuesAreFinite
  <1>12. Len(ms) # 0 => T # {}
    <2>1. Len(ms) # 0 => 1 \in DOMAIN ms
      BY <1>6
    <2> HIDE DEF T, v
    <2> QED
      BY <1>8, <2>1
  <1> HIDE DEF v, T
  <1>13. Cardinality(1 .. Len(ms)) <= Cardinality(T)
    BY <1>10, <1>11, FS_Injection
  <1>14. Cardinality(1 .. Len(ms)) = Len(ms)
    <2> DEFINE n == Len(ms)
    <2>1. n \in Nat
      BY <1>6
    <2> HIDE DEF n
    <2>2. Cardinality(1 .. n) = n
      BY <2>1, FS_Interval
    <2> QED
      BY <2>2 DEF n
  <1> QED
    BY <1>2, <1>6, <1>7, <1>12, <1>13, <1>14 DEF T

LEMMA ReversedIsList ==
  ASSUME NEW ms \in Seq(Spans), \A i \in DOMAIN ms : ms[i][1] <= ms[i][2]
  PROVE  /\ Reverse(ms) \in Seq(Spans) /\ Len(Reverse(ms)) = Len(ms)
         /\ \A i \in DOMAIN Reverse(ms) : Reverse(ms)[i][1] <= Reverse(ms)[i][2]
  <1> DEFINE n == Len(ms)
             rs == [i \in 1 .. n |-> ms[(n - i) + 1]]
  <1>1. n \in Nat /\ DOMAIN ms = 1 .. n /\ \A i \in 1 .. n : ms[i] \in Spans
    BY LenProperties
  <1>2. Reverse(ms) = rs
    BY DEF Reverse
  <1> HIDE DEF n
  <1>3. \A i \in 1 .. n : (n - i) + 1 \in 1 .. n
    BY <1>1
  <1>4. \A i \in 1 .. n : rs[i] \in Spans /\ rs[i][1] <= rs[i][2]
    BY <1>1, <1>3
  <1>5. rs \in Seq(Spans) /\ Len(rs) = n /\ DOMAIN rs = 1 .. n
    BY <1>1, <1>4
  <1> HIDE DEF rs
  <1> QED
    BY <1>2, <1>4, <1>5 DEF n

(* A pass for one kind of values, in either direction.                      *)
LEMMA PassTracks ==
  ASSUME NEW kinds \in Seq(Kinds), NEW r, NEW K, Tracked(r, kinds, K),
         NEW k \in Marks, k \notin K
  PROVE  /\ Tracked(Passed(r, kinds, k), kinds, K \cup {k})
         /\ Tracked(Supplemented(r, kinds, k), kinds, K \cup {k})
  <1> DEFINE ms == ValuesOf(r.text, kinds, k)
             T == Values(kinds, {k})
             U == Values(kinds, K \cup {k})
  <1>1. r \in Results /\ Traced(r.text, kinds)
    BY DEF Tracked
  <1>2. /\ ms \in Seq(Spans)
        /\ \A i \in DOMAIN ms : ms[i][1] <= ms[i][2]
        /\ Len(ms) \in Nat
        /\ Len(ms) <= Cardinality(T)
        /\ Len(ms) # 0 => T # {}
    BY <1>1, MatchesOfValues
  <1> HIDE DEF ms
  <1>3. ASSUME NEW xs \in Seq(Spans), Len(xs) = Len(ms),
               \A i \in DOMAIN xs : xs[i][1] <= xs[i][2]
        PROVE  Tracked(InOrder(r, k, xs), kinds, K \cup {k})
    <2> DEFINE s == InOrder(r, k, xs)
               b == Len(r.entities)
               m == Len(ms)
    <2>1. Extended(r, s, k, m) /\ Traced(s.text, kinds)
      BY <1>1, <1>3, InOrderAdds
    <2> HIDE DEF s
    <2>2. b \in Nat /\ DOMAIN r.entities = 1 .. b
      BY <1>1, LenProperties DEF Results
    <2>3. s \in Results /\ Len(s.entities) = b + m /\ DOMAIN s.entities = 1 .. b + m
      BY <2>1, LenProperties DEF Extended, Results
    <2>4. b <= Cardinality(Values(kinds, K))
      BY DEF Tracked
    <2> HIDE DEF b, m
    <2>5. b + m <= Cardinality(U)
      <3>1. /\ Cardinality(U) = Cardinality(Values(kinds, K)) + Cardinality(T)
            /\ Cardinality(Values(kinds, K)) \in Nat /\ Cardinality(T) \in Nat
        BY ValuesOfMore, ValuesAreFinite
      <3> HIDE DEF T, U
      <3> QED
        BY <1>2, <2>2, <2>4, <3>1 DEF m
    <2>6. ASSUME NEW i \in DOMAIN s.entities
          PROVE  \E v \in U : kinds[v] = s.entities[i].kind
      <3>1. CASE i <= b
        <4>1. i \in DOMAIN r.entities /\ s.entities[i] = r.entities[i]
          BY <2>1, <2>2, <2>3, <3>1 DEF Extended, b
        <4>2. \E v \in Values(kinds, K) : kinds[v] = r.entities[i].kind
          BY <4>1 DEF Tracked
        <4> QED
          BY <4>1, <4>2 DEF Values
      <3>2. CASE ~(i <= b)
        <4>1. s.entities[i].kind = k
          BY <2>1, <3>2 DEF Extended, b
        <4>2. m # 0
          BY <1>2, <2>2, <2>3, <3>2 DEF m
        <4>3. T # {}
          <5> HIDE DEF T
          <5> QED
            BY <1>2, <4>2 DEF m
        <4> QED
          BY <4>1, <4>3 DEF Values
      <3> QED
        BY <3>1, <3>2
    <2> HIDE DEF U
    <2>7. Len(s.entities) <= Cardinality(U)
      BY <2>3, <2>5
    <2> QED
      BY <2>1, <2>3, <2>6, <2>7 DEF Tracked, s, U
  <1>4. Tracked(Supplemented(r, kinds, k), kinds, K \cup {k})
    BY <1>2, <1>3 DEF Supplemented, ms
  <1>5. Tracked(Passed(r, kinds, k), kinds, K \cup {k})
    <2> DEFINE rs == Reverse(ms)
    <2>1. rs \in Seq(Spans) /\ Len(rs) = Len(ms) /\ \A i \in DOMAIN rs : rs[i][1] <= rs[i][2]
      BY <1>2, ReversedIsList
    <2>2. Passed(r, kinds, k) = InOrder(r, k, rs)
      BY DEF Passed, FromTheRight, InOrder, ms
    <2> HIDE DEF rs
    <2> QED
      BY <1>3, <2>1, <2>2
  <1> QED
    BY <1>4, <1>5

(* Where nothing begins there is no match, and a pass changes nothing.      *)
LEMMA NothingFound ==
  ASSUME NEW r \in Results, NEW k \in Marks, NEW ends,
         \A p \in DOMAIN r.text : ends[p] = {}
  PROVE  FromTheRight(r, k, Matches(r.text, ends)) = r
  <1> DEFINE text == r.text
             ms == Matches(text, ends)
             rs == Reverse(ms)
  <1>1. text \in Seq(Chars) /\ DOMAIN text = 1 .. Len(text)
    BY LenProperties DEF Results
  <1>2. \A p \in DOMAIN text : ends[p] \in SUBSET (p .. Len(text)) /\ ends[p] = {}
    OBVIOUS
  <1> HIDE DEF text
  <1>3. FoundUpTo(ms, Len(text), ends)
    BY <1>1, <1>2, MatchesAreFound
  <1> HIDE DEF ms
  <1>4. ms \in Seq(Spans) /\ Len(ms) \in Nat /\ DOMAIN ms = 1 .. Len(ms)
    BY <1>3, LenProperties DEF FoundUpTo
  <1>5. \A i \in DOMAIN ms : FALSE
    BY <1>1, <1>2, <1>3 DEF FoundUpTo
  <1>6. Len(ms) = 0
    <2>1. Len(ms) # 0 => 1 \in DOMAIN ms
      BY <1>4
    <2> QED
      BY <1>5, <2>1
  <1>7. rs \in Seq(Spans) /\ Len(rs) = 0
    BY <1>4, <1>5, <1>6, ReversedIsList
  <1>8. FromTheRight(r, k, ms) = InOrder(r, k, rs)
    BY DEF FromTheRight, InOrder
  <1> HIDE DEF rs
  <1>9. InOrder(r, k, rs) = r
    <2>1. PICK a : /\ a[0] = r /\ a[Len(rs)] = InOrder(r, k, rs)
                   /\ \A i \in 1 .. Len(rs) : a[i] = Substituted(a[i - 1], rs[i], k)
      BY <1>7, InOrderSteps
    <2> QED
      BY <1>7, <2>1
  <1> QED
    BY <1>8, <1>9 DEF ms, text

(* The text of a part has each character of a value once.                   *)
LEMMA TextIsTraced ==
  ASSUME NEW kinds \in Seq(Kinds)
  PROVE  Traced(Text(kinds), kinds)
  <1> DEFINE n == Len(kinds)
             value(i) == Append([j \in 1..Width(kinds[i]) |-> Char(i, j)], Blank)
             values == [i \in DOMAIN kinds |-> value(i)]
             Upto(t, k) ==
               /\ \A i \in DOMAIN t : t[i].value \in 0 .. k
               /\ \A i, j \in DOMAIN t : t[i] = t[j] /\ t[i].value # 0 => i = j
  <1>1. n \in Nat /\ DOMAIN kinds = 1 .. n
    BY LenProperties
  <1>2. ASSUME NEW i \in 1 .. n
        PROVE  /\ value(i) \in Seq(Chars)
               /\ \A j \in DOMAIN value(i) : value(i)[j].value \in {0, i}
               /\ \A j, k \in DOMAIN value(i) :
                    value(i)[j] = value(i)[k] /\ value(i)[j].value # 0 => j = k
    <2> DEFINE w == Width(kinds[i])
               c == [j \in 1 .. w |-> Char(i, j)]
               b == Blank
               t == Append(c, b)
    <2>1. w \in Nat
      BY DEF Width
    <2> HIDE DEF w
    <2>2. c \in Seq(Chars) /\ Len(c) = w /\ DOMAIN c = 1 .. w
      BY <1>1, <2>1 DEF Char, Chars
    <2>3. \A j \in 1 .. w : c[j].value = i /\ c[j].at = j
      BY DEF Char
    <2>4. b \in Chars /\ b.value = 0
      BY DEF Blank, Char, Chars
    <2> HIDE DEF c, b
    <2>5. /\ t \in Seq(Chars) /\ DOMAIN t = 1 .. w + 1
          /\ t[w + 1] = b /\ \A j \in 1 .. w : t[j] = c[j]
      BY <2>1, <2>2, <2>4
    <2> HIDE DEF t
    <2>6. \A j \in DOMAIN t : t[j].value # 0 => j \in 1 .. w /\ t[j].value = i /\ t[j].at = j
      BY <2>1, <2>3, <2>4, <2>5
    <2>7. \A j \in DOMAIN t : t[j].value \in {0, i}
      BY <2>6
    <2>8. \A j, k \in DOMAIN t : t[j] = t[k] /\ t[j].value # 0 => j = k
      BY <2>6
    <2>9. value(i) = t
      BY DEF t, c, b, w
    <2> HIDE DEF value
    <2> QED
      BY <2>5, <2>7, <2>8, <2>9
  <1>3. Text(kinds) = FlattenSeq(values)
    BY DEF Text
  <1> HIDE DEF value
  <1>4. values \in Seq(Seq(Chars)) /\ Len(values) = n
    BY <1>1, <1>2
  <1>5. \A i \in 1 .. n : values[i] = value(i)
    BY <1>1
  <1> HIDE DEF values, n
  <1>6. PICK a : /\ a \in [0 .. n -> Seq(Chars)]
                 /\ a[0] = <<>> /\ a[n] = FlattenSeq(values)
                 /\ \A i \in 1 .. n : a[i] = a[i - 1] \o values[i]
    <2>1. PICK a : /\ a \in [0 .. Len(values) -> Seq(Chars)]
                   /\ a[0] = <<>> /\ a[Len(values)] = FlattenSeq(values)
                   /\ \A i \in 1 .. Len(values) : a[i] = a[i - 1] \o values[i]
      BY <1>4, FlattenSteps
    <2> QED
      BY <1>4, <2>1
  <1> DEFINE U == {i \in 0 .. n : Upto(a[i], i)}
  <1>7. 0 \in U
    BY <1>1, <1>6
  <1>8. ASSUME NEW k \in 1 .. n, k - 1 \in U
        PROVE  k \in U
    <2> DEFINE t == a[k - 1]
               c == value(k)
               m == Len(t)
               s == t \o c
    <2>1. k \in 0 .. n /\ k - 1 \in 0 .. n /\ k \in Nat \ {0}
      BY <1>1
    <2>2. t \in Seq(Chars) /\ c \in Seq(Chars) /\ Upto(t, k - 1) /\ a[k] = s
      BY <1>2, <1>5, <1>6, <1>8, <2>1
    <2>3. /\ \A j \in DOMAIN c : c[j].value \in {0, k}
          /\ \A i, j \in DOMAIN c : c[i] = c[j] /\ c[i].value # 0 => i = j
      BY <1>2
    <2> HIDE DEF t, c
    <2>4. /\ m \in Nat /\ DOMAIN t = 1 .. m /\ Len(c) \in Nat /\ DOMAIN c = 1 .. Len(c)
          /\ DOMAIN s = 1 .. m + Len(c)
          /\ \A i \in DOMAIN s : s[i] = IF i <= m THEN t[i] ELSE c[i - m]
      BY <2>2, ConcatProperties, LenProperties
    <2> HIDE DEF s, m
    <2>5. ASSUME NEW i \in DOMAIN s
          PROVE  \/ i \in DOMAIN t /\ s[i] = t[i] /\ s[i].value \in 0 .. k - 1
                 \/ i - m \in DOMAIN c /\ s[i] = c[i - m] /\ s[i].value \in {0, k}
      <3>1. CASE i <= m
        <4>1. i \in DOMAIN t /\ s[i] = t[i]
          BY <2>4, <3>1
        <4> QED
          BY <2>2, <4>1
      <3>2. CASE ~(i <= m)
        <4>1. i - m \in DOMAIN c /\ s[i] = c[i - m]
          BY <2>4, <3>2
        <4> QED
          BY <2>3, <4>1
      <3> QED
        BY <3>1, <3>2
    <2>6. \A i \in DOMAIN s : s[i].value \in 0 .. k
      <3>1. \A x \in (0 .. k - 1) \cup {0, k} : x \in 0 .. k
        BY <2>1
      <3> QED
        BY <2>5, <3>1
    <2>7. ASSUME NEW i \in DOMAIN s, NEW j \in DOMAIN s, s[i] = s[j], s[i].value # 0
          PROVE  i = j
      <3>1. CASE i \in DOMAIN t /\ j \in DOMAIN t /\ s[i] = t[i] /\ s[j] = t[j]
        BY <2>2, <2>7, <3>1
      <3>2. CASE i - m \in DOMAIN c /\ j - m \in DOMAIN c /\ s[i] = c[i - m] /\ s[j] = c[j - m]
        <4>1. i - m = j - m
          BY <2>3, <2>7, <3>2
        <4> QED
          BY <2>4, <4>1
      <3>3. CASE s[i].value \in 0 .. k - 1 /\ s[j].value \in {0, k}
        BY <2>1, <2>7, <3>3
      <3>4. CASE s[j].value \in 0 .. k - 1 /\ s[i].value \in {0, k}
        BY <2>1, <2>7, <3>4
      <3> QED
        BY <2>5, <3>1, <3>2, <3>3, <3>4
    <2>8. Upto(s, k)
      BY <2>6, <2>7
    <2> HIDE DEF Upto
    <2> QED
      BY <2>1, <2>2, <2>8
  <1>9. Upto(a[n], n)
    <2> HIDE DEF U
    <2>1. \A i \in 0 .. n : i \in U
      BY <1>1, <1>7, <1>8, Upward
    <2>2. n \in 0 .. n
      BY <1>1
    <2> QED
      BY <2>1, <2>2 DEF U
  <1>10. \A x \in 0 .. n : x \in {0} \cup DOMAIN kinds
    BY <1>1
  <1>11. Text(kinds) \in Seq(Chars)
    BY TextIsList
  <1> QED
    BY <1>3, <1>6, <1>9, <1>10, <1>11 DEF Traced

(* A result without entities behind which no position is kept.              *)
LEMMA NoPositionTracks ==
  ASSUME NEW r, NEW kinds, NEW K, Tracked(r, kinds, K), NEW n
  PROVE  Tracked(NoPosition(r, n), kinds, K)
  <1> DEFINE es == r.entities
             fs == [i \in DOMAIN es |-> IF i <= n THEN es[i] ELSE [es[i] EXCEPT !.start = -1]]
             s == NoPosition(r, n)
  <1>1. r \in Results /\ es \in Seq(Entities) /\ Len(es) \in Nat /\ DOMAIN es = 1 .. Len(es)
    BY LenProperties DEF Tracked, Results
  <1>2. r = [text |-> r.text, entities |-> es]
    BY <1>1 DEF Results
  <1>3. s.text = r.text /\ s.entities = fs
    BY <1>2 DEF NoPosition
  <1>4. s \in Results
    BY <1>1, NoPositionIsResult
  <1> HIDE DEF s, es
  <1>5. \A i \in DOMAIN es : fs[i].kind = es[i].kind
    <2>1. ASSUME NEW i \in DOMAIN es
          PROVE  fs[i].kind = es[i].kind
      <3>1. es[i] \in Entities
        BY <1>1
      <3>2. [es[i] EXCEPT !.start = -1].kind = es[i].kind
        BY <3>1 DEF Entities
      <3> QED
        BY <3>2
    <2> QED
      BY <2>1
  <1>6. DOMAIN fs = DOMAIN es
    OBVIOUS
  <1> HIDE DEF fs
  <1>7. Len(fs) = Len(es)
    BY <1>1, <1>3, <1>4, <1>6, LenProperties DEF Results
  <1> QED
    BY <1>3, <1>4, <1>5, <1>6, <1>7 DEF Tracked, s, es

(* What is found in a part without words: no pass over names finds any.     *)
Replaced == {"email", "date", "ssn", "bareSsn", "card", "month"}

LEMMA RedactionTracks ==
  ASSUME NEW kinds \in Seq(Kinds), "word" \notin Range(kinds), NEW names
  PROVE  Tracked(RedactPii(kinds, names), kinds, Replaced)
  <1> DEFINE start == [text |-> Text(kinds), entities |-> <<>>]
             none(text) == \A p \in DOMAIN text : ~IsWord(text, kinds, p)
  <1>1. ASSUME NEW text, Traced(text, kinds), NEW p
        PROVE  ~IsWord(text, kinds, p)
    <2>1. p \in DOMAIN text /\ text[p].value # 0 => text[p].value \in DOMAIN kinds
      BY <1>1 DEF Traced
    <2>2. \A v \in DOMAIN kinds : kinds[v] # "word"
      BY DEF Range
    <2> QED
      BY <2>1, <2>2 DEF IsWord
  <1>2. Tracked(start, kinds, {})
    <2>1. start \in Results
      BY TextIsList DEF Results
    <2>2. Traced(start.text, kinds)
      BY TextIsTraced
    <2>3. Cardinality(Values(kinds, {})) \in Nat /\ Len(start.entities) = 0
          /\ DOMAIN start.entities = {}
      BY ValuesAreFinite
    <2> HIDE DEF start
    <2>4. Len(start.entities) <= Cardinality(Values(kinds, {}))
      BY <2>3
    <2> QED
      BY <2>1, <2>2, <2>3, <2>4 DEF Tracked
  <1> HIDE DEF start
  <1> DEFINE e == Passed(start, kinds, "email")
             d == Passed(e, kinds, "date")
             s == Passed(d, kinds, "ssn")
             b == Supplemented(s, kinds, "bareSsn")
             c == Supplemented(b, kinds, "card")
             m == Passed(c, kinds, "month")
             K1 == {} \cup {"email"}
             K2 == K1 \cup {"date"}
             K3 == K2 \cup {"ssn"}
             K4 == K3 \cup {"bareSsn"}
             K5 == K4 \cup {"card"}
             K6 == K5 \cup {"month"}
  <1>3. K6 = Replaced
    BY DEF Replaced
  <1>4. /\ "email" \notin {} /\ "date" \notin K1 /\ "ssn" \notin K2
        /\ "bareSsn" \notin K3 /\ "card" \notin K4 /\ "month" \notin K5
    OBVIOUS
  <1>5. {"email", "date", "ssn", "bareSsn", "card", "month", "orphan", "bridge", "name"}
          \subseteq Marks
    BY DEF Marks
  <1> HIDE DEF K1, K2, K3, K4, K5, K6
  <1>6. Tracked(e, kinds, K1)
    BY <1>2, <1>4, <1>5, PassTracks DEF K1
  <1> HIDE DEF e
  <1>7. Tracked(d, kinds, K2)
    BY <1>4, <1>5, <1>6, PassTracks DEF K2
  <1> HIDE DEF d
  <1>8. Tracked(s, kinds, K3)
    BY <1>4, <1>5, <1>7, PassTracks DEF K3
  <1> HIDE DEF s
  <1>9. Tracked(b, kinds, K4)
    BY <1>4, <1>5, <1>8, PassTracks DEF K4
  <1> HIDE DEF b
  <1>10. Tracked(c, kinds, K5)
    BY <1>4, <1>5, <1>9, PassTracks DEF K5
  <1> HIDE DEF c
  <1>11. Tracked(m, kinds, K6)
    BY <1>4, <1>5, <1>10, PassTracks DEF K6
  <1>12. PatternPass(start, kinds) = s
    <2> DEFINE ends == [p \in DOMAIN s.text |->
                          {q \in p..Len(s.text) : IsOrphan(s.text, kinds, p, q)}]
    <2>1. Patterned(start, kinds) = s
      <3>1. start \in Results
        BY <1>2 DEF Tracked
      <3> QED
        BY <3>1, PatternedIs DEF e, d, s
    <2>2. s \in Results /\ Traced(s.text, kinds)
      BY <1>8 DEF Tracked
    <2>3. \A p \in DOMAIN s.text : ends[p] = {}
      BY <1>1, <2>2 DEF IsOrphan
    <2>4. PatternPass(start, kinds) = FromTheRight(s, "orphan", Matches(s.text, ends))
      BY <2>1 DEF PatternPass, Patterned
    <2> HIDE DEF ends
    <2> QED
      BY <1>5, <2>2, <2>3, <2>4, NothingFound
  <1>13. SupplementPass(s, kinds) = c
    <2>1. s \in Results
      BY <1>8 DEF Tracked
    <2> QED
      BY <2>1, SupplementedIs DEF b, c
  <1>14. PostPass(c, kinds, names) = NoPosition(m, Len(c.entities))
    <2> DEFINE over == [p \in DOMAIN c.text |->
                          {q \in p..Len(c.text) : IsBridge(c.text, kinds, p, q)}]
               bridged == FromTheRight(c, "bridge", Matches(c.text, over))
               text == bridged.text
               pairs == [p \in DOMAIN text |->
                           {q \in p..Len(text) : IsName(text, kinds, p, q)}]
               named == IF ~names THEN bridged
                        ELSE FromTheRight(bridged, "name", Matches(text, pairs))
    <2>1. PostPass(c, kinds, names) =
            NoPosition(FromTheRight(named, "month", ValuesOf(named.text, kinds, "month")),
                       Len(c.entities))
      BY DEF PostPass
    <2>2. c \in Results /\ Traced(c.text, kinds)
      BY <1>10 DEF Tracked
    <2>3. bridged = c
      <3>1. \A p \in DOMAIN c.text : over[p] = {}
        BY <1>1, <2>2 DEF IsBridge
      <3> HIDE DEF over
      <3> QED
        BY <1>5, <2>2, <3>1, NothingFound
    <2> HIDE DEF bridged
    <2>4. named = c
      <3> DEFINE found == [p \in DOMAIN c.text |->
                             {q \in p..Len(c.text) : IsName(c.text, kinds, p, q)}]
      <3>1. \A p \in DOMAIN c.text : found[p] = {}
        <4>1. ASSUME NEW p \in DOMAIN c.text, NEW q \in p..Len(c.text),
                     IsName(c.text, kinds, p, q)
              PROVE  FALSE
          <5>1. p \in Nat /\ q \in Nat
            BY <2>2, LenProperties DEF Traced
          <5>2. p \in p .. q /\ (p - p) % 2 = 0
            BY <5>1
          <5>3. IsWord(c.text, kinds, p)
            BY <4>1, <5>2 DEF IsName
          <5> QED
            BY <1>1, <2>2, <5>3
        <4> QED
          BY <4>1
      <3> HIDE DEF found
      <3>2. FromTheRight(c, "name", Matches(c.text, found)) = c
        BY <1>5, <2>2, <3>1, NothingFound
      <3> QED
        BY <2>3, <3>2 DEF found
    <2> HIDE DEF named
    <2> QED
      BY <2>1, <2>4 DEF m, Passed
  <1>15. RedactPii(kinds, names) = NoPosition(m, Len(c.entities))
    BY <1>12, <1>13, <1>14 DEF RedactPii, start
  <1> HIDE DEF m
  <1> QED
    BY <1>3, <1>11, <1>15, NoPositionTracks
-----------------------------------------------------------------------------
(* The values of the first n parts of a document.                           *)
FoundIn(doc, n) == {f \in Found(doc) : f[1] <= n}

LEMMA FoundIsPairs ==
  ASSUME NEW doc \in Documents
  PROVE  Found(doc) = {f \in (1 .. Len(doc.parts)) \X Nat :
                         Walked(doc.parts[f[1]]) /\ f[2] \in Sought(doc.parts[f[1]].kinds)}
  <1> DEFINE n == Len(doc.parts)
             Of(i) == Sought(doc.parts[i].kinds)
             F == {f \in (1 .. n) \X Nat : Walked(doc.parts[f[1]]) /\ f[2] \in Of(f[1])}
  <1>1. doc.parts \in Seq([place : STRING, kinds : Seq(Kinds)])
    BY DEF Documents
  <1>2. n \in Nat /\ DOMAIN doc.parts = 1 .. n
    BY <1>1, LenProperties
  <1>3. ASSUME NEW i \in 1 .. n
        PROVE  Of(i) \subseteq Nat
    <2> DEFINE kinds == doc.parts[i].kinds
    <2>1. doc.parts[i] \in [place : STRING, kinds : Seq(Kinds)]
      BY <1>1, <1>2, ElementOfSeq
    <2>2. kinds \in Seq(Kinds)
      BY <2>1
    <2> HIDE DEF kinds
    <2>3. DOMAIN kinds \subseteq Nat
      BY <2>2, LenProperties
    <2>4. Of(i) = Sought(kinds)
      BY DEF kinds
    <2> HIDE DEF Of
    <2> QED
      BY <2>3, <2>4 DEF Sought
  <1>4. Found(doc) = UNION {{i} \X Of(i) : i \in {j \in 1 .. n : Walked(doc.parts[j])}}
    BY <1>2 DEF Found
  <1> HIDE DEF Of, n
  <1>5. ASSUME NEW f \in Found(doc)
        PROVE  f \in F
    <2>1. PICK i \in 1 .. n : Walked(doc.parts[i]) /\ f \in {i} \X Of(i)
      BY <1>4
    <2>2. f = <<f[1], f[2]>> /\ f[1] = i /\ f[2] \in Of(i) /\ f[2] \in Nat
      BY <1>3, <2>1
    <2> QED
      BY <2>1, <2>2
  <1>6. ASSUME NEW f \in F
        PROVE  f \in Found(doc)
    <2>1. f \in {f[1]} \X Of(f[1]) /\ f[1] \in {j \in 1 .. n : Walked(doc.parts[j])}
      OBVIOUS
    <2> QED
      BY <1>4, <2>1
  <1> HIDE DEF F
  <1>7. Found(doc) = F
    BY <1>5, <1>6
  <1> QED
    BY <1>7 DEF F, Of, n

(* One part more.                                                           *)
LEMMA FoundInMore ==
  ASSUME NEW doc \in Documents, NEW n \in 1 .. Len(doc.parts), IsFiniteSet(FoundIn(doc, n - 1))
  PROVE  LET T == IF Walked(doc.parts[n]) THEN Sought(doc.parts[n].kinds) ELSE {}
         IN  /\ IsFiniteSet(FoundIn(doc, n))
             /\ Cardinality(FoundIn(doc, n)) =
                  Cardinality(FoundIn(doc, n - 1)) + Cardinality(T)
             /\ \A v \in T : <<n, v>> \in FoundIn(doc, n)
  <1> DEFINE T == IF Walked(doc.parts[n]) THEN Sought(doc.parts[n].kinds) ELSE {}
             A == FoundIn(doc, n - 1)
             B == FoundIn(doc, n)
             C == {<<n, v>> : v \in T}
             g == [v \in T |-> <<n, v>>]
             N == Len(doc.parts)
  <1>1. doc.parts \in Seq([place : STRING, kinds : Seq(Kinds)])
    BY DEF Documents
  <1>2. N \in Nat /\ DOMAIN doc.parts = 1 .. N /\ n \in 1 .. N
    BY <1>1, LenProperties
  <1>3. doc.parts[n].kinds \in Seq(Kinds)
    <2>1. doc.parts[n] \in [place : STRING, kinds : Seq(Kinds)]
      BY <1>1, <1>2, ElementOfSeq
    <2> QED
      BY <2>1
  <1>4. IsFiniteSet(T) /\ T \subseteq Nat
    <2> DEFINE kinds == doc.parts[n].kinds
    <2>1. kinds \in Seq(Kinds)
      BY <1>3
    <2>2. T \subseteq Sought(kinds)
      OBVIOUS
    <2> HIDE DEF kinds
    <2>3. DOMAIN kinds = 1 .. Len(kinds) /\ Len(kinds) \in Nat
      BY <2>1, LenProperties
    <2>4. IsFiniteSet(DOMAIN kinds)
      BY <2>3, FS_Interval
    <2>5. T \in SUBSET (DOMAIN kinds)
      BY <2>2 DEF Sought
    <2> HIDE DEF T
    <2> QED
      BY <2>3, <2>4, <2>5, FS_Subset
  <1>5. Found(doc) = {f \in (1 .. N) \X Nat :
                         Walked(doc.parts[f[1]]) /\ f[2] \in Sought(doc.parts[f[1]].kinds)}
    BY FoundIsPairs
  <1>6. \A v \in T : <<n, v>> \in Found(doc) /\ <<n, v>>[1] = n
    BY <1>2, <1>4, <1>5
  <1>7. \A f \in Found(doc) : /\ f[1] \in 1 .. N
                              /\ f[1] = n => f[2] \in T /\ f = <<n, f[2]>>
    BY <1>5
  <1> HIDE DEF T, N
  <1>8. B = A \cup C
    <2>1. ASSUME NEW f \in B
          PROVE  f \in A \cup C
      <3>1. f \in Found(doc) /\ f[1] <= n /\ f[1] \in 1 .. N
        BY <1>7 DEF FoundIn
      <3>2. f[1] = n \/ f[1] <= n - 1
        BY <1>2, <3>1
      <3> QED
        BY <1>7, <3>1, <3>2 DEF FoundIn
    <2>2. ASSUME NEW f \in A \cup C
          PROVE  f \in B
      <3>1. f \in Found(doc) /\ f[1] \in 1 .. N
        BY <1>6, <1>7 DEF FoundIn
      <3>2. f[1] <= n
        <4>1. f \in A => f[1] <= n - 1
          BY DEF FoundIn
        <4>2. f \in C => f[1] = n
          OBVIOUS
        <4> QED
          BY <1>2, <3>1, <4>1, <4>2
      <3> QED
        BY <3>1, <3>2 DEF FoundIn
    <2> HIDE DEF A, B, C
    <2> QED
      BY <2>1, <2>2
  <1>9. A \cap C = {}
    <2>1. ASSUME NEW f \in A, f \in C
          PROVE  FALSE
      <3>1. f[1] <= n - 1 /\ f[1] = n
        BY <2>1 DEF FoundIn
      <3> QED
        BY <1>2, <3>1
    <2> QED
      BY <2>1
  <1>10. g \in Bijection(T, C)
    <2>1. g \in [T -> C] /\ \A x \in C : \E v \in T : g[v] = x
      OBVIOUS
    <2>2. \A u, v \in T : g[u] = g[v] => u = v
      OBVIOUS
    <2> QED
      BY <2>1, <2>2 DEF Bijection, Injection, Surjection, IsInjective
  <1>11. IsFiniteSet(C) /\ Cardinality(C) = Cardinality(T)
    BY <1>4, <1>10, FS_Bijection DEF ExistsBijection
  <1>12. \A v \in T : <<n, v>> \in B
    BY <1>8
  <1> HIDE DEF C, g, B
  <1>13. IsFiniteSet(A)
    OBVIOUS
  <1> HIDE DEF A
  <1>14. /\ IsFiniteSet(A \cup C)
         /\ Cardinality(A \cup C) = Cardinality(A) + Cardinality(C) - Cardinality(A \cap C)
    BY <1>11, <1>13, FS_Union
  <1>15. Cardinality(A \cap C) = 0 /\ Cardinality(A) \in Nat /\ Cardinality(C) \in Nat
    BY <1>9, <1>11, <1>13, FS_EmptySet, FS_CardinalityType
  <1>16. Cardinality(B) = Cardinality(A) + Cardinality(T)
    BY <1>8, <1>11, <1>14, <1>15
  <1> QED
    BY <1>8, <1>12, <1>14, <1>16 DEF A, B, T

LEMMA SoughtAreReplaced ==
  ASSUME NEW kinds \in Seq(Kinds)
  PROVE  Sought(kinds) = Values(kinds, Replaced)
  <1>1. \A k \in Kinds : k \notin {"refused", "word"} <=> k \in Replaced
    <2>1. Kinds = {"email", "date", "ssn", "bareSsn", "card", "month", "refused", "word"}
      <3>1. Range(Patterns) = {"email", "date", "ssn"}
        <4>1. DOMAIN Patterns = 1 .. 3 /\ Patterns[1] = "email" /\ Patterns[2] = "date"
              /\ Patterns[3] = "ssn"
          BY DEF Patterns
        <4>2. 1 .. 3 = {1, 2, 3}
          OBVIOUS
        <4> QED
          BY <4>1, <4>2 DEF Range
      <3>2. Range(Supplements) = {"bareSsn", "card"}
        <4>1. DOMAIN Supplements = 1 .. 2 /\ Supplements[1] = "bareSsn"
              /\ Supplements[2] = "card"
          BY DEF Supplements
        <4>2. 1 .. 2 = {1, 2}
          OBVIOUS
        <4> QED
          BY <4>1, <4>2 DEF Range
      <3> QED
        BY <3>1, <3>2 DEF Kinds
    <2> QED
      BY <2>1 DEF Replaced
  <1>2. \A v \in DOMAIN kinds : kinds[v] \in Kinds
    BY LenProperties
  <1> QED
    BY <1>1, <1>2 DEF Sought, Values

(* The entities of a document without words are of kinds that it has, and    *)
(* there are no more of them than values.                                   *)
LEMMA EntitiesAreFound ==
  ASSUME NEW doc \in Documents, NoWords(doc)
  PROVE  LET es == Apply(doc).entities
         IN  /\ IsFiniteSet(Found(doc))
             /\ Len(es) <= Cardinality(Found(doc))
             /\ \A i \in DOMAIN es : \E f \in Found(doc) : Kind(doc, f) = es[i].kind
  <1> DEFINE n == Len(doc.parts)
             Of(i) == doc.parts[i].kinds
             Part(i) == IF Walked(doc.parts[i])
                        THEN RedactPii(Of(i), doc.names)
                        ELSE [text |-> Text(Of(i)), entities |-> <<>>]
             lists == [i \in DOMAIN doc.parts |-> Part(i).entities]
             T(i) == IF Walked(doc.parts[i]) THEN Sought(Of(i)) ELSE {}
             es == Apply(doc).entities
  <1>1. doc.parts \in Seq([place : STRING, kinds : Seq(Kinds)])
    BY DEF Documents
  <1>2. n \in Nat /\ DOMAIN doc.parts = 1 .. n
    BY <1>1, LenProperties
  <1>3. ASSUME NEW i \in 1 .. n
        PROVE  /\ lists[i] \in Seq(Entities)
               /\ Len(lists[i]) <= Cardinality(T(i)) /\ Cardinality(T(i)) \in Nat
               /\ \A j \in DOMAIN lists[i] : \E v \in T(i) : Of(i)[v] = lists[i][j].kind
    <2> DEFINE kinds == Of(i)
               r == RedactPii(kinds, doc.names)
    <2>1. doc.parts[i] \in [place : STRING, kinds : Seq(Kinds)]
      BY <1>1, <1>2, ElementOfSeq
    <2>2. kinds \in Seq(Kinds) /\ "word" \notin Range(kinds)
      BY <1>2, <2>1 DEF NoWords
    <2>3. lists[i] = Part(i).entities
      BY <1>2
    <2>4. CASE Walked(doc.parts[i])
      <3>1. lists[i] = r.entities /\ T(i) = Sought(kinds)
        BY <2>3, <2>4
      <3> HIDE DEF r, kinds, lists, T
      <3>2. Tracked(r, kinds, Replaced)
        BY <2>2, RedactionTracks DEF r
      <3>3. T(i) = Values(kinds, Replaced)
        BY <2>2, <3>1, SoughtAreReplaced
      <3>4. Cardinality(T(i)) \in Nat
        BY <2>2, <3>3, ValuesAreFinite
      <3>5. /\ lists[i] \in Seq(Entities) /\ Len(lists[i]) <= Cardinality(T(i))
            /\ \A j \in DOMAIN lists[i] : \E v \in T(i) : kinds[v] = lists[i][j].kind
        BY <3>1, <3>2, <3>3 DEF Tracked, Results
      <3> QED
        BY <3>4, <3>5 DEF kinds
    <2>5. CASE ~Walked(doc.parts[i])
      <3>1. lists[i] = <<>> /\ T(i) = {}
        BY <2>3, <2>5
      <3> HIDE DEF lists, T
      <3>2. <<>> \in Seq(Entities) /\ Len(<<>>) = 0 /\ DOMAIN <<>> = {}
        OBVIOUS
      <3>3. Cardinality(T(i)) = 0
        BY <3>1, FS_EmptySet
      <3> QED
        BY <3>1, <3>2, <3>3
    <2> QED
      BY <2>4, <2>5
  <1>4. es = FlattenSeq(lists)
    <2> DEFINE parts == [i \in DOMAIN doc.parts |-> Part(i)]
    <2>1. es = FlattenSeq([i \in DOMAIN parts |-> parts[i].entities])
      BY DEF Apply
    <2>2. [i \in DOMAIN parts |-> parts[i].entities] = lists
      OBVIOUS
    <2> QED
      BY <2>1, <2>2
  <1>5. lists = [i \in 1 .. n |-> lists[i]]
    BY <1>2
  <1> HIDE DEF lists, Part, es
  <1>6. lists \in Seq(Seq(Entities)) /\ Len(lists) = n
    <2>1. lists \in [1 .. n -> Seq(Entities)]
      BY <1>3, <1>5
    <2> HIDE DEF n
    <2> QED
      BY <1>2, <2>1
  <1>7. PICK a : /\ a \in [0 .. n -> Seq(Entities)]
                 /\ a[0] = <<>> /\ a[n] = es
                 /\ \A i \in 1 .. n : a[i] = a[i - 1] \o lists[i]
    <2>1. PICK a : /\ a \in [0 .. Len(lists) -> Seq(Entities)]
                   /\ a[0] = <<>> /\ a[Len(lists)] = FlattenSeq(lists)
                   /\ \A i \in 1 .. Len(lists) : a[i] = a[i - 1] \o lists[i]
      BY <1>6, FlattenSteps
    <2> QED
      BY <1>4, <1>6, <2>1
  <1> DEFINE Good(x, i) ==
               /\ IsFiniteSet(FoundIn(doc, i))
               /\ Len(x) <= Cardinality(FoundIn(doc, i))
               /\ \A j \in DOMAIN x : \E f \in Found(doc) : Kind(doc, f) = x[j].kind
             U == {i \in 0 .. n : Good(a[i], i)}
  <1>8. 0 \in U
    <2>1. FoundIn(doc, 0) = {}
      <3>1. \A f \in Found(doc) : f[1] \in 1 .. n
        BY FoundIsPairs
      <3>2. \A x \in 1 .. n : ~(x <= 0)
        BY <1>2
      <3> QED
        BY <3>1, <3>2 DEF FoundIn
    <2>2. IsFiniteSet({}) /\ Cardinality({}) = 0
      BY FS_EmptySet
    <2>3. Len(<<>>) = 0 /\ DOMAIN <<>> = {} /\ 0 \in 0 .. n
      BY <1>2
    <2>4. Good(<<>>, 0)
      <3> DEFINE e == <<>>
      <3>1. Len(e) = 0 /\ DOMAIN e = {}
        OBVIOUS
      <3> HIDE DEF e
      <3>2. IsFiniteSet(FoundIn(doc, 0)) /\ Len(e) <= Cardinality(FoundIn(doc, 0))
        BY <2>1, <2>2, <3>1
      <3>3. Good(e, 0)
        BY <3>1, <3>2
      <3> QED
        BY <3>3 DEF e
    <2> HIDE DEF Good
    <2> QED
      BY <1>7, <2>3, <2>4
  <1>9. ASSUME NEW i \in 1 .. n, i - 1 \in U
        PROVE  i \in U
    <2> DEFINE x == a[i - 1]
               y == lists[i]
               A == FoundIn(doc, i - 1)
               B == FoundIn(doc, i)
               S == T(i)
    <2>1. i \in 0 .. n /\ i - 1 \in 0 .. n
      BY <1>2
    <2>2. /\ x \in Seq(Entities) /\ y \in Seq(Entities)
          /\ a[i] = x \o y /\ Good(x, i - 1)
      BY <1>3, <1>7, <1>9, <2>1
    <2>3. /\ IsFiniteSet(B)
          /\ Cardinality(B) = Cardinality(A) + Cardinality(S)
          /\ \A v \in S : <<i, v>> \in B
      BY <2>2, FoundInMore
    <2>4. /\ Len(y) <= Cardinality(S) /\ Cardinality(S) \in Nat
          /\ \A j \in DOMAIN y : \E v \in S : Of(i)[v] = y[j].kind
      BY <1>3
    <2>5. /\ Len(x) <= Cardinality(A) /\ Cardinality(A) \in Nat
          /\ \A j \in DOMAIN x : \E f \in Found(doc) : Kind(doc, f) = x[j].kind
      BY <2>2, FS_CardinalityType
    <2>6. \A v \in S : <<i, v>> \in Found(doc) /\ Kind(doc, <<i, v>>) = Of(i)[v]
      BY <2>3 DEF FoundIn, Kind
    <2> HIDE DEF x, y, A, B, S, Of
    <2>7. /\ Len(x) \in Nat /\ Len(y) \in Nat /\ Len(x \o y) = Len(x) + Len(y)
          /\ DOMAIN x = 1 .. Len(x) /\ DOMAIN y = 1 .. Len(y)
          /\ DOMAIN (x \o y) = 1 .. Len(x) + Len(y)
          /\ \A j \in 1 .. Len(x) + Len(y) :
               (x \o y)[j] = IF j <= Len(x) THEN x[j] ELSE y[j - Len(x)]
      BY <2>2, ConcatProperties, LenProperties
    <2>8. Len(x \o y) <= Cardinality(B)
      BY <2>3, <2>4, <2>5, <2>7
    <2>9. ASSUME NEW j \in DOMAIN (x \o y)
          PROVE  \E f \in Found(doc) : Kind(doc, f) = (x \o y)[j].kind
      <3>1. CASE j <= Len(x)
        <4>1. j \in DOMAIN x /\ (x \o y)[j] = x[j]
          BY <2>7, <3>1
        <4> QED
          BY <2>5, <4>1
      <3>2. CASE ~(j <= Len(x))
        <4>1. j - Len(x) \in DOMAIN y /\ (x \o y)[j] = y[j - Len(x)]
          BY <2>7, <3>2
        <4> QED
          BY <2>4, <2>6, <4>1
      <3> QED
        BY <3>1, <3>2
    <2>10. Good(x \o y, i)
      BY <2>3, <2>8, <2>9 DEF B
    <2> HIDE DEF Good
    <2> QED
      BY <2>1, <2>2, <2>10
  <1>10. Good(es, n)
    <2> HIDE DEF U, Good
    <2>1. \A i \in 0 .. n : i \in U
      BY <1>2, <1>8, <1>9, Upward
    <2>2. n \in 0 .. n
      BY <1>2
    <2> QED
      BY <1>7, <2>1, <2>2 DEF U
  <1>11. FoundIn(doc, n) = Found(doc)
    <2>1. \A f \in Found(doc) : f[1] \in 1 .. n
      BY FoundIsPairs
    <2>2. \A x \in 1 .. n : x <= n
      BY <1>2
    <2> QED
      BY <2>1, <2>2 DEF FoundIn
  <1> QED
    BY <1>10, <1>11 DEF es
-----------------------------------------------------------------------------
(* The decision that verify_attestation.py expects is the one that agent 3  *)
(* takes, for every number of entities.                                     *)
LEMMA DecisionIsExpected ==
  ASSUME NEW x, x.total \in Nat, "SSN" \in x.categories => x.total # 0
  PROVE  Decision(x) = ExpectedDecision(x.total, "SSN" \in x.categories)
  <1>1. CASE x.total = 0
    BY <1>1 DEF Decision, ExpectedDecision
  <1>2. CASE x.total \in 1 .. 5 /\ "SSN" \notin x.categories
    BY <1>2 DEF Decision, ExpectedDecision
  <1>3. CASE x.total # 0 /\ "SSN" \in x.categories
    BY <1>3 DEF Decision, ExpectedDecision
  <1>4. CASE x.total > 10 /\ "SSN" \notin x.categories
    BY <1>4 DEF Decision, ExpectedDecision
  <1>5. CASE x.total \in 6 .. 10 /\ "SSN" \notin x.categories
    BY <1>5 DEF Decision, ExpectedDecision
  <1> QED
    BY <1>1, <1>2, <1>3, <1>4, <1>5

(* What the proofs need of the redaction of a document: its entities are a  *)
(* list, of which it counts some, an SSN among them.                        *)
Counted(x) == /\ x.entities \in Seq(Range(x.entities))
              /\ x.total \in Nat
              /\ "SSN" \in x.categories => x.total # 0

LEMMA RedactionCounts ==
  ASSUME NEW c \in Cases, NEW r \in Runs, c[r] # None
  PROVE  Counted(Apply(c[r].doc))
  <1> DEFINE x == Apply(c[r].doc)
             es == x.entities
             T == {i \in DOMAIN es : Category(es[i].kind) # {}}
  <1>1. es \in Seq(Range(es))
    <2>1. c[r].doc \in Documents
      BY DocumentsAssumption
    <2>2. es \in Seq(Entities)
      BY <2>1, EntitiesAreList
    <2> HIDE DEF x
    <2>3. /\ Len(es) \in Nat /\ DOMAIN es = 1 .. Len(es)
          /\ es = [i \in 1 .. Len(es) |-> es[i]]
      BY <2>2
    <2>4. \A i \in 1 .. Len(es) : es[i] \in Range(es)
      BY <2>3 DEF Range
    <2> QED
      BY <2>3, <2>4
  <1>2. x.total = Cardinality(T) /\ x.categories = UNION {Category(es[i].kind) : i \in DOMAIN es}
    BY DEF Apply
  <1> HIDE DEF x
  <1>3. Len(es) \in Nat /\ DOMAIN es = 1 .. Len(es)
    BY <1>1
  <1>4. IsFiniteSet(DOMAIN es)
    BY <1>3, FS_Interval
  <1>5. T \subseteq DOMAIN es
    OBVIOUS
  <1>6. "SSN" \in x.categories => T # {}
    BY <1>2
  <1> HIDE DEF T, es
  <1>7. IsFiniteSet(T)
    BY <1>4, <1>5, FS_Subset
  <1>8. Cardinality(T) \in Nat /\ (T # {} => Cardinality(T) # 0)
    BY <1>7, FS_CardinalityType, FS_EmptySet
  <1> QED
    BY <1>1, <1>2, <1>6, <1>8 DEF Counted, es, x
-----------------------------------------------------------------------------
(* An attested result as the agents leave it: its hashes and its decision   *)
(* are of its artifact, each proof in it stands for the inputs derived from *)
(* it, and was made for its circuit with a key of version b to v.           *)
Fields == {"artifact", "governed", "decision", "chain", "placeholder",
           "provenance", "zk", "entity", "universal", "claim", "e2ee"}

Agreed(a) ==
  /\ a = [f \in Fields |-> a[f]]
  /\ Counted(a.artifact) /\ a.artifact.governed \in Nat
  /\ a.decision = Decision(a.artifact)
  /\ a.chain = Agents
  /\ a.placeholder = a.artifact
  /\ a.provenance = <<a.artifact, a.decision, a.artifact>>
  /\ a.e2ee = None

Proven(a, b, v) ==
  /\ a.zk = [c \in Governance |-> a.zk[c]]
  /\ InputsMatch(a)
  /\ \A c \in Governance :
       IsProof(a.zk[c]) => a.zk[c].circuit = c /\ a.zk[c].vk \in b .. v
  /\ \A i \in DOMAIN a.entity :
       IsProof(a.entity[i].proof) =>
         /\ a.entity[i].proof.circuit = CircuitForKey(a.entity[i].key)
         /\ a.entity[i].proof.vk \in b .. v

Dossier(a, b, v) == Agreed(a) /\ Proven(a, b, v)

(* Nothing is attached to it yet.                                           *)
Bare(a) == /\ \A c \in Governance : ~IsProof(a.zk[c])
           /\ a.entity = <<>>

(* What a run has made at each stage, and what it has stored.               *)
Attesting == {"persist", "redaction", "rule-binding", "pipeline", "entity",
              "persistProofs", "judge", "universal", "finish", "encrypt",
              "makeFile", "writeKey", "hide"}

MadeAt(stage, w, b, v) ==
  /\ stage = "orchestrate" => Counted(w)
  /\ stage = "coordinate" => Counted(w) /\ w.governed \in Nat
  /\ stage \in Attesting => Dossier(w, b, v)
  /\ stage \in {"persist", "redaction"} => Bare(w)

StoredAt(stage, x, b, v) ==
  /\ stage \in {"redact", "orchestrate", "coordinate", "persist"} => x = None
  /\ x # None => /\ Dossier(Opened(x), b, v)
                 /\ stage = "redaction" => Bare(Opened(x))

RunsInv ==
  /\ \A r \in Runs : MadeAt(pc[r], work[r], began[r], vk)
  /\ \A r \in Runs : StoredAt(pc[r], stored[r], began[r], vk)

Typed ==
  /\ case \in Cases
  /\ DOMAIN pc = Runs /\ DOMAIN work = Runs /\ DOMAIN stored = Runs /\ DOMAIN held = Runs
  /\ spec \in Nat /\ vk \in Nat
  /\ began \in [Runs -> Nat] /\ \A r \in Runs : began[r] <= vk
  /\ \A r \in Runs : pc[r] = "redact" => case[r] # None

(* Unless two runs met while one made the key of the encryption: one makes  *)
(* it at a time, and once the file holds it, it is never replaced.          *)
KeyAt(stage, r) ==
  /\ stage = "makeFile" => keypair = Absent /\ held[r] = r
  /\ stage = "writeKey" => keypair = Torn /\ held[r] = r
  /\ stage = "hide" => keypair \in Runs /\ held[r] = keypair

Locked(x) == x = None \/ x.e2ee = None \/ (keypair \in Runs /\ x.e2ee.key = keypair)

KeyInv ==
  ~met =>
    /\ \A r, s \in Runs : {pc[r], pc[s]} \subseteq {"makeFile", "writeKey"} => r = s
    /\ \A r \in Runs : KeyAt(pc[r], r)
    /\ \A r \in Runs : Locked(stored[r])

EvidenceInv == Typed /\ RunsInv /\ KeyInv
-----------------------------------------------------------------------------
(* An encrypted result opens to what it was made of.                        *)
LEMMA NotNone ==
  /\ ~IsProof(None) /\ ~IsProof(Failed)
  /\ \A k, c : [key |-> k, content |-> c] # None
  <1>1. ~IsProof(None) /\ ~IsProof(Failed)
    BY DEF IsProof
  <1>2. ASSUME NEW k, NEW c
        PROVE  [key |-> k, content |-> c] # None
    <2>1. "key" \in DOMAIN [key |-> k, content |-> c]
      OBVIOUS
    <2>2. "key" \notin DOMAIN None
      BY DEF None
    <2> QED
      BY <2>1, <2>2
  <1> QED
    BY <1>1, <1>2

LEMMA OpensAgain ==
  ASSUME NEW a, Agreed(a), NEW k
  PROVE  /\ Opened(a) = a
         /\ Opened(Encrypted(a, k)) = a
         /\ Encrypted(a, k).e2ee.key = k
         /\ Encrypted(a, k).zk = a.zk /\ Encrypted(a, k).entity = a.entity
  <1>1. a = [f \in Fields |-> a[f]] /\ a.e2ee = None
    BY DEF Agreed
  <1>2. Opened(a) = a
    BY <1>1 DEF Opened
  <1> DEFINE e == [key |-> k, content |-> a.artifact]
             x == Encrypted(a, k)
  <1>3. /\ x = [f \in Fields |-> IF f = "artifact" THEN Hidden
                                 ELSE IF f = "e2ee" THEN e ELSE a[f]]
    BY <1>1 DEF Encrypted, Fields
  <1>4. x.e2ee = e /\ x.e2ee # None /\ x.e2ee.content = a.artifact /\ x.e2ee.key = k
    BY <1>3, NotNone DEF Fields
  <1>5. x.zk = a.zk /\ x.entity = a.entity
    BY <1>3 DEF Fields
  <1> HIDE DEF x
  <1>6. Opened(x) = [x EXCEPT !.artifact = a.artifact, !.e2ee = None]
    BY <1>4 DEF Opened
  <1>7. [x EXCEPT !.artifact = a.artifact, !.e2ee = None] = [f \in Fields |-> a[f]]
    BY <1>1, <1>3 DEF Fields
  <1> QED
    BY <1>1, <1>2, <1>4, <1>5, <1>6, <1>7 DEF x

(* What verify_attestation.py recomputes of a dossier agrees with it.       *)
LEMMA DossierVerifies ==
  ASSUME NEW a, NEW b \in Nat, NEW v \in Nat, Dossier(a, b, v)
  PROVE  /\ VerifyPython(a)
         /\ InputsMatch(a)
         /\ AllValid(a) /\ v = b => VerifyRealZk(a, v)
  <1>1. VerifyPython(a)
    <2>1. a.decision = ExpectedDecision(a.artifact.total, "SSN" \in a.artifact.categories)
      BY DecisionIsExpected DEF Dossier, Agreed, Counted
    <2> QED
      BY <2>1 DEF VerifyPython, Dossier, Agreed
  <1>2. InputsMatch(a)
    BY DEF Dossier, Proven
  <1>3. ASSUME AllValid(a), v = b
        PROVE  VerifyRealZk(a, v)
    <2>1. \A c \in Governance : Accepted(a.zk[c], c, v)
      BY <1>3 DEF Dossier, Proven, AllValid, Accepted
    <2>2. \A i \in DOMAIN a.entity :
            Accepted(a.entity[i].proof, CircuitForKey(a.entity[i].key), v)
      BY <1>3 DEF Dossier, Proven, AllValid, Accepted
    <2> QED
      BY <2>1, <2>2 DEF VerifyRealZk
  <1> QED
    BY <1>1, <1>2, <1>3

(* A rotation of the keys leaves a dossier one, and so does any change of   *)
(* its first key as long as it carries no proof.                            *)
LEMMA DossierLater ==
  ASSUME NEW a, NEW b \in Nat, NEW v \in Nat, Dossier(a, b, v), NEW w \in Nat, v <= w
  PROVE  Dossier(a, b, w)
  BY DEF Dossier, Proven

LEMMA BareDossier ==
  ASSUME NEW a, NEW b, NEW v, Dossier(a, b, v), Bare(a), NEW c, NEW w
  PROVE  Dossier(a, c, w)
  BY DEF Dossier, Proven, Bare

(* What agent 3 attests is a dossier without proofs.                        *)
LEMMA AttestedDossier ==
  ASSUME NEW x, Counted(x), x.governed \in Nat, NEW s, NEW b, NEW v
  PROVE  Dossier(Attested(x, s), b, v) /\ Bare(Attested(x, s))
  <1> DEFINE a == Attested(x, s)
  <1>1. /\ a.artifact = x /\ a.decision = Decision(x) /\ a.chain = Agents
        /\ a.placeholder = x /\ a.provenance = <<x, Decision(x), x>>
        /\ a.zk = [c \in Governance |-> None] /\ a.entity = <<>> /\ a.e2ee = None
    BY DEF Attested
  <1>2. a = [f \in Fields |-> a[f]]
    BY DEF Attested, Fields
  <1> HIDE DEF a
  <1>3. Bare(a)
    BY <1>1, NotNone DEF Bare
  <1>4. Agreed(a)
    BY <1>1, <1>2 DEF Agreed
  <1>5. Proven(a, b, v)
    BY <1>1, <1>3 DEF Proven, Bare, InputsMatch
  <1> QED
    BY <1>3, <1>4, <1>5 DEF Dossier, a

(* The attachments that no circuit of the governance track is about.        *)
LEMMA AttachedDossier ==
  ASSUME NEW a, NEW b, NEW v, Dossier(a, b, v), NEW f \in {"universal", "claim"}, NEW y
  PROVE  Dossier([a EXCEPT ![f] = y], b, v)
  <1> DEFINE x == [a EXCEPT ![f] = y]
  <1>1. a = [g \in Fields |-> a[g]]
    BY DEF Dossier, Agreed
  <1>2. x = [g \in Fields |-> IF g = f THEN y ELSE a[g]]
    BY <1>1 DEF Fields
  <1> HIDE DEF x
  <1>3. x = [g \in Fields |-> x[g]]
    BY <1>2
  <1>4. /\ x.artifact = a.artifact /\ x.governed = a.governed /\ x.decision = a.decision
        /\ x.chain = a.chain /\ x.placeholder = a.placeholder
        /\ x.provenance = a.provenance /\ x.zk = a.zk /\ x.entity = a.entity
        /\ x.e2ee = a.e2ee
    BY <1>2 DEF Fields
  <1>5. Agreed(x)
    BY <1>3, <1>4 DEF Dossier, Agreed
  <1>6. InputsMatch(x)
    BY <1>4 DEF Dossier, Proven, InputsMatch, CircuitInputs
  <1>7. Proven(x, b, v)
    BY <1>4, <1>6 DEF Dossier, Proven
  <1> QED
    BY <1>5, <1>7 DEF Dossier, x

(* A proof of the governance track, or the status of a prover that failed.  *)
(* The rule-binding proof commits to the redaction proof, which is there    *)
(* before it.                                                               *)
LEMMA ProvedDossier ==
  ASSUME NEW a, NEW b \in Nat, NEW v \in Nat, b <= v, Dossier(a, b, v),
         NEW c \in Governance, c = "redaction" => Bare(a),
         NEW p, p = Failed \/ p = GovernanceProof(a, c, v),
         NEW x, x = [a EXCEPT !.zk[c] = p]
  PROVE  Dossier(x, b, v)
  <1>1. a = [g \in Fields |-> a[g]] /\ a.zk = [d \in Governance |-> a.zk[d]]
    BY DEF Dossier, Agreed, Proven
  <1>2. x = [g \in Fields |-> IF g = "zk" THEN [a.zk EXCEPT ![c] = p] ELSE a[g]]
    BY <1>1 DEF Fields
  <1>3. x = [g \in Fields |-> x[g]]
    BY <1>2
  <1>4. /\ x.artifact = a.artifact /\ x.governed = a.governed /\ x.decision = a.decision
        /\ x.chain = a.chain /\ x.placeholder = a.placeholder
        /\ x.provenance = a.provenance /\ x.entity = a.entity /\ x.e2ee = a.e2ee
        /\ x.zk = [a.zk EXCEPT ![c] = p]
    BY <1>2 DEF Fields
  <1>5. x.zk = [d \in Governance |-> IF d = c THEN p ELSE a.zk[d]]
    BY <1>1, <1>4
  <1>6. Agreed(x)
    BY <1>3, <1>4 DEF Dossier, Agreed
  <1>7. IsProof(p) => /\ p.circuit = c /\ p.vk = v
                      /\ p.inputs = CircuitInputs(a, c, a.zk["redaction"])
    BY NotNone DEF GovernanceProof
  <1>8. "redaction" \in Governance
    BY DEF Governance
  <1>9. ASSUME NEW d \in Governance, IsProof(x.zk[d])
        PROVE  x.zk[d].inputs = CircuitInputs(x, d, x.zk["redaction"])
    <2>1. x.zk[d].inputs = CircuitInputs(a, d, a.zk["redaction"])
      <3>1. CASE d = c
        BY <1>5, <1>7, <1>9, <3>1
      <3>2. CASE d # c
        BY <1>5, <1>9, <3>2 DEF Dossier, Proven, InputsMatch
      <3> QED
        BY <3>1, <3>2
    <2>2. \A q : CircuitInputs(x, d, q) = CircuitInputs(a, d, q)
      BY <1>4 DEF CircuitInputs
    <2>3. CASE c # "redaction"
      BY <1>5, <1>8, <2>1, <2>2, <2>3
    <2>4. CASE c = "redaction"
      <3>1. d = "redaction"
        BY <1>5, <1>9, <2>4 DEF Bare
      <3>2. \A q, s : CircuitInputs(a, "redaction", q) = CircuitInputs(a, "redaction", s)
        BY DEF CircuitInputs
      <3> QED
        BY <2>1, <2>2, <3>1, <3>2
    <2> QED
      BY <2>3, <2>4
  <1>10. ASSUME NEW d \in Governance, IsProof(x.zk[d])
         PROVE  x.zk[d].circuit = d /\ x.zk[d].vk \in b .. v
    <2>1. CASE d = c
      BY <1>5, <1>7, <1>10, <2>1
    <2>2. CASE d # c
      BY <1>5, <1>10, <2>2 DEF Dossier, Proven
    <2> QED
      BY <2>1, <2>2
  <1>11. x.zk = [d \in Governance |-> x.zk[d]]
    BY <1>5
  <1>12. \A i \in DOMAIN x.entity : IsProof(x.entity[i].proof) =>
           /\ x.entity[i].proof.circuit = CircuitForKey(x.entity[i].key)
           /\ x.entity[i].proof.vk \in b .. v
    BY <1>4 DEF Dossier, Proven
  <1>13. Proven(x, b, v)
    BY <1>9, <1>10, <1>11, <1>12 DEF Proven, InputsMatch
  <1> QED
    BY <1>6, <1>13 DEF Dossier
-----------------------------------------------------------------------------
(* The entity circuits are named by the keys their proofs are filed under.  *)
Named(s) == /\ s \in Seq(Range(s))
            /\ \A i \in DOMAIN s : s[i].circuit = CircuitForKey(s[i].key)

LEMMA NamedJoin ==
  ASSUME NEW s, NEW t, Named(s), Named(t)
  PROVE  Named(s \o t)
  <1> DEFINE X == Range(s) \cup Range(t)
             j == s \o t
  <1>1. s \in Seq(X) /\ t \in Seq(X)
    <2>1. Range(s) \subseteq X /\ Range(t) \subseteq X
      OBVIOUS
    <2> HIDE DEF X
    <2> QED
      BY <2>1 DEF Named
  <1> HIDE DEF X
  <1>2. /\ Len(s) \in Nat /\ DOMAIN s = 1 .. Len(s)
        /\ Len(t) \in Nat /\ DOMAIN t = 1 .. Len(t)
    BY <1>1, LenProperties
  <1>3. /\ j \in Seq(X) /\ DOMAIN j = 1 .. (Len(s) + Len(t))
        /\ \A i \in 1 .. (Len(s) + Len(t)) :
             j[i] = IF i <= Len(s) THEN s[i] ELSE t[i - Len(s)]
    BY <1>1, <1>2, ConcatProperties, LenProperties
  <1> HIDE DEF j
  <1>4. \A i \in DOMAIN j : j[i].circuit = CircuitForKey(j[i].key)
    <2>1. ASSUME NEW i \in DOMAIN j, i <= Len(s)
          PROVE  i \in DOMAIN s /\ j[i] = s[i]
      BY <1>2, <1>3, <2>1
    <2>2. ASSUME NEW i \in DOMAIN j, ~(i <= Len(s))
          PROVE  i - Len(s) \in DOMAIN t /\ j[i] = t[i - Len(s)]
      BY <1>2, <1>3, <2>2
    <2> QED
      BY <2>1, <2>2 DEF Named
  <1>5. j \in Seq(Range(j))
    <2>1. Len(j) \in Nat /\ DOMAIN j = 1 .. Len(j) /\ j = [i \in 1 .. Len(j) |-> j[i]]
      BY <1>3, LenProperties
    <2>2. \A i \in 1 .. Len(j) : j[i] \in Range(j)
      BY <2>1 DEF Range
    <2> QED
      BY <2>1, <2>2
  <1> QED
    BY <1>4, <1>5 DEF Named, j

LEMMA NamedFunction ==
  ASSUME NEW n \in Nat, NEW s, DOMAIN s = 1 .. n, s = [i \in 1 .. n |-> s[i]],
         \A i \in 1 .. n : s[i].circuit = CircuitForKey(s[i].key)
  PROVE  Named(s)
  <1>1. \A i \in 1 .. n : s[i] \in Range(s)
    BY DEF Range
  <1>2. s \in Seq(Range(s))
    BY <1>1
  <1> QED
    BY <1>2 DEF Named

LEMMA NamedOne ==
  ASSUME NEW e, e.circuit = CircuitForKey(e.key)
  PROVE  Named(<<e>>) /\ Named(<<>>)
  <1>1. Named(<<>>)
    BY DEF Named
  <1>2. Named(<<e>>)
    <2>1. <<e>>[1] = e /\ DOMAIN <<e>> = {1}
      OBVIOUS
    <2>2. e \in Range(<<e>>)
      BY <2>1 DEF Range
    <2> HIDE DEF Range
    <2>3. <<e>> \in Seq(Range(<<e>>))
      BY <2>2
    <2> QED
      BY <2>1, <2>3 DEF Named
  <1> QED
    BY <1>1, <1>2

LEMMA CircuitsAreNamed ==
  ASSUME NEW x, x.entities \in Seq(Range(x.entities))
  PROVE  Named(EntityCircuits(x))
  <1> DEFINE leaves == Leaves(x)
             whole == [root |-> Root(leaves), count |-> Len(leaves)]
             first == [key |-> [name |-> "redaction_v1"], circuit |-> "redaction-v1",
                       inputs |-> whole]
             second == [key |-> [name |-> "core_redaction"],
                        circuit |-> "core-redaction", inputs |-> whole]
             batch == [key |-> [name |-> "batch_merkle"], circuit |-> "batch-merkle",
                       inputs |-> BatchWitness(leaves)]
             policy == [key |-> [name |-> "compliance"], circuit |-> "compliance",
                        inputs |-> [policy |-> 1, count |-> Len(leaves)]]
             part2 == IF Len(leaves) <= BatchSize THEN <<batch>> ELSE <<>>
             part3 == [i \in DOMAIN Inclusions(leaves) |->
                         [key |-> [name |-> "merkle_inclusion", index |-> i],
                          circuit |-> "merkle-inclusion",
                          inputs |-> Inclusions(leaves)[i]]]
             part4 == IF HasPolicy(x) THEN <<policy>> ELSE <<>>
  <1>1. EntityCircuits(x) = ((<<first, second>> \o part2) \o part3) \o part4
    BY DEF EntityCircuits
  <1>2. /\ first.circuit = CircuitForKey(first.key)
        /\ second.circuit = CircuitForKey(second.key)
        /\ batch.circuit = CircuitForKey(batch.key)
        /\ policy.circuit = CircuitForKey(policy.key)
    BY DEF CircuitForKey
  <1> HIDE DEF first, second, batch, policy
  <1>3. Named(<<first, second>>)
    <2> DEFINE s == <<first, second>>
    <2>1. DOMAIN s = 1 .. 2 /\ s[1] = first /\ s[2] = second /\ s = [i \in 1 .. 2 |-> s[i]]
      OBVIOUS
    <2>2. \A i \in 1 .. 2 : s[i].circuit = CircuitForKey(s[i].key)
      <3>1. \A i \in 1 .. 2 : i = 1 \/ i = 2
        OBVIOUS
      <3> QED
        BY <1>2, <2>1, <3>1
    <2> HIDE DEF s
    <2>3. Named(s)
      BY <2>1, <2>2, NamedFunction
    <2> QED
      BY <2>3 DEF s
  <1>4. Named(part2)
    BY <1>2, NamedOne
  <1>5. Named(part3)
    <2>1. Len(leaves) \in Nat
      BY DEF Leaves
    <2>2. PICK n \in Nat : DOMAIN Inclusions(leaves) = 1 .. n
      BY <2>1, MerkleAssumption DEF Inclusions
    <2>3. DOMAIN part3 = 1 .. n /\ part3 = [i \in 1 .. n |-> part3[i]]
      BY <2>2
    <2>4. ASSUME NEW i \in 1 .. n
          PROVE  part3[i].circuit = CircuitForKey(part3[i].key)
      <3>1. /\ part3[i].circuit = "merkle-inclusion"
            /\ part3[i].key = [name |-> "merkle_inclusion", index |-> i]
        BY <2>2
      <3>2. part3[i].key.name = "merkle_inclusion"
        BY <3>1
      <3> HIDE DEF part3
      <3> QED
        BY <3>1, <3>2 DEF CircuitForKey
    <2> HIDE DEF part3
    <2> QED
      BY <2>3, <2>4, NamedFunction
  <1>6. Named(part4)
    BY <1>2, NamedOne
  <1> HIDE DEF part2, part3, part4
  <1>7. Named(<<first, second>> \o part2)
    BY <1>3, <1>4, NamedJoin
  <1>8. Named((<<first, second>> \o part2) \o part3)
    BY <1>5, <1>7, NamedJoin
  <1> QED
    BY <1>1, <1>6, <1>8, NamedJoin

(* The entity proofs, with the status of those whose prover failed.         *)
LEMMA EntitiesDossier ==
  ASSUME NEW a, NEW b \in Nat, NEW v \in Nat, b <= v, Dossier(a, b, v), NEW failing,
         NEW x, x = [a EXCEPT !.entity = EntityProofs(a.artifact, v, failing)]
  PROVE  Dossier(x, b, v)
  <1> DEFINE ps == EntityProofs(a.artifact, v, failing)
  <1>1. a = [g \in Fields |-> a[g]]
    BY DEF Dossier, Agreed
  <1>2. Named(EntityCircuits(a.artifact))
    BY CircuitsAreNamed DEF Dossier, Agreed, Counted
  <1>3. \A i \in DOMAIN ps : IsProof(ps[i].proof) =>
          ps[i].proof.circuit = CircuitForKey(ps[i].key) /\ ps[i].proof.vk = v
    <2> DEFINE cs == EntityCircuits(a.artifact)
    <2>1. ps = [i \in DOMAIN cs |->
                  [key |-> cs[i].key,
                   proof |-> IF i \in failing THEN Failed
                             ELSE [circuit |-> cs[i].circuit, vk |-> v]]]
      BY DEF EntityProofs
    <2>2. \A i \in DOMAIN cs : cs[i].circuit = CircuitForKey(cs[i].key)
      BY <1>2 DEF Named
    <2> HIDE DEF cs, ps
    <2> QED
      BY <2>1, <2>2, NotNone
  <1>4. x = [a EXCEPT !.entity = ps]
    OBVIOUS
  <1> HIDE DEF ps
  <1>5. x = [g \in Fields |-> IF g = "entity" THEN ps ELSE a[g]]
    BY <1>1, <1>4 DEF Fields
  <1>6. x = [g \in Fields |-> x[g]]
    BY <1>5
  <1>7. /\ x.artifact = a.artifact /\ x.governed = a.governed /\ x.decision = a.decision
        /\ x.chain = a.chain /\ x.placeholder = a.placeholder
        /\ x.provenance = a.provenance /\ x.zk = a.zk /\ x.e2ee = a.e2ee /\ x.entity = ps
    BY <1>5 DEF Fields
  <1>8. Agreed(x)
    BY <1>6, <1>7 DEF Dossier, Agreed
  <1>9. InputsMatch(x)
    BY <1>7 DEF Dossier, Proven, InputsMatch, CircuitInputs
  <1>10. Proven(x, b, v)
    BY <1>3, <1>7, <1>9 DEF Dossier, Proven
  <1> QED
    BY <1>8, <1>10 DEF Dossier
-----------------------------------------------------------------------------
(* A step of one run leaves what the others have made and stored.           *)
Only(r) ==
  /\ UNCHANGED <<case, spec, vk>>
  /\ DOMAIN pc' = Runs /\ DOMAIN work' = Runs /\ DOMAIN stored' = Runs
  /\ DOMAIN held' = Runs
  /\ began' \in [Runs -> Nat] /\ began'[r] \in {began[r], vk}
  /\ \A s \in Runs \ {r} : /\ pc'[s] = pc[s] /\ work'[s] = work[s]
                           /\ stored'[s] = stored[s] /\ held'[s] = held[s]
                           /\ began'[s] = began[s]

LEMMA OnlyMoves ==
  ASSUME Typed, RunsInv, NEW r \in Runs, Only(r), pc'[r] # "redact",
         MadeAt(pc'[r], work'[r], began'[r], vk),
         StoredAt(pc'[r], stored'[r], began'[r], vk)
  PROVE  Typed' /\ RunsInv'
  <1>1. Typed'
    <2>1. \A s \in Runs : began'[s] <= vk'
      BY DEF Only, Typed
    <2>2. \A s \in Runs : pc'[s] = "redact" => case'[s] # None
      BY DEF Only, Typed
    <2> QED
      BY <2>1, <2>2 DEF Only, Typed
  <1>2. ASSUME NEW s \in Runs
        PROVE  /\ MadeAt(pc'[s], work'[s], began'[s], vk')
               /\ StoredAt(pc'[s], stored'[s], began'[s], vk')
    <2>1. vk' = vk
      BY DEF Only
    <2>2. CASE s = r
      BY <2>1, <2>2
    <2>3. CASE s # r
      <3>1. /\ pc'[s] = pc[s] /\ work'[s] = work[s] /\ stored'[s] = stored[s]
            /\ began'[s] = began[s]
        BY <2>3 DEF Only
      <3> QED
        BY <2>1, <3>1 DEF RunsInv
    <2> QED
      BY <2>2, <2>3
  <1>3. RunsInv'
    BY <1>2 DEF RunsInv
  <1> QED
    BY <1>1, <1>3

(* Where no step of the encryption is taken the key stays as it is.         *)
LEMMA KeyStays ==
  ASSUME KeyInv, NEW r \in Runs, Only(r), UNCHANGED <<keypair, held, met>>,
         pc'[r] \notin {"makeFile", "writeKey", "hide"},
         stored'[r] = stored[r] \/ stored'[r].e2ee = None
  PROVE  KeyInv'
  <1>1. SUFFICES ASSUME ~met
                 PROVE  /\ \A q, s \in Runs :
                             {pc'[q], pc'[s]} \subseteq {"makeFile", "writeKey"} => q = s
                        /\ \A s \in Runs : KeyAt(pc[s], s)'
                        /\ \A s \in Runs : Locked(stored[s])'
    BY DEF KeyInv
  <1>2. /\ \A q, s \in Runs : {pc[q], pc[s]} \subseteq {"makeFile", "writeKey"} => q = s
        /\ \A s \in Runs : KeyAt(pc[s], s)
        /\ \A s \in Runs : Locked(stored[s])
    BY <1>1 DEF KeyInv
  <1>3. \A s \in Runs : pc'[s] = pc[s] \/ pc'[s] \notin {"makeFile", "writeKey", "hide"}
    BY DEF Only
  <1>4. \A s \in Runs : stored'[s] = stored[s] \/ stored'[s].e2ee = None
    BY DEF Only
  <1>5. \A s \in Runs : KeyAt(pc[s], s)'
    BY <1>2, <1>3 DEF KeyAt
  <1>6. \A s \in Runs : Locked(stored[s])'
    BY <1>2, <1>4 DEF Locked
  <1> QED
    BY <1>2, <1>3, <1>5, <1>6

(* A step that stores nothing and is not at the proofs' first circuit.      *)
LEMMA StoredStays ==
  ASSUME RunsInv, NEW r \in Runs, stored'[r] = stored[r], began'[r] = began[r],
         pc'[r] # "redaction", pc[r] \in {"redact", "orchestrate"}
           \/ pc'[r] \notin {"redact", "orchestrate", "coordinate", "persist"}
           \/ stored[r] = None
  PROVE  StoredAt(pc'[r], stored'[r], began'[r], vk)
  <1>1. StoredAt(pc[r], stored[r], began[r], vk)
    BY DEF RunsInv
  <1> QED
    BY <1>1 DEF StoredAt
-----------------------------------------------------------------------------
(* The agents.                                                              *)
LEMMA RedactsKeeps ==
  ASSUME EvidenceInv, NEW r \in Runs, Redacts(r)
  PROVE  EvidenceInv'
  <1>1. Typed /\ RunsInv /\ KeyInv
    BY DEF EvidenceInv
  <1>2. /\ pc[r] = "redact" /\ pc'[r] = "orchestrate"
        /\ work'[r] = RedactorOutput(case[r].doc, spec)
        /\ UNCHANGED <<stored, keys, began>> /\ Only(r)
    BY <1>1 DEF Redacts, At, Goes, Makes, Only, Typed, keys
  <1>3. Counted(work'[r])
    <2>1. Counted(Apply(case[r].doc))
      BY <1>1, <1>2, RedactionCounts DEF Typed
    <2>2. /\ work'[r].entities = Apply(case[r].doc).entities
          /\ work'[r].total = Apply(case[r].doc).total
          /\ work'[r].categories = Apply(case[r].doc).categories
      BY <1>2 DEF RedactorOutput
    <2> QED
      BY <2>1, <2>2 DEF Counted
  <1>4. MadeAt(pc'[r], work'[r], began'[r], vk)
    BY <1>2, <1>3 DEF MadeAt, Attesting
  <1>5. StoredAt(pc'[r], stored'[r], began'[r], vk)
    BY <1>1, <1>2, StoredStays
  <1>6. Typed' /\ RunsInv'
    BY <1>1, <1>2, <1>4, <1>5, OnlyMoves
  <1>7. KeyInv'
    BY <1>1, <1>2, KeyStays DEF keys
  <1> QED
    BY <1>6, <1>7 DEF EvidenceInv

(* A run that fails or dies keeps what it stored.                           *)
LEMMA EndsKeeps ==
  ASSUME EvidenceInv, NEW r \in Runs, NEW stage \in {"failed", "dead"},
         UNCHANGED <<case, work, stored, keys, began>>, Goes(r, stage)
  PROVE  EvidenceInv'
  <1>1. Typed /\ RunsInv /\ KeyInv
    BY DEF EvidenceInv
  <1>2. pc'[r] = stage /\ UNCHANGED <<work, stored, keys, began>> /\ Only(r)
    BY <1>1 DEF Goes, Only, Typed, keys
  <1>3. MadeAt(pc'[r], work'[r], began'[r], vk)
    BY <1>2 DEF MadeAt, Attesting
  <1>4. StoredAt(pc'[r], stored'[r], began'[r], vk)
    BY <1>1, <1>2, StoredStays
  <1>5. Typed' /\ RunsInv'
    BY <1>1, <1>2, <1>3, <1>4, OnlyMoves
  <1>6. KeyInv'
    BY <1>1, <1>2, KeyStays DEF keys
  <1> QED
    BY <1>5, <1>6 DEF EvidenceInv

LEMMA OrchestratesKeeps ==
  ASSUME EvidenceInv, NEW r \in Runs, Orchestrates(r)
  PROVE  EvidenceInv'
  <1>1. Typed /\ RunsInv /\ KeyInv
    BY DEF EvidenceInv
  <1>2. /\ pc[r] = "orchestrate" /\ pc'[r] = "coordinate"
        /\ work'[r] = ProposedArtifact(work[r], spec)
        /\ UNCHANGED <<stored, keys, began>> /\ Only(r)
    BY <1>1 DEF Orchestrates, At, Goes, Makes, Only, Typed, keys
  <1>3. Counted(work[r])
    BY <1>1, <1>2 DEF RunsInv, MadeAt
  <1>4. /\ work'[r].entities = work[r].entities /\ work'[r].total = work[r].total
        /\ work'[r].categories = work[r].categories /\ work'[r].governed = spec
    BY <1>2 DEF ProposedArtifact
  <1>5. MadeAt(pc'[r], work'[r], began'[r], vk)
    BY <1>1, <1>2, <1>3, <1>4 DEF MadeAt, Attesting, Counted, Typed
  <1>6. StoredAt(pc'[r], stored'[r], began'[r], vk)
    BY <1>1, <1>2, StoredStays
  <1>7. Typed' /\ RunsInv'
    BY <1>1, <1>2, <1>5, <1>6, OnlyMoves
  <1>8. KeyInv'
    BY <1>1, <1>2, KeyStays DEF keys
  <1> QED
    BY <1>7, <1>8 DEF EvidenceInv

LEMMA CoordinatesKeeps ==
  ASSUME EvidenceInv, NEW r \in Runs, Coordinates(r)
  PROVE  EvidenceInv'
  <1>1. Typed /\ RunsInv /\ KeyInv
    BY DEF EvidenceInv
  <1>2. /\ pc[r] = "coordinate" /\ pc'[r] \in {"persist", "redaction", "judge", "finish"}
        /\ work'[r] = Attested(work[r], spec)
        /\ UNCHANGED <<stored, keys, began>> /\ Only(r)
    BY <1>1 DEF Coordinates, At, Goes, Makes, Only, Typed, keys, Judged
  <1>3. Counted(work[r]) /\ work[r].governed \in Nat
    BY <1>1, <1>2 DEF RunsInv, MadeAt
  <1>4. Dossier(work'[r], began'[r], vk) /\ Bare(work'[r])
    BY <1>2, <1>3, AttestedDossier
  <1>5. MadeAt(pc'[r], work'[r], began'[r], vk)
    BY <1>2, <1>4 DEF MadeAt
  <1>6. stored[r] = None
    BY <1>1, <1>2 DEF RunsInv, StoredAt
  <1>7. StoredAt(pc'[r], stored'[r], began'[r], vk)
    BY <1>2, <1>6 DEF StoredAt
  <1>8. Typed' /\ RunsInv'
    BY <1>1, <1>2, <1>5, <1>7, OnlyMoves
  <1>9. KeyInv'
    BY <1>1, <1>2, KeyStays DEF keys
  <1> QED
    BY <1>8, <1>9 DEF EvidenceInv

(* What a run stores is its dossier.                                        *)
LEMMA StoresDossier ==
  ASSUME Typed, RunsInv, NEW r \in Runs, pc[r] \in Attesting, stored'[r] = work[r],
         began'[r] = began[r],
         pc'[r] \notin {"redact", "orchestrate", "coordinate", "persist"},
         pc'[r] = "redaction" => pc[r] = "persist"
  PROVE  StoredAt(pc'[r], stored'[r], began'[r], vk) /\ stored'[r].e2ee = None
  <1>1. Dossier(work[r], began[r], vk) /\ (pc[r] = "persist" => Bare(work[r]))
    BY DEF RunsInv, MadeAt
  <1>2. Opened(work[r]) = work[r] /\ work[r].e2ee = None
    BY <1>1, OpensAgain DEF Dossier, Agreed
  <1> QED
    BY <1>1, <1>2 DEF StoredAt

LEMMA StoresKeeps ==
  ASSUME EvidenceInv, NEW r \in Runs, Persists(r) \/ PersistsProofs(r) \/ Finishes(r)
  PROVE  EvidenceInv'
  <1>1. Typed /\ RunsInv /\ KeyInv
    BY DEF EvidenceInv
  <1>2. /\ pc[r] \in {"persist", "persistProofs", "finish"}
        /\ pc'[r] \in {"redaction", "encrypt", "succeeded"}
        /\ pc'[r] = "redaction" => pc[r] = "persist"
        /\ stored'[r] = work[r]
        /\ UNCHANGED <<work, keys, began>> /\ Only(r)
    BY <1>1 DEF Persists, PersistsProofs, Finishes, At, Goes, Writes, Only, Typed, keys,
                Encrypting
  <1>3. pc[r] \in Attesting
    BY <1>2 DEF Attesting
  <1>4. MadeAt(pc'[r], work'[r], began'[r], vk)
    BY <1>1, <1>2, <1>3 DEF MadeAt, RunsInv, Attesting
  <1>5. StoredAt(pc'[r], stored'[r], began'[r], vk) /\ stored'[r].e2ee = None
    BY <1>1, <1>2, <1>3, StoresDossier
  <1>6. Typed' /\ RunsInv'
    BY <1>1, <1>2, <1>4, <1>5, OnlyMoves
  <1>7. KeyInv'
    BY <1>1, <1>2, <1>5, KeyStays DEF keys
  <1> QED
    BY <1>6, <1>7 DEF EvidenceInv
-----------------------------------------------------------------------------
(* The proofs.  What is attached to a dossier makes a dossier, stored is     *)
(* nothing yet, and the first proof says with which key the run began.       *)
LEMMA AttachesKeeps ==
  ASSUME EvidenceInv, NEW r \in Runs, pc[r] \in Attesting,
         pc'[r] \in {"rule-binding", "pipeline", "entity", "persistProofs", "judge",
                     "universal", "finish", "failed"},
         began'[r] = began[r] \/ (pc[r] = "redaction" /\ began'[r] = vk),
         Dossier(work'[r], began'[r], vk), UNCHANGED <<stored, keys>>, Only(r)
  PROVE  EvidenceInv'
  <1>1. Typed /\ RunsInv /\ KeyInv
    BY DEF EvidenceInv
  <1>2. MadeAt(pc'[r], work'[r], began'[r], vk)
    BY DEF MadeAt
  <1>3. StoredAt(pc'[r], stored'[r], began'[r], vk)
    <2>1. StoredAt(pc[r], stored[r], began[r], vk)
      BY <1>1 DEF RunsInv
    <2>2. stored'[r] # None => Dossier(Opened(stored'[r]), began'[r], vk)
      <3>1. CASE began'[r] = began[r]
        BY <2>1, <3>1 DEF StoredAt
      <3>2. CASE pc[r] = "redaction"
        BY <2>1, <3>2, BareDossier DEF StoredAt
      <3> QED
        BY <3>1, <3>2
    <2> QED
      BY <2>2 DEF StoredAt
  <1>4. Typed' /\ RunsInv'
    BY <1>1, <1>2, <1>3, OnlyMoves
  <1>5. KeyInv'
    BY <1>1, KeyStays DEF keys
  <1> QED
    BY <1>4, <1>5 DEF EvidenceInv

LEMMA ProvesKeeps ==
  ASSUME EvidenceInv, NEW r \in Runs, NEW c \in Governance,
         Proves(r, c) \/ ProverFails(r, c)
  PROVE  EvidenceInv'
  <1>1. Typed /\ RunsInv
    BY DEF EvidenceInv
  <1>2. c \in {"redaction", "rule-binding", "pipeline"}
    BY DEF Governance
  <1>3. PICK p : /\ p = Failed \/ p = GovernanceProof(work[r], c, vk)
                 /\ work' = [work EXCEPT ![r] = [work[r] EXCEPT !.zk[c] = p]]
    BY DEF Proves, ProverFails, Makes
  <1>4. /\ pc[r] = c /\ pc' = [pc EXCEPT ![r] = AfterCircuit(c)]
        /\ UNCHANGED <<case, stored, keys>>
        /\ began' = IF c = "redaction" THEN [began EXCEPT ![r] = vk] ELSE began
    BY DEF Proves, ProverFails, At, Goes, Begun
  <1>5. /\ pc'[r] = AfterCircuit(c) /\ work'[r] = [work[r] EXCEPT !.zk[c] = p]
        /\ began'[r] = IF c = "redaction" THEN vk ELSE began[r]
    BY <1>1, <1>3, <1>4 DEF Typed
  <1>6. Only(r)
    BY <1>1, <1>3, <1>4, <1>5 DEF Only, Typed, keys
  <1>7. pc[r] \in Attesting /\ pc'[r] \in {"rule-binding", "pipeline", "entity"}
    BY <1>2, <1>4, <1>5 DEF Attesting, AfterCircuit
  <1>8. Dossier(work[r], began'[r], vk) /\ (c = "redaction" => Bare(work[r]))
    <2>1. Dossier(work[r], began[r], vk) /\ (c = "redaction" => Bare(work[r]))
      BY <1>1, <1>4, <1>7 DEF RunsInv, MadeAt
    <2> QED
      BY <1>5, <2>1, BareDossier
  <1>9. vk \in Nat /\ began'[r] \in Nat /\ began'[r] <= vk
    BY <1>1, <1>5 DEF Typed
  <1>10. Dossier(work'[r], began'[r], vk)
    <2> DEFINE a == work[r]
               b == began'[r]
               x == work'[r]
    <2>1. b \in Nat /\ vk \in Nat /\ b <= vk
      BY <1>9
    <2>2. Dossier(a, b, vk) /\ (c = "redaction" => Bare(a))
      BY <1>8
    <2>3. p = Failed \/ p = GovernanceProof(a, c, vk)
      BY <1>3
    <2>4. x = [a EXCEPT !.zk[c] = p]
      BY <1>5
    <2> HIDE DEF a, b, x
    <2>5. Dossier(x, b, vk)
      BY <2>1, <2>2, <2>3, <2>4, ProvedDossier
    <2> QED
      BY <2>5 DEF b, x
  <1> QED
    BY <1>4, <1>5, <1>6, <1>7, <1>10, AttachesKeeps

LEMMA ProvesEntitiesKeeps ==
  ASSUME EvidenceInv, NEW r \in Runs, NEW failing, ProvesEntities(r, failing)
  PROVE  EvidenceInv'
  <1>1. Typed /\ RunsInv
    BY DEF EvidenceInv
  <1>2. /\ pc[r] = "entity" /\ pc'[r] \in {"persistProofs", "judge", "finish"}
        /\ work'[r] = [work[r] EXCEPT !.entity =
                         EntityProofs(work[r].artifact, vk, failing)]
        /\ UNCHANGED <<stored, keys, began>> /\ Only(r)
    BY <1>1 DEF ProvesEntities, At, Goes, Makes, Only, Typed, keys, AfterProofs, Judged
  <1>3. pc[r] \in Attesting
    BY <1>2 DEF Attesting
  <1>4. Dossier(work[r], began[r], vk) /\ vk \in Nat /\ began[r] \in Nat /\ began[r] <= vk
    BY <1>1, <1>3 DEF RunsInv, MadeAt, Typed
  <1>5. Dossier(work'[r], began[r], vk)
    BY <1>2, <1>4, EntitiesDossier
  <1> QED
    BY <1>2, <1>3, <1>5, AttachesKeeps

(* A run that goes on without what a prover did not make.                   *)
LEMMA PassesKeeps ==
  ASSUME EvidenceInv, NEW r \in Runs, pc[r] \in Attesting,
         NEW stage \in {"judge", "finish"},
         UNCHANGED <<case, work, stored, keys, began>>, Goes(r, stage)
  PROVE  EvidenceInv'
  <1>1. Typed /\ RunsInv
    BY DEF EvidenceInv
  <1>2. pc'[r] = stage /\ UNCHANGED <<work, stored, keys, began>> /\ Only(r)
    BY <1>1 DEF Goes, Only, Typed, keys
  <1>3. Dossier(work'[r], began[r], vk)
    BY <1>1, <1>2 DEF RunsInv, MadeAt
  <1> QED
    BY <1>2, <1>3, AttachesKeeps

LEMMA JudgesKeeps ==
  ASSUME EvidenceInv, NEW r \in Runs, Judges(r)
  PROVE  EvidenceInv'
  <1> DEFINE claim == Claim(Profile(r), work[r])
  <1>1. Typed /\ RunsInv
    BY DEF EvidenceInv
  <1>2. /\ pc[r] = "judge" /\ pc'[r] \in {"failed", "universal", "finish"}
        /\ work'[r] = [work[r] EXCEPT !["claim"] = claim]
        /\ UNCHANGED <<stored, keys, began>> /\ Only(r)
    BY <1>1 DEF Judges, At, Goes, Makes, Only, Typed, keys
  <1> HIDE DEF claim
  <1>3. pc[r] \in Attesting
    BY <1>2 DEF Attesting
  <1>4. Dossier(work[r], began[r], vk)
    BY <1>1, <1>3 DEF RunsInv, MadeAt
  <1>5. Dossier(work'[r], began[r], vk)
    BY <1>2, <1>4, AttachedDossier
  <1> QED
    BY <1>2, <1>3, <1>5, AttachesKeeps

LEMMA ProvesUniversalKeeps ==
  ASSUME EvidenceInv, NEW r \in Runs, NEW valid, ProvesUniversal(r, valid)
  PROVE  EvidenceInv'
  <1> DEFINE proved == [work[r] EXCEPT !["universal"] = [valid |-> valid]]
             claim == IF AsksForUniversal(Profile(r)) THEN Claim(Profile(r), proved)
                      ELSE work[r].claim
  <1>1. Typed /\ RunsInv
    BY DEF EvidenceInv
  <1>2. /\ pc[r] = "universal" /\ pc'[r] \in {"failed", "finish"}
        /\ work'[r] = [proved EXCEPT !["claim"] = claim]
        /\ UNCHANGED <<stored, keys, began>> /\ Only(r)
    BY <1>1 DEF ProvesUniversal, At, Goes, Makes, Only, Typed, keys
  <1> HIDE DEF claim
  <1>3. pc[r] \in Attesting
    BY <1>2 DEF Attesting
  <1>4. Dossier(work[r], began[r], vk)
    BY <1>1, <1>3 DEF RunsInv, MadeAt
  <1>5. Dossier(proved, began[r], vk)
    BY <1>4, AttachedDossier
  <1> HIDE DEF proved
  <1>6. Dossier(work'[r], began[r], vk)
    BY <1>2, <1>5, AttachedDossier
  <1> QED
    BY <1>2, <1>3, <1>6, AttachesKeeps

(* Every step of the agents, the proofs and the profile.                    *)
LEMMA RunStepKeeps ==
  ASSUME EvidenceInv, NEW r \in Runs, AgentStep(r) \/ ProofStep(r) \/ ProfileStep(r)
  PROVE  EvidenceInv'
  <1>1. CASE Redacts(r)
    BY <1>1, RedactsKeeps
  <1>2. CASE RedactRaises(r)
    BY <1>2, EndsKeeps DEF RedactRaises, At
  <1>3. CASE Orchestrates(r)
    BY <1>3, OrchestratesKeeps
  <1>4. CASE Coordinates(r)
    BY <1>4, CoordinatesKeeps
  <1>5. CASE Persists(r) \/ PersistsProofs(r) \/ Finishes(r)
    BY <1>5, StoresKeeps
  <1>6. CASE \E c \in Governance : Proves(r, c) \/ ProverFails(r, c)
    BY <1>6, ProvesKeeps
  <1>7. CASE \E failing \in {{}} \cup {{i} : i \in 1..MaxInclusions + 4} :
               ProvesEntities(r, failing)
    BY <1>7, ProvesEntitiesKeeps
  <1>8. CASE EntitiesRaise(r)
    <2>1. pc[r] = "entity" /\ UNCHANGED <<case, work, stored, keys, began>>
      BY <1>8 DEF EntitiesRaise, At
    <2>2. pc[r] \in Attesting
      BY <2>1 DEF Attesting
    <2>3. Goes(r, "failed") \/ Goes(r, "judge")
      BY <1>8 DEF EntitiesRaise
    <2> QED
      BY <2>1, <2>2, <2>3, EndsKeeps, PassesKeeps
  <1>9. CASE Judges(r)
    BY <1>9, JudgesKeeps
  <1>10. CASE UniversalRaises(r)
    <2>1. pc[r] = "universal" /\ UNCHANGED <<case, work, stored, keys, began>>
      BY <1>10 DEF UniversalRaises, At
    <2>2. pc[r] \in Attesting
      BY <2>1 DEF Attesting
    <2>3. Goes(r, "failed") \/ Goes(r, "finish")
      BY <1>10 DEF UniversalRaises, Unproved
    <2> QED
      BY <2>1, <2>2, <2>3, EndsKeeps, PassesKeeps
  <1>11. CASE \E valid \in BOOLEAN : ProvesUniversal(r, valid)
    BY <1>11, ProvesUniversalKeeps
  <1> QED
    BY <1>1, <1>2, <1>3, <1>4, <1>5, <1>6, <1>7, <1>8, <1>9, <1>10, <1>11
    DEF AgentStep, ProofStep, ProfileStep
-----------------------------------------------------------------------------
(* The key of the encryption.                                               *)
LEMMA LoadsKeyKeeps ==
  ASSUME EvidenceInv, NEW r \in Runs, LoadsKey(r)
  PROVE  EvidenceInv'
  <1>1. Typed /\ RunsInv /\ KeyInv
    BY DEF EvidenceInv
  <1>2. /\ pc[r] = "encrypt" /\ pc'[r] = "hide" /\ keypair \in Runs
        /\ held'[r] = keypair /\ UNCHANGED <<work, stored, keypair, met, began>> /\ Only(r)
    BY <1>1 DEF LoadsKey, At, Goes, Only, Typed
  <1>3. MadeAt(pc'[r], work'[r], began'[r], vk)
    BY <1>1, <1>2 DEF MadeAt, RunsInv, Attesting
  <1>4. StoredAt(pc'[r], stored'[r], began'[r], vk)
    BY <1>1, <1>2, StoredStays
  <1>5. Typed' /\ RunsInv'
    BY <1>1, <1>2, <1>3, <1>4, OnlyMoves
  <1>6. KeyInv'
    <2>1. SUFFICES ASSUME ~met
                   PROVE  /\ \A q, s \in Runs :
                               {pc'[q], pc'[s]} \subseteq {"makeFile", "writeKey"} => q = s
                          /\ \A s \in Runs : KeyAt(pc[s], s)'
                          /\ \A s \in Runs : Locked(stored[s])'
      BY <1>2 DEF KeyInv
    <2>2. \A s \in Runs \ {r} : pc'[s] = pc[s] /\ held'[s] = held[s]
      BY <1>2 DEF Only
    <2>3. \A q, s \in Runs :
            {pc'[q], pc'[s]} \subseteq {"makeFile", "writeKey"} => q = s
      BY <1>1, <1>2, <2>1, <2>2 DEF KeyInv
    <2>4. \A s \in Runs : KeyAt(pc[s], s)'
      BY <1>1, <1>2, <2>1, <2>2 DEF KeyInv, KeyAt
    <2>5. \A s \in Runs : Locked(stored[s])'
      BY <1>1, <1>2, <2>1 DEF KeyInv, Locked
    <2> QED
      BY <2>3, <2>4, <2>5
  <1> QED
    BY <1>5, <1>6 DEF EvidenceInv

LEMMA MakesKeyKeeps ==
  ASSUME EvidenceInv, NEW r \in Runs, MakesKey(r)
  PROVE  EvidenceInv'
  <1>1. Typed /\ RunsInv /\ KeyInv
    BY DEF EvidenceInv
  <1>2. /\ pc[r] = "encrypt" /\ pc'[r] = "makeFile" /\ keypair = Absent
        /\ held'[r] = r /\ UNCHANGED <<work, stored, keypair, began>> /\ Only(r)
        /\ ~met' => ~met /\ \A s \in Runs \ {r} : pc[s] \notin {"makeFile", "writeKey"}
    BY <1>1 DEF MakesKey, At, Goes, Only, Typed
  <1>3. MadeAt(pc'[r], work'[r], began'[r], vk)
    BY <1>1, <1>2 DEF MadeAt, RunsInv, Attesting
  <1>4. StoredAt(pc'[r], stored'[r], began'[r], vk)
    BY <1>1, <1>2, StoredStays
  <1>5. Typed' /\ RunsInv'
    BY <1>1, <1>2, <1>3, <1>4, OnlyMoves
  <1>6. KeyInv'
    <2>1. SUFFICES ASSUME ~met'
                   PROVE  /\ \A q, s \in Runs :
                               {pc'[q], pc'[s]} \subseteq {"makeFile", "writeKey"} => q = s
                          /\ \A s \in Runs : KeyAt(pc[s], s)'
                          /\ \A s \in Runs : Locked(stored[s])'
      BY DEF KeyInv
    <2>2. \A s \in Runs \ {r} : pc'[s] = pc[s] /\ held'[s] = held[s]
      BY <1>2 DEF Only
    <2>3. \A q, s \in Runs :
            {pc'[q], pc'[s]} \subseteq {"makeFile", "writeKey"} => q = s
      BY <1>2, <2>1, <2>2
    <2>4. \A s \in Runs : KeyAt(pc[s], s)'
      BY <1>1, <1>2, <2>1, <2>2 DEF KeyInv, KeyAt
    <2>5. \A s \in Runs : Locked(stored[s])'
      BY <1>1, <1>2, <2>1 DEF KeyInv, Locked
    <2> QED
      BY <2>3, <2>4, <2>5
  <1> QED
    BY <1>5, <1>6 DEF EvidenceInv

LEMMA MakesFileKeeps ==
  ASSUME EvidenceInv, NEW r \in Runs, MakesFile(r)
  PROVE  EvidenceInv'
  <1>1. Typed /\ RunsInv /\ KeyInv
    BY DEF EvidenceInv
  <1>2. /\ pc[r] = "makeFile" /\ pc'[r] = "writeKey" /\ keypair' = Torn
        /\ UNCHANGED <<work, stored, held, met, began>> /\ Only(r)
    BY <1>1 DEF MakesFile, At, Goes, Only, Typed
  <1>3. MadeAt(pc'[r], work'[r], began'[r], vk)
    BY <1>1, <1>2 DEF MadeAt, RunsInv, Attesting
  <1>4. StoredAt(pc'[r], stored'[r], began'[r], vk)
    BY <1>1, <1>2, StoredStays
  <1>5. Typed' /\ RunsInv'
    BY <1>1, <1>2, <1>3, <1>4, OnlyMoves
  <1>6. KeyInv'
    <2>1. SUFFICES ASSUME ~met
                   PROVE  /\ \A q, s \in Runs :
                               {pc'[q], pc'[s]} \subseteq {"makeFile", "writeKey"} => q = s
                          /\ \A s \in Runs : KeyAt(pc[s], s)'
                          /\ \A s \in Runs : Locked(stored[s])'
      BY <1>2 DEF KeyInv
    <2>2. \A s \in Runs \ {r} : pc'[s] = pc[s]
      BY <1>2 DEF Only
    <2>3. /\ \A s \in Runs \ {r} : pc[s] \notin {"makeFile", "writeKey"}
          /\ keypair = Absent /\ held[r] = r
      BY <1>1, <1>2, <2>1 DEF KeyInv, KeyAt
    <2>4. keypair \notin Runs
      BY <2>3, EvidenceAssumption
    <2>5. \A s \in Runs \ {r} : pc[s] # "hide"
      BY <1>1, <2>1, <2>4 DEF KeyInv, KeyAt
    <2>6. \A q, s \in Runs :
            {pc'[q], pc'[s]} \subseteq {"makeFile", "writeKey"} => q = s
      BY <2>2, <2>3
    <2>7. \A s \in Runs : KeyAt(pc[s], s)'
      BY <1>2, <2>2, <2>3, <2>5 DEF KeyAt
    <2>8. \A s \in Runs : Locked(stored[s])'
      BY <1>1, <1>2, <2>1, <2>4 DEF KeyInv, Locked
    <2> QED
      BY <2>6, <2>7, <2>8
  <1> QED
    BY <1>5, <1>6 DEF EvidenceInv

LEMMA WritesKeyKeeps ==
  ASSUME EvidenceInv, NEW r \in Runs, WritesKey(r)
  PROVE  EvidenceInv'
  <1>1. Typed /\ RunsInv /\ KeyInv
    BY DEF EvidenceInv
  <1>2. /\ pc[r] = "writeKey" /\ pc'[r] = "hide" /\ keypair' = held[r]
        /\ UNCHANGED <<work, stored, held, met, began>> /\ Only(r)
    BY <1>1 DEF WritesKey, At, Goes, Only, Typed
  <1>3. MadeAt(pc'[r], work'[r], began'[r], vk)
    BY <1>1, <1>2 DEF MadeAt, RunsInv, Attesting
  <1>4. StoredAt(pc'[r], stored'[r], began'[r], vk)
    BY <1>1, <1>2, StoredStays
  <1>5. Typed' /\ RunsInv'
    BY <1>1, <1>2, <1>3, <1>4, OnlyMoves
  <1>6. KeyInv'
    <2>1. SUFFICES ASSUME ~met
                   PROVE  /\ \A q, s \in Runs :
                               {pc'[q], pc'[s]} \subseteq {"makeFile", "writeKey"} => q = s
                          /\ \A s \in Runs : KeyAt(pc[s], s)'
                          /\ \A s \in Runs : Locked(stored[s])'
      BY <1>2 DEF KeyInv
    <2>2. \A s \in Runs \ {r} : pc'[s] = pc[s]
      BY <1>2 DEF Only
    <2>3. /\ \A s \in Runs \ {r} : pc[s] \notin {"makeFile", "writeKey"}
          /\ keypair = Torn /\ held[r] = r
      BY <1>1, <1>2, <2>1 DEF KeyInv, KeyAt
    <2>4. keypair \notin Runs
      BY <2>3, EvidenceAssumption
    <2>5. \A s \in Runs \ {r} : pc[s] # "hide"
      BY <1>1, <2>1, <2>4 DEF KeyInv, KeyAt
    <2>6. \A q, s \in Runs :
            {pc'[q], pc'[s]} \subseteq {"makeFile", "writeKey"} => q = s
      BY <1>2, <2>2, <2>3
    <2>7. \A s \in Runs : KeyAt(pc[s], s)'
      BY <1>2, <2>2, <2>3, <2>5 DEF KeyAt
    <2>8. \A s \in Runs : Locked(stored[s])'
      BY <1>1, <1>2, <2>1, <2>4 DEF KeyInv, Locked
    <2> QED
      BY <2>6, <2>7, <2>8
  <1> QED
    BY <1>5, <1>6 DEF EvidenceInv

LEMMA HidesKeeps ==
  ASSUME EvidenceInv, NEW r \in Runs, Hides(r)
  PROVE  EvidenceInv'
  <1>1. Typed /\ RunsInv /\ KeyInv
    BY DEF EvidenceInv
  <1>2. /\ pc[r] = "hide" /\ pc'[r] = "succeeded"
        /\ stored'[r] = Encrypted(work[r], held[r])
        /\ UNCHANGED <<keypair, held, met, began>> /\ Only(r)
    BY <1>1 DEF Hides, At, Goes, Makes, Writes, Only, Typed, keys
  <1>3. Dossier(work[r], began[r], vk)
    BY <1>1, <1>2 DEF RunsInv, MadeAt, Attesting
  <1>4. Opened(stored'[r]) = work[r] /\ stored'[r].e2ee.key = held[r]
    BY <1>2, <1>3, OpensAgain DEF Dossier
  <1>5. MadeAt(pc'[r], work'[r], began'[r], vk)
    BY <1>2 DEF MadeAt, Attesting
  <1>6. StoredAt(pc'[r], stored'[r], began'[r], vk)
    BY <1>2, <1>3, <1>4 DEF StoredAt
  <1>7. Typed' /\ RunsInv'
    BY <1>1, <1>2, <1>5, <1>6, OnlyMoves
  <1>8. KeyInv'
    <2>1. SUFFICES ASSUME ~met
                   PROVE  /\ \A q, s \in Runs :
                               {pc'[q], pc'[s]} \subseteq {"makeFile", "writeKey"} => q = s
                          /\ \A s \in Runs : KeyAt(pc[s], s)'
                          /\ \A s \in Runs : Locked(stored[s])'
      BY <1>2 DEF KeyInv
    <2>2. \A s \in Runs \ {r} : pc'[s] = pc[s] /\ stored'[s] = stored[s]
      BY <1>2 DEF Only
    <2>3. keypair \in Runs /\ held[r] = keypair
      BY <1>1, <1>2, <2>1 DEF KeyInv, KeyAt
    <2>4. \A q, s \in Runs :
            {pc'[q], pc'[s]} \subseteq {"makeFile", "writeKey"} => q = s
      BY <1>1, <1>2, <2>1, <2>2 DEF KeyInv
    <2>5. \A s \in Runs : KeyAt(pc[s], s)'
      BY <1>1, <1>2, <2>1, <2>2 DEF KeyInv, KeyAt
    <2>6. \A s \in Runs : Locked(stored[s])'
      BY <1>1, <1>2, <1>4, <2>1, <2>2, <2>3 DEF KeyInv, Locked
    <2> QED
      BY <2>4, <2>5, <2>6
  <1> QED
    BY <1>7, <1>8 DEF EvidenceInv

LEMMA KeyStepKeeps ==
  ASSUME EvidenceInv, NEW r \in Runs, KeyStep(r) \/ Dies(r)
  PROVE  EvidenceInv'
  <1>1. CASE RefusesKey(r)
    BY <1>1, EndsKeeps DEF RefusesKey, At
  <1>2. CASE Dies(r)
    BY <1>2, EndsKeeps DEF Dies
  <1> QED
    BY <1>1, <1>2, LoadsKeyKeeps, MakesKeyKeeps, MakesFileKeeps, WritesKeyKeeps,
       HidesKeeps DEF KeyStep
-----------------------------------------------------------------------------
(* The operator.                                                            *)
LEMMA ChangesSpecsKeeps ==
  ASSUME EvidenceInv, ChangesSpecs
  PROVE  EvidenceInv'
  <1>1. spec' \in Nat
    BY DEF EvidenceInv, Typed, ChangesSpecs
  <1> QED
    BY <1>1 DEF EvidenceInv, Typed, RunsInv, KeyInv, KeyAt, Locked, ChangesSpecs

LEMMA RotatesKeysKeeps ==
  ASSUME EvidenceInv, RotatesKeys
  PROVE  EvidenceInv'
  <1>1. /\ vk \in Nat /\ vk' = vk + 1 /\ began \in [Runs -> Nat]
        /\ \A r \in Runs : began[r] <= vk
        /\ UNCHANGED <<case, pc, work, stored, spec, keypair, held, met, began>>
    BY DEF EvidenceInv, Typed, RotatesKeys
  <1>2. Typed' /\ KeyInv'
    BY <1>1 DEF EvidenceInv, Typed, KeyInv, KeyAt, Locked
  <1>3. \A a : \A r \in Runs : Dossier(a, began[r], vk) => Dossier(a, began[r], vk')
    BY <1>1, DossierLater
  <1>4. ASSUME NEW r \in Runs
        PROVE  /\ MadeAt(pc[r], work[r], began[r], vk')
               /\ StoredAt(pc[r], stored[r], began[r], vk')
    BY <1>3 DEF EvidenceInv, RunsInv, MadeAt, StoredAt
  <1>5. RunsInv'
    BY <1>1, <1>4 DEF RunsInv
  <1> QED
    BY <1>2, <1>5 DEF EvidenceInv
-----------------------------------------------------------------------------
LEMMA StartsEvidence ==
  ASSUME Init
  PROVE  EvidenceInv
  <1>1. Typed
    BY DEF Init, Typed
  <1>2. RunsInv
    BY DEF Init, RunsInv, MadeAt, StoredAt, Attesting
  <1>3. KeyInv
    BY DEF Init, KeyInv, KeyAt, Locked
  <1> QED
    BY <1>1, <1>2, <1>3 DEF EvidenceInv

LEMMA NextKeepsEvidence ==
  ASSUME EvidenceInv, [Next]_vars
  PROVE  EvidenceInv'
  <1>1. CASE UNCHANGED vars
    BY <1>1 DEF EvidenceInv, Typed, RunsInv, KeyInv, KeyAt, Locked, vars, keys
  <1>2. CASE Next
    BY <1>2, RunStepKeeps, KeyStepKeeps, ChangesSpecsKeeps, RotatesKeysKeeps DEF Next
  <1> QED
    BY <1>1, <1>2

(* Opening changes nothing that the circuits' verifier reads.               *)
LEMMA OpenedProofs ==
  ASSUME NEW x
  PROVE  /\ AllValid(x) => AllValid(Opened(x))
         /\ \A v : VerifyRealZk(Opened(x), v) => VerifyRealZk(x, v)
  <1>1. Opened(x).zk = x.zk /\ Opened(x).entity = x.entity
    BY DEF Opened
  <1> QED
    BY <1>1 DEF AllValid, VerifyRealZk, Accepted

LEMMA EvidenceVerifies ==
  ASSUME EvidenceInv
  PROVE  FreshVerifies
  <1> SUFFICES ASSUME NEW r \in Runs, stored[r] # None
               PROVE  /\ met \/ CanOpen(stored[r], keypair)
                      /\ VerifyPython(Opened(stored[r]))
                      /\ InputsMatch(Opened(stored[r]))
                      /\ AllValid(stored[r]) /\ vk = began[r] =>
                           VerifyRealZk(stored[r], vk)
    BY DEF FreshVerifies
  <1>1. Dossier(Opened(stored[r]), began[r], vk) /\ began[r] \in Nat /\ vk \in Nat
    BY DEF EvidenceInv, Typed, RunsInv, StoredAt
  <1>2. met \/ CanOpen(stored[r], keypair)
    BY DEF EvidenceInv, KeyInv, Locked, CanOpen
  <1>3. /\ VerifyPython(Opened(stored[r])) /\ InputsMatch(Opened(stored[r]))
        /\ AllValid(Opened(stored[r])) /\ vk = began[r] =>
             VerifyRealZk(Opened(stored[r]), vk)
    BY <1>1, DossierVerifies
  <1> QED
    BY <1>2, <1>3, OpenedProofs

(* What a run has stored verifies later: it opens with the key in its file   *)
(* unless two runs made a key at once, verify_attestation.py recomputes its   *)
(* hashes, its decision and its chain, each proof in it stands for the        *)
(* inputs that the artifact gives, and proofs all made with one key of the    *)
(* circuits are accepted as long as it is in force (agents/zk/bridge.py,      *)
(* agents/encryption_engine.py).                                             *)
THEOREM StoredVerifies == Spec => []FreshVerifies
  <1>1. Init => EvidenceInv
    BY StartsEvidence
  <1>2. EvidenceInv /\ [Next]_vars => EvidenceInv'
    BY NextKeepsEvidence
  <1>3. EvidenceInv => FreshVerifies
    BY EvidenceVerifies
  <1> QED
    BY <1>1, <1>2, <1>3, PTL DEF Spec
-----------------------------------------------------------------------------
(* The levels of a tree, and the places of a path in them, are what their   *)
(* recursions say: both have a solution, for as many levels as there are.    *)
LEMMA LevelsAre ==
  ASSUME NEW S, NEW leaves \in Seq(S)
  PROVE  Levels(leaves) =
           [k \in 0..Len(leaves) |->
              IF k = 0 THEN [i \in DOMAIN leaves |-> DomainLeaf(leaves[i])]
              ELSE Paired(Levels(leaves)[k - 1])]
  <1> DEFINE n == Len(leaves)
             base == [i \in DOMAIN leaves |-> DomainLeaf(leaves[i])]
             Step(f, k) == IF k = 0 THEN base ELSE Paired(f[k - 1])
             Solves(f, m) == \A k \in 0..m : f[k] = Step(f, k)
             T == {m \in 0..n : ~ \E f : Solves(f, m)}
  <1>1. n \in Nat
    OBVIOUS
  <1>2. Levels(leaves) = CHOOSE level : level = [k \in 0..n |-> Step(level, k)]
    BY DEF Levels
  <1> HIDE DEF n, base
  <1>3. T = {}
    <2>1. SUFFICES ASSUME T # {}
                   PROVE  FALSE
      OBVIOUS
    <2>2. T \in SUBSET Nat
      OBVIOUS
    <2>3. PICK m \in T : \A k \in T : m <= k
      BY <2>1, <2>2, LeastOfNumbers
    <2>4. m \in 0..n /\ ~ \E f : Solves(f, m)
      OBVIOUS
    <2>5. CASE m = 0
      <3> DEFINE f == [k \in 0..0 |-> base]
      <3>1. Solves(f, 0)
        OBVIOUS
      <3> QED
        BY <2>4, <2>5, <3>1
    <2>6. CASE m # 0
      <3>1. m - 1 \in 0..n /\ m - 1 \notin T
        <4>1. m \in 0..n
          BY <2>4
        <4>2. \A k \in T : m <= k
          BY <2>3
        <4> HIDE DEF T
        <4> QED
          BY <1>1, <2>6, <4>1, <4>2
      <3>2. PICK g : Solves(g, m - 1)
        BY <3>1
      <3> DEFINE f == [k \in 0..m |-> IF k < m THEN g[k] ELSE Paired(g[m - 1])]
      <3>3. ASSUME NEW k \in 0..m
            PROVE  f[k] = Step(f, k)
        <4>1. k # m => k \in 0..(m - 1) /\ k < m
          BY <2>4
        <4>2. k # 0 => k - 1 \in 0..m /\ k - 1 < m
          BY <2>4
        <4>3. k # m => g[k] = Step(g, k)
          BY <3>2, <4>1
        <4>4. k # 0 => f[k - 1] = g[k - 1]
          BY <4>2
        <4>5. ~(m < m)
          BY <2>4
        <4> HIDE DEF Solves
        <4> QED
          BY <2>6, <4>1, <4>3, <4>4, <4>5
      <3> QED
        BY <2>4, <3>3
    <2> QED
      BY <2>5, <2>6
  <1>4. PICK g : Solves(g, n)
    <2>1. n \in 0..n
      BY <1>1
    <2> QED
      BY <1>3, <2>1
  <1> DEFINE f == [k \in 0..n |-> g[k]]
  <1>5. f = [k \in 0..n |-> Step(f, k)]
    <2>1. ASSUME NEW k \in 0..n
          PROVE  f[k] = Step(f, k)
      <3>1. k # 0 => k - 1 \in 0..n
        BY <1>1
      <3>2. g[k] = Step(g, k)
        BY <1>4
      <3> QED
        BY <3>1, <3>2
    <2> QED
      BY <2>1
  <1> HIDE DEF f, Step
  <1>6. Levels(leaves) = [k \in 0..n |-> Step(Levels(leaves), k)]
    BY <1>2, <1>5
  <1> QED
    BY <1>6 DEF Step, n, base

LEMMA IndexIs ==
  ASSUME NEW i
  PROVE  Index(i) = [k \in 0..MerkleDepth |->
                       IF k = 0 THEN i ELSE Index(i)[k - 1] \div 2]
  <1> DEFINE n == MerkleDepth
             Step(f, k) == IF k = 0 THEN i ELSE f[k - 1] \div 2
             Solves(f, m) == \A k \in 0..m : f[k] = Step(f, k)
             T == {m \in 0..n : ~ \E f : Solves(f, m)}
  <1>1. n \in Nat
    BY MerkleAssumption
  <1>2. Index(i) = CHOOSE index : index = [k \in 0..n |-> Step(index, k)]
    BY DEF Index
  <1> HIDE DEF n
  <1>3. T = {}
    <2>1. SUFFICES ASSUME T # {}
                   PROVE  FALSE
      OBVIOUS
    <2>2. T \in SUBSET Nat
      OBVIOUS
    <2>3. PICK m \in T : \A k \in T : m <= k
      BY <2>1, <2>2, LeastOfNumbers
    <2>4. m \in 0..n /\ ~ \E f : Solves(f, m)
      OBVIOUS
    <2>5. CASE m = 0
      <3> DEFINE f == [k \in 0..0 |-> i]
      <3>1. Solves(f, 0)
        OBVIOUS
      <3> QED
        BY <2>4, <2>5, <3>1
    <2>6. CASE m # 0
      <3>1. m - 1 \in 0..n /\ m - 1 \notin T
        <4>1. m \in 0..n
          BY <2>4
        <4>2. \A k \in T : m <= k
          BY <2>3
        <4> HIDE DEF T
        <4> QED
          BY <1>1, <2>6, <4>1, <4>2
      <3>2. PICK g : Solves(g, m - 1)
        BY <3>1
      <3> DEFINE f == [k \in 0..m |-> IF k < m THEN g[k] ELSE g[m - 1] \div 2]
      <3>3. ASSUME NEW k \in 0..m
            PROVE  f[k] = Step(f, k)
        <4>1. k # m => k \in 0..(m - 1) /\ k < m
          BY <2>4
        <4>2. k # 0 => k - 1 \in 0..m /\ k - 1 < m
          BY <2>4
        <4>3. k # m => g[k] = Step(g, k)
          BY <3>2, <4>1
        <4>4. k # 0 => f[k - 1] = g[k - 1]
          BY <4>2
        <4>5. ~(m < m)
          BY <2>4
        <4> HIDE DEF Solves
        <4> QED
          BY <2>6, <4>1, <4>3, <4>4, <4>5
      <3> QED
        BY <2>4, <3>3
    <2> QED
      BY <2>5, <2>6
  <1>4. PICK g : Solves(g, n)
    <2>1. n \in 0..n
      BY <1>1
    <2> QED
      BY <1>3, <2>1
  <1> DEFINE f == [k \in 0..n |-> g[k]]
  <1>5. f = [k \in 0..n |-> Step(f, k)]
    <2>1. ASSUME NEW k \in 0..n
          PROVE  f[k] = Step(f, k)
      <3>1. k # 0 => k - 1 \in 0..n
        BY <1>1
      <3>2. g[k] = Step(g, k)
        BY <1>4
      <3> QED
        BY <3>1, <3>2
    <2> QED
      BY <2>1
  <1> HIDE DEF f, Step
  <1>6. Index(i) = [k \in 0..n |-> Step(Index(i), k)]
    BY <1>2, <1>5
  <1> QED
    BY <1>6 DEF Step, n
-----------------------------------------------------------------------------
(* A level up: what is paired, and what a path meets there.                 *)
LEMMA Halves ==
  ASSUME NEW a \in Nat
  PROVE  \E m \in Nat : \/ a = 2 * m /\ a \div 2 = m /\ a % 2 = 0
                        \/ a = 2 * m + 1 /\ a \div 2 = m /\ a % 2 = 1
  <1> DEFINE T == {x \in Nat : ~ \E m \in Nat : x = 2 * m \/ x = 2 * m + 1}
  <1>1. T = {}
    <2>1. SUFFICES ASSUME T # {}
                   PROVE  FALSE
      OBVIOUS
    <2>2. T \in SUBSET Nat
      OBVIOUS
    <2>3. PICK x \in T : \A y \in T : x <= y
      BY <2>1, <2>2, LeastOfNumbers
    <2>4. x \in Nat /\ ~ \E m \in Nat : x = 2 * m \/ x = 2 * m + 1
      OBVIOUS
    <2>5. x # 0
      BY <2>4
    <2>6. x - 1 \in Nat /\ x - 1 \notin T
      <3>1. x - 1 \in Nat
        BY <2>4, <2>5
      <3>2. \A y \in T : x <= y
        BY <2>3
      <3> HIDE DEF T
      <3> QED
        BY <2>4, <3>1, <3>2
    <2>7. PICK m \in Nat : x - 1 = 2 * m \/ x - 1 = 2 * m + 1
      BY <2>6
    <2>8. x = 2 * m + 1 \/ x = 2 * (m + 1)
      BY <2>4, <2>7
    <2>9. m + 1 \in Nat
      OBVIOUS
    <2> QED
      BY <2>4, <2>8, <2>9
  <1>2. PICK m \in Nat : a = 2 * m \/ a = 2 * m + 1
    BY <1>1
  <1>3. CASE a = 2 * m
    <2>1. a \div 2 = m
      BY <1>3
    <2>2. a % 2 = 0
      BY <1>3
    <2> QED
      BY <1>3, <2>1, <2>2
  <1>4. CASE a = 2 * m + 1
    <2>1. a \div 2 = m
      BY <1>4
    <2>2. a % 2 = 1
      BY <1>4
    <2> QED
      BY <1>4, <2>1, <2>2
  <1> QED
    BY <1>2, <1>3, <1>4

Hashed(h, s) == IF s.side = 0 THEN HashTwo(h, s.element) ELSE HashTwo(s.element, h)

LEMMA PairedIs ==
  ASSUME NEW level, Len(level) \in Nat
  PROVE  /\ (Len(level) + 1) \div 2 \in Nat
         /\ Len(Paired(level)) = (Len(level) + 1) \div 2
         /\ DOMAIN Paired(level) = 1..Len(Paired(level))
         /\ Len(level) > 0 => Len(Paired(level)) > 0
         /\ Len(level) > 1 => Len(Paired(level)) < Len(level)
  <1> DEFINE m == (Len(level) + 1) \div 2
             at(i) == HashTwo(level[2 * i - 1],
                              IF 2 * i <= Len(level) THEN level[2 * i] ELSE Padding)
  <1>1. PICK k \in Nat : \/ Len(level) + 1 = 2 * k /\ m = k
                         \/ Len(level) + 1 = 2 * k + 1 /\ m = k
    <2>1. Len(level) + 1 \in Nat
      OBVIOUS
    <2> QED
      BY <2>1, Halves
  <1>2. m \in Nat
    BY <1>1
  <1>3. Paired(level) = [i \in 1..m |-> at(i)]
    BY DEF Paired
  <1>4. (Len(level) > 0 => m > 0) /\ (Len(level) > 1 => m < Len(level))
    BY <1>1
  <1> HIDE DEF m, at
  <1>5. Len(Paired(level)) = m /\ DOMAIN Paired(level) = 1..m
    <2>1. [i \in 1..m |-> at(i)] \in Seq({at(i) : i \in 1..m})
      BY <1>2
    <2> QED
      BY <1>2, <1>3
  <1> QED
    BY <1>2, <1>4, <1>5 DEF m

LEMMA OneUp ==
  ASSUME NEW level, Len(level) \in Nat, NEW a \in Nat, a < Len(level)
  PROVE  /\ a \div 2 \in Nat
         /\ a \div 2 < Len(Paired(level))
         /\ Paired(level)[a \div 2 + 1] =
              Hashed(level[a + 1], [element |-> Sibling(level, a), side |-> a % 2])
  <1> DEFINE n == Len(level)
             at(i) == HashTwo(level[2 * i - 1],
                              IF 2 * i <= n THEN level[2 * i] ELSE Padding)
  <1>1. PICK m \in Nat : \/ a = 2 * m /\ a \div 2 = m /\ a % 2 = 0
                         \/ a = 2 * m + 1 /\ a \div 2 = m /\ a % 2 = 1
    BY Halves
  <1>2. PICK k \in Nat : \/ n + 1 = 2 * k /\ (n + 1) \div 2 = k
                         \/ n + 1 = 2 * k + 1 /\ (n + 1) \div 2 = k
    <2>1. n + 1 \in Nat
      OBVIOUS
    <2> QED
      BY <2>1, Halves
  <1>3. n \in Nat /\ a < n
    OBVIOUS
  <1>4. Len(Paired(level)) = k
    BY <1>2, PairedIs
  <1>5. m < k
    BY <1>1, <1>2, <1>3
  <1>6. Paired(level)[m + 1] = at(m + 1)
    BY <1>2, <1>5 DEF Paired
  <1>7. 2 * (m + 1) - 1 = 2 * m + 1 /\ 2 * (m + 1) = 2 * m + 2
    OBVIOUS
  <1>8. CASE a = 2 * m /\ a \div 2 = m /\ a % 2 = 0
    <2>1. Sibling(level, a) = IF a + 1 < n THEN level[a + 2] ELSE Padding
      BY <1>8 DEF Sibling
    <2>2. at(m + 1) = HashTwo(level[a + 1], IF a + 2 <= n THEN level[a + 2] ELSE Padding)
      BY <1>7, <1>8
    <2>3. a + 1 < n <=> a + 2 <= n
      BY <1>3
    <2> QED
      BY <1>4, <1>5, <1>6, <1>8, <2>1, <2>2, <2>3 DEF Hashed
  <1>9. CASE a = 2 * m + 1 /\ a \div 2 = m /\ a % 2 = 1
    <2>1. Sibling(level, a) = level[a]
      <3>1. a - 1 < n /\ (a - 1) + 1 = a
        BY <1>3
      <3> QED
        BY <1>9, <3>1 DEF Sibling
    <2>2. at(m + 1) = HashTwo(level[a], level[a + 1])
      <3>1. 2 * m + 2 <= n /\ a + 1 = 2 * m + 2
        BY <1>3, <1>9
      <3> QED
        BY <1>7, <1>9, <3>1
    <2> QED
      BY <1>4, <1>5, <1>6, <1>9, <2>1, <2>2 DEF Hashed
  <1> QED
    BY <1>1, <1>8, <1>9

(* The levels get shorter until one hash is left, so the tree has a height. *)
LEMMA LevelsShrink ==
  ASSUME NEW S, NEW leaves \in Seq(S), leaves # <<>>
  PROVE  \A k \in 0..Len(leaves) :
           LET level == Levels(leaves)[k] IN
           /\ Len(level) \in Nat \ {0}
           /\ Len(level) = 1 \/ Len(level) + k <= Len(leaves)
  <1> DEFINE n == Len(leaves)
             L == Levels(leaves)
             Fine(k) == /\ Len(L[k]) \in Nat \ {0}
                        /\ Len(L[k]) = 1 \/ Len(L[k]) + k <= n
             T == {k \in 0..n : ~Fine(k)}
  <1>1. n \in Nat \ {0} /\ DOMAIN leaves = 1..n
    BY EmptySeq
  <1>2. L[0] = [i \in 1..n |-> DomainLeaf(leaves[i])]
    BY <1>1, LevelsAre
  <1>3. \A k \in 0..n : k # 0 => L[k] = Paired(L[k - 1])
    <2>1. ASSUME NEW k \in 0..n, k # 0
          PROVE  L[k] = Paired(L[k - 1])
      <3>1. L = [j \in 0..n |-> IF j = 0 THEN [i \in DOMAIN leaves |-> DomainLeaf(leaves[i])]
                                ELSE Paired(L[j - 1])]
        BY LevelsAre
      <3> HIDE DEF L, n
      <3> QED
        BY <2>1, <3>1
    <2> QED
      BY <2>1
  <1>4. Len(L[0]) = n
    <2>1. [i \in 1..n |-> DomainLeaf(leaves[i])] \in Seq({DomainLeaf(leaves[i]) : i \in 1..n})
      BY <1>1
    <2> HIDE DEF L, n
    <2> QED
      BY <1>1, <1>2
  <1> HIDE DEF L, n
  <1>5. T = {}
    <2>1. SUFFICES ASSUME T # {}
                   PROVE  FALSE
      OBVIOUS
    <2>2. T \in SUBSET Nat
      BY <1>1
    <2>3. PICK k \in T : \A j \in T : k <= j
      BY <2>1, <2>2, LeastOfNumbers
    <2>4. k \in 0..n /\ ~Fine(k)
      OBVIOUS
    <2>5. k # 0
      BY <1>1, <1>4, <2>4
    <2>6. k - 1 \in 0..n /\ k - 1 \notin T
      <3>1. k - 1 \in 0..n
        BY <1>1, <2>4, <2>5
      <3>2. \A j \in T : k <= j
        BY <2>3
      <3> HIDE DEF T
      <3> QED
        BY <3>1, <3>2, <2>4, <1>1
    <2>7. Fine(k - 1) /\ L[k] = Paired(L[k - 1])
      BY <1>3, <2>4, <2>5, <2>6
    <2>8. Len(L[k]) \in Nat /\ Len(L[k]) > 0 /\ (Len(L[k - 1]) > 1 => Len(L[k]) < Len(L[k - 1]))
      BY <2>7, PairedIs
    <2>9. Len(L[k - 1]) = 1 => Len(L[k]) = 1
      <3>1. (1 + 1) \div 2 = 1
        OBVIOUS
      <3> QED
        BY <2>7, <3>1, PairedIs
    <2>10. Len(L[k - 1]) \in Nat \ {0} /\ (Len(L[k - 1]) = 1 \/ Len(L[k - 1]) + (k - 1) <= n)
      BY <2>7
    <2>11. k \in Nat /\ n \in Nat
      BY <1>1
    <2> DEFINE low == Len(L[k - 1])
               high == Len(L[k])
    <2>12. high \in Nat \ {0} /\ (high = 1 \/ high + k <= n)
      <3>1. low \in Nat \ {0} /\ (low = 1 \/ low + (k - 1) <= n)
        BY <2>10
      <3>2. high \in Nat /\ high > 0 /\ (low > 1 => high < low) /\ (low = 1 => high = 1)
        BY <2>8, <2>9
      <3> HIDE DEF low, high
      <3> QED
        BY <2>11, <3>1, <3>2
    <2> QED
      BY <2>4, <2>12
  <1> QED
    BY <1>5 DEF L, n

LEMMA HeightIs ==
  ASSUME NEW S, NEW leaves \in Seq(S), leaves # <<>>
  PROVE  /\ Height(leaves) \in 0..Len(leaves)
         /\ Len(Levels(leaves)[Height(leaves)]) = 1
  <1> DEFINE n == Len(leaves)
             L == Levels(leaves)
             One(k) == Len(L[k]) <= 1
             T == {k \in 0..n : One(k)}
  <1>1. n \in Nat \ {0}
    BY EmptySeq
  <1>2. \A k \in 0..n : Len(L[k]) \in Nat \ {0} /\ (Len(L[k]) = 1 \/ Len(L[k]) + k <= n)
    BY LevelsShrink
  <1>3. Height(leaves) = CHOOSE k \in 0..n : One(k) /\ \A j \in 0..k - 1 : Len(L[j]) > 1
    BY DEF Height
  <1> HIDE DEF L, n
  <1>4. n \in T
    <2>1. n \in 0..n
      BY <1>1
    <2>2. Len(L[n]) = 1
      BY <1>1, <1>2, <2>1
    <2>3. One(n)
      BY <2>2
    <2> HIDE DEF One
    <2> QED
      BY <2>1, <2>3
  <1>5. T \in SUBSET Nat
    BY <1>1
  <1>6. PICK k \in T : \A j \in T : k <= j
    BY <1>4, <1>5, LeastOfNumbers
  <1>7. k \in 0..n /\ One(k)
    OBVIOUS
  <1>8. ASSUME NEW j \in 0..k - 1
        PROVE  Len(L[j]) > 1
    <2>1. j \in 0..n /\ ~(k <= j)
      BY <1>1, <1>7
    <2>2. j \notin T
      <3>1. \A i \in T : k <= i
        BY <1>6
      <3> HIDE DEF T
      <3> QED
        BY <2>1, <3>1
    <2>3. ~One(j)
      BY <2>1, <2>2
    <2> QED
      BY <1>2, <2>1, <2>3
  <1>9. Height(leaves) \in 0..n /\ One(Height(leaves))
    BY <1>3, <1>7, <1>8
  <1> DEFINE one == Len(L[Height(leaves)])
  <1>10. one \in Nat \ {0} /\ one <= 1
    BY <1>2, <1>9
  <1>11. one = 1
    <2> HIDE DEF one
    <2> QED
      BY <1>10
  <1> QED
    BY <1>9, <1>11 DEF L, n
-----------------------------------------------------------------------------
(* A fold of hashes, step by step.                                          *)
HashFold(g, n, base, steps) ==
  g = [s \in SUBSET (1..n) |->
         IF s = {} THEN base ELSE Hashed(g[s \ {Max(s)}], steps[Max(s)])]

LEMMA HashFoldExists ==
  ASSUME NEW n \in Nat, NEW base, NEW steps
  PROVE  \E g : HashFold(g, n, base, steps)
  <1> DEFINE D == 1..n
             Upto(m) == {s \in SUBSET D : Cardinality(s) <= m}
             Step(g, s) == IF s = {} THEN base ELSE Hashed(g[s \ {Max(s)}], steps[Max(s)])
             Solves(g, m) == \A s \in Upto(m) : g[s] = Step(g, s)
             T == {m \in Nat : ~ \E g : Solves(g, m)}
  <1>1. \A s \in SUBSET D : IsFiniteSet(s) /\ Cardinality(s) \in Nat
    <2>1. IsFiniteSet(D)
      BY FS_Interval
    <2> HIDE DEF D
    <2> QED
      BY <2>1, FS_Subset, FS_CardinalityType
  <1>2. \A s \in SUBSET D : s # {} => Max(s) \in s
    BY LastOfPlaces DEF Max
  <1> HIDE DEF D
  <1>3. T = {}
    <2>1. SUFFICES ASSUME T # {}
                   PROVE  FALSE
      OBVIOUS
    <2>2. T \in SUBSET Nat
      OBVIOUS
    <2>3. PICK m \in T : \A k \in T : m <= k
      BY <2>1, <2>2, LeastOfNumbers
    <2>4. m \in Nat /\ ~ \E g : Solves(g, m)
      OBVIOUS
    <2>5. CASE m = 0
      <3> DEFINE g == [s \in Upto(0) |-> base]
      <3>1. \A s \in Upto(0) : s = {}
        BY <1>1, FS_EmptySet
      <3>2. Solves(g, 0)
        BY <3>1
      <3> QED
        BY <2>4, <2>5, <3>2
    <2>6. CASE m # 0
      <3>1. m - 1 \in Nat /\ m - 1 \notin T
        <4>1. m \in Nat
          BY <2>4
        <4>2. \A k \in T : m <= k
          BY <2>3
        <4> HIDE DEF T
        <4> QED
          BY <2>6, <4>1, <4>2
      <3>2. PICK g : Solves(g, m - 1)
        BY <3>1
      <3> DEFINE f == [s \in Upto(m) |-> Step(g, s)]
      <3>3. ASSUME NEW s \in Upto(m), s # {}
            PROVE  s \ {Max(s)} \in Upto(m - 1) /\ s \ {Max(s)} \in Upto(m)
        <4>1. Cardinality(s \ {Max(s)}) = Cardinality(s) - 1
          BY <1>1, <1>2, <3>3, FS_RemoveElement
        <4>2. s \ {Max(s)} \in SUBSET D /\ Cardinality(s) <= m /\ Cardinality(s) \in Nat
          BY <1>1
        <4> HIDE DEF Step
        <4> QED
          BY <2>4, <4>1, <4>2
      <3>4. \A s \in Upto(m - 1) : f[s] = g[s]
        <4>1. \A s \in Upto(m - 1) : s \in Upto(m)
          BY <1>1, <2>4
        <4> QED
          BY <3>2, <4>1
      <3>5. Solves(f, m)
        <4>1. ASSUME NEW s \in Upto(m)
              PROVE  Step(g, s) = Step(f, s)
          BY <3>3, <3>4
        <4> QED
          BY <4>1
      <3> QED
        BY <2>4, <3>5
    <2> QED
      BY <2>5, <2>6
  <1>4. Cardinality(D) \in Nat /\ Upto(Cardinality(D)) = SUBSET D
    <2>1. IsFiniteSet(D)
      BY FS_Interval DEF D
    <2>2. \A s \in SUBSET D : Cardinality(s) <= Cardinality(D)
      BY <2>1, FS_Subset
    <2> QED
      BY <1>1, <2>2
  <1>5. PICK g : \A s \in SUBSET D : g[s] = Step(g, s)
    <2>1. \E g : Solves(g, Cardinality(D))
      BY <1>3, <1>4
    <2> QED
      BY <1>4, <2>1
  <1> DEFINE f == [s \in SUBSET D |-> g[s]]
  <1>6. f = [s \in SUBSET D |-> Step(f, s)]
    <2>1. \A s \in SUBSET D : s \ {Max(s)} \in SUBSET D
      OBVIOUS
    <2>2. ASSUME NEW s \in SUBSET D
          PROVE  f[s] = Step(f, s)
      BY <1>5, <2>1
    <2> QED
      BY <2>2
  <1> QED
    BY <1>6 DEF D, HashFold

(* A list of hashes, each made from the one before.                         *)
Ascent(a, n, base, steps) ==
  /\ a[0] = base
  /\ \A k \in 1..n : a[k] = Hashed(a[k - 1], steps[k])

LEMMA FoldAscends ==
  ASSUME NEW n \in Nat, NEW base, NEW steps, NEW g, HashFold(g, n, base, steps)
  PROVE  \E a : Ascent(a, n, base, steps) /\ a[n] = g[1..n]
  <1> DEFINE a == [k \in 0..n |-> g[1..k]]
  <1>1. \A s \in SUBSET (1..n) :
          g[s] = IF s = {} THEN base ELSE Hashed(g[s \ {Max(s)}], steps[Max(s)])
    BY DEF HashFold
  <1>2. 1..0 = {} /\ {} \in SUBSET (1..n) /\ 0 \in 0..n /\ n \in 0..n
    OBVIOUS
  <1>3. a[0] = base
    BY <1>1, <1>2
  <1>4. ASSUME NEW k \in 1..n
        PROVE  a[k] = Hashed(a[k - 1], steps[k])
    <2>1. /\ 1..k \in SUBSET (1..n) /\ 1..k # {}
          /\ Max(1..k) = k /\ (1..k) \ {k} = 1..(k - 1)
      BY PlacesUpTo
    <2>2. g[1..k] = Hashed(g[1..(k - 1)], steps[k])
      BY <1>1, <2>1
    <2>3. k \in 0..n /\ k - 1 \in 0..n
      OBVIOUS
    <2> QED
      BY <2>2, <2>3
  <1>5. a[n] = g[1..n]
    BY <1>2
  <1> QED
    BY <1>3, <1>4, <1>5 DEF Ascent

LEMMA ClimbAscends ==
  ASSUME NEW w, NEW n \in Nat, DOMAIN w.path = 1..n
  PROVE  \E a : Ascent(a, n, DomainLeaf(w.leaf), w.path) /\ a[n] = Climb(w)
  <1> DEFINE base == DomainLeaf(w.leaf)
             steps == w.path
             Body(f) == [s \in SUBSET (1..n) |->
                           IF s = {} THEN base
                           ELSE Hashed(f[s \ {Max(s)}], steps[Max(s)])]
             iter == CHOOSE f : f = Body(f)
  <1>1. Climb(w) = iter[1..n]
    BY DEF Climb, FoldLeft, MapThenFoldSet, Hashed
  <1> HIDE DEF base, steps
  <1>2. PICK f : f = Body(f)
    <2>1. PICK f : HashFold(f, n, base, steps)
      BY HashFoldExists
    <2> QED
      BY <2>1 DEF HashFold
  <1>3. iter = Body(iter)
    BY <1>2
  <1> HIDE DEF iter
  <1>4. HashFold(iter, n, base, steps)
    BY <1>3 DEF HashFold
  <1>5. \E a : Ascent(a, n, base, steps) /\ a[n] = iter[1..n]
    BY <1>4, FoldAscends
  <1> QED
    BY <1>1, <1>5 DEF base, steps

Padded == [element |-> Padding, side |-> 0]

LEMMA RootAscends ==
  ASSUME NEW leaves, NEW n \in Nat, n = MerkleDepth - Height(leaves)
  PROVE  \E a : /\ Ascent(a, n, Levels(leaves)[Height(leaves)][1], [k \in 1..n |-> Padded])
                /\ a[n] = Root(leaves)
  <1> DEFINE base == Levels(leaves)[Height(leaves)][1]
             steps == [k \in 1..n |-> Padded]
             places == [k \in 1..n |-> k]
             Plain(f) == [s \in SUBSET (1..n) |->
                            IF s = {} THEN base
                            ELSE HashTwo(f[s \ {Max(s)}], Padding)]
             Body(f) == [s \in SUBSET (1..n) |->
                           IF s = {} THEN base
                           ELSE Hashed(f[s \ {Max(s)}], steps[Max(s)])]
             iter == CHOOSE f : f = Plain(f)
  <1>1. Root(leaves) = iter[1..n]
    <2>1. Root(leaves) = (CHOOSE f : f = [s \in SUBSET (DOMAIN places) |->
                            IF s = {} THEN base
                            ELSE HashTwo(f[s \ {Max(s)}], Padding)])[DOMAIN places]
      BY DEF Root, FoldLeft, MapThenFoldSet
    <2>2. DOMAIN places = 1..n
      OBVIOUS
    <2> HIDE DEF places, base
    <2> QED
      BY <2>1, <2>2
  <1> HIDE DEF base
  <1>2. ASSUME NEW f
        PROVE  Plain(f) = Body(f)
    <2>1. ASSUME NEW s \in SUBSET (1..n), s # {}
          PROVE  HashTwo(f[s \ {Max(s)}], Padding) = Hashed(f[s \ {Max(s)}], steps[Max(s)])
      <3>1. Max(s) \in 1..n
        BY <2>1, LastOfPlaces DEF Max
      <3>2. steps[Max(s)] = Padded
        BY <3>1
      <3> QED
        BY <3>2 DEF Hashed, Padded
    <2> QED
      BY <2>1
  <1>3. PICK f : f = Body(f)
    <2> HIDE DEF steps
    <2>1. PICK f : HashFold(f, n, base, steps)
      BY HashFoldExists
    <2> QED
      BY <2>1 DEF HashFold
  <1>4. iter = Plain(iter)
    <2> HIDE DEF Plain, Body
    <2>1. f = Plain(f)
      BY <1>2, <1>3
    <2> QED
      BY <2>1 DEF iter
  <1> HIDE DEF iter
  <1>5. iter = Body(iter)
    <2> HIDE DEF Plain, Body
    <2> QED
      BY <1>2, <1>4
  <1>6. HashFold(iter, n, base, steps)
    BY <1>5 DEF HashFold
  <1> HIDE DEF steps
  <1>7. \E a : Ascent(a, n, base, steps) /\ a[n] = iter[1..n]
    BY <1>6, FoldAscends
  <1> QED
    BY <1>1, <1>7 DEF base, steps

(* Every witness leads from its leaf to the root of the tree.               *)
LEMMA WitnessLeads ==
  ASSUME NEW S, NEW leaves \in Seq(S), leaves # <<>>, Fits(leaves),
         NEW i \in Nat, i < Len(leaves)
  PROVE  Climb(InclusionWitness(leaves, i)) = Root(leaves)
  <1> DEFINE w == InclusionWitness(leaves, i)
             H == Height(leaves)
             L == Levels(leaves)
             at == Index(i)
             d == MerkleDepth
             path == Path(leaves, i)
  <1>1. d \in Nat /\ Len(leaves) \in Nat /\ DOMAIN leaves = 1..Len(leaves)
    BY MerkleAssumption
  <1>2. H \in 0..Len(leaves) /\ Len(L[H]) = 1 /\ H <= d /\ H \in Nat
    <2>1. H \in 0..Len(leaves) /\ Len(L[H]) = 1
      BY HeightIs
    <2>2. H <= d
      BY DEF Fits
    <2> HIDE DEF H, d
    <2> QED
      BY <1>1, <2>1, <2>2
  <1>3. L[0] = [j \in DOMAIN leaves |-> DomainLeaf(leaves[j])]
    <2>1. L = [k \in 0..Len(leaves) |->
                 IF k = 0 THEN [j \in DOMAIN leaves |-> DomainLeaf(leaves[j])]
                 ELSE Paired(L[k - 1])]
      BY LevelsAre
    <2>2. 0 \in 0..Len(leaves)
      BY <1>1
    <2> HIDE DEF L
    <2> QED
      BY <2>1, <2>2
  <1>4. \A k \in 1..Len(leaves) : L[k] = Paired(L[k - 1])
    <2>1. L = [k \in 0..Len(leaves) |->
                 IF k = 0 THEN [j \in DOMAIN leaves |-> DomainLeaf(leaves[j])]
                 ELSE Paired(L[k - 1])]
      BY LevelsAre
    <2>2. \A k \in 1..Len(leaves) : k \in 0..Len(leaves) /\ k # 0
      BY <1>1
    <2> HIDE DEF L
    <2> QED
      BY <2>1, <2>2
  <1>5. \A k \in 0..Len(leaves) : Len(L[k]) \in Nat
    BY LevelsShrink
  <1>6. at[0] = i /\ \A k \in 1..d : at[k] = at[k - 1] \div 2
    <2>1. at = [k \in 0..d |-> IF k = 0 THEN i ELSE at[k - 1] \div 2]
      BY IndexIs
    <2> HIDE DEF at, d
    <2> QED
      BY <1>1, <2>1
  <1>7. \A k \in 1..d : path[k] = IF k - 1 < H
                                  THEN [element |-> Sibling(L[k - 1], at[k - 1]),
                                        side |-> at[k - 1] % 2]
                                  ELSE Padded
    BY <1>1 DEF Path, PathStep, Padded
  <1>8. w.path = path /\ w.leaf = leaves[i + 1] /\ DOMAIN path = 1..d
    BY DEF InclusionWitness, Path
  <1>9. DomainLeaf(leaves[i + 1]) = L[0][i + 1] /\ Len(L[0]) = Len(leaves)
    <2>1. i + 1 \in 1..Len(leaves)
      BY <1>1
    <2>2. [j \in 1..Len(leaves) |-> DomainLeaf(leaves[j])]
             \in Seq({DomainLeaf(leaves[j]) : j \in 1..Len(leaves)})
      BY <1>1
    <2>3. Len([j \in 1..Len(leaves) |-> DomainLeaf(leaves[j])]) = Len(leaves)
      BY <1>1, <2>2
    <2> HIDE DEF L
    <2> QED
      BY <1>1, <1>3, <2>1, <2>3
  <1>10. PICK a : Ascent(a, d, L[0][i + 1], path) /\ a[d] = Climb(w)
    <2>1. DOMAIN w.path = 1..d
      BY <1>8
    <2>2. \E a : Ascent(a, d, DomainLeaf(w.leaf), w.path) /\ a[d] = Climb(w)
      <3> HIDE DEF w, d
      <3> QED
        BY <1>1, <2>1, ClimbAscends
    <2> HIDE DEF w, d, path, L
    <2> QED
      BY <2>2, <1>8, <1>9
  <1>11. d - H \in Nat
    BY <1>1, <1>2
  <1>12. PICK b : Ascent(b, d - H, L[H][1], [k \in 1..(d - H) |-> Padded])
                  /\ b[d - H] = Root(leaves)
    BY <1>11, RootAscends
  <1> HIDE DEF w, H, L, at, d, path
  <1> DEFINE Meets(k) == /\ at[k] \in Nat
                         /\ at[k] < Len(L[k])
                         /\ a[k] = L[k][at[k] + 1]
             T == {k \in 0..H : ~Meets(k)}
  <1>13. T = {}
    <2>1. SUFFICES ASSUME T # {}
                   PROVE  FALSE
      OBVIOUS
    <2>2. T \in SUBSET Nat
      OBVIOUS
    <2>3. PICK k \in T : \A j \in T : k <= j
      BY <2>1, <2>2, LeastOfNumbers
    <2>4. k \in 0..H /\ ~Meets(k)
      OBVIOUS
    <2>5. k # 0
      BY <1>6, <1>9, <1>10, <2>4 DEF Ascent
    <2>6. k - 1 \in 0..H /\ k - 1 \notin T
      <3>1. k - 1 \in 0..H /\ ~(k <= k - 1)
        BY <1>2, <2>4, <2>5
      <3>2. \A j \in T : k <= j
        BY <2>3
      <3> HIDE DEF T
      <3> QED
        BY <3>1, <3>2
    <2>7. Meets(k - 1)
      BY <2>6
    <2>8. k \in 1..Len(leaves) /\ k \in 1..d /\ k - 1 \in 0..Len(leaves) /\ k - 1 < H
      BY <1>1, <1>2, <2>4, <2>5
    <2>9. /\ at[k - 1] \div 2 \in Nat
          /\ at[k - 1] \div 2 < Len(Paired(L[k - 1]))
          /\ Paired(L[k - 1])[at[k - 1] \div 2 + 1] =
               Hashed(L[k - 1][at[k - 1] + 1],
                      [element |-> Sibling(L[k - 1], at[k - 1]), side |-> at[k - 1] % 2])
      <3>1. Len(L[k - 1]) \in Nat
        BY <1>5, <2>8
      <3>2. at[k - 1] \in Nat /\ at[k - 1] < Len(L[k - 1])
        BY <2>7
      <3> QED
        BY <3>1, <3>2, OneUp
    <2>10. L[k] = Paired(L[k - 1]) /\ at[k] = at[k - 1] \div 2
      BY <1>4, <1>6, <2>8
    <2>11. path[k] = [element |-> Sibling(L[k - 1], at[k - 1]), side |-> at[k - 1] % 2]
      BY <1>7, <2>8
    <2>12. a[k] = Hashed(a[k - 1], path[k])
      BY <1>10, <2>8 DEF Ascent
    <2>13. a[k] = L[k][at[k] + 1]
      BY <2>7, <2>9, <2>10, <2>11, <2>12
    <2>14. Meets(k)
      BY <2>9, <2>10, <2>13
    <2> QED
      BY <2>4, <2>14
  <1>14. a[H] = L[H][1]
    <2>1. H \in 0..H
      BY <1>2
    <2>2. Meets(H)
      BY <1>13, <2>1
    <2>3. at[H] = 0
      BY <1>2, <2>2
    <2> QED
      BY <2>2, <2>3
  <1> DEFINE Same(k) == a[H + k] = b[k]
             U == {k \in 0..(d - H) : ~Same(k)}
  <1>15. U = {}
    <2>1. SUFFICES ASSUME U # {}
                   PROVE  FALSE
      OBVIOUS
    <2>2. U \in SUBSET Nat
      OBVIOUS
    <2>3. PICK k \in U : \A j \in U : k <= j
      BY <2>1, <2>2, LeastOfNumbers
    <2>4. k \in 0..(d - H) /\ ~Same(k)
      OBVIOUS
    <2>5. k # 0
      <3>1. H + 0 = H /\ b[0] = L[H][1]
        BY <1>2, <1>12 DEF Ascent
      <3> QED
        BY <1>14, <2>4, <3>1
    <2>6. k - 1 \in 0..(d - H) /\ k - 1 \notin U
      <3>1. k - 1 \in 0..(d - H) /\ ~(k <= k - 1)
        BY <1>11, <2>4, <2>5
      <3>2. \A j \in U : k <= j
        BY <2>3
      <3> HIDE DEF U
      <3> QED
        BY <3>1, <3>2
    <2>7. Same(k - 1)
      BY <2>6
    <2>8. k \in 1..(d - H)
      BY <1>1, <1>2, <1>11, <2>4, <2>5
    <2> DEFINE m == H + k
    <2>9. m \in 1..d /\ ~(m - 1 < H) /\ m - 1 = H + (k - 1)
      BY <1>1, <1>2, <1>11, <2>4, <2>5
    <2>10. a[m - 1] = b[k - 1]
      BY <2>7, <2>9
    <2> HIDE DEF m
    <2>11. b[k] = Hashed(b[k - 1], Padded)
      BY <1>12, <2>8 DEF Ascent
    <2>12. path[m] = Padded
      BY <1>7, <2>9
    <2>13. a[m] = Hashed(a[m - 1], path[m])
      BY <1>10, <2>9 DEF Ascent
    <2>14. Same(k)
      BY <2>10, <2>11, <2>12, <2>13 DEF m
    <2> QED
      BY <2>4, <2>14
  <1>16. d - H \in 0..(d - H) /\ H + (d - H) = d
    BY <1>1, <1>2, <1>11
  <1>17. a[d] = b[d - H]
    BY <1>15, <1>16
  <1> QED
    BY <1>10, <1>12, <1>17 DEF w

(* A set of numbers up to a bound has a largest one.                        *)
LEMMA LargestIsThere ==
  ASSUME NEW b \in Nat, NEW s \in SUBSET (0..b), s # {}
  PROVE  Largest(s) \in s /\ \A y \in s : y <= Largest(s)
  <1> DEFINE T == {b - x : x \in s}
  <1>1. \A x \in s : x \in 0..b /\ b - x \in Nat
    BY SMT
  <1>2. T \in SUBSET Nat /\ T # {}
    BY <1>1
  <1>3. PICK m \in T : \A y \in T : m <= y
    BY <1>2, LeastOfNumbers
  <1>4. PICK x \in s : m = b - x
    BY <1>3
  <1>5. \A y \in s : b - x <= b - y
    BY <1>3, <1>4
  <1>6. \A y \in s : y <= x
    BY <1>1, <1>5
  <1> QED
    BY <1>4, <1>6 DEF Largest

(* What the universal bridge counts along the predicates of the mask.       *)
CountedTo(a, m, p) == CASE p.id = "ENTITY_COUNT_GTE" -> EntityCount(a)
                        [] p.id = "REDACTION_NONEMPTY" -> Largest({m, a.artifact.total})
                        [] OTHER -> m

Tally(a, mask) == FoldLeft(LAMBDA m, p : CountedTo(a, m, p), 0, mask)

LEMMA TallyCounts ==
  ASSUME NEW a, NEW S, NEW mask \in Seq(S), EntityCount(a) \in Nat, a.artifact.total \in Nat,
         \A i \in DOMAIN mask : mask[i].id = "REDACTION_NONEMPTY" =>
            a.artifact.total > 0 /\ EntityCount(a) > 0
  PROVE  /\ Tally(a, mask) \in Nat
         /\ (\E i \in DOMAIN mask : mask[i].id = "REDACTION_NONEMPTY") => Tally(a, mask) > 0
         /\ (\E i \in DOMAIN mask : mask[i].id = "ENTITY_COUNT_GTE") =>
              Tally(a, mask) >= EntityCount(a)
  <1> DEFINE n == Len(mask)
             D == 1..n
             E == EntityCount(a)
             t == a.artifact.total
             last == LastPlace(D)
             h == [x \in Nat |-> [i \in D |-> CountedTo(a, x, mask[i])]]
             Body(f) == [s \in SUBSET D |->
                           IF s = {} THEN 0
                           ELSE CountedTo(a, f[s \ {Max(s)}], mask[Max(s)])]
             iter == CHOOSE f : f = Body(f)
  <1>1. n \in Nat /\ DOMAIN mask = D
    OBVIOUS
  <1>2. Tally(a, mask) = iter[D]
    <2>1. Tally(a, mask) =
            (CHOOSE f : f = [s \in SUBSET (DOMAIN mask) |->
                               IF s = {} THEN 0
                               ELSE CountedTo(a, f[s \ {Max(s)}], mask[Max(s)])])[DOMAIN mask]
      BY DEF Tally, FoldLeft, MapThenFoldSet
    <2> HIDE DEF D
    <2> QED
      BY <1>1, <2>1
  <1>3. /\ IsFiniteSet(D)
        /\ \A s \in SUBSET D : last[s] = Max(s) /\ (s # {} => last[s] \in s)
    BY <1>1, LastPlaceIsThere
  <1>4. \A m \in Nat : Largest({m, t}) \in Nat /\ m <= Largest({m, t}) /\ t <= Largest({m, t})
    <2>1. ASSUME NEW m \in Nat
          PROVE  Largest({m, t}) \in {m, t} /\ m <= Largest({m, t}) /\ t <= Largest({m, t})
      <3>1. {m, t} \in SUBSET (0..(m + t)) /\ m + t \in Nat
        OBVIOUS
      <3> HIDE DEF t
      <3> QED
        BY <3>1, LargestIsThere
    <2> QED
      BY <2>1
  <1>5. \A x \in Nat, i \in D : CountedTo(a, x, mask[i]) \in Nat
    BY <1>4 DEF CountedTo
  <1> HIDE DEF D, E, t
  <1>6. \A x \in Nat, i \in D : h[x][i] = CountedTo(a, x, mask[i])
    OBVIOUS
  <1>7. \A x \in Nat, i \in D : h[x][i] \in Nat
    BY <1>5, <1>6
  <1> HIDE DEF last, h
  <1>8. PICK g \in [SUBSET D -> Nat] : Folded(g, D, last, 0, h)
    BY <1>3, <1>7, FoldExists
  <1>9. ASSUME NEW s \in SUBSET D
        PROVE  g[s] = IF s = {} THEN 0
                      ELSE CountedTo(a, g[s \ {Max(s)}], mask[Max(s)])
    <2>1. g[s] = IF s = {} THEN 0 ELSE h[g[s \ {last[s]}]][last[s]]
      BY <1>8 DEF Folded
    <2>2. CASE s # {}
      <3>1. Max(s) \in D /\ last[s] = Max(s) /\ g[s \ {Max(s)}] \in Nat
        BY <1>3, <1>8, <2>2
      <3> QED
        BY <1>6, <2>1, <2>2, <3>1
    <2> QED
      BY <2>1, <2>2
  <1>10. g = Body(g)
    BY <1>8, <1>9
  <1>11. iter = Body(iter)
    BY <1>10
  <1> HIDE DEF iter
  <1> DEFINE c(k) == iter[1..k]
             Fine(k) ==
               /\ c(k) \in Nat
               /\ (\E i \in 1..k : mask[i].id = "REDACTION_NONEMPTY") => c(k) > 0
               /\ (\E i \in 1..k : mask[i].id = "ENTITY_COUNT_GTE") => c(k) >= E
             T == {k \in 0..n : ~Fine(k)}
  <1>12. c(0) = 0
    <2>1. 1..0 = {} /\ {} \in SUBSET D
      OBVIOUS
    <2> QED
      BY <1>11, <2>1
  <1>13. \A k \in 1..n : c(k) = CountedTo(a, c(k - 1), mask[k])
    <2>1. ASSUME NEW k \in 1..n
          PROVE  c(k) = CountedTo(a, c(k - 1), mask[k])
      <3>1. 1..k \in SUBSET D /\ 1..k # {} /\ Max(1..k) = k /\ (1..k) \ {k} = 1..(k - 1)
        BY <1>1, PlacesUpTo DEF D
      <3> QED
        BY <1>11, <3>1
    <2> QED
      BY <2>1
  <1> HIDE DEF c, n
  <1>14. T = {}
    <2>1. SUFFICES ASSUME T # {}
                   PROVE  FALSE
      OBVIOUS
    <2>2. T \in SUBSET Nat
      BY <1>1
    <2>3. PICK k \in T : \A j \in T : k <= j
      BY <2>1, <2>2, LeastOfNumbers
    <2>4. k \in 0..n /\ ~Fine(k)
      OBVIOUS
    <2>5. k # 0
      <3>1. \A i : ~(i \in 1..0)
        OBVIOUS
      <3> QED
        BY <1>12, <2>4, <3>1
    <2>6. k \in 1..n /\ k - 1 \in 0..n /\ ~(k <= k - 1)
      BY <1>1, <2>4, <2>5
    <2>7. Fine(k - 1)
      <3>1. \A j \in T : k <= j
        BY <2>3
      <3>2. k - 1 \notin T
        <4> HIDE DEF T
        <4> QED
          BY <2>6, <3>1
      <3> QED
        BY <2>6, <3>2
    <2>8. c(k) = CountedTo(a, c(k - 1), mask[k])
      BY <1>13, <2>6
    <2>9. \A i \in 1..k : i = k \/ i \in 1..(k - 1)
      BY <2>6
    <2>10. E \in Nat /\ t \in Nat /\ (mask[k].id = "REDACTION_NONEMPTY" => t > 0 /\ E > 0)
      BY <1>1, <2>6 DEF D, E, t
    <2>11. (\E i \in 1..k : mask[i].id = "REDACTION_NONEMPTY") => E > 0
      BY <1>1, <2>6 DEF D, E
    <2>12. CASE mask[k].id = "ENTITY_COUNT_GTE"
      <3>1. c(k) = E
        BY <2>8, <2>12 DEF CountedTo, E
      <3>2. Fine(k)
        BY <2>10, <2>11, <3>1
      <3> QED
        BY <2>4, <3>2
    <2>13. CASE mask[k].id = "REDACTION_NONEMPTY"
      <3>1. c(k) = Largest({c(k - 1), t})
        BY <2>8, <2>13 DEF CountedTo, t
      <3>2. c(k) \in Nat /\ c(k - 1) <= c(k) /\ t <= c(k)
        BY <1>4, <2>7, <3>1
      <3>3. (\E i \in 1..k : mask[i].id = "ENTITY_COUNT_GTE") => c(k - 1) >= E
        BY <2>7, <2>9, <2>13
      <3>4. Fine(k)
        BY <2>7, <2>10, <2>13, <3>2, <3>3
      <3> QED
        BY <2>4, <3>4
    <2>14. CASE mask[k].id \notin {"ENTITY_COUNT_GTE", "REDACTION_NONEMPTY"}
      <3>1. c(k) = c(k - 1)
        BY <2>8, <2>14 DEF CountedTo
      <3>2. Fine(k)
        BY <2>7, <2>9, <2>14, <3>1
      <3> QED
        BY <2>4, <3>2
    <2> QED
      BY <2>12, <2>13, <2>14
  <1>15. Fine(n)
    <2>1. n \in 0..n
      BY <1>1
    <2> QED
      BY <1>14, <2>1
  <1>16. Tally(a, mask) = c(n)
    BY <1>2 DEF c, D
  <1> QED
    BY <1>1, <1>15, <1>16 DEF D, E

(* The predicates that the universal circuit has a bit for are predicates   *)
(* of the profile.                                                          *)
LEMMA MaskIsOfProfile ==
  ASSUME NEW profile, profile.predicates \in Seq(Predicates)
  PROVE  /\ Mask(profile) \in Seq(Predicates)
         /\ \A i \in DOMAIN Mask(profile) :
              \E j \in DOMAIN profile.predicates : Mask(profile)[i] = profile.predicates[j]
  <1> DEFINE preds == profile.predicates
             T == {i \in DOMAIN preds : preds[i].id \in Bits}
             mask == Sublist(preds, T)
  <1>1. mask \in Seq(Predicates)
        /\ {mask[n] : n \in DOMAIN mask} = {preds[i] : i \in T}
    <2>1. preds \in Seq(Predicates) /\ T \in SUBSET (DOMAIN preds)
      OBVIOUS
    <2> HIDE DEF preds, T
    <2> QED
      BY <2>1, SublistIsList
  <1>2. Mask(profile) = mask
    BY DEF Mask
  <1> HIDE DEF mask
  <1>3. ASSUME NEW i \in DOMAIN mask
        PROVE  \E j \in DOMAIN preds : mask[i] = preds[j]
    <2>1. mask[i] \in {preds[j] : j \in T}
      BY <1>1
    <2> QED
      BY <2>1
  <1> QED
    BY <1>1, <1>2, <1>3

LEMMA ClaimHolds ==
  ASSUME NEW profile, profile.predicates \in Seq(Predicates), NEW a, Claim(profile, a).ok
  PROVE  \A i \in DOMAIN profile.predicates : Holds(profile.predicates[i], a)
  <1> DEFINE preds == profile.predicates
             T == {i \in DOMAIN preds : ~Holds(preds[i], a)}
             failed == Sublist(preds, T)
  <1>1. failed = <<>>
    BY DEF Claim
  <1>2. {failed[n] : n \in DOMAIN failed} = {preds[i] : i \in T}
    <2>1. preds \in Seq(Predicates) /\ T \in SUBSET (DOMAIN preds)
      OBVIOUS
    <2> HIDE DEF preds, T
    <2> QED
      BY <2>1, SublistIsList
  <1> HIDE DEF failed
  <1>3. DOMAIN failed = {}
    BY <1>1
  <1>4. {preds[i] : i \in T} = {}
    BY <1>2, <1>3
  <1>5. T = {}
    BY <1>4
  <1> QED
    BY <1>5

(* A claim that holds satisfies the universal circuit, unless it counts up  *)
(* to zero.                                                                 *)
LEMMA ClaimSatisfies ==
  ASSUME NEW profile, profile.predicates \in Seq(Predicates),
         NEW a, Counted(a.artifact),
         \A i \in DOMAIN profile.predicates : Holds(profile.predicates[i], a),
         \A i \in DOMAIN profile.predicates : profile.predicates[i].n # 0
  PROVE  Satisfies(Witness(profile, a))
  <1> DEFINE mask == Mask(profile)
             E == EntityCount(a)
             t == a.artifact.total
             least(p) == IF p.n = 0 THEN 1 ELSE p.n
             count == Tally(a, mask)
             Counting == {i \in DOMAIN mask : mask[i].id = "ENTITY_COUNT_GTE"}
             thresholds == {0} \cup {least(mask[i]) : i \in Counting}
             w == Witness(profile, a)
  <1>1. mask \in Seq(Predicates)
    BY MaskIsOfProfile
  <1>2. \A i \in DOMAIN mask : Holds(mask[i], a) /\ mask[i].n # 0 /\ mask[i].n \in Nat
    <2>1. ASSUME NEW i \in DOMAIN mask
          PROVE  Holds(mask[i], a) /\ mask[i].n # 0 /\ mask[i].n \in Nat
      <3>1. PICK j \in DOMAIN profile.predicates : mask[i] = profile.predicates[j]
        BY MaskIsOfProfile
      <3>2. profile.predicates[j] \in Predicates
        OBVIOUS
      <3> HIDE DEF mask
      <3> QED
        BY <3>1, <3>2 DEF Predicates
    <2> QED
      BY <2>1
  <1>3. t \in Nat /\ a.artifact.entities \in Seq(Range(a.artifact.entities))
    BY DEF Counted
  <1>4. E \in Nat /\ (t > 0 => E > 0)
    <2>1. CASE a.artifact.entities # <<>>
      <3>1. Len(a.artifact.entities) \in Nat /\ Len(a.artifact.entities) # 0
        BY <1>3, <2>1, EmptySeq
      <3>2. E = Len(a.artifact.entities)
        BY <2>1 DEF EntityCount
      <3> QED
        BY <1>3, <3>1, <3>2
    <2>2. CASE a.artifact.entities = <<>>
      BY <1>3, <2>2 DEF EntityCount
    <2> QED
      BY <2>1, <2>2
  <1>5. /\ w.mask = {mask[i].id : i \in DOMAIN mask}
        /\ w.flags = {mask[i].id : i \in {j \in DOMAIN mask : Holds(mask[j], a)}}
        /\ w.count = IF count = 0 THEN E ELSE count
        /\ w.least = Largest(thresholds)
        /\ w.required \subseteq w.present
    BY DEF Witness, Tally, CountedTo
  <1> HIDE DEF mask, w, E, count
  <1>6. \A i \in DOMAIN mask : mask[i].id = "REDACTION_NONEMPTY" => t > 0
    BY <1>2 DEF Holds
  <1>7. \A i \in DOMAIN mask : mask[i].id = "ENTITY_COUNT_GTE" => mask[i].n <= E
    BY <1>2, <1>4 DEF Holds, E
  <1>8. /\ count \in Nat
        /\ (\E i \in DOMAIN mask : mask[i].id = "REDACTION_NONEMPTY") => count > 0
        /\ (\E i \in DOMAIN mask : mask[i].id = "ENTITY_COUNT_GTE") => count >= E
    <2>1. EntityCount(a) \in Nat
      BY <1>4 DEF E
    <2>2. \A i \in DOMAIN mask : mask[i].id = "REDACTION_NONEMPTY" =>
            a.artifact.total > 0 /\ EntityCount(a) > 0
      BY <1>4, <1>6 DEF E
    <2> QED
      BY <1>1, <1>3, <2>1, <2>2, TallyCounts DEF count, E
  <1>9. w.mask \subseteq w.flags
    BY <1>2, <1>5
  <1>10. "REDACTION_NONEMPTY" \in w.mask => w.count # 0
    BY <1>5, <1>8
  <1>11. "ENTITY_COUNT_GTE" \in w.mask => w.least <= w.count
    <2>1. thresholds \in SUBSET (0..E) /\ thresholds # {}
      <3>1. \A i \in Counting : least(mask[i]) \in 0..E
        BY <1>2, <1>4, <1>7
      <3>2. 0 \in 0..E
        BY <1>4
      <3> HIDE DEF least, Counting
      <3> QED
        BY <3>1, <3>2
    <2> HIDE DEF thresholds
    <2>2. Largest(thresholds) \in 0..E
      BY <1>4, <2>1, LargestIsThere
    <2>3. "ENTITY_COUNT_GTE" \in w.mask => w.count >= E
      BY <1>4, <1>5, <1>8
    <2>4. w.count \in Nat
      BY <1>4, <1>5, <1>8
    <2> QED
      BY <1>4, <1>5, <2>2, <2>3, <2>4
  <1> QED
    BY <1>5, <1>9, <1>10, <1>11 DEF Satisfies, w

(* The first of the entity circuits is given the root.                      *)
LEMMA RootIsStated ==
  ASSUME NEW x, x.entities \in Seq(Range(x.entities))
  PROVE  EntityCircuits(x)[1].inputs.root = Root(Leaves(x))
  <1> DEFINE leaves == Leaves(x)
             whole == [root |-> Root(leaves), count |-> Len(leaves)]
             first == [key |-> [name |-> "redaction_v1"], circuit |-> "redaction-v1",
                       inputs |-> whole]
             second == [key |-> [name |-> "core_redaction"],
                        circuit |-> "core-redaction", inputs |-> whole]
             batch == [key |-> [name |-> "batch_merkle"], circuit |-> "batch-merkle",
                       inputs |-> BatchWitness(leaves)]
             policy == [key |-> [name |-> "compliance"], circuit |-> "compliance",
                        inputs |-> [policy |-> 1, count |-> Len(leaves)]]
             part2 == IF Len(leaves) <= BatchSize THEN <<batch>> ELSE <<>>
             item(i) == [key |-> [name |-> "merkle_inclusion", index |-> i],
                         circuit |-> "merkle-inclusion", inputs |-> Inclusions(leaves)[i]]
             part3 == [i \in DOMAIN Inclusions(leaves) |-> item(i)]
             part4 == IF HasPolicy(x) THEN <<policy>> ELSE <<>>
  <1>1. EntityCircuits(x) = ((<<first, second>> \o part2) \o part3) \o part4
    BY DEF EntityCircuits
  <1>2. first.inputs.root = Root(leaves)
    OBVIOUS
  <1>3. Len(leaves) \in Nat
    BY DEF Leaves
  <1>4. PICK n \in Nat : DOMAIN Inclusions(leaves) = 1 .. n
    BY <1>3, MerkleAssumption DEF Inclusions
  <1> HIDE DEF first, second, batch, policy, item
  <1> DEFINE X == {first, second, batch, policy} \cup {item(i) : i \in 1 .. n}
  <1>5. part3 \in Seq(X)
    <2>1. part3 = [i \in 1 .. n |-> item(i)]
      BY <1>4
    <2>2. \A i \in 1 .. n : item(i) \in X
      OBVIOUS
    <2> HIDE DEF X, part3
    <2> QED
      BY <2>1, <2>2
  <1>6. part2 \in Seq(X) /\ part4 \in Seq(X) /\ <<first, second>> \in Seq(X)
    <2>1. first \in X /\ second \in X /\ batch \in X /\ policy \in X
      OBVIOUS
    <2> HIDE DEF X
    <2> QED
      BY <2>1
  <1>7. <<first, second>>[1] = first /\ Len(<<first, second>>) = 2
    OBVIOUS
  <1> HIDE DEF part2, part3, part4, X
  <1> DEFINE s1 == <<first, second>>
             s2 == s1 \o part2
             s3 == s2 \o part3
  <1>8. s1 \in Seq(X) /\ Len(s1) >= 1 /\ s1[1] = first
    BY <1>6, <1>7
  <1> HIDE DEF s1
  <1>9. s2 \in Seq(X) /\ Len(s2) >= 1 /\ s2[1] = first
    BY <1>6, <1>8, ConcatProperties, LenProperties
  <1> HIDE DEF s2
  <1>10. s3 \in Seq(X) /\ Len(s3) >= 1 /\ s3[1] = first
    BY <1>5, <1>9, ConcatProperties, LenProperties
  <1> HIDE DEF s3
  <1>11. (s3 \o part4)[1] = first
    BY <1>6, <1>10, ConcatProperties, LenProperties
  <1>12. EntityCircuits(x) = s3 \o part4
    BY <1>1 DEF s1, s2, s3
  <1> QED
    BY <1>2, <1>11, <1>12
-----------------------------------------------------------------------------
(* What a run was asked for when it is at a stage, and what it has seen to   *)
(* hold when it asks for the universal proof.                               *)
AskedAt(stage, w, c) ==
  /\ stage # "idle" => c # None
  /\ stage \in {"redaction", "rule-binding", "pipeline", "entity"} =>
       c.attest \/ c.profile # None
  /\ stage \in {"judge", "universal"} => c.profile # None
  /\ stage = "universal" =>
       \A i \in DOMAIN c.profile.predicates : Holds(c.profile.predicates[i], w)

AskedInv == \A r \in Runs : AskedAt(pc[r], work[r], case[r])

LEMMA AskedMoves ==
  ASSUME Typed, AskedInv, NEW r \in Runs, UNCHANGED case,
         NEW stage, Goes(r, stage), stage # "idle", case[r] # None,
         work' = work \/ \E product : Makes(r, product),
         stage \in {"redaction", "rule-binding", "pipeline", "entity"} =>
           case[r].attest \/ case[r].profile # None,
         stage \in {"judge", "universal"} => case[r].profile # None,
         stage = "universal" => \A i \in DOMAIN case[r].profile.predicates :
                                  Holds(case[r].profile.predicates[i], work'[r])
  PROVE  AskedInv'
  <1>1. pc'[r] = stage /\ \A s \in Runs \ {r} : pc'[s] = pc[s] /\ work'[s] = work[s]
    BY DEF Typed, Goes, Makes
  <1>2. AskedAt(pc'[r], work'[r], case[r])
    BY <1>1 DEF AskedAt
  <1>3. \A s \in Runs \ {r} : AskedAt(pc'[s], work'[s], case[s])
    BY <1>1 DEF AskedInv
  <1> QED
    BY <1>2, <1>3 DEF AskedInv

(* Where a run goes after its proofs, and with its profile.                 *)
LEMMA JudgedStages ==
  ASSUME NEW r \in Runs
  PROVE  /\ Judged(r) \in {"finish", "judge"}
         /\ Judged(r) = "judge" => case[r].profile # None
  BY DEF Judged

LEMMA AgentsKeepAsked ==
  ASSUME Typed, AskedInv, NEW r \in Runs, AgentStep(r)
  PROVE  AskedInv'
  <1>1. AskedAt(pc[r], work[r], case[r])
    BY DEF AskedInv
  <1>2. CASE Redacts(r)
    <2>1. case[r] # None
      BY <1>1, <1>2 DEF Redacts, At, AskedAt
    <2>2. /\ UNCHANGED case /\ Goes(r, "orchestrate")
          /\ \E product : Makes(r, product)
      BY <1>2 DEF Redacts, At
    <2> QED
      BY <2>1, <2>2, AskedMoves
  <1>3. CASE RedactRaises(r)
    <2>1. case[r] # None
      BY <1>1, <1>3 DEF RedactRaises, At, AskedAt
    <2>2. UNCHANGED <<case, work>> /\ Goes(r, "failed")
      BY <1>3 DEF RedactRaises, At
    <2> QED
      BY <2>1, <2>2, AskedMoves
  <1>4. CASE Orchestrates(r)
    <2>1. case[r] # None
      BY <1>1, <1>4 DEF Orchestrates, At, AskedAt
    <2>2. UNCHANGED case /\ Goes(r, "coordinate") /\ \E product : Makes(r, product)
      BY <1>4 DEF Orchestrates, At
    <2> QED
      BY <2>1, <2>2, AskedMoves
  <1>5. CASE Coordinates(r)
    <2> DEFINE stage == IF ~Composition(r) THEN "persist"
                        ELSE IF Wanted(r) THEN "redaction" ELSE Judged(r)
    <2>1. case[r] # None
      BY <1>1, <1>5 DEF Coordinates, At, AskedAt
    <2>2. UNCHANGED case /\ Goes(r, stage) /\ \E product : Makes(r, product)
      BY <1>5 DEF Coordinates, At
    <2>3. /\ stage \in {"persist", "redaction", "finish", "judge"}
          /\ stage = "redaction" => case[r].attest \/ case[r].profile # None
          /\ stage = "judge" => case[r].profile # None
      BY JudgedStages DEF Wanted
    <2> HIDE DEF stage
    <2> QED
      BY <2>1, <2>2, <2>3, AskedMoves
  <1>6. CASE Persists(r)
    <2> DEFINE stage == IF case[r].attest THEN "redaction" ELSE Encrypting(r)
    <2>1. case[r] # None
      BY <1>1, <1>6 DEF Persists, At, AskedAt
    <2>2. UNCHANGED <<case, work>> /\ Goes(r, stage)
      BY <1>6 DEF Persists, At
    <2>3. /\ stage \in {"redaction", "encrypt", "succeeded"}
          /\ stage = "redaction" => case[r].attest
      BY DEF Encrypting
    <2> HIDE DEF stage
    <2> QED
      BY <2>1, <2>2, <2>3, AskedMoves
  <1> QED
    BY <1>2, <1>3, <1>4, <1>5, <1>6 DEF AgentStep

LEMMA ProofsKeepAsked ==
  ASSUME Typed, AskedInv, NEW r \in Runs, ProofStep(r)
  PROVE  AskedInv'
  <1>1. AskedAt(pc[r], work[r], case[r])
    BY DEF AskedInv
  <1>2. ASSUME NEW c \in Governance, Proves(r, c) \/ ProverFails(r, c)
        PROVE  AskedInv'
    <2>1. pc[r] = c /\ UNCHANGED case /\ Goes(r, AfterCircuit(c))
          /\ \E product : Makes(r, product)
      BY <1>2 DEF Proves, ProverFails, At
    <2>2. case[r] # None /\ (case[r].attest \/ case[r].profile # None)
      BY <1>1, <2>1 DEF AskedAt, Governance
    <2>3. AfterCircuit(c) \in {"rule-binding", "pipeline", "entity"}
      BY DEF AfterCircuit, Governance
    <2> QED
      BY <2>1, <2>2, <2>3, AskedMoves
  <1>3. ASSUME NEW failing, ProvesEntities(r, failing)
        PROVE  AskedInv'
    <2>1. pc[r] = "entity" /\ UNCHANGED case /\ Goes(r, AfterProofs(r))
          /\ \E product : Makes(r, product)
      BY <1>3 DEF ProvesEntities, At
    <2>2. case[r] # None
      BY <1>1, <2>1 DEF AskedAt
    <2>3. /\ AfterProofs(r) \in {"finish", "judge", "persistProofs"}
          /\ AfterProofs(r) = "judge" => case[r].profile # None
      BY JudgedStages DEF AfterProofs
    <2> QED
      BY <2>1, <2>2, <2>3, AskedMoves
  <1>4. CASE EntitiesRaise(r)
    <2> DEFINE stage == IF case[r].attest THEN "failed" ELSE "judge"
    <2>1. pc[r] = "entity" /\ UNCHANGED <<case, work>> /\ Goes(r, stage)
      BY <1>4 DEF EntitiesRaise, At
    <2>2. case[r] # None /\ (case[r].attest \/ case[r].profile # None)
      BY <1>1, <2>1 DEF AskedAt
    <2>3. /\ stage \in {"failed", "judge"}
          /\ stage = "judge" => case[r].profile # None
      BY <2>2
    <2> HIDE DEF stage
    <2> QED
      BY <2>1, <2>2, <2>3, AskedMoves
  <1>5. CASE PersistsProofs(r)
    <2>1. pc[r] = "persistProofs" /\ UNCHANGED <<case, work>> /\ Goes(r, Encrypting(r))
      BY <1>5 DEF PersistsProofs, At
    <2>2. case[r] # None
      BY <1>1, <2>1 DEF AskedAt
    <2>3. Encrypting(r) \in {"encrypt", "succeeded"}
      BY DEF Encrypting
    <2> QED
      BY <2>1, <2>2, <2>3, AskedMoves
  <1> QED
    BY <1>2, <1>3, <1>4, <1>5 DEF ProofStep

(* No predicate speaks of the claim.                                        *)
LEMMA HoldsWithClaim ==
  ASSUME NEW a, a = [f \in Fields |-> a[f]], NEW p, NEW claim,
         NEW x, x = [a EXCEPT !["claim"] = claim]
  PROVE  Holds(p, x) = Holds(p, a)
  <1>1. x = [f \in Fields |-> IF f = "claim" THEN claim ELSE a[f]]
    OBVIOUS
  <1>2. /\ x.artifact = a.artifact /\ x.decision = a.decision /\ x.zk = a.zk
        /\ x.entity = a.entity /\ x.universal = a.universal
    BY <1>1 DEF Fields
  <1>3. EntityCount(x) = EntityCount(a)
    BY <1>2 DEF EntityCount
  <1>4. CategoriesPresent(x) = CategoriesPresent(a)
    BY <1>2 DEF CategoriesPresent
  <1> QED
    BY <1>2, <1>3, <1>4 DEF Holds

LEMMA ProfileKeepsAsked ==
  ASSUME EvidenceInv, AskedInv, NEW r \in Runs, ProfileStep(r)
  PROVE  AskedInv'
  <1>1. AskedAt(pc[r], work[r], case[r])
    BY DEF AskedInv
  <1>2. Typed /\ RunsInv
    BY DEF EvidenceInv
  <1>3. CASE Judges(r)
    <2> DEFINE claim == Claim(Profile(r), work[r])
               stage == IF Rejects(r, claim) THEN "failed"
                        ELSE IF WantsUniversal(r, claim) THEN "universal" ELSE "finish"
               preds == case[r].profile.predicates
    <2>1. /\ pc[r] = "judge" /\ UNCHANGED case /\ Goes(r, stage)
          /\ Makes(r, [work[r] EXCEPT !["claim"] = claim])
      BY <1>3 DEF Judges, At
    <2>2. case[r] # None /\ case[r].profile # None
      BY <1>1, <2>1 DEF AskedAt
    <2>3. stage \in {"failed", "universal", "finish"} /\ (stage = "universal" => claim.ok)
      BY DEF WantsUniversal
    <2>4. ASSUME claim.ok
          PROVE  \A i \in DOMAIN preds : Holds(preds[i], work'[r])
      <3>1. preds \in Seq(Predicates)
        BY <1>2, <2>2, ProfilesAssumption DEF Typed
      <3>2. \A i \in DOMAIN preds : Holds(preds[i], work[r])
        BY <2>4, <3>1, ClaimHolds DEF Profile
      <3>3. work[r] = [f \in Fields |-> work[r][f]]
        <4>1. MadeAt(pc[r], work[r], began[r], vk)
          BY <1>2 DEF RunsInv
        <4>2. pc[r] \in Attesting
          BY <2>1 DEF Attesting
        <4>3. Dossier(work[r], began[r], vk)
          BY <4>1, <4>2 DEF MadeAt
        <4> QED
          BY <4>3 DEF Dossier, Agreed
      <3> HIDE DEF claim, stage, preds
      <3>4. work'[r] = [work[r] EXCEPT !["claim"] = claim]
        BY <1>2, <2>1 DEF Makes, Typed
      <3>5. \A p : Holds(p, work'[r]) = Holds(p, work[r])
        BY <3>3, <3>4, HoldsWithClaim
      <3> QED
        BY <3>2, <3>5
    <2> HIDE DEF claim, stage
    <2> QED
      BY <1>2, <2>1, <2>2, <2>3, <2>4, AskedMoves
  <1>4. CASE UniversalRaises(r)
    <2>1. pc[r] = "universal" /\ UNCHANGED <<case, work>> /\ Goes(r, Unproved(r))
      BY <1>4 DEF UniversalRaises, At
    <2>2. case[r] # None
      BY <1>1, <2>1 DEF AskedAt
    <2>3. Unproved(r) \in {"failed", "finish"}
      BY DEF Unproved
    <2> QED
      BY <1>2, <2>1, <2>2, <2>3, AskedMoves
  <1>5. CASE Finishes(r)
    <2>1. pc[r] = "finish" /\ UNCHANGED <<case, work>> /\ Goes(r, "succeeded")
      BY <1>5 DEF Finishes, At
    <2>2. case[r] # None
      BY <1>1, <2>1 DEF AskedAt
    <2> QED
      BY <1>2, <2>1, <2>2, AskedMoves
  <1>6. ASSUME NEW valid \in BOOLEAN, ProvesUniversal(r, valid)
        PROVE  AskedInv'
    <2>1. /\ pc[r] = "universal" /\ UNCHANGED case /\ \E product : Makes(r, product)
          /\ Goes(r, "failed") \/ Goes(r, "finish")
      BY <1>6 DEF ProvesUniversal, At
    <2>2. case[r] # None
      BY <1>1, <2>1 DEF AskedAt
    <2>3. CASE Goes(r, "failed")
      BY <1>2, <2>1, <2>2, <2>3, AskedMoves
    <2>4. CASE Goes(r, "finish")
      BY <1>2, <2>1, <2>2, <2>4, AskedMoves
    <2> QED
      BY <2>1, <2>3, <2>4
  <1> QED
    BY <1>3, <1>4, <1>5, <1>6 DEF ProfileStep

LEMMA KeysKeepAsked ==
  ASSUME Typed, AskedInv, NEW r \in Runs, KeyStep(r) \/ Dies(r)
  PROVE  AskedInv'
  <1>1. AskedAt(pc[r], work[r], case[r])
    BY DEF AskedInv
  <1>2. /\ pc[r] # "idle" /\ UNCHANGED case
        /\ work' = work \/ \E product : Makes(r, product)
        /\ \E stage \in {"hide", "makeFile", "failed", "writeKey", "succeeded", "dead"} :
             Goes(r, stage)
    BY DEF KeyStep, LoadsKey, MakesKey, RefusesKey, MakesFile, WritesKey, Hides, Dies,
           At, Ended
  <1>3. case[r] # None
    BY <1>1, <1>2 DEF AskedAt
  <1>4. PICK stage \in {"hide", "makeFile", "failed", "writeKey", "succeeded", "dead"} :
          Goes(r, stage)
    BY <1>2
  <1> QED
    BY <1>2, <1>3, <1>4, AskedMoves

LEMMA NextKeepsAsked ==
  ASSUME EvidenceInv, AskedInv, [Next]_vars
  PROVE  AskedInv'
  <1>1. Typed
    BY DEF EvidenceInv
  <1>2. CASE UNCHANGED vars \/ ChangesSpecs \/ RotatesKeys
    <2>1. UNCHANGED <<pc, work, case>>
      BY <1>2 DEF vars, ChangesSpecs, RotatesKeys
    <2> QED
      BY <2>1 DEF AskedInv
  <1>3. CASE \E r \in Runs : \/ AgentStep(r) \/ ProofStep(r) \/ ProfileStep(r)
                             \/ KeyStep(r) \/ Dies(r)
    BY <1>1, <1>3, AgentsKeepAsked, ProofsKeepAsked, ProfileKeepsAsked, KeysKeepAsked
  <1> QED
    BY <1>2, <1>3 DEF Next

LEMMA WitnessesAreGood ==
  ASSUME EvidenceInv, AskedInv
  PROVE  WitnessesSatisfy
  <1> SUFFICES ASSUME NEW r \in Runs
               PROVE  /\ pc[r] = "entity" /\ Provable(work[r].artifact) =>
                           LET leaves == Leaves(work[r].artifact)
                               root == EntityCircuits(work[r].artifact)[1].inputs.root
                               leads(w, i) == Climb(w) = root /\ w.leaf = leaves[i]
                           IN  /\ \A i \in DOMAIN Inclusions(leaves) :
                                     leads(Inclusions(leaves)[i], i)
                               /\ \A i \in 1..BatchSize :
                                     Len(leaves) <= BatchSize =>
                                       leads(BatchWitness(leaves)[i],
                                             IF i <= Len(leaves) THEN i ELSE 1)
                      /\ pc[r] = "universal" =>
                           \/ \E i \in DOMAIN Profile(r).predicates :
                                Profile(r).predicates[i].n = 0
                           \/ Satisfies(Witness(Profile(r), work[r]))
    BY DEF WitnessesSatisfy
  <1>1. Typed /\ MadeAt(pc[r], work[r], began[r], vk)
    BY DEF EvidenceInv, RunsInv
  <1>2. AskedAt(pc[r], work[r], case[r])
    BY DEF AskedInv
  <1>3. pc[r] \in {"entity", "universal"} => Counted(work[r].artifact)
    <2>1. pc[r] \in {"entity", "universal"} => pc[r] \in Attesting
      BY DEF Attesting
    <2> QED
      BY <1>1, <2>1 DEF MadeAt, Dossier, Agreed
  <1>4. ASSUME pc[r] = "entity", Provable(work[r].artifact)
        PROVE  LET leaves == Leaves(work[r].artifact)
                   root == EntityCircuits(work[r].artifact)[1].inputs.root
                   leads(w, i) == Climb(w) = root /\ w.leaf = leaves[i]
               IN  /\ \A i \in DOMAIN Inclusions(leaves) : leads(Inclusions(leaves)[i], i)
                   /\ \A i \in 1..BatchSize :
                        Len(leaves) <= BatchSize =>
                          leads(BatchWitness(leaves)[i], IF i <= Len(leaves) THEN i ELSE 1)
    <2> DEFINE leaves == Leaves(work[r].artifact)
               root == EntityCircuits(work[r].artifact)[1].inputs.root
               n == Len(leaves)
    <2>1. work[r].artifact.entities \in Seq(Range(work[r].artifact.entities))
      BY <1>3, <1>4 DEF Counted
    <2>2. root = Root(leaves)
      BY <2>1, RootIsStated
    <2>3. leaves \in Seq(Range(leaves)) /\ leaves # <<>> /\ Fits(leaves)
      BY <1>4, <2>1 DEF Leaves, Provable
    <2> HIDE DEF leaves, root
    <2>4. n \in Nat /\ n > 0
      BY <2>3, EmptySeq
    <2>5. \A i \in 1..n : LET w == InclusionWitness(leaves, i - 1)
                          IN  Climb(w) = root /\ w.leaf = leaves[i]
      <3>1. ASSUME NEW i \in 1..n
            PROVE  /\ Climb(InclusionWitness(leaves, i - 1)) = root
                   /\ InclusionWitness(leaves, i - 1).leaf = leaves[i]
        <4>1. i - 1 \in Nat /\ i - 1 < Len(leaves) /\ (i - 1) + 1 = i
          BY <2>4
        <4>2. Climb(InclusionWitness(leaves, i - 1)) = Root(leaves)
          BY <2>3, <4>1, WitnessLeads
        <4>3. InclusionWitness(leaves, i - 1).leaf = leaves[(i - 1) + 1]
          BY DEF InclusionWitness
        <4> QED
          BY <2>2, <4>1, <4>2, <4>3
      <3> QED
        BY <3>1
    <2>6. ASSUME NEW i \in DOMAIN Inclusions(leaves)
          PROVE  Inclusions(leaves)[i] = InclusionWitness(leaves, i - 1) /\ i \in 1..n
      BY <2>4, MerkleAssumption DEF Inclusions
    <2>7. ASSUME NEW i \in 1..BatchSize
          PROVE  BatchWitness(leaves)[i] =
                   InclusionWitness(leaves, (IF i <= n THEN i ELSE 1) - 1)
                 /\ (IF i <= n THEN i ELSE 1) \in 1..n
      <3>1. BatchWitness(leaves)[i] =
              InclusionWitness(leaves, IF i <= n THEN i - 1 ELSE 0)
        BY DEF BatchWitness
      <3> QED
        BY <2>4, <3>1, MerkleAssumption
    <2> QED
      BY <2>5, <2>6, <2>7 DEF leaves, root
  <1>5. ASSUME pc[r] = "universal",
               \A i \in DOMAIN Profile(r).predicates : Profile(r).predicates[i].n # 0
        PROVE  Satisfies(Witness(Profile(r), work[r]))
    <2>1. case[r] # None /\ case[r].profile # None
          /\ \A i \in DOMAIN Profile(r).predicates : Holds(Profile(r).predicates[i], work[r])
      BY <1>2, <1>5 DEF AskedAt, Profile
    <2>2. Profile(r).predicates \in Seq(Predicates)
      BY <1>1, <2>1, ProfilesAssumption DEF Typed, Profile
    <2> QED
      BY <1>3, <1>5, <2>1, <2>2, ClaimSatisfies
  <1> QED
    BY <1>4, <1>5

(* What the bridges hand to the circuits satisfies them, for documents of   *)
(* any number of entities that fit the tree: each inclusion witness and each  *)
(* slot of a batch leads from its leaf to the root the other circuits state   *)
(* (agents/zk/merkle_tree.py), and a claim that holds has a witness of the     *)
(* universal circuit (agents/zk/universal_bridge.py), unless it counts up to   *)
(* zero.                                                                     *)
THEOREM WitnessesLead == Spec => []WitnessesSatisfy
  <1>1. Init => EvidenceInv /\ AskedInv
    <2>1. ASSUME Init
          PROVE  AskedInv
      BY <2>1 DEF Init, AskedInv, AskedAt
    <2> QED
      BY <2>1, StartsEvidence
  <1>2. EvidenceInv /\ AskedInv /\ [Next]_vars => EvidenceInv' /\ AskedInv'
    BY NextKeepsEvidence, NextKeepsAsked
  <1>3. EvidenceInv /\ AskedInv => WitnessesSatisfy
    BY WitnessesAreGood
  <1> QED
    BY <1>1, <1>2, <1>3, PTL DEF Spec
-----------------------------------------------------------------------------
(* What a result says of the document it was made of.                       *)
Drawn(a, doc) ==
  /\ a.artifact.entities = Apply(doc).entities
  /\ a.artifact.total = Apply(doc).total
  /\ a.artifact.categories = Apply(doc).categories
  /\ a.decision = Decision(a.artifact)
  /\ a.entity # <<>> => Provable(a.artifact)

(* A total above zero is that of a counted value, each category is one of a  *)
(* value, and there are at least as many values as are counted.              *)
LEMMA DrawnIsFound ==
  ASSUME NEW doc \in Documents, NoWords(doc), Counted(Apply(doc)),
         NEW a, Drawn(a, doc)
  PROVE  /\ a.artifact.total # 0 => \E f \in Found(doc) : Category(Kind(doc, f)) # {}
         /\ EntityCount(a) \in Nat /\ Cardinality(Found(doc)) \in Nat
         /\ EntityCount(a) <= Cardinality(Found(doc))
         /\ a.artifact.entities # <<>> => Found(doc) # {}
         /\ \A c \in CategoriesPresent(a) :
              \E f \in Found(doc) : c \in Category(Kind(doc, f)) \cup {Kind(doc, f)}
  <1> DEFINE x == Apply(doc)
             es == x.entities
             T == {i \in DOMAIN es : Category(es[i].kind) # {}}
  <1>1. /\ IsFiniteSet(Found(doc))
        /\ Len(es) <= Cardinality(Found(doc))
        /\ \A i \in DOMAIN es : \E f \in Found(doc) : Kind(doc, f) = es[i].kind
    BY EntitiesAreFound
  <1>2. x.total = Cardinality(T) /\ x.categories = UNION {Category(es[i].kind) : i \in DOMAIN es}
    BY DEF Apply
  <1>3. es \in Seq(Range(es)) /\ x.total \in Nat
    BY DEF Counted
  <1>4. /\ a.artifact.entities = es /\ a.artifact.total = x.total
        /\ a.artifact.categories = x.categories
    BY DEF Drawn
  <1> HIDE DEF x
  <1>5. Cardinality(Found(doc)) \in Nat
    BY <1>1, FS_CardinalityType
  <1>6. Len(es) \in Nat /\ DOMAIN es = 1 .. Len(es)
    BY <1>3, LenProperties
  <1>7. T = {} => x.total = 0
    BY <1>2, FS_EmptySet
  <1>8. a.artifact.total # 0 => \E f \in Found(doc) : Category(Kind(doc, f)) # {}
    BY <1>1, <1>4, <1>7
  <1>9. EntityCount(a) = Len(es)
    <2>1. CASE es # <<>>
      BY <1>4, <2>1 DEF EntityCount
    <2>2. CASE es = <<>>
      <3>1. T = {}
        BY <2>2
      <3>2. Len(es) = 0
        BY <2>2
      <3> HIDE DEF T, es
      <3> QED
        BY <1>4, <1>7, <2>2, <3>1, <3>2 DEF EntityCount
    <2> QED
      BY <2>1, <2>2
  <1>10. a.artifact.entities # <<>> => Found(doc) # {}
    <2>1. es # <<>> => 1 \in DOMAIN es
      BY <1>3, <1>6, EmptySeq
    <2> QED
      BY <1>1, <1>4, <2>1
  <1>11. ASSUME NEW c \in CategoriesPresent(a)
         PROVE  \E f \in Found(doc) : c \in Category(Kind(doc, f)) \cup {Kind(doc, f)}
    <2>1. PICK i \in DOMAIN es : c \in Category(es[i].kind) \cup {es[i].kind}
      BY <1>2, <1>4, <1>11 DEF CategoriesPresent
    <2> QED
      BY <1>1, <2>1
  <1> QED
    BY <1>1, <1>5, <1>6, <1>8, <1>9, <1>10, <1>11

(* A predicate that holds of a result is earned by its document.            *)
LEMMA HeldIsEarned ==
  ASSUME NEW r \in Runs, case[r].doc \in Documents, NoWords(case[r].doc),
         Counted(Apply(case[r].doc)), Drawn(stored[r], case[r].doc),
         NEW p \in Predicates, Holds(p, stored[r]),
         p.id = "UNIVERSAL_PROOF_VALID" /\ Profile(r).universal /\ Mask(Profile(r)) # <<>>
           => stored[r].universal # None
  PROVE  Earned(p, r)
  <1> DEFINE doc == case[r].doc
             a == stored[r]
  <1>1. /\ a.artifact.total # 0 => \E f \in Found(doc) : Category(Kind(doc, f)) # {}
        /\ EntityCount(a) \in Nat /\ Cardinality(Found(doc)) \in Nat
        /\ EntityCount(a) <= Cardinality(Found(doc))
        /\ a.artifact.entities # <<>> => Found(doc) # {}
        /\ \A c \in CategoriesPresent(a) :
             \E f \in Found(doc) : c \in Category(Kind(doc, f)) \cup {Kind(doc, f)}
    BY DrawnIsFound
  <1>2. p.n \in Nat
    BY DEF Predicates
  <1>3. CASE p.id = "REDACTION_NONEMPTY"
    <2>1. a.artifact.total > 0
      BY <1>3 DEF Holds
    <2>2. a.artifact.total # 0
      BY <2>1
    <2> QED
      BY <1>1, <1>3, <2>2 DEF Earned
  <1>4. CASE p.id = "GOVERNANCE_APPROVED"
    <2>1. a.decision \in {"APPROVED", "APPROVED_WITH_REVIEW_FLAG"}
      BY <1>4 DEF Holds
    <2>2. a.artifact.total # 0
      <3>1. SUFFICES ASSUME a.artifact.total = 0
                     PROVE  a.decision = "APPROVED_NO_CHANGES"
        BY <2>1
      <3>2. "SSN" \notin a.artifact.categories
        BY <3>1 DEF Drawn, Counted
      <3>3. a.decision = Decision(a.artifact)
        BY DEF Drawn
      <3> QED
        BY <3>1, <3>2, <3>3 DEF Decision
    <2> QED
      BY <1>1, <1>4, <2>2 DEF Earned
  <1>5. CASE p.id = "ENTITY_COUNT_GTE"
    <2>1. EntityCount(a) >= p.n
      BY <1>5 DEF Holds
    <2>2. Cardinality(Found(doc)) >= p.n
      BY <1>1, <1>2, <2>1
    <2> QED
      BY <1>5, <2>2 DEF Earned
  <1>6. CASE p.id = "CATEGORY_INCLUDES"
    <2>1. p.categories \subseteq CategoriesPresent(a)
      BY <1>6 DEF Holds
    <2>2. \A c \in p.categories :
            \E f \in Found(doc) : c \in Category(Kind(doc, f)) \cup {Kind(doc, f)}
      BY <1>1, <2>1
    <2> QED
      BY <1>6, <2>2 DEF Earned
  <1>7. CASE p.id = "ZK_ENTITY_PRESENT"
    <2>1. a.entity # <<>>
      BY <1>7 DEF Holds
    <2>2. Provable(a.artifact)
      BY <2>1 DEF Drawn
    <2>3. Found(doc) # {}
      BY <1>1, <2>2 DEF Provable
    <2> QED
      BY <1>7, <2>1, <2>2, <2>3 DEF Earned
  <1>8. CASE p.id = "UNIVERSAL_PROOF_VALID"
    <2>1. a.universal # None => a.universal.valid
      BY <1>8 DEF Holds
    <2> QED
      BY <1>8, <2>1 DEF Earned
  <1>9. CASE p.id = "HANDOFF_RECORDED"
    BY <1>9 DEF Holds
  <1>10. CASE p.id \notin {"REDACTION_NONEMPTY", "GOVERNANCE_APPROVED", "ENTITY_COUNT_GTE",
                           "CATEGORY_INCLUDES", "ZK_ENTITY_PRESENT", "UNIVERSAL_PROOF_VALID",
                           "HANDOFF_RECORDED"}
    BY <1>10 DEF Earned
  <1> QED
    BY <1>3, <1>4, <1>5, <1>6, <1>7, <1>8, <1>9, <1>10
-----------------------------------------------------------------------------
(* What a run was told of its claim when it finishes: under a strict profile *)
(* that all predicates hold, and the universal proof is there if the profile  *)
(* is bound to it.                                                           *)
Told(a, profile) ==
  /\ a.claim # None
  /\ profile.failClosed =>
       /\ \A i \in DOMAIN profile.predicates : Holds(profile.predicates[i], a)
       /\ profile.universal /\ Mask(profile) # <<>> => a.universal # None

(* The stages only a run on its own goes through, those only a composition   *)
(* does, and those of the proofs.                                            *)
Alone == {"persist", "persistProofs", "encrypt", "makeFile", "writeKey", "hide"}

Together == {"judge", "universal", "finish"}

Proving == {"redaction", "rule-binding", "pipeline", "entity"}

(* What a composition has earned at each stage: its result says of the       *)
(* document what redaction found, and is judged before it is stored.         *)
EarnedAt(stage, w, x, c) ==
  /\ stage \in Alone => c.way # "composition"
  /\ stage \in Together => c.way = "composition"
  /\ stage \in Proving => c.way = "composition" \/ c.attest
  /\ stage = "orchestrate" => w.texts = Apply(c.doc).texts
  /\ stage \in {"orchestrate", "coordinate"} =>
       /\ w.entities = Apply(c.doc).entities
       /\ w.total = Apply(c.doc).total
       /\ w.categories = Apply(c.doc).categories
  /\ stage \in Proving \cup Together /\ c.way = "composition" => Drawn(w, c.doc)
  /\ stage = "universal" => w.claim # None
  /\ stage = "finish" /\ c.profile # None => Told(w, c.profile)
  /\ stage = "succeeded" /\ c.way = "composition" /\ c.profile # None =>
       Told(x, c.profile) /\ Drawn(x, c.doc)

EarnedInv == \A r \in Runs : EarnedAt(pc[r], work[r], stored[r], case[r])

LEMMA EarnedMoves ==
  ASSUME Typed, EarnedInv, NEW r \in Runs, UNCHANGED case,
         NEW stage, Goes(r, stage),
         work' = work \/ \E product : Makes(r, product),
         stored' = stored \/ \E artifact : Writes(r, artifact),
         EarnedAt(stage, work'[r], stored'[r], case[r])
  PROVE  EarnedInv'
  <1>1. /\ pc'[r] = stage
        /\ \A s \in Runs \ {r} : pc'[s] = pc[s] /\ work'[s] = work[s] /\ stored'[s] = stored[s]
    BY DEF Typed, Goes, Makes, Writes
  <1>2. \A s \in Runs \ {r} : EarnedAt(pc'[s], work'[s], stored'[s], case'[s])
    BY <1>1 DEF EarnedInv
  <1>3. EarnedAt(pc'[r], work'[r], stored'[r], case'[r])
    BY <1>1
  <1> QED
    BY <1>2, <1>3 DEF EarnedInv

(* A run that ends is told nothing.                                         *)
LEMMA EarnedByEnding ==
  ASSUME NEW stage \in {"failed", "dead"}, NEW w, NEW x, NEW c
  PROVE  EarnedAt(stage, w, x, c)
  BY DEF EarnedAt, Alone, Together, Proving

(* What is attached to a result leaves what it says of the document.        *)
LEMMA StillDrawn ==
  ASSUME NEW a, NEW doc, Drawn(a, doc), NEW x,
         x.artifact = a.artifact, x.decision = a.decision,
         x.entity # <<>> => Provable(a.artifact)
  PROVE  Drawn(x, doc)
  BY DEF Drawn

(* The record that a run works on while it is attested.                     *)
LEMMA WorkIsRecord ==
  ASSUME RunsInv, NEW r \in Runs, pc[r] \in Attesting
  PROVE  work[r] = [f \in Fields |-> work[r][f]]
  <1>1. Dossier(work[r], began[r], vk)
    BY DEF RunsInv, MadeAt
  <1> QED
    BY <1>1 DEF Dossier, Agreed

LEMMA AgentsEarn ==
  ASSUME EvidenceInv, EarnedInv, NEW r \in Runs, AgentStep(r)
  PROVE  EarnedInv'
  <1>1. EarnedAt(pc[r], work[r], stored[r], case[r])
    BY DEF EarnedInv
  <1>2. Typed
    BY DEF EvidenceInv
  <1>3. CASE Redacts(r)
    <2>1. /\ UNCHANGED <<case, stored>> /\ Goes(r, "orchestrate")
          /\ Makes(r, RedactorOutput(case[r].doc, spec))
      BY <1>3 DEF Redacts, At
    <2>2. work'[r] = RedactorOutput(case[r].doc, spec)
      BY <1>2, <2>1 DEF Makes, Typed
    <2>3. EarnedAt("orchestrate", work'[r], stored'[r], case[r])
      BY <2>2 DEF EarnedAt, RedactorOutput, Alone, Together, Proving
    <2> QED
      BY <1>2, <2>1, <2>3, EarnedMoves
  <1>4. CASE RedactRaises(r)
    <2>1. UNCHANGED <<case, work, stored>> /\ Goes(r, "failed")
      BY <1>4 DEF RedactRaises, At
    <2> QED
      BY <1>2, <2>1, EarnedByEnding, EarnedMoves
  <1>5. CASE Orchestrates(r)
    <2>1. /\ pc[r] = "orchestrate" /\ UNCHANGED <<case, stored>> /\ Goes(r, "coordinate")
          /\ Makes(r, ProposedArtifact(work[r], spec))
      BY <1>5 DEF Orchestrates, At
    <2>2. work'[r] = ProposedArtifact(work[r], spec)
      BY <1>2, <2>1 DEF Makes, Typed
    <2>3. EarnedAt("coordinate", work'[r], stored'[r], case[r])
      BY <1>1, <2>1, <2>2 DEF EarnedAt, ProposedArtifact, Alone, Together, Proving
    <2> QED
      BY <1>2, <2>1, <2>3, EarnedMoves
  <1>6. CASE Coordinates(r)
    <2> DEFINE stage == IF ~Composition(r) THEN "persist"
                        ELSE IF Wanted(r) THEN "redaction" ELSE Judged(r)
    <2>1. /\ pc[r] = "coordinate" /\ UNCHANGED <<case, stored>> /\ Goes(r, stage)
          /\ Makes(r, Attested(work[r], spec))
      BY <1>6 DEF Coordinates, At
    <2>2. work'[r] = Attested(work[r], spec)
      BY <1>2, <2>1 DEF Makes, Typed
    <2>3. Drawn(work'[r], case[r].doc)
      BY <1>1, <2>1, <2>2 DEF EarnedAt, Attested, Drawn
    <2>4. \/ stage = "persist" /\ case[r].way # "composition"
          \/ stage \in {"redaction", "judge"} /\ case[r].way = "composition"
          \/ stage = "finish" /\ case[r].way = "composition" /\ case[r].profile = None
      BY DEF Composition, Judged
    <2> HIDE DEF stage
    <2>5. EarnedAt(stage, work'[r], stored'[r], case[r])
      BY <2>3, <2>4 DEF EarnedAt, Alone, Together, Proving
    <2> QED
      BY <1>2, <2>1, <2>5, EarnedMoves
  <1>7. CASE Persists(r)
    <2> DEFINE stage == IF case[r].attest THEN "redaction" ELSE Encrypting(r)
    <2>1. /\ pc[r] = "persist" /\ UNCHANGED <<case, work>> /\ Goes(r, stage)
          /\ \E artifact : Writes(r, artifact)
      BY <1>7 DEF Persists, At
    <2>2. case[r].way # "composition"
      BY <1>1, <2>1 DEF EarnedAt, Alone
    <2>3. \/ stage = "redaction" /\ case[r].attest
          \/ stage \in {"encrypt", "succeeded"}
      BY DEF Encrypting
    <2> HIDE DEF stage
    <2>4. EarnedAt(stage, work'[r], stored'[r], case[r])
      BY <2>2, <2>3 DEF EarnedAt, Alone, Together, Proving
    <2> QED
      BY <1>2, <2>1, <2>4, EarnedMoves
  <1> QED
    BY <1>3, <1>4, <1>5, <1>6, <1>7 DEF AgentStep

LEMMA ProofsEarn ==
  ASSUME EvidenceInv, EarnedInv, NEW r \in Runs, ProofStep(r)
  PROVE  EarnedInv'
  <1>1. EarnedAt(pc[r], work[r], stored[r], case[r])
    BY DEF EarnedInv
  <1>2. Typed /\ RunsInv
    BY DEF EvidenceInv
  <1>3. ASSUME NEW c \in Governance, Proves(r, c) \/ ProverFails(r, c)
        PROVE  EarnedInv'
    <2>1. PICK p : Makes(r, [work[r] EXCEPT !.zk[c] = p])
      BY <1>3 DEF Proves, ProverFails
    <2>2. pc[r] = c /\ UNCHANGED <<case, stored>> /\ Goes(r, AfterCircuit(c))
      BY <1>3 DEF Proves, ProverFails, At
    <2>3. AfterCircuit(c) \in {"rule-binding", "pipeline", "entity"} /\ pc[r] \in Proving
      BY <2>2 DEF AfterCircuit, Governance, Proving
    <2>4. work'[r] = [work[r] EXCEPT !.zk[c] = p]
      BY <1>2, <2>1 DEF Makes, Typed
    <2>5. case[r].way = "composition" => Drawn(work'[r], case[r].doc)
      <3> DEFINE a == work[r]
                 x == work'[r]
      <3>1. pc[r] \in Attesting
        BY <2>3 DEF Proving, Attesting
      <3>2. a = [f \in Fields |-> a[f]]
        BY <1>2, <3>1, WorkIsRecord
      <3>3. x = [a EXCEPT !.zk[c] = p]
        BY <2>4
      <3>4. case[r].way = "composition" => Drawn(a, case[r].doc)
        BY <1>1, <2>3 DEF EarnedAt
      <3> HIDE DEF a, x
      <3>5. x.artifact = a.artifact /\ x.decision = a.decision /\ x.entity = a.entity
        BY <3>2, <3>3 DEF Fields
      <3>6. case[r].way = "composition" => Drawn(x, case[r].doc)
        BY <3>4, <3>5, StillDrawn DEF Drawn
      <3> QED
        BY <3>6 DEF x
    <2>6. case[r].way = "composition" \/ case[r].attest
      BY <1>1, <2>3 DEF EarnedAt
    <2>7. EarnedAt(AfterCircuit(c), work'[r], stored'[r], case[r])
      BY <2>3, <2>5, <2>6 DEF EarnedAt, Alone, Together, Proving
    <2> QED
      BY <1>2, <2>1, <2>2, <2>7, EarnedMoves
  <1>4. \/ Composition(r) /\ AfterProofs(r) = "judge" /\ case[r].profile # None
        \/ Composition(r) /\ AfterProofs(r) = "finish" /\ case[r].profile = None
        \/ ~Composition(r) /\ AfterProofs(r) = "persistProofs"
    BY DEF AfterProofs, Judged
  <1>5. ASSUME NEW failing, ProvesEntities(r, failing)
        PROVE  EarnedInv'
    <2>1. /\ pc[r] = "entity" /\ UNCHANGED <<case, stored>> /\ Goes(r, AfterProofs(r))
          /\ Provable(work[r].artifact)
          /\ Makes(r, [work[r] EXCEPT !["entity"] = EntityProofs(work[r].artifact, vk, failing)])
      BY <1>5 DEF ProvesEntities, At
    <2>2. case[r].way = "composition" => Drawn(work'[r], case[r].doc)
      <3> DEFINE a == work[r]
                 x == work'[r]
                 ps == EntityProofs(work[r].artifact, vk, failing)
      <3>1. pc[r] \in Attesting /\ pc[r] \in Proving
        BY <2>1 DEF Proving, Attesting
      <3>2. a = [f \in Fields |-> a[f]]
        BY <1>2, <3>1, WorkIsRecord
      <3> HIDE DEF ps
      <3>3. x = [a EXCEPT !["entity"] = ps]
        BY <1>2, <2>1 DEF Makes, Typed, ps
      <3>4. case[r].way = "composition" => Drawn(a, case[r].doc)
        BY <1>1, <3>1 DEF EarnedAt
      <3>5. Provable(a.artifact)
        BY <2>1
      <3> HIDE DEF a, x
      <3>6. x.artifact = a.artifact /\ x.decision = a.decision
        BY <3>2, <3>3 DEF Fields
      <3>7. case[r].way = "composition" => Drawn(x, case[r].doc)
        BY <3>4, <3>5, <3>6, StillDrawn
      <3> QED
        BY <3>7 DEF x
    <2>3. EarnedAt(AfterProofs(r), work'[r], stored'[r], case[r])
      BY <1>4, <2>2 DEF EarnedAt, Alone, Together, Proving, Composition
    <2> QED
      BY <1>2, <2>1, <2>3, EarnedMoves
  <1>6. CASE EntitiesRaise(r)
    <2> DEFINE stage == IF case[r].attest THEN "failed" ELSE "judge"
    <2>1. pc[r] = "entity" /\ UNCHANGED <<case, work, stored>> /\ Goes(r, stage)
      BY <1>6 DEF EntitiesRaise, At
    <2>2. CASE case[r].attest
      BY <1>2, <2>1, <2>2, EarnedByEnding, EarnedMoves
    <2>3. CASE ~case[r].attest
      <3>1. pc[r] \in Proving
        BY <2>1 DEF Proving
      <3>2. case[r].way = "composition" /\ Drawn(work[r], case[r].doc)
        BY <1>1, <2>3, <3>1 DEF EarnedAt
      <3>3. EarnedAt("judge", work'[r], stored'[r], case[r])
        BY <2>1, <3>2 DEF EarnedAt, Alone, Together, Proving
      <3>4. stage = "judge"
        BY <2>3
      <3> QED
        BY <1>2, <2>1, <3>3, <3>4, EarnedMoves
    <2> QED
      BY <2>2, <2>3
  <1>7. CASE PersistsProofs(r)
    <2>1. /\ pc[r] = "persistProofs" /\ UNCHANGED <<case, work>>
          /\ Goes(r, Encrypting(r)) /\ \E artifact : Writes(r, artifact)
      BY <1>7 DEF PersistsProofs, At
    <2>2. case[r].way # "composition"
      BY <1>1, <2>1 DEF EarnedAt, Alone
    <2>3. Encrypting(r) \in {"encrypt", "succeeded"}
      BY DEF Encrypting
    <2>4. EarnedAt(Encrypting(r), work'[r], stored'[r], case[r])
      BY <2>2, <2>3 DEF EarnedAt, Alone, Together, Proving
    <2> QED
      BY <1>2, <2>1, <2>4, EarnedMoves
  <1> QED
    BY <1>3, <1>5, <1>6, <1>7 DEF ProofStep

LEMMA ClaimIsThere ==
  /\ \A profile, a : Claim(profile, a) # None
  /\ \A valid : [valid |-> valid] # None
  <1>1. ASSUME NEW profile, NEW a
        PROVE  Claim(profile, a) # None
    <2>1. "ok" \in DOMAIN Claim(profile, a)
      BY DEF Claim
    <2>2. "ok" \notin DOMAIN None
      BY DEF None
    <2> QED
      BY <2>1, <2>2
  <1>2. ASSUME NEW valid
        PROVE  [valid |-> valid] # None
    <2>1. "valid" \in DOMAIN [valid |-> valid]
      OBVIOUS
    <2>2. "valid" \notin DOMAIN None
      BY DEF None
    <2> QED
      BY <2>1, <2>2
  <1> QED
    BY <1>1, <1>2

(* Only one predicate speaks of the universal proof.                        *)
LEMMA HoldsWithProof ==
  ASSUME NEW a, a = [f \in Fields |-> a[f]],
         NEW p \in Predicates, p.id # "UNIVERSAL_PROOF_VALID",
         NEW proof, NEW x, x = [a EXCEPT !["universal"] = proof]
  PROVE  Holds(p, x) = Holds(p, a)
  <1>1. x = [f \in Fields |-> IF f = "universal" THEN proof ELSE a[f]]
    OBVIOUS
  <1>2. /\ x.artifact = a.artifact /\ x.decision = a.decision /\ x.zk = a.zk
        /\ x.entity = a.entity
    BY <1>1 DEF Fields
  <1>3. EntityCount(x) = EntityCount(a)
    BY <1>2 DEF EntityCount
  <1>4. CategoriesPresent(x) = CategoriesPresent(a)
    BY <1>2 DEF CategoriesPresent
  <1>5. p.id \in Catalog \ {"UNIVERSAL_PROOF_VALID"}
    BY DEF Predicates
  <1>6. CASE p.id = "REDACTION_NONEMPTY"
    BY <1>2, <1>6 DEF Holds
  <1>7. CASE p.id = "ENTITY_COUNT_GTE"
    BY <1>3, <1>7 DEF Holds
  <1>8. CASE p.id = "CATEGORY_INCLUDES"
    BY <1>4, <1>8 DEF Holds
  <1>9. CASE p.id \in {"RULE_BOUND", "PIPELINE_CHAIN", "ATTESTED_STATUS",
                      "ARTIFACT_HASH_PRESENT"}
    BY <1>9 DEF Holds
  <1>10. CASE p.id = "GOVERNANCE_APPROVED"
    BY <1>2, <1>10 DEF Holds
  <1>11. CASE p.id = "ZK_GOVERNANCE_PRESENT"
    BY <1>2, <1>11 DEF Holds
  <1>12. CASE p.id = "ZK_ENTITY_PRESENT"
    BY <1>2, <1>12 DEF Holds
  <1>13. CASE p.id = "HANDOFF_RECORDED"
    BY <1>13 DEF Holds
  <1> QED
    BY <1>5, <1>6, <1>7, <1>8, <1>9, <1>10, <1>11, <1>12, <1>13 DEF Catalog, Bits

(* The claim written into a result that it is about.                        *)
LEMMA ToldByClaim ==
  ASSUME NEW profile, profile.predicates \in Seq(Predicates),
         NEW a, a = [f \in Fields |-> a[f]],
         NEW claim, claim # None,
         profile.failClosed => \A i \in DOMAIN profile.predicates :
                                 Holds(profile.predicates[i], a),
         profile.failClosed /\ profile.universal /\ Mask(profile) # <<>> =>
           a.universal # None,
         NEW x, x = [a EXCEPT !["claim"] = claim]
  PROVE  /\ Told(x, profile)
         /\ \A doc : Drawn(a, doc) => Drawn(x, doc)
  <1>1. x = [f \in Fields |-> IF f = "claim" THEN claim ELSE a[f]]
    OBVIOUS
  <1>2. /\ x.artifact = a.artifact /\ x.decision = a.decision /\ x.entity = a.entity
        /\ x.universal = a.universal /\ x.claim = claim
    BY <1>1 DEF Fields
  <1>3. \A i \in DOMAIN profile.predicates :
          Holds(profile.predicates[i], x) = Holds(profile.predicates[i], a)
    <2>1. /\ a = [f \in Fields |-> a[f]]
          /\ x = [a EXCEPT !["claim"] = claim]
      OBVIOUS
    <2>2. ASSUME NEW p
          PROVE  Holds(p, x) = Holds(p, a)
      BY ONLY <2>1, HoldsWithClaim
    <2> QED
      BY <2>2
  <1>4. Told(x, profile)
    BY <1>2, <1>3 DEF Told
  <1>5. \A doc : Drawn(a, doc) => Drawn(x, doc)
    BY <1>2 DEF Drawn
  <1> QED
    BY <1>4, <1>5

LEMMA JudgesEarns ==
  ASSUME EvidenceInv, AskedInv, EarnedInv, NEW r \in Runs, Judges(r)
  PROVE  EarnedInv'
  <1> DEFINE claim == Claim(Profile(r), work[r])
             a == work[r]
             c == case[r]
             stage == IF Rejects(r, claim) THEN "failed"
                      ELSE IF WantsUniversal(r, claim) THEN "universal" ELSE "finish"
  <1>1. Typed /\ RunsInv
    BY DEF EvidenceInv
  <1>2. /\ pc[r] = "judge" /\ UNCHANGED <<case, stored>> /\ Goes(r, stage)
        /\ Makes(r, [work[r] EXCEPT !["claim"] = claim])
    BY DEF Judges, At
  <1>3. c.way = "composition" /\ Drawn(a, c.doc)
    <2>1. EarnedAt(pc[r], work[r], stored[r], case[r])
      BY DEF EarnedInv
    <2> QED
      BY <1>2, <2>1 DEF EarnedAt, Together
  <1>4. c # None /\ c.profile # None
    <2>1. AskedAt(pc[r], work[r], case[r])
      BY DEF AskedInv
    <2> QED
      BY <1>2, <2>1 DEF AskedAt
  <1>5. c.profile.predicates \in Seq(Predicates)
    BY <1>1, <1>4, ProfilesAssumption DEF Typed
  <1>6. a = [f \in Fields |-> a[f]]
    BY <1>1, <1>2, WorkIsRecord DEF Attesting
  <1>7. claim # None
    BY ClaimIsThere
  <1>8. claim.ok => \A i \in DOMAIN c.profile.predicates : Holds(c.profile.predicates[i], a)
    BY <1>5, ClaimHolds DEF Profile
  <1>9. \/ stage = "failed"
        \/ /\ stage = "universal"
           /\ claim.ok
        \/ /\ stage = "finish"
           /\ c.profile.failClosed => /\ claim.ok
                                      /\ ~(c.profile.universal /\ Mask(c.profile) # <<>>)
    BY DEF Rejects, WantsUniversal, Profile
  <1>10. work'[r] = [a EXCEPT !["claim"] = claim]
    BY <1>1, <1>2 DEF Makes, Typed
  <1> HIDE DEF claim, stage, a, c
  <1>11. work'[r].claim = claim /\ Drawn(work'[r], c.doc)
    <2> DEFINE x == work'[r]
    <2>1. x = [a EXCEPT !["claim"] = claim]
      BY <1>10
    <2> HIDE DEF x
    <2>2. x = [f \in Fields |-> IF f = "claim" THEN claim ELSE a[f]]
      BY <1>6, <2>1
    <2>3. /\ x.artifact = a.artifact /\ x.decision = a.decision /\ x.entity = a.entity
          /\ x.claim = claim
      BY <2>2 DEF Fields
    <2>4. Drawn(x, c.doc)
      BY <1>3, <2>3 DEF Drawn
    <2> QED
      BY <2>3, <2>4 DEF x
  <1>12. stage = "finish" => Told(work'[r], c.profile)
    <2> DEFINE x == work'[r]
               profile == c.profile
    <2>1. SUFFICES ASSUME stage = "finish"
                   PROVE  Told(x, profile)
      OBVIOUS
    <2>2. profile.failClosed => \A i \in DOMAIN profile.predicates :
                                  Holds(profile.predicates[i], a)
      BY <1>8, <1>9, <2>1
    <2>3. ~(profile.failClosed /\ profile.universal /\ Mask(profile) # <<>>)
      BY <1>9, <2>1
    <2>4. x = [a EXCEPT !["claim"] = claim] /\ profile.predicates \in Seq(Predicates)
      BY <1>5, <1>10
    <2> HIDE DEF x, profile
    <2> QED
      BY <1>6, <1>7, <2>2, <2>3, <2>4, ToldByClaim
  <1>13. EarnedAt(stage, work'[r], stored'[r], c)
    BY <1>3, <1>7, <1>9, <1>11, <1>12 DEF EarnedAt, Alone, Together, Proving
  <1> QED
    BY <1>1, <1>2, <1>13, EarnedMoves DEF c

LEMMA UniversalEarns ==
  ASSUME EvidenceInv, AskedInv, EarnedInv, NEW r \in Runs,
         NEW valid \in BOOLEAN, ProvesUniversal(r, valid)
  PROVE  EarnedInv'
  <1> DEFINE a == work[r]
             c == case[r]
             profile == case[r].profile
             proof == [valid |-> valid]
             proved == [work[r] EXCEPT !["universal"] = proof]
             claim == IF AsksForUniversal(Profile(r)) THEN Claim(Profile(r), proved)
                      ELSE work[r].claim
             stage == IF Rejects(r, claim) THEN "failed" ELSE "finish"
  <1>1. Typed /\ RunsInv
    BY DEF EvidenceInv
  <1>2. /\ pc[r] = "universal" /\ UNCHANGED <<case, stored>> /\ Goes(r, stage)
        /\ Makes(r, [proved EXCEPT !["claim"] = claim])
    BY DEF ProvesUniversal, At
  <1>3. c.way = "composition" /\ Drawn(a, c.doc) /\ a.claim # None
    <2>1. EarnedAt(pc[r], work[r], stored[r], case[r])
      BY DEF EarnedInv
    <2> QED
      BY <1>2, <2>1 DEF EarnedAt, Together
  <1>4. c # None /\ profile # None
        /\ \A i \in DOMAIN profile.predicates : Holds(profile.predicates[i], a)
    <2>1. AskedAt(pc[r], work[r], case[r])
      BY DEF AskedInv
    <2> QED
      BY <1>2, <2>1 DEF AskedAt
  <1>5. profile.predicates \in Seq(Predicates)
    BY <1>1, <1>4, ProfilesAssumption DEF Typed
  <1>6. a = [f \in Fields |-> a[f]]
    BY <1>1, <1>2, WorkIsRecord DEF Attesting
  <1>7. work'[r] = [proved EXCEPT !["claim"] = claim]
    BY <1>1, <1>2 DEF Makes, Typed
  <1>8. claim = IF AsksForUniversal(profile) THEN Claim(profile, proved) ELSE a.claim
    BY DEF Profile
  <1>9. stage = "failed" \/ (stage = "finish" /\ (profile.failClosed => claim.ok))
    BY DEF Rejects, Profile
  <1>10. proved = [a EXCEPT !["universal"] = proof]
    OBVIOUS
  <1> HIDE DEF claim, stage, proved, proof
  <1>11. CASE stage = "failed"
    BY <1>1, <1>2, <1>11, EarnedByEnding, EarnedMoves
  <1>12. CASE stage = "finish"
    <2> HIDE DEF a, profile, c
    <2>1. proved = [f \in Fields |-> IF f = "universal" THEN proof ELSE a[f]]
      BY <1>6, <1>10
    <2>2. /\ proved = [f \in Fields |-> proved[f]]
          /\ proved.artifact = a.artifact /\ proved.decision = a.decision
          /\ proved.entity = a.entity /\ proved.universal = proof
      BY <2>1 DEF Fields
    <2>3. Drawn(proved, c.doc)
      BY <1>3, <2>2 DEF Drawn
    <2>4. claim # None
      BY <1>3, <1>8, ClaimIsThere
    <2>5. profile.failClosed => \A i \in DOMAIN profile.predicates :
                                  Holds(profile.predicates[i], proved)
      <3>1. CASE AsksForUniversal(profile)
        <4>1. profile.failClosed => Claim(profile, proved).ok
          BY <1>8, <1>9, <1>12, <3>1
        <4> QED
          BY <1>5, <4>1, ClaimHolds
      <3>2. CASE ~AsksForUniversal(profile)
        <4>1. ASSUME NEW i \in DOMAIN profile.predicates
              PROVE  Holds(profile.predicates[i], proved)
          <5> DEFINE p == profile.predicates[i]
          <5>1. p.id # "UNIVERSAL_PROOF_VALID" /\ Holds(p, a)
            BY <1>4, <3>2 DEF AsksForUniversal
          <5>2. p \in Predicates
            <6> DEFINE preds == profile.predicates
            <6>1. preds \in Seq(Predicates) /\ i \in DOMAIN preds
              BY <1>5, <4>1
            <6> HIDE DEF preds
            <6>2. preds[i] \in Predicates
              BY <6>1, LenProperties, ElementOfSeq
            <6> QED
              BY <6>2 DEF preds
          <5> HIDE DEF p
          <5>3. Holds(p, proved) = Holds(p, a)
            BY <1>6, <1>10, <5>1, <5>2, HoldsWithProof
          <5>4. Holds(p, proved)
            BY <5>1, <5>3
          <5> QED
            BY <5>4 DEF p
        <4> QED
          BY <4>1
      <3> QED
        BY <3>1, <3>2
    <2>6. proved.universal # None
      BY <2>2, ClaimIsThere DEF proof
    <2>7. Told(work'[r], profile) /\ Drawn(work'[r], c.doc)
      <3> DEFINE x == work'[r]
      <3>1. x = [proved EXCEPT !["claim"] = claim]
        BY <1>7
      <3> HIDE DEF x
      <3>2. Told(x, profile) /\ \A doc : Drawn(proved, doc) => Drawn(x, doc)
        BY <1>5, <2>2, <2>4, <2>5, <2>6, <3>1, ToldByClaim
      <3> QED
        BY <2>3, <3>2 DEF x
    <2>8. profile = c.profile
      BY DEF profile, c
    <2>9. EarnedAt("finish", work'[r], stored'[r], c)
      BY <1>3, <2>7, <2>8 DEF EarnedAt, Alone, Together, Proving
    <2> QED
      BY <1>1, <1>2, <1>12, <2>9, EarnedMoves DEF c
  <1> QED
    BY <1>9, <1>11, <1>12

LEMMA ProfileEarns ==
  ASSUME EvidenceInv, AskedInv, EarnedInv, NEW r \in Runs, ProfileStep(r)
  PROVE  EarnedInv'
  <1>1. EarnedAt(pc[r], work[r], stored[r], case[r])
    BY DEF EarnedInv
  <1>2. AskedAt(pc[r], work[r], case[r])
    BY DEF AskedInv
  <1>3. Typed
    BY DEF EvidenceInv
  <1>4. CASE UniversalRaises(r)
    <2>1. pc[r] = "universal" /\ UNCHANGED <<case, work, stored>> /\ Goes(r, Unproved(r))
      BY <1>4 DEF UniversalRaises, At
    <2>2. CASE Profile(r).universal
      <3>1. Unproved(r) = "failed"
        BY <2>2 DEF Unproved
      <3> QED
        BY <1>3, <2>1, <3>1, EarnedByEnding, EarnedMoves
    <2>3. CASE ~Profile(r).universal
      <3>1. Unproved(r) = "finish"
        BY <2>3 DEF Unproved
      <3>2. Told(work[r], case[r].profile)
        BY <1>1, <1>2, <2>1, <2>3 DEF EarnedAt, AskedAt, Told, Profile
      <3>3. case[r].way = "composition" /\ Drawn(work[r], case[r].doc)
        BY <1>1, <2>1 DEF EarnedAt, Together
      <3>4. EarnedAt("finish", work'[r], stored'[r], case[r])
        BY <2>1, <3>2, <3>3 DEF EarnedAt, Alone, Together, Proving
      <3> QED
        BY <1>3, <2>1, <3>1, <3>4, EarnedMoves
    <2> QED
      BY <2>2, <2>3
  <1>5. CASE Finishes(r)
    <2>1. /\ pc[r] = "finish" /\ UNCHANGED <<case, work>> /\ Goes(r, "succeeded")
          /\ Writes(r, work[r])
      BY <1>5 DEF Finishes, At
    <2>2. stored'[r] = work[r]
      BY <1>3, <2>1 DEF Writes, Typed
    <2>3. EarnedAt("succeeded", work'[r], stored'[r], case[r])
      BY <1>1, <2>1, <2>2 DEF EarnedAt, Alone, Together, Proving
    <2> QED
      BY <1>3, <2>1, <2>3, EarnedMoves
  <1> QED
    BY <1>4, <1>5, JudgesEarns, UniversalEarns DEF ProfileStep

LEMMA KeysEarn ==
  ASSUME EvidenceInv, EarnedInv, NEW r \in Runs, KeyStep(r) \/ Dies(r)
  PROVE  EarnedInv'
  <1>1. EarnedAt(pc[r], work[r], stored[r], case[r])
    BY DEF EarnedInv
  <1>2. Typed
    BY DEF EvidenceInv
  <1>3. CASE KeyStep(r)
    <2>1. /\ pc[r] \in Alone /\ UNCHANGED case
          /\ work' = work \/ \E product : Makes(r, product)
          /\ stored' = stored \/ \E artifact : Writes(r, artifact)
          /\ \E stage \in {"hide", "makeFile", "failed", "writeKey", "succeeded"} :
               Goes(r, stage)
      BY <1>3 DEF KeyStep, LoadsKey, MakesKey, RefusesKey, MakesFile, WritesKey, Hides,
                  At, Alone
    <2>2. PICK stage \in {"hide", "makeFile", "failed", "writeKey", "succeeded"} :
            Goes(r, stage)
      BY <2>1
    <2>3. case[r].way # "composition"
      BY <1>1, <2>1 DEF EarnedAt
    <2>4. EarnedAt(stage, work'[r], stored'[r], case[r])
      BY <2>2, <2>3 DEF EarnedAt, Alone, Together, Proving
    <2> QED
      BY <1>2, <2>1, <2>2, <2>4, EarnedMoves
  <1>4. CASE Dies(r)
    <2>1. UNCHANGED <<case, work, stored>> /\ Goes(r, "dead")
      BY <1>4 DEF Dies
    <2> QED
      BY <1>2, <2>1, EarnedByEnding, EarnedMoves
  <1> QED
    BY <1>3, <1>4

LEMMA NextEarns ==
  ASSUME EvidenceInv, AskedInv, EarnedInv, [Next]_vars
  PROVE  EarnedInv'
  <1>1. CASE UNCHANGED vars \/ ChangesSpecs \/ RotatesKeys
    <2>1. UNCHANGED <<pc, work, stored, case>>
      BY <1>1 DEF vars, ChangesSpecs, RotatesKeys
    <2> QED
      BY <2>1 DEF EarnedInv
  <1>2. CASE \E r \in Runs : \/ AgentStep(r) \/ ProofStep(r) \/ ProfileStep(r)
                             \/ KeyStep(r) \/ Dies(r)
    BY <1>2, AgentsEarn, ProofsEarn, ProfileEarns, KeysEarn
  <1> QED
    BY <1>1, <1>2 DEF Next

LEMMA EarnedIsClaimed ==
  ASSUME EvidenceInv, AskedInv, EarnedInv
  PROVE  ClaimEarned
  <1> SUFFICES ASSUME NEW r \in Runs, pc[r] = "succeeded", Composition(r),
                      Profile(r) # None
               PROVE  /\ stored[r].claim # None
                      /\ Profile(r).failClosed /\ NoWords(case[r].doc) =>
                           \A i \in DOMAIN Profile(r).predicates :
                             Earned(Profile(r).predicates[i], r)
    BY DEF ClaimEarned
  <1>1. Typed
    BY DEF EvidenceInv
  <1>2. EarnedAt(pc[r], work[r], stored[r], case[r]) /\ AskedAt(pc[r], work[r], case[r])
    BY DEF EarnedInv, AskedInv
  <1>3. Told(stored[r], Profile(r)) /\ Drawn(stored[r], case[r].doc)
    BY <1>2 DEF EarnedAt, Composition, Profile
  <1>4. case[r] # None
    BY <1>2 DEF AskedAt
  <1>5. ASSUME Profile(r).failClosed, NoWords(case[r].doc),
               NEW i \in DOMAIN Profile(r).predicates
        PROVE  Earned(Profile(r).predicates[i], r)
    <2> DEFINE preds == Profile(r).predicates
               p == preds[i]
    <2>1. case[r].doc \in Documents /\ Counted(Apply(case[r].doc))
      BY <1>1, <1>4, DocumentsAssumption, RedactionCounts DEF Typed
    <2>2. preds \in Seq(Predicates)
      BY <1>1, <1>4, ProfilesAssumption DEF Typed, Profile
    <2>3. p \in Predicates
      <3>1. i \in DOMAIN preds
        BY <1>5
      <3> HIDE DEF preds
      <3>2. DOMAIN preds = 1 .. Len(preds)
        BY <2>2, LenProperties
      <3> QED
        BY <2>2, <3>1, <3>2, ElementOfSeq
    <2>4. /\ Holds(p, stored[r])
          /\ Profile(r).universal /\ Mask(Profile(r)) # <<>> => stored[r].universal # None
      BY <1>3, <1>5 DEF Told
    <2> HIDE DEF preds, p
    <2>5. Earned(p, r)
      BY <1>3, <1>5, <2>1, <2>3, <2>4, HeldIsEarned
    <2> QED
      BY <2>5 DEF p, preds
  <1> QED
    BY <1>3, <1>5 DEF Told

(* A composition that succeeded under a strict profile has earned each of    *)
(* its predicates from the document, and was told of its claim               *)
(* (agents/pipeline_runner.py, agents/proof_studio.py), for every document,   *)
(* profile and interleaving of runs, rotations and changes.                  *)
THEOREM ClaimsAreEarned == Spec => []ClaimEarned
  <1>1. Init => EvidenceInv /\ AskedInv /\ EarnedInv
    <2>1. ASSUME Init
          PROVE  EarnedInv
      BY <2>1 DEF Init, EarnedInv, EarnedAt, Alone, Together, Proving
    <2>2. Init => AskedInv
      BY DEF Init, AskedInv, AskedAt
    <2> QED
      BY <2>1, <2>2, StartsEvidence
  <1>2. EvidenceInv /\ AskedInv /\ EarnedInv /\ [Next]_vars
          => EvidenceInv' /\ AskedInv' /\ EarnedInv'
    BY NextKeepsEvidence, NextKeepsAsked, NextEarns
  <1>3. EvidenceInv /\ AskedInv /\ EarnedInv => ClaimEarned
    BY EarnedIsClaimed
  <1> QED
    BY <1>1, <1>2, <1>3, PTL DEF Spec
-----------------------------------------------------------------------------
(* Matches that stand in a text of n characters, one behind the other.      *)
Placed(ms, n) ==
  /\ ms \in Seq(Spans)
  /\ \A i \in DOMAIN ms : 1 <= ms[i][1] /\ ms[i][1] <= ms[i][2] /\ ms[i][2] <= n
  /\ \A i, j \in DOMAIN ms : i < j => ms[i][2] < ms[j][1]

(* A place that no match behind the first m covers.                         *)
Outside(ms, m, j) == \A i \in DOMAIN ms : m < i => ~(ms[i][1] <= j /\ j <= ms[i][2])

(* Where the characters of the text t are in s, when all matches behind the  *)
(* first m are replaced, from the right: what stands together stays together. *)
Moved(s, t, ms, m, loc) ==
  LET first == IF m < Len(ms) THEN ms[m + 1][1] ELSE Len(t) + 1
  IN  /\ loc \in [1 .. Len(t) -> Int]
      /\ \A j \in 1 .. Len(t) :
           Outside(ms, m, j) => loc[j] \in 1 .. Len(s) /\ s[loc[j]] = t[j]
      /\ \A j \in 1 .. Len(t) - 1 :
           Outside(ms, m, j) /\ Outside(ms, m, j + 1) => loc[j + 1] = loc[j] + 1
      /\ Len(t) # 0 /\ Outside(ms, m, Len(t)) => loc[Len(t)] = Len(s)
      /\ \A x \in 1 .. Len(s) :
           s[x].value # 0 => \E j \in 1 .. Len(t) : Outside(ms, m, j) /\ loc[j] = x
      /\ \A j \in 1 .. Len(t) :
           /\ j < first => loc[j] = j
           /\ first <= j /\ Outside(ms, m, j) => first <= loc[j]

(* The text s with the places from p to q replaced by a mark, which moves    *)
(* what is behind them by d.                                                *)
Replaces(u, s, p, q, d) ==
  /\ u \in Seq(Chars) /\ Len(u) = Len(s) + d
  /\ p <= q + d + 1
  /\ \A i \in 1 .. p - 1 : u[i] = s[i]
  /\ \A i \in q + 1 .. Len(s) : u[i + d] = s[i]
  /\ \A i \in p .. q + d : u[i].value = 0

(* What is behind a place that is spliced moves by as much as the mark is  *)
(* longer; what is before it stays.                                        *)
LEMMA SplicedMoves ==
  ASSUME NEW text \in Seq(Chars), NEW p \in 1 .. Len(text), NEW q \in p .. Len(text), NEW k
  PROVE  \E d \in Int : Replaces(Spliced(text, p, q, MarkOf(k)), text, p, q, d)
  <1> DEFINE s == Spliced(text, p, q, MarkOf(k))
             mark == MarkOf(k)
             l == Len(mark)
             d == l - (q - p + 1)
  <1>1. Len(text) \in Nat /\ p \in Nat \ {0} /\ q \in Nat /\ p <= q /\ q <= Len(text)
    BY LenProperties
  <1>2. mark \in Seq(Chars) /\ l \in Nat /\ DOMAIN mark = 1 .. l
    BY MarkIsList, LenProperties
  <1>3. \A i \in 1 .. l : mark[i].value = 0
    BY <1>2, MarkIsBlank
  <1>4. /\ s \in Seq(Chars)
        /\ Splice(s, text, mark, Before(text, p), l, q, Behind(text, q))
    BY <1>1, <1>2, SplicedAt
  <1>5. Before(text, p) = p - 1 /\ Behind(text, q) = Len(text) - q
    BY <1>1 DEF Before, Behind
  <1> HIDE DEF s, mark, l
  <1>6. /\ Len(s) = (p - 1) + l + (Len(text) - q)
        /\ \A i \in 1 .. p - 1 : s[i] = text[i]
        /\ \A i \in 1 .. l : s[(p - 1) + i] = mark[i]
        /\ \A i \in 1 .. Len(text) - q : s[(p - 1) + l + i] = text[q + i]
    BY <1>4, <1>5 DEF Splice
  <1>7. d \in Int /\ Len(s) = Len(text) + d /\ p <= q + d + 1
    BY <1>1, <1>2, <1>6
  <1>8. ASSUME NEW i \in q + 1 .. Len(text)
        PROVE  s[i + d] = text[i]
    <2>1. i - q \in 1 .. Len(text) - q /\ q + (i - q) = i /\ (p - 1) + l + (i - q) = i + d
      BY <1>1, <1>2
    <2> QED
      BY <1>6, <2>1
  <1>9. ASSUME NEW i \in p .. q + d
        PROVE  s[i].value = 0
    <2>1. i - (p - 1) \in 1 .. l /\ (p - 1) + (i - (p - 1)) = i
      BY <1>1, <1>2
    <2>2. s[i] = mark[i - (p - 1)]
      BY <1>6, <2>1
    <2> QED
      BY <1>3, <2>1, <2>2
  <1> HIDE DEF d
  <1> QED
    BY <1>4, <1>6, <1>7, <1>8, <1>9 DEF Replaces, s, mark

(* One match more, from the right: what lies outside moves once more.      *)
LEMMA MovedMore ==
  ASSUME NEW t \in Seq(Chars), NEW s \in Seq(Chars), NEW ms, Placed(ms, Len(t)),
         NEW m \in 1 .. Len(ms), NEW loc, Moved(s, t, ms, m, loc), NEW k
  PROVE  \E moved : Moved(Spliced(s, ms[m][1], ms[m][2], MarkOf(k)), t, ms, m - 1, moved)
  <1> DEFINE n == Len(t)
             z == Len(s)
             p == ms[m][1]
             q == ms[m][2]
             first == IF m < Len(ms) THEN ms[m + 1][1] ELSE n + 1
             u == Spliced(s, p, q, MarkOf(k))
             in(j) == Outside(ms, m, j)
             out(j) == Outside(ms, m - 1, j)
  <1>1. ms \in Seq(Spans) /\ Len(ms) \in Nat /\ DOMAIN ms = 1 .. Len(ms) /\ n \in Nat /\ z \in Nat
    BY LenProperties DEF Placed
  <1>2. /\ p \in Nat /\ q \in Nat /\ 1 <= p /\ p <= q /\ q <= n
        /\ first \in Nat /\ q < first /\ first <= n + 1
        /\ \A i \in DOMAIN ms : m < i => first <= ms[i][1]
    <2>1. \A i \in DOMAIN ms : ms[i][1] \in Nat /\ ms[i][2] \in Nat
      BY <1>1 DEF Spans
    <2>2. m < Len(ms) => m + 1 \in DOMAIN ms
      BY <1>1
    <2>3. \A i \in DOMAIN ms : m < i => m < Len(ms) /\ (m + 1 = i \/ m + 1 < i)
      BY <1>1
    <2>4. \A i \in DOMAIN ms : m + 1 < i /\ m + 1 \in DOMAIN ms => ms[m + 1][2] < ms[i][1]
      BY DEF Placed
    <2>5. \A i \in DOMAIN ms : m < i => first <= ms[i][1]
      <3>1. \A i \in DOMAIN ms : 1 <= ms[i][1] /\ ms[i][1] <= ms[i][2] /\ ms[i][2] <= n
        BY DEF Placed
      <3> QED
        BY <2>1, <2>2, <2>3, <2>4, <3>1
    <2>6. m \in DOMAIN ms /\ m < m + 1
      BY <1>1
    <2>7. /\ 1 <= p /\ p <= q /\ q <= n
          /\ m < Len(ms) => /\ ms[m][2] < ms[m + 1][1]
                            /\ ms[m + 1][1] <= ms[m + 1][2] /\ ms[m + 1][2] <= n
      BY <2>2, <2>6 DEF Placed
    <2> QED
      BY <1>1, <2>1, <2>2, <2>5, <2>6, <2>7
  <1>3. /\ loc \in [1 .. n -> Int]
        /\ \A j \in 1 .. n : in(j) => loc[j] \in 1 .. z /\ s[loc[j]] = t[j]
        /\ \A j \in 1 .. n - 1 : in(j) /\ in(j + 1) => loc[j + 1] = loc[j] + 1
        /\ n # 0 /\ in(n) => loc[n] = z
        /\ \A x \in 1 .. z : s[x].value # 0 => \E j \in 1 .. n : in(j) /\ loc[j] = x
        /\ \A j \in 1 .. n : /\ j < first => loc[j] = j
                             /\ first <= j /\ in(j) => first <= loc[j]
    BY DEF Moved
  <1>4. \A j \in 1 .. n : out(j) <=> in(j) /\ (j < p \/ q < j)
    <2>1. \A i \in DOMAIN ms : m - 1 < i <=> i = m \/ m < i
      BY <1>1
    <2>2. m \in DOMAIN ms
      BY <1>1
    <2>3. \A j \in 1 .. n : (j < p \/ q < j) <=> ~(p <= j /\ j <= q)
      BY <1>2
    <2> QED
      BY <2>1, <2>2, <2>3 DEF Outside
  <1>5. \A j \in 1 .. n : j < first => in(j)
    <2>1. \A i \in DOMAIN ms : ms[i][1] \in Nat
      BY <1>1 DEF Spans
    <2> QED
      BY <1>2, <2>1 DEF Outside
  <1>6. q <= z
    <2>1. q \in 1 .. n /\ q < first
      BY <1>2
    <2> QED
      BY <1>3, <1>5, <2>1
  <1>7. PICK d \in Int :
          /\ u \in Seq(Chars) /\ Len(u) = z + d
          /\ p <= q + d + 1
          /\ \A i \in 1 .. p - 1 : u[i] = s[i]
          /\ \A i \in q + 1 .. z : u[i + d] = s[i]
          /\ \A i \in p .. q + d : u[i].value = 0
    <2>1. p \in 1 .. Len(s) /\ q \in p .. Len(s)
      BY <1>1, <1>2, <1>6
    <2> HIDE DEF p, q
    <2>2. PICK d \in Int : Replaces(u, s, p, q, d)
      BY <2>1, SplicedMoves
    <2> HIDE DEF u
    <2> QED
      BY <2>2 DEF Replaces
  <1> HIDE DEF n, z, p, q, first, u, in, out
  <1> DEFINE moved == [j \in 1 .. n |-> IF j < p THEN j ELSE loc[j] + d]
  <1>8. \A j \in 1 .. n : in(j) /\ q < j => q < loc[j]
    BY <1>1, <1>2, <1>3
  <1>9. /\ moved \in [1 .. n -> Int]
        /\ \A j \in 1 .. n : moved[j] = IF j < p THEN j ELSE loc[j] + d
    BY <1>3
  <1>10. \A j \in 1 .. n : j < p => j < first /\ in(j) /\ moved[j] = j /\ loc[j] = j
    BY <1>2, <1>3, <1>5
  <1>11. \A j \in 1 .. n : out(j) /\ ~(j < p) =>
           in(j) /\ q < j /\ q < loc[j] /\ moved[j] = loc[j] + d /\ loc[j] \in 1 .. z
    BY <1>3, <1>4, <1>8
  <1> HIDE DEF moved
  <1>12. \A j \in 1 .. n : out(j) => moved[j] \in 1 .. Len(u) /\ u[moved[j]] = t[j]
    <2>1. ASSUME NEW j \in 1 .. n, j < p
          PROVE  moved[j] \in 1 .. Len(u) /\ u[moved[j]] = t[j]
      <3>1. moved[j] = j /\ s[j] = t[j]
        BY <1>3, <1>10, <2>1
      <3>2. j \in 1 .. p - 1
        BY <1>2, <2>1
      <3>3. j \in 1 .. Len(u)
        BY <1>1, <1>2, <1>6, <1>7, <3>2
      <3> QED
        BY <1>7, <3>1, <3>2, <3>3
    <2>2. ASSUME NEW j \in 1 .. n, out(j), ~(j < p)
          PROVE  moved[j] \in 1 .. Len(u) /\ u[moved[j]] = t[j]
      <3>1. /\ in(j) /\ q < loc[j] /\ moved[j] = loc[j] + d /\ loc[j] \in 1 .. z
            /\ s[loc[j]] = t[j]
        BY <1>3, <1>11, <2>2
      <3>2. loc[j] \in q + 1 .. z
        <4>1. loc[j] \in 1 .. z /\ q < loc[j] /\ q \in Nat /\ z \in Nat
          BY <1>1, <1>2, <3>1
        <4> QED
          BY <4>1
      <3>3. u[loc[j] + d] = s[loc[j]]
        BY <1>7, <3>2
      <3>4. loc[j] + d \in 1 .. Len(u)
        BY <1>1, <1>2, <1>7, <3>2
      <3> QED
        BY <3>1, <3>3, <3>4
    <2> QED
      BY <2>1, <2>2
  <1>13. \A j \in 1 .. n - 1 : out(j) /\ out(j + 1) => moved[j + 1] = moved[j] + 1
    <2>1. ASSUME NEW j \in 1 .. n - 1, out(j), out(j + 1)
          PROVE  moved[j + 1] = moved[j] + 1
      <3>1. j \in 1 .. n /\ j + 1 \in 1 .. n
        BY <1>1
      <3>2. in(j) /\ in(j + 1) /\ (j < p \/ q < j) /\ (j + 1 < p \/ q < j + 1)
        BY <1>4, <2>1, <3>1
      <3>3. (j < p /\ j + 1 < p) \/ (~(j < p) /\ ~(j + 1 < p))
        BY <1>2, <3>1, <3>2
      <3>4. loc[j + 1] = loc[j] + 1 /\ loc[j] \in Int
        BY <1>3, <3>1, <3>2
      <3> QED
        <4>1. CASE j < p /\ j + 1 < p
          <5>1. moved[j] = j /\ moved[j + 1] = j + 1
            BY <1>9, <3>1, <4>1
          <5> QED
            BY <5>1
        <4>2. CASE ~(j < p) /\ ~(j + 1 < p)
          <5>1. moved[j] = loc[j] + d /\ moved[j + 1] = loc[j + 1] + d
            BY <1>9, <3>1, <4>2
          <5> QED
            BY <3>4, <5>1
        <4> QED
          BY <3>3, <4>1, <4>2
    <2> QED
      BY <2>1
  <1>14. n # 0 /\ out(n) => moved[n] = Len(u)
    <2>1. ASSUME n # 0, out(n)
          PROVE  moved[n] = Len(u)
      <3>1. n \in 1 .. n /\ ~(n < p)
        BY <1>1, <1>2, <2>1
      <3>2. in(n)
        BY <1>4, <2>1, <3>1
      <3>3. loc[n] = z
        BY <1>3, <2>1, <3>2
      <3> QED
        BY <1>7, <1>9, <3>1, <3>3
    <2> QED
      BY <2>1
  <1>15. \A x \in 1 .. Len(u) : u[x].value # 0 => \E j \in 1 .. n : out(j) /\ moved[j] = x
    <2>1. ASSUME NEW x \in 1 .. Len(u), u[x].value # 0
          PROVE  \E j \in 1 .. n : out(j) /\ moved[j] = x
      <3>1. CASE x < p
        <4>1. x \in 1 .. n /\ x < first
          BY <1>1, <1>2, <3>1
        <4> QED
          <5>1. in(x)
            BY <1>5, <4>1
          <5>2. out(x)
            BY <1>4, <3>1, <4>1, <5>1
          <5>3. moved[x] = x
            BY <1>9, <3>1, <4>1
          <5> QED
            BY <4>1, <5>2, <5>3
      <3>2. CASE ~(x < p)
        <4>1. ~(x \in p .. q + d)
          BY <1>7, <2>1
        <4>2. x - d \in q + 1 .. z /\ x - d \in 1 .. z /\ (x - d) + d = x
          BY <1>1, <1>2, <1>7, <3>2, <4>1
        <4>3. u[x] = s[x - d]
          BY <1>7, <4>2
        <4>4. PICK j \in 1 .. n : in(j) /\ loc[j] = x - d
          BY <1>3, <2>1, <4>2, <4>3
        <4>5. q < j
          <5>1. CASE j < first
            BY <1>2, <1>3, <4>2, <4>4, <5>1
          <5>2. CASE ~(j < first)
            BY <1>1, <1>2, <5>2
          <5> QED
            BY <5>1, <5>2
        <4>6. out(j) /\ ~(j < p)
          BY <1>2, <1>4, <4>4, <4>5
        <4> QED
          BY <1>9, <4>2, <4>4, <4>6
      <3> QED
        BY <3>1, <3>2
    <2> QED
      BY <2>1
  <1>16. \A j \in 1 .. n : /\ j < p => moved[j] = j
                           /\ p <= j /\ out(j) => p <= moved[j]
    <2>1. ASSUME NEW j \in 1 .. n, p <= j, out(j)
          PROVE  p <= moved[j]
      <3>1. q < loc[j] /\ moved[j] = loc[j] + d /\ loc[j] \in 1 .. z
        BY <1>2, <1>11, <2>1
      <3> QED
        BY <1>2, <1>7, <3>1
    <2> QED
      BY <1>10, <2>1
  <1>17. m - 1 < Len(ms) /\ (m - 1) + 1 = m
    BY <1>1
  <1>18. Moved(u, t, ms, m - 1, moved)
    BY <1>9, <1>12, <1>13, <1>14, <1>15, <1>16, <1>17 DEF Moved, n, p, out
  <1> QED
    BY <1>18 DEF u, p, q

(* A pass from the right moves what it does not replace.                    *)
LEMMA PassMoves ==
  ASSUME NEW r \in Results, NEW k \in Marks, NEW ms, Placed(ms, Len(r.text))
  PROVE  \E loc : Moved(FromTheRight(r, k, ms).text, r.text, ms, 0, loc)
  <1> DEFINE t == r.text
             n == Len(ms)
             rs == Reverse(ms)
  <1>1. /\ t \in Seq(Chars) /\ Len(t) \in Nat
        /\ ms \in Seq(Spans) /\ n \in Nat /\ DOMAIN ms = 1 .. n
    BY LenProperties DEF Results, Placed
  <1>2. /\ rs \in Seq(Spans) /\ Len(rs) = n
        /\ \A i \in 1 .. n : rs[i] = ms[(n - i) + 1]
    <2>1. \A i \in DOMAIN ms : ms[i][1] <= ms[i][2]
      BY DEF Placed
    <2>2. rs \in Seq(Spans) /\ Len(rs) = n
      BY <1>1, <2>1, ReversedIsList
    <2>3. rs = [i \in 1 .. n |-> ms[(n - i) + 1]]
      BY DEF Reverse
    <2> HIDE DEF rs
    <2> QED
      BY <2>2, <2>3
  <1>3. FromTheRight(r, k, ms) = InOrder(r, k, rs)
    BY DEF FromTheRight, InOrder
  <1> HIDE DEF rs, n
  <1>4. PICK a : /\ a[0] = r /\ a[n] = InOrder(r, k, rs)
                 /\ \A i \in 1 .. n : a[i] = Substituted(a[i - 1], rs[i], k)
    <2>1. PICK a : /\ a[0] = r /\ a[Len(rs)] = InOrder(r, k, rs)
                   /\ \A i \in 1 .. Len(rs) : a[i] = Substituted(a[i - 1], rs[i], k)
      BY <1>2, InOrderSteps
    <2> QED
      BY <1>2, <2>1
  <1> DEFINE U == {i \in 0 .. n : /\ a[i].text \in Seq(Chars)
                                  /\ \E loc : Moved(a[i].text, t, ms, n - i, loc)}
  <1>5. 0 \in U
    <2> DEFINE loc == [j \in 1 .. Len(t) |-> j]
    <2>1. loc \in [1 .. Len(t) -> Int] /\ \A j \in 1 .. Len(t) : loc[j] = j
      BY <1>1
    <2> HIDE DEF loc, t
    <2>2. Moved(t, t, ms, n, loc)
      <3>1. ~(n < Len(ms))
        BY <1>1 DEF n
      <3>2. \A j \in 1 .. Len(t) - 1 : j \in 1 .. Len(t) /\ j + 1 \in 1 .. Len(t)
        BY <1>1
      <3>3. \A i \in DOMAIN ms : ~(n < i)
        BY <1>1
      <3>4. \A j : Outside(ms, n, j)
        BY <3>3 DEF Outside
      <3>5. Len(t) # 0 => Len(t) \in 1 .. Len(t)
        BY <1>1
      <3>6. \A j \in 1 .. Len(t) : j < Len(t) + 1 /\ ~(Len(t) + 1 <= j)
        BY <1>1
      <3> QED
        BY <2>1, <3>1, <3>2, <3>4, <3>5, <3>6 DEF Moved
    <2>3. a[0].text = t /\ n - 0 = n /\ 0 \in 0 .. n
      BY <1>1, <1>4 DEF t
    <2> QED
      BY <1>1, <2>2, <2>3
  <1>6. ASSUME NEW i \in 1 .. n, i - 1 \in U
        PROVE  i \in U
    <2> DEFINE m == (n - i) + 1
               s == a[i - 1].text
               u == Spliced(s, ms[m][1], ms[m][2], MarkOf(k))
    <2>1. m \in 1 .. n /\ n - (i - 1) = m /\ m - 1 = n - i /\ i \in 0 .. n
      BY <1>1
    <2>2. PICK loc : Moved(s, t, ms, m, loc)
      BY <1>6, <2>1
    <2>3. s \in Seq(Chars)
      BY <1>6
    <2>4. a[i].text = u
      <3> DEFINE b == a[i - 1]
                 match == rs[i]
      <3>1. a[i] = Substituted(b, match, k) /\ match = ms[m]
        BY <1>2, <1>4
      <3>2. b.text = s
        OBVIOUS
      <3> HIDE DEF b, match, m, s
      <3> QED
        BY <3>1, <3>2 DEF Substituted
    <2>5. ms[m][1] \in Nat \ {0} /\ ms[m][2] \in Nat
      <3>1. ms[m] \in Spans
        <4> HIDE DEF m
        <4> QED
          BY <1>1, <2>1
      <3> HIDE DEF m
      <3> QED
        BY <3>1 DEF Spans
    <2> HIDE DEF m, s, t
    <2>6. u \in Seq(Chars)
      BY <2>3, <2>5, MarkIsList, SplicedIsList
    <2>7. \E moved : Moved(u, t, ms, m - 1, moved)
      BY <1>1, <2>1, <2>2, <2>3, MovedMore DEF n, t
    <2> HIDE DEF u
    <2> QED
      BY <2>1, <2>4, <2>6, <2>7
  <1>7. n \in U
    <2> HIDE DEF U
    <2>1. \A i \in 0 .. n : i \in U
      BY <1>1, <1>5, <1>6, Upward
    <2> QED
      BY <1>1, <2>1
  <1>8. n - n = 0
    BY <1>1
  <1> QED
    BY <1>3, <1>4, <1>7, <1>8 DEF t

(* The places from a to b of the text t are those from c on in s, and at     *)
(* the same end of the text.                                                *)
Kept(s, t, a, b, c) ==
  /\ 1 <= c /\ c + (b - a) <= Len(s)
  /\ \A j \in 0 .. b - a : s[c + j] = t[a + j]
  /\ a = 1 => c = 1
  /\ b = Len(t) => c + (b - a) = Len(s)

(* A stretch that no match meets is there after the pass, as it was.       *)
LEMMA PassKeeps ==
  ASSUME NEW r \in Results, NEW k \in Marks, NEW ms, Placed(ms, Len(r.text)),
         NEW a \in 1 .. Len(r.text), NEW b \in a .. Len(r.text),
         \A j \in a .. b : Outside(ms, 0, j)
  PROVE  \E c \in Nat : Kept(FromTheRight(r, k, ms).text, r.text, a, b, c)
  <1> DEFINE s == FromTheRight(r, k, ms).text
             t == r.text
             n == Len(t)
  <1>1. PICK loc : Moved(s, t, ms, 0, loc)
    BY PassMoves
  <1>2. t \in Seq(Chars) /\ n \in Nat
    BY LenProperties DEF Results
  <1>3. s \in Seq(Chars) /\ Len(s) \in Nat
    <2>1. FromTheRight(r, k, ms) \in Results
      BY FromTheRightIsResult DEF Placed
    <2> QED
      BY <2>1, LenProperties DEF Results
  <1>4. ms \in Seq(Spans) /\ Len(ms) \in Nat /\ DOMAIN ms = 1 .. Len(ms)
    BY LenProperties DEF Placed
  <1> HIDE DEF s, t
  <1>5. a \in Nat /\ b \in Nat /\ 1 <= a /\ a <= b /\ b <= n
    BY <1>2 DEF n, t
  <1>6. \A j \in a .. b : /\ j \in 1 .. n
                          /\ Outside(ms, 0, j)
                          /\ loc[j] \in 1 .. Len(s) /\ s[loc[j]] = t[j]
    <2>1. \A j \in a .. b : j \in 1 .. n
      BY <1>2, <1>5
    <2> QED
      BY <1>1, <2>1 DEF Moved
  <1> DEFINE S == {j \in 0 .. b - a : loc[a + j] = loc[a] + j}
  <1>7. 0 \in S
    <2>1. a \in a .. b /\ a + 0 = a /\ 0 \in 0 .. b - a
      BY <1>5
    <2>2. loc[a] \in Int /\ loc[a] + 0 = loc[a]
      <3>1. loc[a] \in 1 .. Len(s)
        BY <1>6, <2>1
      <3> QED
        BY <1>3, <3>1
    <2> QED
      BY <2>1, <2>2
  <1>8. ASSUME NEW i \in 1 .. b - a, i - 1 \in S
        PROVE  i \in S
    <2>1. /\ a + (i - 1) \in a .. b /\ a + i \in a .. b /\ a \in a .. b
          /\ (a + (i - 1)) + 1 = a + i /\ i \in 0 .. b - a
          /\ a + (i - 1) \in 1 .. n - 1
      BY <1>5, <1>2
    <2>2. loc[a + i] = loc[a + (i - 1)] + 1
      BY <1>1, <1>6, <2>1 DEF Moved, n
    <2>3. loc[a + (i - 1)] = loc[a] + (i - 1)
      BY <1>8
    <2>4. loc[a] \in 1 .. Len(s)
      BY <1>6, <2>1
    <2>5. loc[a + i] = loc[a] + i
      BY <1>3, <2>2, <2>3, <2>4
    <2> QED
      BY <2>1, <2>5
  <1>9. \A j \in 0 .. b - a : loc[a + j] = loc[a] + j
    <2>1. b - a \in Nat
      BY <1>5
    <2> HIDE DEF S
    <2>2. \A j \in 0 .. b - a : j \in S
      BY <1>7, <1>8, <2>1, Upward
    <2> QED
      BY <2>2 DEF S
  <1> DEFINE c == loc[a]
  <1>10. \A j \in 0 .. b - a : a + j \in a .. b
    BY <1>5
  <1>11. c \in 1 .. Len(s)
    BY <1>5, <1>6
  <1>12. \A j \in 0 .. b - a : s[c + j] = t[a + j] /\ c + j \in 1 .. Len(s)
    BY <1>6, <1>9, <1>10
  <1>13. a = 1 => c = 1
    <2>1. ASSUME a = 1
          PROVE  c = 1
      <3>1. Outside(ms, 0, 1) /\ 1 \in 1 .. n
        BY <1>5, <1>6, <2>1
      <3>2. 0 < Len(ms) => 1 \in DOMAIN ms /\ 0 + 1 = 1
        BY <1>4
      <3>3. 0 < Len(ms) => 1 < ms[1][1]
        <4>1. ASSUME 0 < Len(ms)
              PROVE  1 < ms[1][1]
          <5>1. 1 <= ms[1][1] /\ ms[1][1] <= ms[1][2] /\ 0 < 1
            BY <3>2, <4>1 DEF Placed
          <5>2. ~(ms[1][1] <= 1 /\ 1 <= ms[1][2])
            BY <3>1, <3>2, <4>1, <5>1 DEF Outside
          <5>3. ms[1][1] \in Nat /\ ms[1][2] \in Nat
            BY <1>4, <3>2, <4>1 DEF Spans
          <5> QED
            BY <5>1, <5>2, <5>3
        <4> QED
          BY <4>1
      <3>4. 1 < n + 1
        BY <3>1, <1>2
      <3> QED
        BY <1>1, <2>1, <3>1, <3>2, <3>3, <3>4 DEF Moved, n
    <2> QED
      BY <2>1
  <1>14. b = n => c + (b - a) = Len(s)
    <2>1. ASSUME b = n
          PROVE  c + (b - a) = Len(s)
      <3>1. b \in a .. b /\ n # 0 /\ a + (b - a) = b /\ b - a \in 0 .. b - a
        BY <1>2, <1>5, <2>1
      <3>2. loc[n] = Len(s)
        BY <1>1, <1>6, <2>1, <3>1 DEF Moved, n
      <3> QED
        BY <1>9, <2>1, <3>1, <3>2
    <2> QED
      BY <2>1
  <1>15. c \in Nat /\ 1 <= c /\ c + (b - a) <= Len(s)
    <2>1. b - a \in 0 .. b - a
      BY <1>5
    <2>2. c + (b - a) \in 1 .. Len(s)
      BY <1>12, <2>1
    <2> QED
      BY <1>3, <1>11, <2>2
  <1> HIDE DEF c
  <1>16. Kept(s, t, a, b, c)
    BY <1>12, <1>13, <1>14, <1>15 DEF Kept, n
  <1> QED
    BY <1>15, <1>16 DEF s, t

(* What a pass leaves of a value was in the text, outside of the matches.   *)
LEMMA PassDraws ==
  ASSUME NEW r \in Results, NEW k \in Marks, NEW ms, Placed(ms, Len(r.text)),
         NEW x \in DOMAIN FromTheRight(r, k, ms).text,
         FromTheRight(r, k, ms).text[x].value # 0
  PROVE  \E j \in DOMAIN r.text : /\ Outside(ms, 0, j)
                                  /\ r.text[j] = FromTheRight(r, k, ms).text[x]
  <1> DEFINE s == FromTheRight(r, k, ms).text
             t == r.text
  <1>1. PICK loc : Moved(s, t, ms, 0, loc)
    BY PassMoves
  <1>2. t \in Seq(Chars) /\ DOMAIN t = 1 .. Len(t)
    BY LenProperties DEF Results
  <1>3. DOMAIN s = 1 .. Len(s)
    <2>1. FromTheRight(r, k, ms) \in Results
      BY FromTheRightIsResult DEF Placed
    <2> QED
      BY <2>1, LenProperties DEF Results
  <1>4. x \in 1 .. Len(s) /\ s[x].value # 0
    BY <1>3
  <1> HIDE DEF s, t
  <1>5. PICK j \in 1 .. Len(t) : Outside(ms, 0, j) /\ loc[j] = x
    BY <1>1, <1>4 DEF Moved
  <1>6. s[x] = t[j]
    BY <1>1, <1>5 DEF Moved
  <1> QED
    BY <1>2, <1>5, <1>6 DEF s, t
-----------------------------------------------------------------------------
(* Each character of a value in a text is one the value has.                *)
Ranged(text, kinds) ==
  \A i \in DOMAIN text :
    text[i].value # 0 => text[i].at \in 1 .. Width(kinds[text[i].value])

(* The characters of the value v stand together, from p on.                 *)
WholeAt(text, kinds, v, p) ==
  /\ p \in 1 .. Len(text) /\ p + Width(kinds[v]) - 1 <= Len(text)
  /\ \A j \in 0 .. Width(kinds[v]) - 1 : text[p + j] = Char(v, j + 1)

Whole(text, kinds, v) == \E p \in 1 .. Len(text) : WholeAt(text, kinds, v, p)

(* Only the keyword is left of the value v.                                 *)
Gone(text, kinds, v) ==
  /\ \A i \in DOMAIN text : text[i].value = v => text[i].at \in 1 .. Keyword(kinds[v])
  /\ \A j \in 1 .. Keyword(kinds[v]) : \E i \in DOMAIN text : text[i] = Char(v, j)

(* Each value has one to three characters, and more than its keyword.      *)
LEMMA WidthsAre ==
  ASSUME NEW k
  PROVE  /\ Width(k) \in 1 .. 3 /\ Keyword(k) \in 0 .. 1 /\ Keyword(k) < Width(k)
         /\ Width("word") = 1 /\ Keyword("word") = 0 /\ Width("refused") = 2
  BY DEF Width, Keyword

(* What a pass leaves alone, when each of its matches is of the kind c: the   *)
(* values of other kinds stay as they are.                                  *)
LEMMA PassLeaves ==
  ASSUME NEW kinds \in Seq(Kinds), NEW r \in Results,
         Traced(r.text, kinds), Ranged(r.text, kinds),
         NEW k \in Marks, NEW ms, Placed(ms, Len(r.text)), NEW c,
         \A j \in DOMAIN r.text :
           r.text[j].value # 0 /\ kinds[r.text[j].value] # c => Outside(ms, 0, j)
  PROVE  LET s == FromTheRight(r, k, ms)
         IN  /\ s \in Results /\ Traced(s.text, kinds) /\ Ranged(s.text, kinds)
             /\ Extended(r, s, k, Len(ms))
             /\ \A v \in DOMAIN kinds : kinds[v] # c =>
                  /\ Whole(r.text, kinds, v) => Whole(s.text, kinds, v)
                  /\ Gone(r.text, kinds, v) => Gone(s.text, kinds, v)
  <1> DEFINE s == FromTheRight(r, k, ms)
             t == r.text
             u == s.text
             rs == Reverse(ms)
  <1>1. /\ t \in Seq(Chars) /\ Len(t) \in Nat /\ DOMAIN t = 1 .. Len(t)
        /\ ms \in Seq(Spans)
        /\ DOMAIN kinds = 1 .. Len(kinds) /\ Len(kinds) \in Nat
    BY LenProperties DEF Results, Placed
  <1>2. Extended(r, s, k, Len(ms)) /\ Traced(u, kinds)
    <2>1. \A i \in DOMAIN ms : ms[i][1] <= ms[i][2]
      BY DEF Placed
    <2>2. rs \in Seq(Spans) /\ Len(rs) = Len(ms) /\ \A i \in DOMAIN rs : rs[i][1] <= rs[i][2]
      BY <1>1, <2>1, ReversedIsList
    <2>3. s = InOrder(r, k, rs)
      BY DEF FromTheRight, InOrder
    <2> HIDE DEF rs, s
    <2>4. Extended(r, InOrder(r, k, rs), k, Len(rs)) /\ Traced(InOrder(r, k, rs).text, kinds)
      BY <2>2, InOrderAdds
    <2> QED
      BY <2>2, <2>3, <2>4
  <1>3. s \in Results
    BY <1>2 DEF Extended
  <1>4. u \in Seq(Chars) /\ Len(u) \in Nat /\ DOMAIN u = 1 .. Len(u)
    BY <1>3, LenProperties DEF Results
  <1>5. \A x \in DOMAIN u : u[x].value # 0 => \E j \in DOMAIN t : u[x] = t[j]
    BY PassDraws
  <1>6. PICK loc : Moved(u, t, ms, 0, loc)
    BY PassMoves
  <1>7. \A a, b : a \in 1 .. Len(t) /\ b \in a .. Len(t) /\ (\A j \in a .. b : Outside(ms, 0, j))
                    => \E d \in Nat : Kept(u, t, a, b, d)
    BY PassKeeps
  <1>8. Ranged(t, kinds) /\ \A j \in DOMAIN t : t[j].value # 0 /\ kinds[t[j].value] # c
                                                  => Outside(ms, 0, j)
    OBVIOUS
  <1> HIDE DEF s, t, u
  <1>9. Ranged(u, kinds)
    BY <1>5, <1>8 DEF Ranged
  <1>10. ASSUME NEW v \in DOMAIN kinds, kinds[v] # c, Whole(t, kinds, v)
         PROVE  Whole(u, kinds, v)
    <2> DEFINE w == Width(kinds[v])
    <2>1. w \in 1 .. 3
      BY WidthsAre
    <2>2. PICK p \in 1 .. Len(t) : WholeAt(t, kinds, v, p)
      BY <1>10 DEF Whole
    <2>3. p + w - 1 <= Len(t) /\ \A j \in 0 .. w - 1 : t[p + j] = Char(v, j + 1)
      BY <2>2 DEF WholeAt
    <2>4. v # 0
      BY <1>1
    <2> HIDE DEF w
    <2>5. p + (w - 1) \in p .. Len(t) /\ (p + (w - 1)) - p = w - 1
      BY <1>1, <2>1, <2>3
    <2>6. ASSUME NEW j \in p .. p + (w - 1)
          PROVE  Outside(ms, 0, j)
      <3>1. j - p \in 0 .. w - 1 /\ p + (j - p) = j /\ j \in 1 .. Len(t)
        BY <1>1, <2>1, <2>3
      <3>2. t[j] = Char(v, (j - p) + 1)
        BY <2>3, <3>1
      <3>3. t[j].value = v
        BY <3>2 DEF Char
      <3> QED
        BY <1>1, <1>8, <1>10, <2>4, <3>1, <3>3
    <2>7. PICK d \in Nat : Kept(u, t, p, p + (w - 1), d)
      BY <1>7, <2>5, <2>6
    <2>8. /\ 1 <= d /\ d + (w - 1) <= Len(u)
          /\ \A j \in 0 .. w - 1 : u[d + j] = t[p + j]
      BY <2>5, <2>7 DEF Kept
    <2>9. d \in 1 .. Len(u) /\ d + w - 1 <= Len(u)
      BY <1>4, <2>1, <2>8
    <2>10. WholeAt(u, kinds, v, d)
      BY <2>3, <2>8, <2>9 DEF WholeAt, w
    <2> QED
      BY <2>9, <2>10 DEF Whole
  <1>11. ASSUME NEW v \in DOMAIN kinds, kinds[v] # c, Gone(t, kinds, v)
         PROVE  Gone(u, kinds, v)
    <2>1. v # 0
      BY <1>1
    <2>2. \A i \in DOMAIN u : u[i].value = v => u[i].at \in 1 .. Keyword(kinds[v])
      BY <1>5, <1>11, <2>1 DEF Gone
    <2>3. ASSUME NEW j \in 1 .. Keyword(kinds[v])
          PROVE  \E i \in DOMAIN u : u[i] = Char(v, j)
      <3>1. PICK i \in DOMAIN t : t[i] = Char(v, j)
        BY <1>11 DEF Gone
      <3>2. t[i].value = v
        BY <3>1 DEF Char
      <3>3. Outside(ms, 0, i) /\ i \in 1 .. Len(t)
        BY <1>1, <1>8, <1>11, <2>1, <3>2
      <3>4. loc[i] \in 1 .. Len(u) /\ u[loc[i]] = t[i]
        BY <1>6, <3>3 DEF Moved
      <3> QED
        BY <1>4, <3>1, <3>4
    <2> QED
      BY <2>2, <2>3 DEF Gone
  <1> QED
    BY <1>2, <1>3, <1>9, <1>10, <1>11 DEF s, t, u
-----------------------------------------------------------------------------
(* The matches from the places of a text to where they may end: they stand   *)
(* in the text one behind the other, each is one, as long as it can be, and   *)
(* there is one over each place where one begins.                           *)
LEMMA MatchesArePlaced ==
  ASSUME NEW text \in Seq(Chars), NEW ends,
         \A p \in DOMAIN text : ends[p] \in SUBSET (p .. Len(text))
  PROVE  LET ms == Matches(text, ends)
         IN  /\ Placed(ms, Len(text))
             /\ \A i \in DOMAIN ms : /\ ms[i][1] \in DOMAIN text
                                     /\ ms[i][2] \in ends[ms[i][1]]
                                     /\ \A e \in ends[ms[i][1]] : e <= ms[i][2]
             /\ \A p \in DOMAIN text : ends[p] # {} =>
                  \E i \in DOMAIN ms : ms[i][1] <= p /\ p <= ms[i][2]
  <1> DEFINE ms == Matches(text, ends)
  <1>1. DOMAIN text = 1 .. Len(text) /\ Len(text) \in Nat
    BY LenProperties
  <1>2. FoundUpTo(ms, Len(text), ends)
    BY MatchesAreFound
  <1> HIDE DEF ms
  <1>3. ms \in Seq(Spans)
    BY <1>2 DEF FoundUpTo
  <1>4. \A i \in DOMAIN ms : /\ ms[i][1] \in DOMAIN text
                             /\ ms[i][2] \in ends[ms[i][1]]
                             /\ \A e \in ends[ms[i][1]] : e <= ms[i][2]
    BY <1>1, <1>2 DEF FoundUpTo
  <1>5. \A i \in DOMAIN ms :
          1 <= ms[i][1] /\ ms[i][1] <= ms[i][2] /\ ms[i][2] <= Len(text)
    <2>1. ASSUME NEW i \in DOMAIN ms
          PROVE  1 <= ms[i][1] /\ ms[i][1] <= ms[i][2] /\ ms[i][2] <= Len(text)
      <3> DEFINE p == ms[i][1]
                 q == ms[i][2]
      <3>1. p \in 1 .. Len(text) /\ q \in ends[p]
        BY <1>1, <1>4
      <3> HIDE DEF p, q
      <3>2. q \in p .. Len(text)
        BY <1>1, <3>1
      <3> QED
        BY <1>1, <3>1, <3>2 DEF p, q
    <2> QED
      BY <2>1
  <1>6. \A i, j \in DOMAIN ms : i < j => ms[i][2] < ms[j][1]
    BY <1>2 DEF FoundUpTo
  <1>7. \A p \in DOMAIN text : ends[p] # {} =>
          \E i \in DOMAIN ms : ms[i][1] <= p /\ p <= ms[i][2]
    BY <1>1, <1>2 DEF FoundUpTo
  <1>8. Placed(ms, Len(text))
    BY <1>3, <1>5, <1>6 DEF Placed
  <1> QED
    BY <1>4, <1>7, <1>8 DEF ms

(* The matches of a kind of values: each is all of a value but its keyword.  *)
LEMMA ValuesArePlaced ==
  ASSUME NEW text \in Seq(Chars), NEW kinds, NEW k
  PROVE  LET ms == ValuesOf(text, kinds, k)
         IN  /\ Placed(ms, Len(text))
             /\ \A i \in DOMAIN ms : /\ ms[i][1] \in DOMAIN text
                                     /\ IsValue(text, kinds, k, ms[i][1], ms[i][2])
             /\ \A p \in DOMAIN text, q \in 1 .. Len(text) :
                  p <= q /\ IsValue(text, kinds, k, p, q) =>
                    \E i \in DOMAIN ms : ms[i][1] <= p /\ p <= ms[i][2]
  <1> DEFINE ends == [p \in DOMAIN text |->
                        {q \in p..Len(text) : IsValue(text, kinds, k, p, q)}]
             ms == Matches(text, ends)
  <1>1. ValuesOf(text, kinds, k) = ms
    BY DEF ValuesOf
  <1>2. DOMAIN text = 1 .. Len(text) /\ Len(text) \in Nat
    BY LenProperties
  <1>3. \A p \in DOMAIN text : /\ ends[p] \in SUBSET (p .. Len(text))
                               /\ \A q : q \in ends[p] <=>
                                    q \in p .. Len(text) /\ IsValue(text, kinds, k, p, q)
    OBVIOUS
  <1> HIDE DEF ends
  <1>4. /\ Placed(ms, Len(text))
        /\ \A i \in DOMAIN ms : ms[i][1] \in DOMAIN text /\ ms[i][2] \in ends[ms[i][1]]
        /\ \A p \in DOMAIN text : ends[p] # {} =>
             \E i \in DOMAIN ms : ms[i][1] <= p /\ p <= ms[i][2]
    BY <1>3, MatchesArePlaced
  <1> HIDE DEF ms
  <1>5. \A p \in DOMAIN text, q \in 1 .. Len(text) :
          p <= q /\ IsValue(text, kinds, k, p, q) => q \in ends[p]
    BY <1>2, <1>3
  <1> QED
    BY <1>1, <1>3, <1>4, <1>5

(* A value that stands together is matched, all but its keyword.            *)
LEMMA WholeIsMatched ==
  ASSUME NEW kinds \in Seq(Kinds), NEW text, Traced(text, kinds),
         NEW v \in DOMAIN kinds, NEW p \in 1 .. Len(text), WholeAt(text, kinds, v, p)
  PROVE  LET k == kinds[v]
             ms == ValuesOf(text, kinds, k)
         IN  \E i \in DOMAIN ms : /\ ms[i][1] = p + Keyword(k)
                                  /\ ms[i][2] = p + Width(k) - 1
  <1> DEFINE k == kinds[v]
             w == Width(k)
             y == Keyword(k)
             ms == ValuesOf(text, kinds, k)
             a == p + y
             b == p + w - 1
  <1>1. /\ text \in Seq(Chars) /\ DOMAIN text = 1 .. Len(text) /\ Len(text) \in Nat
        /\ v # 0 /\ v \in Nat
    BY LenProperties DEF Traced
  <1>2. w \in 1 .. 3 /\ y \in 0 .. 1 /\ y < w
    BY WidthsAre
  <1>3. b <= Len(text) /\ \A j \in 0 .. w - 1 : text[p + j] = Char(v, j + 1)
    BY DEF WholeAt
  <1>4. a \in DOMAIN text /\ b \in 1 .. Len(text) /\ a <= b
    BY <1>1, <1>2, <1>3
  <1>5. text[a] = Char(v, y + 1)
    BY <1>2, <1>3
  <1>6. text[a].value = v /\ text[a].at = y + 1
    BY <1>5 DEF Char
  <1>7. /\ Placed(ms, Len(text))
        /\ \A i \in DOMAIN ms : /\ ms[i][1] \in DOMAIN text
                                /\ IsValue(text, kinds, k, ms[i][1], ms[i][2])
        /\ \A x \in DOMAIN text, q \in 1 .. Len(text) :
             x <= q /\ IsValue(text, kinds, k, x, q) =>
               \E i \in DOMAIN ms : ms[i][1] <= x /\ x <= ms[i][2]
    BY <1>1, ValuesArePlaced
  <1>8. IsValue(text, kinds, k, a, b)
    <2>1. b = a + w - (y + 1)
      BY <1>1, <1>2
    <2>2. ASSUME NEW j \in a .. b
          PROVE  text[j] = Char(v, y + 1 + j - a)
      <3>1. j - p \in 0 .. w - 1 /\ p + (j - p) = j /\ (j - p) + 1 = y + 1 + j - a
        BY <1>1, <1>2, <1>4
      <3>2. text[p + (j - p)] = Char(v, (j - p) + 1)
        BY <1>3, <3>1
      <3> QED
        BY <3>1, <3>2
    <2> HIDE DEF a, b, w, y, k
    <2> QED
      BY <1>1, <1>6, <2>1, <2>2 DEF IsValue, k, w, y
  <1> HIDE DEF ms
  <1>9. PICK i \in DOMAIN ms : ms[i][1] <= a /\ a <= ms[i][2]
    BY <1>4, <1>7, <1>8
  <1> DEFINE c == ms[i][1]
             d == ms[i][2]
             u == text[c].value
  <1>10. c \in DOMAIN text /\ c \in Nat /\ c <= a /\ a <= d /\ d \in Nat
    <2>1. ms[i] \in Spans
      <3>1. ms \in Seq(Spans)
        BY <1>7 DEF Placed
      <3> QED
        BY <3>1, LenProperties
    <2> QED
      BY <1>7, <1>9, <2>1 DEF Spans
  <1>11. /\ u # 0 /\ kinds[u] = k /\ text[c].at = y + 1
         /\ d = c + w - (y + 1)
         /\ \A j \in c .. d : text[j] = Char(u, y + 1 + j - c)
    <2>1. IsValue(text, kinds, k, c, d)
      BY <1>7
    <2> HIDE DEF c, d
    <2> QED
      BY <2>1 DEF IsValue
  <1> HIDE DEF c, d, u, a, b, w, y, k
  <1>12. text[a] = Char(u, y + 1 + a - c)
    <2>1. a \in c .. d
      BY <1>1, <1>4, <1>10
    <2> QED
      BY <1>11, <2>1
  <1>13. y + 1 + a - c = y + 1
    BY <1>5, <1>12 DEF Char
  <1>14. c = a
    BY <1>1, <1>2, <1>4, <1>10, <1>13
  <1>15. d = b
    BY <1>1, <1>2, <1>11, <1>14 DEF a, b
  <1> QED
    BY <1>14, <1>15 DEF a, b, c, d, w, y, k, ms
-----------------------------------------------------------------------------
(* The entities that are values.                                            *)
Counting(es) == {i \in DOMAIN es : es[i].kind \in Replaced}

(* What has been done to a part when the values of the kinds K have been     *)
(* replaced: of each its keyword is left, of each value of another kind all,  *)
(* and there are as many entities as values were replaced.                  *)
Exactly(r, kinds, K) ==
  /\ r \in Results
  /\ Traced(r.text, kinds)
  /\ Ranged(r.text, kinds)
  /\ \A v \in DOMAIN kinds : /\ kinds[v] \in K => Gone(r.text, kinds, v)
                             /\ kinds[v] \notin K \cup {"word"} => Whole(r.text, kinds, v)
  /\ Cardinality(Counting(r.entities)) = Cardinality(Values(kinds, K))

(* A pass of a kind that counts adds as many as it matches, another none.  *)
LEMMA CountingMore ==
  ASSUME NEW r \in Results, NEW s, NEW k, NEW m \in Nat, Extended(r, s, k, m)
  PROVE  /\ k \in Replaced => Cardinality(Counting(s.entities)) =
                                Cardinality(Counting(r.entities)) + m
         /\ k \notin Replaced => Counting(s.entities) = Counting(r.entities)
         /\ Cardinality(Counting(r.entities)) \in Nat
  <1> DEFINE es == r.entities
             fs == s.entities
             n == Len(es)
             new == n + 1 .. n + m
  <1>1. /\ s \in Results /\ Len(fs) = n + m
        /\ \A i \in DOMAIN fs : IF i <= n THEN fs[i] = es[i] ELSE fs[i].kind = k
    BY DEF Extended
  <1>2. n \in Nat /\ DOMAIN es = 1 .. n /\ DOMAIN fs = 1 .. n + m
    BY <1>1, LenProperties DEF Results
  <1> HIDE DEF n, es, fs
  <1>3. k \notin Replaced => Counting(fs) = Counting(es)
    BY <1>1, <1>2 DEF Counting
  <1>4. k \in Replaced => Counting(fs) = Counting(es) \cup new
    BY <1>1, <1>2 DEF Counting
  <1>5. Counting(es) \cap new = {}
    BY <1>2 DEF Counting
  <1>6. IsFiniteSet(new) /\ Cardinality(new) = m
    <2>1. n + 1 \in Int /\ n + m \in Int
      BY <1>2
    <2>2. Cardinality(new) = IF n + 1 > n + m THEN 0 ELSE (n + m) - (n + 1) + 1
      BY <2>1, FS_Interval
    <2> HIDE DEF new
    <2>3. Cardinality(new) = m
      BY <1>2, <2>2
    <2> QED
      BY <2>1, <2>3, FS_Interval DEF new
  <1>7. IsFiniteSet(Counting(es))
    <2>1. IsFiniteSet(DOMAIN es)
      BY <1>2, FS_Interval
    <2>2. Counting(es) \in SUBSET (DOMAIN es)
      BY DEF Counting
    <2> QED
      BY <2>1, <2>2, FS_Subset
  <1>8. Cardinality(Counting(es)) \in Nat
    BY <1>7, FS_CardinalityType
  <1> HIDE DEF new
  <1>9. Cardinality(Counting(es) \cup new) =
          Cardinality(Counting(es)) + Cardinality(new) - Cardinality(Counting(es) \cap new)
    BY <1>6, <1>7, FS_Union
  <1>10. Cardinality(Counting(es) \cap new) = 0
    BY <1>5, FS_EmptySet
  <1>11. Cardinality(Counting(es) \cup new) = Cardinality(Counting(es)) + m
    BY <1>6, <1>8, <1>9, <1>10
  <1> QED
    BY <1>3, <1>4, <1>8, <1>11 DEF es, fs

(* What a match of a kind of values covers are characters of one value.      *)
LEMMA MatchedIsValue ==
  ASSUME NEW t \in Seq(Chars), NEW kinds, NEW k,
         NEW i \in DOMAIN ValuesOf(t, kinds, k), NEW j \in DOMAIN t,
         ValuesOf(t, kinds, k)[i][1] <= j, j <= ValuesOf(t, kinds, k)[i][2]
  PROVE  /\ t[j].value # 0 /\ kinds[t[j].value] = k /\ t[j].at > Keyword(k)
         /\ t[j].value = t[ValuesOf(t, kinds, k)[i][1]].value
  <1> DEFINE ms == ValuesOf(t, kinds, k)
             p == ms[i][1]
             q == ms[i][2]
  <1>1. /\ Placed(ms, Len(t))
        /\ \A x \in DOMAIN ms : /\ ms[x][1] \in DOMAIN t
                                /\ IsValue(t, kinds, k, ms[x][1], ms[x][2])
    BY ValuesArePlaced
  <1>2. DOMAIN t = 1 .. Len(t) /\ Len(t) \in Nat
    BY LenProperties
  <1> HIDE DEF ms
  <1>3. p \in Nat /\ q \in Nat /\ p \in DOMAIN t
    <2>1. ms \in Seq(Spans)
      BY <1>1 DEF Placed
    <2>2. ms[i] \in Spans
      BY <2>1, LenProperties DEF ms
    <2> QED
      BY <1>1, <2>2 DEF Spans, ms
  <1>4. IsValue(t, kinds, k, p, q)
    BY <1>1 DEF ms
  <1>5. p <= j /\ j <= q
    BY DEF ms
  <1> HIDE DEF p, q
  <1>6. /\ t[p].value # 0 /\ kinds[t[p].value] = k /\ t[p].at = Keyword(k) + 1
        /\ \A x \in p .. q : t[x] = Char(t[p].value, t[p].at + x - p)
    BY <1>4 DEF IsValue
  <1>7. j \in p .. q
    BY <1>2, <1>3, <1>5
  <1>8. t[j] = Char(t[p].value, t[p].at + j - p)
    BY <1>6, <1>7
  <1>9. t[j].value = t[p].value /\ t[j].at = t[p].at + j - p
    BY <1>8 DEF Char
  <1>10. Keyword(k) \in 0 .. 1
    BY WidthsAre
  <1>11. t[j].at > Keyword(k)
    BY <1>2, <1>3, <1>5, <1>6, <1>9, <1>10
  <1> QED
    BY <1>6, <1>9, <1>11 DEF p, ms

(* A pass for one kind of values replaces each of them, and no other.       *)
LEMMA PassIsExact ==
  ASSUME NEW kinds \in Seq(Kinds), NEW r, NEW K, Exactly(r, kinds, K),
         NEW k \in Replaced, k \notin K
  PROVE  Exactly(Passed(r, kinds, k), kinds, K \cup {k})
  <1> DEFINE t == r.text
             ms == ValuesOf(t, kinds, k)
             s == FromTheRight(r, k, ms)
             u == s.text
             T == Values(kinds, {k})
  <1>1. /\ r \in Results /\ Traced(t, kinds) /\ Ranged(t, kinds)
        /\ t \in Seq(Chars) /\ DOMAIN t = 1 .. Len(t) /\ Len(t) \in Nat
        /\ DOMAIN kinds = 1 .. Len(kinds) /\ Len(kinds) \in Nat
    BY LenProperties DEF Exactly, Results
  <1>2. k \in Marks /\ k # "word"
    BY DEF Replaced, Marks
  <1>3. /\ Placed(ms, Len(t))
        /\ \A i \in DOMAIN ms : /\ ms[i][1] \in DOMAIN t
                                /\ IsValue(t, kinds, k, ms[i][1], ms[i][2])
    BY <1>1, ValuesArePlaced
  <1>4. \A v \in DOMAIN kinds : kinds[v] = k => Whole(t, kinds, v)
    BY <1>2 DEF Exactly
  <1>5. \A v \in DOMAIN kinds, p \in 1 .. Len(t) : kinds[v] = k /\ WholeAt(t, kinds, v, p) =>
          \E i \in DOMAIN ms : ms[i][1] = p + Keyword(k) /\ ms[i][2] = p + Width(k) - 1
    BY <1>1, WholeIsMatched
  <1> HIDE DEF ms
  <1>6. \A i \in DOMAIN ms, j \in DOMAIN t : ms[i][1] <= j /\ j <= ms[i][2] =>
          t[j].value # 0 /\ kinds[t[j].value] = k /\ t[j].at > Keyword(k)
    BY <1>1, MatchedIsValue DEF ms
  <1>7. \A j \in DOMAIN t : t[j].value # 0 /\ kinds[t[j].value] # k => Outside(ms, 0, j)
    BY <1>6 DEF Outside
  <1>8. /\ s \in Results /\ Traced(u, kinds) /\ Ranged(u, kinds)
        /\ Extended(r, s, k, Len(ms))
        /\ \A v \in DOMAIN kinds : kinds[v] # k =>
             /\ Whole(t, kinds, v) => Whole(u, kinds, v)
             /\ Gone(t, kinds, v) => Gone(u, kinds, v)
    BY <1>1, <1>2, <1>3, <1>7, PassLeaves
  <1>9. \A x \in DOMAIN u : u[x].value # 0 =>
          \E j \in DOMAIN t : Outside(ms, 0, j) /\ t[j] = u[x]
    BY <1>1, <1>2, <1>3, PassDraws
  <1>10. PICK loc : Moved(u, t, ms, 0, loc)
    BY <1>1, <1>2, <1>3, PassMoves
  <1>11. DOMAIN u = 1 .. Len(u)
    BY <1>8, LenProperties DEF Results
  <1>12. DOMAIN ms = 1 .. Len(ms) /\ Len(ms) \in Nat
    BY <1>3, LenProperties DEF Placed
  <1> HIDE DEF u, s, t
  <1>13. ASSUME NEW v \in DOMAIN kinds, kinds[v] = k
         PROVE  Gone(u, kinds, v)
    <2> DEFINE w == Width(k)
               y == Keyword(k)
    <2>1. v # 0 /\ w \in 1 .. 3 /\ y \in 0 .. 1 /\ y < w
      BY <1>1, WidthsAre
    <2>2. PICK p \in 1 .. Len(t) : WholeAt(t, kinds, v, p)
      BY <1>4, <1>13 DEF Whole
    <2>3. p + w - 1 <= Len(t) /\ \A j \in 0 .. w - 1 : t[p + j] = Char(v, j + 1)
      BY <1>13, <2>2 DEF WholeAt
    <2>4. PICK i \in DOMAIN ms : ms[i][1] = p + y /\ ms[i][2] = p + w - 1
      BY <1>5, <1>13, <2>2
    <2> HIDE DEF w, y
    <2>5. ASSUME NEW x \in DOMAIN u, u[x].value = v
          PROVE  u[x].at \in 1 .. y
      <3>1. PICK j \in DOMAIN t : Outside(ms, 0, j) /\ t[j] = u[x]
        BY <1>9, <2>1, <2>5
      <3>2. t[j].value = v /\ t[j].at \in 1 .. w
        BY <1>1, <1>13, <2>1, <2>5, <3>1 DEF Ranged, w
      <3> DEFINE z == t[j].at
      <3>3. t[j] = Char(v, z)
        <4>1. t[j] \in Chars
          BY <1>1, LenProperties
        <4> QED
          BY <3>2, <4>1 DEF Chars, Char
      <3>4. z \in 1 .. w
        BY <3>2
      <3> HIDE DEF z
      <3>5. z - 1 \in 0 .. w - 1 /\ p + (z - 1) \in DOMAIN t /\ (z - 1) + 1 = z
        BY <1>1, <2>1, <2>3, <3>4
      <3>6. t[p + (z - 1)] = t[j]
        BY <2>3, <3>3, <3>5
      <3>7. j = p + (z - 1)
        BY <1>1, <2>1, <3>2, <3>5, <3>6 DEF Traced
      <3>8. ~(p + y <= j /\ j <= p + w - 1)
        <4>1. 0 < i
          BY <1>12
        <4> QED
          BY <2>4, <3>1, <4>1 DEF Outside
      <3>9. z <= y
        BY <1>1, <2>1, <3>4, <3>7, <3>8
      <3> QED
        BY <2>1, <3>1, <3>4, <3>9 DEF z
    <2>6. ASSUME NEW j \in 1 .. y
          PROVE  \E x \in DOMAIN u : u[x] = Char(v, j)
      <3> DEFINE x == p + (j - 1)
      <3>1. j - 1 \in 0 .. w - 1 /\ x \in DOMAIN t /\ (j - 1) + 1 = j
        BY <1>1, <2>1, <2>3
      <3>2. t[x] = Char(v, j)
        BY <2>3, <3>1
      <3> HIDE DEF x
      <3>3. t[x].value = v /\ t[x].at = j
        BY <3>2 DEF Char
      <3>4. Outside(ms, 0, x)
        <4>1. ~(t[x].at > Keyword(k))
          BY <2>1, <3>3 DEF y
        <4> QED
          BY <1>6, <3>1, <4>1 DEF Outside
      <3>5. loc[x] \in 1 .. Len(u) /\ u[loc[x]] = t[x]
        BY <1>1, <1>10, <3>1, <3>4 DEF Moved
      <3> QED
        BY <1>11, <3>2, <3>5
    <2> QED
      BY <1>13, <2>5, <2>6 DEF Gone, y
  <1>14. Len(ms) = Cardinality(T)
    <2> DEFINE of == [v \in T |-> CHOOSE i \in DOMAIN ms : t[ms[i][1]].value = v]
    <2>1. Len(ms) <= Cardinality(T)
      BY <1>1, MatchesOfValues DEF ms
    <2>2. IsFiniteSet(T) /\ Cardinality(T) \in Nat
      BY ValuesAreFinite
    <2>3. ASSUME NEW v \in T
          PROVE  \E i \in DOMAIN ms : t[ms[i][1]].value = v
      <3>1. v \in DOMAIN kinds /\ kinds[v] = k
        BY DEF Values
      <3>2. PICK p \in 1 .. Len(t) : WholeAt(t, kinds, v, p)
        BY <1>4, <3>1 DEF Whole
      <3>3. PICK i \in DOMAIN ms : ms[i][1] = p + Keyword(k)
        BY <1>5, <3>1, <3>2
      <3>4. Keyword(k) \in 0 .. Width(k) - 1
        BY WidthsAre
      <3>5. t[p + Keyword(k)] = Char(v, Keyword(k) + 1)
        BY <3>1, <3>2, <3>4 DEF WholeAt
      <3> QED
        BY <3>3, <3>5 DEF Char
    <2>4. \A v \in T : of[v] \in DOMAIN ms /\ t[ms[of[v]][1]].value = v
      BY <2>3
    <2>5. of \in Injection(T, 1 .. Len(ms))
      <3>1. of \in [T -> 1 .. Len(ms)]
        BY <1>12, <2>4
      <3>2. \A a, b \in T : of[a] = of[b] => a = b
        BY <2>4
      <3> HIDE DEF of, T
      <3> QED
        BY <3>1, <3>2 DEF Injection, IsInjective
    <2> DEFINE n == Len(ms)
    <2>6. n \in Nat
      BY <1>12
    <2> HIDE DEF n, of, T
    <2>7. IsFiniteSet(1 .. n) /\ Cardinality(1 .. n) = n
      BY <2>6, FS_Interval
    <2>8. Cardinality(T) <= Cardinality(1 .. n)
      BY <2>5, <2>7, FS_Injection DEF n
    <2> QED
      BY <2>1, <2>2, <2>6, <2>7, <2>8 DEF n
  <1>15. Cardinality(Counting(s.entities)) = Cardinality(Values(kinds, K \cup {k}))
    <2>1. Cardinality(Counting(s.entities)) = Cardinality(Counting(r.entities)) + Len(ms)
      BY <1>1, <1>8, <1>12, CountingMore
    <2>2. Cardinality(Counting(r.entities)) = Cardinality(Values(kinds, K))
      BY DEF Exactly
    <2> QED
      BY <1>14, <2>1, <2>2, ValuesOfMore
  <1>16. \A v \in DOMAIN kinds :
           /\ kinds[v] \in K \cup {k} => Gone(u, kinds, v)
           /\ kinds[v] \notin (K \cup {k}) \cup {"word"} => Whole(u, kinds, v)
    <2>1. \A v \in DOMAIN kinds :
            /\ kinds[v] \in K => Gone(t, kinds, v)
            /\ kinds[v] \notin K \cup {"word"} => Whole(t, kinds, v)
      BY DEF Exactly, t
    <2> QED
      BY <1>8, <1>13, <2>1
  <1>17. Exactly(s, kinds, K \cup {k})
    BY <1>8, <1>15, <1>16 DEF Exactly, u
  <1> QED
    BY <1>17 DEF Passed, s, ms, t
-----------------------------------------------------------------------------
(* With one value at most to replace there is no order to get wrong.         *)
LEMMA SupplementIsPass ==
  ASSUME NEW kinds \in Seq(Kinds), NEW r \in Results, Traced(r.text, kinds), NEW k,
         Cardinality(Values(kinds, {k})) <= 1
  PROVE  Supplemented(r, kinds, k) = Passed(r, kinds, k)
  <1> DEFINE ms == ValuesOf(r.text, kinds, k)
             n == Len(ms)
  <1>1. ms \in Seq(Spans) /\ n \in Nat /\ n <= Cardinality(Values(kinds, {k}))
    BY MatchesOfValues
  <1>2. Cardinality(Values(kinds, {k})) \in Nat
    BY ValuesAreFinite
  <1>3. Supplemented(r, kinds, k) = InOrder(r, k, ms)
        /\ Passed(r, kinds, k) = InOrder(r, k, Reverse(ms))
    BY DEF Supplemented, Passed, FromTheRight, InOrder
  <1> HIDE DEF ms
  <1>4. Reverse(ms) = ms
    <2>1. Reverse(ms) = [i \in 1 .. n |-> ms[(n - i) + 1]]
      BY DEF Reverse
    <2>2. ms = [i \in 1 .. n |-> ms[i]]
      BY <1>1, LenProperties
    <2> HIDE DEF n
    <2>3. \A i \in 1 .. n : (n - i) + 1 = i
      BY <1>1, <1>2
    <2> QED
      BY <2>1, <2>2, <2>3
  <1> QED
    BY <1>3, <1>4

(* A pass that takes words, blanks and marks touches no value.              *)
LEMMA WordsAreTaken ==
  ASSUME NEW kinds \in Seq(Kinds), NEW r, NEW K, Exactly(r, kinds, K), "word" \notin K,
         NEW k \in {"orphan", "bridge", "name"}, NEW ms, Placed(ms, Len(r.text)),
         \A j \in DOMAIN r.text :
           r.text[j].value # 0 /\ kinds[r.text[j].value] # "word" => Outside(ms, 0, j)
  PROVE  Exactly(FromTheRight(r, k, ms), kinds, K)
  <1> DEFINE s == FromTheRight(r, k, ms)
  <1>1. /\ r \in Results /\ Traced(r.text, kinds) /\ Ranged(r.text, kinds)
        /\ \A v \in DOMAIN kinds : /\ kinds[v] \in K => Gone(r.text, kinds, v)
                                   /\ kinds[v] \notin K \cup {"word"} => Whole(r.text, kinds, v)
        /\ Cardinality(Counting(r.entities)) = Cardinality(Values(kinds, K))
    BY DEF Exactly
  <1>2. k \in Marks /\ k \notin Replaced
    BY DEF Marks, Replaced
  <1>3. /\ s \in Results /\ Traced(s.text, kinds) /\ Ranged(s.text, kinds)
        /\ Extended(r, s, k, Len(ms))
        /\ \A v \in DOMAIN kinds : kinds[v] # "word" =>
             /\ Whole(r.text, kinds, v) => Whole(s.text, kinds, v)
             /\ Gone(r.text, kinds, v) => Gone(s.text, kinds, v)
    BY <1>1, <1>2, PassLeaves
  <1>4. Len(ms) \in Nat
    BY LenProperties DEF Placed
  <1> HIDE DEF s
  <1>5. Counting(s.entities) = Counting(r.entities)
    BY <1>1, <1>2, <1>3, <1>4, CountingMore
  <1>6. \A v \in DOMAIN kinds : /\ kinds[v] \in K => Gone(s.text, kinds, v)
                                /\ kinds[v] \notin K \cup {"word"} => Whole(s.text, kinds, v)
    BY <1>1, <1>3
  <1>7. Exactly(s, kinds, K)
    BY <1>1, <1>3, <1>5, <1>6 DEF Exactly
  <1> QED
    BY <1>7 DEF s

-----------------------------------------------------------------------------
(* Where the values of a part stand in its text: one behind the other, each  *)
(* with a blank behind it.                                                  *)
Laid(text, kinds, pos) ==
  /\ pos \in [1 .. Len(kinds) + 1 -> Nat \ {0}]
  /\ pos[1] = 1
  /\ pos[Len(kinds) + 1] = Len(text) + 1
  /\ \A v \in 1 .. Len(kinds) :
       /\ pos[v + 1] = pos[v] + Width(kinds[v]) + 1
       /\ pos[v] + Width(kinds[v]) <= Len(text)
       /\ \A j \in 0 .. Width(kinds[v]) - 1 : text[pos[v] + j] = Char(v, j + 1)
       /\ text[pos[v] + Width(kinds[v])] = Blank

(* The text of a part is laid out so.                                      *)
LEMMA TextIsLaid ==
  ASSUME NEW kinds \in Seq(Kinds)
  PROVE  \E pos : Laid(Text(kinds), kinds, pos)
  <1> DEFINE n == Len(kinds)
             w(i) == Width(kinds[i])
             value(i) == Append([j \in 1..w(i) |-> Char(i, j)], Blank)
             values == [i \in DOMAIN kinds |-> value(i)]
  <1>1. n \in Nat /\ DOMAIN kinds = 1 .. n
    BY LenProperties
  <1>2. ASSUME NEW i \in 1 .. n
        PROVE  /\ value(i) \in Seq(Chars) /\ Len(value(i)) = w(i) + 1
               /\ \A j \in 1 .. w(i) : value(i)[j] = Char(i, j)
               /\ value(i)[w(i) + 1] = Blank
    <2> DEFINE x == w(i)
               c == [j \in 1 .. x |-> Char(i, j)]
               b == Blank
               t == Append(c, b)
    <2>1. x \in Nat
      BY WidthsAre
    <2> HIDE DEF x
    <2>2. c \in Seq(Chars) /\ Len(c) = x /\ \A j \in 1 .. x : c[j] = Char(i, j)
      BY <1>1, <2>1 DEF Char, Chars
    <2>3. b \in Chars
      BY DEF Blank, Char, Chars
    <2> HIDE DEF c, b
    <2>4. /\ t \in Seq(Chars) /\ Len(t) = x + 1
          /\ t[x + 1] = b /\ \A j \in 1 .. x : t[j] = c[j]
      BY <2>1, <2>2, <2>3
    <2> HIDE DEF t
    <2>5. \A j \in 1 .. x : t[j] = Char(i, j)
      BY <2>2, <2>4
    <2> QED
      BY <2>4, <2>5 DEF t, c, b, x
  <1>3. Text(kinds) = FlattenSeq(values)
    BY DEF Text
  <1>4. \A i \in 1 .. n : w(i) \in 1 .. 3
    BY WidthsAre
  <1> HIDE DEF value
  <1>5. values \in Seq(Seq(Chars)) /\ Len(values) = n
    BY <1>1, <1>2
  <1>6. \A i \in 1 .. n : values[i] = value(i)
    BY <1>1
  <1> HIDE DEF values, n, w
  <1>7. PICK a : /\ a \in [0 .. n -> Seq(Chars)]
                 /\ a[0] = <<>> /\ a[n] = FlattenSeq(values)
                 /\ \A i \in 1 .. n : a[i] = a[i - 1] \o values[i]
    <2>1. PICK a : /\ a \in [0 .. Len(values) -> Seq(Chars)]
                   /\ a[0] = <<>> /\ a[Len(values)] = FlattenSeq(values)
                   /\ \A i \in 1 .. Len(values) : a[i] = a[i - 1] \o values[i]
      BY <1>5, FlattenSteps
    <2> QED
      BY <1>5, <2>1
  <1>8. \A i \in 0 .. n : a[i] \in Seq(Chars) /\ Len(a[i]) \in Nat
    BY <1>7, LenProperties
  <1> DEFINE Placing(t, i) == /\ Len(a[i]) = Len(a[i - 1]) + w(i) + 1
                              /\ Len(a[i]) <= Len(t)
                              /\ \A j \in 1 .. w(i) : t[Len(a[i - 1]) + j] = Char(i, j)
                              /\ t[Len(a[i])] = Blank
             U == {k \in 0 .. n : \A i \in 1 .. k : Placing(a[k], i)}
  <1>9. 0 \in U
    BY <1>1
  <1>10. ASSUME NEW k \in 1 .. n, k - 1 \in U
         PROVE  k \in U
    <2> DEFINE t == a[k - 1]
               c == value(k)
               m == Len(t)
               s == a[k]
               x == w(k)
    <2>1. k \in 0 .. n /\ k - 1 \in 0 .. n /\ k \in Nat
      BY <1>1
    <2>2. /\ t \in Seq(Chars) /\ c \in Seq(Chars) /\ s = t \o c
          /\ Len(c) = x + 1 /\ (\A j \in 1 .. x : c[j] = Char(k, j)) /\ c[x + 1] = Blank
      BY <1>2, <1>6, <1>7, <2>1
    <2>3. \A i \in 1 .. k - 1 : Placing(t, i)
      BY <1>10
    <2>4. x \in 1 .. 3
      BY <1>4
    <2>5. m \in Nat
      BY <1>8, <2>1
    <2> HIDE DEF c, m, x
    <2>6. /\ Len(s) = m + (x + 1)
          /\ \A i \in 1 .. m : s[i] = t[i]
          /\ \A i \in 1 .. x + 1 : s[m + i] = c[i]
      <3>1. /\ Len(t \o c) = m + (x + 1)
            /\ \A i \in 1 .. m + (x + 1) : (t \o c)[i] = IF i <= m THEN t[i] ELSE c[i - m]
        <4> HIDE DEF t
        <4>1. /\ Len(t \o c) = Len(t) + Len(c)
              /\ \A i \in 1 .. Len(t) + Len(c) :
                   (t \o c)[i] = IF i <= Len(t) THEN t[i] ELSE c[i - Len(t)]
          BY <2>2, ConcatProperties
        <4> QED
          BY <2>2, <4>1 DEF m
      <3>2. \A i \in 1 .. m : i \in 1 .. m + (x + 1) /\ i <= m
        BY <2>4, <2>5
      <3>3. \A i \in 1 .. x + 1 : m + i \in 1 .. m + (x + 1) /\ ~(m + i <= m) /\ (m + i) - m = i
        BY <2>4, <2>5
      <3> QED
        BY <2>2, <3>1, <3>2, <3>3
    <2>7. Placing(s, k)
      <3>1. Len(a[k]) = m + x + 1 /\ Len(a[k]) <= Len(s)
        BY <2>4, <2>5, <2>6
      <3>2. \A j \in 1 .. x : s[m + j] = Char(k, j)
        <4>1. \A j \in 1 .. x : j \in 1 .. x + 1
          BY <2>4
        <4> HIDE DEF s, t
        <4> QED
          BY <2>2, <2>6, <4>1
      <3>3. s[m + (x + 1)] = Blank /\ m + (x + 1) = Len(a[k])
        <4>1. x + 1 \in 1 .. x + 1
          BY <2>4
        <4>2. m + (x + 1) = Len(s) /\ s[m + (x + 1)] = c[x + 1]
          <5> HIDE DEF s
          <5> QED
            BY <2>6, <4>1
        <4> QED
          BY <2>2, <4>2
      <3> QED
        BY <3>1, <3>2, <3>3 DEF m, x
    <2>8. ASSUME NEW i \in 1 .. k - 1
          PROVE  Placing(s, i)
      <3>1. Placing(t, i) /\ i \in 1 .. n /\ i \in 0 .. n /\ i - 1 \in 0 .. n
        BY <1>1, <2>1, <2>3
      <3> DEFINE b == Len(a[i - 1])
                 d == Len(a[i])
      <3>2. /\ b \in Nat /\ d \in Nat /\ w(i) \in 1 .. 3
            /\ d = b + w(i) + 1 /\ d <= m
            /\ \A j \in 1 .. w(i) : t[b + j] = Char(i, j)
            /\ t[d] = Blank
        BY <1>4, <1>8, <3>1 DEF m
      <3> HIDE DEF b, d
      <3>3. \A j \in 1 .. w(i) : b + j \in 1 .. m
        BY <2>5, <3>2
      <3>4. d \in 1 .. m /\ d <= Len(s)
        BY <2>4, <2>5, <2>6, <3>2
      <3>5. \A j \in 1 .. w(i) : s[b + j] = Char(i, j)
        BY <2>6, <3>2, <3>3
      <3>6. s[d] = Blank
        BY <2>6, <3>2, <3>4
      <3> HIDE DEF s
      <3> QED
        BY <3>2, <3>4, <3>5, <3>6 DEF b, d
    <2> HIDE DEF s, Placing
    <2>9. \A i \in 1 .. k : Placing(s, i)
      <3>1. \A i \in 1 .. k : i \in 1 .. k - 1 \/ i = k
        BY <2>1
      <3> QED
        BY <2>7, <2>8, <3>1
    <2> QED
      BY <2>1, <2>9 DEF s
  <1>11. \A i \in 1 .. n : Placing(a[n], i)
    <2> HIDE DEF U
    <2>1. \A k \in 0 .. n : k \in U
      BY <1>1, <1>9, <1>10, Upward
    <2>2. n \in 0 .. n
      BY <1>1
    <2> QED
      BY <2>1, <2>2 DEF U
  <1> DEFINE t == a[n]
             pos == [v \in 1 .. n + 1 |-> Len(a[v - 1]) + 1]
  <1>12. \A v \in 1 .. n + 1 : v - 1 \in 0 .. n
    BY <1>1
  <1>13. pos \in [1 .. n + 1 -> Nat \ {0}] /\ \A v \in 1 .. n + 1 : pos[v] = Len(a[v - 1]) + 1
    BY <1>8, <1>12
  <1> HIDE DEF pos, U
  <1>14. pos[1] = 1
    <2>1. 1 \in 1 .. n + 1 /\ 1 - 1 = 0 /\ Len(a[0]) = 0
      BY <1>1, <1>7
    <2> QED
      BY <1>13, <2>1
  <1>15. pos[n + 1] = Len(t) + 1
    <2>1. n + 1 \in 1 .. n + 1 /\ (n + 1) - 1 = n
      BY <1>1
    <2> QED
      BY <1>13, <2>1
  <1>16. ASSUME NEW v \in 1 .. n
         PROVE  /\ pos[v + 1] = pos[v] + w(v) + 1
                /\ pos[v] + w(v) <= Len(t)
                /\ \A j \in 0 .. w(v) - 1 : t[pos[v] + j] = Char(v, j + 1)
                /\ t[pos[v] + w(v)] = Blank
    <2> DEFINE b == Len(a[v - 1])
               d == Len(a[v])
               x == w(v)
    <2>1. v \in 1 .. n + 1 /\ v + 1 \in 1 .. n + 1 /\ (v + 1) - 1 = v /\ v - 1 \in 0 .. n
          /\ v \in 0 .. n
      BY <1>1
    <2>2. pos[v] = b + 1 /\ pos[v + 1] = d + 1
      BY <1>13, <2>1
    <2>3. /\ d = b + x + 1 /\ d <= Len(t)
          /\ \A j \in 1 .. x : t[b + j] = Char(v, j)
          /\ t[d] = Blank
      BY <1>11
    <2>4. b \in Nat /\ d \in Nat /\ x \in 1 .. 3
      BY <1>4, <1>8, <2>1
    <2> HIDE DEF b, d, x, t
    <2>5. ASSUME NEW j \in 0 .. x - 1
          PROVE  t[pos[v] + j] = Char(v, j + 1)
      <3>1. j + 1 \in 1 .. x /\ pos[v] + j = b + (j + 1)
        BY <2>2, <2>4
      <3> QED
        BY <2>3, <3>1
    <2>6. pos[v] + x = d /\ pos[v + 1] = pos[v] + x + 1
      BY <2>2, <2>3, <2>4
    <2> QED
      BY <2>3, <2>5, <2>6 DEF x
  <1>17. t = Text(kinds)
    BY <1>3, <1>7
  <1> HIDE DEF t
  <1>18. Laid(t, kinds, pos)
    BY <1>13, <1>14, <1>15, <1>16 DEF Laid, n, w
  <1> QED
    BY <1>17, <1>18
-----------------------------------------------------------------------------
(* Two to four words from the a-th value to the b-th, nothing but a refused  *)
(* value beside them: a name that stands apart.                             *)
Block(kinds, a, b) ==
  /\ a \in DOMAIN kinds /\ b \in DOMAIN kinds /\ a < b /\ b <= a + 3
  /\ \A v \in a .. b : kinds[v] = "word"
  /\ a = 1 \/ kinds[a - 1] = "refused"
  /\ b = Len(kinds) \/ kinds[b + 1] = "refused"

(* The name stands in a text from p on, as it did at first, with the last    *)
(* character of the value before it and the first of the one behind it.      *)
Stands(text, kinds, a, b, p) ==
  /\ p \in 1 .. Len(text)
  /\ \A j \in 0 .. b - a : /\ p + 2 * j + 1 <= Len(text)
                           /\ text[p + 2 * j] = Char(a + j, 1)
                           /\ text[p + 2 * j + 1] = Blank
  /\ IF a = 1 THEN p = 1
     ELSE p > 2 /\ text[p - 1] = Blank /\ text[p - 2] = Char(a - 1, 2)
  /\ IF b = Len(kinds) THEN p + 2 * (b - a) + 1 = Len(text)
     ELSE /\ p + 2 * (b - a) + 2 <= Len(text)
          /\ text[p + 2 * (b - a) + 2] = Char(b + 1, 1)

Standing(text, kinds) ==
  \A a, b : Block(kinds, a, b) => \E p \in 1 .. Len(text) : Stands(text, kinds, a, b, p)

(* The places of the name and of what stands beside it.                     *)
From(a, p) == IF a = 1 THEN p ELSE p - 2

Upto(kinds, a, b, p) == p + 2 * (b - a) + IF b = Len(kinds) THEN 1 ELSE 2

(* The places of a name that stands are places of the text.                *)
LEMMA PlacesOfName ==
  ASSUME NEW kinds \in Seq(Kinds), NEW text \in Seq(Chars), NEW a, NEW b, Block(kinds, a, b),
         NEW p, Stands(text, kinds, a, b, p)
  PROVE  /\ a \in Nat /\ b \in Nat /\ 1 <= a /\ b - a \in 1 .. 3 /\ b <= Len(kinds)
         /\ p \in Nat /\ From(a, p) \in 1 .. Len(text)
         /\ Upto(kinds, a, b, p) \in From(a, p) .. Len(text)
         /\ Len(text) \in Nat /\ Len(kinds) \in Nat
  <1>1. /\ Len(text) \in Nat /\ Len(kinds) \in Nat /\ DOMAIN kinds = 1 .. Len(kinds)
    BY LenProperties
  <1>2. a \in Nat /\ b \in Nat /\ 1 <= a /\ b - a \in 1 .. 3 /\ b <= Len(kinds)
    BY <1>1 DEF Block
  <1>3. p \in Nat /\ 1 <= p /\ p <= Len(text)
    BY <1>1 DEF Stands
  <1>4. From(a, p) \in 1 .. Len(text) /\ From(a, p) <= p
    BY <1>1, <1>3 DEF Stands, From
  <1> DEFINE d == 2 * (b - a)
  <1>5. d \in Nat
    BY <1>2
  <1>6. Upto(kinds, a, b, p) = p + d + IF b = Len(kinds) THEN 1 ELSE 2
    BY DEF Upto
  <1>7. IF b = Len(kinds) THEN p + d + 1 = Len(text) ELSE p + d + 2 <= Len(text)
    BY DEF Stands
  <1> HIDE DEF d
  <1>8. Upto(kinds, a, b, p) \in From(a, p) .. Len(text)
    BY <1>1, <1>3, <1>4, <1>5, <1>6, <1>7
  <1> QED
    BY <1>1, <1>2, <1>3, <1>4, <1>8

(* The name stands in the text that a pass leaves, when no match meets it.    *)
LEMMA PassStands ==
  ASSUME NEW kinds \in Seq(Kinds), NEW r \in Results, NEW k \in Marks,
         NEW ms, Placed(ms, Len(r.text)), NEW a, NEW b, Block(kinds, a, b),
         NEW p, Stands(r.text, kinds, a, b, p),
         \A x \in From(a, p) .. Upto(kinds, a, b, p) : Outside(ms, 0, x)
  PROVE  LET u == FromTheRight(r, k, ms).text
         IN  \E c \in 1 .. Len(u) : Stands(u, kinds, a, b, c)
  <1> DEFINE t == r.text
             u == FromTheRight(r, k, ms).text
             from == From(a, p)
             upto == Upto(kinds, a, b, p)
             m == b - a
  <1>1. t \in Seq(Chars)
    BY DEF Results
  <1>2. u \in Seq(Chars) /\ Len(u) \in Nat
    <2>1. FromTheRight(r, k, ms) \in Results
      BY FromTheRightIsResult DEF Placed
    <2> QED
      BY <2>1, LenProperties DEF Results
  <1>3. /\ a \in Nat /\ b \in Nat /\ 1 <= a /\ m \in 1 .. 3 /\ b <= Len(kinds)
        /\ p \in Nat /\ from \in 1 .. Len(t) /\ upto \in from .. Len(t)
        /\ Len(t) \in Nat /\ Len(kinds) \in Nat
    BY <1>1, PlacesOfName
  <1>4. PICK d \in Nat : Kept(u, t, from, upto, d)
    BY <1>3, PassKeeps
  <1> HIDE DEF u, t
  <1>5. /\ 1 <= d /\ d + (upto - from) <= Len(u)
        /\ \A j \in 0 .. upto - from : u[d + j] = t[from + j]
        /\ from = 1 => d = 1
        /\ upto = Len(t) => d + (upto - from) = Len(u)
    BY <1>4 DEF Kept
  <1> DEFINE c == d + (p - from)
  <1>6. /\ p \in 1 .. Len(t)
        /\ \A j \in 0 .. m : /\ p + 2 * j + 1 <= Len(t)
                             /\ t[p + 2 * j] = Char(a + j, 1)
                             /\ t[p + 2 * j + 1] = Blank
        /\ IF a = 1 THEN p = 1
           ELSE p > 2 /\ t[p - 1] = Blank /\ t[p - 2] = Char(a - 1, 2)
        /\ IF b = Len(kinds) THEN p + 2 * m + 1 = Len(t)
           ELSE /\ p + 2 * m + 2 <= Len(t)
                /\ t[p + 2 * m + 2] = Char(b + 1, 1)
    BY DEF Stands, t
  <1>7. from = (IF a = 1 THEN p ELSE p - 2) /\ upto = p + 2 * m + IF b = Len(kinds) THEN 1 ELSE 2
    BY DEF From, Upto
  <1> HIDE DEF from, upto, m
  <1>8. c \in Nat /\ 1 <= c /\ c <= Len(u)
    <2> DEFINE z == 2 * m
    <2>1. z \in Nat
      BY <1>3
    <2> HIDE DEF z
    <2>2. from <= p /\ p <= upto
      BY <1>3, <1>7, <2>1 DEF z
    <2> QED
      BY <1>2, <1>3, <1>5, <2>2
  <1>9. \A x \in from .. upto : u[c + (x - p)] = t[x] /\ c + (x - p) <= Len(u)
    <2>1. ASSUME NEW x \in from .. upto
          PROVE  u[c + (x - p)] = t[x] /\ c + (x - p) <= Len(u)
      <3>1. x - from \in 0 .. upto - from /\ from + (x - from) = x /\ d + (x - from) = c + (x - p)
        BY <1>3
      <3>2. d + (x - from) <= Len(u)
        BY <1>2, <1>3, <1>5, <3>1
      <3> HIDE DEF c
      <3> QED
        BY <1>5, <3>1, <3>2
    <2> QED
      BY <2>1
  <1>10. ASSUME NEW j \in 0 .. m
         PROVE  /\ c + 2 * j + 1 <= Len(u)
                /\ u[c + 2 * j] = Char(a + j, 1)
                /\ u[c + 2 * j + 1] = Blank
    <2> DEFINE y == 2 * j
               z == 2 * m
    <2>1. y \in Nat /\ z \in Nat /\ y <= z
      BY <1>3
    <2> HIDE DEF y, z
    <2>2. upto = p + z + 1 \/ upto = p + z + 2
      BY <1>7 DEF z
    <2>3. from <= p
      BY <1>3, <1>7
    <2>4. p + y \in from .. upto /\ p + y + 1 \in from .. upto
      BY <1>3, <2>1, <2>2, <2>3
    <2>5. (p + y) - p = y /\ (p + y + 1) - p = y + 1
      BY <1>3, <2>1
    <2> HIDE DEF c
    <2>6. u[c + y] = t[p + y] /\ u[c + (y + 1)] = t[p + y + 1] /\ c + (y + 1) <= Len(u)
      BY <1>9, <2>4, <2>5
    <2>7. c + (y + 1) = c + y + 1
      BY <1>8, <2>1
    <2> QED
      BY <1>6, <2>6, <2>7 DEF y
  <1>11. IF a = 1 THEN c = 1
         ELSE c > 2 /\ u[c - 1] = Blank /\ u[c - 2] = Char(a - 1, 2)
    <2>1. CASE a = 1
      BY <1>3, <1>5, <1>6, <1>7, <2>1
    <2>2. CASE a # 1
      <3>1. from = p - 2 /\ c = d + 2
        BY <1>3, <1>7, <2>2
      <3>2. p - 1 \in from .. upto /\ p - 2 \in from .. upto
        BY <1>3, <1>7, <3>1
      <3>3. (p - 1) - p = -1 /\ (p - 2) - p = -2
        BY <1>3
      <3>4. c > 2 /\ c + (-1) = c - 1 /\ c + (-2) = c - 2
        BY <1>5, <3>1
      <3> HIDE DEF c
      <3>5. u[c - 1] = t[p - 1] /\ u[c - 2] = t[p - 2]
        BY <1>9, <3>2, <3>3, <3>4
      <3> QED
        BY <1>6, <2>2, <3>4, <3>5
    <2> QED
      BY <2>1, <2>2
  <1>12. IF b = Len(kinds) THEN c + 2 * m + 1 = Len(u)
         ELSE /\ c + 2 * m + 2 <= Len(u)
              /\ u[c + 2 * m + 2] = Char(b + 1, 1)
    <2> DEFINE z == 2 * m
    <2>1. z \in Nat
      BY <1>3
    <2> HIDE DEF z
    <2>2. CASE b = Len(kinds)
      <3>1. upto = p + z + 1 /\ upto = Len(t)
        BY <1>6, <1>7, <2>2 DEF z
      <3>2. d + (upto - from) = Len(u)
        BY <1>5, <3>1
      <3>3. c + z + 1 = Len(u)
        BY <1>3, <2>1, <3>1, <3>2
      <3> QED
        BY <2>2, <3>3 DEF z
    <2>3. CASE b # Len(kinds)
      <3>1. upto = p + z + 2 /\ t[p + z + 2] = Char(b + 1, 1)
        BY <1>6, <1>7, <2>3 DEF z
      <3>2. upto \in from .. upto /\ c + (upto - p) = c + z + 2
        BY <1>3, <1>8, <2>1, <3>1
      <3> HIDE DEF c
      <3>3. u[c + z + 2] = t[upto] /\ c + z + 2 <= Len(u)
        BY <1>9, <3>2
      <3> QED
        BY <2>3, <3>1, <3>3 DEF z
    <2> QED
      BY <2>2, <2>3
  <1>13. c \in 1 .. Len(u)
    BY <1>2, <1>8
  <1> HIDE DEF c
  <1>14. Stands(u, kinds, a, b, c)
    BY <1>10, <1>11, <1>12, <1>13 DEF Stands, m
  <1> QED
    BY <1>13, <1>14 DEF u

(* What stands at each place of the name: a blank behind a value and, if     *)
(* there is more text, before one; a word with blanks and values around it;   *)
(* or a character of a refused value.                                       *)
AsItWas(text, kinds, x, upto) ==
  \/ /\ text[x] = Blank /\ x > 1 /\ text[x - 1].value # 0
     /\ x = Len(text) \/ (x + 1 <= upto /\ text[x + 1].value # 0)
  \/ /\ IsWord(text, kinds, x)
     /\ x + 1 <= Len(text) /\ text[x + 1] = Blank
     /\ x + 1 = Len(text) \/ (x + 2 <= Len(text) /\ text[x + 2].value # 0)
     /\ x = 1 \/ (x > 2 /\ text[x - 1] = Blank /\ text[x - 2].value # 0)
  \/ text[x].value # 0 /\ kinds[text[x].value] = "refused"

(* Every place of a name that stands, and of what is beside it, is so.     *)
LEMMA NameIsAsItWas ==
  ASSUME NEW kinds \in Seq(Kinds), NEW text \in Seq(Chars), NEW a, NEW b, Block(kinds, a, b),
         NEW p, Stands(text, kinds, a, b, p),
         NEW x \in From(a, p) .. Upto(kinds, a, b, p)
  PROVE  AsItWas(text, kinds, x, Upto(kinds, a, b, p))
  <1> DEFINE from == From(a, p)
             upto == Upto(kinds, a, b, p)
             m == b - a
             n == Len(text)
  <1>1. /\ a \in Nat /\ b \in Nat /\ 1 <= a /\ m \in 1 .. 3 /\ b <= Len(kinds)
        /\ p \in Nat /\ from \in 1 .. n /\ upto \in from .. n
        /\ n \in Nat /\ Len(kinds) \in Nat /\ DOMAIN text = 1 .. n
    BY PlacesOfName, LenProperties
  <1>2. /\ p \in 1 .. n
        /\ \A j \in 0 .. m : /\ p + 2 * j + 1 <= n
                             /\ text[p + 2 * j] = Char(a + j, 1)
                             /\ text[p + 2 * j + 1] = Blank
        /\ IF a = 1 THEN p = 1
           ELSE p > 2 /\ text[p - 1] = Blank /\ text[p - 2] = Char(a - 1, 2)
        /\ IF b = Len(kinds) THEN p + 2 * m + 1 = n
           ELSE /\ p + 2 * m + 2 <= n
                /\ text[p + 2 * m + 2] = Char(b + 1, 1)
    BY DEF Stands
  <1>3. /\ from = IF a = 1 THEN p ELSE p - 2
        /\ upto = p + 2 * m + IF b = Len(kinds) THEN 1 ELSE 2
    BY DEF From, Upto
  <1>4. /\ \A v \in a .. b : kinds[v] = "word"
        /\ a = 1 \/ kinds[a - 1] = "refused"
        /\ b = Len(kinds) \/ kinds[b + 1] = "refused"
    BY DEF Block
  <1>5. \A v, j : Char(v, j).value = v
    BY DEF Char
  <1>6. Blank.value = 0
    BY DEF Blank, Char
  <1>7. x \in from .. upto
    OBVIOUS
  <1> HIDE DEF from, upto, n, m
  <1>8. \A j \in 0 .. m : /\ a + j \in a .. b /\ a + j # 0
                          /\ text[p + 2 * j].value = a + j
                          /\ IsWord(text, kinds, p + 2 * j)
    <2>1. ASSUME NEW j \in 0 .. m
          PROVE  /\ a + j \in a .. b /\ a + j # 0
                 /\ text[p + 2 * j].value = a + j
                 /\ IsWord(text, kinds, p + 2 * j)
      <3> DEFINE y == p + 2 * j
      <3>1. a + j \in a .. b /\ a + j # 0
        BY <1>1 DEF m
      <3>2. text[y].value = a + j
        BY <1>2, <1>5
      <3>3. y \in 1 .. n
        BY <1>1, <1>2
      <3> HIDE DEF y
      <3>4. IsWord(text, kinds, y)
        BY <1>1, <1>4, <3>1, <3>2, <3>3 DEF IsWord
      <3> QED
        BY <3>1, <3>2, <3>4 DEF y
    <2> QED
      BY <2>1
  <1>9. a # 1 => text[p - 2].value # 0 /\ kinds[text[p - 2].value] = "refused"
    BY <1>1, <1>2, <1>4, <1>5
  <1>10. b # Len(kinds) => /\ text[p + 2 * m + 2].value # 0
                           /\ kinds[text[p + 2 * m + 2].value] = "refused"
    BY <1>1, <1>2, <1>4, <1>5
  <1>11. \/ a # 1 /\ x = p - 2
         \/ a # 1 /\ x = p - 1
         \/ \E j \in 0 .. m : x = p + 2 * j
         \/ \E j \in 0 .. m : x = p + 2 * j + 1
         \/ b # Len(kinds) /\ x = p + 2 * m + 2
    <2>1. CASE m = 1
      BY <1>1, <1>3, <1>7, <2>1
    <2>2. CASE m = 2
      BY <1>1, <1>3, <1>7, <2>2
    <2>3. CASE m = 3
      BY <1>1, <1>3, <1>7, <2>3
    <2> QED
      BY <1>1, <2>1, <2>2, <2>3
  <1>12. CASE a # 1 /\ x = p - 2
    BY <1>9, <1>12 DEF AsItWas
  <1>13. CASE a # 1 /\ x = p - 1
    <2>1. x > 1 /\ x - 1 = p - 2 /\ x + 1 = p /\ text[x] = Blank
      BY <1>1, <1>2, <1>13
    <2>2. 0 \in 0 .. m /\ p + 2 * 0 = p
      BY <1>1
    <2>3. text[p].value # 0
      BY <1>8, <2>2
    <2>4. p <= upto
      BY <1>1, <1>3
    <2> QED
      BY <1>9, <1>13, <2>1, <2>3, <2>4 DEF AsItWas, upto
  <1>14. ASSUME NEW j \in 0 .. m, x = p + 2 * j
         PROVE  AsItWas(text, kinds, x, upto)
    <2>1. IsWord(text, kinds, x)
      BY <1>8, <1>14
    <2>2. x + 1 <= n /\ text[x + 1] = Blank
      BY <1>2, <1>14
    <2>3. x + 1 = n \/ (x + 2 <= n /\ text[x + 2].value # 0)
      <3>1. CASE j = m
        <4>1. b = Len(kinds) => x + 1 = n
          BY <1>2, <1>14, <3>1
        <4>2. b # Len(kinds) => x + 2 <= n /\ text[x + 2].value # 0
          BY <1>2, <1>10, <1>14, <3>1
        <4> QED
          BY <4>1, <4>2
      <3>2. CASE j # m
        <4>1. j + 1 \in 0 .. m /\ p + 2 * (j + 1) = x + 2
          BY <1>1, <1>14, <3>2
        <4>2. text[x + 2].value # 0
          BY <1>8, <4>1
        <4>3. p + 2 * (j + 1) + 1 <= n
          BY <1>2, <4>1
        <4>4. x + 2 <= n
          BY <1>1, <4>1, <4>3
        <4> QED
          BY <4>2, <4>4
      <3> QED
        BY <3>1, <3>2
    <2>4. x = 1 \/ (x > 2 /\ text[x - 1] = Blank /\ text[x - 2].value # 0)
      <3>1. CASE j = 0
        <4>1. x = p
          BY <1>1, <1>14, <3>1
        <4> QED
          BY <1>1, <1>2, <1>9, <4>1
      <3>2. CASE j # 0
        <4>1. j - 1 \in 0 .. m /\ p + 2 * (j - 1) = x - 2 /\ p + 2 * (j - 1) + 1 = x - 1
          BY <1>1, <1>14, <3>2
        <4>2. text[x - 1] = Blank /\ text[x - 2].value # 0
          BY <1>2, <1>8, <4>1
        <4>3. x > 2
          BY <1>1, <1>2, <1>14, <3>2
        <4> QED
          BY <4>2, <4>3
      <3> QED
        BY <3>1, <3>2
    <2> QED
      BY <2>1, <2>2, <2>3, <2>4 DEF AsItWas, n
  <1>15. ASSUME NEW j \in 0 .. m, x = p + 2 * j + 1
         PROVE  AsItWas(text, kinds, x, upto)
    <2>1. text[x] = Blank /\ x - 1 = p + 2 * j /\ x > 1
      BY <1>1, <1>2, <1>15
    <2>2. text[x - 1].value # 0
      BY <1>8, <2>1
    <2>3. x = n \/ (x + 1 <= upto /\ text[x + 1].value # 0)
      <3>1. CASE j = m
        <4>1. b = Len(kinds) => x = n
          BY <1>2, <1>15, <3>1
        <4>2. b # Len(kinds) => x + 1 = p + 2 * m + 2 /\ x + 1 = upto
          BY <1>1, <1>3, <1>15, <3>1
        <4> QED
          BY <1>1, <1>10, <4>1, <4>2
      <3>2. CASE j # m
        <4>1. j + 1 \in 0 .. m /\ p + 2 * (j + 1) = x + 1 /\ x + 1 <= p + 2 * m
          BY <1>1, <1>15, <3>2
        <4>2. x + 1 <= upto
          BY <1>1, <1>3, <1>15, <4>1
        <4> QED
          BY <1>8, <4>1, <4>2
      <3> QED
        BY <3>1, <3>2
    <2> QED
      BY <2>1, <2>2, <2>3 DEF AsItWas, n
  <1>16. CASE b # Len(kinds) /\ x = p + 2 * m + 2
    BY <1>10, <1>16 DEF AsItWas
  <1> QED
    BY <1>11, <1>12, <1>13, <1>14, <1>15, <1>16 DEF upto
-----------------------------------------------------------------------------
(* A name stands in what a pass leaves that does not meet it.               *)
LEMMA NamesStand ==
  ASSUME NEW kinds \in Seq(Kinds), NEW r \in Results, NEW k \in Marks,
         NEW ms, Placed(ms, Len(r.text)), Standing(r.text, kinds),
         \A a, b, p : Block(kinds, a, b) /\ Stands(r.text, kinds, a, b, p) =>
           \A x \in From(a, p) .. Upto(kinds, a, b, p) : Outside(ms, 0, x)
  PROVE  Standing(FromTheRight(r, k, ms).text, kinds)
  <1> DEFINE u == FromTheRight(r, k, ms).text
  <1>1. ASSUME NEW a, NEW b, Block(kinds, a, b)
        PROVE  \E c \in 1 .. Len(u) : Stands(u, kinds, a, b, c)
    <2>1. PICK p \in 1 .. Len(r.text) : Stands(r.text, kinds, a, b, p)
      BY <1>1 DEF Standing
    <2>2. \A x \in From(a, p) .. Upto(kinds, a, b, p) : Outside(ms, 0, x)
      BY <1>1, <2>1
    <2> QED
      BY <1>1, <2>1, <2>2, PassStands
  <1> HIDE DEF u
  <1>2. Standing(u, kinds)
    BY <1>1 DEF Standing
  <1> QED
    BY <1>2 DEF u

(* The values of a kind are not where a name stands.                        *)
LEMMA ValuesAreNoNames ==
  ASSUME NEW kinds \in Seq(Kinds), NEW r \in Results, NEW k \in Replaced,
         Standing(r.text, kinds)
  PROVE  Standing(Passed(r, kinds, k).text, kinds)
  <1> DEFINE t == r.text
             ms == ValuesOf(t, kinds, k)
  <1>1. t \in Seq(Chars) /\ DOMAIN t = 1 .. Len(t) /\ Len(t) \in Nat
    BY LenProperties DEF Results
  <1>2. Placed(ms, Len(t))
    BY <1>1, ValuesArePlaced
  <1>3. k \in Marks /\ k # "word" /\ k # "refused"
    BY DEF Replaced, Marks
  <1>4. \A i \in DOMAIN ms, j \in DOMAIN t :
          ms[i][1] <= j /\ j <= ms[i][2] => t[j].value # 0 /\ kinds[t[j].value] = k
    BY <1>1, MatchedIsValue
  <1>5. Passed(r, kinds, k) = FromTheRight(r, k, ms)
    BY DEF Passed
  <1> HIDE DEF ms, t
  <1>6. ASSUME NEW a, NEW b, NEW p, Block(kinds, a, b), Stands(t, kinds, a, b, p),
               NEW x \in From(a, p) .. Upto(kinds, a, b, p)
        PROVE  Outside(ms, 0, x)
    <2>1. AsItWas(t, kinds, x, Upto(kinds, a, b, p))
      BY <1>1, <1>6, NameIsAsItWas
    <2>2. x \in DOMAIN t
      <3> DEFINE from == From(a, p)
                 upto == Upto(kinds, a, b, p)
      <3>1. from \in 1 .. Len(t) /\ upto \in from .. Len(t) /\ x \in from .. upto
        BY <1>1, <1>6, PlacesOfName
      <3> HIDE DEF from, upto
      <3> QED
        BY <1>1, <3>1
    <2>3. t[x].value = 0 \/ kinds[t[x].value] \in {"word", "refused"}
      BY <2>1 DEF AsItWas, IsWord, Blank, Char
    <2> QED
      BY <1>3, <1>4, <2>2, <2>3 DEF Outside
  <1> QED
    BY <1>2, <1>3, <1>5, <1>6, NamesStand DEF t

(* A pass whose matches cover words, blanks and marks.                      *)
LEMMA WordsPass ==
  ASSUME NEW kinds \in Seq(Kinds), NEW r, NEW K, Exactly(r, kinds, K), "word" \notin K,
         NEW k \in {"orphan", "bridge", "name"}, NEW ends,
         \A p \in DOMAIN r.text : ends[p] \in SUBSET (p .. Len(r.text)),
         \A p \in DOMAIN r.text : \A q \in ends[p] : \A j \in p .. q :
           r.text[j].value = 0 \/ IsWord(r.text, kinds, j)
  PROVE  LET s == FromTheRight(r, k, Matches(r.text, ends))
         IN  /\ Exactly(s, kinds, K)
             /\ \/ ~Standing(r.text, kinds)
                \/ \E p \in DOMAIN r.text : \E q \in ends[p] : \E j \in p .. q :
                     \E a, b, c : /\ Block(kinds, a, b) /\ Stands(r.text, kinds, a, b, c)
                                  /\ j \in From(a, c) .. Upto(kinds, a, b, c)
                \/ Standing(s.text, kinds)
  <1> DEFINE t == r.text
             ms == Matches(t, ends)
  <1>1. r \in Results /\ t \in Seq(Chars) /\ DOMAIN t = 1 .. Len(t) /\ Len(t) \in Nat
    BY LenProperties DEF Exactly, Results
  <1>2. /\ Placed(ms, Len(t))
        /\ \A i \in DOMAIN ms : /\ ms[i][1] \in DOMAIN t
                                /\ ms[i][2] \in ends[ms[i][1]]
    BY <1>1, MatchesArePlaced
  <1>3. k \in Marks
    BY DEF Marks
  <1> HIDE DEF ms
  <1>4. \A i \in DOMAIN ms : ms[i][1] \in Nat /\ ms[i][2] \in Nat
    <2>1. ms \in Seq(Spans)
      BY <1>2 DEF Placed
    <2>2. \A i \in DOMAIN ms : ms[i] \in Spans
      BY <2>1, LenProperties
    <2> QED
      BY <2>2 DEF Spans
  <1>5. \A j \in DOMAIN t : t[j].value # 0 /\ kinds[t[j].value] # "word" => Outside(ms, 0, j)
    <2>1. ASSUME NEW j \in DOMAIN t, NEW i \in DOMAIN ms, ms[i][1] <= j, j <= ms[i][2]
          PROVE  t[j].value = 0 \/ kinds[t[j].value] = "word"
      <3>1. j \in ms[i][1] .. ms[i][2]
        BY <1>1, <1>4, <2>1
      <3>2. t[j].value = 0 \/ IsWord(t, kinds, j)
        BY <1>2, <3>1
      <3> QED
        BY <3>2 DEF IsWord
    <2> QED
      BY <2>1 DEF Outside
  <1>6. Exactly(FromTheRight(r, k, ms), kinds, K)
    BY <1>2, <1>5, WordsAreTaken
  <1>7. ASSUME Standing(t, kinds),
               \A p \in DOMAIN t : \A q \in ends[p] : \A j \in p .. q :
                 \A a, b, c : Block(kinds, a, b) /\ Stands(t, kinds, a, b, c) =>
                   j \notin From(a, c) .. Upto(kinds, a, b, c)
        PROVE  Standing(FromTheRight(r, k, ms).text, kinds)
    <2>1. ASSUME NEW a, NEW b, NEW c, Block(kinds, a, b), Stands(t, kinds, a, b, c),
                 NEW x \in From(a, c) .. Upto(kinds, a, b, c)
          PROVE  Outside(ms, 0, x)
      <3>1. x \in Int
        BY <1>1, <2>1, PlacesOfName
      <3>2. ASSUME NEW i \in DOMAIN ms, ms[i][1] <= x, x <= ms[i][2]
            PROVE  FALSE
        <4>1. x \in ms[i][1] .. ms[i][2]
          BY <1>4, <3>1, <3>2
        <4> QED
          BY <1>2, <1>7, <2>1, <4>1
      <3> QED
        BY <3>2 DEF Outside
    <2> QED
      BY <1>1, <1>2, <1>3, <1>7, <2>1, NamesStand
  <1> QED
    BY <1>6, <1>7 DEF ms

(* What a mark looks like in a text.                                        *)
LEMMA MarksAre ==
  ASSUME NEW text \in Seq(Chars), NEW p \in Nat \ {0}, NEW q \in DOMAIN text,
         IsMark(text, p, q)
  PROVE  /\ p < q /\ p \in DOMAIN text
         /\ \A j \in p .. q : text[j].value = 0 /\ text[j] # Blank
  <1>1. DOMAIN text = 1 .. Len(text) /\ Len(text) \in Nat
    BY LenProperties
  <1>2. PICK k \in Kinds : SubSeq(text, p, q) = MarkOf(k)
    BY DEF IsMark
  <1> DEFINE n == IF k = "card" THEN 1 ELSE 2
             c == [j \in 1 .. n |-> Char(0, j)]
             z == Close
             m == c \o <<z>>
  <1>3. n \in 1 .. 2
    OBVIOUS
  <1> HIDE DEF n
  <1>4. c \in Seq(Chars) /\ Len(c) = n /\ \A j \in 1 .. n : c[j] = Char(0, j)
    BY <1>3 DEF Char, Chars
  <1>5. z \in Chars /\ z.value = 0 /\ z # Blank
    BY DEF Close, Blank, Char, Chars
  <1> HIDE DEF c, z
  <1>6. \A j \in 1 .. n : c[j].value = 0 /\ c[j] # Blank
    <2>1. \A j \in 1 .. 2 : Char(0, j).value = 0 /\ Char(0, j) # Blank
      BY DEF Char, Blank
    <2> QED
      BY <1>3, <1>4, <2>1
  <1>7. <<z>> \in Seq(Chars) /\ Len(<<z>>) = 1 /\ <<z>>[1] = z
    BY <1>5
  <1>8. Len(m) = n + 1 /\ m[n + 1] = z /\ \A j \in 1 .. n : m[j] = c[j]
    <2> DEFINE d == <<z>>
    <2>1. d \in Seq(Chars) /\ Len(d) = 1 /\ d[1] = z /\ m = c \o d
      BY <1>7
    <2> HIDE DEF d, m
    <2>2. Len(m) = n + 1 /\ \A i \in 1 .. n + 1 : m[i] = IF i <= n THEN c[i] ELSE d[i - n]
      <3>1. c \in Seq(Chars) /\ d \in Seq(Chars) /\ Len(c) = n /\ Len(d) = 1
        BY <1>4, <2>1
      <3>2. /\ Len(c \o d) = Len(c) + Len(d)
            /\ \A i \in 1 .. Len(c) + Len(d) :
                 (c \o d)[i] = IF i <= Len(c) THEN c[i] ELSE d[i - Len(c)]
        BY <3>1, ConcatProperties
      <3> QED
        BY <2>1, <3>1, <3>2
    <2>3. n + 1 \in 1 .. n + 1 /\ ~(n + 1 <= n) /\ (n + 1) - n = 1
      BY <1>3
    <2> QED
      BY <1>3, <2>1, <2>2, <2>3
  <1> HIDE DEF m
  <1>9. \A j \in 1 .. n + 1 : m[j].value = 0 /\ m[j] # Blank
    BY <1>3, <1>5, <1>6, <1>8
  <1> DEFINE s == SubSeq(text, p, q)
  <1>10. s = m
    BY <1>2 DEF MarkOf, m, c, z, n
  <1>11. /\ Len(s) = IF p <= q THEN q - p + 1 ELSE 0
         /\ \A i \in 1 .. q - p + 1 : s[i] = text[p + i - 1]
    BY <1>1
  <1> HIDE DEF s
  <1>12. p < q /\ p \in DOMAIN text /\ q - p + 1 = n + 1
    BY <1>1, <1>3, <1>8, <1>10, <1>11
  <1>13. ASSUME NEW j \in p .. q
         PROVE  text[j].value = 0 /\ text[j] # Blank
    <2>1. j - p + 1 \in 1 .. n + 1 /\ j - p + 1 \in 1 .. q - p + 1 /\ p + (j - p + 1) - 1 = j
      BY <1>1, <1>3, <1>12
    <2>2. s[j - p + 1] = text[j]
      BY <1>11, <2>1
    <2> QED
      BY <1>9, <1>10, <2>1, <2>2
  <1> QED
    BY <1>12, <1>13

(* An orphan takes words and blanks, and none of a name that stands, for a   *)
(* mark is behind it.                                                       *)
LEMMA OrphanTakes ==
  ASSUME NEW kinds \in Seq(Kinds), NEW text \in Seq(Chars),
         NEW p \in DOMAIN text, NEW q \in p .. Len(text), IsOrphan(text, kinds, p, q),
         NEW j \in p .. q
  PROVE  /\ text[j].value = 0 \/ IsWord(text, kinds, j)
         /\ \A a, b, c : Block(kinds, a, b) /\ Stands(text, kinds, a, b, c) =>
              j \notin From(a, c) .. Upto(kinds, a, b, c)
  <1>1. DOMAIN text = 1 .. Len(text) /\ Len(text) \in Nat
    BY LenProperties
  <1>2. /\ IsWord(text, kinds, q - 1) /\ text[q] = Blank
        /\ \E end \in DOMAIN text : IsMark(text, q + 1, end)
        /\ (p = 1 /\ q = 2) \/ (p = q - 2 /\ p > 1 /\ text[p] = Blank)
    BY DEF IsOrphan
  <1>3. q + 1 \in DOMAIN text /\ text[q + 1].value = 0
    <2>1. PICK end \in DOMAIN text : IsMark(text, q + 1, end)
      BY <1>2
    <2>2. q + 1 \in Nat \ {0}
      BY <1>1
    <2>3. q + 1 < end /\ q + 1 \in DOMAIN text /\ \A x \in q + 1 .. end : text[x].value = 0
      BY <2>1, <2>2, MarksAre
    <2> QED
      BY <1>1, <2>3
  <1>4. j = q - 1 \/ j = q \/ (j = q - 2 /\ text[j] = Blank)
    BY <1>1, <1>2
  <1>5. Blank.value = 0
    BY DEF Blank, Char
  <1>6. text[j].value = 0 \/ IsWord(text, kinds, j)
    BY <1>2, <1>4, <1>5
  <1>7. ASSUME NEW a, NEW b, NEW c, Block(kinds, a, b), Stands(text, kinds, a, b, c),
               j \in From(a, c) .. Upto(kinds, a, b, c)
        PROVE  FALSE
    <2> DEFINE from == From(a, c)
               upto == Upto(kinds, a, b, c)
    <2>1. from \in 1 .. Len(text) /\ upto \in from .. Len(text)
      BY <1>7, PlacesOfName
    <2>2. \A x \in from .. upto : AsItWas(text, kinds, x, upto)
      BY <1>7, NameIsAsItWas
    <2>3. j \in from .. upto
      BY <1>7
    <2> HIDE DEF from, upto
    <2>4. /\ q \in Nat /\ q <= Len(text) /\ q # Len(text)
          /\ (q - 1) + 1 = q /\ (q - 1) + 2 = q + 1
      <3>1. p \in 1 .. Len(text) /\ q + 1 \in 1 .. Len(text)
        BY <1>1, <1>3
      <3>2. q \in p .. Len(text) /\ Len(text) \in Nat
        BY <1>1
      <3> QED
        BY <3>1, <3>2
    <2>5. text[q - 1].value # 0 /\ kinds[text[q - 1].value] = "word" /\ text[q - 1] # Blank
      BY <1>2, <1>5 DEF IsWord
    <2>6. q - 1 \notin from .. upto
      <3>1. ~AsItWas(text, kinds, q - 1, upto)
        BY <1>3, <2>4, <2>5 DEF AsItWas
      <3> QED
        BY <2>2, <3>1
    <2>7. q \notin from .. upto
      <3>1. ~IsWord(text, kinds, q)
        BY <1>2, <1>5 DEF IsWord
      <3>2. ~AsItWas(text, kinds, q, upto)
        BY <1>2, <1>3, <1>5, <2>4, <3>1 DEF AsItWas
      <3> QED
        BY <2>2, <3>2
    <2>8. CASE j = q - 2 /\ text[j] = Blank
      <3>1. AsItWas(text, kinds, j, upto)
        BY <2>2, <2>3
      <3>2. ~IsWord(text, kinds, j)
        BY <1>5, <2>8 DEF IsWord
      <3>3. j = Len(text) \/ j + 1 <= upto
        BY <1>5, <2>8, <3>1, <3>2 DEF AsItWas
      <3>4. j # Len(text) /\ j + 1 = q - 1
        BY <2>4, <2>8
      <3>5. q - 1 \in from .. upto
        BY <2>1, <2>3, <2>4, <2>8, <3>3, <3>4
      <3> QED
        BY <2>6, <3>5
    <2> QED
      BY <1>4, <2>3, <2>6, <2>7, <2>8
  <1> QED
    BY <1>6, <1>7

(* Neither does a bridge: it is from a word beside a mark to another.      *)
LEMMA BridgeTakes ==
  ASSUME NEW kinds \in Seq(Kinds), NEW text \in Seq(Chars),
         NEW p \in DOMAIN text, NEW q \in p .. Len(text), IsBridge(text, kinds, p, q),
         NEW j \in p .. q
  PROVE  /\ text[j].value = 0 \/ IsWord(text, kinds, j)
         /\ \A a, b, c : Block(kinds, a, b) /\ Stands(text, kinds, a, b, c) =>
              j \notin From(a, c) .. Upto(kinds, a, b, c)
  <1>1. DOMAIN text = 1 .. Len(text) /\ Len(text) \in Nat
    BY LenProperties
  <1>2. /\ IsWord(text, kinds, p) /\ IsWord(text, kinds, q) /\ q > p + 3
        /\ text[p + 1] = Blank /\ text[q - 1] = Blank
        /\ IsMark(text, p + 2, q - 2)
    BY DEF IsBridge
  <1>3. p + 2 \in Nat \ {0} /\ q - 2 \in DOMAIN text /\ q \in Nat
    BY <1>1, <1>2
  <1>4. /\ p + 2 < q - 2
        /\ \A x \in p + 2 .. q - 2 : text[x].value = 0 /\ text[x] # Blank
    BY <1>2, <1>3, MarksAre
  <1>5. Blank.value = 0
    BY DEF Blank, Char
  <1>6. j = p \/ j = p + 1 \/ j \in p + 2 .. q - 2 \/ j = q - 1 \/ j = q
    BY <1>1, <1>3, <1>4
  <1>7. text[j].value = 0 \/ IsWord(text, kinds, j)
    BY <1>2, <1>4, <1>5, <1>6
  <1>8. text[p + 2].value = 0 /\ text[q - 2].value = 0
    <2>1. p + 2 \in p + 2 .. q - 2 /\ q - 2 \in p + 2 .. q - 2
      BY <1>1, <1>3, <1>4
    <2> QED
      BY <1>4, <2>1
  <1>9. ASSUME NEW a, NEW b, NEW c, Block(kinds, a, b), Stands(text, kinds, a, b, c),
               j \in From(a, c) .. Upto(kinds, a, b, c)
        PROVE  FALSE
    <2> DEFINE upto == Upto(kinds, a, b, c)
    <2>1. AsItWas(text, kinds, j, upto)
      BY <1>9, NameIsAsItWas
    <2> HIDE DEF upto
    <2>2. \A x \in {p, q} : /\ text[x].value # 0 /\ kinds[text[x].value] = "word"
                            /\ text[x] # Blank
      BY <1>2, <1>5 DEF IsWord
    <2>3. CASE j = p
      <3>1. /\ p + 1 # Len(text) /\ p # Len(text)
        BY <1>1, <1>3, <1>4
      <3> QED
        BY <1>8, <2>1, <2>2, <2>3, <3>1 DEF AsItWas
    <2>4. CASE j = p + 1
      <3>1. j # Len(text) /\ j + 1 = p + 2
        BY <1>1, <1>3, <1>4, <2>4
      <3>2. text[j] = Blank /\ ~IsWord(text, kinds, j)
        BY <1>2, <1>5, <2>4 DEF IsWord
      <3> QED
        BY <1>5, <1>8, <2>1, <3>1, <3>2 DEF AsItWas
    <2>5. CASE j \in p + 2 .. q - 2
      <3>1. text[j].value = 0 /\ text[j] # Blank
        BY <1>4, <2>5
      <3> QED
        BY <2>1, <3>1 DEF AsItWas, IsWord
    <2>6. CASE j = q - 1
      <3>1. j - 1 = q - 2
        BY <1>3, <2>6
      <3>2. text[j] = Blank /\ ~IsWord(text, kinds, j)
        BY <1>2, <1>5, <2>6 DEF IsWord
      <3> QED
        BY <1>5, <1>8, <2>1, <3>1, <3>2 DEF AsItWas
    <2>7. CASE j = q
      <3>1. q # 1
        BY <1>1, <1>3, <1>4
      <3> QED
        BY <1>8, <2>1, <2>2, <2>7, <3>1 DEF AsItWas
    <2> QED
      BY <1>6, <2>3, <2>4, <2>5, <2>6, <2>7
  <1> QED
    BY <1>7, <1>9
-----------------------------------------------------------------------------
(* At first nothing is replaced, and each name stands.                      *)
LEMMA StartIsExact ==
  ASSUME NEW kinds \in Seq(Kinds)
  PROVE  /\ Exactly([text |-> Text(kinds), entities |-> <<>>], kinds, {})
         /\ Standing(Text(kinds), kinds)
  <1> DEFINE t == Text(kinds)
             n == Len(kinds)
             w(v) == Width(kinds[v])
             start == [text |-> t, entities |-> <<>>]
  <1>1. /\ t \in Seq(Chars) /\ Len(t) \in Nat /\ DOMAIN t = 1 .. Len(t)
        /\ n \in Nat /\ DOMAIN kinds = 1 .. n
    BY TextIsList, LenProperties
  <1>2. PICK pos : Laid(t, kinds, pos)
    BY TextIsLaid
  <1>3. Traced(t, kinds)
    BY TextIsTraced
  <1>4. start \in Results
    BY <1>1 DEF Results
  <1>5. Cardinality(Counting(start.entities)) = Cardinality(Values(kinds, {}))
    <2>1. Counting(start.entities) = {}
      BY DEF Counting
    <2>2. Values(kinds, {}) = {}
      BY DEF Values
    <2> QED
      BY <2>1, <2>2
  <1>6. \A v \in 1 .. n : w(v) \in 1 .. 3
    BY WidthsAre
  <1> HIDE DEF t, n, w
  <1>7. /\ pos \in [1 .. n + 1 -> Nat \ {0}]
        /\ pos[1] = 1
        /\ pos[n + 1] = Len(t) + 1
        /\ \A v \in 1 .. n :
             /\ pos[v + 1] = pos[v] + w(v) + 1
             /\ pos[v] + w(v) <= Len(t)
             /\ \A j \in 0 .. w(v) - 1 : t[pos[v] + j] = Char(v, j + 1)
             /\ t[pos[v] + w(v)] = Blank
    BY <1>2 DEF Laid, n, w
  <1>8. Blank.value = 0 /\ \A v, j : Char(v, j).value = v /\ Char(v, j).at = j
    BY DEF Blank, Char
  <1>9. ASSUME NEW x \in DOMAIN t, t[x].value # 0
        PROVE  t[x].at \in 1 .. Width(kinds[t[x].value])
    <2> DEFINE B == {v \in 1 .. n : pos[v + 1] > x}
    <2>1. B # {}
      <3>1. n # 0
        BY <1>1, <1>7
      <3>2. n \in B
        BY <1>1, <1>7, <3>1
      <3> QED
        BY <3>2
    <2>2. B \in SUBSET Nat
      OBVIOUS
    <2>3. PICK v \in B : \A y \in B : v <= y
      BY <2>1, <2>2, LeastOfNumbers
    <2>4. v \in 1 .. n /\ pos[v + 1] > x
      OBVIOUS
    <2>5. pos[v] <= x
      <3>1. CASE v = 1
        BY <1>1, <1>7, <3>1
      <3>2. CASE v # 1
        <4>1. v - 1 \in 1 .. n /\ (v - 1) + 1 = v /\ ~(v <= v - 1)
          BY <1>1, <2>4, <3>2
        <4>2. v - 1 \notin B
          <5> HIDE DEF B
          <5> QED
            BY <2>3, <4>1
        <4>3. ~(pos[v] > x)
          BY <4>1, <4>2
        <4>4. pos[v] \in Nat /\ x \in Nat
          BY <1>1, <1>7, <2>4
        <4> QED
          BY <4>3, <4>4
      <3> QED
        BY <3>1, <3>2
    <2> DEFINE j == x - pos[v]
    <2>6. /\ pos[v] \in Nat /\ w(v) \in 1 .. 3 /\ x \in Nat
          /\ pos[v + 1] = pos[v] + w(v) + 1
          /\ \A y \in 0 .. w(v) - 1 : t[pos[v] + y] = Char(v, y + 1)
          /\ t[pos[v] + w(v)] = Blank
      BY <1>1, <1>6, <1>7, <2>4
    <2>7. j \in 0 .. w(v) /\ pos[v] + j = x
      <3> DEFINE y == pos[v]
                 z == w(v)
      <3>1. y \in Nat /\ z \in 1 .. 3 /\ x \in Nat /\ y <= x /\ x < y + z + 1
        BY <2>4, <2>5, <2>6
      <3> HIDE DEF y, z
      <3>2. x - y \in 0 .. z /\ y + (x - y) = x
        BY <3>1
      <3> QED
        BY <3>2 DEF y, z
    <2> HIDE DEF j, B
    <2>8. j # w(v)
      BY <1>8, <1>9, <2>6, <2>7
    <2>9. j \in 0 .. w(v) - 1 /\ j + 1 \in 1 .. w(v)
      BY <2>6, <2>7, <2>8
    <2>10. t[x] = Char(v, j + 1)
      BY <2>6, <2>7, <2>9
    <2>11. t[x].value = v /\ t[x].at = j + 1
      BY <1>8, <2>10
    <2> QED
      BY <2>9, <2>11 DEF w
  <1>10. Ranged(t, kinds)
    BY <1>9 DEF Ranged
  <1>11. ASSUME NEW v \in DOMAIN kinds
         PROVE  Whole(t, kinds, v)
    <2>1. v \in 1 .. n /\ v \in 1 .. n + 1
      BY <1>1
    <2>2. /\ pos[v] \in Nat \ {0} /\ w(v) \in 1 .. 3 /\ pos[v] + w(v) <= Len(t)
          /\ \A j \in 0 .. w(v) - 1 : t[pos[v] + j] = Char(v, j + 1)
      BY <1>6, <1>7, <2>1
    <2>3. pos[v] \in 1 .. Len(t) /\ pos[v] + w(v) - 1 <= Len(t)
      BY <1>1, <2>2
    <2>4. WholeAt(t, kinds, v, pos[v])
      BY <2>2, <2>3 DEF WholeAt, w
    <2> QED
      BY <2>3, <2>4 DEF Whole
  <1>12. Exactly(start, kinds, {})
    BY <1>3, <1>4, <1>5, <1>10, <1>11 DEF Exactly
  <1>13. ASSUME NEW a, NEW b, Block(kinds, a, b)
         PROVE  \E p \in 1 .. Len(t) : Stands(t, kinds, a, b, p)
    <2> DEFINE p == pos[a]
               m == b - a
    <2>1. /\ a \in 1 .. n /\ b \in 1 .. n /\ m \in 1 .. 3
          /\ \A v \in a .. b : kinds[v] = "word"
          /\ a = 1 \/ kinds[a - 1] = "refused"
          /\ b = n \/ kinds[b + 1] = "refused"
      BY <1>1, <1>13 DEF Block, n
    <2>2. \A v \in a .. b : v \in 1 .. n /\ w(v) = 1
      BY <1>1, <2>1, WidthsAre DEF w
    <2>3. \A v \in a .. b : pos[v] \in Nat /\ pos[v + 1] = pos[v] + 2
      <3>1. ASSUME NEW v \in a .. b
            PROVE  pos[v] \in Nat /\ pos[v + 1] = pos[v] + 2
        <4>1. v \in 1 .. n /\ v \in 1 .. n + 1 /\ w(v) = 1
          BY <1>1, <2>2
        <4>2. pos[v] \in Nat /\ pos[v + 1] = pos[v] + w(v) + 1
          BY <1>7, <4>1
        <4> QED
          BY <4>1, <4>2
      <3> QED
        BY <3>1
    <2>4. p \in Nat /\ p >= 1 /\ \A j \in 0 .. m : a + j \in a .. b
      <3>1. a \in 1 .. n + 1 /\ a \in Nat /\ b \in Nat
        BY <1>1, <2>1
      <3>2. p \in Nat \ {0}
        BY <1>7, <3>1
      <3>3. \A j \in 0 .. m : a + j \in a .. b
        BY <3>1
      <3> HIDE DEF p
      <3> QED
        BY <3>2, <3>3
    <2> HIDE DEF p, m
    <2>5. \A j \in 0 .. m : pos[a + j] = p + 2 * j /\ pos[a + j + 1] = p + 2 * j + 2
      <3>1. pos[a] = p /\ a + 0 = a /\ 0 \in 0 .. m /\ 1 \in 0 .. m
        BY <2>1 DEF p
      <3>2. pos[a + 0] = p /\ pos[a + 0 + 1] = p + 2 /\ pos[a + 1] = p + 2 /\ pos[a + 1 + 1] = p + 4
        <4>1. a \in a .. b /\ a + 1 \in a .. b
          BY <2>4, <3>1
        <4>2. pos[a + 1] = pos[a] + 2 /\ pos[(a + 1) + 1] = pos[a + 1] + 2
          BY <2>3, <4>1
        <4> QED
          BY <2>4, <3>1, <4>2
      <3>3. 2 \in 0 .. m => pos[a + 2] = p + 4 /\ pos[a + 2 + 1] = p + 6
        <4>1. a + 1 + 1 = a + 2
          BY <2>1
        <4>2. 2 \in 0 .. m => pos[a + 2 + 1] = pos[a + 2] + 2
          BY <2>3, <2>4
        <4> QED
          BY <2>4, <3>2, <4>1, <4>2
      <3>4. 3 \in 0 .. m => pos[a + 3] = p + 6 /\ pos[a + 3 + 1] = p + 8
        <4>1. a + 2 + 1 = a + 3
          BY <2>1
        <4>2. 3 \in 0 .. m => pos[a + 3 + 1] = pos[a + 3] + 2 /\ 2 \in 0 .. m
          BY <2>1, <2>3, <2>4
        <4> QED
          BY <2>4, <3>3, <4>1, <4>2
      <3>5. \A j \in 0 .. m : j \in {0, 1, 2, 3}
        BY <2>1
      <3> QED
        <4>1. ASSUME NEW j \in 0 .. m
              PROVE  pos[a + j] = p + 2 * j /\ pos[a + j + 1] = p + 2 * j + 2
          <5>1. CASE j = 0
            BY <2>4, <3>2, <5>1
          <5>2. CASE j = 1
            BY <2>4, <3>2, <5>2
          <5>3. CASE j = 2
            BY <2>4, <3>3, <5>3
          <5>4. CASE j = 3
            BY <2>4, <3>4, <5>4
          <5> QED
            BY <3>5, <5>1, <5>2, <5>3, <5>4
        <4> QED
          BY <4>1
    <2>6. ASSUME NEW j \in 0 .. m
          PROVE  /\ p + 2 * j + 1 <= Len(t)
                 /\ t[p + 2 * j] = Char(a + j, 1)
                 /\ t[p + 2 * j + 1] = Blank
      <3> DEFINE v == a + j
      <3>1. v \in 1 .. n /\ w(v) = 1 /\ pos[v] = p + 2 * j
        BY <2>2, <2>4, <2>5
      <3> HIDE DEF v
      <3>2. /\ pos[v] + 1 <= Len(t) /\ t[pos[v] + 1] = Blank
            /\ t[pos[v] + 0] = Char(v, 0 + 1)
        BY <1>7, <3>1
      <3>3. pos[v] + 0 = pos[v] /\ 0 + 1 = 1
        BY <2>4, <3>1
      <3> QED
        BY <3>1, <3>2, <3>3 DEF v
    <2>7. IF a = 1 THEN p = 1
          ELSE p > 2 /\ t[p - 1] = Blank /\ t[p - 2] = Char(a - 1, 2)
      <3>1. CASE a = 1
        BY <1>7, <3>1 DEF p
      <3>2. CASE a # 1
        <4> DEFINE v == a - 1
        <4>1. v \in 1 .. n /\ v \in 1 .. n + 1 /\ v + 1 = a /\ w(v) = 2
          BY <1>1, <2>1, <3>2, WidthsAre DEF w
        <4> HIDE DEF v
        <4>2. /\ pos[v] \in Nat \ {0} /\ p = pos[v] + 2 + 1
              /\ t[pos[v] + 1] = Char(v, 1 + 1) /\ t[pos[v] + 2] = Blank
          BY <1>7, <4>1 DEF p
        <4>3. p > 2 /\ p - 1 = pos[v] + 2 /\ p - 2 = pos[v] + 1 /\ 1 + 1 = 2
          BY <4>2
        <4> QED
          BY <3>2, <4>2, <4>3 DEF v
      <3> QED
        BY <3>1, <3>2
    <2>8. IF b = n THEN p + 2 * m + 1 = Len(t)
          ELSE p + 2 * m + 2 <= Len(t) /\ t[p + 2 * m + 2] = Char(b + 1, 1)
      <3>1. pos[b + 1] = p + 2 * m + 2
        <4>1. m \in 0 .. m /\ a + m = b
          BY <2>1 DEF m
        <4>2. pos[a + m + 1] = p + 2 * m + 2
          BY <2>5, <4>1
        <4> QED
          BY <4>1, <4>2
      <3>2. CASE b = n
        <4>1. pos[n + 1] = p + 2 * m + 2
          BY <3>1, <3>2
        <4> DEFINE z == 2 * m
        <4>2. z \in Nat
          BY <2>1
        <4> HIDE DEF z
        <4>3. p + z + 1 = Len(t)
          BY <1>1, <1>7, <2>4, <4>1, <4>2 DEF z
        <4> QED
          BY <3>2, <4>3 DEF z
      <3>3. CASE b # n
        <4> DEFINE v == b + 1
        <4>1. v \in 1 .. n /\ w(v) = 2 /\ pos[v] = p + 2 * m + 2
          BY <1>1, <2>1, <3>1, <3>3, WidthsAre DEF w
        <4> HIDE DEF v
        <4>2. pos[v] + 2 <= Len(t) /\ t[pos[v] + 0] = Char(v, 0 + 1)
          BY <1>7, <4>1
        <4>3. pos[v] \in Nat
          BY <2>1, <2>4, <4>1
        <4>4. pos[v] + 0 = pos[v] /\ 0 + 1 = 1 /\ pos[v] <= Len(t)
          BY <1>1, <4>2, <4>3
        <4> QED
          BY <3>3, <4>1, <4>2, <4>4 DEF v
      <3> QED
        BY <3>2, <3>3
    <2>9. p \in 1 .. Len(t)
      <3>1. 0 \in 0 .. m /\ p + 2 * 0 + 1 = p + 1
        BY <2>1, <2>4
      <3>2. p + 1 <= Len(t)
        BY <2>6, <3>1
      <3> QED
        BY <1>1, <2>4, <3>2
    <2>10. Stands(t, kinds, a, b, p)
      BY <2>6, <2>7, <2>8, <2>9 DEF Stands, m, n
    <2> QED
      BY <2>9, <2>10
  <1>14. Standing(t, kinds)
    BY <1>13 DEF Standing
  <1> QED
    BY <1>12, <1>14 DEF t
-----------------------------------------------------------------------------
(* Each word that makes a name stands with words, or with nothing but a      *)
(* refused value, and makes a name of at most four: NamesApart of one part.  *)
Apart(kinds) ==
  \A v \in DOMAIN kinds : InName(kinds, v) =>
    /\ \A u \in {v - 1, v + 1} \cap DOMAIN kinds : kinds[u] \in {"word", "refused"}
    /\ \E u \in v .. v + 4 : u \notin DOMAIN kinds \/ kinds[u] # "word"

(* So the words from the first to the last are a name that stands apart.    *)
LEMMA NameIsBlock ==
  ASSUME NEW kinds \in Seq(Kinds), Apart(kinds),
         NEW v \in DOMAIN kinds, InName(kinds, v)
  PROVE  \E a, b : Block(kinds, a, b) /\ v \in a .. b
  <1> DEFINE n == Len(kinds)
             A == {x \in 1 .. v : \A y \in x .. v : kinds[y] = "word"}
  <1>1. n \in Nat /\ DOMAIN kinds = 1 .. n /\ v \in 1 .. n
    BY LenProperties
  <1>2. kinds[v] = "word" /\ \E u \in {v - 1, v + 1} \cap DOMAIN kinds : kinds[u] = "word"
    BY DEF InName
  <1>3. v \in A /\ A \in SUBSET Nat
    BY <1>1, <1>2
  <1>4. PICK a \in A : \A x \in A : a <= x
    <2>1. A # {}
      BY <1>3
    <2> HIDE DEF A
    <2> QED
      BY <1>3, <2>1, LeastOfNumbers
  <1>5. a \in 1 .. v /\ \A y \in a .. v : kinds[y] = "word"
    OBVIOUS
  <1>6. a = 1 \/ kinds[a - 1] # "word"
    <2>1. ASSUME a # 1, kinds[a - 1] = "word"
          PROVE  FALSE
      <3>1. a - 1 \in 1 .. v /\ ~(a <= a - 1)
        BY <1>1, <1>5, <2>1
      <3>2. \A y \in a - 1 .. v : y = a - 1 \/ y \in a .. v
        BY <1>1, <1>5
      <3>3. a - 1 \in A
        BY <1>5, <2>1, <3>1, <3>2
      <3> HIDE DEF A
      <3> QED
        BY <1>4, <3>1, <3>3
    <2> QED
      BY <2>1
  <1> HIDE DEF n, A
  <1>7. a \in 1 .. n /\ kinds[a] = "word" /\ InName(kinds, a)
    <2>1. a \in 1 .. n /\ kinds[a] = "word"
      BY <1>1, <1>5
    <2>2. CASE a = v
      BY <2>1, <2>2
    <2>3. CASE a # v
      <3>1. a + 1 \in a .. v /\ a + 1 \in DOMAIN kinds
        BY <1>1, <1>5, <2>3
      <3>2. kinds[a + 1] = "word"
        BY <1>5, <3>1
      <3> QED
        BY <2>1, <3>1, <3>2 DEF InName
    <2> QED
      BY <2>1, <2>2, <2>3
  <1>8. a = 1 \/ kinds[a - 1] = "refused"
    <2>1. a # 1 => a - 1 \in DOMAIN kinds
      BY <1>1, <1>7
    <2>2. \A u \in {a - 1, a + 1} \cap DOMAIN kinds : kinds[u] \in {"word", "refused"}
      BY <1>1, <1>7 DEF Apart
    <2> QED
      BY <1>6, <2>1, <2>2
  <1>9. a + 1 \in 1 .. n /\ kinds[a + 1] = "word"
    <2>1. PICK u \in {a - 1, a + 1} \cap DOMAIN kinds : kinds[u] = "word"
      BY <1>7 DEF InName
    <2>2. u # a - 1
      BY <1>1, <1>6, <1>7, <2>1
    <2> QED
      BY <1>1, <2>1, <2>2
  <1> DEFINE E == {u \in a .. a + 4 : u \notin DOMAIN kinds \/ kinds[u] # "word"}
  <1>10. E # {} /\ E \in SUBSET Nat
    <2>1. \E u \in a .. a + 4 : u \notin DOMAIN kinds \/ kinds[u] # "word"
      BY <1>1, <1>7 DEF Apart
    <2>2. a .. a + 4 \in SUBSET Nat
      BY <1>1, <1>7
    <2>3. E # {}
      BY <2>1
    <2>4. E \in SUBSET (a .. a + 4)
      OBVIOUS
    <2> HIDE DEF E
    <2> QED
      BY <2>2, <2>3, <2>4
  <1>11. PICK e \in E : \A x \in E : e <= x
    <2> HIDE DEF E
    <2> QED
      BY <1>10, LeastOfNumbers
  <1>12. e \in a .. a + 4 /\ (e \notin DOMAIN kinds \/ kinds[e] # "word")
    OBVIOUS
  <1>13. \A x \in a .. e - 1 : x \in DOMAIN kinds /\ kinds[x] = "word"
    <2>1. ASSUME NEW x \in a .. e - 1
          PROVE  x \in DOMAIN kinds /\ kinds[x] = "word"
      <3>1. x \in a .. a + 4 /\ ~(e <= x)
        BY <1>1, <1>7, <1>12
      <3>2. x \notin E
        <4> HIDE DEF E
        <4> QED
          BY <1>11, <3>1
      <3> QED
        BY <3>1, <3>2
    <2> QED
      BY <2>1
  <1> HIDE DEF E
  <1> DEFINE b == e - 1
  <1>14. e # a /\ e # a + 1
    BY <1>1, <1>7, <1>9, <1>12
  <1>15. b \in Nat /\ a < b /\ b <= a + 3 /\ b + 1 = e
    BY <1>1, <1>7, <1>12, <1>14
  <1>16. b \in DOMAIN kinds /\ b - 1 \in DOMAIN kinds /\ kinds[b] = "word" /\ kinds[b - 1] = "word"
    <2>1. b \in a .. e - 1 /\ b - 1 \in a .. e - 1
      BY <1>1, <1>7, <1>15
    <2> HIDE DEF b
    <2> QED
      BY <1>13, <2>1
  <1> HIDE DEF b
  <1>17. InName(kinds, b)
    BY <1>16 DEF InName
  <1>18. b = n \/ kinds[b + 1] = "refused"
    <2>1. b # n => b + 1 \in DOMAIN kinds
      BY <1>1, <1>15, <1>16
    <2>2. b + 1 \in DOMAIN kinds => kinds[b + 1] \in {"word", "refused"}
      BY <1>16, <1>17 DEF Apart
    <2> QED
      BY <1>12, <1>15, <2>1, <2>2
  <1>19. v \in a .. b
    <2>1. ~(e <= v)
      <3>1. e \in Nat /\ a <= e
        BY <1>1, <1>7, <1>12
      <3>2. e <= v => e \in a .. v /\ e \in DOMAIN kinds
        BY <1>1, <1>7, <3>1
      <3> QED
        BY <1>5, <1>12, <3>2
    <2>2. e \in Nat
      BY <1>1, <1>7, <1>12
    <2> QED
      BY <1>1, <1>5, <1>15, <2>1, <2>2
  <1>20. Block(kinds, a, b)
    BY <1>1, <1>7, <1>8, <1>13, <1>15, <1>16, <1>18 DEF Block, n, b
  <1> QED
    BY <1>19, <1>20

(* The matches of names.                                                    *)
NamesOf(text, kinds) ==
  Matches(text, [p \in DOMAIN text |-> {q \in p..Len(text) : IsName(text, kinds, p, q)}])

(* A name takes words and blanks.                                          *)
LEMMA NameTakes ==
  ASSUME NEW kinds \in Seq(Kinds), NEW text \in Seq(Chars),
         NEW p \in DOMAIN text, NEW q \in p .. Len(text), IsName(text, kinds, p, q),
         NEW j \in p .. q
  PROVE  text[j].value = 0 \/ IsWord(text, kinds, j)
  BY DEF IsName, Blank, Char

(* A name that stands is matched, all of it.                                *)
LEMMA NameIsMatched ==
  ASSUME NEW kinds \in Seq(Kinds), NEW text \in Seq(Chars),
         NEW a, NEW b, Block(kinds, a, b), NEW p, Stands(text, kinds, a, b, p)
  PROVE  LET ms == NamesOf(text, kinds)
         IN  \E i \in DOMAIN ms : ms[i][1] = p /\ p + 2 * (b - a) <= ms[i][2]
  <1> DEFINE ends == [x \in DOMAIN text |-> {q \in x..Len(text) : IsName(text, kinds, x, q)}]
             ms == NamesOf(text, kinds)
             m == b - a
             n == Len(text)
             end == p + 2 * m
  <1>1. /\ a \in Nat /\ b \in Nat /\ 1 <= a /\ m \in 1 .. 3 /\ b <= Len(kinds)
        /\ p \in Nat /\ n \in Nat /\ Len(kinds) \in Nat
        /\ DOMAIN text = 1 .. n /\ DOMAIN kinds = 1 .. Len(kinds)
    BY PlacesOfName, LenProperties
  <1>2. /\ p \in 1 .. n
        /\ \A j \in 0 .. m : /\ p + 2 * j + 1 <= n
                             /\ text[p + 2 * j] = Char(a + j, 1)
                             /\ text[p + 2 * j + 1] = Blank
        /\ IF a = 1 THEN p = 1
           ELSE p > 2 /\ text[p - 1] = Blank /\ text[p - 2] = Char(a - 1, 2)
    BY DEF Stands
  <1>3. /\ \A v \in a .. b : kinds[v] = "word"
        /\ a = 1 \/ kinds[a - 1] = "refused"
    BY DEF Block
  <1>4. Blank.value = 0 /\ \A v, j : Char(v, j).value = v
    BY DEF Blank, Char
  <1>5. \A x \in DOMAIN text : /\ ends[x] \in SUBSET (x .. n)
                               /\ \A q : q \in ends[x] <=> q \in x .. n /\ IsName(text, kinds, x, q)
    OBVIOUS
  <1>6. /\ Placed(ms, n)
        /\ \A i \in DOMAIN ms : /\ ms[i][1] \in DOMAIN text
                                /\ ms[i][2] \in ends[ms[i][1]]
                                /\ \A e \in ends[ms[i][1]] : e <= ms[i][2]
        /\ \A x \in DOMAIN text : ends[x] # {} =>
             \E i \in DOMAIN ms : ms[i][1] <= x /\ x <= ms[i][2]
    BY <1>5, MatchesArePlaced DEF NamesOf
  <1> HIDE DEF ends, ms, m, n
  <1>7. \A j \in 0 .. m : /\ p + 2 * j \in 1 .. n
                          /\ IsWord(text, kinds, p + 2 * j)
                          /\ text[p + 2 * j + 1] = Blank
    <2>1. ASSUME NEW j \in 0 .. m
          PROVE  /\ p + 2 * j \in 1 .. n
                 /\ IsWord(text, kinds, p + 2 * j)
                 /\ text[p + 2 * j + 1] = Blank
      <3> DEFINE y == p + 2 * j
      <3>1. a + j \in a .. b /\ a + j # 0
        BY <1>1 DEF m
      <3>2. text[y].value = a + j
        BY <1>2, <1>4
      <3>3. y \in 1 .. n
        BY <1>1, <1>2
      <3>4. text[p + 2 * j + 1] = Blank
        BY <1>2
      <3> HIDE DEF y
      <3>5. IsWord(text, kinds, y)
        BY <1>1, <1>3, <3>1, <3>2, <3>3 DEF IsWord
      <3> QED
        BY <3>3, <3>4, <3>5 DEF y
    <2> QED
      BY <2>1
  <1>8. IsName(text, kinds, p, end)
    <2>1. end \in {p + 2, p + 4, p + 6}
      BY <1>1
    <2>2. ASSUME NEW x \in p .. end
          PROVE  IF (x - p) % 2 = 0 THEN IsWord(text, kinds, x) ELSE text[x] = Blank
      <3>1. x - p \in 0 .. 2 * m
        BY <1>1
      <3>2. PICK j \in 0 .. m : x = p + 2 * j \/ (x = p + 2 * j + 1 /\ (x - p) % 2 = 1)
        <4>1. x - p \in {0, 1, 2, 3, 4, 5, 6}
          BY <1>1, <3>1
        <4>2. CASE x - p \in {0, 1}
          <5>1. 0 \in 0 .. m
            BY <1>1
          <5>2. x = p + 2 * 0 \/ (x = p + 2 * 0 + 1 /\ (x - p) % 2 = 1)
            BY <1>1, <4>2
          <5> QED
            BY <5>1, <5>2
        <4>3. CASE x - p \in {2, 3}
          <5>1. 1 \in 0 .. m
            BY <1>1
          <5>2. x = p + 2 * 1 \/ (x = p + 2 * 1 + 1 /\ (x - p) % 2 = 1)
            BY <1>1, <4>3
          <5> QED
            BY <5>1, <5>2
        <4>4. CASE x - p \in {4, 5}
          <5>1. 2 \in 0 .. m
            BY <1>1, <3>1, <4>4
          <5>2. x = p + 2 * 2 \/ (x = p + 2 * 2 + 1 /\ (x - p) % 2 = 1)
            BY <1>1, <4>4
          <5> QED
            BY <5>1, <5>2
        <4>5. CASE x - p = 6
          <5>1. 3 \in 0 .. m
            BY <1>1, <3>1, <4>5
          <5>2. x = p + 2 * 3
            BY <1>1, <4>5
          <5> QED
            BY <5>1, <5>2
        <4> QED
          BY <4>1, <4>2, <4>3, <4>4, <4>5
      <3>3. x = p + 2 * j => (x - p) % 2 = 0
        <4>1. j \in {0, 1, 2, 3}
          BY <1>1
        <4>2. x = p + 2 * j => x - p \in {0, 2, 4, 6}
          BY <1>1, <4>1
        <4> QED
          BY <4>2
      <3> QED
        BY <1>7, <3>2, <3>3
    <2> QED
      BY <2>1, <2>2 DEF IsName
  <1>9. p \in DOMAIN text /\ end \in ends[p]
    <2>1. m \in 0 .. m /\ end \in p .. n
      BY <1>1, <1>7
    <2> HIDE DEF end
    <2> QED
      BY <1>1, <1>2, <1>5, <1>8, <2>1
  <1>10. PICK i \in DOMAIN ms : ms[i][1] <= p /\ p <= ms[i][2]
    BY <1>6, <1>9
  <1> DEFINE c == ms[i][1]
             d == ms[i][2]
  <1>11. /\ c \in 1 .. n /\ d \in c .. n /\ c <= p /\ p <= d
         /\ IsName(text, kinds, c, d)
    <2>1. c \in DOMAIN text /\ d \in ends[c]
      BY <1>6
    <2> HIDE DEF c, d
    <2>2. d \in c .. n /\ IsName(text, kinds, c, d)
      BY <1>5, <2>1
    <2> QED
      BY <1>1, <1>10, <2>1, <2>2 DEF c, d
  <1> HIDE DEF c, d
  <1>12. c = p
    <2>1. ASSUME c # p
          PROVE  FALSE
      <3>1. /\ d \in {c + 2, c + 4, c + 6}
            /\ \A x \in c .. d : IF (x - c) % 2 = 0 THEN IsWord(text, kinds, x)
                                 ELSE text[x] = Blank
        BY <1>11 DEF IsName
      <3>2. p \in c .. d /\ p - c \in 1 .. 6
        BY <1>1, <1>11, <2>1, <3>1
      <3>3. text[p].value # 0
        <4>1. 0 \in 0 .. m /\ p + 2 * 0 = p
          BY <1>1
        <4> QED
          BY <1>7, <4>1 DEF IsWord
      <3>4. (p - c) % 2 = 0
        BY <1>4, <3>1, <3>2, <3>3
      <3>5. p - c \in {2, 4, 6}
        BY <3>2, <3>4
      <3>6. p - 2 \in c .. d /\ ((p - 2) - c) % 2 = 0
        BY <1>1, <1>11, <3>5
      <3>7. IsWord(text, kinds, p - 2)
        BY <3>1, <3>6
      <3>8. a # 1
        BY <1>1, <1>2, <1>11, <3>5
      <3>9. text[p - 2].value = a - 1 /\ kinds[a - 1] = "refused"
        BY <1>2, <1>3, <1>4, <3>8
      <3> QED
        BY <3>7, <3>9 DEF IsWord
    <2> QED
      BY <2>1
  <1>13. end <= d
    <2> HIDE DEF end
    <2> QED
      BY <1>6, <1>9, <1>12 DEF c, d
  <1> QED
    BY <1>12, <1>13 DEF c, d, m, ms

(* After the pass over names nothing is left of a name that stood.          *)
LEMMA NamesAreGone ==
  ASSUME NEW kinds \in Seq(Kinds), NEW r \in Results,
         Traced(r.text, kinds), Ranged(r.text, kinds), Standing(r.text, kinds),
         NEW a, NEW b, Block(kinds, a, b), NEW v \in a .. b
  PROVE  Gone(FromTheRight(r, "name", NamesOf(r.text, kinds)).text, kinds, v)
  <1> DEFINE t == r.text
             ends == [x \in DOMAIN t |-> {q \in x..Len(t) : IsName(t, kinds, x, q)}]
             ms == NamesOf(t, kinds)
             u == FromTheRight(r, "name", ms).text
  <1>1. /\ t \in Seq(Chars) /\ DOMAIN t = 1 .. Len(t) /\ Len(t) \in Nat
        /\ Len(kinds) \in Nat /\ DOMAIN kinds = 1 .. Len(kinds)
    BY LenProperties DEF Results
  <1>2. Placed(ms, Len(t))
    <2>1. \A p \in DOMAIN t : ends[p] \in SUBSET (p .. Len(t))
      OBVIOUS
    <2>2. ms = Matches(t, ends)
      BY DEF NamesOf
    <2> HIDE DEF ends, ms
    <2> QED
      BY <1>1, <2>1, <2>2, MatchesArePlaced
  <1>3. "name" \in Marks
    BY DEF Marks
  <1>4. PICK p \in 1 .. Len(t) : Stands(t, kinds, a, b, p)
    BY DEF Standing
  <1>5. PICK i \in DOMAIN ms : ms[i][1] = p /\ p + 2 * (b - a) <= ms[i][2]
    BY <1>1, <1>4, NameIsMatched
  <1>6. \A x \in DOMAIN u : u[x].value # 0 =>
          \E j \in DOMAIN t : Outside(ms, 0, j) /\ t[j] = u[x]
    BY <1>2, <1>3, PassDraws
  <1>7. DOMAIN ms = 1 .. Len(ms) /\ Len(ms) \in Nat /\ ms[i][2] \in Nat
    <2>1. ms \in Seq(Spans)
      BY <1>2 DEF Placed
    <2> HIDE DEF ms
    <2>2. DOMAIN ms = 1 .. Len(ms) /\ Len(ms) \in Nat /\ ms[i] \in Spans
      BY <2>1, LenProperties
    <2> QED
      BY <2>2 DEF Spans
  <1> HIDE DEF u, ms, t
  <1>8. /\ a \in Nat /\ b \in Nat /\ 1 <= a /\ b <= Len(kinds) /\ kinds[v] = "word"
    BY <1>1 DEF Block
  <1>9. v \in Nat /\ v # 0 /\ a <= v /\ v <= b /\ v \in DOMAIN kinds
    BY <1>1, <1>8
  <1> DEFINE y == p + 2 * (v - a)
  <1>10. y \in DOMAIN t /\ t[y] = Char(v, 1) /\ p <= y /\ y <= ms[i][2]
    <2> DEFINE j == v - a
               z == 2 * j
               w == 2 * (b - a)
    <2>1. j \in 0 .. b - a /\ a + j = v
      BY <1>8, <1>9
    <2>2. p + 2 * j + 1 <= Len(t) /\ t[p + 2 * j] = Char(a + j, 1)
      BY <1>4, <2>1 DEF Stands
    <2>3. z \in Nat /\ w \in Nat /\ z <= w
      BY <1>8, <2>1
    <2> HIDE DEF z, w
    <2>4. p + z <= ms[i][2] /\ p <= p + z /\ p + z \in 1 .. Len(t)
      BY <1>1, <1>5, <1>7, <2>2, <2>3 DEF z, w
    <2> QED
      BY <1>1, <2>1, <2>2, <2>4 DEF z
  <1> HIDE DEF y
  <1>11. ASSUME NEW x \in DOMAIN u, u[x].value = v
         PROVE  FALSE
    <2>1. PICK j \in DOMAIN t : Outside(ms, 0, j) /\ t[j] = u[x]
      BY <1>6, <1>9, <1>11
    <2>2. Width("word") = 1
      BY WidthsAre
    <2>3. t[j].value = v /\ t[j].at = 1
      <3>1. t[j].at \in 1 .. Width(kinds[t[j].value])
        BY <1>9, <1>11, <2>1 DEF Ranged, t
      <3> QED
        BY <1>8, <1>11, <2>1, <2>2, <3>1
    <2>4. t[j] = Char(v, 1)
      <3>1. t[j] \in Chars
        BY <1>1, LenProperties
      <3> QED
        BY <2>3, <3>1 DEF Chars, Char
    <2>5. j = y
      BY <1>9, <1>10, <2>3, <2>4 DEF Traced, t
    <2>6. 0 < i
      BY <1>7
    <2> QED
      BY <1>5, <1>10, <2>1, <2>5, <2>6 DEF Outside
  <1>12. Keyword("word") = 0
    BY WidthsAre
  <1>13. Gone(u, kinds, v)
    BY <1>8, <1>11, <1>12 DEF Gone
  <1> QED
    BY <1>13 DEF u, ms, t
-----------------------------------------------------------------------------
(* The passes over orphans, bridges and names leave the values exact, and    *)
(* the first two leave the names that stand.                                 *)
LEMMA OrphansPass ==
  ASSUME NEW kinds \in Seq(Kinds), NEW r, NEW K, Exactly(r, kinds, K), "word" \notin K,
         Standing(r.text, kinds)
  PROVE  LET s == FromTheRight(r, "orphan",
                    Matches(r.text, [p \in DOMAIN r.text |->
                      {q \in p..Len(r.text) : IsOrphan(r.text, kinds, p, q)}]))
         IN  Exactly(s, kinds, K) /\ Standing(s.text, kinds)
  <1> DEFINE t == r.text
             ends == [p \in DOMAIN t |-> {q \in p..Len(t) : IsOrphan(t, kinds, p, q)}]
             s == FromTheRight(r, "orphan", Matches(t, ends))
             k == "orphan"
  <1>1. t \in Seq(Chars)
    BY DEF Exactly, Results
  <1>2. \A p \in DOMAIN t : /\ ends[p] \in SUBSET (p .. Len(t))
                            /\ \A q \in ends[p] : q \in p .. Len(t) /\ IsOrphan(t, kinds, p, q)
    OBVIOUS
  <1> HIDE DEF ends, t
  <1>3. ASSUME NEW p \in DOMAIN t, NEW q \in ends[p], NEW j \in p .. q
        PROVE  /\ t[j].value = 0 \/ IsWord(t, kinds, j)
               /\ \A a, b, c : Block(kinds, a, b) /\ Stands(t, kinds, a, b, c) =>
                    j \notin From(a, c) .. Upto(kinds, a, b, c)
    <2>1. q \in p .. Len(t) /\ IsOrphan(t, kinds, p, q)
      BY <1>2
    <2> QED
      BY <1>1, <2>1, OrphanTakes
  <1>4. k \in {"orphan", "bridge", "name"}
    OBVIOUS
  <1> HIDE DEF k
  <1>5. LET u == FromTheRight(r, k, Matches(r.text, ends))
        IN  /\ Exactly(u, kinds, K)
            /\ \/ ~Standing(r.text, kinds)
               \/ \E p \in DOMAIN r.text : \E q \in ends[p] : \E j \in p .. q :
                    \E a, b, c : /\ Block(kinds, a, b) /\ Stands(r.text, kinds, a, b, c)
                                 /\ j \in From(a, c) .. Upto(kinds, a, b, c)
               \/ Standing(u.text, kinds)
    <2>1. \A p \in DOMAIN r.text : ends[p] \in SUBSET (p .. Len(r.text))
      BY <1>2 DEF t
    <2>2. \A p \in DOMAIN r.text : \A q \in ends[p] : \A j \in p .. q :
            r.text[j].value = 0 \/ IsWord(r.text, kinds, j)
      BY <1>3 DEF t
    <2> QED
      BY <1>4, <2>1, <2>2, WordsPass
  <1>6. Exactly(s, kinds, K) /\ Standing(s.text, kinds)
    BY <1>3, <1>5 DEF t, k
  <1> QED
    BY <1>6 DEF t, ends

(* The same of bridges.                                                    *)
LEMMA BridgesPass ==
  ASSUME NEW kinds \in Seq(Kinds), NEW r, NEW K, Exactly(r, kinds, K), "word" \notin K,
         Standing(r.text, kinds)
  PROVE  LET s == FromTheRight(r, "bridge",
                    Matches(r.text, [p \in DOMAIN r.text |->
                      {q \in p..Len(r.text) : IsBridge(r.text, kinds, p, q)}]))
         IN  Exactly(s, kinds, K) /\ Standing(s.text, kinds)
  <1> DEFINE t == r.text
             ends == [p \in DOMAIN t |-> {q \in p..Len(t) : IsBridge(t, kinds, p, q)}]
             s == FromTheRight(r, "bridge", Matches(t, ends))
             k == "bridge"
  <1>1. t \in Seq(Chars)
    BY DEF Exactly, Results
  <1>2. \A p \in DOMAIN t : /\ ends[p] \in SUBSET (p .. Len(t))
                            /\ \A q \in ends[p] : q \in p .. Len(t) /\ IsBridge(t, kinds, p, q)
    OBVIOUS
  <1> HIDE DEF ends, t
  <1>3. ASSUME NEW p \in DOMAIN t, NEW q \in ends[p], NEW j \in p .. q
        PROVE  /\ t[j].value = 0 \/ IsWord(t, kinds, j)
               /\ \A a, b, c : Block(kinds, a, b) /\ Stands(t, kinds, a, b, c) =>
                    j \notin From(a, c) .. Upto(kinds, a, b, c)
    <2>1. q \in p .. Len(t) /\ IsBridge(t, kinds, p, q)
      BY <1>2
    <2> QED
      BY <1>1, <2>1, BridgeTakes
  <1>4. k \in {"orphan", "bridge", "name"}
    OBVIOUS
  <1> HIDE DEF k
  <1>5. LET u == FromTheRight(r, k, Matches(r.text, ends))
        IN  /\ Exactly(u, kinds, K)
            /\ \/ ~Standing(r.text, kinds)
               \/ \E p \in DOMAIN r.text : \E q \in ends[p] : \E j \in p .. q :
                    \E a, b, c : /\ Block(kinds, a, b) /\ Stands(r.text, kinds, a, b, c)
                                 /\ j \in From(a, c) .. Upto(kinds, a, b, c)
               \/ Standing(u.text, kinds)
    <2>1. \A p \in DOMAIN r.text : ends[p] \in SUBSET (p .. Len(r.text))
      BY <1>2 DEF t
    <2>2. \A p \in DOMAIN r.text : \A q \in ends[p] : \A j \in p .. q :
            r.text[j].value = 0 \/ IsWord(r.text, kinds, j)
      BY <1>3 DEF t
    <2> QED
      BY <1>4, <2>1, <2>2, WordsPass
  <1>6. Exactly(s, kinds, K) /\ Standing(s.text, kinds)
    BY <1>3, <1>5 DEF t, k
  <1> QED
    BY <1>6 DEF t, ends

(* The pass over names takes every name that stands.                        *)
LEMMA NamesPass ==
  ASSUME NEW kinds \in Seq(Kinds), NEW r, NEW K, Exactly(r, kinds, K), "word" \notin K
  PROVE  LET s == FromTheRight(r, "name", NamesOf(r.text, kinds))
         IN  /\ Exactly(s, kinds, K)
             /\ Standing(r.text, kinds) /\ Apart(kinds) =>
                  \A v \in DOMAIN kinds : InName(kinds, v) => Gone(s.text, kinds, v)
  <1> DEFINE t == r.text
             ends == [p \in DOMAIN t |-> {q \in p..Len(t) : IsName(t, kinds, p, q)}]
             k == "name"
             s == FromTheRight(r, k, NamesOf(t, kinds))
  <1>1. t \in Seq(Chars)
    BY DEF Exactly, Results
  <1>2. \A p \in DOMAIN t : /\ ends[p] \in SUBSET (p .. Len(t))
                            /\ \A q \in ends[p] : q \in p .. Len(t) /\ IsName(t, kinds, p, q)
    OBVIOUS
  <1>3. NamesOf(t, kinds) = Matches(t, ends)
    BY DEF NamesOf
  <1> HIDE DEF ends, t
  <1>4. ASSUME NEW p \in DOMAIN t, NEW q \in ends[p], NEW j \in p .. q
        PROVE  t[j].value = 0 \/ IsWord(t, kinds, j)
    <2>1. q \in p .. Len(t) /\ IsName(t, kinds, p, q)
      BY <1>2
    <2> QED
      BY <1>1, <2>1, NameTakes
  <1>5. k \in {"orphan", "bridge", "name"}
    OBVIOUS
  <1> HIDE DEF k
  <1>6. Exactly(s, kinds, K)
    <2>1. \A p \in DOMAIN r.text : ends[p] \in SUBSET (p .. Len(r.text))
      BY <1>2 DEF t
    <2>2. \A p \in DOMAIN r.text : \A q \in ends[p] : \A j \in p .. q :
            r.text[j].value = 0 \/ IsWord(r.text, kinds, j)
      BY <1>4 DEF t
    <2>3. Exactly(FromTheRight(r, k, Matches(r.text, ends)), kinds, K)
      BY <1>5, <2>1, <2>2, WordsPass
    <2> QED
      BY <1>3, <2>3 DEF t
  <1>7. ASSUME Standing(r.text, kinds), Apart(kinds), NEW v \in DOMAIN kinds, InName(kinds, v)
        PROVE  Gone(s.text, kinds, v)
    <2>1. PICK a, b : Block(kinds, a, b) /\ v \in a .. b
      BY <1>7, NameIsBlock
    <2>2. r \in Results /\ Traced(r.text, kinds) /\ Ranged(r.text, kinds)
      BY DEF Exactly
    <2>3. Gone(FromTheRight(r, "name", NamesOf(r.text, kinds)).text, kinds, v)
      BY <1>7, <2>1, <2>2, NamesAreGone
    <2> QED
      BY <2>3 DEF s, t, k
  <1> QED
    BY <1>6, <1>7 DEF s, t, k

(* The last pass leaves gone what is gone.                                  *)
LEMMA MonthsPass ==
  ASSUME NEW kinds \in Seq(Kinds), NEW r, NEW K, Exactly(r, kinds, K), "month" \notin K,
         NEW v \in DOMAIN kinds, kinds[v] # "month", Gone(r.text, kinds, v)
  PROVE  Gone(Passed(r, kinds, "month").text, kinds, v)
  <1> DEFINE k == "month"
             t == r.text
             ms == ValuesOf(t, kinds, k)
  <1>1. r \in Results /\ Traced(t, kinds) /\ Ranged(t, kinds) /\ t \in Seq(Chars)
    BY DEF Exactly, Results
  <1>2. k \in Marks
    BY DEF Marks
  <1>3. kinds[v] # k
    OBVIOUS
  <1> HIDE DEF k
  <1>4. Placed(ms, Len(t))
    BY <1>1, ValuesArePlaced
  <1>5. ASSUME NEW j \in DOMAIN t, t[j].value # 0, kinds[t[j].value] # k
        PROVE  Outside(ms, 0, j)
    <2>1. \A i \in DOMAIN ms : ~(ms[i][1] <= j /\ j <= ms[i][2])
      BY <1>1, <1>5, MatchedIsValue
    <2>2. DOMAIN t = 1 .. Len(t) /\ Len(t) \in Nat
      BY <1>1, LenProperties
    <2> HIDE DEF ms
    <2> QED
      BY <2>1, <2>2, <1>4 DEF Outside
  <1>6. Gone(FromTheRight(r, k, ms).text, kinds, v)
    <2> HIDE DEF ms
    <2> QED
      BY <1>1, <1>2, <1>3, <1>4, <1>5, PassLeaves DEF t
  <1> QED
    BY <1>6 DEF Passed, k, t, ms

(* The positions taken from the last entities change nothing that counts.    *)
LEMMA NoPositionIsExact ==
  ASSUME NEW kinds, NEW r, NEW K, Exactly(r, kinds, K), NEW n
  PROVE  Exactly(NoPosition(r, n), kinds, K) /\ NoPosition(r, n).text = r.text
  <1> DEFINE es == r.entities
             fs == [i \in DOMAIN es |-> IF i <= n THEN es[i] ELSE [es[i] EXCEPT !.start = -1]]
             s == NoPosition(r, n)
  <1>1. r \in Results /\ es \in Seq(Entities)
    BY DEF Exactly, Results
  <1>2. r = [text |-> r.text, entities |-> es]
    BY <1>1 DEF Results
  <1>3. s.text = r.text /\ s.entities = fs
    BY <1>2 DEF NoPosition
  <1>4. s \in Results
    BY <1>1, NoPositionIsResult
  <1> HIDE DEF s
  <1>5. Counting(fs) = Counting(es)
    <2>1. ASSUME NEW i \in DOMAIN es
          PROVE  fs[i].kind = es[i].kind
      <3>1. es[i] \in Entities
        BY <1>1, ElementOfSeq
      <3>2. [es[i] EXCEPT !.start = -1].kind = es[i].kind
        BY <3>1 DEF Entities
      <3> QED
        BY <3>2
    <2>2. DOMAIN fs = DOMAIN es
      OBVIOUS
    <2> HIDE DEF fs, es
    <2> QED
      BY <2>1, <2>2 DEF Counting
  <1> QED
    BY <1>3, <1>4, <1>5 DEF Exactly, s

(* The engine is exact: every value is replaced, each of the others stays,   *)
(* and of the names that stand apart nothing is left if they were asked for. *)
LEMMA RedactionIsExactly ==
  ASSUME NEW kinds \in Seq(Kinds), NEW names \in BOOLEAN,
         Cardinality(Values(kinds, {"bareSsn"})) <= 1,
         Cardinality(Values(kinds, {"card"})) <= 1
  PROVE  LET x == RedactPii(kinds, names)
         IN  /\ Exactly(x, kinds, Replaced)
             /\ names /\ Apart(kinds) =>
                  \A v \in DOMAIN kinds : InName(kinds, v) => Gone(x.text, kinds, v)
  <1> DEFINE start == [text |-> Text(kinds), entities |-> <<>>]
  <1>1. Exactly(start, kinds, {}) /\ Standing(start.text, kinds)
    BY StartIsExact
  <1> HIDE DEF start
  <1> DEFINE e == Passed(start, kinds, "email")
             d == Passed(e, kinds, "date")
             s == Passed(d, kinds, "ssn")
             o == FromTheRight(s, "orphan",
                    Matches(s.text, [p \in DOMAIN s.text |->
                      {q \in p..Len(s.text) : IsOrphan(s.text, kinds, p, q)}]))
             b == Passed(o, kinds, "bareSsn")
             c == Passed(b, kinds, "card")
             h == FromTheRight(c, "bridge",
                    Matches(c.text, [p \in DOMAIN c.text |->
                      {q \in p..Len(c.text) : IsBridge(c.text, kinds, p, q)}]))
             w == IF ~names THEN h ELSE FromTheRight(h, "name", NamesOf(h.text, kinds))
             m == Passed(w, kinds, "month")
             K1 == {} \cup {"email"}
             K2 == K1 \cup {"date"}
             K3 == K2 \cup {"ssn"}
             K4 == K3 \cup {"bareSsn"}
             K5 == K4 \cup {"card"}
             K6 == K5 \cup {"month"}
  <1>2. K6 = Replaced
    BY DEF Replaced
  <1>3. /\ "email" \notin {} /\ "date" \notin K1 /\ "ssn" \notin K2
        /\ "bareSsn" \notin K3 /\ "card" \notin K4 /\ "month" \notin K5
        /\ "word" \notin K3 /\ "word" \notin K5
    OBVIOUS
  <1>4. {"email", "date", "ssn", "bareSsn", "card", "month"} \subseteq Replaced
    BY DEF Replaced
  <1> HIDE DEF K1, K2, K3, K4, K5, K6
  <1>5. Exactly(e, kinds, K1) /\ Standing(e.text, kinds)
    <2>1. start \in Results
      BY <1>1 DEF Exactly
    <2> QED
      BY <1>1, <1>3, <1>4, <2>1, PassIsExact, ValuesAreNoNames DEF K1
  <1> HIDE DEF e
  <1>6. Exactly(d, kinds, K2) /\ Standing(d.text, kinds)
    <2>1. e \in Results
      BY <1>5 DEF Exactly
    <2> QED
      BY <1>3, <1>4, <1>5, <2>1, PassIsExact, ValuesAreNoNames DEF K2
  <1> HIDE DEF d
  <1>7. Exactly(s, kinds, K3) /\ Standing(s.text, kinds)
    <2>1. d \in Results
      BY <1>6 DEF Exactly
    <2> QED
      BY <1>3, <1>4, <1>6, <2>1, PassIsExact, ValuesAreNoNames DEF K3
  <1> HIDE DEF s
  <1>8. Exactly(o, kinds, K3) /\ Standing(o.text, kinds)
    BY <1>3, <1>7, OrphansPass
  <1>9. PatternPass(start, kinds) = o
    <2>1. Patterned(start, kinds) = s
      <3>1. start \in Results
        BY <1>1 DEF Exactly
      <3> QED
        BY <3>1, PatternedIs DEF e, d, s
    <2> QED
      BY <2>1 DEF PatternPass, Patterned
  <1> HIDE DEF o
  <1>10. Exactly(b, kinds, K4) /\ Standing(b.text, kinds)
    <2>1. o \in Results
      BY <1>8 DEF Exactly
    <2> QED
      BY <1>3, <1>4, <1>8, <2>1, PassIsExact, ValuesAreNoNames DEF K4
  <1>11. Supplemented(o, kinds, "bareSsn") = b
    <2>1. o \in Results /\ Traced(o.text, kinds)
      BY <1>8 DEF Exactly
    <2> QED
      BY <2>1, SupplementIsPass
  <1> HIDE DEF b
  <1>12. Exactly(c, kinds, K5) /\ Standing(c.text, kinds)
    <2>1. b \in Results
      BY <1>10 DEF Exactly
    <2> QED
      BY <1>3, <1>4, <1>10, <2>1, PassIsExact, ValuesAreNoNames DEF K5
  <1>13. Supplemented(b, kinds, "card") = c
    <2>1. b \in Results /\ Traced(b.text, kinds)
      BY <1>10 DEF Exactly
    <2> QED
      BY <2>1, SupplementIsPass
  <1> HIDE DEF c
  <1>14. SupplementPass(o, kinds) = c
    <2>1. o \in Results
      BY <1>8 DEF Exactly
    <2> QED
      BY <1>11, <1>13, <2>1, SupplementedIs
  <1>15. Exactly(h, kinds, K5) /\ Standing(h.text, kinds)
    BY <1>3, <1>12, BridgesPass
  <1>16. PostPass(c, kinds, names) = NoPosition(m, Len(c.entities))
    BY DEF PostPass, NamesOf, Passed
  <1> HIDE DEF h
  <1>17. /\ Exactly(w, kinds, K5)
         /\ names /\ Apart(kinds) =>
              \A v \in DOMAIN kinds : InName(kinds, v) => Gone(w.text, kinds, v)
    <2>1. CASE names
      BY <1>3, <1>15, <2>1, NamesPass
    <2>2. CASE ~names
      BY <1>15, <2>2
    <2> QED
      BY <2>1, <2>2
  <1> HIDE DEF w
  <1>18. Exactly(m, kinds, K6)
    BY <1>3, <1>4, <1>17, PassIsExact DEF K6
  <1>19. ASSUME names, Apart(kinds), NEW v \in DOMAIN kinds, InName(kinds, v)
         PROVE  Gone(m.text, kinds, v)
    <2>1. kinds[v] # "month"
      BY <1>19 DEF InName
    <2>2. Gone(w.text, kinds, v)
      BY <1>17, <1>19
    <2> QED
      BY <1>3, <1>17, <2>1, <2>2, MonthsPass
  <1> HIDE DEF m
  <1>20. RedactPii(kinds, names) = NoPosition(m, Len(c.entities))
    BY <1>9, <1>14, <1>16 DEF RedactPii, start
  <1> QED
    BY <1>2, <1>18, <1>19, <1>20, NoPositionIsExact
-----------------------------------------------------------------------------
(* What is left of a value in a text.                                       *)
Left(text, v) == {c \in Range(text) : c.value = v}

(* Of a whole value all its characters are left, of one that is gone its   *)
(* keyword.                                                                *)
LEMMA LeftOfValue ==
  ASSUME NEW kinds \in Seq(Kinds), NEW text, Traced(text, kinds), Ranged(text, kinds),
         NEW v \in DOMAIN kinds
  PROVE  /\ Whole(text, kinds, v) =>
              Left(text, v) = {Char(v, j) : j \in 1..Width(kinds[v])}
         /\ Gone(text, kinds, v) =>
              Left(text, v) = {Char(v, j) : j \in 1..Keyword(kinds[v])}
  <1>1. /\ text \in Seq(Chars) /\ DOMAIN text = 1 .. Len(text) /\ Len(text) \in Nat
        /\ v \in Nat /\ v # 0
    BY LenProperties DEF Traced
  <1>2. Width(kinds[v]) \in 1 .. 3 /\ Keyword(kinds[v]) \in 0 .. 1
    BY WidthsAre
  <1>3. \A c \in Left(text, v) :
          \E i \in DOMAIN text : c = text[i] /\ c.value = v /\ c \in Chars
    BY <1>1, ElementOfSeq DEF Left, Range
  <1>4. \A c \in Left(text, v) : c = Char(v, c.at)
    BY <1>3 DEF Chars, Char
  <1>5. \A i \in DOMAIN text : \A j : text[i] = Char(v, j) => Char(v, j) \in Left(text, v)
    BY DEF Left, Range, Char
  <1>6. ASSUME Whole(text, kinds, v)
        PROVE  Left(text, v) = {Char(v, j) : j \in 1..Width(kinds[v])}
    <2> DEFINE w == Width(kinds[v])
    <2>1. PICK p \in 1 .. Len(text) : WholeAt(text, kinds, v, p)
      BY <1>6 DEF Whole
    <2>2. /\ p + w - 1 <= Len(text)
          /\ \A j \in 0 .. w - 1 : text[p + j] = Char(v, j + 1)
      BY <2>1 DEF WholeAt
    <2>3. w \in 1 .. 3
      BY <1>2
    <2>4. \A c \in Left(text, v) : c.at \in 1 .. w
      BY <1>1, <1>3 DEF Ranged
    <2> HIDE DEF w
    <2>5. ASSUME NEW j \in 1 .. w
          PROVE  Char(v, j) \in Left(text, v)
      <3>1. j - 1 \in 0 .. w - 1 /\ j - 1 + 1 = j /\ p + (j - 1) \in 1 .. Len(text)
        BY <1>1, <2>2, <2>3
      <3>2. text[p + (j - 1)] = Char(v, j)
        BY <2>2, <3>1
      <3> QED
        BY <1>1, <1>5, <3>1, <3>2
    <2>6. Left(text, v) = {Char(v, j) : j \in 1..w}
      BY <1>4, <2>4, <2>5
    <2> QED
      BY <2>6 DEF w
  <1>7. ASSUME Gone(text, kinds, v)
        PROVE  Left(text, v) = {Char(v, j) : j \in 1..Keyword(kinds[v])}
    <2> DEFINE y == Keyword(kinds[v])
    <2>1. \A c \in Left(text, v) : c.at \in 1 .. y
      BY <1>3, <1>7 DEF Gone
    <2>2. \A j \in 1 .. y : Char(v, j) \in Left(text, v)
      BY <1>5, <1>7 DEF Gone
    <2> HIDE DEF y
    <2>3. Left(text, v) = {Char(v, j) : j \in 1..y}
      BY <1>4, <2>1, <2>2
    <2> QED
      BY <2>3 DEF y
  <1> QED
    BY <1>6, <1>7

(* A part of a document: its kinds, and what the hypotheses say of them.    *)
LEMMA PartOfDocument ==
  ASSUME NEW doc \in Documents, NEW i \in DOMAIN doc.parts
  PROVE  /\ doc.names \in BOOLEAN
         /\ doc.parts[i].kinds \in Seq(Kinds)
         /\ Single(doc.parts[i]) =>
              /\ Cardinality(Values(doc.parts[i].kinds, {"bareSsn"})) <= 1
              /\ Cardinality(Values(doc.parts[i].kinds, {"card"})) <= 1
         /\ NamesApart(doc, doc.parts[i]) /\ doc.names => Apart(doc.parts[i].kinds)
  <1>1. doc.names \in BOOLEAN /\ doc.parts \in Seq([place : STRING, kinds : Seq(Kinds)])
    BY DEF Documents
  <1>2. doc.parts[i] \in [place : STRING, kinds : Seq(Kinds)]
    BY <1>1, LenProperties, ElementOfSeq
  <1> DEFINE kinds == doc.parts[i].kinds
  <1>3. kinds \in Seq(Kinds)
    BY <1>2
  <1>4. \A k : Values(kinds, {k}) = {v \in DOMAIN kinds : kinds[v] = k}
    BY DEF Values
  <1>5. "bareSsn" \in Range(Supplements) /\ "card" \in Range(Supplements)
    <2>1. 1 \in DOMAIN Supplements /\ Supplements[1] = "bareSsn"
          /\ 2 \in DOMAIN Supplements /\ Supplements[2] = "card"
      BY DEF Supplements
    <2> QED
      BY <2>1 DEF Range
  <1>6. Single(doc.parts[i]) => \A k \in Range(Supplements) : Cardinality(Values(kinds, {k})) <= 1
    BY <1>4 DEF Single
  <1>7. NamesApart(doc, doc.parts[i]) /\ doc.names => Apart(kinds)
    BY DEF NamesApart, Apart
  <1> HIDE DEF kinds
  <1>8. /\ Single(doc.parts[i]) => /\ Cardinality(Values(kinds, {"bareSsn"})) <= 1
                                   /\ Cardinality(Values(kinds, {"card"})) <= 1
    BY <1>5, <1>6
  <1> QED
    BY <1>1, <1>3, <1>7, <1>8 DEF kinds

(* Each part is redacted exactly.                                           *)
LEMMA PartIsExact ==
  ASSUME NEW doc \in Documents, NEW i \in DOMAIN doc.parts,
         Single(doc.parts[i]), NamesApart(doc, doc.parts[i]),
         NEW out, out.texts = Apply(doc).texts
  PROVE  Exact(doc, out, i)
  <1> DEFINE kinds == doc.parts[i].kinds
             text == out.texts[i]
             walked == Walked(doc.parts[i])
  <1>1. /\ doc.names \in BOOLEAN
        /\ kinds \in Seq(Kinds)
        /\ Cardinality(Values(kinds, {"bareSsn"})) <= 1
        /\ Cardinality(Values(kinds, {"card"})) <= 1
        /\ doc.names => Apart(kinds)
    BY PartOfDocument
  <1>2. text = IF walked THEN RedactPii(kinds, doc.names).text ELSE Text(kinds)
    <2> DEFINE Part(j) == IF Walked(doc.parts[j])
                          THEN RedactPii(doc.parts[j].kinds, doc.names)
                          ELSE [text |-> Text(doc.parts[j].kinds), entities |-> <<>>]
               parts == [j \in DOMAIN doc.parts |-> Part(j)]
    <2>1. Apply(doc).texts = [j \in DOMAIN parts |-> parts[j].text]
      BY DEF Apply
    <2>2. Apply(doc).texts[i] = Part(i).text
      BY <2>1
    <2> QED
      BY <2>2
  <1>3. \A v \in DOMAIN kinds : Sensitive(doc, kinds, v) <=>
          \/ kinds[v] \notin {"refused", "word"}
          \/ doc.names /\ InName(kinds, v)
    BY DEF Sensitive
  <1>4. \A v \in DOMAIN kinds : /\ InName(kinds, v) => kinds[v] = "word"
                                /\ kinds[v] \notin {"refused", "word"} <=> kinds[v] \in Replaced
    <2>1. Sought(kinds) = Values(kinds, Replaced)
      BY <1>1, SoughtAreReplaced
    <2> QED
      BY <2>1 DEF InName, Sought, Values
  <1> HIDE DEF kinds, text, walked
  <1>5. ASSUME NEW v \in DOMAIN kinds
        PROVE  IF walked /\ Sensitive(doc, kinds, v)
               THEN Left(text, v) = {Char(v, j) : j \in 1..Keyword(kinds[v])}
               ELSE kinds[v] = "word" \/ Left(text, v) = {Char(v, j) : j \in 1..Width(kinds[v])}
    <2>1. CASE walked
      <3> DEFINE r == RedactPii(kinds, doc.names)
      <3>1. /\ Exactly(r, kinds, Replaced)
            /\ doc.names => \A u \in DOMAIN kinds : InName(kinds, u) => Gone(r.text, kinds, u)
        BY <1>1, RedactionIsExactly
      <3>2. text = r.text
        BY <1>2, <2>1
      <3> HIDE DEF r
      <3>3. /\ Traced(text, kinds) /\ Ranged(text, kinds)
            /\ kinds[v] \in Replaced => Gone(text, kinds, v)
            /\ kinds[v] \notin Replaced \cup {"word"} => Whole(text, kinds, v)
        BY <3>1, <3>2 DEF Exactly
      <3>4. CASE Sensitive(doc, kinds, v)
        <4>1. Gone(text, kinds, v)
          BY <1>3, <1>4, <3>1, <3>2, <3>3, <3>4
        <4> QED
          BY <1>1, <2>1, <3>3, <3>4, <4>1, LeftOfValue
      <3>5. CASE ~Sensitive(doc, kinds, v)
        <4>1. kinds[v] = "word" \/ Whole(text, kinds, v)
          BY <1>3, <1>4, <3>3, <3>5
        <4> QED
          BY <1>1, <3>3, <3>5, <4>1, LeftOfValue
      <3> QED
        BY <3>4, <3>5
    <2>2. CASE ~walked
      <3> DEFINE s == [text |-> Text(kinds), entities |-> <<>>]
      <3>1. Exactly(s, kinds, {}) /\ s.text = text
        BY <1>1, <1>2, <2>2, StartIsExact
      <3> HIDE DEF s
      <3>2. /\ Traced(text, kinds) /\ Ranged(text, kinds)
            /\ kinds[v] # "word" => Whole(text, kinds, v)
        BY <3>1 DEF Exactly
      <3> QED
        BY <1>1, <2>2, <3>2, LeftOfValue
    <2> QED
      BY <2>1, <2>2
  <1>6. \A v \in DOMAIN kinds :
          IF walked /\ Sensitive(doc, kinds, v)
          THEN Left(text, v) = {Char(v, j) : j \in 1..Keyword(kinds[v])}
          ELSE kinds[v] = "word" \/ Left(text, v) = {Char(v, j) : j \in 1..Width(kinds[v])}
    BY <1>5
  <1> QED
    BY <1>6 DEF Exact, Left, kinds, text, walked

-----------------------------------------------------------------------------
(* What is counted of two lists together.                                   *)
LEMMA CountingBoth ==
  ASSUME NEW x \in Seq(Entities), NEW y \in Seq(Entities)
  PROVE  /\ Cardinality(Counting(x \o y)) =
              Cardinality(Counting(x)) + Cardinality(Counting(y))
         /\ Cardinality(Counting(x)) \in Nat /\ Cardinality(Counting(y)) \in Nat
  <1> DEFINE n == Len(x)
             m == Len(y)
             A == Counting(x)
             B == Counting(y)
             C == {n + j : j \in B}
             g == [j \in B |-> n + j]
  <1>1. /\ n \in Nat /\ m \in Nat /\ DOMAIN x = 1 .. n /\ DOMAIN y = 1 .. m
        /\ DOMAIN (x \o y) = 1 .. n + m
        /\ \A j \in 1 .. n + m : (x \o y)[j] = IF j <= n THEN x[j] ELSE y[j - n]
    BY ConcatProperties, LenProperties
  <1> HIDE DEF n, m
  <1>2. A \subseteq 1 .. n /\ B \subseteq 1 .. m
    BY <1>1 DEF Counting
  <1>3. IsFiniteSet(A) /\ IsFiniteSet(B)
    <2>1. IsFiniteSet(1 .. n) /\ IsFiniteSet(1 .. m)
      BY <1>1, FS_Interval
    <2> HIDE DEF A, B
    <2> QED
      BY <1>2, <2>1, FS_Subset
  <1>4. Counting(x \o y) = A \cup C
    <2>1. ASSUME NEW i \in Counting(x \o y)
          PROVE  i \in A \cup C
      <3>1. i \in 1 .. n + m /\ (x \o y)[i].kind \in Replaced
        BY <1>1 DEF Counting
      <3>2. CASE i <= n
        <4>1. i \in DOMAIN x /\ x[i].kind \in Replaced
          BY <1>1, <3>1, <3>2
        <4> QED
          BY <4>1 DEF Counting
      <3>3. CASE ~(i <= n)
        <4>1. i - n \in DOMAIN y /\ y[i - n].kind \in Replaced /\ i = n + (i - n)
          BY <1>1, <3>1, <3>3
        <4>2. i - n \in B
          BY <4>1 DEF Counting
        <4> HIDE DEF B
        <4> QED
          BY <4>1, <4>2
      <3> QED
        BY <3>2, <3>3
    <2>2. ASSUME NEW i \in A
          PROVE  i \in Counting(x \o y)
      <3>1. i \in 1 .. n /\ x[i].kind \in Replaced
        BY <1>1 DEF Counting
      <3>2. i \in 1 .. n + m /\ i <= n
        BY <1>1, <3>1
      <3>3. i \in DOMAIN (x \o y) /\ (x \o y)[i].kind \in Replaced
        BY <1>1, <3>1, <3>2
      <3> QED
        BY <3>3 DEF Counting
    <2>3. ASSUME NEW j \in B
          PROVE  n + j \in Counting(x \o y)
      <3>1. j \in 1 .. m /\ y[j].kind \in Replaced
        BY <1>1 DEF Counting
      <3>2. n + j \in 1 .. n + m /\ ~(n + j <= n) /\ (n + j) - n = j
        BY <1>1, <3>1
      <3>3. n + j \in DOMAIN (x \o y) /\ (x \o y)[n + j].kind \in Replaced
        BY <1>1, <3>1, <3>2
      <3> QED
        BY <3>3 DEF Counting
    <2> HIDE DEF A, B
    <2> QED
      BY <2>1, <2>2, <2>3
  <1> HIDE DEF A, B
  <1>5. A \cap C = {}
    <2>1. ASSUME NEW j \in B, n + j \in A
          PROVE  FALSE
      <3>1. j \in 1 .. m /\ n + j \in 1 .. n
        BY <1>2, <2>1
      <3> QED
        BY <1>1, <3>1
    <2> QED
      BY <2>1
  <1>6. g \in Bijection(B, C)
    <2>1. g \in [B -> C] /\ \A c \in C : \E j \in B : g[j] = c
      OBVIOUS
    <2>2. \A i, j \in B : g[i] = g[j] => i = j
      <3>1. \A j \in B : j \in Nat /\ g[j] = n + j
        BY <1>1, <1>2
      <3> HIDE DEF g
      <3> QED
        BY <1>1, <3>1
    <2> QED
      BY <2>1, <2>2 DEF Bijection, Injection, Surjection, IsInjective
  <1>7. IsFiniteSet(C) /\ Cardinality(C) = Cardinality(B)
    BY <1>3, <1>6, FS_Bijection DEF ExistsBijection
  <1> HIDE DEF C, g
  <1>8. Cardinality(A \cup C) = Cardinality(A) + Cardinality(C) - Cardinality(A \cap C)
    BY <1>3, <1>7, FS_Union
  <1>9. Cardinality(A \cap C) = 0 /\ Cardinality(A) \in Nat /\ Cardinality(B) \in Nat
    BY <1>3, <1>5, FS_EmptySet, FS_CardinalityType
  <1>10. Cardinality(Counting(x \o y)) = Cardinality(A) + Cardinality(B)
    BY <1>4, <1>7, <1>8, <1>9
  <1> QED
    BY <1>9, <1>10 DEF A, B
-----------------------------------------------------------------------------
(* Every value of a document is recorded, once.                             *)
LEMMA ValuesAreRecorded ==
  ASSUME NEW doc \in Documents, \A i \in DOMAIN doc.parts : Single(doc.parts[i])
  PROVE  LET es == Apply(doc).entities
         IN  Cardinality(Found(doc)) =
               Cardinality({i \in DOMAIN es : es[i].kind \notin {"bridge", "orphan", "name"}})
  <1> DEFINE n == Len(doc.parts)
             Of(i) == doc.parts[i].kinds
             Part(i) == IF Walked(doc.parts[i])
                        THEN RedactPii(Of(i), doc.names)
                        ELSE [text |-> Text(Of(i)), entities |-> <<>>]
             lists == [i \in DOMAIN doc.parts |-> Part(i).entities]
             T(i) == IF Walked(doc.parts[i]) THEN Sought(Of(i)) ELSE {}
             es == Apply(doc).entities
  <1>1. doc.parts \in Seq([place : STRING, kinds : Seq(Kinds)])
    BY DEF Documents
  <1>2. n \in Nat /\ DOMAIN doc.parts = 1 .. n
    BY <1>1, LenProperties
  <1>3. ASSUME NEW i \in 1 .. n
        PROVE  /\ lists[i] \in Seq(Entities)
               /\ Cardinality(Counting(lists[i])) = Cardinality(T(i))
    <2> DEFINE kinds == Of(i)
               r == RedactPii(kinds, doc.names)
    <2>1. /\ doc.names \in BOOLEAN
          /\ kinds \in Seq(Kinds)
          /\ Cardinality(Values(kinds, {"bareSsn"})) <= 1
          /\ Cardinality(Values(kinds, {"card"})) <= 1
      BY <1>2, PartOfDocument
    <2>2. lists[i] = Part(i).entities
      BY <1>2
    <2>3. CASE Walked(doc.parts[i])
      <3>1. lists[i] = r.entities /\ T(i) = Sought(kinds)
        BY <2>2, <2>3
      <3> HIDE DEF r, kinds, lists, T
      <3>2. Exactly(r, kinds, Replaced)
        BY <2>1, RedactionIsExactly DEF r
      <3>3. T(i) = Values(kinds, Replaced)
        BY <2>1, <3>1, SoughtAreReplaced
      <3> QED
        BY <3>1, <3>2, <3>3 DEF Exactly, Results
    <2>4. CASE ~Walked(doc.parts[i])
      <3>1. lists[i] = <<>> /\ T(i) = {}
        BY <2>2, <2>4
      <3> HIDE DEF lists, T
      <3>2. <<>> \in Seq(Entities) /\ DOMAIN <<>> = {}
        OBVIOUS
      <3>3. Counting(lists[i]) = {}
        BY <3>1, <3>2 DEF Counting
      <3> QED
        BY <3>1, <3>2, <3>3
    <2> QED
      BY <2>3, <2>4
  <1>4. es = FlattenSeq(lists)
    <2> DEFINE parts == [i \in DOMAIN doc.parts |-> Part(i)]
    <2>1. es = FlattenSeq([i \in DOMAIN parts |-> parts[i].entities])
      BY DEF Apply
    <2>2. [i \in DOMAIN parts |-> parts[i].entities] = lists
      OBVIOUS
    <2> QED
      BY <2>1, <2>2
  <1>5. lists = [i \in 1 .. n |-> lists[i]]
    BY <1>2
  <1> HIDE DEF lists, Part, es
  <1>6. lists \in Seq(Seq(Entities)) /\ Len(lists) = n
    <2>1. lists \in [1 .. n -> Seq(Entities)]
      BY <1>3, <1>5
    <2> HIDE DEF n
    <2> QED
      BY <1>2, <2>1
  <1>7. PICK a : /\ a \in [0 .. n -> Seq(Entities)]
                 /\ a[0] = <<>> /\ a[n] = es
                 /\ \A i \in 1 .. n : a[i] = a[i - 1] \o lists[i]
    <2>1. PICK a : /\ a \in [0 .. Len(lists) -> Seq(Entities)]
                   /\ a[0] = <<>> /\ a[Len(lists)] = FlattenSeq(lists)
                   /\ \A i \in 1 .. Len(lists) : a[i] = a[i - 1] \o lists[i]
      BY <1>6, FlattenSteps
    <2> QED
      BY <1>4, <1>6, <2>1
  <1> DEFINE Good(x, i) == /\ IsFiniteSet(FoundIn(doc, i))
                           /\ Cardinality(Counting(x)) = Cardinality(FoundIn(doc, i))
             U == {i \in 0 .. n : Good(a[i], i)}
  <1>8. 0 \in U
    <2>1. FoundIn(doc, 0) = {}
      <3>1. \A f \in Found(doc) : f[1] \in 1 .. n
        BY FoundIsPairs
      <3>2. \A x \in 1 .. n : ~(x <= 0)
        BY <1>2
      <3> QED
        BY <3>1, <3>2 DEF FoundIn
    <2>2. IsFiniteSet({})
      BY FS_EmptySet
    <2>3. Counting(<<>>) = {} /\ 0 \in 0 .. n
      BY <1>2 DEF Counting
    <2>4. Good(<<>>, 0)
      BY <2>1, <2>2, <2>3
    <2> HIDE DEF Good
    <2> QED
      BY <1>7, <2>3, <2>4
  <1>9. ASSUME NEW i \in 1 .. n, i - 1 \in U
        PROVE  i \in U
    <2> DEFINE x == a[i - 1]
               y == lists[i]
               A == FoundIn(doc, i - 1)
               B == FoundIn(doc, i)
               S == T(i)
    <2>1. i \in 0 .. n /\ i - 1 \in 0 .. n
      BY <1>2
    <2>2. /\ x \in Seq(Entities) /\ y \in Seq(Entities)
          /\ a[i] = x \o y /\ Good(x, i - 1)
      BY <1>3, <1>7, <1>9, <2>1
    <2>3. /\ IsFiniteSet(B)
          /\ Cardinality(B) = Cardinality(A) + Cardinality(S)
      BY <2>2, FoundInMore
    <2>4. Cardinality(Counting(y)) = Cardinality(S)
      BY <1>3
    <2>5. Cardinality(Counting(x)) = Cardinality(A)
      BY <2>2
    <2> HIDE DEF x, y, A, B, S
    <2>6. Cardinality(Counting(x \o y)) = Cardinality(Counting(x)) + Cardinality(Counting(y))
      BY <2>2, CountingBoth
    <2>7. Good(x \o y, i)
      BY <2>3, <2>4, <2>5, <2>6 DEF B
    <2> HIDE DEF Good
    <2> QED
      BY <2>1, <2>2, <2>7
  <1>10. Good(es, n)
    <2> HIDE DEF U, Good
    <2>1. \A i \in 0 .. n : i \in U
      BY <1>2, <1>8, <1>9, Upward
    <2>2. n \in 0 .. n
      BY <1>2
    <2> QED
      BY <1>7, <2>1, <2>2 DEF U
  <1>11. FoundIn(doc, n) = Found(doc)
    <2>1. \A f \in Found(doc) : f[1] \in 1 .. n
      BY FoundIsPairs
    <2>2. \A x \in 1 .. n : x <= n
      BY <1>2
    <2> QED
      BY <2>1, <2>2 DEF FoundIn
  <1>12. Counting(es) = {i \in DOMAIN es : es[i].kind \notin {"bridge", "orphan", "name"}}
    <2>1. es \in Seq(Entities)
      <3>1. n \in 0 .. n
        BY <1>2
      <3> QED
        BY <1>7, <3>1
    <2>2. \A i \in DOMAIN es : es[i].kind \in Marks
      <3>1. \A i \in DOMAIN es : es[i] \in Entities
        BY <2>1, LenProperties, ElementOfSeq
      <3> QED
        BY <3>1 DEF Entities
    <2>3. \A k \in Marks : k \in Replaced <=> k \notin {"bridge", "orphan", "name"}
      BY DEF Marks, Replaced
    <2> QED
      BY <2>2, <2>3 DEF Counting
  <1> QED
    BY <1>10, <1>11, <1>12 DEF es
-----------------------------------------------------------------------------
(* What agent 1 made is what the engine makes of the document.             *)
LEMMA EarnedIsExact ==
  ASSUME EvidenceInv, AskedInv, EarnedInv
  PROVE  RedactionExact
  <1>1. ASSUME NEW r \in Runs, pc[r] = "orchestrate",
               \A i \in DOMAIN case[r].doc.parts :
                 Single(case[r].doc.parts[i]) /\ NamesApart(case[r].doc, case[r].doc.parts[i])
        PROVE  /\ \A i \in DOMAIN case[r].doc.parts : Exact(case[r].doc, work[r], i)
               /\ Cardinality(Found(case[r].doc)) =
                    Cardinality({i \in DOMAIN work[r].entities :
                      work[r].entities[i].kind \notin {"bridge", "orphan", "name"}})
    <2>1. case[r] # None
      <3>1. AskedAt(pc[r], work[r], case[r])
        BY DEF AskedInv
      <3> QED
        BY <1>1, <3>1 DEF AskedAt
    <2>2. case[r].doc \in Documents
      BY <2>1, DocumentsAssumption DEF EvidenceInv, Typed
    <2>3. /\ work[r].texts = Apply(case[r].doc).texts
          /\ work[r].entities = Apply(case[r].doc).entities
      <3>1. EarnedAt(pc[r], work[r], stored[r], case[r])
        BY DEF EarnedInv
      <3> QED
        BY <1>1, <3>1 DEF EarnedAt
    <2> DEFINE doc == case[r].doc
    <2>4. \A i \in DOMAIN doc.parts : Single(doc.parts[i]) /\ NamesApart(doc, doc.parts[i])
      BY <1>1
    <2> HIDE DEF doc
    <2>5. doc \in Documents /\ work[r].texts = Apply(doc).texts
          /\ work[r].entities = Apply(doc).entities
      BY <2>2, <2>3 DEF doc
    <2>6. \A i \in DOMAIN doc.parts : Exact(doc, work[r], i)
      BY <2>4, <2>5, PartIsExact
    <2>7. Cardinality(Found(doc)) =
            Cardinality({i \in DOMAIN work[r].entities :
              work[r].entities[i].kind \notin {"bridge", "orphan", "name"}})
      BY <2>4, <2>5, ValuesAreRecorded
    <2> QED
      BY <2>6, <2>7 DEF doc
  <1> QED
    BY <1>1 DEF RedactionExact

(* What agent 1 hands on is exact (agents/redaction/engine.py): in every     *)
(* part that has at most one number for each supplement and whose names      *)
(* stand apart, nothing the rules name is left and nothing else is lost, and  *)
(* every value is recorded, for texts of every length, documents of every     *)
(* number of parts, and every interleaving of runs.                          *)
THEOREM RedactionIsExact == Spec => []RedactionExact
  <1>1. Init => EvidenceInv /\ AskedInv /\ EarnedInv
    <2>1. ASSUME Init
          PROVE  EarnedInv
      BY <2>1 DEF Init, EarnedInv, EarnedAt, Alone, Together, Proving
    <2>2. Init => AskedInv
      BY DEF Init, AskedInv, AskedAt
    <2> QED
      BY <2>1, <2>2, StartsEvidence
  <1>2. EvidenceInv /\ AskedInv /\ EarnedInv /\ [Next]_vars
          => EvidenceInv' /\ AskedInv' /\ EarnedInv'
    BY NextKeepsEvidence, NextKeepsAsked, NextEarns
  <1>3. EvidenceInv /\ AskedInv /\ EarnedInv => RedactionExact
    BY EarnedIsExact
  <1> QED
    BY <1>1, <1>2, <1>3, PTL DEF Spec
=============================================================================
