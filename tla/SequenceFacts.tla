--------------------------- MODULE SequenceFacts ---------------------------
(* Facts about sequences that the proofs of several modules cite. *)
EXTENDS Integers, Subsequences, WellFoundedInduction, SequenceTheorems,
        FunctionTheorems, FiniteSetTheorems, TLAPS

\* A sequence with its elements known is the one that Append makes.
LEMMA AppendElements ==
  ASSUME NEW S, NEW s \in Seq(S), NEW t \in Seq(S), NEW e \in S,
         Len(t) = Len(s) + 1, \A i \in 1..Len(s) : t[i] = s[i], t[Len(t)] = e
  PROVE  Append(s, e) = t
<1>1. Append(s, e) \in Seq(S) /\ Len(Append(s, e)) = Len(t)
  BY AppendProperties
<1>2. \A i \in 1..Len(t) : Append(s, e)[i] = t[i]
  BY AppendProperties
<1>3. QED
  BY <1>1, <1>2, SeqEqual

\* A tuple of n elements with one more appended
LEMMA Append0 == \A a : Append(<<>>, a) = <<a>>
OBVIOUS

LEMMA Append1 ==
  ASSUME NEW a, NEW b
  PROVE  Append(<<a>>, b) = <<a, b>>
<1> DEFINE S == {a, b}
           s == <<a>>
           t == <<a, b>>
<1>1. s \in Seq(S) /\ t \in Seq(S) /\ b \in S
  OBVIOUS
<1>2. Len(t) = Len(s) + 1 /\ t[Len(t)] = b
  OBVIOUS
<1>3. \A i \in 1..Len(s) : t[i] = s[i]
  OBVIOUS
<1> HIDE DEF S, s, t
<1>4. Append(s, b) = t
  BY <1>1, <1>2, <1>3, AppendElements
<1>5. QED
  BY <1>4 DEF s, t

LEMMA Append2 ==
  ASSUME NEW a, NEW b, NEW c
  PROVE  Append(<<a, b>>, c) = <<a, b, c>>
<1> DEFINE S == {a, b, c}
           s == <<a, b>>
           t == <<a, b, c>>
<1>1. s \in Seq(S) /\ t \in Seq(S) /\ c \in S
  OBVIOUS
<1>2. Len(t) = Len(s) + 1 /\ t[Len(t)] = c
  OBVIOUS
<1>3. \A i \in 1..Len(s) : t[i] = s[i]
  OBVIOUS
<1> HIDE DEF S, s, t
<1>4. Append(s, c) = t
  BY <1>1, <1>2, <1>3, AppendElements
<1>5. QED
  BY <1>4 DEF s, t

LEMMA Append3 ==
  ASSUME NEW a, NEW b, NEW c, NEW d
  PROVE  Append(<<a, b, c>>, d) = <<a, b, c, d>>
<1> DEFINE S == {a, b, c, d}
           s == <<a, b, c>>
           t == <<a, b, c, d>>
<1>1. s \in Seq(S) /\ t \in Seq(S) /\ d \in S
  OBVIOUS
<1>2. Len(t) = Len(s) + 1 /\ t[Len(t)] = d
  OBVIOUS
<1>3. \A i \in 1..Len(s) : t[i] = s[i]
  OBVIOUS
<1> HIDE DEF S, s, t
<1>4. Append(s, d) = t
  BY <1>1, <1>2, <1>3, AppendElements
<1>5. QED
  BY <1>4 DEF s, t

LEMMA Append4 ==
  ASSUME NEW a, NEW b, NEW c, NEW d, NEW e
  PROVE  Append(<<a, b, c, d>>, e) = <<a, b, c, d, e>>
<1> DEFINE S == {a, b, c, d, e}
           s == <<a, b, c, d>>
           t == <<a, b, c, d, e>>
<1>1. s \in Seq(S) /\ t \in Seq(S) /\ e \in S
  OBVIOUS
<1>2. Len(t) = Len(s) + 1 /\ t[Len(t)] = e
  OBVIOUS
<1>3. \A i \in 1..Len(s) : t[i] = s[i]
  OBVIOUS
<1> HIDE DEF S, s, t
<1>4. Append(s, e) = t
  BY <1>1, <1>2, <1>3, AppendElements
<1>5. QED
  BY <1>4 DEF s, t
-----------------------------------------------------------------------------
(* Taking elements out of a sequence *)

\* Ranks count up from 1.
LEMMA RankGrows ==
  ASSUME NEW S \in SUBSET Nat, IsFiniteSet(S)
  PROVE  /\ \A i \in S : Rank(S, i) \in 1 .. Cardinality(S)
         /\ \A i, k \in S : i < k => Rank(S, i) < Rank(S, k)
<1>. DEFINE Upto(i) == {j \in S : j <= i}
<1>1. \A i \in S : /\ IsFiniteSet(Upto(i)) /\ Cardinality(Upto(i)) \in Nat
                   /\ Cardinality(Upto(i)) <= Cardinality(S)
                   /\ Cardinality(Upto(i)) # 0
  <2>. TAKE i \in S
  <2>1. Upto(i) \in SUBSET S /\ i \in Upto(i)
    OBVIOUS
  <2>. HIDE DEF Upto
  <2>2. IsFiniteSet(Upto(i)) /\ Cardinality(Upto(i)) <= Cardinality(S)
    BY <2>1, FS_Subset
  <2>. QED  BY <2>1, <2>2, FS_CardinalityType, FS_EmptySet
<1>2. Cardinality(S) \in Nat
  BY FS_CardinalityType
<1>3. ASSUME NEW i \in S, NEW k \in S, i < k
      PROVE  Cardinality(Upto(i)) < Cardinality(Upto(k))
  <2>0. i \in Nat /\ k \in Nat
    OBVIOUS
  <2>1. Upto(i) \in SUBSET (Upto(k) \ {k}) /\ k \in Upto(k)
    <3>1. k \in Upto(k)
      BY <2>0
    <3>2. ASSUME NEW j \in Upto(i) PROVE j \in Upto(k) /\ j # k
      <4>1. j \in Nat /\ j \in S /\ j <= i
        OBVIOUS
      <4>. QED  BY <4>1, <2>0, <1>3
    <3>. QED  BY <3>1, <3>2
  <2>. HIDE DEF Upto
  <2>2. IsFiniteSet(Upto(k) \ {k}) /\ Cardinality(Upto(k) \ {k}) = Cardinality(Upto(k)) - 1
    BY <1>1, <2>1, FS_RemoveElement
  <2>3. Cardinality(Upto(i)) <= Cardinality(Upto(k) \ {k})
    BY <2>1, <2>2, FS_Subset
  <2>. QED  BY <1>1, <2>2, <2>3
<1>4. \A i : Rank(S, i) = Cardinality(Upto(i))
  BY DEF Rank
<1>. HIDE DEF Upto
<1>. QED  BY <1>1, <1>2, <1>3, <1>4

\* The place of the k-th element, for every k.
LEMMA RankReaches ==
  ASSUME NEW S \in SUBSET Nat, IsFiniteSet(S), NEW k \in 1 .. Cardinality(S)
  PROVE  \E i \in S : Rank(S, i) = k
<1>. DEFINE T == 1 .. Cardinality(S)
            f == [i \in S |-> Rank(S, i)]
<1>1. Cardinality(S) \in Nat /\ IsFiniteSet(T) /\ Cardinality(T) = Cardinality(S)
  BY FS_CardinalityType, FS_Interval
<1>2. f \in [S -> T] /\ \A a, b \in S : f[a] = f[b] => a = b
  BY RankGrows
<1>3. f \in Injection(S, T)
  <2>. HIDE DEF f, T
  <2>. QED  BY <1>2, Fun_IsInj
<1>4. f \in Surjection(S, T)
  <2>. HIDE DEF f, T
  <2>. QED  BY <1>1, <1>3, FS_Injection
<1>5. \E i \in S : f[i] = k
  <2>1. k \in T
    OBVIOUS
  <2>. HIDE DEF f, T
  <2>2. \A t \in T : \E i \in S : f[i] = t
    BY <1>4, Fun_SurjectionProperties, Zenon
  <2>. QED  BY <2>1, <2>2
<1>. QED  BY <1>5

\* f gives the places of S in their order.
Places(S, n, f) ==
  /\ n \in Nat /\ f \in [1 .. n -> S]
  /\ \A i, k \in 1 .. n : i < k => f[i] < f[k]
  /\ \A j \in S : \E k \in 1 .. n : f[k] = j

\* The elements of s at the first n places that f gives
Along(s, n, f) == [k \in 1 .. n |-> s[f[k]]]

LEMMA SubsequencePlaces ==
  ASSUME NEW S \in SUBSET Nat, IsFiniteSet(S), NEW s
  PROVE  \E f : /\ Places(S, Cardinality(S), f)
                /\ Subsequence(s, S) = Along(s, Cardinality(S), f)
<1>. DEFINE n == Cardinality(S)
            f == [k \in 1 .. n |-> CHOOSE i \in S : Rank(S, i) = k]
<1>1. n \in Nat
  BY FS_CardinalityType
<1>2. \A k \in 1 .. n : f[k] \in S /\ Rank(S, f[k]) = k
  BY RankReaches
<1>3. \A j \in S : Rank(S, j) \in 1 .. n
  BY RankGrows
<1>4. Subsequence(s, S) = Along(s, n, f)
  BY DEF Subsequence, Along
<1>5. f \in [1 .. n -> S]
  <2>1. f = [k \in 1 .. n |-> f[k]]
    OBVIOUS
  <2>. HIDE DEF f
  <2>. QED  BY <1>2, <2>1
<1>. HIDE DEF n, f
<1>6. \A i, j \in S : Rank(S, i) = Rank(S, j) => i = j
  BY RankGrows
<1>7. \A i, k \in 1 .. n : i < k => f[i] < f[k]
  <2>. SUFFICES ASSUME NEW i \in 1 .. n, NEW k \in 1 .. n, i < k, ~(f[i] < f[k])
                PROVE  FALSE
    OBVIOUS
  <2>1. f[i] \in S /\ f[k] \in S
    BY <1>2
  <2>4. f[i] \in Nat /\ f[k] \in Nat
    BY <2>1
  <2>3. f[k] <= f[i]
    BY <2>4
  <2>5. f[k] < f[i] => Rank(S, f[k]) < Rank(S, f[i])
    BY <2>1, RankGrows
  <2>2. Rank(S, f[k]) <= Rank(S, f[i])
    BY <2>1, <2>3, <2>4, <2>5, <1>1, <1>2
  <2>. QED  BY <1>2, <2>2
<1>8. \A j \in S : \E k \in 1 .. n : f[k] = j
  BY <1>2, <1>3, <1>6
<1>9. Places(S, n, f)
  BY <1>1, <1>5, <1>7, <1>8 DEF Places
<1>. QED  BY <1>4, <1>9 DEF n

\* Whoever knows the places in their order knows the subsequence.
LEMMA SubsequenceBy ==
  ASSUME NEW S \in SUBSET Nat, NEW n, NEW f, Places(S, n, f), NEW s
  PROVE  /\ IsFiniteSet(S) /\ Cardinality(S) = n
         /\ Subsequence(s, S) = Along(s, n, f)
<1>1. /\ n \in Nat /\ f \in [1 .. n -> S]
      /\ \A i, k \in 1 .. n : i < k => f[i] < f[k]
      /\ \A j \in S : \E k \in 1 .. n : f[k] = j
  BY DEF Places
<1>2. \A i, k \in 1 .. n : /\ f[i] \in Nat /\ f[k] \in Nat
                           /\ f[i] <= f[k] <=> i <= k
                           /\ f[i] = f[k] => i = k
  <2>. TAKE i, k \in 1 .. n
  <2>1. f[i] \in Nat /\ f[k] \in Nat
    BY <1>1
  <2>2. i < k => f[i] < f[k]
    BY <1>1
  <2>3. k < i => f[k] < f[i]
    BY <1>1
  <2>4. i = k => f[k] = f[i]
    OBVIOUS
  <2>. QED  BY <2>1, <2>2, <2>3, <2>4, <1>1
<1>3. \A k \in 0 .. n : /\ IsFiniteSet({f[i] : i \in 1 .. k})
                        /\ Cardinality({f[i] : i \in 1 .. k}) = k
  <2>. TAKE k \in 0 .. n
  <2>. DEFINE D == 1 .. k
              T == {f[i] : i \in D}
              g == [i \in D |-> f[i]]
  <2>1. k \in Nat /\ D \subseteq 1 .. n
    BY <1>1
  <2>2. IsFiniteSet(D) /\ Cardinality(D) = k
    BY <2>1, FS_Interval
  <2>3. g \in [D -> T] /\ (\A a, b \in D : g[a] = g[b] => a = b) /\ \A t \in T : \E d \in D : g[d] = t
    BY <1>2, <2>1
  <2>4. g \in Bijection(D, T)
    <3>. HIDE DEF D, T, g
    <3>. QED  BY <2>3, Fun_IsBij
  <2>5. ExistsBijection(D, T)
    <3>. HIDE DEF D, T, g
    <3>. QED  BY <2>4 DEF ExistsBijection
  <2>. HIDE DEF D, T
  <2>6. IsFiniteSet(T) /\ Cardinality(T) = k
    BY <2>2, <2>5, FS_Bijection
  <2>. QED  BY <2>6 DEF D, T
<1>4. S = {f[i] : i \in 1 .. n}
  BY <1>1
<1>5. IsFiniteSet(S) /\ Cardinality(S) = n
  <2>1. n \in 0 .. n
    BY <1>1
  <2>. QED  BY <2>1, <1>3, <1>4, Zenon
<1>6. ASSUME NEW k \in 1 .. n
      PROVE  Rank(S, f[k]) = k
  <2>1. {j \in S : j <= f[k]} = {f[i] : i \in 1 .. k}
    <3>1. ASSUME NEW j \in S, j <= f[k] PROVE j \in {f[i] : i \in 1 .. k}
      <4>1. PICK i \in 1 .. n : f[i] = j
        BY <1>1
      <4>2. i <= k
        BY <1>2, <3>1, <4>1
      <4>. QED  BY <4>1, <4>2, <1>1
    <3>2. ASSUME NEW i \in 1 .. k PROVE f[i] \in S /\ f[i] <= f[k]
      <4>1. i \in 1 .. n /\ i <= k
        BY <1>1
      <4>. QED  BY <4>1, <1>1, <1>2
    <3>. QED  BY <3>1, <3>2
  <2>2. k \in 0 .. n
    BY <1>1
  <2>3. Cardinality({f[i] : i \in 1 .. k}) = k
    BY <2>2, <1>3, Zenon
  <2>. QED  BY <2>1, <2>3, Zenon DEF Rank
<1>7. ASSUME NEW k \in 1 .. n
      PROVE  (CHOOSE i \in S : Rank(S, i) = k) = f[k]
  <2>1. f[k] \in S /\ Rank(S, f[k]) = k
    BY <1>1, <1>6
  <2>2. \A i \in S : Rank(S, i) = k => i = f[k]
    <3>. TAKE i \in S
    <3>1. PICK l \in 1 .. n : f[l] = i
      BY <1>1
    <3>. QED  BY <3>1, <1>6
  <2>. QED  BY <2>1, <2>2
<1>8. Subsequence(s, S) = [k \in 1 .. n |-> s[CHOOSE i \in S : Rank(S, i) = k]]
  BY <1>5, Zenon DEF Subsequence
<1>9. [k \in 1 .. n |-> s[CHOOSE i \in S : Rank(S, i) = k]] = Along(s, n, f)
  <2>. DEFINE c(k) == CHOOSE i \in S : Rank(S, i) = k
  <2>1. \A k \in 1 .. n : c(k) = f[k]
    BY <1>7
  <2>. HIDE DEF c
  <2>2. [k \in 1 .. n |-> s[c(k)]] = Along(s, n, f)
    BY <2>1 DEF Along
  <2>. QED  BY <2>2 DEF c
<1>. QED  BY <1>5, <1>8, <1>9, Zenon

\* Taking elements out of a sequence makes a sequence of those elements.
LEMMA SubsequenceSeq ==
  ASSUME NEW X, NEW s \in Seq(X), NEW S \in SUBSET (1 .. Len(s))
  PROVE  /\ IsFiniteSet(S)
         /\ Subsequence(s, S) \in Seq(X)
         /\ Len(Subsequence(s, S)) = Cardinality(S)
         /\ Cardinality(S) \in Nat /\ Cardinality(S) <= Len(s)
         /\ \A k \in 1 .. Cardinality(S) : \E i \in S : Subsequence(s, S)[k] = s[i]
         /\ \A i \in S : \E k \in 1 .. Cardinality(S) : Subsequence(s, S)[k] = s[i]
<1>1. Len(s) \in Nat /\ s \in [1 .. Len(s) -> X]
  OBVIOUS
<1>2. IsFiniteSet(1 .. Len(s)) /\ Cardinality(1 .. Len(s)) = Len(s)
  <2>. DEFINE m == Len(s)
  <2>1. m \in Nat
    BY <1>1
  <2>. HIDE DEF m
  <2>2. IsFiniteSet(1 .. m) /\ Cardinality(1 .. m) = m
    BY <2>1, FS_Interval
  <2>. QED  BY <2>2 DEF m
<1>3. IsFiniteSet(S) /\ Cardinality(S) <= Len(s)
  BY <1>2, FS_Subset
<1>4. S \in SUBSET Nat
  BY <1>1
<1>. DEFINE n == Cardinality(S)
<1>5. PICK f : Places(S, n, f) /\ Subsequence(s, S) = Along(s, n, f)
  BY <1>3, <1>4, SubsequencePlaces
<1>. HIDE DEF n
<1>6. /\ n \in Nat /\ f \in [1 .. n -> S]
      /\ \A j \in S : \E k \in 1 .. n : f[k] = j
  BY <1>5 DEF Places
<1>. DEFINE q == Along(s, n, f)
<1>7. \A k \in 1 .. n : q[k] = s[f[k]] /\ f[k] \in S /\ s[f[k]] \in X
  BY <1>1, <1>6 DEF Along
<1>8. q \in Seq(X) /\ Len(q) = n
  BY <1>6, <1>7 DEF Along
<1>9. \A k \in 1 .. n : \E i \in S : q[k] = s[i]
  BY <1>7
<1>10. \A i \in S : \E k \in 1 .. n : q[k] = s[i]
  BY <1>6, <1>7
<1>. HIDE DEF q
<1>11. Subsequence(s, S) = q
  BY <1>5 DEF q
<1>. QED  BY <1>3, <1>6, <1>8, <1>9, <1>10, <1>11 DEF n

\* The first n elements
LEMMA SubsequenceFirst ==
  ASSUME NEW n \in Nat, NEW s
  PROVE  Subsequence(s, 1 .. n) = [k \in 1 .. n |-> s[k]]
<1>. DEFINE f == [k \in 1 .. n |-> k]
<1>1. Places(1 .. n, n, f)
  BY DEF Places
<1>2. 1 .. n \in SUBSET Nat
  OBVIOUS
<1>3. \A k \in 1 .. n : f[k] = k
  OBVIOUS
<1>. HIDE DEF f
<1>4. Subsequence(s, 1 .. n) = Along(s, n, f)
  BY <1>1, <1>2, SubsequenceBy, Zenon
<1>5. Along(s, n, f) = [k \in 1 .. n |-> s[k]]
  BY <1>3 DEF Along
<1>. QED  BY <1>4, <1>5

\* A longer sequence at the same places
LEMMA SubsequenceOfPrefix ==
  ASSUME NEW S \in SUBSET Nat, IsFiniteSet(S), NEW s, NEW t, \A i \in S : s[i] = t[i]
  PROVE  Subsequence(s, S) = Subsequence(t, S)
<1>. DEFINE n == Cardinality(S)
<1>1. PICK f : Places(S, n, f) /\ Subsequence(s, S) = Along(s, n, f)
  BY SubsequencePlaces, Zenon
<1>2. Subsequence(t, S) = Along(t, n, f)
  BY <1>1, SubsequenceBy
<1>3. \A k \in 1 .. n : f[k] \in S
  BY <1>1 DEF Places
<1>4. \A k \in 1 .. n : s[f[k]] = t[f[k]]
  BY <1>3
<1>. HIDE DEF n
<1>5. Along(s, n, f) = Along(t, n, f)
  BY <1>4 DEF Along
<1>. QED  BY <1>1, <1>2, <1>5

\* One more place behind all others
LEMMA SubsequenceLast ==
  ASSUME NEW X, NEW s \in Seq(X), NEW i \in 1 .. Len(s),
         NEW S \in SUBSET (1 .. Len(s)), \A j \in S : j < i
  PROVE  Subsequence(s, S \cup {i}) = Append(Subsequence(s, S), s[i])
<1>1. /\ Len(s) \in Nat /\ S \in SUBSET Nat /\ S \cup {i} \in SUBSET Nat
      /\ S \cup {i} \in SUBSET (1 .. Len(s)) /\ s[i] \in X
  OBVIOUS
<1>2. IsFiniteSet(S)
  BY SubsequenceSeq
<1>. DEFINE n == Cardinality(S)
<1>3. PICK f : Places(S, n, f) /\ Subsequence(s, S) = Along(s, n, f)
  BY <1>1, <1>2, SubsequencePlaces, Zenon
<1>. HIDE DEF n
<1>4. /\ n \in Nat /\ f \in [1 .. n -> S]
      /\ \A j, k \in 1 .. n : j < k => f[j] < f[k]
      /\ \A j \in S : \E k \in 1 .. n : f[k] = j
  BY <1>3 DEF Places
<1>. DEFINE g == [k \in 1 .. n + 1 |-> IF k = n + 1 THEN i ELSE f[k]]
<1>5. g[n + 1] = i /\ \A k \in 1 .. n : g[k] = f[k] /\ f[k] \in S /\ f[k] < i
  <2>1. g[n + 1] = i /\ \A k \in 1 .. n : g[k] = f[k]
    BY <1>4
  <2>. HIDE DEF g
  <2>. QED  BY <2>1, <1>4
<1>6. g \in [1 .. n + 1 -> S \cup {i}]
  BY <1>4
<1>. HIDE DEF g
<1>7. \A j, k \in 1 .. n + 1 : j < k => g[j] < g[k]
  <2>. TAKE j, k \in 1 .. n + 1
  <2>. HAVE j < k
  <2>1. j \in 1 .. n
    BY <1>4
  <2>2. CASE k = n + 1
    BY <2>1, <2>2, <1>5
  <2>3. CASE k \in 1 .. n
    BY <2>1, <2>3, <1>4, <1>5
  <2>. QED  BY <2>2, <2>3, <1>4
<1>8. \A j \in S \cup {i} : \E k \in 1 .. n + 1 : g[k] = j
  <2>1. \A k \in 1 .. n : k \in 1 .. n + 1
    BY <1>4
  <2>2. n + 1 \in 1 .. n + 1
    BY <1>4
  <2>. QED  BY <2>1, <2>2, <1>4, <1>5
<1>9. Places(S \cup {i}, n + 1, g)
  BY <1>4, <1>6, <1>7, <1>8 DEF Places
<1>. DEFINE q == Along(s, n, f)
            r == Along(s, n + 1, g)
<1>10. Subsequence(s, S \cup {i}) = r
  BY <1>1, <1>9, SubsequenceBy, Zenon
<1>16. \A j \in S \cup {i} : s[j] \in X
  BY <1>1
<1>11. \A k \in 1 .. n : s[f[k]] \in X
  BY <1>4, <1>16
<1>12. q \in Seq(X) /\ Len(q) = n
  BY <1>4, <1>11 DEF Along
<1>13. \A k \in 1 .. n + 1 : s[g[k]] \in X
  BY <1>6, <1>16
<1>14. r \in Seq(X) /\ Len(r) = n + 1
  BY <1>4, <1>13 DEF Along
<1>15. /\ \A k \in 1 .. n : r[k] = q[k]
       /\ r[n + 1] = s[i]
  BY <1>4, <1>5 DEF Along
<1>. HIDE DEF q, r
<1>17. Append(q, s[i]) = r
  BY <1>1, <1>12, <1>14, <1>15, AppendElements
<1>. QED  BY <1>3, <1>10, <1>17 DEF q

\* Choosing by value among elements that were taken out is choosing among the
\* places they were taken from.
LEMMA SubsequenceOfSubsequence ==
  ASSUME NEW X, NEW s \in Seq(X), NEW S \in SUBSET (1 .. Len(s)),
         NEW q, q = Subsequence(s, S),
         NEW T \in SUBSET (1 .. Len(q)), NEW U \in SUBSET S,
         \A k \in 1 .. Len(q), i \in S : q[k] = s[i] => (k \in T <=> i \in U)
  PROVE  Subsequence(q, T) = Subsequence(s, U)
<1>. DEFINE n == Cardinality(S)
<1>1. IsFiniteSet(S) /\ n \in Nat /\ Len(q) = n /\ S \in SUBSET Nat
  <2>1. IsFiniteSet(S) /\ Cardinality(S) \in Nat /\ Len(Subsequence(s, S)) = Cardinality(S)
    BY SubsequenceSeq
  <2>2. S \in SUBSET Nat
    OBVIOUS
  <2>. QED  BY <2>1, <2>2
<1>. HIDE DEF n
<1>2. PICK f : Places(S, n, f) /\ q = Along(s, n, f)
  BY <1>1, SubsequencePlaces, Zenon DEF n
<1>3. /\ f \in [1 .. n -> S]
      /\ \A j, k \in 1 .. n : j < k => f[j] < f[k]
      /\ \A j \in S : \E k \in 1 .. n : f[k] = j
  BY <1>2 DEF Places
<1>4. \A k \in 1 .. n : q[k] = s[f[k]]
  BY <1>2 DEF Along
<1>5. T \in SUBSET (1 .. n) /\ T \in SUBSET Nat /\ IsFiniteSet(T)
  <2>1. T \in SUBSET (1 .. n) /\ T \in SUBSET Nat
    BY <1>1
  <2>2. IsFiniteSet(1 .. n)
    BY <1>1, FS_Interval
  <2>. QED  BY <2>1, <2>2, FS_Subset
<1>. DEFINE m == Cardinality(T)
<1>6. m \in Nat
  BY <1>5, FS_CardinalityType
<1>. HIDE DEF m
<1>7. PICK g : Places(T, m, g) /\ Subsequence(q, T) = Along(q, m, g)
  BY <1>5, SubsequencePlaces, Zenon DEF m
<1>8. /\ g \in [1 .. m -> T]
      /\ \A j, k \in 1 .. m : j < k => g[j] < g[k]
      /\ \A j \in T : \E k \in 1 .. m : g[k] = j
  BY <1>7 DEF Places
<1>9. \A k \in 1 .. m : g[k] \in 1 .. n
  BY <1>1, <1>8
<1>. DEFINE h == [k \in 1 .. m |-> f[g[k]]]
<1>10. \A k \in 1 .. m : h[k] = f[g[k]] /\ f[g[k]] \in U
  <2>. TAKE k \in 1 .. m
  <2>1. g[k] \in T /\ g[k] \in 1 .. n /\ f[g[k]] \in S /\ q[g[k]] = s[f[g[k]]]
    BY <1>3, <1>4, <1>8, <1>9
  <2>2. f[g[k]] \in U
    BY <1>1, <2>1
  <2>. QED  BY <2>2
<1>11. h \in [1 .. m -> U]
  BY <1>10
<1>. HIDE DEF h
<1>12. \A j, k \in 1 .. m : j < k => h[j] < h[k]
  BY <1>3, <1>8, <1>9, <1>10
<1>13. ASSUME NEW i \in U PROVE \E k \in 1 .. m : h[k] = i
  <2>1. PICK l \in 1 .. n : f[l] = i
    BY <1>3
  <2>2. l \in T
    BY <1>1, <1>4, <2>1
  <2>3. PICK k \in 1 .. m : g[k] = l
    BY <1>8, <2>2
  <2>. QED  BY <1>10, <2>1, <2>3
<1>14. Places(U, m, h)
  BY <1>6, <1>11, <1>12, <1>13 DEF Places
<1>15. U \in SUBSET Nat
  BY <1>1
<1>16. Subsequence(s, U) = Along(s, m, h)
  BY <1>14, <1>15, SubsequenceBy, Zenon
<1>17. \A k \in 1 .. m : q[g[k]] = s[h[k]]
  BY <1>4, <1>9, <1>10
<1>18. Along(q, m, g) = Along(s, m, h)
  BY <1>17 DEF Along
<1>19. Subsequence(q, T) = Subsequence(s, U)
  BY <1>7, <1>16, <1>18, Zenon
<1>. QED  BY <1>19

\* The k-th place has rank k.
LEMMA RankOfPlace ==
  ASSUME NEW S \in SUBSET Nat, NEW n, NEW f, Places(S, n, f), NEW k \in 1 .. n
  PROVE  Rank(S, f[k]) = k
<1>1. /\ n \in Nat /\ f \in [1 .. n -> S]
      /\ \A i, j \in 1 .. n : i < j => f[i] < f[j]
      /\ \A j \in S : \E i \in 1 .. n : f[i] = j
  BY DEF Places
<1>2. \A i \in 1 .. n : f[i] \in S /\ f[i] \in Nat
  BY <1>1
<1>. DEFINE T == {j \in S : j <= f[k]}
            g == [i \in 1 .. k |-> f[i]]
<1>3. k \in Nat /\ \A i \in 1 .. k : i \in 1 .. n /\ g[i] = f[i] /\ i <= k
  BY <1>1
<1>4. \A i \in 1 .. k : g[i] \in T
  <2>. TAKE i \in 1 .. k
  <2>1. i = k \/ f[i] < f[k]
    BY <1>1, <1>3
  <2>. QED  BY <1>2, <1>3, <2>1
<1>5. T \in SUBSET Nat
  BY <1>2
<1>6. \A i \in T : \E l \in 1 .. k : g[l] = i
  <2>. TAKE i \in T
  <2>1. PICK l \in 1 .. n : f[l] = i
    BY <1>1
  <2>2. ~(k < l)
    BY <1>1, <1>2, <2>1
  <2>3. l \in 1 .. k
    BY <1>1, <1>3, <2>2
  <2>. QED  BY <1>3, <2>1, <2>3
<1>. HIDE DEF T
<1>7. g \in [1 .. k -> T]
  BY <1>4
<1>. HIDE DEF g
<1>8. Places(T, k, g)
  BY <1>1, <1>3, <1>6, <1>7 DEF Places
<1>9. Cardinality(T) = k
  BY <1>5, <1>8, SubsequenceBy
<1>. QED  BY <1>9 DEF Rank, T

-----------------------------------------------------------------------------
(* Induction and recursion over the naturals.  The library's theorems take  *)
(* a predicate; these take the set of the numbers it is true of.           *)

\* Induction over the naturals, for a set of them
LEMMA Induction ==
  ASSUME NEW S, 0 \in S, \A n \in Nat : n \in S => n + 1 \in S
  PROVE  \A n \in Nat : n \in S
<1>. DEFINE T == Nat \ S
            R == OpToRel(<, Nat)
<1>1. SUFFICES ASSUME T # {} PROVE FALSE
  OBVIOUS
<1>2. IsWellFoundedOn(R, Nat)
  BY NatLessThanWellFounded
<1>3. PICK n \in T : \A m \in T : <<m, n>> \notin R
  <2>. HIDE DEF R, T
  <2>1. T \subseteq Nat
    BY DEF T
  <2>. QED  BY <1>1, <1>2, <2>1, WFMin, Zenon
<1>4. \A m \in T : ~(m < n)
  BY <1>3 DEF OpToRel
<1>5. n # 0 /\ n - 1 \in Nat /\ n - 1 \notin T
  BY <1>4
<1>. QED  BY <1>5

\* For a set of some naturals from the first one on
LEMMA InductionUpTo ==
  ASSUME NEW m \in Nat, NEW S, 0 \in S, \A n \in 0..m - 1 : n \in S => n + 1 \in S
  PROVE  \A n \in 0..m : n \in S
<1>. DEFINE T == {n \in Nat : n <= m => n \in S}
<1>1. 0 \in T /\ \A n \in Nat : n \in T => n + 1 \in T
  OBVIOUS
<1>2. \A n \in Nat : n \in T
  <2>. HIDE DEF T
  <2>. QED  BY <1>1, Induction
<1>. QED  BY <1>2

\* A function on 0..m is determined by its first value and its steps.
Steps(f, m, base, step) ==
  /\ f[0] = base
  /\ \A n \in 0..m - 1 : f[n + 1] = step[n][f[n]]

LEMMA StepsDetermine ==
  ASSUME NEW m \in Nat, NEW base, NEW step, NEW f, Steps(f, m, base, step),
         NEW g, Steps(g, m, base, step)
  PROVE  \A n \in 0..m : f[n] = g[n]
<1>. DEFINE S == {n \in 0..m : f[n] = g[n]}
<1>1. 0 \in S /\ \A n \in 0..m - 1 : n \in S => n + 1 \in S
  BY DEF Steps
<1>2. \A n \in 0..m : n \in S
  <2>. HIDE DEF S
  <2>. QED  BY <1>1, InductionUpTo
<1>. QED  BY <1>2

LEMMA StepsExist ==
  ASSUME NEW m \in Nat, NEW D, NEW base \in D, NEW step,
         \A n \in 0..m - 1 : \A d \in D : step[n][d] \in D
  PROVE  \E f \in [0..m -> D] : Steps(f, m, base, step)
<1>. DEFINE Good(k) == \E f \in [0..k -> D] : Steps(f, k, base, step)
            S == {k \in 0..m : Good(k)}
<1>1. Good(0)
  <2>. DEFINE f == [i \in 0..0 |-> base]
  <2>1. f \in [0..0 -> D] /\ Steps(f, 0, base, step)
    BY DEF Steps
  <2>. QED  BY <2>1
<1>2. ASSUME NEW k \in 0..m - 1, Good(k) PROVE Good(k + 1)
  <2>1. PICK f \in [0..k -> D] : Steps(f, k, base, step)
    BY <1>2
  <2>. DEFINE g == [i \in 0..k + 1 |-> IF i <= k THEN f[i] ELSE step[k][f[k]]]
  <2>2. f[k] \in D /\ step[k][f[k]] \in D
    OBVIOUS
  <2>3. g \in [0..k + 1 -> D]
    BY <2>2
  <2>4. \A i \in 0..k : g[i] = f[i]
    OBVIOUS
  <2>5. g[k + 1] = step[k][f[k]]
    OBVIOUS
  <2>. HIDE DEF g
  <2>6. Steps(g, k + 1, base, step)
    <3>1. g[0] = base
      BY <2>1, <2>4 DEF Steps
    <3>2. ASSUME NEW n \in 0..(k + 1) - 1 PROVE g[n + 1] = step[n][g[n]]
      <4>1. CASE n = k
        BY <2>4, <2>5, <4>1
      <4>2. CASE n # k
        <5>1. n \in 0..k - 1 /\ n + 1 \in 0..k /\ n \in 0..k
          BY <4>2
        <5>. QED  BY <2>1, <2>4, <5>1 DEF Steps
      <4>. QED  BY <4>1, <4>2
    <3>. QED  BY <3>1, <3>2 DEF Steps
  <2>. QED  BY <2>3, <2>6
<1>3. 0 \in S /\ \A k \in 0..m - 1 : k \in S => k + 1 \in S
  <2>. HIDE DEF Good
  <2>. QED  BY <1>1, <1>2
<1>4. \A k \in 0..m : k \in S
  <2>. HIDE DEF S
  <2>. QED  BY <1>3, InductionUpTo
<1>. QED  BY <1>4

-----------------------------------------------------------------------------
(***************************************************************************)
(* Sequences known by their length and their elements                      *)
(***************************************************************************)
HasLength(s, m) == m \in Nat /\ s = [i \in 1..m |-> s[i]]

LEMMA LengthOf ==
  ASSUME NEW s, NEW m, HasLength(s, m)
  PROVE  /\ Len(s) = m /\ DOMAIN s = 1..m /\ m \in Nat
         /\ \A S : (\A i \in 1..m : s[i] \in S) => s \in Seq(S)
<1>. DEFINE S == {s[i] : i \in 1..m}
            f == [i \in 1..m |-> s[i]]
<1>1. m \in Nat /\ s = f
  BY DEF HasLength
<1>2. ASSUME NEW T, \A i \in 1..m : s[i] \in T PROVE f \in Seq(T)
  BY <1>1, <1>2, IsASeq
<1>3. f \in Seq(S)
  BY <1>2
<1>4. Len(f) = m /\ DOMAIN f = 1..m
  <2>1. f \in Seq(S) /\ DOMAIN f = 1..m
    BY <1>3
  <2>. HIDE DEF f, S
  <2>2. Len(f) \in Nat /\ DOMAIN f = 1..Len(f)
    BY <2>1, LenProperties
  <2>. QED  BY <1>1, <2>1, <2>2
<1>. HIDE DEF f
<1>. QED  BY <1>1, <1>2, <1>4

LEMMA LengthMakes ==
  ASSUME NEW S, NEW s \in Seq(S)
  PROVE  HasLength(s, Len(s))
BY DEF HasLength

LEMMA LengthSame ==
  ASSUME NEW s, NEW t, NEW m, HasLength(s, m), HasLength(t, m), \A i \in 1..m : s[i] = t[i]
  PROVE  s = t
BY DEF HasLength

Joins(u, s, t) == u = s \o t

Cuts(u, s, a, b) == u = SubSeq(s, a, b)

LEMMA LengthConcat ==
  ASSUME NEW s, NEW m, HasLength(s, m), NEW t, NEW n, HasLength(t, n), NEW u, Joins(u, s, t)
  PROVE  /\ HasLength(u, m + n)
         /\ \A i \in 1..m : u[i] = s[i]
         /\ \A i \in 1..n : u[m + i] = t[i]
<1>. DEFINE S == {s[i] : i \in 1..m} \cup {t[i] : i \in 1..n}
<1>1. /\ s \in Seq(S) /\ t \in Seq(S) /\ Len(s) = m /\ Len(t) = n /\ m \in Nat /\ n \in Nat
  <2>1. (\A i \in 1..m : s[i] \in S) /\ (\A i \in 1..n : t[i] \in S)
    OBVIOUS
  <2>. HIDE DEF S
  <2>. QED  BY <2>1, LengthOf
<1>. HIDE DEF S
<1>2. /\ s \o t \in Seq(S) /\ Len(s \o t) = m + n
      /\ \A i \in 1..m + n : (s \o t)[i] = IF i <= m THEN s[i] ELSE t[i - m]
  BY <1>1, ConcatProperties
<1>3. /\ u \in Seq(S) /\ Len(u) = m + n
      /\ \A i \in 1..m + n : u[i] = IF i <= m THEN s[i] ELSE t[i - m]
  BY <1>2 DEF Joins
<1>4. HasLength(u, m + n)
  BY <1>3, LengthMakes
<1>5. ASSUME NEW i \in 1..n PROVE u[m + i] = t[i]
  <2>1. m + i \in 1..m + n /\ ~(m + i <= m) /\ (m + i) - m = i
    BY <1>1
  <2>. QED  BY <1>3, <2>1
<1>6. \A i \in 1..m : u[i] = s[i]
  BY <1>1, <1>3
<1>. QED  BY <1>4, <1>5, <1>6

LEMMA LengthSubSeq ==
  ASSUME NEW s, NEW m, HasLength(s, m), NEW a \in 1..m + 1, NEW b \in a - 1..m
  PROVE  /\ HasLength(SubSeq(s, a, b), b - a + 1)
         /\ \A i \in 1..b - a + 1 : SubSeq(s, a, b)[i] = s[a + i - 1]
<1>1. m \in Nat
  BY DEF HasLength
<1>2. SubSeq(s, a, b) = [i \in 1..b - a + 1 |-> s[a + i - 1]]
  BY <1>1
<1>3. b - a + 1 \in Nat
  BY <1>1
<1>. QED  BY <1>2, <1>3 DEF HasLength

LEMMA LengthMade ==
  ASSUME NEW m \in Nat, NEW f, NEW s, s = [i \in 1..m |-> f[i]]
  PROVE  HasLength(s, m)
BY DEF HasLength
=============================================================================
