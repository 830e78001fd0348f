----------------------------- MODULE OnionProofs -----------------------------
(***************************************************************************)
(* Proofs that an onion of any route that fits is read by all of its hops, *)
(* hop by hop, and by nobody else, for every packet and HMAC size.         *)
(*                                                                         *)
(* The argument: the offsets of the layers are sums (Offsets, LayersFit);  *)
(* the filler after k rounds is what the zeros of the first k hops become  *)
(* (FillerFacts); so a layer that ends with the filler of its own place    *)
(* ends that way at every hop (EndingKept), and taking it off yields the   *)
(* packet inside it byte for byte (OpenedFacts, WrapsPeel).                *)
(***************************************************************************)
EXTENDS Onion, SequenceFacts

Layers == Len(hops)
Length(k) == OnionPayloadLength(hops[k])

\* The route and the sizes of its layers
LEMMA RouteFacts ==
    ASSUME hops \in Routes
    PROVE  /\ Layers \in Nat
           /\ \A k \in 1..Layers :
                 /\ hops[k].length \in Nat
                 /\ BigSizeLength(hops[k].length) \in {1, 3}
                 /\ Length(k) \in Nat \ {0}
                 /\ Length(k) = BigSizeLength(hops[k].length) + hops[k].length + HMACSize
<1>1. hops \in Seq([node : Nodes, length : Nat])
  BY RoutesAssumption
<1>2. Layers \in Nat /\ \A k \in 1..Layers : hops[k] \in [node : Nodes, length : Nat]
  BY <1>1, LenProperties, ElementOfSeq DEF Layers
<1>3. ASSUME NEW k \in 1..Layers
      PROVE  /\ hops[k].length \in Nat
             /\ BigSizeLength(hops[k].length) \in {1, 3}
  BY <1>2 DEF BigSizeLength
<1>4. ASSUME NEW k \in 1..Layers
      PROVE  /\ Length(k) \in Nat \ {0}
             /\ Length(k) = BigSizeLength(hops[k].length) + hops[k].length + HMACSize
  BY <1>3, SizeAssumption DEF Length, OnionPayloadLength
<1>. QED  BY <1>2, <1>3, <1>4

\* The offsets of the layers are sums of lengths.
LEMMA Offsets ==
    ASSUME hops \in Routes
    PROVE  /\ Offset \in [0..Layers -> Nat]
           /\ Offset[0] = 0
           /\ \A k \in 1..Layers : Offset[k] = Offset[k - 1] + Length(k)
<1>. DEFINE step == [k \in Nat |-> [total \in Nat |-> total + Length(k + 1)]]
            Sum(f) == f = [k \in 0..Layers |->
                             IF k = 0 THEN 0 ELSE f[k - 1] + OnionPayloadLength(hops[k])]
<1>1. Layers \in Nat /\ \A k \in 1..Layers : Length(k) \in Nat
  BY RouteFacts
<1>2. ASSUME NEW k \in 0..Layers - 1, NEW total \in Nat
      PROVE  step[k][total] = total + Length(k + 1) /\ step[k][total] \in Nat
  <2>1. k + 1 \in 1..Layers /\ k \in Nat
    BY <1>1
  <2>. QED  BY <1>1, <2>1
<1>3. PICK f \in [0..Layers -> Nat] : Steps(f, Layers, 0, step)
  <2>. HIDE DEF step
  <2>. QED  BY <1>1, <1>2, StepsExist
<1>4. ASSUME NEW k \in 1..Layers PROVE f[k] = f[k - 1] + Length(k)
  <2>1. k - 1 \in 0..Layers - 1 /\ k - 1 \in 0..Layers /\ (k - 1) + 1 = k
    BY <1>1
  <2>2. f[k - 1] \in Nat /\ f[(k - 1) + 1] = step[k - 1][f[k - 1]]
    BY <1>3, <2>1 DEF Steps
  <2>. HIDE DEF step
  <2>. QED  BY <1>2, <2>1, <2>2
<1>5. Sum(f)
  <2>1. f[0] = 0
    BY <1>3 DEF Steps
  <2>2. ASSUME NEW k \in 0..Layers
        PROVE  f[k] = IF k = 0 THEN 0 ELSE f[k - 1] + OnionPayloadLength(hops[k])
    <3>1. k # 0 => k \in 1..Layers
      BY <1>1
    <3>. QED  BY <1>4, <2>1, <3>1 DEF Length
  <2>. QED  BY <2>2
<1>6. Offset = CHOOSE g : Sum(g)
  BY DEF Offset, Layers
<1>7. Sum(Offset)
  <2>. HIDE DEF Sum
  <2>. QED  BY <1>5, <1>6
<1>8. Offset[0] = 0 /\ \A k \in 1..Layers : Offset[k] = Offset[k - 1] + Length(k)
  BY <1>1, <1>7 DEF Length
<1>9. ASSUME NEW k \in 0..Layers - 1, Offset[k] \in Nat
      PROVE  Offset[k + 1] \in Nat
  <2>1. k + 1 \in 1..Layers /\ (k + 1) - 1 = k
    BY <1>1
  <2>. QED  BY <1>1, <1>8, <1>9, <2>1
<1>10. \A k \in 0..Layers : Offset[k] \in Nat
  <2>. DEFINE S == {k \in 0..Layers : Offset[k] \in Nat}
  <2>1. 0 \in S /\ \A k \in 0..Layers - 1 : k \in S => k + 1 \in S
    BY <1>1, <1>8, <1>9
  <2>2. \A k \in 0..Layers : k \in S
    <3>. HIDE DEF S
    <3>. QED  BY <1>1, <2>1, InductionUpTo
  <2>. QED  BY <2>2
<1>11. Offset = [k \in 0..Layers |-> Offset[k]]
  BY <1>7
<1>. QED  BY <1>8, <1>10, <1>11

\* They grow from layer to layer.
LEMMA OffsetsGrow ==
    ASSUME hops \in Routes
    PROVE  \A j \in 0..Layers : \A k \in 0..j : Offset[k] <= Offset[j]
<1>. DEFINE S == {j \in 0..Layers : \A k \in 0..j : Offset[k] <= Offset[j]}
<1>1. /\ Layers \in Nat /\ Offset \in [0..Layers -> Nat]
      /\ \A k \in 1..Layers : Offset[k] = Offset[k - 1] + Length(k) /\ Length(k) \in Nat
  BY RouteFacts, Offsets
<1>2. 0 \in S
  BY <1>1
<1>3. ASSUME NEW j \in 0..Layers - 1, j \in S PROVE j + 1 \in S
  <2>1. j + 1 \in 1..Layers /\ (j + 1) - 1 = j /\ j + 1 \in 0..Layers
    BY <1>1
  <2>2. Offset[j] \in Nat /\ Offset[j + 1] = Offset[j] + Length(j + 1) /\ Length(j + 1) \in Nat
    BY <1>1, <2>1
  <2>3. ASSUME NEW k \in 0..j + 1 PROVE Offset[k] <= Offset[j + 1]
    <3>1. CASE k = j + 1
      BY <2>2, <3>1
    <3>2. CASE k # j + 1
      <4>1. k \in 0..j
        BY <3>2
      <4>2. Offset[k] <= Offset[j] /\ Offset[k] \in Nat
        BY <1>1, <1>3, <4>1
      <4>. QED  BY <2>2, <4>2
    <3>. QED  BY <3>1, <3>2
  <2>. QED  BY <2>1, <2>3
<1>4. \A j \in 0..Layers : j \in S
  <2>. HIDE DEF S
  <2>. QED  BY <1>1, <1>2, <1>3, InductionUpTo
<1>. QED  BY <1>4

-----------------------------------------------------------------------------
(* Bytes *)

Size == OnionPacketPayloadSize

Rho(secret, j) == <<"rho", secret, j>>

LEMMA BytesFacts ==
    ASSUME NEW kind, NEW of, NEW n \in Nat
    PROVE  /\ HasLength(Bytes(kind, of, n), n)
           /\ \A j \in 1..n : Bytes(kind, of, n)[j] = {<<kind, of, j>>}
BY DEF HasLength, Bytes

LEMMA ZerosFacts ==
    ASSUME NEW n \in Nat
    PROVE  HasLength(Zeros(n), n) /\ \A j \in 1..n : Zeros(n)[j] = {}
BY DEF HasLength, Zeros

LEMMA SizeFacts ==
    /\ Size \in Nat \ {0} /\ HMACSize \in Nat \ {0}
    /\ \A secret : /\ HasLength(Stream(secret, Size), Size)
                   /\ HasLength(Stream(secret, 2 * Size), 2 * Size)
                   /\ \A j \in 1..Size : Stream(secret, Size)[j] = {Rho(secret, j)}
                   /\ \A j \in 1..2 * Size : Stream(secret, 2 * Size)[j] = {Rho(secret, j)}
<1>1. Size \in Nat \ {0} /\ HMACSize \in Nat \ {0} /\ 2 * Size \in Nat
  BY SizeAssumption DEF Size
<1>. QED  BY <1>1, BytesFacts DEF Stream, Rho

LEMMA XorFacts ==
    ASSUME NEW a, NEW m, HasLength(a, m), NEW b, NEW n \in 0..m, HasLength(b, n)
    PROVE  /\ HasLength(xor(a, b), m)
           /\ \A j \in 1..n : xor(a, b)[j] = SymDiff(a[j], b[j])
           /\ \A j \in n + 1..m : xor(a, b)[j] = a[j]
<1>1. Len(a) = m /\ Len(b) = n /\ m \in Nat
  BY LengthOf
<1>2. (IF m > n THEN m ELSE n) = m
  BY <1>1
<1>3. xor(a, b) = [j \in 1..m |->
          SymDiff(IF j <= m THEN a[j] ELSE {}, IF j <= n THEN b[j] ELSE {})]
  BY <1>1, <1>2 DEF xor
<1>4. \A j \in 1..n : xor(a, b)[j] = SymDiff(a[j], b[j])
  BY <1>1, <1>3
<1>5. \A j \in n + 1..m : xor(a, b)[j] = a[j]
  <2>1. \A A : SymDiff(A, {}) = A
    BY DEF SymDiff
  <2>. QED  BY <1>1, <1>3, <2>1
<1>6. HasLength(xor(a, b), m)
  BY <1>1, <1>3 DEF HasLength
<1>. QED  BY <1>4, <1>5, <1>6

\* What was added twice is gone.
LEMMA Involution ==
    /\ \A A, B : SymDiff(SymDiff(A, B), B) = A
    /\ \A A : SymDiff({}, A) = A
    /\ \A A, x, y : x # y => (x \in SymDiff(A, {y}) <=> x \in A)
    /\ \A A, x : x \in SymDiff(A, {x}) <=> x \notin A
BY DEF SymDiff

-----------------------------------------------------------------------------
(* The filler *)

Fits == hops \in Routes /\ Offset[Layers] <= Size

LEMMA LayersFit ==
    ASSUME Fits
    PROVE  /\ \A k \in 0..Layers : Offset[k] \in Nat /\ Offset[k] <= Size
           /\ \A k \in 1..Layers :
                 /\ Offset[k] = Offset[k - 1] + Length(k)
                 /\ k - 1 \in 0..Layers
                 /\ Offset[k - 1] \in Nat
                 /\ Length(k) \in 1..Size
<1>1. /\ Layers \in Nat /\ Offset \in [0..Layers -> Nat] /\ Size \in Nat
      /\ \A k \in 1..Layers : Offset[k] = Offset[k - 1] + Length(k) /\ Length(k) \in Nat \ {0}
  BY RouteFacts, Offsets, SizeFacts DEF Fits
<1>2. ASSUME NEW k \in 0..Layers PROVE Offset[k] \in Nat /\ Offset[k] <= Size
  <2>1. Layers \in 0..Layers /\ k \in 0..Layers
    BY <1>1
  <2>2. Offset[k] <= Offset[Layers] /\ Offset[k] \in Nat /\ Offset[Layers] \in Nat
    BY <1>1, <2>1, OffsetsGrow DEF Fits
  <2>. QED  BY <1>1, <2>2 DEF Fits
<1>3. ASSUME NEW k \in 1..Layers
      PROVE  k - 1 \in 0..Layers /\ Offset[k - 1] \in Nat /\ Length(k) \in 1..Size
  <2>1. k - 1 \in 0..Layers /\ k \in 0..Layers
    BY <1>1
  <2>2. Offset[k - 1] \in Nat /\ Offset[k] <= Size /\ Offset[k] \in Nat
    BY <1>2, <2>1
  <2>. QED  BY <1>1, <2>1, <2>2
<1>. QED  BY <1>1, <1>2, <1>3

LEMMA StretchFacts ==
    ASSUME Fits, NEW k \in 1..Layers
    PROVE  /\ HasLength(FillerStretch(k), Offset[k])
           /\ \A j \in 1..Offset[k] :
                 FillerStretch(k)[j] = {Rho(secrets[k], Size - Offset[k - 1] + j)}
<1>1. /\ Offset[k - 1] \in Nat /\ Offset[k] = Offset[k - 1] + Length(k)
      /\ Length(k) \in 1..Size /\ Offset[k] \in Nat /\ Offset[k] <= Size
      /\ Size \in Nat \ {0}
  <2>1. k \in 0..Layers
    OBVIOUS
  <2>. QED  BY <2>1, LayersFit, SizeFacts
<1>. DEFINE s == Stream(secrets[k], 2 * Size)
            a == Size - Offset[k - 1] + 1
            b == Size + Length(k)
<1>2. HasLength(s, 2 * Size) /\ \A j \in 1..2 * Size : s[j] = {Rho(secrets[k], j)}
  BY SizeFacts
<1>3. FillerStretch(k) = SubSeq(s, a, b)
  BY DEF FillerStretch, Size, Length
<1>4. a \in 1..2 * Size + 1 /\ b \in a - 1..2 * Size /\ b - a + 1 = Offset[k]
  BY <1>1
<1>. HIDE DEF s, a, b
<1>5. /\ HasLength(SubSeq(s, a, b), Offset[k])
      /\ \A j \in 1..Offset[k] : SubSeq(s, a, b)[j] = s[a + j - 1]
  BY <1>2, <1>4, LengthSubSeq
<1>6. ASSUME NEW j \in 1..Offset[k]
      PROVE  s[a + j - 1] = {Rho(secrets[k], Size - Offset[k - 1] + j)}
  <2>1. a + j - 1 = Size - Offset[k - 1] + j /\ a + j - 1 \in 1..2 * Size
    BY <1>1 DEF a
  <2>. QED  BY <1>2, <2>1
<1>. QED  BY <1>3, <1>5, <1>6

\* The bytes of the filler hold nothing but bytes of streams.
Streamed(m) == [1..m -> SUBSET {Rho(secrets[k], j) : k \in 1..Layers, j \in Nat}]

LEMMA StretchAdds ==
    ASSUME Fits, NEW k \in 1..Layers, NEW m \in Nat, Offset[k] <= m, NEW s \in Streamed(m)
    PROVE  /\ xor(s, FillerStretch(k)) \in Streamed(m)
           /\ \A j \in 1..Offset[k] :
                 xor(s, FillerStretch(k))[j]
                   = SymDiff(s[j], {Rho(secrets[k], Size - Offset[k - 1] + j)})
           /\ \A j \in Offset[k] + 1..m : xor(s, FillerStretch(k))[j] = s[j]
<1>. DEFINE t == FillerStretch(k)
            Rhos == {Rho(secrets[i], j) : i \in 1..Layers, j \in Nat}
            x == xor(s, t)
<1>1. /\ Offset[k - 1] \in Nat /\ Offset[k] \in 0..m /\ Offset[k - 1] <= Size /\ Size \in Nat
  <2>1. k \in 0..Layers /\ k - 1 \in 0..Layers
    BY LayersFit
  <2>. QED  BY <2>1, LayersFit, SizeFacts
<1>2. HasLength(s, m)
  BY DEF Streamed, HasLength
<1>3. /\ HasLength(t, Offset[k])
      /\ \A j \in 1..Offset[k] : t[j] = {Rho(secrets[k], Size - Offset[k - 1] + j)}
  BY StretchFacts
<1>. HIDE DEF t
<1>4. /\ HasLength(x, m)
      /\ \A j \in 1..Offset[k] : x[j] = SymDiff(s[j], t[j])
      /\ \A j \in Offset[k] + 1..m : x[j] = s[j]
  BY <1>1, <1>2, <1>3, XorFacts
<1>5. ASSUME NEW j \in 1..m PROVE x[j] \in SUBSET Rhos
  <2>1. s[j] \in SUBSET Rhos
    BY DEF Streamed
  <2>2. CASE j \in 1..Offset[k]
    <3>1. Size - Offset[k - 1] + j \in Nat
      BY <1>1, <2>2
    <3>2. Rho(secrets[k], Size - Offset[k - 1] + j) \in Rhos
      BY <3>1
    <3>. HIDE DEF Rhos, x
    <3>3. x[j] = SymDiff(s[j], {Rho(secrets[k], Size - Offset[k - 1] + j)})
      BY <1>3, <1>4, <2>2
    <3>. QED  BY <2>1, <3>2, <3>3 DEF SymDiff
  <2>3. CASE j \notin 1..Offset[k]
    <3>1. j \in Offset[k] + 1..m
      BY <1>1, <2>3
    <3>. HIDE DEF Rhos, x
    <3>. QED  BY <1>4, <2>1, <3>1
  <2>. HIDE DEF Rhos, x
  <2>. QED  BY <2>2, <2>3
<1>6. x \in Streamed(m)
  <2>1. x = [j \in 1..m |-> x[j]]
    BY <1>4 DEF HasLength
  <2>. HIDE DEF x, Rhos
  <2>2. x \in [1..m -> SUBSET Rhos]
    BY <1>5, <2>1
  <2>. QED  BY <2>2 DEF Streamed, Rhos
<1>. QED  BY <1>3, <1>4, <1>6 DEF x, t

\* After k rounds the filler reaches as far as the first k layers.
LEMMA FillerFacts ==
    ASSUME Fits, Layers > 0
    PROVE  /\ Offset[Layers - 1] \in Nat
           /\ FillerUpTo[0] = Zeros(Offset[Layers - 1])
           /\ \A k \in 1..Layers - 1 :
                 FillerUpTo[k] = xor(FillerUpTo[k - 1], FillerStretch(k))
           /\ \A k \in 0..Layers - 1 :
                 /\ FillerUpTo[k] \in Streamed(Offset[Layers - 1])
                 /\ \A j \in Offset[k] + 1..Offset[Layers - 1] : FillerUpTo[k][j] = {}
<1>. DEFINE m == Offset[Layers - 1]
            n == Layers - 1
            D == Streamed(m)
            zeros == Zeros(m)
            step == [k \in Nat |-> [s \in D |-> xor(s, FillerStretch(k + 1))]]
            Fold(f) == f = [k \in 0..Layers - 1 |->
                              IF k = 0 THEN zeros ELSE xor(f[k - 1], FillerStretch(k))]
<1>1. Layers \in Nat /\ n \in Nat /\ n \in 0..Layers
  <2>1. Layers \in Nat
    BY RouteFacts DEF Fits
  <2>. QED  BY <2>1
<1>2. m \in Nat /\ \A k \in 0..n : Offset[k] \in 0..m
  <2>1. m \in Nat
    BY <1>1, LayersFit
  <2>2. ASSUME NEW k \in 0..n PROVE Offset[k] \in 0..m
    <3>1. k \in 0..Layers
      BY <1>1
    <3>2. Offset[k] <= Offset[n] /\ Offset[k] \in Nat
      BY <1>1, <3>1, OffsetsGrow, LayersFit DEF Fits
    <3>. QED  BY <2>1, <3>2
  <2>. QED  BY <2>1, <2>2
<1>3. zeros \in D /\ \A j \in 1..m : zeros[j] = {}
  <2>1. zeros = [j \in 1..m |-> {}]
    BY DEF Zeros
  <2>. QED  BY <2>1 DEF Streamed
<1>4. ASSUME NEW k \in 1..n, NEW s \in D
      PROVE  /\ xor(s, FillerStretch(k)) \in D
             /\ \A j \in Offset[k] + 1..m : xor(s, FillerStretch(k))[j] = s[j]
  <2>1. k \in 1..Layers /\ Offset[k] <= m
    BY <1>1, <1>2
  <2>. HIDE DEF m
  <2>. QED  BY <1>2, <2>1, StretchAdds
<1>5. ASSUME NEW k \in 0..n - 1, NEW s \in D
      PROVE  step[k][s] = xor(s, FillerStretch(k + 1)) /\ step[k][s] \in D
  <2>1. k + 1 \in 1..n /\ k \in Nat
    BY <1>1
  <2>. HIDE DEF D
  <2>. QED  BY <1>4, <2>1
<1>6. PICK f \in [0..n -> D] : Steps(f, n, zeros, step)
  <2>. HIDE DEF step, D, n, zeros
  <2>. QED  BY <1>1, <1>3, <1>5, StepsExist
<1>7. ASSUME NEW k \in 1..n PROVE f[k] = xor(f[k - 1], FillerStretch(k))
  <2>1. k - 1 \in 0..n - 1 /\ k - 1 \in 0..n /\ (k - 1) + 1 = k
    BY <1>1
  <2>2. f[k - 1] \in D /\ f[(k - 1) + 1] = step[k - 1][f[k - 1]]
    BY <1>6, <2>1 DEF Steps
  <2>. HIDE DEF step, D, n
  <2>3. step[k - 1][f[k - 1]] = xor(f[k - 1], FillerStretch((k - 1) + 1))
    BY <1>5, <2>1, <2>2
  <2>. QED  BY <2>1, <2>2, <2>3
<1>8. Fold(f)
  <2>1. f[0] = zeros
    BY <1>6 DEF Steps
  <2>2. ASSUME NEW k \in 0..n
        PROVE  f[k] = IF k = 0 THEN zeros ELSE xor(f[k - 1], FillerStretch(k))
    <3>1. k # 0 => k \in 1..n
      BY <1>1
    <3>. HIDE DEF n, zeros
    <3>. QED  BY <1>7, <2>1, <3>1
  <2>3. f = [k \in 0..n |-> f[k]]
    OBVIOUS
  <2>. HIDE DEF zeros, D
  <2>. QED  BY <2>2, <2>3
<1>9. FillerUpTo = CHOOSE g : Fold(g)
  BY DEF FillerUpTo, Layers
<1>10. Fold(FillerUpTo)
  <2>. HIDE DEF Fold
  <2>. QED  BY <1>8, <1>9
<1>11. FillerUpTo[0] = zeros
  <2>. HIDE DEF zeros
  <2>. QED  BY <1>1, <1>10
<1>12. ASSUME NEW k \in 1..n
       PROVE  FillerUpTo[k] = xor(FillerUpTo[k - 1], FillerStretch(k))
  <2>1. k \in 0..Layers - 1 /\ k # 0
    BY <1>1
  <2>. HIDE DEF zeros
  <2>. QED  BY <1>10, <2>1
<1>. HIDE DEF Fold
<1>. DEFINE S == {k \in 0..n : /\ FillerUpTo[k] \in D
                              /\ \A j \in Offset[k] + 1..m : FillerUpTo[k][j] = {}}
<1>13. 0 \in S
  <2>1. Offset[0] = 0
    BY Offsets DEF Fits
  <2>2. \A j \in Offset[0] + 1..m : j \in 1..m
    BY <1>2, <2>1
  <2>. HIDE DEF zeros, D, m
  <2>3. \A j \in Offset[0] + 1..m : FillerUpTo[0][j] = {}
    BY <1>3, <1>11, <2>2
  <2>. QED  BY <1>1, <1>3, <1>11, <2>3
<1>14. ASSUME NEW k \in 0..n - 1, k \in S PROVE k + 1 \in S
  <2>1. k + 1 \in 1..n /\ (k + 1) - 1 = k /\ k + 1 \in 0..n /\ k + 1 \in 1..Layers
    BY <1>1
  <2>2. FillerUpTo[k + 1] = xor(FillerUpTo[k], FillerStretch(k + 1)) /\ FillerUpTo[k] \in D
    BY <1>12, <1>14, <2>1
  <2>3. ASSUME NEW j \in Offset[k + 1] + 1..m PROVE FillerUpTo[k + 1][j] = {}
    <3>1. Offset[k + 1] = Offset[k] + Length(k + 1) /\ Length(k + 1) \in Nat /\ Offset[k] \in Nat
      <4>1. Offset[k + 1] = Offset[(k + 1) - 1] + Length(k + 1) /\ Length(k + 1) \in 1..Size
            /\ Offset[(k + 1) - 1] \in Nat
        BY <2>1, LayersFit
      <4>. QED  BY <2>1, <4>1, SizeFacts
    <3>2. j \in Offset[k] + 1..m
      BY <1>2, <3>1
    <3>3. FillerUpTo[k][j] = {}
      BY <1>14, <3>2
    <3>. HIDE DEF D, m
    <3>. QED  BY <1>4, <2>1, <2>2, <3>3
  <2>. HIDE DEF D, m
  <2>. QED  BY <1>4, <2>1, <2>2, <2>3
<1>15. \A k \in 0..n : k \in S
  <2>. HIDE DEF S, n
  <2>. QED  BY <1>1, <1>13, <1>14, InductionUpTo
<1>16. \A k \in 0..n : FillerUpTo[k] \in D /\ \A j \in Offset[k] + 1..m : FillerUpTo[k][j] = {}
  <2>. HIDE DEF D, m, n
  <2>. QED  BY <1>15
<1>. QED  BY <1>2, <1>11, <1>12, <1>16

-----------------------------------------------------------------------------
(* Layers *)

\* What the last bytes of hop k's packet must be, for its HMAC is made over
\* what the zeros that earlier hops append will have become.
Ending(k, p) ==
    \A j \in 1..Offset[k - 1] : p[Size - Offset[k - 1] + j] = FillerUpTo[k - 1][j]

\* Payloads from hop k on are in the packet, each below its own hop's stream.
Hidden(k, p) ==
    \A m \in 1..Layers, j \in 1..Size, i \in Nat :
        <<"payload", m, i>> \in p[j] =>
            m >= k /\ \E x \in 1..Size : Rho(secrets[m], x) \in p[j]

NoPayload(bytes, n) ==
    \A m \in 1..Layers, j \in 1..n, i \in Nat : <<"payload", m, i>> \notin bytes[j]

Distinct == \A i, j \in 1..Layers : secrets[i] = secrets[j] => i = j

LEMMA PrependFacts ==
    ASSUME hops \in Routes, NEW k \in 1..Layers, NEW hmac, HasLength(hmac, HMACSize)
    PROVE  LET size == BigSizeLength(hops[k].length)
               length == hops[k].length
               pre == Prepend(k, hmac)
           IN  /\ HasLength(pre, Length(k))
               /\ \A j \in 1..size : pre[j] = {<<"size", length, j>>}
               /\ \A j \in 1..length : pre[size + j] = {<<"payload", k, j>>}
               /\ \A j \in 1..HMACSize : pre[size + length + j] = hmac[j]
<1>. DEFINE size == BigSizeLength(hops[k].length)
            length == hops[k].length
            a == BigSize(length)
            b == Payload(k)
            ab == a \o b
            abc == ab \o hmac
<1>1. size \in Nat /\ length \in Nat /\ HMACSize \in Nat /\ Length(k) = size + length + HMACSize
  BY RouteFacts, SizeFacts
<1>2. HasLength(a, size) /\ \A j \in 1..size : a[j] = {<<"size", length, j>>}
  BY <1>1, BytesFacts DEF BigSize
<1>3. HasLength(b, length) /\ \A j \in 1..length : b[j] = {<<"payload", k, j>>}
  BY <1>1, BytesFacts DEF Payload
<1>4. Joins(ab, a, b) /\ Joins(abc, ab, hmac) /\ Prepend(k, hmac) = abc
  BY DEF Prepend, Joins
<1>. HIDE DEF a, b, ab, abc, size, length
<1>5. /\ HasLength(ab, size + length)
      /\ \A j \in 1..size : ab[j] = a[j]
      /\ \A j \in 1..length : ab[size + j] = b[j]
  BY <1>2, <1>3, <1>4, LengthConcat
<1>6. /\ HasLength(abc, size + length + HMACSize)
      /\ \A j \in 1..size + length : abc[j] = ab[j]
      /\ \A j \in 1..HMACSize : abc[size + length + j] = hmac[j]
  BY <1>4, <1>5, LengthConcat
<1>7. \A j \in 1..size : j \in 1..size + length
  BY <1>1
<1>8. \A j \in 1..length : size + j \in 1..size + length
  BY <1>1
<1>. QED  BY <1>1, <1>2, <1>3, <1>4, <1>5, <1>6, <1>7, <1>8 DEF size, length

LEMMA LayerFacts ==
    ASSUME Fits, NEW k \in 1..Layers, NEW inner, HasLength(inner, Size),
           NEW hmac, HasLength(hmac, HMACSize), NEW p, p = Layer(k, inner, hmac)
    PROVE  /\ HasLength(p, Size)
           /\ \A j \in 1..Length(k) :
                 p[j] = SymDiff(Prepend(k, hmac)[j], {Rho(secrets[k], j)})
           /\ k # Layers =>
                 \A j \in 1..Size - Length(k) :
                    p[Length(k) + j] = SymDiff(inner[j], {Rho(secrets[k], Length(k) + j)})
           /\ k = Layers =>
                 /\ \A j \in 1..Size - Offset[k] :
                       p[Length(k) + j] = SymDiff(inner[j], {Rho(secrets[k], Length(k) + j)})
                 /\ \A j \in 1..Offset[k - 1] : p[Size - Offset[k - 1] + j] = Filler[j]
                 /\ Filler \in Streamed(Offset[k - 1])
<1>. DEFINE pre == Prepend(k, hmac)
            L == Length(k)
            rest == SubSeq(inner, 1, Size - L)
            plain == pre \o rest
            stream == Stream(secrets[k], Size)
            encrypted == xor(plain, stream)
<1>1. /\ Size \in Nat /\ L \in 1..Size /\ Offset[k - 1] \in Nat /\ Offset[k] = Offset[k - 1] + L
      /\ Offset[k] <= Size /\ Layers \in Nat
  BY LayersFit, SizeFacts, RouteFacts DEF Fits
<1>2. HasLength(pre, L)
  BY PrependFacts DEF Fits
<1>3. HasLength(rest, Size - L) /\ \A j \in 1..Size - L : rest[j] = inner[j]
  <2>1. 1 \in 1..Size + 1 /\ Size - L \in 1 - 1..Size /\ (Size - L) - 1 + 1 = Size - L
    BY <1>1
  <2>2. \A j \in 1..Size - L : 1 + j - 1 = j
    OBVIOUS
  <2>3. /\ HasLength(SubSeq(inner, 1, Size - L), (Size - L) - 1 + 1)
        /\ \A j \in 1..(Size - L) - 1 + 1 : SubSeq(inner, 1, Size - L)[j] = inner[1 + j - 1]
    BY <2>1, LengthSubSeq
  <2>. QED  BY <2>1, <2>2, <2>3
<1>4. Len(pre) = L /\ Prepended(k, inner, hmac) = plain
  BY <1>2, LengthOf DEF Prepended, Size
<1>11. Joins(plain, pre, rest)
  BY DEF Joins
<1>. HIDE DEF plain, pre, rest, L
<1>5. /\ HasLength(plain, Size)
      /\ \A j \in 1..L : plain[j] = pre[j]
      /\ \A j \in 1..Size - L : plain[L + j] = inner[j]
  <2>1. L + (Size - L) = Size
    BY <1>1
  <2>2. /\ HasLength(plain, L + (Size - L))
        /\ \A j \in 1..L : plain[j] = pre[j]
        /\ \A j \in 1..Size - L : plain[L + j] = rest[j]
    BY <1>2, <1>3, <1>11, LengthConcat
  <2>. QED  BY <1>3, <2>1, <2>2
<1>6. HasLength(stream, Size) /\ \A j \in 1..Size : stream[j] = {Rho(secrets[k], j)}
  BY SizeFacts
<1>. HIDE DEF plain, stream
<1>7. HasLength(encrypted, Size) /\ \A j \in 1..Size : encrypted[j] = SymDiff(plain[j], stream[j])
  <2>1. Size \in 0..Size
    BY <1>1
  <2>. QED  BY <1>5, <1>6, <2>1, XorFacts
<1>. HIDE DEF encrypted
<1>8. /\ \A j \in 1..L : encrypted[j] = SymDiff(pre[j], {Rho(secrets[k], j)})
      /\ \A j \in 1..Size - L : encrypted[L + j] = SymDiff(inner[j], {Rho(secrets[k], L + j)})
  <2>1. \A j \in 1..L : j \in 1..Size
    BY <1>1
  <2>2. \A j \in 1..Size - L : L + j \in 1..Size
    BY <1>1
  <2>. QED  BY <1>5, <1>6, <1>7, <2>1, <2>2
<1>9. CASE k # Layers
  <2>1. p = encrypted
    BY <1>4, <1>9 DEF Layer, encrypted, stream, Layers, Size
  <2>. QED  BY <1>7, <1>8, <1>9, <2>1 DEF L, pre
<1>10. CASE k = Layers
  <2>. DEFINE m == Offset[k - 1]
              head == SubSeq(encrypted, 1, Size - m)
              whole == head \o Filler
  <2>1. HasLength(Filler, m) /\ Filler \in Streamed(m)
    <3>1. Filler \in Streamed(m)
      <4>1. Layers > 0 /\ Layers - 1 \in 0..Layers - 1
        BY <1>10
      <4>. QED  BY <1>10, <4>1, FillerFacts DEF Filler, Layers
    <3>. HIDE DEF m
    <3>2. m \in Nat /\ Filler = [j \in 1..m |-> Filler[j]]
      BY <1>1, <3>1 DEF Streamed, m
    <3>. QED  BY <3>1, <3>2 DEF HasLength
  <2>2. p = whole /\ Joins(whole, head, Filler)
    <3>1. Len(Filler) = m
      BY <2>1, LengthOf
    <3>. QED  BY <1>4, <1>10, <3>1 DEF Joins, Layer, encrypted, stream, Layers, Size
  <2>3. HasLength(head, Size - m) /\ \A j \in 1..Size - m : head[j] = encrypted[j]
    <3>1. 1 \in 1..Size + 1 /\ Size - m \in 1 - 1..Size /\ (Size - m) - 1 + 1 = Size - m
      BY <1>1
    <3>2. \A j \in 1..Size - m : 1 + j - 1 = j
      OBVIOUS
    <3>3. /\ HasLength(SubSeq(encrypted, 1, Size - m), (Size - m) - 1 + 1)
          /\ \A j \in 1..(Size - m) - 1 + 1 : SubSeq(encrypted, 1, Size - m)[j] = encrypted[1 + j - 1]
      BY <1>7, <3>1, LengthSubSeq
    <3>. QED  BY <3>1, <3>2, <3>3
  <2>. HIDE DEF head, whole
  <2>4. /\ HasLength(whole, Size)
        /\ \A j \in 1..Size - m : whole[j] = encrypted[j]
        /\ \A j \in 1..m : whole[Size - m + j] = Filler[j]
    <3>1. (Size - m) + m = Size
      BY <1>1
    <3>2. /\ HasLength(whole, (Size - m) + m)
          /\ \A j \in 1..Size - m : whole[j] = head[j]
          /\ \A j \in 1..m : whole[(Size - m) + j] = Filler[j]
      BY <2>1, <2>2, <2>3, LengthConcat
    <3>. QED  BY <2>3, <3>1, <3>2
  <2>5. \A j \in 1..L : j \in 1..Size - m
    BY <1>1
  <2>6. \A j \in 1..Size - Offset[k] : L + j \in 1..Size - m /\ j \in 1..Size - L
    BY <1>1
  <2>7. \A j \in 1..L : whole[j] = SymDiff(pre[j], {Rho(secrets[k], j)})
    BY <1>8, <2>4, <2>5
  <2>8. \A j \in 1..Size - Offset[k] :
           whole[L + j] = SymDiff(inner[j], {Rho(secrets[k], L + j)})
    BY <1>8, <2>4, <2>6
  <2>. QED  BY <1>10, <2>1, <2>2, <2>4, <2>7, <2>8 DEF L, pre
<1>. QED  BY <1>9, <1>10

\* Offsets and the filler, at a hop with one behind it
LEMMA FillerStep ==
    ASSUME Fits, NEW k \in 1..Layers, k < Layers
    PROVE  /\ Offset[Layers - 1] \in Nat /\ Offset[k] <= Offset[Layers - 1]
           /\ \A j \in 1..Offset[k] :
                 FillerUpTo[k][j]
                   = SymDiff(FillerUpTo[k - 1][j], {Rho(secrets[k], Size - Offset[k - 1] + j)})
           /\ \A j \in Offset[k - 1] + 1..Offset[k] : FillerUpTo[k - 1][j] = {}
<1>. DEFINE m == Offset[Layers - 1]
<1>1. Layers \in Nat /\ k \in 1..Layers - 1 /\ k - 1 \in 0..Layers - 1 /\ Layers > 0
  <2>1. Layers \in Nat
    BY RouteFacts DEF Fits
  <2>. QED  BY <2>1
<1>2. m \in Nat /\ Offset[k] \in Nat /\ Offset[k] <= m
  <2>1. Layers - 1 \in 0..Layers /\ k \in 0..Layers - 1 /\ k \in 0..Layers
    BY <1>1
  <2>. QED  BY <2>1, LayersFit, OffsetsGrow DEF Fits
<1>3. /\ FillerUpTo[k] = xor(FillerUpTo[k - 1], FillerStretch(k))
      /\ FillerUpTo[k - 1] \in Streamed(m)
      /\ \A j \in Offset[k - 1] + 1..m : FillerUpTo[k - 1][j] = {}
  BY <1>1, FillerFacts
<1>. HIDE DEF m
<1>4. \A j \in 1..Offset[k] :
         FillerUpTo[k][j]
           = SymDiff(FillerUpTo[k - 1][j], {Rho(secrets[k], Size - Offset[k - 1] + j)})
  <2>. DEFINE s == FillerUpTo[k - 1]
  <2>. HIDE DEF s
  <2>1. \A j \in 1..Offset[k] :
           xor(s, FillerStretch(k))[j] = SymDiff(s[j], {Rho(secrets[k], Size - Offset[k - 1] + j)})
    BY <1>2, <1>3, StretchAdds DEF s
  <2>. QED  BY <1>3, <2>1 DEF s
<1>5. \A j \in Offset[k - 1] + 1..Offset[k] : j \in Offset[k - 1] + 1..m
  <2>1. Offset[k - 1] \in Nat
    BY LayersFit
  <2>. QED  BY <1>2, <2>1
<1>. QED  BY <1>2, <1>3, <1>4, <1>5 DEF m

\* A layer ends as the packet inside it requires.
LEMMA EndingKept ==
    ASSUME Fits, NEW k \in 1..Layers, NEW inner, HasLength(inner, Size),
           NEW hmac, HasLength(hmac, HMACSize), k < Layers => Ending(k + 1, inner)
    PROVE  Ending(k, Layer(k, inner, hmac))
<1>. DEFINE p == Layer(k, inner, hmac)
            L == Length(k)
<1>1. /\ Size \in Nat /\ L \in 1..Size /\ Offset[k - 1] \in Nat /\ Offset[k] = Offset[k - 1] + L
      /\ Offset[k] <= Size /\ Layers \in Nat
  <2>1. k \in 0..Layers
    OBVIOUS
  <2>. QED  BY <2>1, LayersFit, SizeFacts, RouteFacts DEF Fits
<1>. HIDE DEF p
<1>2. /\ k # Layers =>
            \A j \in 1..Size - L : p[L + j] = SymDiff(inner[j], {Rho(secrets[k], L + j)})
      /\ k = Layers => \A j \in 1..Offset[k - 1] : p[Size - Offset[k - 1] + j] = Filler[j]
  <2>1. k # Layers => \A j \in 1..Size - Length(k) :
                         p[Length(k) + j] = SymDiff(inner[j], {Rho(secrets[k], Length(k) + j)})
    BY LayerFacts DEF p
  <2>2. k = Layers => \A j \in 1..Offset[k - 1] : p[Size - Offset[k - 1] + j] = Filler[j]
    BY LayerFacts DEF p
  <2>. QED  BY <2>1, <2>2
<1>. HIDE DEF L
<1>. SUFFICES ASSUME NEW j \in 1..Offset[k - 1]
              PROVE  p[Size - Offset[k - 1] + j] = FillerUpTo[k - 1][j]
  BY DEF Ending, p
<1>3. CASE k = Layers
  BY <1>2, <1>3 DEF Filler, Layers
<1>4. CASE k < Layers
  <2>. DEFINE i == Size - Offset[k] + j
  <2>1. j \in 1..Offset[k] /\ i \in 1..Size - L /\ L + i = Size - Offset[k - 1] + j
    BY <1>1
  <2>2. inner[i] = FillerUpTo[k][j]
    <3>1. (k + 1) - 1 = k
      BY <1>1
    <3>. QED  BY <1>4, <2>1, <3>1 DEF Ending
  <2>. HIDE DEF i
  <2>3. p[L + i] = SymDiff(inner[i], {Rho(secrets[k], L + i)})
    BY <1>1, <1>2, <1>4, <2>1
  <2>4. inner[i] = SymDiff(FillerUpTo[k - 1][j], {Rho(secrets[k], L + i)})
    BY <1>4, <2>1, <2>2, FillerStep
  <2>5. SymDiff(inner[i], {Rho(secrets[k], L + i)}) = FillerUpTo[k - 1][j]
    BY <2>4, Involution, Zenon
  <2>. QED  BY <2>1, <2>3, <2>5
<1>. QED  BY <1>1, <1>3, <1>4

\* What hop k finds when it takes off its layer
LEMMA OpenedFacts ==
    ASSUME Fits, NEW k \in 1..Layers, NEW inner, HasLength(inner, Size),
           NEW hmac, HasLength(hmac, HMACSize), k < Layers => Ending(k + 1, inner),
           NEW p, p = Layer(k, inner, hmac),
           NEW opened, opened = xor(p \o Zeros(Size), Stream(secrets[k], 2 * Size))
    PROVE  /\ HasLength(opened, 2 * Size)
           /\ \A j \in 1..Length(k) : opened[j] = Prepend(k, hmac)[j]
           /\ k < Layers => \A j \in 1..Size : opened[Length(k) + j] = inner[j]
<1>. DEFINE L == Length(k)
            pre == Prepend(k, hmac)
            longer == p \o Zeros(Size)
            stream == Stream(secrets[k], 2 * Size)
<1>1. /\ Size \in Nat /\ L \in 1..Size /\ Offset[k - 1] \in Nat /\ Offset[k] = Offset[k - 1] + L
      /\ Offset[k] <= Size /\ Layers \in Nat
  <2>1. k \in 0..Layers
    OBVIOUS
  <2>. QED  BY <2>1, LayersFit, SizeFacts, RouteFacts DEF Fits
<1>2. /\ HasLength(p, Size)
      /\ \A j \in 1..L : p[j] = SymDiff(pre[j], {Rho(secrets[k], j)})
      /\ k # Layers =>
            \A j \in 1..Size - L : p[L + j] = SymDiff(inner[j], {Rho(secrets[k], L + j)})
  <2>1. HasLength(p, Size)
    BY LayerFacts
  <2>2. \A j \in 1..Length(k) : p[j] = SymDiff(Prepend(k, hmac)[j], {Rho(secrets[k], j)})
    BY LayerFacts
  <2>3. k # Layers => \A j \in 1..Size - Length(k) :
                         p[Length(k) + j] = SymDiff(inner[j], {Rho(secrets[k], Length(k) + j)})
    BY LayerFacts
  <2>. QED  BY <2>1, <2>2, <2>3
<1>3. HasLength(Zeros(Size), Size) /\ \A j \in 1..Size : Zeros(Size)[j] = {}
  BY <1>1, ZerosFacts
<1>4. Joins(longer, p, Zeros(Size)) /\ opened = xor(longer, stream)
  BY DEF Joins
<1>5. HasLength(stream, 2 * Size) /\ \A j \in 1..2 * Size : stream[j] = {Rho(secrets[k], j)}
  BY SizeFacts
<1>. HIDE DEF L, pre, longer, stream
<1>6. /\ HasLength(longer, 2 * Size)
      /\ \A j \in 1..Size : longer[j] = p[j]
      /\ \A j \in 1..Size : longer[Size + j] = {}
  <2>1. Size + Size = 2 * Size
    BY <1>1
  <2>2. /\ HasLength(longer, Size + Size)
        /\ \A j \in 1..Size : longer[j] = p[j]
        /\ \A j \in 1..Size : longer[Size + j] = Zeros(Size)[j]
    BY <1>2, <1>3, <1>4, LengthConcat
  <2>. QED  BY <1>3, <2>1, <2>2
<1>7. /\ HasLength(opened, 2 * Size)
      /\ \A j \in 1..2 * Size : opened[j] = SymDiff(longer[j], {Rho(secrets[k], j)})
  <2>1. 2 * Size \in 0..2 * Size
    BY <1>1
  <2>2. /\ HasLength(xor(longer, stream), 2 * Size)
        /\ \A j \in 1..2 * Size : xor(longer, stream)[j] = SymDiff(longer[j], stream[j])
    BY <1>5, <1>6, <2>1, XorFacts
  <2>. QED  BY <1>4, <1>5, <2>2
<1>8. ASSUME NEW j \in 1..L PROVE opened[j] = pre[j]
  <2>1. j \in 1..Size /\ j \in 1..2 * Size
    BY <1>1
  <2>2. opened[j] = SymDiff(SymDiff(pre[j], {Rho(secrets[k], j)}), {Rho(secrets[k], j)})
    BY <1>2, <1>6, <1>7, <2>1
  <2>. QED  BY <2>2, Involution, Zenon
<1>9. ASSUME k < Layers, NEW j \in 1..Size PROVE opened[L + j] = inner[j]
  <2>1. L + j \in 1..2 * Size /\ opened[L + j] = SymDiff(longer[L + j], {Rho(secrets[k], L + j)})
    <3>1. L + j \in 1..2 * Size
      BY <1>1
    <3>. QED  BY <1>7, <3>1
  <2>2. CASE j \in 1..Size - L
    <3>1. L + j \in 1..Size
      BY <1>1, <2>2
    <3>2. opened[L + j] = SymDiff(SymDiff(inner[j], {Rho(secrets[k], L + j)}), {Rho(secrets[k], L + j)})
      <4>1. longer[L + j] = SymDiff(inner[j], {Rho(secrets[k], L + j)})
        <5>1. p[L + j] = SymDiff(inner[j], {Rho(secrets[k], L + j)})
          <6>1. k # Layers
            BY <1>1, <1>9
          <6>. QED  BY <1>2, <2>2, <6>1
        <5>2. longer[L + j] = p[L + j]
          BY <1>6, <3>1
        <5>. QED  BY <5>1, <5>2
      <4>. QED  BY <2>1, <4>1
    <3>3. SymDiff(SymDiff(inner[j], {Rho(secrets[k], L + j)}), {Rho(secrets[k], L + j)}) = inner[j]
      BY Involution, Zenon
    <3>. QED  BY <3>2, <3>3, Zenon
  <2>3. CASE j \notin 1..Size - L
    <3>. DEFINE i == j - Size + Offset[k]
                x == L + j - Size
    <3>1. /\ x \in 1..Size /\ Size + x = L + j
          /\ i \in Offset[k - 1] + 1..Offset[k] /\ i \in 1..Offset[k]
          /\ Size - Offset[k] + i = j /\ Size - Offset[k - 1] + i = L + j
      BY <1>1, <2>3
    <3>. HIDE DEF i, x
    <3>2. longer[L + j] = {}
      BY <1>6, <3>1
    <3>3. opened[L + j] = {Rho(secrets[k], L + j)}
      BY <2>1, <3>2, Involution, Zenon
    <3>4. inner[j] = FillerUpTo[k][i]
      <4>1. (k + 1) - 1 = k
        BY <1>1
      <4>. QED  BY <1>9, <3>1, <4>1 DEF Ending
    <3>5. FillerUpTo[k][i] = SymDiff({}, {Rho(secrets[k], L + j)})
      BY <1>9, <3>1, FillerStep
    <3>. QED  BY <3>3, <3>4, <3>5, Involution, Zenon
  <2>. QED  BY <2>2, <2>3
<1>. QED  BY <1>7, <1>8, <1>9 DEF L, pre

\* The hop reads the length of its payload, and its payload and the HMAC of
\* the next hop's packet are where it looks for them.
LEMMA PeelFacts ==
    ASSUME Fits, NEW k \in 1..Layers, NEW hmac, HasLength(hmac, HMACSize),
           NEW opened, HasLength(opened, 2 * Size),
           \A j \in 1..Length(k) : opened[j] = Prepend(k, hmac)[j],
           NEW passed, Cuts(passed, opened, Length(k) + 1, Length(k) + Size)
    PROVE  LET n == hops[k].length
           IN  /\ LengthsRead(opened) = {n}
               /\ SubSeq(opened, BigSizeLength(n) + 1, BigSizeLength(n) + n) = Payload(k)
               /\ SubSeq(opened, Length(k) - HMACSize + 1, Length(k)) = hmac
               /\ HasLength(passed, Size)
               /\ \A j \in 1..Size : passed[j] = opened[Length(k) + j]
<1>. DEFINE n == hops[k].length
            size == BigSizeLength(n)
            L == Length(k)
            pre == Prepend(k, hmac)
<1>1. /\ Size \in Nat /\ n \in Nat /\ size \in {1, 3} /\ HMACSize \in Nat
      /\ L = size + n + HMACSize /\ L \in 1..Size
  BY LayersFit, SizeFacts, RouteFacts DEF Fits
<1>2. /\ \A j \in 1..size : pre[j] = {<<"size", n, j>>}
      /\ \A j \in 1..n : pre[size + j] = {<<"payload", k, j>>}
      /\ \A j \in 1..HMACSize : pre[size + n + j] = hmac[j]
  BY PrependFacts DEF Fits
<1>3. \A j \in 1..L : opened[j] = pre[j]
  OBVIOUS
<1>4. HasLength(BigSize(n), size) /\ \A j \in 1..size : BigSize(n)[j] = {<<"size", n, j>>}
  BY <1>1, BytesFacts DEF BigSize
<1>5. HasLength(Payload(k), n) /\ \A j \in 1..n : Payload(k)[j] = {<<"payload", k, j>>}
  BY <1>1, BytesFacts DEF Payload
<1>. HIDE DEF pre, L, size, n
<1>6. ASSUME NEW a \in 1..2 * Size + 1, NEW len \in Nat, a + len - 1 <= 2 * Size
      PROVE  /\ HasLength(SubSeq(opened, a, a + len - 1), len)
             /\ \A j \in 1..len : SubSeq(opened, a, a + len - 1)[j] = opened[a + j - 1]
  <2>1. 2 * Size \in Nat /\ a + len - 1 \in a - 1..2 * Size /\ (a + len - 1) - a + 1 = len
    BY <1>1, <1>6
  <2>2. /\ HasLength(SubSeq(opened, a, a + len - 1), (a + len - 1) - a + 1)
        /\ \A j \in 1..(a + len - 1) - a + 1 : SubSeq(opened, a, a + len - 1)[j] = opened[a + j - 1]
    BY <2>1, LengthSubSeq
  <2>. QED  BY <2>1, <2>2
<1>7. SubSeq(opened, 1, size) = BigSize(n)
  <2>1. 1 \in 1..2 * Size + 1 /\ size \in Nat /\ 1 + size - 1 <= 2 * Size /\ 1 + size - 1 = size
    BY <1>1
  <2>2. /\ HasLength(SubSeq(opened, 1, size), size)
        /\ \A j \in 1..size : SubSeq(opened, 1, size)[j] = opened[1 + j - 1]
    BY <1>6, <2>1
  <2>3. ASSUME NEW j \in 1..size PROVE 1 + j - 1 = j /\ j \in 1..L
    BY <1>1
  <2>4. \A j \in 1..size : SubSeq(opened, 1, size)[j] = BigSize(n)[j]
    BY <1>2, <1>3, <1>4, <2>2, <2>3
  <2>. QED  BY <1>4, <2>2, <2>4, LengthSame
<1>8. LengthsRead(opened) = {n}
  <2>1. 1 \in 1..size /\ 1 \in 1..L
    BY <1>1
  <2>2. opened[1] = {<<"size", n, 1>>}
    BY <1>2, <1>3, <2>1
  <2>. DEFINE x == <<"size", n, 1>>
              S == {b \in opened[1] : b[1] = "size"}
  <2>3. S = {x} /\ x[2] = n
    BY <2>2
  <2>. HIDE DEF S, x
  <2>5. {byte[2] : byte \in S} = {n}
    BY <2>3
  <2>4. {byte[2] : byte \in {b \in opened[1] : b[1] = "size"}} = {n}
    BY <2>5 DEF S
  <2>. QED  BY <1>7, <2>4 DEF LengthsRead, size
<1>9. SubSeq(opened, size + 1, size + n) = Payload(k)
  <2>1. size + 1 \in 1..2 * Size + 1 /\ (size + 1) + n - 1 <= 2 * Size /\ (size + 1) + n - 1 = size + n
    BY <1>1
  <2>2. /\ HasLength(SubSeq(opened, size + 1, size + n), n)
        /\ \A j \in 1..n : SubSeq(opened, size + 1, size + n)[j] = opened[(size + 1) + j - 1]
    BY <1>1, <1>6, <2>1
  <2>3. ASSUME NEW j \in 1..n PROVE (size + 1) + j - 1 = size + j /\ size + j \in 1..L
    BY <1>1
  <2>4. ASSUME NEW j \in 1..n PROVE SubSeq(opened, size + 1, size + n)[j] = Payload(k)[j]
    <3>1. SubSeq(opened, size + 1, size + n)[j] = opened[size + j]
      BY <2>2, <2>3
    <3>2. opened[size + j] = {<<"payload", k, j>>}
      BY <1>2, <1>3, <2>3
    <3>. QED  BY <1>5, <3>1, <3>2
  <2>. QED  BY <1>5, <2>2, <2>4, LengthSame
<1>10. SubSeq(opened, L - HMACSize + 1, L) = hmac
  <2>. DEFINE a == L - HMACSize + 1
  <2>1. a \in 1..2 * Size + 1 /\ a + HMACSize - 1 <= 2 * Size /\ a + HMACSize - 1 = L
    BY <1>1
  <2>3. ASSUME NEW j \in 1..HMACSize PROVE a + j - 1 = size + n + j /\ size + n + j \in 1..L
    BY <1>1
  <2>. HIDE DEF a
  <2>2. /\ HasLength(SubSeq(opened, a, L), HMACSize)
        /\ \A j \in 1..HMACSize : SubSeq(opened, a, L)[j] = opened[a + j - 1]
    BY <1>1, <1>6, <2>1
  <2>4. \A j \in 1..HMACSize : SubSeq(opened, a, L)[j] = hmac[j]
    BY <1>2, <1>3, <2>2, <2>3
  <2>5. SubSeq(opened, a, L) = hmac
    BY <2>2, <2>4, LengthSame
  <2>. QED  BY <2>5 DEF a
<1>12. passed = SubSeq(opened, L + 1, L + Size)
  BY DEF L, Cuts
<1>11. HasLength(passed, Size) /\ \A j \in 1..Size : passed[j] = opened[L + j]
  <2>1. L + 1 \in 1..2 * Size + 1 /\ (L + 1) + Size - 1 <= 2 * Size /\ (L + 1) + Size - 1 = L + Size
    BY <1>1
  <2>2. /\ HasLength(SubSeq(opened, L + 1, L + Size), Size)
        /\ \A j \in 1..Size : SubSeq(opened, L + 1, L + Size)[j] = opened[(L + 1) + j - 1]
    BY <1>1, <1>6, <2>1
  <2>3. \A j \in 1..Size : (L + 1) + j - 1 = L + j
    BY <1>1
  <2>. QED  BY <1>12, <2>2, <2>3
<1>. QED  BY <1>8, <1>9, <1>10, <1>11 DEF L, size, n

\* No payload comes out from under its stream when a layer is added: the
\* streams of two hops have no byte in common.
LEMMA HiddenKept ==
    ASSUME Fits, Distinct, NEW k \in 1..Layers, NEW inner, HasLength(inner, Size),
           Hidden(k + 1, inner), NEW hmac, HasLength(hmac, HMACSize),
           NoPayload(hmac, HMACSize)
    PROVE  Hidden(k, Layer(k, inner, hmac))
<1>. DEFINE p == Layer(k, inner, hmac)
            L == Length(k)
            pre == Prepend(k, hmac)
            n == hops[k].length
            size == BigSizeLength(n)
            rho(q) == Rho(secrets[k], q)
<1>1. /\ Size \in Nat /\ L \in 1..Size /\ Offset[k - 1] \in Nat /\ Offset[k] = Offset[k - 1] + L
      /\ Offset[k] <= Size /\ Layers \in Nat
      /\ n \in Nat /\ size \in Nat /\ HMACSize \in Nat /\ L = size + n + HMACSize
  <2>1. k \in 0..Layers
    OBVIOUS
  <2>. QED  BY <2>1, LayersFit, SizeFacts, RouteFacts DEF Fits
<1>. HIDE DEF p
<1>2. \A j \in 1..Length(k) : p[j] = SymDiff(Prepend(k, hmac)[j], {Rho(secrets[k], j)})
  BY LayerFacts DEF p
<1>3. k # Layers => \A j \in 1..Size - Length(k) :
                       p[Length(k) + j] = SymDiff(inner[j], {Rho(secrets[k], Length(k) + j)})
  BY LayerFacts DEF p
<1>4. k = Layers =>
        /\ \A j \in 1..Size - Offset[k] :
              p[Length(k) + j] = SymDiff(inner[j], {Rho(secrets[k], Length(k) + j)})
        /\ \A j \in 1..Offset[k - 1] : p[Size - Offset[k - 1] + j] = Filler[j]
        /\ Filler \in Streamed(Offset[k - 1])
  BY LayerFacts DEF p
<1>5. /\ \A j \in 1..size : pre[j] = {<<"size", n, j>>}
      /\ \A j \in 1..n : pre[size + j] = {<<"payload", k, j>>}
      /\ \A j \in 1..HMACSize : pre[size + n + j] = hmac[j]
  BY PrependFacts DEF Fits
<1>. HIDE DEF L, pre, n, size
<1>. SUFFICES ASSUME NEW m \in 1..Layers, NEW q \in 1..Size, NEW i \in Nat,
                     <<"payload", m, i>> \in p[q]
              PROVE  m >= k /\ \E x \in 1..Size : Rho(secrets[m], x) \in p[q]
  BY DEF Hidden, p
<1>6. CASE q \in 1..L
  <2>1. p[q] = SymDiff(pre[q], {rho(q)})
    BY <1>2, <1>6 DEF L, pre
  <2>2. <<"payload", m, i>> # rho(q)
    BY DEF Rho
  <2>. HIDE DEF rho
  <2>3. <<"payload", m, i>> \in pre[q]
    <3>1. <<"payload", m, i>> \in SymDiff(pre[q], {rho(q)}) <=> <<"payload", m, i>> \in pre[q]
      BY <2>2, Involution, Zenon
    <3>. QED  BY <2>1, <3>1
  <2>4. CASE q \in 1..size
    <3>1. pre[q] = {<<"size", n, q>>}
      BY <1>5, <2>4
    <3>2. <<"payload", m, i>> # <<"size", n, q>>
      OBVIOUS
    <3>. QED  BY <2>3, <3>1, <3>2
  <2>5. CASE \E j \in 1..n : q = size + j
    <3>1. PICK j \in 1..n : q = size + j
      BY <2>5
    <3>2. pre[q] = {<<"payload", k, j>>}
      BY <1>5, <3>1
    <3>3. m = k
      <4>1. <<"payload", m, i>> = <<"payload", k, j>>
        BY <2>3, <3>2
      <4>. QED  BY <4>1
    <3>4. rho(q) \notin pre[q]
      <4>1. rho(q) # <<"payload", k, j>>
        BY DEF rho, Rho
      <4>. QED  BY <3>2, <4>1
    <3>5. rho(q) \in p[q]
      <4>1. rho(q) \in SymDiff(pre[q], {rho(q)})
        BY <3>4, Involution, Zenon
      <4>. QED  BY <2>1, <4>1
    <3>. QED  BY <3>3, <3>5 DEF rho
  <2>6. CASE \E j \in 1..HMACSize : q = size + n + j
    BY <1>5, <2>3, <2>6 DEF NoPayload
  <2>7. q \in 1..size \/ (\E j \in 1..n : q = size + j) \/ \E j \in 1..HMACSize : q = size + n + j
    <3>1. q - size \in 1..n => q = size + (q - size)
      BY <1>1
    <3>2. q - size - n \in 1..HMACSize => q = size + n + (q - size - n)
      BY <1>1
    <3>3. q \in 1..size \/ q - size \in 1..n \/ q - size - n \in 1..HMACSize
      BY <1>1, <1>6
    <3>. QED  BY <3>1, <3>2, <3>3
  <2>. QED  BY <2>4, <2>5, <2>6, <2>7
<1>7. ASSUME NEW j \in 1..Size, q = L + j, p[q] = SymDiff(inner[j], {rho(q)})
      PROVE  m >= k /\ \E x \in 1..Size : Rho(secrets[m], x) \in p[q]
  <2>1. <<"payload", m, i>> # rho(q)
    BY DEF Rho
  <2>. HIDE DEF rho
  <2>2. <<"payload", m, i>> \in inner[j]
    <3>1. <<"payload", m, i>> \in SymDiff(inner[j], {rho(q)}) <=> <<"payload", m, i>> \in inner[j]
      BY <2>1, Involution, Zenon
    <3>. QED  BY <1>7, <3>1
  <2>3. m >= k + 1 /\ \E x \in 1..Size : Rho(secrets[m], x) \in inner[j]
    BY <2>2 DEF Hidden
  <2>4. PICK x \in 1..Size : Rho(secrets[m], x) \in inner[j]
    BY <2>3
  <2>5. secrets[m] # secrets[k]
    BY <1>1, <2>3 DEF Distinct
  <2>6. Rho(secrets[m], x) # rho(q)
    BY <2>5 DEF rho, Rho
  <2>7. Rho(secrets[m], x) \in p[q]
    <3>1. Rho(secrets[m], x) \in SymDiff(inner[j], {rho(q)})
      BY <2>4, <2>6, Involution, Zenon
    <3>. QED  BY <1>7, <3>1
  <2>. QED  BY <1>1, <2>3, <2>7
<1>8. CASE q \notin 1..L /\ (k # Layers \/ q - L \in 1..Size - Offset[k])
  <2>1. q - L \in 1..Size - L /\ q = L + (q - L) /\ q - L \in 1..Size
    BY <1>1, <1>8
  <2>2. p[L + (q - L)] = SymDiff(inner[q - L], {Rho(secrets[k], L + (q - L))})
    <3>1. CASE k # Layers
      BY <1>3, <2>1, <3>1 DEF L
    <3>2. CASE k = Layers
      BY <1>4, <1>8, <3>2 DEF L
    <3>. QED  BY <3>1, <3>2
  <2>. QED  BY <1>7, <2>1, <2>2
<1>9. CASE q \notin 1..L /\ k = Layers /\ q - L \notin 1..Size - Offset[k]
  <2>. DEFINE j == q - Size + Offset[k - 1]
  <2>1. j \in 1..Offset[k - 1] /\ Size - Offset[k - 1] + j = q
    BY <1>1, <1>9
  <2>. HIDE DEF j
  <2>2. p[q] = Filler[j] /\ Filler[j] \in SUBSET {Rho(secrets[l], x) : l \in 1..Layers, x \in Nat}
    BY <1>4, <1>9, <2>1 DEF Streamed
  <2>3. PICK l \in 1..Layers, x \in Nat : <<"payload", m, i>> = Rho(secrets[l], x)
    BY <2>2
  <2>. QED  BY <2>3 DEF Rho
<1>. QED  BY <1>6, <1>8, <1>9

-----------------------------------------------------------------------------
(* HMACs, and the chain of packets *)

LEMMA HmacFacts ==
    ASSUME NEW secret, NEW p, HasLength(p, Size)
    PROVE  /\ HasLength(HMAC(secret, p), HMACSize)
           /\ NoPayload(HMAC(secret, p), HMACSize)
           /\ HMAC(secret, p) # Zeros(HMACSize)
           /\ \A q : HasLength(q, Size) /\ HMAC(secret, q) = HMAC(secret, p) => q = p
<1>. DEFINE with(q) == q \o <<AssociatedData>>
            over(q) == [over |-> with(q), secret |-> secret]
<1>1. HMACSize \in Nat /\ 1 \in 1..HMACSize /\ Size \in Nat
  BY SizeFacts
<1>2. \A q : /\ HasLength(HMAC(secret, q), HMACSize)
             /\ \A j \in 1..HMACSize : HMAC(secret, q)[j] = {<<"hmac", over(q), j>>}
  BY <1>1, BytesFacts DEF HMAC
<1>3. \A q : over(q).over = with(q)
  OBVIOUS
<1>4. ASSUME NEW q, HasLength(q, Size) PROVE \A j \in 1..Size : with(q)[j] = q[j]
  <2>. DEFINE u == with(q)
              t == <<AssociatedData>>
  <2>1. Joins(u, q, t)
    BY DEF Joins
  <2>2. HasLength(t, 1)
    BY DEF HasLength
  <2>. HIDE DEF u, t
  <2>3. \A j \in 1..Size : u[j] = q[j]
    BY <1>4, <2>1, <2>2, LengthConcat
  <2>. QED  BY <2>3 DEF u
<1>. HIDE DEF over, with
<1>5. NoPayload(HMAC(secret, p), HMACSize)
  <2>. SUFFICES ASSUME NEW m \in 1..Layers, NEW j \in 1..HMACSize, NEW i \in Nat
                PROVE  <<"payload", m, i>> \notin HMAC(secret, p)[j]
    BY DEF NoPayload
  <2>1. <<"payload", m, i>> # <<"hmac", over(p), j>>
    OBVIOUS
  <2>. QED  BY <1>2, <2>1
<1>6. HMAC(secret, p) # Zeros(HMACSize)
  <2>1. HMAC(secret, p)[1] = {<<"hmac", over(p), 1>>} /\ Zeros(HMACSize)[1] = {}
    BY <1>1, <1>2, ZerosFacts
  <2>. QED  BY <2>1
<1>7. ASSUME NEW q, HasLength(q, Size), HMAC(secret, q) = HMAC(secret, p) PROVE q = p
  <2>1. {<<"hmac", over(q), 1>>} = {<<"hmac", over(p), 1>>}
    <3>1. HMAC(secret, q)[1] = {<<"hmac", over(q), 1>>} /\ HMAC(secret, p)[1] = {<<"hmac", over(p), 1>>}
      BY <1>1, <1>2
    <3>. QED  BY <1>7, <3>1
  <2>2. over(q) = over(p)
    <3>. DEFINE x == <<"hmac", over(q), 1>>
                y == <<"hmac", over(p), 1>>
    <3>1. x[2] = over(q) /\ y[2] = over(p)
      OBVIOUS
    <3>2. {x} = {y}
      BY <2>1
    <3>. HIDE DEF x, y
    <3>3. x = y
      BY <3>2
    <3>. QED  BY <3>1, <3>3
  <2>3. with(q) = with(p)
    <3>1. over(q).over = over(p).over
      BY <2>2
    <3>. QED  BY <1>3, <3>1
  <2>4. \A j \in 1..Size : q[j] = p[j]
    BY <1>4, <1>7, <2>3
  <2>. QED  BY <1>7, <2>4, LengthSame
<1>. QED  BY <1>2, <1>5, <1>6, <1>7

\* The packets and their HMACs from hop `from' on, the padding behind them
Wraps(P, M, from) ==
    /\ M[Layers + 1] = Zeros(HMACSize)
    /\ \A k \in from..Layers + 1 :
          /\ HasLength(P[k], Size) /\ HasLength(M[k], HMACSize)
          /\ Hidden(k, P[k]) /\ NoPayload(M[k], HMACSize)
    /\ \A k \in from..Layers :
          /\ P[k] = Layer(k, P[k + 1], M[k + 1]) /\ Ending(k, P[k])
          /\ M[k] = HMAC(secrets[k], P[k])

\* The padding is the first of them.
LEMMA WrapsNone ==
    ASSUME hops \in Routes
    PROVE  \E P, M : /\ Wraps(P, M, Layers + 1)
                     /\ Padding = P[Layers + 1] /\ Zeros(HMACSize) = M[Layers + 1]
                     /\ HasLength(Padding, Size) /\ HasLength(Zeros(HMACSize), HMACSize)
<1>. DEFINE P == [k \in 1..Layers + 1 |-> Padding]
            M == [k \in 1..Layers + 1 |-> Zeros(HMACSize)]
<1>1. Layers \in Nat /\ Size \in Nat /\ HMACSize \in Nat
  BY RouteFacts, SizeFacts
<1>2. P[Layers + 1] = Padding /\ M[Layers + 1] = Zeros(HMACSize)
  BY <1>1
<1>3. /\ HasLength(Padding, Size)
      /\ \A j \in 1..Size : Padding[j] = {<<"pad", SessionKey, j>>}
  BY <1>1, BytesFacts DEF Padding, Size
<1>4. HasLength(Zeros(HMACSize), HMACSize) /\ \A j \in 1..HMACSize : Zeros(HMACSize)[j] = {}
  BY <1>1, ZerosFacts
<1>. HIDE DEF P, M
<1>5. Hidden(Layers + 1, Padding)
  <2>. SUFFICES ASSUME NEW m \in 1..Layers, NEW j \in 1..Size, NEW i \in Nat,
                       <<"payload", m, i>> \in Padding[j]
                PROVE  FALSE
    BY DEF Hidden
  <2>1. <<"payload", m, i>> # <<"pad", SessionKey, j>>
    OBVIOUS
  <2>. QED  BY <1>3, <2>1
<1>6. NoPayload(Zeros(HMACSize), HMACSize)
  BY <1>4 DEF NoPayload
<1>7. \A k \in Layers + 1..Layers + 1 : k = Layers + 1
  BY <1>1
<1>8. \A k \in Layers + 1..Layers : FALSE
  BY <1>1
<1>9. Wraps(P, M, Layers + 1)
  BY <1>2, <1>3, <1>4, <1>5, <1>6, <1>7, <1>8 DEF Wraps
<1>. QED  BY <1>2, <1>3, <1>4, <1>9

\* One more layer
LEMMA WrapsMore ==
    ASSUME Fits, Distinct, NEW k \in 1..Layers, NEW P, NEW M, Wraps(P, M, k + 1),
           NEW p, p = Layer(k, P[k + 1], M[k + 1])
    PROVE  /\ HasLength(p, Size) /\ HasLength(HMAC(secrets[k], p), HMACSize)
           /\ \E Q, N : Wraps(Q, N, k) /\ p = Q[k] /\ HMAC(secrets[k], p) = N[k]
<1>. DEFINE mac1 == HMAC(secrets[k], p)
            Q == [i \in 1..Layers + 1 |-> IF i = k THEN p ELSE P[i]]
            N == [i \in 1..Layers + 1 |-> IF i = k THEN mac1 ELSE M[i]]
<1>1. Layers \in Nat
  BY RouteFacts DEF Fits
<1>2. /\ k + 1 \in k + 1..Layers + 1 /\ k \in 1..Layers + 1
      /\ \A i \in k + 1..Layers + 1 : i \in 1..Layers + 1 /\ i # k
  BY <1>1
<1>3. /\ HasLength(P[k + 1], Size) /\ HasLength(M[k + 1], HMACSize)
      /\ Hidden(k + 1, P[k + 1]) /\ NoPayload(M[k + 1], HMACSize)
  BY <1>2 DEF Wraps
<1>4. HasLength(p, Size)
  BY <1>3, LayerFacts
<1>5. Hidden(k, p)
  BY <1>3, HiddenKept
<1>6. k < Layers => Ending(k + 1, P[k + 1])
  <2>1. k < Layers => k + 1 \in k + 1..Layers
    BY <1>1
  <2>. QED  BY <2>1 DEF Wraps
<1>7. Ending(k, p)
  BY <1>3, <1>6, EndingKept
<1>8. HasLength(mac1, HMACSize) /\ NoPayload(mac1, HMACSize)
  BY <1>4, HmacFacts
<1>9. Q[k] = p /\ N[k] = mac1 /\ \A i \in k + 1..Layers + 1 : Q[i] = P[i] /\ N[i] = M[i]
  BY <1>2
<1>. HIDE DEF Q, N, mac1
<1>10. N[Layers + 1] = Zeros(HMACSize)
  <2>1. Layers + 1 \in k + 1..Layers + 1
    BY <1>1
  <2>. QED  BY <1>9, <2>1 DEF Wraps
<1>11. ASSUME NEW i \in k..Layers + 1
       PROVE  /\ HasLength(Q[i], Size) /\ HasLength(N[i], HMACSize)
              /\ Hidden(i, Q[i]) /\ NoPayload(N[i], HMACSize)
  <2>1. CASE i = k
    BY <1>4, <1>5, <1>8, <1>9, <2>1
  <2>2. CASE i # k
    <3>1. i \in k + 1..Layers + 1
      BY <1>1, <2>2
    <3>. QED  BY <1>9, <3>1 DEF Wraps
  <2>. QED  BY <2>1, <2>2
<1>12. ASSUME NEW i \in k..Layers
       PROVE  /\ Q[i] = Layer(i, Q[i + 1], N[i + 1]) /\ Ending(i, Q[i])
              /\ N[i] = HMAC(secrets[i], Q[i])
  <2>1. i + 1 \in k + 1..Layers + 1
    BY <1>1
  <2>2. Q[i + 1] = P[i + 1] /\ N[i + 1] = M[i + 1]
    BY <1>9, <2>1
  <2>3. CASE i = k
    BY <1>7, <1>9, <2>2, <2>3 DEF mac1
  <2>4. CASE i # k
    <3>1. i \in k + 1..Layers /\ i \in k + 1..Layers + 1
      BY <1>1, <2>4
    <3>. QED  BY <1>9, <2>2, <3>1 DEF Wraps
  <2>. QED  BY <2>3, <2>4
<1>13. Wraps(Q, N, k)
  BY <1>10, <1>11, <1>12 DEF Wraps
<1>. QED  BY <1>4, <1>8, <1>9, <1>13 DEF mac1

\* What hop k reads and passes on
FoundIn(opened, k) ==
    SubSeq(opened, BigSizeLength(hops[k].length) + 1,
           BigSizeLength(hops[k].length) + hops[k].length)

NextIn(opened, k) == SubSeq(opened, Length(k) - HMACSize + 1, Length(k))

PassedOn(opened, k) == SubSeq(opened, Length(k) + 1, Length(k) + Size)

Opens(opened, k, p) == opened = xor(p \o Zeros(Size), Stream(secrets[k], 2 * Size))

Last(k) == k = Layers

LEMMA WrapsPeel ==
    ASSUME Fits, NEW k \in 1..Layers, NEW P, NEW M, Wraps(P, M, 1),
           NEW opened, Opens(opened, k, P[k])
    PROVE  /\ LengthsRead(opened) = {hops[k].length}
           /\ FoundIn(opened, k) = Payload(k)
           /\ NextIn(opened, k) = M[k + 1]
           /\ HasLength(NextIn(opened, k), HMACSize)
           /\ NextIn(opened, k) = Zeros(HMACSize) <=> Last(k)
           /\ HasLength(PassedOn(opened, k), Size)
           /\ ~Last(k) => PassedOn(opened, k) = P[k + 1] /\ Hidden(k + 1, PassedOn(opened, k))
<1>. DEFINE n == hops[k].length
            passed == PassedOn(opened, k)
            found == FoundIn(opened, k)
            next == NextIn(opened, k)
<1>1. /\ Layers \in Nat /\ k \in 1..Layers + 1 /\ k + 1 \in 1..Layers + 1
      /\ k < Layers => k + 1 \in 1..Layers
  <2>1. Layers \in Nat
    BY RouteFacts DEF Fits
  <2>. QED  BY <2>1
<1>2. /\ HasLength(P[k + 1], Size) /\ HasLength(M[k + 1], HMACSize) /\ Hidden(k + 1, P[k + 1])
      /\ P[k] = Layer(k, P[k + 1], M[k + 1])
      /\ k < Layers => Ending(k + 1, P[k + 1])
  BY <1>1 DEF Wraps
<1>3. /\ HasLength(opened, 2 * Size)
      /\ \A j \in 1..Length(k) : opened[j] = Prepend(k, M[k + 1])[j]
      /\ k < Layers => \A j \in 1..Size : opened[Length(k) + j] = P[k + 1][j]
  BY <1>2, OpenedFacts DEF Opens
<1>. HIDE DEF passed, found, next
<1>4. /\ LengthsRead(opened) = {n}
      /\ found = Payload(k)
      /\ next = M[k + 1]
      /\ HasLength(passed, Size)
      /\ \A j \in 1..Size : passed[j] = opened[Length(k) + j]
  <2>. DEFINE hmac == M[k + 1]
  <2>1. HasLength(hmac, HMACSize) /\ \A j \in 1..Length(k) : opened[j] = Prepend(k, hmac)[j]
    BY <1>2, <1>3
  <2>2. Cuts(passed, opened, Length(k) + 1, Length(k) + Size)
    BY DEF passed, PassedOn, Cuts
  <2>. HIDE DEF hmac
  <2>3. LengthsRead(opened) = {n}
    BY <1>3, <2>1, <2>2, PeelFacts
  <2>4. SubSeq(opened, BigSizeLength(n) + 1, BigSizeLength(n) + n) = Payload(k)
    BY <1>3, <2>1, <2>2, PeelFacts
  <2>5. SubSeq(opened, Length(k) - HMACSize + 1, Length(k)) = hmac
    BY <1>3, <2>1, <2>2, PeelFacts
  <2>6. /\ HasLength(passed, Size)
        /\ \A j \in 1..Size : passed[j] = opened[Length(k) + j]
    BY <1>3, <2>1, <2>2, PeelFacts
  <2>7. found = Payload(k) /\ next = hmac
    BY <2>4, <2>5 DEF found, next, FoundIn, NextIn
  <2>. QED  BY <2>3, <2>6, <2>7 DEF hmac
<1>5. ASSUME k < Layers PROVE passed = P[k + 1] /\ Hidden(k + 1, passed)
  <2>1. \A j \in 1..Size : passed[j] = P[k + 1][j]
    BY <1>3, <1>4, <1>5
  <2>2. passed = P[k + 1]
    BY <1>2, <1>4, <2>1, LengthSame
  <2>. QED  BY <1>2, <2>2
<1>6. M[k + 1] = Zeros(HMACSize) <=> k = Layers
  <2>1. CASE k = Layers
    BY <2>1 DEF Wraps
  <2>2. CASE k < Layers
    <3>1. M[k + 1] = HMAC(secrets[k + 1], P[k + 1])
      BY <1>1, <2>2 DEF Wraps
    <3>2. HMAC(secrets[k + 1], P[k + 1]) # Zeros(HMACSize)
      BY <1>2, HmacFacts
    <3>. QED  BY <2>2, <3>1, <3>2
  <2>. QED  BY <1>1, <2>1, <2>2
<1>7. ~Last(k) => k < Layers
  BY <1>1 DEF Last
<1>. QED  BY <1>2, <1>4, <1>5, <1>6, <1>7 DEF Last, passed, found, next

-----------------------------------------------------------------------------
(***************************************************************************)
(* The inductive invariant.  While secrets are derived, the ephemeral key  *)
(* has been blinded by each of them, so it has as many factors as there    *)
(* are secrets; and the k-th secret was made with a key of k - 1 factors.  *)
(* While layers are added, there are packets for the hops behind, each     *)
(* wrapped around the next; and what is on its way is one of them.         *)
(***************************************************************************)
KeyUpTo(n) == {secrets[j] : j \in 1..n}

Factors(secret) == Cardinality(secret.key)

Derived ==
    /\ Len(secrets) \in Nat
    /\ secrets = [i \in 1..Len(secrets) |-> secrets[i]]
    /\ \A i \in 1..Len(secrets) :
          Factors(secrets[i]) = i - 1 /\ secrets[i] = ECDH(KeyUpTo(i - 1), hops[i].node)

Deriving ==
    stage \in {"validating", "deriving"} =>
        /\ IsFiniteSet(key) /\ Cardinality(key) = Len(secrets)
        /\ key = KeyUpTo(Len(secrets))

Counted ==
    /\ hops \in Routes
    /\ stage \in {"validating", "deriving", "wrapping", "sent", "refused", "arrived", "dropped"}
    /\ Len(secrets) <= Layers /\ todo \in 0..Layers /\ Len(read) \in 0..Layers
    /\ read = [k \in 1..Len(read) |-> Payload(k)]
    /\ HasLength(mac, HMACSize) /\ damaged \in BOOLEAN

Prepared ==
    /\ stage \in {"validating", "deriving", "refused"} =>
          payload = <<>> /\ mac = Zeros(HMACSize)
    /\ stage \in {"validating", "deriving", "refused", "wrapping"} =>
          read = <<>> /\ damaged = FALSE
    /\ stage \notin {"validating", "refused"} => Fits

Built ==
    stage \in {"wrapping", "sent", "arrived", "dropped"} =>
        Len(secrets) = Layers /\ HasLength(payload, Size)

Wrapping ==
    stage = "wrapping" =>
        \E P, M : Wraps(P, M, todo + 1) /\ payload = P[todo + 1] /\ mac = M[todo + 1]

\* The packet is the next hop's, or was before it was damaged.
OnTheWay ==
    stage = "sent" =>
        /\ key = KeyUpTo(Len(read))
        /\ Layers > 0 => Len(read) < Layers
        /\ Hidden(Hop, payload)
        /\ \E P, M : Wraps(P, M, 1) /\ mac = M[Hop] /\ (damaged = FALSE <=> payload = P[Hop])

Ended ==
    /\ stage = "dropped" => damaged /\ Len(read) < Layers
    /\ stage = "arrived" => damaged = FALSE /\ Len(read) = Layers /\ Layers > 0

IInv == Derived /\ Deriving /\ Counted /\ Prepared /\ Built /\ Wrapping /\ OnTheWay /\ Ended

LEMMA InitIInv == Init => IInv
<1>. SUFFICES ASSUME Init PROVE IInv
  OBVIOUS
<1>1. /\ secrets = <<>> /\ key = {} /\ stage = "validating" /\ hops \in Routes
      /\ payload = <<>> /\ mac = Zeros(HMACSize) /\ todo = 0 /\ read = <<>> /\ damaged = FALSE
  BY DEF Init, SessionKey
<1>2. Len(secrets) = 0 /\ 1..0 = {} /\ Len(read) = 0 /\ Layers \in Nat
  BY <1>1, RouteFacts
<1>3. secrets = [i \in 1..0 |-> secrets[i]] /\ read = [k \in 1..0 |-> Payload(k)]
  BY <1>1, <1>2
<1>4. KeyUpTo(0) = {}
  BY <1>2 DEF KeyUpTo
<1>5. Derived
  BY <1>2, <1>3 DEF Derived
<1>6. Deriving
  BY <1>1, <1>2, <1>4, FS_EmptySet DEF Deriving
<1>7. HasLength(mac, HMACSize)
  BY <1>1, SizeFacts, ZerosFacts
<1>8. Counted
  <2>1. damaged \in BOOLEAN
    BY <1>1
  <2>. QED  BY <1>1, <1>2, <1>3, <1>7, <2>1 DEF Counted
<1>9. Prepared /\ Built /\ Wrapping /\ OnTheWay /\ Ended
  BY <1>1 DEF Prepared, Built, Wrapping, OnTheWay, Ended
<1>. QED  BY <1>5, <1>6, <1>8, <1>9 DEF IInv

\* What depends on the route, and on the secrets, only
LEMMA SameRoute ==
    ASSUME hops' = hops
    PROVE  /\ Layers' = Layers /\ Offset' = Offset
           /\ Fits' <=> Fits
           /\ \A k : Payload(k)' = Payload(k) /\ Length(k)' = Length(k)
<1>1. Offset' = Offset
  BY DEF Offset
<1>2. Layers' = Layers
  BY DEF Layers
<1>. QED  BY <1>1, <1>2 DEF Fits, Payload, Length

LEMMA SameKeys ==
    ASSUME hops' = hops, secrets' = secrets
    PROVE  /\ \A n : KeyUpTo(n)' = KeyUpTo(n)
           /\ \A P, M, from : Wraps(P, M, from)' <=> Wraps(P, M, from)
           /\ \A k, p : Hidden(k, p)' <=> Hidden(k, p)
           /\ Derived' <=> Derived
<1>1. Offset' = Offset /\ Layers' = Layers
  BY SameRoute
<1>2. FillerUpTo' = FillerUpTo
  BY <1>1 DEF FillerUpTo, FillerStretch
<1>3. Filler' = Filler
  BY <1>2 DEF Filler
<1>4. \A k, inner, hmac : Layer(k, inner, hmac)' = Layer(k, inner, hmac)
  BY <1>3 DEF Layer, Prepended, Prepend, Payload
<1>5. \A k, p : Ending(k, p)' <=> Ending(k, p)
  BY <1>1, <1>2 DEF Ending
<1>6. \A k, p : Hidden(k, p)' <=> Hidden(k, p)
  BY <1>1 DEF Hidden
<1>7. \A bytes, n : NoPayload(bytes, n)' <=> NoPayload(bytes, n)
  BY <1>1 DEF NoPayload
<1>8. \A P, M, from : Wraps(P, M, from)' <=> Wraps(P, M, from)
  BY <1>1, <1>4, <1>5, <1>6, <1>7 DEF Wraps
<1>9. \A n : KeyUpTo(n)' = KeyUpTo(n)
  BY DEF KeyUpTo
<1>10. Derived' <=> Derived
  BY <1>9 DEF Derived, Factors
<1>. QED  BY <1>6, <1>8, <1>9, <1>10

\* Secrets of different places have different numbers of factors.
LEMMA DerivedDistinct ==
    ASSUME Derived
    PROVE  \A i, j \in 1..Len(secrets) : secrets[i] = secrets[j] => i = j
<1>. SUFFICES ASSUME NEW i \in 1..Len(secrets), NEW j \in 1..Len(secrets), secrets[i] = secrets[j]
              PROVE  i = j
  OBVIOUS
<1>1. i \in Nat /\ j \in Nat /\ Factors(secrets[i]) = i - 1 /\ Factors(secrets[j]) = j - 1
  BY DEF Derived
<1>. QED  BY <1>1

LEMMA ValidateIInv ==
    ASSUME IInv, ValidateHops
    PROVE  IInv'
<1>1. /\ stage = "validating" /\ stage' \in {"refused", "deriving"}
      /\ stage' = "deriving" => ~(Offset[Len(hops)] > OnionPacketPayloadSize)
      /\ hops' = hops /\ key' = key /\ secrets' = secrets /\ payload' = payload
      /\ mac' = mac /\ todo' = todo /\ read' = read /\ damaged' = damaged
  BY DEF ValidateHops
<1>2. /\ Layers' = Layers /\ (Fits' <=> Fits) /\ (Derived' <=> Derived)
      /\ \A n : KeyUpTo(n)' = KeyUpTo(n)
      /\ \A k : Payload(k)' = Payload(k)
  BY <1>1, SameRoute, SameKeys
<1>3. Derived'
  BY <1>2 DEF IInv
<1>4. Deriving'
  BY <1>1, <1>2 DEF IInv, Deriving
<1>5. Counted'
  BY <1>1, <1>2 DEF IInv, Counted
<1>6. stage' = "deriving" => Fits
  <2>1. hops \in Routes /\ Layers \in Nat
    BY RouteFacts DEF IInv, Counted
  <2>2. Offset[Layers] \in Nat /\ Size \in Nat
    BY <2>1, Offsets, SizeFacts
  <2>. QED  BY <1>1, <2>1, <2>2 DEF Fits, Layers, Size
<1>7. Prepared'
  BY <1>1, <1>2, <1>6 DEF IInv, Prepared
<1>8. Built' /\ Wrapping' /\ OnTheWay' /\ Ended'
  BY <1>1 DEF Built, Wrapping, OnTheWay, Ended
<1>. QED  BY <1>3, <1>4, <1>5, <1>7, <1>8 DEF IInv

\* A secret made with the key blinded by all secrets before it is a new one:
\* its key has more factors than theirs.
LEMMA DeriveIInv ==
    ASSUME IInv, DeriveSecret
    PROVE  IInv'
<1>. DEFINE n == Len(secrets)
            secret == ECDH(key, hops[n + 1].node)
            universe == {secrets[i] : i \in 1..n} \cup {secret}
<1>1. /\ stage = "deriving" /\ stage' = stage
      /\ secrets' = Append(secrets, secret) /\ key' = key \cup {secret}
      /\ n < Layers /\ hops' = hops /\ payload' = payload
      /\ mac' = mac /\ todo' = todo /\ read' = read /\ damaged' = damaged
  BY DEF DeriveSecret, Blind, Layers
<1>2. /\ n \in Nat /\ secrets = [i \in 1..n |-> secrets[i]]
      /\ \A i \in 1..n : /\ Cardinality(secrets[i].key) = i - 1
                         /\ secrets[i] = ECDH(KeyUpTo(i - 1), hops[i].node)
  BY DEF IInv, Derived, Factors
<1>3. IsFiniteSet(key) /\ Cardinality(key) = n /\ key = KeyUpTo(n)
  BY <1>1 DEF IInv, Deriving
<1>4. secret.key = key /\ secret = ECDH(KeyUpTo(n), hops[n + 1].node)
  BY <1>3 DEF ECDH
<1>. HIDE DEF secret
<1>5. secrets \in Seq(universe) /\ secret \in universe
  <2>1. \A i \in 1..n : secrets[i] \in universe
    OBVIOUS
  <2>2. [i \in 1..n |-> secrets[i]] \in Seq(universe)
    BY <1>2, <2>1, IsASeq
  <2>. QED  BY <1>2, <2>2
<1>6. /\ Len(secrets') = n + 1
      /\ \A i \in 1..n : secrets'[i] = secrets[i]
      /\ secrets'[n + 1] = secret
      /\ secrets' \in Seq(universe)
  BY <1>1, <1>5, AppendProperties
<1>7. secret \notin key
  <2>1. SUFFICES ASSUME NEW i \in 1..n, secret = secrets[i] PROVE FALSE
    BY <1>3 DEF KeyUpTo
  <2>2. n = i - 1
    BY <1>2, <1>3, <1>4, <2>1
  <2>. QED  BY <1>2, <2>2
<1>8. IsFiniteSet(key') /\ Cardinality(key') = n + 1
  BY <1>1, <1>3, <1>7, FS_AddElement
<1>9. \A i \in 0..n : KeyUpTo(i)' = KeyUpTo(i)
  <2>. SUFFICES ASSUME NEW i \in 0..n PROVE {secrets'[j] : j \in 1..i} = {secrets[j] : j \in 1..i}
    BY DEF KeyUpTo
  <2>1. \A j \in 1..i : secrets'[j] = secrets[j]
    BY <1>2, <1>6
  <2>. QED  BY <2>1
<1>10. key' = KeyUpTo(Len(secrets))'
  <2>1. {secrets'[j] : j \in 1..n + 1} = {secrets[j] : j \in 1..n} \cup {secret}
    BY <1>2, <1>6
  <2>2. KeyUpTo(Len(secrets))' = {secrets'[j] : j \in 1..n + 1}
    BY <1>6 DEF KeyUpTo
  <2>. QED  BY <1>1, <1>3, <2>1, <2>2 DEF KeyUpTo
<1>11. ASSUME NEW i \in 1..(n + 1)
       PROVE  Factors(secrets'[i]) = i - 1 /\ secrets'[i] = ECDH(KeyUpTo(i - 1)', hops'[i].node)
  <2>1. i - 1 \in 0..n /\ KeyUpTo(i - 1)' = KeyUpTo(i - 1)
    BY <1>2, <1>9
  <2>2. CASE i = n + 1
    <3>1. i - 1 = n
      BY <1>2, <2>2
    <3>. QED  BY <1>1, <1>3, <1>4, <1>6, <2>1, <2>2, <3>1 DEF Factors
  <2>3. CASE i # n + 1
    <3>1. i \in 1..n
      BY <1>2, <2>3
    <3>. QED  BY <1>1, <1>2, <1>6, <2>1, <3>1 DEF Factors
  <2>. QED  BY <2>2, <2>3
<1>12. secrets' = [i \in 1..(n + 1) |-> secrets'[i]]
  BY <1>6
<1>13. Derived'
  BY <1>2, <1>6, <1>11, <1>12 DEF Derived, Factors
<1>14. Deriving'
  BY <1>6, <1>8, <1>10 DEF Deriving
<1>15. /\ Layers' = Layers /\ (Fits' <=> Fits)
       /\ \A k : Payload(k)' = Payload(k)
  BY <1>1, SameRoute
<1>16. Layers \in Nat
  BY RouteFacts DEF IInv, Counted
<1>17. Counted'
  BY <1>1, <1>2, <1>6, <1>15, <1>16 DEF IInv, Counted
<1>18. Prepared'
  BY <1>1, <1>15 DEF IInv, Prepared
<1>19. Built' /\ Wrapping' /\ OnTheWay' /\ Ended'
  BY <1>1 DEF Built, Wrapping, OnTheWay, Ended
<1>. QED  BY <1>13, <1>14, <1>17, <1>18, <1>19 DEF IInv

LEMMA PadIInv ==
    ASSUME IInv, Pad
    PROVE  IInv'
<1>1. /\ stage = "deriving" /\ stage' = "wrapping" /\ Len(secrets) = Layers
      /\ todo' = Layers /\ payload' = Padding
      /\ hops' = hops /\ key' = key /\ secrets' = secrets
      /\ mac' = mac /\ read' = read /\ damaged' = damaged
  BY DEF Pad, Layers
<1>2. /\ Layers' = Layers /\ (Fits' <=> Fits) /\ (Derived' <=> Derived)
      /\ \A k : Payload(k)' = Payload(k)
      /\ \A P, M, from : Wraps(P, M, from)' <=> Wraps(P, M, from)
  BY <1>1, SameRoute, SameKeys
<1>3. hops \in Routes /\ Layers \in Nat /\ mac = Zeros(HMACSize)
  BY <1>1, RouteFacts DEF IInv, Counted, Prepared
<1>4. PICK P, M : /\ Wraps(P, M, Layers + 1)
                  /\ Padding = P[Layers + 1] /\ Zeros(HMACSize) = M[Layers + 1]
                  /\ HasLength(Padding, Size)
  BY <1>3, WrapsNone
<1>5. Derived' /\ Deriving'
  BY <1>1, <1>2 DEF IInv, Deriving
<1>6. Counted'
  BY <1>1, <1>2, <1>3 DEF IInv, Counted
<1>7. Prepared'
  BY <1>1, <1>2 DEF IInv, Prepared
<1>8. Built'
  BY <1>1, <1>2, <1>4 DEF Built
<1>9. Wrapping'
  BY <1>1, <1>2, <1>3, <1>4 DEF Wrapping
<1>10. OnTheWay' /\ Ended'
  BY <1>1 DEF OnTheWay, Ended
<1>. QED  BY <1>5, <1>6, <1>7, <1>8, <1>9, <1>10 DEF IInv

LEMMA WrapIInv ==
    ASSUME IInv, WrapHop
    PROVE  IInv'
<1>1. /\ stage = "wrapping" /\ stage' = stage /\ todo > 0 /\ todo' = todo - 1
      /\ payload' = Layer(todo, payload, mac) /\ mac' = HMAC(secrets[todo], payload')
      /\ hops' = hops /\ key' = key /\ secrets' = secrets
      /\ read' = read /\ damaged' = damaged
  BY DEF WrapHop
<1>2. /\ Layers' = Layers /\ (Fits' <=> Fits) /\ (Derived' <=> Derived)
      /\ \A k : Payload(k)' = Payload(k)
      /\ \A P, M, from : Wraps(P, M, from)' <=> Wraps(P, M, from)
  BY <1>1, SameRoute, SameKeys
<1>3. /\ Fits /\ Distinct /\ Layers \in Nat /\ todo \in 1..Layers /\ Len(secrets) = Layers
  <2>1. Fits /\ Len(secrets) = Layers /\ todo \in 0..Layers /\ hops \in Routes
    BY <1>1 DEF IInv, Prepared, Built, Counted
  <2>2. Distinct
    BY <2>1, DerivedDistinct DEF IInv, Distinct
  <2>. QED  BY <1>1, <2>1, <2>2, RouteFacts
<1>4. PICK P, M : Wraps(P, M, todo + 1) /\ payload = P[todo + 1] /\ mac = M[todo + 1]
  BY <1>1 DEF IInv, Wrapping
<1>5. /\ HasLength(payload', Size) /\ HasLength(mac', HMACSize)
      /\ \E Q, N : Wraps(Q, N, todo) /\ payload' = Q[todo] /\ mac' = N[todo]
  <2>. DEFINE p == payload'
  <2>1. p = Layer(todo, P[todo + 1], M[todo + 1])
    BY <1>1, <1>4
  <2>. HIDE DEF p
  <2>2. /\ HasLength(p, Size) /\ HasLength(HMAC(secrets[todo], p), HMACSize)
        /\ \E Q, N : Wraps(Q, N, todo) /\ p = Q[todo] /\ HMAC(secrets[todo], p) = N[todo]
    BY <1>3, <1>4, <2>1, WrapsMore
  <2>. QED  BY <1>1, <2>2 DEF p
<1>6. Derived' /\ Deriving'
  BY <1>1, <1>2 DEF IInv, Deriving
<1>7. Counted'
  BY <1>1, <1>2, <1>3, <1>5 DEF IInv, Counted
<1>8. Prepared'
  BY <1>1, <1>2 DEF IInv, Prepared
<1>9. Built'
  BY <1>1, <1>2, <1>3, <1>5 DEF Built
<1>10. Wrapping'
  <2>1. todo' + 1 = todo
    BY <1>1, <1>3
  <2>. QED  BY <1>2, <1>5, <2>1 DEF Wrapping
<1>11. OnTheWay' /\ Ended'
  BY <1>1 DEF OnTheWay, Ended
<1>. QED  BY <1>6, <1>7, <1>8, <1>9, <1>10, <1>11 DEF IInv

LEMMA SendIInv ==
    ASSUME IInv, Send
    PROVE  IInv'
<1>1. /\ stage = "wrapping" /\ stage' = "sent" /\ todo = 0 /\ key' = {}
      /\ hops' = hops /\ secrets' = secrets /\ payload' = payload /\ mac' = mac
      /\ todo' = todo /\ read' = read /\ damaged' = damaged
  BY DEF Send, SessionKey
<1>2. /\ Layers' = Layers /\ (Fits' <=> Fits) /\ (Derived' <=> Derived)
      /\ \A k : Payload(k)' = Payload(k)
      /\ \A n : KeyUpTo(n)' = KeyUpTo(n)
      /\ \A P, M, from : Wraps(P, M, from)' <=> Wraps(P, M, from)
      /\ \A k, p : Hidden(k, p)' <=> Hidden(k, p)
  BY <1>1, SameRoute, SameKeys
<1>3. /\ read = <<>> /\ Len(read) = 0 /\ damaged = FALSE /\ Hop = 1 /\ Layers \in Nat
      /\ Len(secrets) = Layers /\ HasLength(payload, Size)
  <2>1. read = <<>> /\ damaged = FALSE /\ hops \in Routes
        /\ Len(secrets) = Layers /\ HasLength(payload, Size)
    BY <1>1 DEF IInv, Prepared, Built, Counted
  <2>. QED  BY <2>1, RouteFacts DEF Hop
<1>4. PICK P, M : Wraps(P, M, 1) /\ payload = P[1] /\ mac = M[1]
  BY <1>1 DEF IInv, Wrapping
<1>5. Hidden(1, payload)
  <2>1. 1 \in 1..Layers + 1
    BY <1>3
  <2>. QED  BY <1>4, <2>1 DEF Wraps
<1>6. KeyUpTo(0) = {}
  BY DEF KeyUpTo
<1>7. Derived' /\ Deriving'
  BY <1>1, <1>2 DEF IInv, Deriving
<1>8. Counted'
  BY <1>1, <1>2 DEF IInv, Counted
<1>9. Prepared'
  BY <1>1, <1>2 DEF IInv, Prepared
<1>10. Built' /\ Wrapping' /\ Ended'
  BY <1>1, <1>2, <1>3 DEF Built, Wrapping, Ended
<1>11. OnTheWay'
  <2>1. Hop' = 1 /\ Len(read') = 0
    BY <1>1, <1>3 DEF Hop
  <2>2. Hidden(Hop, payload)'
    BY <1>1, <1>2, <1>5, <2>1
  <2>3. Wraps(P, M, 1)' /\ mac' = M[Hop'] /\ (damaged' = FALSE <=> payload' = P[Hop'])
    BY <1>1, <1>2, <1>3, <1>4, <2>1
  <2>4. key' = KeyUpTo(Len(read))'
    BY <1>1, <1>2, <1>6, <2>1
  <2>. QED  BY <1>2, <1>3, <2>1, <2>2, <2>3, <2>4 DEF OnTheWay
<1>. QED  BY <1>7, <1>8, <1>9, <1>10, <1>11 DEF IInv

\* A hop can read the packet exactly if it is the one that was made for it.
LEMMA ReadableFacts ==
    ASSUME IInv, stage = "sent", Hop <= Layers
    PROVE  /\ Fits /\ Hop \in 1..Layers /\ Hop = Len(read) + 1 /\ HopSecret = secrets[Hop]
           /\ Readable <=> damaged = FALSE
           /\ \E P, M : /\ Wraps(P, M, 1) /\ (damaged = FALSE <=> payload = P[Hop])
                        /\ payload = P[Hop] => Opens(Opened, Hop, P[Hop])
<1>1. /\ Fits /\ Layers \in Nat /\ Len(secrets) = Layers /\ HasLength(payload, Size)
      /\ Len(read) \in Nat /\ hops \in Routes /\ key = KeyUpTo(Len(read))
  <2>1. /\ Fits /\ Len(secrets) = Layers /\ HasLength(payload, Size)
        /\ Len(read) \in 0..Layers /\ hops \in Routes /\ key = KeyUpTo(Len(read))
    BY DEF IInv, Prepared, Built, Counted, OnTheWay
  <2>. QED  BY <2>1, RouteFacts
<1>2. Hop \in 1..Layers /\ Hop = Len(read) + 1 /\ Hop - 1 = Len(read)
  BY <1>1 DEF Hop
<1>3. HopSecret = secrets[Hop]
  BY <1>1, <1>2 DEF HopSecret, IInv, Derived
<1>4. PICK P, M : Wraps(P, M, 1) /\ mac = M[Hop] /\ (damaged = FALSE <=> payload = P[Hop])
  BY DEF IInv, OnTheWay
<1>5. HasLength(P[Hop], Size) /\ mac = HMAC(secrets[Hop], P[Hop])
  <2>1. Hop \in 1..Layers + 1
    BY <1>1, <1>2
  <2>. QED  BY <1>2, <1>4, <2>1 DEF Wraps
<1>6. ASSUME payload = P[Hop]
      PROVE  Opens(Opened, Hop, P[Hop])
  BY <1>3, <1>6 DEF Opened, Size, Opens
<1>7. ASSUME Readable PROVE damaged = FALSE
  <2>1. HMAC(secrets[Hop], payload) = HMAC(secrets[Hop], P[Hop])
    BY <1>3, <1>5, <1>7 DEF Readable
  <2>2. payload = P[Hop]
    BY <1>1, <1>5, <2>1, HmacFacts
  <2>. QED  BY <1>4, <2>2
<1>8. ASSUME damaged = FALSE PROVE Readable
  <2>. DEFINE opened == Opened
  <2>1. payload = P[Hop] /\ Opens(opened, Hop, P[Hop])
    BY <1>4, <1>6, <1>8
  <2>. HIDE DEF opened
  <2>2. LengthsRead(opened) = {hops[Hop].length}
    BY <1>1, <1>2, <1>4, <2>1, WrapsPeel
  <2>. QED  BY <1>3, <1>5, <2>1, <2>2 DEF Readable, opened
<1>. QED  BY <1>1, <1>2, <1>3, <1>4, <1>6, <1>7, <1>8

LEMMA PeelIInv ==
    ASSUME IInv, Peel
    PROVE  IInv'
<1>. DEFINE opened == Opened
            h == Hop
            n == hops[h].length
            next == NextIn(opened, h)
            passed == PassedOn(opened, h)
            found == FoundIn(opened, h)
<1>1. /\ stage = "sent" /\ h <= Layers /\ Readable
      /\ key' = Blind(key, HopSecret)
      /\ hops' = hops /\ secrets' = secrets /\ todo' = todo /\ damaged' = damaged
  BY DEF Peel, Layers
<1>2. /\ Layers' = Layers /\ (Fits' <=> Fits) /\ (Derived' <=> Derived)
      /\ \A k : Payload(k)' = Payload(k)
      /\ \A k : KeyUpTo(k)' = KeyUpTo(k)
      /\ \A P, M, from : Wraps(P, M, from)' <=> Wraps(P, M, from)
      /\ \A k, p : Hidden(k, p)' <=> Hidden(k, p)
  BY <1>1, SameRoute, SameKeys
<1>3. /\ Fits /\ h \in 1..Layers /\ h = Len(read) + 1 /\ HopSecret = secrets[h]
      /\ damaged = FALSE
  BY <1>1, ReadableFacts
<1>4. /\ Layers \in Nat /\ Len(read) \in Nat /\ Len(read) < Layers
      /\ read = [k \in 1..Len(read) |-> Payload(k)]
      /\ key = KeyUpTo(Len(read)) /\ Len(secrets) = Layers
  <2>1. /\ hops \in Routes /\ Len(read) \in 0..Layers
        /\ read = [k \in 1..Len(read) |-> Payload(k)]
        /\ key = KeyUpTo(Len(read)) /\ Len(secrets) = Layers
    BY <1>1 DEF IInv, Counted, OnTheWay, Built
  <2>2. Layers \in Nat
    BY <2>1, RouteFacts
  <2>. QED  BY <1>3, <2>1, <2>2
<1>5. PICK P, M : Wraps(P, M, 1) /\ Opens(opened, h, P[h])
  <2>1. PICK P, M : /\ Wraps(P, M, 1) /\ (damaged = FALSE <=> payload = P[h])
                    /\ payload = P[h] => Opens(opened, h, P[h])
    BY <1>1, ReadableFacts
  <2>. QED  BY <1>3, <2>1
<1>. HIDE DEF opened, h, n, next, passed, found
<1>6. /\ LengthsRead(opened) = {n} /\ found = Payload(h) /\ next = M[h + 1]
      /\ HasLength(next, HMACSize) /\ (next = Zeros(HMACSize) <=> h = Layers)
      /\ HasLength(passed, Size)
      /\ h < Layers => passed = P[h + 1] /\ Hidden(h + 1, passed)
  <2>1. /\ LengthsRead(opened) = {n}
        /\ FoundIn(opened, h) = Payload(h)
        /\ NextIn(opened, h) = M[h + 1]
        /\ HasLength(NextIn(opened, h), HMACSize)
        /\ NextIn(opened, h) = Zeros(HMACSize) <=> Last(h)
        /\ HasLength(PassedOn(opened, h), Size)
        /\ ~Last(h) => PassedOn(opened, h) = P[h + 1] /\ Hidden(h + 1, PassedOn(opened, h))
    BY <1>3, <1>5, WrapsPeel DEF n
  <2>2. (Last(h) <=> h = Layers) /\ (h < Layers => ~Last(h))
    BY <1>3, <1>4 DEF Last
  <2>. QED  BY <2>1, <2>2 DEF next, passed, found
<1>7. /\ read' = Append(read, found) /\ mac' = next /\ payload' = passed
      /\ stage' = IF next = Zeros(HMACSize) THEN "arrived" ELSE "sent"
  <2>1. OnionPayloadLength([length |-> n]) = Length(h)
    BY DEF OnionPayloadLength, Length, n
  <2>2. PICK m \in LengthsRead(opened) :
          LET layer == OnionPayloadLength([length |-> m])
              next1 == SubSeq(opened, layer - HMACSize + 1, layer)
          IN  /\ read' = Append(read, SubSeq(opened, BigSizeLength(m) + 1, BigSizeLength(m) + m))
              /\ mac' = next1
              /\ payload' = SubSeq(opened, layer + 1, layer + OnionPacketPayloadSize)
              /\ stage' = IF next1 = Zeros(HMACSize) THEN "arrived" ELSE "sent"
    BY DEF Peel, opened
  <2>3. m = n
    BY <1>6, <2>2
  <2>. QED  BY <2>1, <2>2, <2>3 DEF next, passed, found, n, NextIn, PassedOn, FoundIn, Size
<1>8. Len(read') = h /\ read' = [k \in 1..h |-> Payload(k)]
  <2>. DEFINE T == {Payload(k) : k \in 1..h}
  <2>1. \A k \in 1..Len(read) : Payload(k) \in T
    BY <1>3, <1>4
  <2>2. Payload(h) \in T
    BY <1>3
  <2>. HIDE DEF T
  <2>3. [k \in 1..Len(read) |-> Payload(k)] \in Seq(T)
    BY <1>4, <2>1, IsASeq
  <2>4. read \in Seq(T) /\ found \in T
    BY <1>4, <1>6, <2>2, <2>3
  <2>5. /\ Append(read, found) \in Seq(T) /\ Len(Append(read, found)) = Len(read) + 1
        /\ \A k \in 1..Len(read) : Append(read, found)[k] = read[k]
        /\ Append(read, found)[Len(read) + 1] = found
    BY <2>4, AppendProperties
  <2>6. Len(read') = h /\ read' \in Seq(T)
    BY <1>3, <1>7, <2>5
  <2>7. ASSUME NEW k \in 1..h PROVE read'[k] = Payload(k)
    <3>1. CASE k = h
      BY <1>3, <1>6, <1>7, <2>5, <3>1
    <3>2. CASE k # h
      <4>1. k \in 1..Len(read)
        BY <1>3, <1>4, <3>2
      <4>. QED  BY <1>4, <1>7, <2>5, <4>1
    <3>. QED  BY <3>1, <3>2
  <2>8. read' = [k \in 1..h |-> read'[k]]
    BY <2>6
  <2>. QED  BY <2>6, <2>7, <2>8
<1>9. key' = KeyUpTo(h)
  <2>1. {secrets[j] : j \in 1..h} = {secrets[j] : j \in 1..Len(read)} \cup {secrets[h]}
    BY <1>3, <1>4
  <2>. QED  BY <1>1, <1>3, <1>4, <2>1 DEF KeyUpTo, Blind
<1>10. Derived' /\ Deriving'
  BY <1>2, <1>7 DEF IInv, Deriving
<1>11. Counted'
  <2>1. stage' \in {"arrived", "sent"} /\ Len(read') \in 0..Layers
    BY <1>3, <1>4, <1>7, <1>8
  <2>. QED  BY <1>1, <1>2, <1>6, <1>7, <1>8, <2>1 DEF IInv, Counted
<1>12. Prepared'
  BY <1>2, <1>3, <1>7 DEF Prepared
<1>13. Built'
  BY <1>1, <1>2, <1>4, <1>6, <1>7 DEF Built
<1>14. Wrapping'
  BY <1>7 DEF Wrapping
<1>15. Ended'
  BY <1>1, <1>2, <1>3, <1>4, <1>6, <1>7, <1>8 DEF Ended
<1>16. OnTheWay'
  <2>. SUFFICES ASSUME stage' = "sent" PROVE OnTheWay'
    BY DEF OnTheWay
  <2>1. h # Layers /\ h < Layers
    BY <1>3, <1>4, <1>6, <1>7
  <2>2. Hop' = h + 1
    BY <1>8 DEF Hop
  <2>3. payload' = P[h + 1] /\ Hidden(h + 1, payload') /\ mac' = M[h + 1]
    BY <1>6, <1>7, <2>1
  <2>4. Hidden(Hop, payload)'
    BY <1>2, <2>2, <2>3
  <2>5. key' = KeyUpTo(Len(read))'
    BY <1>2, <1>8, <1>9
  <2>6. Wraps(P, M, 1)' /\ mac' = M[Hop'] /\ (damaged' = FALSE <=> payload' = P[Hop'])
    BY <1>1, <1>2, <1>3, <1>5, <2>2, <2>3
  <2>7. Len(read') < Layers'
    BY <1>2, <1>8, <2>1
  <2>. QED  BY <2>4, <2>5, <2>6, <2>7 DEF OnTheWay
<1>. QED  BY <1>10, <1>11, <1>12, <1>13, <1>14, <1>15, <1>16 DEF IInv

LEMMA DropIInv ==
    ASSUME IInv, Drop
    PROVE  IInv'
<1>1. /\ stage = "sent" /\ stage' = "dropped" /\ Hop <= Layers /\ ~Readable
      /\ hops' = hops /\ key' = key /\ secrets' = secrets /\ payload' = payload
      /\ mac' = mac /\ todo' = todo /\ read' = read /\ damaged' = damaged
  BY DEF Drop, Layers
<1>2. /\ Layers' = Layers /\ (Fits' <=> Fits) /\ (Derived' <=> Derived)
      /\ \A k : Payload(k)' = Payload(k)
  BY <1>1, SameRoute, SameKeys
<1>3. damaged # FALSE /\ Len(read) < Layers
  <2>1. damaged # FALSE /\ Hop \in 1..Layers
    BY <1>1, ReadableFacts
  <2>2. Layers \in Nat
    BY RouteFacts DEF IInv, Counted
  <2>3. Layers > 0
    BY <2>1, <2>2
  <2>. QED  BY <1>1, <2>1, <2>3 DEF IInv, OnTheWay
<1>4. damaged
  BY <1>3 DEF IInv, Counted
<1>5. Derived' /\ Deriving'
  BY <1>1, <1>2 DEF IInv, Deriving
<1>6. Counted'
  BY <1>1, <1>2 DEF IInv, Counted
<1>7. Prepared' /\ Built' /\ Wrapping' /\ OnTheWay' /\ Ended'
  BY <1>1, <1>2, <1>3, <1>4 DEF IInv, Prepared, Built, Wrapping, OnTheWay, Ended
<1>. QED  BY <1>5, <1>6, <1>7 DEF IInv

LEMMA DamageIInv ==
    ASSUME IInv, Damage
    PROVE  IInv'
<1>1. /\ stage = "sent" /\ stage' = stage /\ Hop <= Layers /\ ~damaged /\ damaged' = TRUE
      /\ hops' = hops /\ key' = key /\ secrets' = secrets
      /\ mac' = mac /\ todo' = todo /\ read' = read
  BY DEF Damage, Layers
<1>2. /\ Layers' = Layers /\ (Fits' <=> Fits) /\ (Derived' <=> Derived)
      /\ \A k : Payload(k)' = Payload(k)
      /\ \A n : KeyUpTo(n)' = KeyUpTo(n)
      /\ \A P, M, from : Wraps(P, M, from)' <=> Wraps(P, M, from)
      /\ \A k, p : Hidden(k, p)' <=> Hidden(k, p)
  BY <1>1, SameRoute, SameKeys
<1>3. HasLength(payload, Size) /\ DOMAIN payload = 1..Size /\ Hidden(Hop, payload)
  BY <1>1, LengthOf DEF IInv, Built, OnTheWay
<1>4. PICK i \in 1..Size : payload' = [payload EXCEPT ![i] = SymDiff(@, {<<"noise", 0, i>>})]
  BY <1>3 DEF Damage
<1>. DEFINE noise == <<"noise", 0, i>>
<1>5. /\ HasLength(payload', Size)
      /\ payload'[i] = SymDiff(payload[i], {noise})
      /\ \A j \in 1..Size : j # i => payload'[j] = payload[j]
  BY <1>3, <1>4 DEF HasLength
<1>6. \A j \in 1..Size : \A x : x # noise => (x \in payload'[j] <=> x \in payload[j])
  <2>. HIDE DEF noise
  <2>. SUFFICES ASSUME NEW j \in 1..Size, NEW x, x # noise
                PROVE  x \in payload'[j] <=> x \in payload[j]
    OBVIOUS
  <2>1. x \in SymDiff(payload[i], {noise}) <=> x \in payload[i]
    BY Involution, Zenon
  <2>. QED  BY <1>5, <2>1
<1>7. payload' # payload
  <2>. HIDE DEF noise
  <2>1. noise \in SymDiff(payload[i], {noise}) <=> noise \notin payload[i]
    BY Involution, Zenon
  <2>. QED  BY <1>5, <2>1
<1>8. Hidden(Hop, payload')
  <2>. SUFFICES ASSUME NEW m \in 1..Layers, NEW j \in 1..Size, NEW k \in Nat,
                       <<"payload", m, k>> \in payload'[j]
                PROVE  m >= Hop /\ \E x \in 1..Size : Rho(secrets[m], x) \in payload'[j]
    BY DEF Hidden
  <2>1. <<"payload", m, k>> # noise /\ \A x : Rho(secrets[m], x) # noise
    BY DEF Rho
  <2>. HIDE DEF noise
  <2>2. <<"payload", m, k>> \in payload[j]
    BY <1>6, <2>1
  <2>3. m >= Hop /\ \E x \in 1..Size : Rho(secrets[m], x) \in payload[j]
    BY <1>3, <2>2 DEF Hidden
  <2>. QED  BY <1>6, <2>1, <2>3
<1>9. Derived' /\ Deriving'
  BY <1>1, <1>2 DEF IInv, Deriving
<1>10. Counted'
  BY <1>1, <1>2 DEF IInv, Counted
<1>11. Prepared' /\ Built' /\ Wrapping' /\ Ended'
  BY <1>1, <1>2, <1>5 DEF IInv, Prepared, Built, Wrapping, Ended
<1>12. OnTheWay'
  <2>1. Hop' = Hop
    BY <1>1 DEF Hop
  <2>2. PICK P, M : Wraps(P, M, 1) /\ mac = M[Hop] /\ (damaged = FALSE <=> payload = P[Hop])
    BY <1>1 DEF IInv, OnTheWay
  <2>3. damaged = FALSE
    <3>1. Readable <=> damaged = FALSE
      BY <1>1, ReadableFacts
    <3>. QED  BY <1>1, <3>1 DEF IInv, Counted
  <2>4. Wraps(P, M, 1)' /\ mac' = M[Hop'] /\ (damaged' = FALSE <=> payload' = P[Hop'])
    BY <1>1, <1>2, <1>7, <2>1, <2>2, <2>3
  <2>5. Hidden(Hop, payload)'
    BY <1>2, <1>8, <2>1
  <2>6. key' = KeyUpTo(Len(read))' /\ (Layers' > 0 => Len(read') < Layers')
    BY <1>1, <1>2 DEF IInv, OnTheWay
  <2>. QED  BY <2>4, <2>5, <2>6 DEF OnTheWay
<1>. QED  BY <1>9, <1>10, <1>11, <1>12 DEF IInv

LEMMA NextIInv == IInv /\ [Next]_vars => IInv'
<1>. SUFFICES ASSUME IInv, [Next]_vars PROVE IInv'
  OBVIOUS
<1>1. CASE ValidateHops
  BY <1>1, ValidateIInv
<1>2. CASE DeriveSecret
  BY <1>2, DeriveIInv
<1>3. CASE Pad
  BY <1>3, PadIInv
<1>4. CASE WrapHop
  BY <1>4, WrapIInv
<1>5. CASE Send
  BY <1>5, SendIInv
<1>6. CASE Peel
  BY <1>6, PeelIInv
<1>7. CASE Drop
  BY <1>7, DropIInv
<1>8. CASE Damage
  BY <1>8, DamageIInv
<1>9. CASE UNCHANGED vars
  <2>1. /\ stage' = stage /\ hops' = hops /\ key' = key /\ secrets' = secrets
        /\ payload' = payload /\ mac' = mac /\ todo' = todo /\ read' = read /\ damaged' = damaged
    BY <1>9 DEF vars
  <2>2. /\ Layers' = Layers /\ (Fits' <=> Fits) /\ (Derived' <=> Derived)
        /\ \A k : Payload(k)' = Payload(k)
        /\ \A n : KeyUpTo(n)' = KeyUpTo(n)
        /\ \A P, M, from : Wraps(P, M, from)' <=> Wraps(P, M, from)
        /\ \A k, p : Hidden(k, p)' <=> Hidden(k, p)
    BY <2>1, SameRoute, SameKeys
  <2>3. Derived' /\ Deriving' /\ Counted'
    BY <2>1, <2>2 DEF IInv, Deriving, Counted
  <2>4. Prepared' /\ Built' /\ Wrapping' /\ Ended'
    BY <2>1, <2>2 DEF IInv, Prepared, Built, Wrapping, Ended
  <2>5. OnTheWay'
    <3>1. Hop' = Hop
      BY <2>1 DEF Hop
    <3>. QED  BY <2>1, <2>2, <3>1 DEF IInv, OnTheWay
  <2>. QED  BY <2>3, <2>4, <2>5 DEF IInv
<1>. QED
  BY <1>1, <1>2, <1>3, <1>4, <1>5, <1>6, <1>7, <1>8, <1>9 DEF Next, NewOnionPacket

\* On every route the sender's ephemeral key has been blinded once for each
\* secret (bolt04.go:85-92), every layer is wrapped around the packet of the
\* next hop (112-149), and what a hop receives undamaged is its packet.
THEOREM Invariance == Spec => []IInv
<1>. QED  BY InitIInv, NextIInv, PTL DEF Spec

\* The packet has its one size from the padding to the last hop
\* (bolt04.go:117-123, 131-136), on every route that is not refused.
THEOREM TypeCorrect == Spec => []TypeOK
<1>1. IInv => TypeOK
  <2>. SUFFICES ASSUME IInv PROVE TypeOK
    OBVIOUS
  <2>1. /\ stage \in {"validating", "deriving", "wrapping", "sent", "refused", "arrived", "dropped"}
        /\ hops \in Routes /\ todo \in 0..Layers /\ Len(secrets) <= Layers
        /\ Len(read) \in 0..Layers /\ HasLength(mac, HMACSize)
    BY DEF IInv, Counted
  <2>2. Layers \in Nat
    BY <2>1, RouteFacts
  <2>3. Len(mac) = HMACSize /\ Len(read) <= Layers
    BY <2>1, <2>2, LengthOf
  <2>4. CASE stage \in {"wrapping", "sent", "arrived", "dropped"}
    <3>1. Len(payload) = Size
      BY <2>4, LengthOf DEF IInv, Built
    <3>. QED  BY <2>1, <2>3, <2>4, <3>1 DEF TypeOK, Layers, Size
  <2>5. CASE stage \notin {"wrapping", "sent", "arrived", "dropped"}
    <3>1. payload = <<>>
      BY <2>1, <2>5 DEF IInv, Prepared
    <3>2. Len(payload) = 0
      BY <3>1
    <3>. QED  BY <2>1, <2>3, <2>5, <3>2 DEF TypeOK, Layers
  <2>. QED  BY <2>4, <2>5
<1>. QED  BY <1>1, Invariance, PTL

\* On every route that fits, of any length and over any nodes, every hop finds
\* its own payload, and the last one, and nobody else, that it is the last
\* (bolt04.go:108-110): the filler is what the zeros appended by the hops have
\* become, so every HMAC is made over the bytes that arrive (131-136).
THEOREM EveryHopReads == Spec => []EveryHopFindsItsPayload
<1>1. IInv => EveryHopFindsItsPayload
  <2>. SUFFICES ASSUME IInv PROVE EveryHopFindsItsPayload
    OBVIOUS
  <2>1. /\ stage \in {"validating", "deriving", "wrapping", "sent", "refused", "arrived", "dropped"}
        /\ hops \in Routes /\ Len(read) \in 0..Layers
        /\ read = [k \in 1..Len(read) |-> Payload(k)]
    BY DEF IInv, Counted
  <2>2. Layers \in Nat /\ Len(read) \in Nat /\ (hops # <<>> <=> Layers > 0)
    <3>1. hops \in Seq([node : Nodes, length : Nat])
      BY <2>1, RoutesAssumption
    <3>. QED  BY <2>1, <3>1, RouteFacts, EmptySeq, LenProperties DEF Layers
  <2>3. stage = "dropped" => damaged
    BY DEF IInv, Ended
  <2>4. damaged => stage # "arrived"
    BY DEF IInv, Ended
  <2>5. \A k \in DOMAIN read : read[k] = Payload(k)
    BY <2>1
  <2>6. stage = "arrived" => hops # <<>> /\ Len(read) = Layers
    BY <2>2 DEF IInv, Ended
  <2>7. ASSUME hops # <<>>, Len(read) = Layers PROVE stage = "arrived"
    <3>1. Layers > 0 /\ ~(Len(read) < Layers) /\ Len(read) # 0
      BY <2>2, <2>7
    <3>2. read # <<>>
      BY <3>1
    <3>3. stage \notin {"validating", "deriving", "refused", "wrapping"}
      BY <3>2 DEF IInv, Prepared
    <3>4. stage # "sent" /\ stage # "dropped"
      BY <3>1 DEF IInv, OnTheWay, Ended
    <3>. QED  BY <2>1, <3>3, <3>4
  <2>. QED  BY <2>3, <2>4, <2>5, <2>6, <2>7 DEF EveryHopFindsItsPayload, Layers
<1>. QED  BY <1>1, Invariance, PTL

\* No two layers of an onion are encrypted with one stream, on a route of any
\* length and also when it visits a node again (bolt04.go:178).
THEOREM KeysAreFresh == Spec => []KeysNeverReused
<1>1. IInv => KeysNeverReused
  <2>. SUFFICES ASSUME IInv PROVE KeysNeverReused
    OBVIOUS
  <2>1. DOMAIN secrets = 1..Len(secrets)
    BY DEF IInv, Derived
  <2>. QED  BY <2>1, DerivedDistinct DEF IInv, KeysNeverReused
<1>. QED  BY <1>1, Invariance, PTL

\* On every route, whatever the hops before it have taken off, a payload that
\* has not reached its hop still is under that hop's stream (bolt04.go:125-128).
THEOREM OnlyItsHop == Spec => []OnlyItsHopReads
<1>1. IInv => OnlyItsHopReads
  <2>. SUFFICES ASSUME IInv, stage = "sent",
                       NEW k \in Hop..Layers, NEW j \in DOMAIN payload,
                       NEW i \in 1..hops[k].length, <<"payload", k, i>> \in payload[j]
                PROVE  \E x \in 1..Size : Rho(secrets[k], x) \in payload[j]
    BY DEF OnlyItsHopReads, Layers, Size, Rho
  <2>1. HasLength(payload, Size) /\ Hidden(Hop, payload) /\ Len(read) \in 0..Layers /\ hops \in Routes
    BY DEF IInv, Built, OnTheWay, Counted
  <2>2. Hop \in Nat \ {0} /\ Layers \in Nat
    BY <2>1, RouteFacts DEF Hop
  <2>3. k \in 1..Layers /\ i \in Nat /\ j \in 1..Size
    <3>1. k \in 1..Layers
      BY <2>2
    <3>. QED  BY <2>1, <3>1, RouteFacts, LengthOf
  <2>. QED  BY <2>1, <2>3 DEF Hidden
<1>. QED  BY <1>1, Invariance, PTL
=============================================================================
