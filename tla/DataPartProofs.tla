--------------------------- MODULE DataPartProofs ---------------------------
(***************************************************************************)
(* The data part of an invoice is read as it was written.  From the bits   *)
(* up: numbers and their digits, bytes and groups of bits, one section for *)
(* the data of each kind of field, frames, and at the end the inductive    *)
(* invariant, which says where in the data part each frame begins.         *)
(***************************************************************************)
EXTENDS DataPart, SequenceFacts

-----------------------------------------------------------------------------
(* Numbers *)

\* Dividing with a remainder
LEMMA DivMod ==
  ASSUME NEW n \in Nat, NEW d \in Nat \ {0}
  PROVE  /\ n \div d \in Nat /\ n % d \in 0 .. d - 1
         /\ n = d * (n \div d) + (n % d)
         /\ n \div d <= n
<1>1. n \div d \in Nat /\ n % d \in 0 .. d - 1 /\ n = d * (n \div d) + (n % d)
  OBVIOUS
<1>. DEFINE q == n \div d
<1>. HIDE DEF q
<1>2. q <= d * q
  BY <1>1 DEF q
<1>. QED  BY <1>1, <1>2 DEF q

\* Quotient and remainder are determined by that.
LEMMA DivModIs ==
  ASSUME NEW d \in Nat \ {0}, NEW q \in Nat, NEW r \in 0 .. d - 1, NEW n, n = d * q + r
  PROVE  n \div d = q /\ n % d = r
<1>1. n \in Nat
  OBVIOUS
<1>. DEFINE p == n \div d  s == n % d
<1>2. p \in Nat /\ s \in 0 .. d - 1 /\ n = d * p + s
  BY <1>1, DivMod
<1>. HIDE DEF p, s
<1>3. p = q
  <2>1. CASE p < q
    <3>1. p + 1 <= q
      BY <1>2, <2>1
    <3>2. d * (p + 1) <= d * q
      BY <1>2, <3>1
    <3>3. d * (p + 1) = d * p + d
      BY <1>2
    <3>4. d * p \in Nat /\ d * q \in Nat
      BY <1>2
    <3>. QED  BY <1>2, <3>2, <3>3, <3>4
  <2>2. CASE q < p
    <3>1. q + 1 <= p
      BY <1>2, <2>2
    <3>2. d * (q + 1) <= d * p
      BY <1>2, <3>1
    <3>3. d * (q + 1) = d * q + d
      BY <1>2
    <3>4. d * p \in Nat /\ d * q \in Nat
      BY <1>2
    <3>. QED  BY <1>2, <3>2, <3>3, <3>4
  <2>. QED  BY <1>2, <2>1, <2>2
<1>4. s = r
  <2>1. d * q \in Nat
    OBVIOUS
  <2>. QED  BY <1>2, <1>3, <2>1
<1>. QED  BY <1>3, <1>4 DEF p, s

\* A number below the divisor
LEMMA ModSmall ==
  ASSUME NEW n \in Nat, NEW d \in Nat \ {0}, n < d
  PROVE  n \div d = 0 /\ n % d = n
<1>1. n \in 0 .. d - 1 /\ n = d * 0 + n
  OBVIOUS
<1>. QED  BY <1>1, DivModIs

\* Dividing twice is dividing by the product.
LEMMA DivDiv ==
  ASSUME NEW n \in Nat, NEW a \in Nat \ {0}, NEW b \in Nat \ {0}
  PROVE  /\ a * b \in Nat \ {0}
         /\ (n \div a) \div b = n \div (a * b)
         /\ n % (a * b) = a * ((n \div a) % b) + (n % a)
<1>. DEFINE q == n \div a  r == n % a
<1>1. q \in Nat /\ r \in 0 .. a - 1 /\ n = a * q + r
  BY DivMod
<1>. DEFINE p == q \div b  s == q % b
<1>2. p \in Nat /\ s \in 0 .. b - 1 /\ q = b * p + s
  BY <1>1, DivMod
<1>. HIDE DEF q, r, p, s
<1>3. a * b \in Nat \ {0}
  OBVIOUS
<1>4. a * s + r \in 0 .. (a * b) - 1
  <2>1. s + 1 <= b
    BY <1>2
  <2>2. a * (s + 1) <= a * b
    BY <1>2, <2>1
  <2>3. a * (s + 1) = a * s + a /\ a * s \in Nat
    BY <1>2
  <2>. QED  BY <1>1, <1>3, <2>2, <2>3
<1>5. n = (a * b) * p + (a * s + r)
  <2>1. a * q = a * (b * p) + a * s
    BY <1>2
  <2>2. a * (b * p) = (a * b) * p
    BY <1>2
  <2>. DEFINE x == a * q  y == (a * b) * p  z == a * s
  <2>3. x = y + z /\ y \in Nat /\ z \in Nat /\ n = x + r
    BY <1>1, <1>2, <2>1, <2>2
  <2>. HIDE DEF x, y, z
  <2>4. n = y + (z + r)
    BY <1>1, <2>3
  <2>. QED  BY <2>4 DEF y, z
<1>. DEFINE d == a * b  t == a * s + r
<1>6. d \in Nat \ {0} /\ t \in 0 .. d - 1 /\ n = d * p + t
  BY <1>3, <1>4, <1>5
<1>. HIDE DEF d, t
<1>7. n \div d = p /\ n % d = t
  BY <1>2, <1>6, DivModIs
<1>. QED  BY <1>3, <1>7 DEF d, t, q, r, p, s

\* The same, for a product with a name of its own
LEMMA DivTwice ==
  ASSUME NEW n \in Nat, NEW a \in Nat \ {0}, NEW b \in Nat \ {0}, NEW c, c = a * b
  PROVE  (n \div a) \div b = n \div c
BY DivDiv

\* Powers of two
LEMMA TwoToFacts ==
  /\ TwoTo[0] = 1
  /\ \A n \in Nat : TwoTo[n] \in Nat \ {0} /\ TwoTo[n + 1] = 2 * TwoTo[n]
<1>. DEFINE D == Nat \ {0}
            step == [n \in Nat |-> [d \in D |-> 2 * d]]
            Is(f) == f = [n \in Nat |-> IF n = 0 THEN 1 ELSE 2 * f[n - 1]]
            g(m) == CHOOSE f \in [0 .. m -> D] : Steps(f, m, 1, step)
            F == [n \in Nat |-> g(n)[n]]
<1>1. \A n \in Nat : \A d \in D : step[n][d] = 2 * d /\ step[n][d] \in D
  OBVIOUS
<1>2. 1 \in D
  OBVIOUS
<1>. HIDE DEF D, step
<1>3. \A m \in Nat : g(m) \in [0 .. m -> D] /\ Steps(g(m), m, 1, step)
  <2>. TAKE m \in Nat
  <2>1. \A n \in 0 .. m - 1 : \A d \in D : step[n][d] \in D
    BY <1>1
  <2>2. \E f \in [0 .. m -> D] : Steps(f, m, 1, step)
    BY <1>2, <2>1, StepsExist
  <2>. QED  BY <2>2
<1>. HIDE DEF g
<1>4. \A n \in Nat : g(n)[n] \in D
  BY <1>3
<1>5. g(0)[0] = 1
  BY <1>3 DEF Steps
<1>6. ASSUME NEW n \in Nat PROVE g(n + 1)[n + 1] = 2 * g(n)[n]
  <2>1. /\ Steps(g(n + 1), n + 1, 1, step) /\ n + 1 \in Nat
        /\ Steps(g(n), n, 1, step)
    BY <1>3
  <2>2. Steps(g(n + 1), n, 1, step)
    <3>1. \A k \in 0 .. n - 1 : k \in 0 .. (n + 1) - 1
      OBVIOUS
    <3>. QED  BY <2>1, <3>1 DEF Steps
  <2>3. \A k \in 0 .. n : g(n + 1)[k] = g(n)[k]
    BY <2>1, <2>2, StepsDetermine
  <2>4. n \in 0 .. n /\ n \in 0 .. (n + 1) - 1
    OBVIOUS
  <2>5. g(n + 1)[n + 1] = step[n][g(n + 1)[n]]
    BY <2>1, <2>4 DEF Steps
  <2>6. g(n + 1)[n] = g(n)[n]
    BY <2>3, <2>4
  <2>. QED  BY <1>1, <1>4, <2>5, <2>6
<1>7. Is(F)
  <2>1. ASSUME NEW n \in Nat PROVE F[n] = IF n = 0 THEN 1 ELSE 2 * F[n - 1]
    <3>1. CASE n = 0
      BY <1>5, <3>1
    <3>2. CASE n # 0
      <4>1. n - 1 \in Nat /\ (n - 1) + 1 = n
        BY <3>2
      <4>2. g((n - 1) + 1)[(n - 1) + 1] = 2 * g(n - 1)[n - 1]
        BY <4>1, <1>6
      <4>. QED  BY <3>2, <4>1, <4>2
    <3>. QED  BY <3>1, <3>2
  <2>2. F = [n \in Nat |-> F[n]]
    OBVIOUS
  <2>. HIDE DEF F
  <2>. QED  BY <2>1, <2>2
<1>8. TwoTo = CHOOSE f : Is(f)
  BY DEF TwoTo
<1>9. Is(TwoTo)
  <2>. HIDE DEF Is, F
  <2>. QED  BY <1>7, <1>8
<1>10. TwoTo[0] = 1 /\ \A n \in Nat : TwoTo[n + 1] = 2 * TwoTo[n]
  <2>1. \A n \in Nat : n + 1 \in Nat /\ n + 1 # 0 /\ (n + 1) - 1 = n
    OBVIOUS
  <2>. QED  BY <1>9, <2>1
<1>11. \A n \in Nat : n \in {k \in Nat : TwoTo[k] \in Nat \ {0}}
  <2>. DEFINE S == {k \in Nat : TwoTo[k] \in Nat \ {0}}
  <2>1. 0 \in S /\ \A n \in Nat : n \in S => n + 1 \in S
    BY <1>10
  <2>2. \A n \in Nat : n \in S
    <3>. HIDE DEF S
    <3>. QED  BY <2>1, Induction
  <2>. QED  BY <2>2
<1>. QED  BY <1>10, <1>11

\* The power of a sum is the product of the powers.
LEMMA TwoToAdd ==
  ASSUME NEW m \in Nat, NEW n \in Nat
  PROVE  TwoTo[m + n] = TwoTo[m] * TwoTo[n]
<1>. DEFINE S == {k \in Nat : TwoTo[m + k] = TwoTo[m] * TwoTo[k]}
<1>1. 0 \in S
  BY TwoToFacts
<1>2. ASSUME NEW k \in Nat, k \in S PROVE k + 1 \in S
  <2>1. TwoTo[m + (k + 1)] = 2 * TwoTo[m + k]
    <3>1. m + (k + 1) = (m + k) + 1 /\ m + k \in Nat
      OBVIOUS
    <3>. QED  BY <3>1, TwoToFacts
  <2>2. TwoTo[k + 1] = 2 * TwoTo[k] /\ TwoTo[k] \in Nat /\ TwoTo[m] \in Nat
    BY TwoToFacts
  <2>3. TwoTo[m + k] = TwoTo[m] * TwoTo[k]
    BY <1>2
  <2>4. 2 * (TwoTo[m] * TwoTo[k]) = TwoTo[m] * (2 * TwoTo[k])
    BY <2>2
  <2>. QED  BY <2>1, <2>2, <2>3, <2>4
<1>3. \A k \in Nat : k \in S
  <2>. HIDE DEF S
  <2>. QED  BY <1>1, <1>2, Induction
<1>. QED  BY <1>3

\* Powers grow.
LEMMA TwoToGrows ==
  ASSUME NEW m \in Nat, NEW n \in Nat, m <= n
  PROVE  TwoTo[m] <= TwoTo[n] /\ (m < n => TwoTo[m] < TwoTo[n])
<1>1. n - m \in Nat /\ m + (n - m) = n
  OBVIOUS
<1>2. TwoTo[n] = TwoTo[m] * TwoTo[n - m]
  BY <1>1, TwoToAdd
<1>3. TwoTo[m] \in Nat \ {0} /\ TwoTo[n - m] \in Nat \ {0}
  BY <1>1, TwoToFacts
<1>4. m < n => TwoTo[n - m] > 1
  <2>1. SUFFICES ASSUME m < n PROVE TwoTo[n - m] > 1
    OBVIOUS
  <2>2. (n - m) - 1 \in Nat /\ ((n - m) - 1) + 1 = n - m
    BY <2>1
  <2>3. TwoTo[n - m] = 2 * TwoTo[(n - m) - 1] /\ TwoTo[(n - m) - 1] \in Nat \ {0}
    BY <2>2, TwoToFacts
  <2>. QED  BY <2>3
<1>. DEFINE a == TwoTo[m]  b == TwoTo[n - m]
<1>5. a \in Nat \ {0} /\ b \in Nat \ {0}
  BY <1>3
<1>. HIDE DEF a, b
<1>6. a <= a * b
  BY <1>5
<1>7. b > 1 => a < a * b
  <2>1. SUFFICES ASSUME b > 1 PROVE a < a * b
    OBVIOUS
  <2>2. b >= 2
    BY <1>5, <2>1
  <2>3. a * 2 <= a * b
    BY <1>5, <2>2
  <2>. QED  BY <1>5, <2>3
<1>. QED  BY <1>2, <1>4, <1>6, <1>7 DEF a, b

\* TwoTo[1] = 2
LEMMA TwoToOne == TwoTo[1] = 2
<1>1. TwoTo[0 + 1] = 2 * TwoTo[0]
  BY TwoToFacts
<1>. QED  BY <1>1, TwoToFacts

\* Words, bytes and groups have bits.
LEMMA WordFacts ==
  /\ WordBits \in Nat \ {0} /\ GroupBits \in Nat \ {0} /\ ByteBits \in Nat \ {0}
  /\ GroupBits < ByteBits /\ ByteBits <= WordBits
  /\ Word \in Nat \ {0, 1} /\ Group \in Nat \ {0, 1} /\ Byte \in Nat \ {0, 1}
<1>1. /\ WordBits \in Nat \ {0} /\ GroupBits \in Nat \ {0} /\ ByteBits \in Nat \ {0}
      /\ GroupBits < ByteBits /\ WordBits % ByteBits = 0
  BY WidthsAssumption
<1>2. ByteBits <= WordBits
  BY <1>1, ModSmall
<1>3. ASSUME NEW n \in Nat \ {0} PROVE TwoTo[n] \in Nat \ {0, 1}
  <2>1. TwoTo[0] < TwoTo[n] /\ TwoTo[0] = 1 /\ TwoTo[n] \in Nat
    BY TwoToFacts, TwoToGrows
  <2>. QED  BY <2>1
<1>. QED  BY <1>1, <1>2, <1>3 DEF Word, Group, Byte

\* A sequence of n digits of width bits each
AreDigits(digits, width, n) ==
  HasLength(digits, n) /\ \A i \in 1 .. n : digits[i] \in 0 .. TwoTo[width] - 1

\* Digits gives digits.
LEMMA DigitsAre ==
  ASSUME NEW num \in Nat, NEW width \in Nat, NEW n \in Nat
  PROVE  /\ AreDigits(Digits(num, width, n), width, n)
         /\ \A i \in 1 .. n :
              Digits(num, width, n)[i] = (num \div TwoTo[width * (n - i)]) % TwoTo[width]
<1>. DEFINE s == Digits(num, width, n)
<1>1. s = [i \in 1 .. n |-> (num \div TwoTo[width * (n - i)]) % TwoTo[width]]
  BY DEF Digits
<1>2. HasLength(s, n)
  BY <1>1 DEF HasLength
<1>3. ASSUME NEW i \in 1 .. n
      PROVE  /\ s[i] = (num \div TwoTo[width * (n - i)]) % TwoTo[width]
             /\ s[i] \in 0 .. TwoTo[width] - 1
  <2>1. s[i] = (num \div TwoTo[width * (n - i)]) % TwoTo[width]
    BY <1>1
  <2>2. width * (n - i) \in Nat
    OBVIOUS
  <2>3. TwoTo[width * (n - i)] \in Nat \ {0} /\ TwoTo[width] \in Nat \ {0}
    BY <2>2, TwoToFacts
  <2>4. num \div TwoTo[width * (n - i)] \in Nat
    BY <2>3, DivMod
  <2>. QED  BY <2>1, <2>3, <2>4, DivMod
<1>. QED  BY <1>2, <1>3 DEF AreDigits

\* The values of the digits up to each
Values(f, digits, width, n) ==
  /\ f[0] = 0
  /\ \A k \in 1 .. n : f[k] = (f[k - 1] * TwoTo[width] + digits[k]) % Word
  /\ \A k \in 0 .. n : f[k] \in 0 .. Word - 1

\* Number is the last of the values of its prefixes.
LEMMA NumberIsValue ==
  ASSUME NEW width \in Nat, NEW n \in Nat, NEW digits, HasLength(digits, n),
         \A i \in 1 .. n : digits[i] \in Nat
  PROVE  \E f : Values(f, digits, width, n) /\ Number(digits, width) = f[n]
<1>. DEFINE D == 0 .. Word - 1
            step == [k \in Nat |-> [d \in D |-> (d * TwoTo[width] + digits[k + 1]) % Word]]
            Is(f) == f = [k \in 0 .. Len(digits) |->
                            IF k = 0 THEN 0 ELSE (f[k - 1] * TwoTo[width] + digits[k]) % Word]
<1>1. Len(digits) = n
  BY LengthOf
<1>2. Word \in Nat \ {0, 1} /\ TwoTo[width] \in Nat
  BY WordFacts, TwoToFacts
<1>3. ASSUME NEW k \in 0 .. n - 1, NEW d \in D
      PROVE  step[k][d] = (d * TwoTo[width] + digits[k + 1]) % Word /\ step[k][d] \in D
  <2>1. k \in Nat /\ k + 1 \in 1 .. n
    OBVIOUS
  <2>2. d * TwoTo[width] + digits[k + 1] \in Nat
    BY <1>2, <2>1
  <2>. DEFINE e == d * TwoTo[width] + digits[k + 1]
  <2>3. step[k][d] = e % Word
    BY <2>1
  <2>. HIDE DEF e, step
  <2>. QED  BY <1>2, <2>2, <2>3, DivMod DEF e
<1>4. 0 \in D
  BY <1>2
<1>5. PICK f \in [0 .. n -> D] : Steps(f, n, 0, step)
  <2>. HIDE DEF D, step
  <2>. QED  BY <1>3, <1>4, StepsExist
<1>6. f[0] = 0 /\ \A k \in 1 .. n : f[k] = (f[k - 1] * TwoTo[width] + digits[k]) % Word
  <2>1. f[0] = 0
    BY <1>5 DEF Steps
  <2>2. ASSUME NEW k \in 1 .. n PROVE f[k] = (f[k - 1] * TwoTo[width] + digits[k]) % Word
    <3>1. k - 1 \in 0 .. n - 1 /\ k - 1 \in 0 .. n /\ (k - 1) + 1 = k
      OBVIOUS
    <3>2. f[k - 1] \in D /\ f[(k - 1) + 1] = step[k - 1][f[k - 1]]
      BY <1>5, <3>1 DEF Steps
    <3>. HIDE DEF D, step
    <3>. QED  BY <1>3, <3>1, <3>2
  <2>. QED  BY <2>1, <2>2
<1>7. Is(f)
  <2>1. ASSUME NEW k \in 0 .. n
        PROVE  f[k] = IF k = 0 THEN 0 ELSE (f[k - 1] * TwoTo[width] + digits[k]) % Word
    <3>1. k # 0 => k \in 1 .. n
      OBVIOUS
    <3>. QED  BY <1>6, <3>1
  <2>. QED  BY <1>1, <2>1
<1>8. Number(digits, width) = (CHOOSE g : Is(g))[Len(digits)]
  BY DEF Number
<1>. DEFINE h == CHOOSE g : Is(g)
<1>9. Is(h)
  <2>. HIDE DEF Is
  <2>. QED  BY <1>7
<1>10. /\ h[0] = 0
       /\ \A k \in 1 .. n : h[k] = (h[k - 1] * TwoTo[width] + digits[k]) % Word
  <2>. HIDE DEF h
  <2>1. \A k \in 0 .. n : h[k] = IF k = 0 THEN 0 ELSE (h[k - 1] * TwoTo[width] + digits[k]) % Word
    BY <1>1, <1>9
  <2>. QED  BY <2>1
<1>. HIDE DEF h, Is
<1>11. \A k \in 0 .. n : k \in {j \in 0 .. n : h[j] = f[j]}
  <2>. DEFINE S == {j \in 0 .. n : h[j] = f[j]}
  <2>1. 0 \in S
    BY <1>6, <1>10
  <2>2. ASSUME NEW j \in 0 .. n - 1, j \in S PROVE j + 1 \in S
    <3>1. j + 1 \in 1 .. n /\ (j + 1) - 1 = j /\ h[j] = f[j] /\ j + 1 \in 0 .. n
      BY <2>2
    <3>2. h[j + 1] = f[j + 1]
      BY <1>6, <1>10, <3>1
    <3>. QED  BY <3>1, <3>2
  <2>3. \A j \in 0 .. n : j \in S
    <3>. HIDE DEF S
    <3>. QED  BY <2>1, <2>2, InductionUpTo
  <2>. QED  BY <2>3
<1>12. Number(digits, width) = f[n]
  BY <1>1, <1>8, <1>11 DEF h
<1>13. \A k \in 0 .. n : f[k] \in 0 .. Word - 1
  BY <1>5
<1>. QED  BY <1>6, <1>12, <1>13 DEF Values

\* A number is a word.
LEMMA NumberType ==
  ASSUME NEW width \in Nat, NEW n \in Nat, NEW digits, HasLength(digits, n),
         \A i \in 1 .. n : digits[i] \in Nat
  PROVE  Number(digits, width) \in 0 .. Word - 1
<1>1. PICK f : Values(f, digits, width, n) /\ Number(digits, width) = f[n]
  BY NumberIsValue
<1>. QED  BY <1>1 DEF Values

\* What has been written as n digits is read back.
LEMMA NumberOfDigits ==
  ASSUME NEW num \in 0 .. Word - 1, NEW width \in Nat, NEW n \in Nat, num < TwoTo[width * n]
  PROVE  Number(Digits(num, width, n), width) = num
<1>. DEFINE digits == Digits(num, width, n)
            P(k) == TwoTo[width * (n - k)]
            w == TwoTo[width]
<1>0. Word \in Nat \ {0, 1} /\ num \in Nat
  BY WordFacts
<1>1. /\ HasLength(digits, n)
      /\ \A i \in 1 .. n : digits[i] \in Nat /\ digits[i] = (num \div P(i)) % w
  <2>1. TwoTo[width] \in Nat
    BY TwoToFacts
  <2>. HIDE DEF digits
  <2>. QED  BY <1>0, <2>1, DigitsAre DEF AreDigits, digits
<1>2. PICK f : Values(f, digits, width, n) /\ Number(digits, width) = f[n]
  <2>. HIDE DEF digits
  <2>. QED  BY <1>1, NumberIsValue
<1>3. w \in Nat \ {0} /\ \A k \in 0 .. n : P(k) \in Nat \ {0}
  <2>1. \A k \in 0 .. n : width * (n - k) \in Nat
    OBVIOUS
  <2>. QED  BY <2>1, TwoToFacts
<1>4. ASSUME NEW k \in 1 .. n PROVE P(k - 1) = P(k) * w
  <2>1. width * (n - k) \in Nat /\ width * (n - (k - 1)) = width * (n - k) + width
    OBVIOUS
  <2>. QED  BY <2>1, TwoToAdd
<1>w. w \in Nat \ {0}
  BY <1>3
<1>5. P(0) = TwoTo[width * n] /\ P(n) = 1
  <2>1. width * (n - n) = 0 /\ n - 0 = n
    OBVIOUS
  <2>. QED  BY <2>1, TwoToFacts
<1>. HIDE DEF P, w, digits
<1>6. \A k \in 0 .. n : k \in {j \in 0 .. n : f[j] = num \div P(j)}
  <2>. DEFINE S == {j \in 0 .. n : f[j] = num \div P(j)}
  <2>1. 0 \in S
    <3>1. num \div P(0) = 0
      BY <1>0, <1>3, <1>5, ModSmall
    <3>. QED  BY <1>2, <3>1 DEF Values
  <2>2. ASSUME NEW j \in 0 .. n - 1, j \in S PROVE j + 1 \in S
    <3>. DEFINE k == j + 1  x == num \div P(k)
    <3>1. k \in 1 .. n /\ k - 1 = j /\ k \in 0 .. n
      OBVIOUS
    <3>. HIDE DEF k
    <3>2. P(k) \in Nat \ {0} /\ P(j) = P(k) * w
      BY <1>3, <1>4, <3>1
    <3>3. x \in Nat /\ x <= num
      BY <1>0, <3>2, DivMod
    <3>4. x \div w = num \div P(j)
      BY <1>0, <1>w, <3>2, DivTwice
    <3>5. x = w * (x \div w) + (x % w)
      <4>. HIDE DEF x
      <4>. QED  BY <1>w, <3>3, DivMod
    <3>6. f[k] = (f[j] * w + (x % w)) % Word
      BY <1>1, <1>2, <3>1 DEF Values, w
    <3>7. f[j] = x \div w
      BY <2>2, <3>4
    <3>. HIDE DEF x
    <3>8. x \div w \in Nat /\ x % w \in Nat
      BY <1>w, <3>3, DivMod
    <3>9. (x \div w) * w + (x % w) = x
      BY <1>w, <3>5, <3>8
    <3>10. f[k] = x
      <4>1. f[k] = x % Word
        BY <3>6, <3>7, <3>9
      <4>. QED  BY <1>0, <3>3, <4>1, ModSmall
    <3>. QED  BY <3>1, <3>10 DEF k, x
  <2>3. \A j \in 0 .. n : j \in S
    <3>. HIDE DEF S
    <3>. QED  BY <2>1, <2>2, InductionUpTo
  <2>. QED  BY <2>3
<1>7. f[n] = num \div 1
  BY <1>5, <1>6
<1>8. num \div 1 = num
  BY <1>0, DivMod
<1>. QED  BY <1>2, <1>7, <1>8 DEF digits

\* Digits that fit a word have a value, and are the digits of their value.
LEMMA DigitsOfNumber ==
  ASSUME NEW width \in Nat, NEW n \in Nat, width * n <= WordBits,
         NEW digits, AreDigits(digits, width, n)
  PROVE  /\ Number(digits, width) \in 0 .. TwoTo[width * n] - 1
         /\ Number(digits, width) \in 0 .. Word - 1
         /\ Digits(Number(digits, width), width, n) = digits
<1>. DEFINE w == TwoTo[width]
            P(k) == TwoTo[width * k]
            num == Number(digits, width)
<1>1. w \in Nat \ {0} /\ \A k \in Nat : P(k) \in Nat \ {0}
  <2>1. \A k \in Nat : width * k \in Nat
    OBVIOUS
  <2>. QED  BY <2>1, TwoToFacts
<1>2. HasLength(digits, n) /\ \A i \in 1 .. n : digits[i] \in 0 .. w - 1
  BY DEF AreDigits
<1>3. PICK f : Values(f, digits, width, n) /\ num = f[n]
  <2>1. \A i \in 1 .. n : digits[i] \in Nat
    BY <1>1, <1>2
  <2>. QED  BY <1>2, <2>1, NumberIsValue
<1>4. \A k \in Nat : P(k + 1) = P(k) * w
  <2>1. \A k \in Nat : width * k \in Nat /\ width * (k + 1) = width * k + width
    OBVIOUS
  <2>. QED  BY <2>1, TwoToAdd
<1>5. P(0) = 1
  <2>1. width * 0 = 0
    OBVIOUS
  <2>. QED  BY <2>1, TwoToFacts
<1>6. \A k \in 0 .. n : P(k) <= Word
  <2>. TAKE k \in 0 .. n
  <2>1. width * k \in Nat /\ width * k <= width * n
    OBVIOUS
  <2>2. width * k <= WordBits
    BY <2>1, WordFacts
  <2>. QED  BY <2>1, <2>2, TwoToGrows, WordFacts DEF Word
<1>7. Word \in Nat \ {0, 1}
  BY WordFacts
<1>. HIDE DEF w, P, num
<1>. DEFINE Plain(j) == f[j] \in 0 .. P(j) - 1 /\ (j > 0 => f[j] = f[j - 1] * w + digits[j])
<1>8. \A k \in 0 .. n : Plain(k)
  <2>. DEFINE S == {j \in 0 .. n : Plain(j)}
  <2>1. 0 \in S
    BY <1>3, <1>5 DEF Values
  <2>2. ASSUME NEW j \in 0 .. n - 1, j \in S PROVE j + 1 \in S
    <3>. DEFINE k == j + 1  x == f[j] * w + digits[k]
    <3>1. k \in 1 .. n /\ k - 1 = j /\ k \in 0 .. n /\ k > 0 /\ j \in Nat
      OBVIOUS
    <3>2. P(k) = P(j) * w /\ P(k) <= Word /\ P(j) \in Nat \ {0}
      BY <1>1, <1>4, <1>6, <3>1
    <3>. HIDE DEF k
    <3>3. f[j] \in Nat /\ f[j] + 1 <= P(j) /\ digits[k] \in Nat /\ digits[k] + 1 <= w
      BY <1>1, <1>2, <2>2, <3>1, <3>2
    <3>4. x \in Nat /\ x + 1 <= P(k)
      <4>1. (f[j] + 1) * w <= P(j) * w
        BY <1>1, <3>2, <3>3
      <4>2. (f[j] + 1) * w = f[j] * w + w /\ f[j] * w \in Nat
        BY <1>1, <3>3
      <4>. DEFINE y == f[j] * w  z == P(j) * w  d == digits[k]
      <4>3. z = P(k) /\ x = y + d
        BY <3>2
      <4>4. y + w <= z /\ y \in Nat /\ z \in Nat
        BY <1>1, <3>2, <4>1, <4>2
      <4>5. d \in Nat /\ d + 1 <= w /\ w \in Nat
        BY <1>1, <3>3
      <4>. HIDE DEF y, z, x, d
      <4>6. y + d \in Nat /\ (y + d) + 1 <= z
        BY <4>4, <4>5
      <4>. QED  BY <4>3, <4>6
    <3>. HIDE DEF x
    <3>5. f[k] = x % Word
      BY <1>3, <3>1 DEF Values, w, x
    <3>6. P(k) \in Nat
      BY <1>1, <3>1
    <3>7. f[k] = x
      <4>1. x < Word
        <5>. DEFINE z == P(k)
        <5>1. z \in Nat /\ x + 1 <= z /\ z <= Word /\ x \in Nat /\ Word \in Nat
          BY <1>7, <3>2, <3>4, <3>6
        <5>. HIDE DEF z
        <5>. QED  BY <5>1
      <4>. QED  BY <1>7, <3>4, <3>5, <4>1, ModSmall
    <3>. QED  BY <3>1, <3>4, <3>6, <3>7 DEF k, x
  <2>3. \A j \in 0 .. n : j \in S
    <3>. HIDE DEF S
    <3>. QED  BY <2>1, <2>2, InductionUpTo
  <2>. QED  BY <2>3
<1>9. \A k \in 1 .. n : /\ f[k] = f[k - 1] * w + digits[k] /\ f[k - 1] \in Nat
                        /\ f[k] \div w = f[k - 1] /\ f[k] % w = digits[k]
  <2>. TAKE k \in 1 .. n
  <2>1. k \in 0 .. n /\ k - 1 \in 0 .. n /\ k > 0 /\ k - 1 \in Nat
    OBVIOUS
  <2>2. f[k] = f[k - 1] * w + digits[k] /\ f[k - 1] \in 0 .. P(k - 1) - 1
    <3>1. Plain(k) /\ Plain(k - 1)
      BY <1>8, <2>1
    <3>. QED  BY <2>1, <3>1
  <2>3. f[k - 1] \in Nat
    BY <1>1, <2>1, <2>2
  <2>4. f[k] = w * f[k - 1] + digits[k] /\ digits[k] \in 0 .. w - 1
    BY <1>1, <1>2, <2>2, <2>3
  <2>5. f[k] \div w = f[k - 1] /\ f[k] % w = digits[k]
    <3>1. w \in Nat \ {0}
      BY <1>1
    <3>. DEFINE q == f[k - 1]  r == digits[k]  m == f[k]
    <3>2. q \in Nat /\ r \in 0 .. w - 1 /\ m = w * q + r
      BY <2>3, <2>4
    <3>. HIDE DEF q, r, m
    <3>3. m \div w = q /\ m % w = r
      BY <3>1, <3>2, DivModIs
    <3>. QED  BY <3>3 DEF q, r, m
  <2>. QED  BY <2>2, <2>3, <2>5
<1>10. num \in 0 .. P(n) - 1 /\ num \in 0 .. Word - 1 /\ num \in Nat
  <2>1. n \in 0 .. n /\ n \in Nat
    OBVIOUS
  <2>2. f[n] \in 0 .. P(n) - 1 /\ P(n) <= Word /\ P(n) \in Nat
    <3>1. Plain(n)
      BY <1>8, <2>1
    <3>. QED  BY <1>1, <1>6, <2>1, <3>1
  <2>. QED  BY <1>3, <1>7, <2>2
<1>11. \A j \in 0 .. n : j \in {i \in 0 .. n : num \div P(i) = f[n - i]}
  <2>. DEFINE S == {i \in 0 .. n : num \div P(i) = f[n - i]}
  <2>1. 0 \in S
    <3>1. num \div P(0) = num
      BY <1>5, <1>10, DivMod
    <3>. QED  BY <1>3, <3>1
  <2>2. ASSUME NEW j \in 0 .. n - 1, j \in S PROVE j + 1 \in S
    <3>1. j \in Nat /\ n - j \in 1 .. n /\ (n - j) - 1 = n - (j + 1) /\ j + 1 \in 0 .. n
      OBVIOUS
    <3>2. P(j + 1) = P(j) * w /\ P(j) \in Nat \ {0}
      BY <1>1, <1>4, <3>1
    <3>3. (num \div P(j)) \div w = num \div P(j + 1)
      <4>1. w \in Nat \ {0} /\ num \in Nat
        BY <1>1, <1>10
      <4>. QED  BY <3>2, <4>1, DivTwice
    <3>4. f[n - j] \div w = f[n - (j + 1)]
      BY <1>9, <3>1
    <3>. QED  BY <2>2, <3>1, <3>3, <3>4
  <2>3. \A j \in 0 .. n : j \in S
    <3>. HIDE DEF S
    <3>. QED  BY <2>1, <2>2, InductionUpTo
  <2>. QED  BY <2>3
<1>12. Digits(num, width, n) = digits
  <2>1. /\ HasLength(Digits(num, width, n), n)
        /\ \A i \in 1 .. n : Digits(num, width, n)[i] = (num \div P(n - i)) % w
    BY <1>10, DigitsAre DEF AreDigits, P, w
  <2>2. ASSUME NEW i \in 1 .. n PROVE Digits(num, width, n)[i] = digits[i]
    <3>1. n - i \in 0 .. n /\ n - (n - i) = i
      OBVIOUS
    <3>. QED  BY <1>9, <1>11, <2>1, <3>1
  <2>. QED  BY <1>2, <2>1, <2>2, LengthSame
<1>. QED  BY <1>10, <1>12 DEF num, P

-----------------------------------------------------------------------------
(* Cutting and joining *)

\* Every place is a place in one of the parts.
LEMMA PlaceInPart ==
  ASSUME NEW c \in Nat, NEW n \in Nat \ {0}, NEW i \in 1 .. c * n
  PROVE  /\ (i - 1) \div n + 1 \in 1 .. c /\ ((i - 1) % n) + 1 \in 1 .. n
         /\ ((i - 1) \div n + 1 - 1) * n + (((i - 1) % n) + 1) = i
<1>. DEFINE k == (i - 1) \div n  j == (i - 1) % n
<1>1. c * n \in Nat /\ i - 1 \in Nat /\ i <= c * n
  OBVIOUS
<1>2. k \in Nat /\ j \in 0 .. n - 1 /\ i - 1 = n * k + j
  BY <1>1, DivMod
<1>. HIDE DEF k, j
<1>3. n * k = k * n /\ k * n \in Nat
  BY <1>2
<1>4. k < c
  <2>1. CASE c <= k
    <3>1. c * n <= k * n
      BY <1>2, <2>1
    <3>. QED  BY <1>1, <1>2, <1>3, <3>1
  <2>. QED  BY <1>2, <2>1
<1>5. k + 1 \in 1 .. c /\ j + 1 \in 1 .. n /\ (k + 1 - 1) * n + (j + 1) = i
  <2>1. k + 1 - 1 = k
    BY <1>2
  <2>2. k * n + (j + 1) = i
    BY <1>2, <1>3
  <2>. QED  BY <1>2, <1>4, <2>1, <2>2
<1>. QED  BY <1>5 DEF k, j

\* The place of an element of a part
LEMMA PlaceOfPart ==
  ASSUME NEW c \in Nat, NEW n \in Nat \ {0}, NEW k \in 1 .. c, NEW j \in 1 .. n
  PROVE  /\ (k - 1) * n + j \in 1 .. c * n
         /\ ((k - 1) * n + j - 1) \div n + 1 = k
         /\ (((k - 1) * n + j - 1) % n) + 1 = j
<1>. DEFINE p == (k - 1) * n
<1>1. k - 1 \in Nat /\ j - 1 \in 0 .. n - 1 /\ p \in Nat /\ p = n * (k - 1)
  OBVIOUS
<1>2. p + n <= c * n /\ c * n \in Nat
  <2>1. k * n <= c * n
    OBVIOUS
  <2>2. k * n = p + n
    OBVIOUS
  <2>. QED  BY <2>1, <2>2
<1>. DEFINE m == p + j - 1
<1>3. m = n * (k - 1) + (j - 1)
  BY <1>1
<1>. HIDE DEF m, p
<1>4. m \div n = k - 1 /\ m % n = j - 1
  <2>. DEFINE q == k - 1  r == j - 1
  <2>1. q \in Nat /\ r \in 0 .. n - 1 /\ m = n * q + r
    BY <1>1, <1>3
  <2>. HIDE DEF q, r
  <2>2. m \div n = q /\ m % n = r
    BY <2>1, DivModIs
  <2>. QED  BY <2>2 DEF q, r
<1>5. p + j \in 1 .. c * n
  BY <1>1, <1>2
<1>6. m \div n + 1 = k /\ (m % n) + 1 = j
  BY <1>4
<1>. QED  BY <1>5, <1>6 DEF m, p

\* Element j of part k is where it should be, and nothing else is there.
LEMMA JoinedFacts ==
  ASSUME NEW c \in Nat, NEW n \in Nat \ {0}, NEW parts, HasLength(parts, c)
  PROVE  /\ HasLength(Joined(parts, n), c * n)
         /\ \A k \in 1 .. c, j \in 1 .. n : Joined(parts, n)[(k - 1) * n + j] = parts[k][j]
<1>1. Len(parts) = c
  BY LengthOf
<1>2. c * n \in Nat
  OBVIOUS
<1>3. Joined(parts, n) = [i \in 1 .. c * n |-> parts[(i - 1) \div n + 1][((i - 1) % n) + 1]]
  BY <1>1 DEF Joined
<1>4. HasLength(Joined(parts, n), c * n)
  BY <1>2, <1>3 DEF HasLength
<1>5. ASSUME NEW k \in 1 .. c, NEW j \in 1 .. n
      PROVE  Joined(parts, n)[(k - 1) * n + j] = parts[k][j]
  <2>. DEFINE i == (k - 1) * n + j
  <2>1. i \in 1 .. c * n /\ (i - 1) \div n + 1 = k /\ ((i - 1) % n) + 1 = j
    BY PlaceOfPart
  <2>. HIDE DEF i
  <2>2. Joined(parts, n)[i] = parts[(i - 1) \div n + 1][((i - 1) % n) + 1]
    BY <1>3, <2>1
  <2>3. Joined(parts, n)[i] = parts[k][j]
    BY <2>1, <2>2, Zenon
  <2>. QED  BY <2>3 DEF i
<1>. QED  BY <1>4, <1>5

\* Two sequences that agree in every part are equal.
LEMMA PartsSame ==
  ASSUME NEW c \in Nat, NEW n \in Nat \ {0}, NEW s, HasLength(s, c * n),
         NEW t, HasLength(t, c * n),
         \A k \in 1 .. c, j \in 1 .. n : s[(k - 1) * n + j] = t[(k - 1) * n + j]
  PROVE  s = t
<1>1. ASSUME NEW i \in 1 .. c * n PROVE s[i] = t[i]
  <2>. DEFINE k == (i - 1) \div n + 1  j == ((i - 1) % n) + 1
  <2>1. k \in 1 .. c /\ j \in 1 .. n /\ (k - 1) * n + j = i
    BY PlaceInPart
  <2>. HIDE DEF k, j
  <2>. QED  BY <2>1
<1>. QED  BY <1>1, LengthSame

\* The parts of a sequence, element by element
LEMMA CutFacts ==
  ASSUME NEW m \in Nat, NEW n \in Nat \ {0}, NEW s, HasLength(s, m)
  PROVE  /\ HasLength(Cut(s, n), m \div n) /\ (m \div n) * n <= m /\ m \div n \in Nat
         /\ \A k \in 1 .. m \div n :
              /\ HasLength(Cut(s, n)[k], n)
              /\ \A j \in 1 .. n : /\ Cut(s, n)[k][j] = s[(k - 1) * n + j]
                                   /\ (k - 1) * n + j \in 1 .. m
<1>. DEFINE c == m \div n
<1>1. c \in Nat /\ m % n \in 0 .. n - 1 /\ m = n * c + (m % n)
  BY DivMod
<1>2. Len(s) = m
  BY LengthOf
<1>3. Cut(s, n) = [k \in 1 .. c |-> SubSeq(s, (k - 1) * n + 1, k * n)]
  BY <1>2 DEF Cut
<1>. HIDE DEF c
<1>4. c * n <= m
  BY <1>1
<1>5. HasLength(Cut(s, n), c)
  BY <1>1, <1>3 DEF HasLength
<1>6. ASSUME NEW k \in 1 .. c
      PROVE  /\ HasLength(Cut(s, n)[k], n)
             /\ \A j \in 1 .. n : /\ Cut(s, n)[k][j] = s[(k - 1) * n + j]
                                  /\ (k - 1) * n + j \in 1 .. m
  <2>. DEFINE p == (k - 1) * n
  <2>1. p \in Nat /\ k * n = p + n
    OBVIOUS
  <2>2. k * n <= c * n
    BY <1>1
  <2>3. p + n <= m
    BY <1>1, <1>4, <2>1, <2>2
  <2>4. Cut(s, n)[k] = SubSeq(s, p + 1, p + n)
    BY <1>3, <2>1
  <2>. HIDE DEF p
  <2>5. p + 1 \in 1 .. m + 1 /\ p + n \in (p + 1) - 1 .. m /\ p + n - (p + 1) + 1 = n
    BY <2>1, <2>3
  <2>6. /\ HasLength(SubSeq(s, p + 1, p + n), n)
        /\ \A i \in 1 .. n : SubSeq(s, p + 1, p + n)[i] = s[p + 1 + i - 1]
    <3>. DEFINE a == p + 1  b == p + n
    <3>1. a \in 1 .. m + 1 /\ b \in a - 1 .. m /\ b - a + 1 = n
      BY <2>1, <2>3
    <3>. HIDE DEF a, b
    <3>2. /\ HasLength(SubSeq(s, a, b), b - a + 1)
          /\ \A i \in 1 .. b - a + 1 : SubSeq(s, a, b)[i] = s[a + i - 1]
      BY <3>1, LengthSubSeq
    <3>3. /\ HasLength(SubSeq(s, a, b), n)
          /\ \A i \in 1 .. n : SubSeq(s, a, b)[i] = s[a + i - 1]
      BY <3>1, <3>2
    <3>. QED  BY <3>3 DEF a, b
  <2>7. \A i \in 1 .. n : p + 1 + i - 1 = p + i /\ p + i \in 1 .. m
    BY <2>1, <2>3
  <2>. QED  BY <2>4, <2>6, <2>7 DEF p
<1>. QED  BY <1>1, <1>4, <1>5, <1>6 DEF c

\* Cutting what was joined gives the parts.
LEMMA CutOfJoined ==
  ASSUME NEW c \in Nat, NEW n \in Nat \ {0}, NEW parts, HasLength(parts, c),
         \A k \in 1 .. c : HasLength(parts[k], n)
  PROVE  Cut(Joined(parts, n), n) = parts
<1>. DEFINE s == Joined(parts, n)  m == c * n
<1>1. m \in Nat /\ HasLength(s, m)
  BY JoinedFacts
<1>2. m \div n = c
  <2>1. m = n * c + 0 /\ 0 \in 0 .. n - 1
    OBVIOUS
  <2>. HIDE DEF m
  <2>. QED  BY <2>1, DivModIs
<1>3. \A k \in 1 .. c, j \in 1 .. n : s[(k - 1) * n + j] = parts[k][j]
  BY JoinedFacts
<1>. HIDE DEF s, m
<1>4. /\ HasLength(Cut(s, n), c)
      /\ \A k \in 1 .. c : /\ HasLength(Cut(s, n)[k], n)
                           /\ \A j \in 1 .. n : Cut(s, n)[k][j] = s[(k - 1) * n + j]
  <2>1. /\ HasLength(Cut(s, n), m \div n)
        /\ \A k \in 1 .. m \div n :
             /\ HasLength(Cut(s, n)[k], n)
             /\ \A j \in 1 .. n : Cut(s, n)[k][j] = s[(k - 1) * n + j]
    BY <1>1, CutFacts
  <2>. QED  BY <1>2, <2>1
<1>5. ASSUME NEW k \in 1 .. c PROVE Cut(s, n)[k] = parts[k]
  BY <1>3, <1>4, LengthSame
<1>6. Cut(s, n) = parts
  BY <1>4, <1>5, LengthSame
<1>. QED  BY <1>6 DEF s

-----------------------------------------------------------------------------
(* Bits *)

\* The bits of a sequence of digits, element by element
LEMMA BitsFacts ==
  ASSUME NEW width \in Nat \ {0}, NEW m \in Nat, NEW data, HasLength(data, m),
         \A i \in 1 .. m : data[i] \in Nat
  PROVE  /\ AreDigits(Bits(data, width), 1, m * width)
         /\ \A k \in 1 .. m, j \in 1 .. width :
              Bits(data, width)[(k - 1) * width + j] = Digits(data[k], 1, width)[j]
<1>. DEFINE parts == [i \in 1 .. m |-> Digits(data[i], 1, width)]
            s == Joined(parts, width)
<1>1. HasLength(parts, m) /\ \A k \in 1 .. m : parts[k] = Digits(data[k], 1, width)
  BY DEF HasLength
<1>2. Bits(data, width) = s
  BY LengthOf DEF Bits
<1>3. \A k \in 1 .. m : AreDigits(parts[k], 1, width)
  BY <1>1, DigitsAre
<1>. HIDE DEF parts
<1>4. /\ HasLength(s, m * width)
      /\ \A k \in 1 .. m, j \in 1 .. width : s[(k - 1) * width + j] = parts[k][j]
  BY <1>1, JoinedFacts
<1>. HIDE DEF s
<1>5. ASSUME NEW i \in 1 .. m * width PROVE s[i] \in 0 .. TwoTo[1] - 1
  <2>. DEFINE k == (i - 1) \div width + 1  j == ((i - 1) % width) + 1
  <2>1. k \in 1 .. m /\ j \in 1 .. width /\ (k - 1) * width + j = i
    BY PlaceInPart
  <2>. HIDE DEF k, j
  <2>2. s[i] = parts[k][j]
    BY <1>4, <2>1
  <2>3. parts[k][j] \in 0 .. TwoTo[1] - 1
    BY <1>3, <2>1 DEF AreDigits
  <2>. QED  BY <2>2, <2>3
<1>. QED  BY <1>1, <1>2, <1>4, <1>5 DEF AreDigits

\* What Regroup makes of bits has these bits.
LEMMA RegroupFacts ==
  ASSUME NEW width \in 1 .. WordBits, NEW m \in Nat, NEW bits, AreDigits(bits, 1, m)
  PROVE  /\ AreDigits(Regroup(bits, width), width, m \div width)
         /\ \A k \in 1 .. m \div width :
              /\ Regroup(bits, width)[k] = Number(Cut(bits, width)[k], 1)
              /\ Digits(Regroup(bits, width)[k], 1, width) = Cut(bits, width)[k]
<1>. DEFINE c == m \div width  parts == Cut(bits, width)
<1>1. WordBits \in Nat /\ width \in Nat \ {0}
  BY WordFacts
<1>2. HasLength(bits, m) /\ \A i \in 1 .. m : bits[i] \in 0 .. TwoTo[1] - 1
  BY DEF AreDigits
<1>3. /\ c \in Nat /\ HasLength(parts, c)
      /\ \A k \in 1 .. c : /\ HasLength(parts[k], width)
                           /\ \A j \in 1 .. width : /\ parts[k][j] = bits[(k - 1) * width + j]
                                                    /\ (k - 1) * width + j \in 1 .. m
  BY <1>1, <1>2, CutFacts
<1>4. Regroup(bits, width) = [k \in 1 .. c |-> Number(parts[k], 1)]
  BY <1>2, LengthOf DEF Regroup
<1>. HIDE DEF c, parts
<1>5. ASSUME NEW k \in 1 .. c
      PROVE  /\ Number(parts[k], 1) \in 0 .. TwoTo[width] - 1
             /\ Digits(Number(parts[k], 1), 1, width) = parts[k]
  <2>1. \A j \in 1 .. width : parts[k][j] \in 0 .. TwoTo[1] - 1
    BY <1>2, <1>3
  <2>2. AreDigits(parts[k], 1, width)
    BY <1>3, <2>1 DEF AreDigits
  <2>3. 1 * width = width /\ width <= WordBits
    BY <1>1
  <2>. QED  BY <1>1, <2>2, <2>3, DigitsOfNumber
<1>6. HasLength(Regroup(bits, width), c)
  BY <1>3, <1>4 DEF HasLength
<1>. QED  BY <1>4, <1>5, <1>6 DEF AreDigits, c, parts

\* Bits put together to numbers are the bits of these numbers.
LEMMA BitsOfRegroup ==
  ASSUME NEW width \in 1 .. WordBits, NEW c \in Nat, NEW bits, AreDigits(bits, 1, c * width)
  PROVE  /\ AreDigits(Regroup(bits, width), width, c)
         /\ Bits(Regroup(bits, width), width) = bits
<1>. DEFINE m == c * width  data == Regroup(bits, width)
<1>1. width \in Nat \ {0} /\ m \in Nat
  BY WordFacts
<1>2. m \div width = c
  <2>1. m = width * c + 0 /\ 0 \in 0 .. width - 1
    BY <1>1
  <2>. HIDE DEF m
  <2>. QED  BY <1>1, <2>1, DivModIs
<1>3. AreDigits(bits, 1, m) /\ HasLength(bits, m)
  BY DEF AreDigits
<1>. HIDE DEF m
<1>4. /\ AreDigits(data, width, c)
      /\ \A k \in 1 .. c : Digits(data[k], 1, width) = Cut(bits, width)[k]
  BY <1>1, <1>2, <1>3, RegroupFacts
<1>5. \A k \in 1 .. c, j \in 1 .. width : Cut(bits, width)[k][j] = bits[(k - 1) * width + j]
  <2>1. \A k \in 1 .. m \div width : \A j \in 1 .. width :
          Cut(bits, width)[k][j] = bits[(k - 1) * width + j]
    <3>1. width \in Nat \ {0} /\ m \in Nat /\ HasLength(bits, m)
      BY <1>1, <1>3
    <3>. HIDE DEF HasLength
    <3>2. \A k \in 1 .. m \div width :
            /\ HasLength(Cut(bits, width)[k], width)
            /\ \A j \in 1 .. width : /\ Cut(bits, width)[k][j] = bits[(k - 1) * width + j]
                                     /\ (k - 1) * width + j \in 1 .. m
      BY <3>1, CutFacts, Zenon
    <3>. QED  BY <3>2
  <2>. QED  BY <1>2, <2>1
<1>. HIDE DEF data
<1>6. HasLength(data, c) /\ \A i \in 1 .. c : data[i] \in Nat
  <2>1. TwoTo[width] \in Nat
    BY <1>1, TwoToFacts
  <2>. QED  BY <1>4, <2>1 DEF AreDigits
<1>7. /\ HasLength(Bits(data, width), m)
      /\ \A k \in 1 .. c, j \in 1 .. width :
           Bits(data, width)[(k - 1) * width + j] = Digits(data[k], 1, width)[j]
  BY <1>1, <1>6, BitsFacts DEF AreDigits, m
<1>8. Bits(data, width) = bits
  <2>1. \A k \in 1 .. c, j \in 1 .. width :
          Bits(data, width)[(k - 1) * width + j] = bits[(k - 1) * width + j]
    <3>. TAKE k \in 1 .. c, j \in 1 .. width
    <3>1. Bits(data, width)[(k - 1) * width + j] = Digits(data[k], 1, width)[j]
      BY <1>7, Zenon
    <3>2. Digits(data[k], 1, width)[j] = bits[(k - 1) * width + j]
      BY <1>4, <1>5, Zenon
    <3>. QED  BY <3>1, <3>2, Zenon
  <2>. QED  BY <1>1, <1>3, <1>7, <2>1, PartsSame DEF m
<1>. QED  BY <1>4, <1>8 DEF data

\* Numbers taken apart into bits are put together again.
LEMMA RegroupOfBits ==
  ASSUME NEW width \in 1 .. WordBits, NEW m \in Nat, NEW data, AreDigits(data, width, m)
  PROVE  Regroup(Bits(data, width), width) = data
<1>. DEFINE parts == [i \in 1 .. m |-> Digits(data[i], 1, width)]
            bits == Bits(data, width)
<1>1. width \in Nat \ {0} /\ TwoTo[width] \in Nat \ {0} /\ TwoTo[width] <= Word
  <2>1. WordBits \in Nat /\ width \in Nat \ {0}
    BY WordFacts
  <2>. QED  BY <2>1, TwoToFacts, TwoToGrows DEF Word
<1>2. HasLength(data, m) /\ \A i \in 1 .. m : data[i] \in Nat /\ data[i] < TwoTo[width]
  BY <1>1 DEF AreDigits
<1>3. HasLength(parts, m) /\ \A k \in 1 .. m : parts[k] = Digits(data[k], 1, width)
  BY DEF HasLength
<1>4. bits = Joined(parts, width)
  BY <1>2, LengthOf DEF Bits
<1>5. AreDigits(bits, 1, m * width) /\ m * width \in Nat
  BY <1>1, <1>2, BitsFacts
<1>6. (m * width) \div width = m
  <2>. DEFINE p == m * width
  <2>1. p = width * m + 0 /\ 0 \in 0 .. width - 1
    BY <1>1
  <2>. HIDE DEF p
  <2>2. p \div width = m
    BY <1>1, <2>1, DivModIs
  <2>. QED  BY <2>2 DEF p
<1>. HIDE DEF parts, bits
<1>7. ASSUME NEW k \in 1 .. m PROVE HasLength(parts[k], width)
  <2>1. data[k] \in Nat /\ width \in Nat
    BY <1>1, <1>2
  <2>2. AreDigits(Digits(data[k], 1, width), 1, width)
    BY <2>1, DigitsAre
  <2>. QED  BY <1>3, <2>2 DEF AreDigits
<1>8. Cut(bits, width) = parts
  BY <1>1, <1>3, <1>4, <1>7, CutOfJoined
<1>9. /\ HasLength(Regroup(bits, width), m)
      /\ \A k \in 1 .. m : Regroup(bits, width)[k] = Number(parts[k], 1)
  BY <1>5, <1>6, <1>8, RegroupFacts DEF AreDigits
<1>10. ASSUME NEW k \in 1 .. m PROVE Number(parts[k], 1) = data[k]
  <2>1. data[k] \in 0 .. Word - 1 /\ 1 * width = width /\ data[k] < TwoTo[width]
    BY <1>1, <1>2, WordFacts
  <2>. QED  BY <1>1, <1>3, <2>1, NumberOfDigits
<1>11. Regroup(bits, width) = data
  BY <1>2, <1>9, <1>10, LengthSame
<1>. QED  BY <1>11 DEF bits

-----------------------------------------------------------------------------
(* Bytes in groups *)

AreBytes(bytes, n) == AreDigits(bytes, ByteBits, n)
AreGroups(groups, n) == AreDigits(groups, GroupBits, n)

\* How many groups n bytes need.
GroupsFor(n) == (n * ByteBits + GroupBits - 1) \div GroupBits

\* As many groups as hold w bits hold them with the padding, and no fewer do.
LEMMA PadFacts ==
  ASSUME NEW w \in Nat
  PROVE  /\ (w + GroupBits - 1) \div GroupBits \in Nat /\ (-w) % GroupBits \in 0 .. GroupBits - 1
         /\ ((w + GroupBits - 1) \div GroupBits) * GroupBits = w + ((-w) % GroupBits)
         /\ \A g \in Nat : w <= g * GroupBits => (w + GroupBits - 1) \div GroupBits <= g
<1>. DEFINE d == GroupBits  m == w + GroupBits - 1
<1>1. d \in Nat \ {0} /\ m \in Nat /\ m = w + d - 1
  BY WordFacts
<1>. HIDE DEF d, m
<1>. DEFINE q == m \div d  r == m % d
<1>2. q \in Nat /\ r \in 0 .. d - 1 /\ m = d * q + r
  BY <1>1, DivMod
<1>. HIDE DEF q, r
<1>. DEFINE p == (-w) \div d  s == (-w) % d
<1>3. p \in Int /\ s \in 0 .. d - 1 /\ -w = d * p + s
  BY <1>1
<1>. HIDE DEF p, s
<1>4. d * (q + p) = (d - 1 - r) - s /\ q + p \in Int
  <2>1. d * (q + p) = d * q + d * p /\ d * q \in Int /\ d * p \in Int
    BY <1>1, <1>2, <1>3
  <2>. QED  BY <1>1, <1>2, <1>3, <2>1
<1>5. q + p = 0
  <2>. DEFINE t == q + p
  <2>1. t \in Int /\ d * t < d /\ d * t > -d
    BY <1>1, <1>2, <1>3, <1>4
  <2>. HIDE DEF t
  <2>2. t >= 1 => d * t >= d
    BY <1>1, <2>1
  <2>3. t <= -1 => d * t <= -d
    BY <1>1, <2>1
  <2>4. t = 0
    BY <1>1, <2>1, <2>2, <2>3
  <2>. QED  BY <2>4 DEF t
<1>6. q * d = w + s
  <2>1. d * 0 = 0 /\ d * q = q * d /\ q * d \in Int
    BY <1>1, <1>2
  <2>. QED  BY <1>1, <1>2, <1>3, <1>4, <1>5, <2>1
<1>7. ASSUME NEW g \in Nat, w <= g * d PROVE q <= g
  <2>1. CASE g < q
    <3>1. g + 1 <= q
      BY <1>2, <2>1
    <3>2. (g + 1) * d <= q * d
      BY <1>1, <1>2, <3>1
    <3>3. (g + 1) * d = g * d + d /\ g * d \in Nat /\ q * d \in Nat
      BY <1>1, <1>2
    <3>. QED  BY <1>1, <1>3, <1>6, <1>7, <3>2, <3>3
  <2>. QED  BY <1>2, <2>1
<1>. QED  BY <1>2, <1>3, <1>6, <1>7 DEF p, s, q, r, d, m

\* The padded bits of n bytes are those of the groups.
LEMMA ToGroupsFacts ==
  ASSUME NEW n \in Nat, NEW bytes, AreBytes(bytes, n)
  PROVE  LET bits == Bits(bytes, ByteBits)
             zeros == [i \in 1 .. (-(n * ByteBits)) % GroupBits |-> 0]
         IN  /\ AreDigits(bits, 1, n * ByteBits)
             /\ AreGroups(ToGroups(bytes), GroupsFor(n)) /\ GroupsFor(n) \in Nat
             /\ Bits(ToGroups(bytes), GroupBits) = bits \o zeros
<1>. DEFINE bits == Bits(bytes, ByteBits)
            w == n * ByteBits
            pad == (-w) % GroupBits
            zeros == [i \in 1 .. pad |-> 0]
            g == (w + GroupBits - 1) \div GroupBits
            padded == bits \o zeros
<1>1. /\ GroupBits \in 1 .. WordBits /\ ByteBits \in Nat \ {0} /\ w \in Nat
      /\ GroupBits \in Nat \ {0} /\ WordBits \in Nat
  BY WordFacts
<1>2. HasLength(bytes, n) /\ \A i \in 1 .. n : bytes[i] \in Nat
  <2>1. TwoTo[ByteBits] \in Nat
    BY <1>1, TwoToFacts
  <2>. QED  BY <2>1 DEF AreBytes, AreDigits
<1>3. AreDigits(bits, 1, w)
  BY <1>1, <1>2, BitsFacts
<1>. HIDE DEF bits
<1>4. Len(bits) = w /\ HasLength(bits, w)
  BY <1>3, LengthOf DEF AreDigits
<1>5. ToGroups(bytes) = Regroup(padded, GroupBits)
  BY <1>4 DEF ToGroups, bits
<1>. HIDE DEF w
<1>6. g \in Nat /\ pad \in 0 .. GroupBits - 1 /\ g * GroupBits = w + pad
  BY <1>1, PadFacts
<1>. HIDE DEF g, pad
<1>7. pad \in Nat /\ HasLength(zeros, pad) /\ \A i \in 1 .. pad : zeros[i] = 0
  BY <1>1, <1>6 DEF HasLength
<1>. HIDE DEF zeros
<1>8. /\ HasLength(padded, w + pad)
      /\ \A i \in 1 .. w : padded[i] = bits[i]
      /\ \A i \in 1 .. pad : padded[w + i] = 0
  <2>1. Joins(padded, bits, zeros)
    BY DEF Joins
  <2>. HIDE DEF padded
  <2>. QED  BY <1>4, <1>7, <2>1, LengthConcat
<1>. HIDE DEF padded
<1>9. AreDigits(padded, 1, g * GroupBits)
  <2>1. ASSUME NEW i \in 1 .. w + pad PROVE padded[i] \in 0 .. TwoTo[1] - 1
    <3>1. CASE i <= w
      BY <1>1, <1>3, <1>8, <3>1 DEF AreDigits
    <3>2. CASE i > w
      <4>1. i - w \in 1 .. pad /\ w + (i - w) = i
        BY <1>1, <1>7, <3>2
      <4>. QED  BY <1>8, <4>1, TwoToOne
    <3>. QED  BY <1>1, <3>1, <3>2
  <2>. QED  BY <1>6, <1>8, <2>1 DEF AreDigits
<1>10. /\ AreDigits(Regroup(padded, GroupBits), GroupBits, g)
       /\ Bits(Regroup(padded, GroupBits), GroupBits) = padded
  BY <1>1, <1>6, <1>9, BitsOfRegroup
<1>. QED  BY <1>3, <1>5, <1>6, <1>10 DEF AreGroups, GroupsFor, padded, zeros, pad, g, w, bits

\* Groups give as many bytes as they fill.
LEMMA ToBytesFacts ==
  ASSUME NEW g \in Nat, NEW groups, AreGroups(groups, g), NEW b \in ToBytes(groups)
  PROVE  AreBytes(b, (g * GroupBits) \div ByteBits) /\ (g * GroupBits) \div ByteBits \in Nat
<1>. DEFINE bits == Bits(groups, GroupBits)
            m == g * GroupBits
            whole == m - (m % ByteBits)
            n == m \div ByteBits
<1>1. /\ ByteBits \in 1 .. WordBits /\ ByteBits \in Nat \ {0} /\ m \in Nat
      /\ GroupBits \in Nat \ {0} /\ WordBits \in Nat
  BY WordFacts
<1>2. HasLength(groups, g) /\ \A i \in 1 .. g : groups[i] \in Nat
  <2>1. TwoTo[GroupBits] \in Nat
    BY <1>1, TwoToFacts
  <2>. QED  BY <2>1 DEF AreGroups, AreDigits
<1>3. AreDigits(bits, 1, m)
  BY <1>1, <1>2, BitsFacts
<1>. HIDE DEF bits
<1>4. Len(bits) = m /\ HasLength(bits, m) /\ \A i \in 1 .. m : bits[i] \in 0 .. TwoTo[1] - 1
  BY <1>3, LengthOf DEF AreDigits
<1>5. b = Regroup(SubSeq(bits, 1, whole), ByteBits)
  BY <1>4 DEF ToBytes, bits
<1>. HIDE DEF m
<1>6. n \in Nat /\ whole = n * ByteBits /\ whole \in 0 .. m
  <2>1. n \in Nat /\ m % ByteBits \in 0 .. ByteBits - 1 /\ m = ByteBits * n + (m % ByteBits)
    BY <1>1, DivMod
  <2>. HIDE DEF n
  <2>2. ByteBits * n = n * ByteBits /\ n * ByteBits \in Nat
    BY <1>1, <2>1
  <2>. QED  BY <1>1, <2>1, <2>2
<1>. HIDE DEF whole, n
<1>7. AreDigits(SubSeq(bits, 1, whole), 1, n * ByteBits)
  <2>1. 1 \in 1 .. m + 1 /\ whole \in 1 - 1 .. m /\ whole - 1 + 1 = whole
    BY <1>1, <1>6
  <2>2. /\ HasLength(SubSeq(bits, 1, whole), whole)
        /\ \A i \in 1 .. whole : SubSeq(bits, 1, whole)[i] = bits[1 + i - 1]
    BY <1>4, <2>1, LengthSubSeq
  <2>3. \A i \in 1 .. whole : 1 + i - 1 = i /\ i \in 1 .. m
    BY <1>1, <1>6
  <2>. QED  BY <1>4, <1>6, <2>2, <2>3 DEF AreDigits
<1>8. AreDigits(b, ByteBits, n)
  BY <1>1, <1>5, <1>6, <1>7, BitsOfRegroup
<1>. QED  BY <1>6, <1>8 DEF AreBytes, n, m

\* Bytes written as groups are read back.
LEMMA ToBytesOfToGroups ==
  ASSUME NEW n \in Nat, NEW bytes, AreBytes(bytes, n)
  PROVE  ToBytes(ToGroups(bytes)) = {bytes}
<1>. DEFINE bits == Bits(bytes, ByteBits)
            w == n * ByteBits
            pad == (-w) % GroupBits
            zeros == [i \in 1 .. pad |-> 0]
            padded == bits \o zeros
            over == SubSeq(padded, w + 1, w + pad)
<1>1. /\ ByteBits \in 1 .. WordBits /\ ByteBits \in Nat \ {0} /\ w \in Nat
      /\ GroupBits \in Nat \ {0} /\ WordBits \in Nat /\ GroupBits < ByteBits
  BY WordFacts
<1>2. AreDigits(bits, 1, w) /\ Bits(ToGroups(bytes), GroupBits) = padded
  BY ToGroupsFacts
<1>3. Regroup(bits, ByteBits) = bytes
  BY <1>1, RegroupOfBits DEF AreBytes
<1>. HIDE DEF bits
<1>4. HasLength(bits, w)
  BY <1>2 DEF AreDigits
<1>w. w = ByteBits * n
  BY <1>1
<1>. HIDE DEF w
<1>5. pad \in 0 .. GroupBits - 1 /\ pad \in Nat
  <2>1. w \in Nat
    BY <1>1
  <2>2. (-w) % GroupBits \in 0 .. GroupBits - 1
    BY <2>1, PadFacts
  <2>. HIDE DEF pad
  <2>. QED  BY <1>1, <2>2 DEF pad
<1>. HIDE DEF pad
<1>6. HasLength(zeros, pad) /\ \A i \in 1 .. pad : zeros[i] = 0
  BY <1>5 DEF HasLength
<1>. HIDE DEF zeros
<1>7. /\ HasLength(padded, w + pad)
      /\ \A i \in 1 .. w : padded[i] = bits[i]
      /\ \A i \in 1 .. pad : padded[w + i] = 0
  <2>1. Joins(padded, bits, zeros)
    BY DEF Joins
  <2>. HIDE DEF padded
  <2>. QED  BY <1>4, <1>6, <2>1, LengthConcat
<1>. HIDE DEF padded
<1>8. Len(padded) = w + pad /\ w + pad \in Nat
  BY <1>1, <1>5, <1>7, LengthOf
<1>9. (w + pad) % ByteBits = pad /\ (w + pad) - pad = w
  <2>1. pad \in 0 .. ByteBits - 1
    BY <1>1, <1>5
  <2>. DEFINE m == w + pad
  <2>2. m = ByteBits * n + pad
    BY <1>w
  <2>. HIDE DEF m
  <2>3. m % ByteBits = pad
    BY <1>1, <2>1, <2>2, DivModIs
  <2>. QED  BY <1>1, <1>5, <2>3 DEF m
<1>10. SubSeq(padded, 1, w) = bits
  <2>1. 1 \in 1 .. (w + pad) + 1 /\ w \in 1 - 1 .. w + pad /\ w - 1 + 1 = w
    BY <1>1, <1>5
  <2>2. /\ HasLength(SubSeq(padded, 1, w), w)
        /\ \A i \in 1 .. w : SubSeq(padded, 1, w)[i] = padded[1 + i - 1]
    BY <1>7, <2>1, LengthSubSeq
  <2>3. \A i \in 1 .. w : 1 + i - 1 = i
    BY <1>1
  <2>. QED  BY <1>4, <1>7, <2>2, <2>3, LengthSame
<1>11. HasLength(over, pad) /\ \A i \in 1 .. pad : over[i] = 0
  <2>. DEFINE a == w + 1  b == w + pad
  <2>1. a \in 1 .. b + 1 /\ b \in a - 1 .. b /\ b - a + 1 = pad
    BY <1>1, <1>5
  <2>2. \A i \in 1 .. pad : a + i - 1 = w + i
    BY <1>1, <1>5
  <2>3. HasLength(padded, b) /\ over = SubSeq(padded, a, b)
    BY <1>7
  <2>. HIDE DEF a, b, over
  <2>4. /\ HasLength(SubSeq(padded, a, b), b - a + 1)
        /\ \A i \in 1 .. b - a + 1 : SubSeq(padded, a, b)[i] = padded[a + i - 1]
    BY <2>1, <2>3, LengthSubSeq
  <2>. QED  BY <1>7, <2>1, <2>2, <2>3, <2>4
<1>. HIDE DEF over
<1>12. Len(over) = pad /\ DOMAIN over = 1 .. pad
  BY <1>11, LengthOf
<1>13. ~(Len(over) >= GroupBits \/ \E i \in DOMAIN over : over[i] = 1)
  BY <1>1, <1>5, <1>11, <1>12
<1>14. ToBytes(ToGroups(bytes)) =
         IF Len(over) >= GroupBits \/ \E i \in DOMAIN over : over[i] = 1
         THEN {} ELSE {Regroup(SubSeq(padded, 1, w), ByteBits)}
  BY <1>2, <1>8, <1>9 DEF ToBytes, over
<1>. QED  BY <1>3, <1>10, <1>13, <1>14

-----------------------------------------------------------------------------
(* Numbers in groups *)

\* A set of naturals has a least element.
LEMMA Least ==
  ASSUME NEW S \in SUBSET Nat, S # {}
  PROVE  \E n \in S : \A m \in S : n <= m
<1>. DEFINE R == OpToRel(<, Nat)
<1>1. IsWellFoundedOn(R, Nat)
  BY NatLessThanWellFounded
<1>2. PICK n \in S : \A m \in S : <<m, n>> \notin R
  <2>. HIDE DEF R
  <2>. QED  BY <1>1, WFMin, Zenon
<1>3. \A m \in S : ~(m < n)
  BY <1>2 DEF OpToRel
<1>. QED  BY <1>3

\* bits.Len gives the least number of bits that hold a number.
LEMMA BitLenFacts ==
  ASSUME NEW num \in Nat
  PROVE  /\ BitLen(num) \in 0 .. WordBits
         /\ BitLen(num) > 0 => num >= TwoTo[BitLen(num) - 1]
         /\ BitLen(num) < WordBits \/ num < Word => num < TwoTo[BitLen(num)]
<1>. DEFINE S == {k \in 0 .. WordBits - 1 : num \div TwoTo[k] > 0}
            T == {n \in 0 .. WordBits : n = WordBits \/ num < TwoTo[n]}
<1>0. WordBits \in Nat \ {0} /\ \A k \in Nat : TwoTo[k] \in Nat \ {0}
  BY WordFacts, TwoToFacts
<1>1. ASSUME NEW k \in Nat PROVE num \div TwoTo[k] > 0 <=> TwoTo[k] <= num
  <2>. DEFINE d == TwoTo[k]
  <2>1. d \in Nat \ {0}
    BY <1>0
  <2>. HIDE DEF d
  <2>2. num \div d \in Nat /\ num % d \in 0 .. d - 1 /\ num = d * (num \div d) + (num % d)
    BY <2>1, DivMod
  <2>3. num < d => num \div d = 0
    BY <2>1, ModSmall
  <2>4. num \div d = 0 => num < d
    <3>1. d * 0 = 0
      BY <2>1
    <3>. QED  BY <2>1, <2>2, <3>1
  <2>5. num \div d > 0 <=> d <= num
    BY <2>1, <2>2, <2>3, <2>4
  <2>. QED  BY <2>5 DEF d
<1>2. PICK n \in T : \A m \in T : n <= m
  <2>1. WordBits \in T /\ T \in SUBSET Nat
    BY <1>0
  <2>. HIDE DEF T
  <2>. QED  BY <2>1, Least
<1>3. S = 0 .. n - 1
  <2>1. n \in 0 .. WordBits /\ (n = WordBits \/ num < TwoTo[n])
    BY <1>2
  <2>2. ASSUME NEW k \in 0 .. WordBits - 1 PROVE num \div TwoTo[k] > 0 <=> k < n
    <3>1. CASE k < n
      <4>1. k \notin T /\ k \in 0 .. WordBits
        BY <1>0, <1>2, <2>1, <3>1
      <4>2. ~(num < TwoTo[k])
        BY <4>1
      <4>3. TwoTo[k] <= num
        BY <1>0, <4>2
      <4>. QED  BY <1>1, <3>1, <4>3
    <3>2. CASE ~(k < n)
      <4>1. n # WordBits /\ n <= k /\ n \in Nat /\ k \in Nat
        BY <1>0, <2>1, <3>2
      <4>2. TwoTo[n] <= TwoTo[k] /\ num < TwoTo[n]
        BY <2>1, <4>1, TwoToGrows
      <4>3. ~(TwoTo[k] <= num)
        BY <1>0, <4>1, <4>2
      <4>. QED  BY <1>1, <3>2, <4>1, <4>3
    <3>. QED  BY <3>1, <3>2
  <2>3. \A k : k \in S <=> k \in 0 .. n - 1
    BY <1>0, <2>1, <2>2
  <2>. HIDE DEF S
  <2>. QED  BY <2>3
<1>4. n \in 0 .. WordBits /\ n \in Nat
  BY <1>0, <1>2
<1>5. Cardinality(0 .. n - 1) = n
  BY <1>4, FS_Interval
<1>6. BitLen(num) = n
  BY <1>3, <1>5 DEF BitLen
<1>7. n > 0 => num >= TwoTo[n - 1]
  <2>1. SUFFICES ASSUME n > 0 PROVE num >= TwoTo[n - 1]
    OBVIOUS
  <2>2. n - 1 \in S /\ n - 1 \in Nat
    BY <1>3, <1>4, <2>1
  <2>. QED  BY <1>0, <1>1, <2>2
<1>8. n < WordBits \/ num < Word => num < TwoTo[n]
  <2>1. n = WordBits \/ num < TwoTo[n]
    BY <1>2
  <2>. QED  BY <1>0, <1>4, <2>1 DEF Word
<1>. QED  BY <1>4, <1>6, <1>7, <1>8

\* A number that is read is a word, and fits the groups it was read from.
LEMMA DecodeUintFacts ==
  ASSUME NEW n \in Nat, NEW groups, AreGroups(groups, n)
  PROVE  /\ DecodeUint(groups) \in 0 .. Word - 1 /\ DecodeUint(groups) \in Nat
         /\ n * GroupBits <= WordBits => DecodeUint(groups) < TwoTo[n * GroupBits]
<1>1. GroupBits \in Nat \ {0} /\ Word \in Nat \ {0}
  BY WordFacts
<1>2. HasLength(groups, n) /\ \A i \in 1 .. n : groups[i] \in Nat
  BY <1>1, TwoToFacts DEF AreGroups, AreDigits
<1>3. DecodeUint(groups) \in 0 .. Word - 1
  BY <1>1, <1>2, NumberType DEF DecodeUint
<1>4. ASSUME n * GroupBits <= WordBits PROVE DecodeUint(groups) < TwoTo[n * GroupBits]
  <2>1. GroupBits * n = n * GroupBits
    BY <1>1
  <2>2. Number(groups, GroupBits) \in 0 .. TwoTo[GroupBits * n] - 1
    <3>1. GroupBits * n <= WordBits
      BY <1>4, <2>1
    <3>. QED  BY <1>1, <3>1, DigitsOfNumber DEF AreGroups
  <2>3. n * GroupBits \in Nat
    BY <1>1
  <2>4. TwoTo[n * GroupBits] \in Nat
    BY <2>3, TwoToFacts
  <2>. QED  BY <2>1, <2>2, <2>4 DEF DecodeUint
<1>. QED  BY <1>1, <1>3, <1>4

\* A number of a fixed number of groups is read back, and one that fits is
\* written.
LEMMA EncodeUintFacts ==
  ASSUME NEW num \in Nat, NEW n \in Nat, n * GroupBits < WordBits
  PROVE  /\ \A groups \in EncodeUint(num, n) :
              /\ AreGroups(groups, n) /\ DecodeUint(groups) = num
              /\ num < TwoTo[n * GroupBits]
         /\ num < TwoTo[n * GroupBits] => EncodeUint(num, n) # {}
<1>1. GroupBits \in Nat \ {0} /\ WordBits \in Nat \ {0} /\ n * GroupBits \in Nat
  BY WordFacts
<1>2. /\ BitLen(num) \in 0 .. WordBits
      /\ BitLen(num) > 0 => num >= TwoTo[BitLen(num) - 1]
      /\ BitLen(num) < WordBits => num < TwoTo[BitLen(num)]
  BY BitLenFacts
<1>3. ASSUME NEW groups \in EncodeUint(num, n)
      PROVE  /\ AreGroups(groups, n) /\ DecodeUint(groups) = num
             /\ num < TwoTo[n * GroupBits]
  <2>1. BitLen(num) <= n * GroupBits /\ groups = Digits(num, GroupBits, n)
    <3>1. ~(BitLen(num) > n * GroupBits) /\ groups = Digits(num, GroupBits, n)
      BY DEF EncodeUint
    <3>. QED  BY <1>1, <1>2, <3>1
  <2>2. num < TwoTo[BitLen(num)] /\ BitLen(num) \in Nat
    BY <1>1, <1>2, <2>1
  <2>3. TwoTo[BitLen(num)] <= TwoTo[n * GroupBits] /\ TwoTo[n * GroupBits] < Word
    BY <1>1, <2>1, <2>2, TwoToGrows DEF Word
  <2>4. num < TwoTo[n * GroupBits] /\ num \in 0 .. Word - 1
    BY <1>1, <2>2, <2>3, TwoToFacts, WordFacts
  <2>5. GroupBits * n = n * GroupBits
    BY <1>1
  <2>6. Number(Digits(num, GroupBits, n), GroupBits) = num
    BY <1>1, <2>4, <2>5, NumberOfDigits
  <2>7. AreDigits(Digits(num, GroupBits, n), GroupBits, n)
    BY <1>1, DigitsAre
  <2>. QED  BY <2>1, <2>4, <2>6, <2>7 DEF AreGroups, DecodeUint
<1>4. ASSUME num < TwoTo[n * GroupBits], BitLen(num) > n * GroupBits
      PROVE  FALSE
  <2>1. BitLen(num) - 1 \in Nat /\ n * GroupBits <= BitLen(num) - 1 /\ num >= TwoTo[BitLen(num) - 1]
    BY <1>1, <1>2, <1>4
  <2>2. TwoTo[n * GroupBits] <= TwoTo[BitLen(num) - 1]
    BY <1>1, <2>1, TwoToGrows
  <2>3. TwoTo[n * GroupBits] \in Nat /\ TwoTo[BitLen(num) - 1] \in Nat
    BY <1>1, <2>1, TwoToFacts
  <2>. QED  BY <1>4, <2>1, <2>2, <2>3
<1>5. num < TwoTo[n * GroupBits] => EncodeUint(num, n) # {}
  BY <1>4 DEF EncodeUint
<1>. QED  BY <1>3, <1>5

\* A number in as few groups as hold it is read back, and its first group is
\* not zero.
LEMMA EncodeVarUintFacts ==
  ASSUME NEW num \in 0 .. Word - 1
  PROVE  \E n \in Nat :
           /\ AreGroups(EncodeVarUint(num), n) /\ DecodeUint(EncodeVarUint(num)) = num
           /\ n <= (WordBits + GroupBits - 1) \div GroupBits
           /\ num > 0 => n > 0 /\ EncodeVarUint(num)[1] # 0
<1>. DEFINE len == BitLen(num)
            n == (len + GroupBits - 1) \div GroupBits
            pad == (-len) % GroupBits
            P == TwoTo[GroupBits * n]
            w == TwoTo[GroupBits]
<1>1. /\ GroupBits \in Nat \ {0} /\ WordBits \in Nat \ {0} /\ Word \in Nat \ {0, 1}
      /\ num \in Nat /\ num < Word
  BY WordFacts
<1>2. /\ len \in 0 .. WordBits /\ num < TwoTo[len] /\ len \in Nat
      /\ len > 0 => num >= TwoTo[len - 1]
  BY <1>1, BitLenFacts
<1>. HIDE DEF len
<1>3. n \in Nat /\ pad \in 0 .. GroupBits - 1 /\ n * GroupBits = len + pad
  BY <1>2, PadFacts
<1>4. n <= (WordBits + GroupBits - 1) \div GroupBits
  <2>. DEFINE g == (WordBits + GroupBits - 1) \div GroupBits
  <2>1. g \in Nat /\ g * GroupBits = WordBits + ((-WordBits) % GroupBits)
        /\ (-WordBits) % GroupBits \in 0 .. GroupBits - 1
    BY <1>1, PadFacts
  <2>. HIDE DEF g
  <2>2. len <= g * GroupBits
    BY <1>1, <1>2, <2>1
  <2>3. n <= g
    BY <1>2, <2>1, <2>2, PadFacts
  <2>. QED  BY <2>3 DEF g
<1>5. EncodeVarUint(num) = Digits(num, GroupBits, n)
  BY DEF EncodeVarUint, len
<1>. HIDE DEF n, pad
<1>6. GroupBits * n = len + pad /\ len + pad \in Nat
  BY <1>1, <1>2, <1>3
<1>7. num < P
  <2>1. TwoTo[len] <= TwoTo[len + pad] /\ TwoTo[len] \in Nat /\ TwoTo[len + pad] \in Nat
    BY <1>1, <1>2, <1>3, <1>6, TwoToGrows, TwoToFacts
  <2>. QED  BY <1>1, <1>2, <1>6, <2>1
<1>8. AreGroups(EncodeVarUint(num), n) /\ DecodeUint(EncodeVarUint(num)) = num
  BY <1>1, <1>3, <1>5, <1>7, DigitsAre, NumberOfDigits DEF AreGroups, DecodeUint
<1>9. ASSUME num > 0 PROVE n > 0 /\ EncodeVarUint(num)[1] # 0
  <2>1. len # 0
    <3>1. TwoTo[0] = 1
      BY TwoToFacts
    <3>. QED  BY <1>1, <1>2, <1>9, <3>1
  <2>2. n # 0
    <3>1. 0 * GroupBits = 0
      BY <1>1
    <3>. QED  BY <1>1, <1>2, <1>3, <2>1, <3>1
  <2>. DEFINE m == GroupBits * (n - 1)  Q == TwoTo[m]
  <2>3. m \in Nat /\ m + GroupBits = GroupBits * n
    BY <1>1, <1>3, <2>2
  <2>. HIDE DEF m
  <2>4. m <= len - 1 /\ len - 1 \in Nat
    BY <1>1, <1>2, <1>3, <1>6, <2>1, <2>3
  <2>5. Q <= num /\ Q \in Nat \ {0}
    <3>1. Q <= TwoTo[len - 1] /\ Q \in Nat \ {0} /\ TwoTo[len - 1] \in Nat
      BY <2>3, <2>4, TwoToGrows, TwoToFacts
    <3>. QED  BY <1>1, <1>2, <2>4, <3>1
  <2>6. P = Q * w /\ w \in Nat \ {0}
    BY <1>1, <2>3, TwoToAdd, TwoToFacts
  <2>7. EncodeVarUint(num)[1] = (num \div Q) % w
    <3>1. 1 \in 1 .. n
      BY <1>3, <2>2
    <3>. QED  BY <1>1, <1>3, <1>5, <3>1, DigitsAre DEF m
  <2>. HIDE DEF P, Q, w
  <2>. DEFINE x == num \div Q
  <2>8. x \in Nat /\ num = Q * x + (num % Q) /\ num % Q \in 0 .. Q - 1
    BY <1>1, <2>5, DivMod
  <2>. HIDE DEF x
  <2>9. x # 0
    <3>1. Q * 0 = 0
      BY <2>5
    <3>. QED  BY <1>1, <2>5, <2>8, <3>1
  <2>10. x < w
    <3>1. CASE w <= x
      <4>1. Q * w <= Q * x /\ Q * x \in Nat /\ Q * w \in Nat
        BY <2>5, <2>6, <2>8, <3>1
      <4>. QED  BY <1>1, <1>7, <2>5, <2>6, <2>8, <4>1
    <3>. QED  BY <2>6, <2>8, <3>1
  <2>11. x % w = x
    BY <2>6, <2>8, <2>10, ModSmall
  <2>. QED  BY <1>3, <2>2, <2>7, <2>9, <2>11 DEF x
<1>. QED  BY <1>3, <1>4, <1>8, <1>9

-----------------------------------------------------------------------------
(* Sets of bits *)

\* One digit
LEMMA DigitIs ==
  ASSUME NEW num \in Nat, NEW width \in Nat, NEW n \in Nat, NEW i \in 1 .. n, NEW e,
         e = width * (n - i)
  PROVE  Digits(num, width, n)[i] = (num \div TwoTo[e]) % TwoTo[width]
BY DigitsAre

\* One bit
LEMMA BitIs ==
  ASSUME NEW num \in Nat, NEW n \in Nat, NEW i \in 1 .. n
  PROVE  Digits(num, 1, n)[i] = (num \div TwoTo[n - i]) % 2
<1>. DEFINE one == 1
            e == n - i
<1>1. one = 1 /\ one \in Nat /\ e \in Nat
  OBVIOUS
<1>. HIDE DEF one
<1>2. e = one * (n - i)
  BY <1>1
<1>. HIDE DEF e
<1>3. Digits(num, one, n)[i] = (num \div TwoTo[e]) % TwoTo[one]
  BY <1>1, <1>2, DigitIs
<1>. QED  BY <1>1, <1>3, TwoToOne DEF one, e

\* The number of some bits has these bits.
LEMMA FromBitsFacts ==
  ASSUME NEW n \in 0 .. WordBits, NEW bits
  PROVE  /\ FromBits(bits, n) \in 0 .. TwoTo[n] - 1 /\ FromBits(bits, n) \in 0 .. Word - 1
         /\ BitsOf(FromBits(bits, n)) = {k \in 0 .. n - 1 : k \in bits}
<1>. DEFINE digits == [i \in 1 .. n |-> IF n - i \in bits THEN 1 ELSE 0]
            num == FromBits(bits, n)
<1>1. /\ WordBits \in Nat \ {0} /\ n \in Nat /\ n <= WordBits /\ 1 * n = n
      /\ Word \in Nat \ {0, 1} /\ TwoTo[1] = 2
  BY WordFacts, TwoToOne
<1>2. HasLength(digits, n) /\ \A i \in 1 .. n : digits[i] = IF n - i \in bits THEN 1 ELSE 0
  BY <1>1 DEF HasLength
<1>3. num = Number(digits, 1)
  BY DEF FromBits
<1>. HIDE DEF digits, num
<1>4. AreDigits(digits, 1, n)
  BY <1>1, <1>2 DEF AreDigits
<1>5. num \in 0 .. TwoTo[n] - 1 /\ num \in 0 .. Word - 1 /\ Digits(num, 1, n) = digits
  BY <1>1, <1>3, <1>4, DigitsOfNumber
<1>6. num \in Nat /\ TwoTo[n] \in Nat \ {0} /\ num < TwoTo[n]
  BY <1>1, <1>5, TwoToFacts
<1>7. ASSUME NEW k \in 0 .. n - 1 PROVE (num \div TwoTo[k]) % 2 = 1 <=> k \in bits
  <2>1. n - k \in 1 .. n /\ n - (n - k) = k /\ 1 * (n - (n - k)) = k
    BY <1>1
  <2>2. digits[n - k] = (num \div TwoTo[n - (n - k)]) % 2
    BY <1>1, <1>5, <1>6, <2>1, BitIs
  <2>3. digits[n - k] = (num \div TwoTo[k]) % 2
    BY <2>1, <2>2
  <2>. QED  BY <1>2, <2>1, <2>3
<1>8. ASSUME NEW k \in n .. WordBits - 1 PROVE (num \div TwoTo[k]) % 2 # 1
  <2>1. k \in Nat /\ n <= k
    BY <1>1
  <2>2. TwoTo[k] \in Nat \ {0} /\ TwoTo[n] <= TwoTo[k]
    BY <1>1, <2>1, TwoToFacts, TwoToGrows
  <2>3. num \div TwoTo[k] = 0
    BY <1>6, <2>2, ModSmall
  <2>. QED  BY <2>3
<1>9. BitsOf(num) = {k \in 0 .. n - 1 : k \in bits}
  <2>1. \A k \in 0 .. WordBits - 1 : k \in 0 .. n - 1 \/ k \in n .. WordBits - 1
    BY <1>1
  <2>2. \A k \in 0 .. n - 1 : k \in 0 .. WordBits - 1
    BY <1>1
  <2>. QED  BY <1>7, <1>8, <2>1, <2>2 DEF BitsOf
<1>. QED  BY <1>5, <1>9 DEF num

\* A number that fits a word is known by its bits.
LEMMA BitsSame ==
  ASSUME NEW x \in 0 .. Word - 1, NEW y \in 0 .. Word - 1, BitsOf(x) = BitsOf(y)
  PROVE  x = y
<1>1. WordBits \in Nat \ {0} /\ 1 * WordBits = WordBits /\ Word \in Nat /\ TwoTo[1] = 2
  BY WordFacts, TwoToOne
<1>2. ASSUME NEW z \in 0 .. Word - 1
      PROVE  /\ Number(Digits(z, 1, WordBits), 1) = z
             /\ HasLength(Digits(z, 1, WordBits), WordBits)
             /\ \A i \in 1 .. WordBits :
                  /\ Digits(z, 1, WordBits)[i] \in {0, 1}
                  /\ Digits(z, 1, WordBits)[i] = 1 <=> WordBits - i \in BitsOf(z)
  <2>1. z \in Nat /\ z < TwoTo[1 * WordBits]
    BY <1>1 DEF Word
  <2>2. Number(Digits(z, 1, WordBits), 1) = z
    BY <1>1, <2>1, NumberOfDigits
  <2>3. AreDigits(Digits(z, 1, WordBits), 1, WordBits)
    BY <1>1, <2>1, DigitsAre
  <2>4. ASSUME NEW i \in 1 .. WordBits
        PROVE  /\ Digits(z, 1, WordBits)[i] \in {0, 1}
               /\ Digits(z, 1, WordBits)[i] = 1 <=> WordBits - i \in BitsOf(z)
    <3>1. 1 * (WordBits - i) = WordBits - i /\ WordBits - i \in 0 .. WordBits - 1
      BY <1>1
    <3>2. Digits(z, 1, WordBits)[i] = (z \div TwoTo[WordBits - i]) % 2
      BY <1>1, <2>1, BitIs
    <3>3. Digits(z, 1, WordBits)[i] \in {0, 1}
      BY <1>1, <2>3 DEF AreDigits
    <3>. QED  BY <3>1, <3>2, <3>3 DEF BitsOf
  <2>. QED  BY <2>2, <2>3, <2>4 DEF AreDigits
<1>3. Digits(x, 1, WordBits) = Digits(y, 1, WordBits)
  <2>1. \A i \in 1 .. WordBits : Digits(x, 1, WordBits)[i] = Digits(y, 1, WordBits)[i]
    BY <1>2
  <2>. QED  BY <1>2, <2>1, LengthSame
<1>4. Number(Digits(x, 1, WordBits), 1) = x /\ Number(Digits(y, 1, WordBits), 1) = y
  BY <1>2
<1>. QED  BY <1>3, <1>4

\* Zero has no bits.
LEMMA NoBits == BitsOf(0) = {}
<1>1. ASSUME NEW k \in 0 .. WordBits - 1 PROVE (0 \div TwoTo[k]) % 2 # 1
  <2>1. k \in Nat /\ TwoTo[k] \in Nat \ {0}
    BY WordFacts, TwoToFacts
  <2>2. 0 \div TwoTo[k] = 0
    BY <2>1, ModSmall
  <2>. QED  BY <2>2
<1>. QED  BY <1>1 DEF BitsOf

-----------------------------------------------------------------------------
(* Features *)

\* A feature vector is known by its features.
LEMMA FeaturesSame ==
  ASSUME NEW v, FeatureVector(v), NEW w, FeatureVector(w), v.features = w.features
  PROVE  v = w
<1>1. v.maxBit = w.maxBit
  BY DEF FeatureVector
<1>. QED  BY <1>1 DEF FeatureVector

\* A feature vector has the bits it is made of, and the highest of them.
LEMMA NewFeatureVectorFacts ==
  ASSUME NEW n \in Nat, NEW bits, HasLength(bits, n), \A i \in 1 .. n : bits[i] \in Nat
  PROVE  /\ FeatureVector(NewFeatureVector(bits))
         /\ NewFeatureVector(bits).features = {bits[i] : i \in 1 .. n}
<1>. DEFINE none == [features |-> {}, maxBit |-> 0]
            D == [features : SUBSET Nat, maxBit : Nat]
            step == [k \in Nat |-> [d \in D |-> Set(d, bits[k + 1])]]
            Is(f) == f = [k \in 0 .. Len(bits) |-> IF k = 0 THEN none ELSE Set(f[k - 1], bits[k])]
<1>1. Len(bits) = n
  BY LengthOf
<1>2. ASSUME NEW k \in 0 .. n - 1, NEW d \in D
      PROVE  step[k][d] = Set(d, bits[k + 1]) /\ step[k][d] \in D
  <2>1. k \in Nat /\ k + 1 \in 1 .. n
    OBVIOUS
  <2>2. Set(d, bits[k + 1]) \in D
    BY <2>1 DEF Set
  <2>. QED  BY <2>1, <2>2
<1>3. none \in D
  OBVIOUS
<1>. HIDE DEF D, step, none
<1>4. PICK f \in [0 .. n -> D] : Steps(f, n, none, step)
  BY <1>2, <1>3, StepsExist
<1>5. f[0] = none /\ \A k \in 1 .. n : f[k] = Set(f[k - 1], bits[k])
  <2>1. f[0] = none
    BY <1>4 DEF Steps
  <2>2. ASSUME NEW k \in 1 .. n PROVE f[k] = Set(f[k - 1], bits[k])
    <3>1. k - 1 \in 0 .. n - 1 /\ k - 1 \in 0 .. n /\ (k - 1) + 1 = k
      OBVIOUS
    <3>2. f[k - 1] \in D /\ f[(k - 1) + 1] = step[k - 1][f[k - 1]]
      BY <1>4, <3>1 DEF Steps
    <3>. QED  BY <1>2, <3>1, <3>2
  <2>. QED  BY <2>1, <2>2
<1>6. Is(f)
  <2>1. ASSUME NEW k \in 0 .. n PROVE f[k] = IF k = 0 THEN none ELSE Set(f[k - 1], bits[k])
    <3>1. k # 0 => k \in 1 .. n
      OBVIOUS
    <3>. QED  BY <1>5, <3>1
  <2>2. f = [k \in 0 .. n |-> f[k]]
    OBVIOUS
  <2>3. [k \in 0 .. n |-> f[k]] = [k \in 0 .. n |-> IF k = 0 THEN none ELSE Set(f[k - 1], bits[k])]
    BY <2>1, Zenon
  <2>. QED  BY <1>1, <2>2, <2>3
<1>7. NewFeatureVector(bits) = (CHOOSE g : Is(g))[Len(bits)]
  BY DEF NewFeatureVector, none
<1>. DEFINE h == CHOOSE g : Is(g)
<1>8. Is(h)
  <2>. HIDE DEF Is
  <2>. QED  BY <1>6
<1>9. h[0] = none /\ \A k \in 1 .. n : h[k] = Set(h[k - 1], bits[k])
  <2>. HIDE DEF h
  <2>1. \A k \in 0 .. n : h[k] = IF k = 0 THEN none ELSE Set(h[k - 1], bits[k])
    BY <1>1, <1>8
  <2>. QED  BY <2>1
<1>. HIDE DEF h, Is
<1>. DEFINE S == {k \in 0 .. n : /\ FeatureVector(h[k])
                                 /\ h[k].features = {bits[i] : i \in 1 .. k}}
<1>10. 0 \in S
  BY <1>9 DEF none, FeatureVector
<1>11. ASSUME NEW j \in 0 .. n - 1, j \in S PROVE j + 1 \in S
  <2>. DEFINE k == j + 1
  <2>1. k \in 1 .. n /\ k - 1 = j /\ k \in 0 .. n /\ bits[k] \in Nat
    OBVIOUS
  <2>2. \A i : i \in 1 .. k <=> i \in 1 .. j \/ i = k
    OBVIOUS
  <2>. HIDE DEF k
  <2>3. FeatureVector(h[j]) /\ h[j].features = {bits[i] : i \in 1 .. j}
    BY <1>11
  <2>4. h[k] = Set(h[j], bits[k])
    BY <1>9, <2>1
  <2>5. h[k].features = {bits[i] : i \in 1 .. k}
    <3>1. h[k].features = h[j].features \cup {bits[k]}
      <4>1. \A g, b : Set(g, b).features = g.features \cup {b}
        BY DEF Set
      <4>. QED  BY <2>4, <4>1, Zenon
    <3>2. {bits[i] : i \in 1 .. k} = {bits[i] : i \in 1 .. j} \cup {bits[k]}
      BY <2>2, Zenon
    <3>. QED  BY <2>3, <3>1, <3>2, Zenon
  <2>6. FeatureVector(h[k])
    <3>. DEFINE g == h[j]  b == bits[k]
    <3>1. FeatureVector(g) /\ b \in Nat
      BY <2>1, <2>3
    <3>. HIDE DEF g, b
    <3>2. FeatureVector(Set(g, b))
      BY <3>1 DEF Set, FeatureVector
    <3>. QED  BY <2>4, <3>2 DEF g, b
  <2>. QED  BY <2>1, <2>5, <2>6 DEF k
<1>12. \A k \in 0 .. n : k \in S
  <2>. HIDE DEF S
  <2>. QED  BY <1>10, <1>11, InductionUpTo
<1>13. n \in S
  BY <1>12
<1>. QED  BY <1>1, <1>7, <1>13 DEF h

\* The decoder finds the bits that are set.
LEMMA SetBitsFacts ==
  ASSUME NEW g \in Nat, NEW data, AreGroups(data, g)
  PROVE  LET bits == SetBits(data)
         IN  /\ \E n \in Nat : HasLength(bits, n) /\ DOMAIN bits = 1 .. n
                                /\ \A i \in 1 .. n : bits[i] \in Nat
             /\ {bits[i] : i \in DOMAIN bits} = {bit \in 0 .. g * GroupBits - 1 : IsSet(data, bit)}
<1>. DEFINE m == g * GroupBits
            s == [i \in 1 .. m |-> i - 1]
            S == {i \in 1 .. m : IsSet(data, i - 1)}
            bits == SetBits(data)
<1>1. m \in Nat /\ Len(data) = g
  BY WordFacts, LengthOf DEF AreGroups, AreDigits
<1>2. bits = Subsequence(s, S)
  BY <1>1 DEF SetBits
<1>. HIDE DEF m, bits
<1>3. s \in Seq(Nat) /\ Len(s) = m
  <2>1. \A i \in 1 .. m : s[i] \in Nat
    BY <1>1
  <2>2. HasLength(s, m)
    BY <1>1 DEF HasLength
  <2>. HIDE DEF s
  <2>. QED  BY <2>1, <2>2, LengthOf
<1>4. \A i \in 1 .. m : s[i] = i - 1
  OBVIOUS
<1>5. S \in SUBSET (1 .. Len(s))
  BY <1>3
<1>. HIDE DEF s
<1>6. /\ bits \in Seq(Nat) /\ Len(bits) = Cardinality(S)
      /\ \A k \in 1 .. Len(bits) : \E i \in S : bits[k] = s[i]
      /\ \A i \in S : \E k \in 1 .. Len(bits) : bits[k] = s[i]
  <2>. HIDE DEF S
  <2>1. /\ bits \in Seq(Nat) /\ Len(bits) = Cardinality(S)
        /\ \A k \in 1 .. Cardinality(S) : \E i \in S : bits[k] = s[i]
        /\ \A i \in S : \E k \in 1 .. Cardinality(S) : bits[k] = s[i]
    BY <1>2, <1>3, <1>5, SubsequenceSeq
  <2>. QED  BY <2>1
<1>7. Len(bits) \in Nat /\ HasLength(bits, Len(bits)) /\ DOMAIN bits = 1 .. Len(bits)
      /\ \A i \in 1 .. Len(bits) : bits[i] \in Nat
  BY <1>6, LengthMakes, LenProperties, ElementOfSeq
<1>8. {bits[i] : i \in DOMAIN bits} = {bit \in 0 .. m - 1 : IsSet(data, bit)}
  <2>1. ASSUME NEW k \in 1 .. Len(bits) PROVE bits[k] \in 0 .. m - 1 /\ IsSet(data, bits[k])
    <3>1. PICK i \in S : bits[k] = s[i]
      BY <1>6
    <3>2. i \in 1 .. m /\ IsSet(data, i - 1) /\ s[i] = i - 1
      BY <1>4
    <3>. QED  BY <1>1, <3>1, <3>2
  <2>2. ASSUME NEW bit \in 0 .. m - 1, IsSet(data, bit) PROVE \E k \in 1 .. Len(bits) : bits[k] = bit
    <3>1. bit + 1 \in S /\ s[bit + 1] = bit
      BY <1>1, <1>4, <2>2
    <3>. HIDE DEF S
    <3>. QED  BY <1>6, <3>1
  <2>. QED  BY <1>7, <2>1, <2>2
<1>9. \E n \in Nat : HasLength(bits, n) /\ DOMAIN bits = 1 .. n /\ \A i \in 1 .. n : bits[i] \in Nat
  BY <1>7
<1>. QED  BY <1>8, <1>9 DEF m, bits

\* Where the encoder puts a bit is where the decoder looks for it.
LEMMA PlaceOfBit ==
  ASSUME NEW n \in Nat \ {0}, NEW features \in SUBSET (0 .. n * GroupBits - 1), NEW data,
         AreGroups(data, n),
         \A i \in 1 .. n :
           data[i] = FromBits({bit % GroupBits : bit \in {b \in features : n - b \div GroupBits = i}},
                              GroupBits),
         NEW bit \in 0 .. n * GroupBits - 1
  PROVE  /\ n - bit \div GroupBits \in 1 .. n /\ Len(data) = n
         /\ IsSet(data, bit) <=> bit \in features
<1>. DEFINE q == bit \div GroupBits
            r == bit % GroupBits
            i == n - q
            B == {b % GroupBits : b \in {b \in features : n - b \div GroupBits = i}}
<1>1. GroupBits \in Nat \ {0} /\ GroupBits \in 0 .. WordBits /\ n * GroupBits \in Nat
  BY WordFacts
<1>2. Len(data) = n
  BY LengthOf DEF AreGroups, AreDigits
<1>3. bit \in Nat /\ q \in Nat /\ r \in 0 .. GroupBits - 1 /\ bit = GroupBits * q + r
  <2>1. bit \in Nat /\ GroupBits \in Nat \ {0}
    BY <1>1
  <2>. QED  BY ONLY <2>1, DivMod
<1>4. q < n
  <2>. HIDE DEF q, r
  <2>1. bit < n * GroupBits
    BY <1>1
  <2>2. SUFFICES ASSUME q >= n PROVE FALSE
    BY <1>3
  <2>3. PICK e \in Nat : q = n + e
    <3>1. q - n \in Nat /\ q = n + (q - n)
      BY <1>3, <2>2
    <3>. QED  BY <3>1
  <2>4. GroupBits * q = n * GroupBits + GroupBits * e /\ GroupBits * e \in Nat
    BY <1>1, <2>3
  <2>. QED  BY <1>1, <1>3, <2>1, <2>4
<1>5. i \in 1 .. n
  BY <1>3, <1>4
<1>6. data[i] = FromBits(B, GroupBits)
  BY <1>5
<1>7. r \in BitsOf(data[i]) <=> r \in B
  <2>. HIDE DEF B, r, i
  <2>. QED  BY <1>1, <1>3, <1>6, FromBitsFacts
<1>8. r \in B <=> bit \in features
  <2>1. ASSUME bit \in features PROVE r \in B
    BY <2>1
  <2>2. ASSUME r \in B PROVE bit \in features
    <3>1. PICK b \in features : n - b \div GroupBits = i /\ b % GroupBits = r
      BY <2>2
    <3>2. b \in Nat
      BY <1>1
    <3>3. b \div GroupBits \in Nat /\ b = GroupBits * (b \div GroupBits) + (b % GroupBits)
      BY <1>1, <3>2, DivMod
    <3>4. b \div GroupBits = q
      BY <1>3, <3>1, <3>3
    <3>5. b = bit
      BY <1>3, <3>1, <3>3, <3>4
    <3>. QED  BY <3>5
  <2>. QED  BY <2>1, <2>2
<1>9. IsSet(data, bit) <=> r \in BitsOf(data[i])
  BY <1>2 DEF IsSet
<1>. QED  BY <1>2, <1>5, <1>7, <1>8, <1>9

\* The features of a vector are read back, and its first group is not zero
\* unless it is the only one.
LEMMA FeaturesFacts ==
  ASSUME NEW v, FeatureVector(v), NEW data \in EncodeFeatures(v)
  PROVE  LET n == v.maxBit \div GroupBits + 1
         IN  /\ n \in Nat \ {0} /\ AreGroups(data, n)
             /\ DecodeFeatures(data) = {v}
             /\ data[1] = 0 => data = <<0>>
<1>. DEFINE max == v.maxBit
            n == max \div GroupBits + 1
            F == v.features
            B(i) == {bit % GroupBits : bit \in {b \in F : n - b \div GroupBits = i}}
<1>1. GroupBits \in Nat \ {0} /\ GroupBits \in 0 .. WordBits
  BY WordFacts
<1>2. max \in Nat /\ F \subseteq 0 .. max /\ (max = 0 \/ max \in F)
  BY DEF FeatureVector
<1>3. ~UnknownRequired(F) /\ data = [i \in 1 .. n |-> FromBits(B(i), GroupBits)]
  BY DEF EncodeFeatures
<1>4. /\ max \div GroupBits \in Nat /\ max % GroupBits \in 0 .. GroupBits - 1
      /\ max = GroupBits * (max \div GroupBits) + (max % GroupBits)
  BY <1>1, <1>2, DivMod
<1>5. n \in Nat \ {0} /\ n * GroupBits \in Nat /\ max < n * GroupBits
  <2>. DEFINE q == max \div GroupBits
              r == max % GroupBits
  <2>. HIDE DEF q, r, max
  <2>1. q \in Nat /\ r \in 0 .. GroupBits - 1 /\ max = GroupBits * q + r
    BY <1>4 DEF q, r
  <2>2. (q + 1) * GroupBits = GroupBits * q + GroupBits /\ (q + 1) * GroupBits \in Nat
    BY <1>1, <2>1
  <2>. QED  BY <1>1, <2>1, <2>2 DEF q
<1>. HIDE DEF n, max, F
<1>6. \A i \in 1 .. n : data[i] = FromBits(B(i), GroupBits)
  BY <1>3
<1>7. AreGroups(data, n)
  <2>1. \A i \in 1 .. n : FromBits(B(i), GroupBits) \in 0 .. TwoTo[GroupBits] - 1
    BY <1>1, FromBitsFacts
  <2>2. HasLength(data, n)
    BY <1>3, <1>5 DEF HasLength
  <2>. QED  BY <1>6, <2>1, <2>2 DEF AreGroups, AreDigits
<1>8. F \in SUBSET (0 .. n * GroupBits - 1)
  BY <1>2, <1>5
<1>9. \A bit \in 0 .. n * GroupBits - 1 : /\ n - bit \div GroupBits \in 1 .. n /\ Len(data) = n
                                          /\ IsSet(data, bit) <=> bit \in F
  BY <1>5, <1>6, <1>7, <1>8, PlaceOfBit
<1>10. DecodeFeatures(data) = {v}
  <2>. DEFINE bits == SetBits(data)
  <2>1. /\ \E m \in Nat : HasLength(bits, m) /\ DOMAIN bits = 1 .. m
                          /\ \A i \in 1 .. m : bits[i] \in Nat
        /\ {bits[i] : i \in DOMAIN bits} = {bit \in 0 .. n * GroupBits - 1 : IsSet(data, bit)}
    BY <1>5, <1>7, SetBitsFacts
  <2>. HIDE DEF bits
  <2>2. {bits[i] : i \in DOMAIN bits} = F
    BY <1>8, <1>9, <2>1
  <2>3. DecodeFeatures(data) = {NewFeatureVector(bits)}
    BY <1>3, <2>2 DEF DecodeFeatures, bits
  <2>4. FeatureVector(NewFeatureVector(bits)) /\ NewFeatureVector(bits).features = F
    BY <2>1, <2>2, NewFeatureVectorFacts
  <2>5. NewFeatureVector(bits) = v
    BY <2>4, FeaturesSame DEF F
  <2>. QED  BY <2>3, <2>5
<1>11. ASSUME data[1] = 0 PROVE data = <<0>>
  <2>1. max \notin F
    <3>1. SUFFICES ASSUME max \in F PROVE FALSE
      OBVIOUS
    <3>2. max \in 0 .. n * GroupBits - 1 /\ n - max \div GroupBits = 1
      BY <1>4, <1>5, <1>8, <3>1 DEF n
    <3>3. IsSet(data, max) /\ Len(data) = n
      BY <1>9, <3>1, <3>2
    <3>4. max % GroupBits \in BitsOf(data[1])
      BY <3>2, <3>3 DEF IsSet
    <3>. QED  BY <1>11, <3>4, NoBits
  <2>2. max = 0
    BY <1>2, <2>1
  <2>3. max \div GroupBits = 0
    BY <1>1, <2>2, ModSmall
  <2>4. n = 1
    BY <2>3 DEF n
  <2>5. HasLength(data, 1)
    BY <1>7, <2>4 DEF AreGroups, AreDigits
  <2>6. data = [i \in 1 .. 1 |-> data[i]]
    BY <2>5 DEF HasLength
  <2>7. [i \in 1 .. 1 |-> data[i]] = [i \in 1 .. 1 |-> 0]
    BY <1>11
  <2>8. [i \in 1 .. 1 |-> 0] = <<0>>
    OBVIOUS
  <2>. QED  BY <2>6, <2>7, <2>8
<1>. QED  BY <1>5, <1>7, <1>10, <1>11 DEF n, max

\* Features that were read can be written, in no more groups, but for none at all.
LEMMA DecodedFeatures ==
  ASSUME NEW g \in Nat, NEW data, AreGroups(data, g), NEW v \in DecodeFeatures(data)
  PROVE  /\ FeatureVector(v) /\ EncodeFeatures(v) # {}
         /\ v.maxBit \div GroupBits + 1 <= g \/ v.maxBit \div GroupBits + 1 = 1
<1>. DEFINE bits == SetBits(data)
<1>1. GroupBits \in Nat \ {0} /\ g * GroupBits \in Nat
  BY WordFacts
<1>2. /\ \E m \in Nat : HasLength(bits, m) /\ DOMAIN bits = 1 .. m
                        /\ \A i \in 1 .. m : bits[i] \in Nat
      /\ {bits[i] : i \in DOMAIN bits} = {bit \in 0 .. g * GroupBits - 1 : IsSet(data, bit)}
  BY SetBitsFacts
<1>3. ~UnknownRequired({bits[i] : i \in DOMAIN bits}) /\ v = NewFeatureVector(bits)
  BY DEF DecodeFeatures
<1>. HIDE DEF bits
<1>4. FeatureVector(v) /\ v.features = {bits[i] : i \in DOMAIN bits}
  BY <1>2, <1>3, NewFeatureVectorFacts
<1>5. EncodeFeatures(v) # {}
  BY <1>3, <1>4 DEF EncodeFeatures
<1>6. v.maxBit = 0 \/ v.maxBit < g * GroupBits
  BY <1>1, <1>2, <1>4 DEF FeatureVector
<1>. DEFINE max == v.maxBit
            q == max \div GroupBits
            r == max % GroupBits
<1>7. max \in Nat
  BY <1>4 DEF FeatureVector
<1>. HIDE DEF max
<1>8. q \in Nat /\ r \in 0 .. GroupBits - 1 /\ max = GroupBits * q + r
  BY <1>1, <1>7, DivMod
<1>9. CASE max = 0
  <2>1. q = 0
    BY <1>1, <1>9, ModSmall
  <2>. QED  BY <1>4, <1>5, <2>1 DEF max
<1>10. CASE max < g * GroupBits
  <2>. HIDE DEF q, r
  <2>1. q < g
    <3>1. SUFFICES ASSUME q >= g PROVE FALSE
      BY <1>8
    <3>2. PICK e \in Nat : q = g + e
      <4>1. q - g \in Nat /\ q = g + (q - g)
        BY <1>8, <3>1
      <4>. QED  BY <4>1
    <3>3. GroupBits * q = g * GroupBits + GroupBits * e /\ GroupBits * e \in Nat
      BY <1>1, <3>2
    <3>. QED  BY <1>1, <1>8, <1>10, <3>3
  <2>. QED  BY <1>4, <1>5, <1>8, <2>1 DEF max, q
<1>. QED  BY <1>6, <1>9, <1>10 DEF max

-----------------------------------------------------------------------------
(* Short channel ids *)

\* Two digits of different bases make less than the product of the bases.
LEMMA TwoDigits ==
  ASSUME NEW a \in Nat \ {0}, NEW b \in Nat \ {0}, NEW x \in 0 .. a - 1, NEW y \in 0 .. b - 1
  PROVE  /\ x * b + y \in 0 .. a * b - 1
         /\ (x * b + y) \div b = x /\ (x * b + y) % b = y
         /\ x * b \in Nat /\ x * b + y \in Nat
<1>1. PICK e \in Nat : a = x + 1 + e
  <2>1. a - x - 1 \in Nat /\ a = x + 1 + (a - x - 1)
    OBVIOUS
  <2>. QED  BY <2>1
<1>2. a * b = x * b + b + e * b /\ x * b \in Nat /\ e * b \in Nat
  BY <1>1
<1>. DEFINE n == x * b + y
<1>3. n = b * x + y /\ n \in Nat
  BY <1>2
<1>4. n \in 0 .. a * b - 1
  BY <1>2, <1>3
<1>. HIDE DEF n
<1>5. n \div b = x /\ n % b = y
  <2>1. x \in Nat /\ y \in 0 .. b - 1
    OBVIOUS
  <2>. QED  BY <1>3, <2>1, DivModIs
<1>. QED  BY <1>2, <1>3, <1>4, <1>5 DEF n

\* Quotient and the bits of a sum whose parts do not overlap
LEMMA BitsOfSum ==
  ASSUME NEW x \in Nat, NEW n \in Nat, NEW b \in 0 .. TwoTo[n] - 1
  PROVE  BitsOf(x * TwoTo[n] + b) = BitsOf(x * TwoTo[n]) \cup BitsOf(b)
<1>. DEFINE p == TwoTo[n]
            a == x * p
            s == a + b
<1>1. p \in Nat \ {0} /\ b \in Nat /\ b \in 0 .. p - 1
  BY TwoToFacts
<1>2. a \in Nat /\ s \in Nat /\ s = p * x + b /\ a = p * x + 0
  <2>. HIDE DEF p
  <2>. QED  BY <1>1
<1>3. ASSUME NEW k \in Nat, k < n
      PROVE  (a \div TwoTo[k]) % 2 = 0 /\ (s \div TwoTo[k]) % 2 = (b \div TwoTo[k]) % 2
  <2>. DEFINE q == TwoTo[k]
              h == TwoTo[n - k - 1]
              y == x * h
              c == b \div q
              r == b % q
  <2>1. n - k - 1 \in Nat /\ q \in Nat \ {0} /\ h \in Nat \ {0}
    BY <1>3, TwoToFacts
  <2>2. p = q * (2 * h)
    <3>1. n - k \in Nat /\ n = k + (n - k) /\ n - k = (n - k - 1) + 1
      BY <2>1
    <3>2. TwoTo[n] = TwoTo[k] * TwoTo[n - k]
      BY <3>1, TwoToAdd
    <3>3. TwoTo[(n - k - 1) + 1] = 2 * h
      BY <2>1, TwoToFacts
    <3>4. TwoTo[n - k] = 2 * h
      BY <3>1, <3>3
    <3>. QED  BY <3>2, <3>4
  <2>3. c \in Nat /\ r \in 0 .. q - 1 /\ b = q * c + r
    BY <1>1, <2>1, DivMod
  <2>. HIDE DEF q, h, c, r, p
  <2>4. y \in Nat /\ a = q * (2 * y) + 0 /\ s = q * (2 * y + c) + r
    <3>1. y \in Nat
      BY <2>1
    <3>2. a = q * (2 * y)
      BY <1>1, <2>1, <2>2
    <3>3. q * (2 * y + c) = q * (2 * y) + q * c
      BY <2>1, <2>3, <3>1
    <3>4. a \in Nat /\ q * c \in Nat
      BY <1>2, <2>1, <2>3
    <3>. HIDE DEF a, y
    <3>. QED  BY <1>1, <2>1, <2>3, <3>1, <3>2, <3>3, <3>4 DEF s
  <2>. HIDE DEF a, s, y
  <2>5. a \div q = 2 * y
    <3>1. 2 * y \in Nat /\ 0 \in 0 .. q - 1
      BY <2>1, <2>4
    <3>. QED  BY <2>1, <2>4, <3>1, DivModIs
  <2>6. s \div q = 2 * y + c
    <3>. DEFINE z == 2 * y + c
    <3>1. z \in Nat /\ s = q * z + r
      BY <2>3, <2>4
    <3>. HIDE DEF z
    <3>. QED  BY <2>1, <2>3, <3>1, DivModIs DEF z
  <2>7. (2 * y) % 2 = 0 /\ (2 * y + c) % 2 = c % 2
    BY <2>3, <2>4
  <2>. QED  BY <2>5, <2>6, <2>7 DEF q, c
<1>4. ASSUME NEW k \in Nat, n <= k
      PROVE  a \div TwoTo[k] = s \div TwoTo[k] /\ b \div TwoTo[k] = 0
  <2>. DEFINE q == TwoTo[k - n]
  <2>1. k - n \in Nat /\ q \in Nat \ {0} /\ TwoTo[k] \in Nat \ {0} /\ k = n + (k - n)
    BY <1>4, TwoToFacts
  <2>2. TwoTo[k] = p * q
    BY <2>1, TwoToAdd
  <2>3. a \div p = x /\ s \div p = x
    <3>1. 0 \in 0 .. p - 1
      BY <1>1
    <3>. HIDE DEF p, a, s
    <3>. QED  BY <1>1, <1>2, <3>1, DivModIs
  <2>. HIDE DEF q, a, s, p
  <2>4. (a \div p) \div q = a \div TwoTo[k] /\ (s \div p) \div q = s \div TwoTo[k]
    BY <1>1, <1>2, <2>1, <2>2, DivTwice
  <2>5. TwoTo[n] <= TwoTo[k]
    BY <1>4, TwoToGrows
  <2>6. b < TwoTo[k]
    BY <1>1, <2>1, <2>5 DEF p
  <2>7. b \div TwoTo[k] = 0
    BY <1>1, <2>1, <2>6, ModSmall
  <2>. QED  BY <2>3, <2>4, <2>7
<1>5. ASSUME NEW k \in 0 .. WordBits - 1
      PROVE  (s \div TwoTo[k]) % 2 = 1 <=> (a \div TwoTo[k]) % 2 = 1 \/ (b \div TwoTo[k]) % 2 = 1
  <2>1. k \in Nat
    BY WordFacts
  <2>. HIDE DEF a, s
  <2>2. CASE k < n
    <3>1. (a \div TwoTo[k]) % 2 = 0 /\ (s \div TwoTo[k]) % 2 = (b \div TwoTo[k]) % 2
      BY <1>3, <2>1, <2>2
    <3>. QED  BY <3>1
  <2>3. CASE n <= k
    <3>1. a \div TwoTo[k] = s \div TwoTo[k] /\ b \div TwoTo[k] = 0
      BY <1>4, <2>1, <2>3
    <3>2. (b \div TwoTo[k]) % 2 # 1
      BY <3>1
    <3>. QED  BY <3>1, <3>2
  <2>. QED  BY <2>1, <2>2, <2>3
<1>6. BitsOf(s) = BitsOf(a) \cup BitsOf(b)
  <2>. HIDE DEF a, s
  <2>. QED  BY <1>5 DEF BitsOf
<1>. QED  BY <1>6

ScidOK(scid) ==
  /\ scid.height \in 0 .. TwoTo[HeightBits] - 1 /\ scid.tx \in 0 .. TwoTo[TxBits] - 1
  /\ scid.out \in 0 .. TwoTo[OutBits] - 1

\* The parts of a short channel id fill a word.
LEMMA ScidWidths ==
  /\ HeightBits \in Nat /\ TxBits \in Nat /\ OutBits \in Nat /\ TxBits + OutBits \in Nat
  /\ TwoTo[HeightBits] \in Nat \ {0} /\ TwoTo[TxBits] \in Nat \ {0} /\ TwoTo[OutBits] \in Nat \ {0}
  /\ TwoTo[TxBits + OutBits] = TwoTo[TxBits] * TwoTo[OutBits]
  /\ TwoTo[TxBits + OutBits] \in Nat \ {0}
  /\ Word = TwoTo[HeightBits] * TwoTo[TxBits + OutBits]
<1>1. HeightBits \in Nat /\ TxBits \in Nat /\ OutBits \in Nat /\ HeightBits + TxBits + OutBits = WordBits
  BY WidthsAssumption
<1>2. TxBits + OutBits \in Nat /\ WordBits = HeightBits + (TxBits + OutBits)
  BY <1>1
<1>3. /\ TwoTo[TxBits + OutBits] = TwoTo[TxBits] * TwoTo[OutBits]
      /\ TwoTo[HeightBits + (TxBits + OutBits)] = TwoTo[HeightBits] * TwoTo[TxBits + OutBits]
  BY <1>1, <1>2, TwoToAdd
<1>. QED  BY <1>1, <1>2, <1>3, TwoToFacts DEF Word

\* The parts of an id within their widths are found in its number.
LEMMA ScidRoundTrip ==
  ASSUME NEW scid, ScidOK(scid)
  PROVE  /\ NewShortChannelIDFromUint64(ToUint64(scid)) =
              [height |-> scid.height, tx |-> scid.tx, out |-> scid.out]
<1>. DEFINE h == scid.height
            t == scid.tx
            o == scid.out
            H == TwoTo[HeightBits]
            T == TwoTo[TxBits]
            O == TwoTo[OutBits]
            TO == TwoTo[TxBits + OutBits]
            u == h * T + t
            num == u * O + o
            low == t * O + o
<1>1. h \in 0 .. H - 1 /\ t \in 0 .. T - 1 /\ o \in 0 .. O - 1
  BY DEF ScidOK
<1>2. H \in Nat \ {0} /\ T \in Nat \ {0} /\ O \in Nat \ {0} /\ TO \in Nat \ {0}
      /\ TO = T * O /\ Word = H * TO
  BY ScidWidths
<1>. HIDE DEF h, t, o, H, T, O, TO
<1>3. h \in Nat /\ t \in Nat /\ o \in Nat
  BY <1>1
<1>4. u \in Nat /\ u \div T = h /\ u % T = t /\ u < H * T
  BY <1>1, <1>2, TwoDigits
<1>5. low \in 0 .. TO - 1 /\ t * O \in 0 .. TO - 1
  <2>1. low \in 0 .. T * O - 1 /\ t * O \in Nat
    BY <1>1, <1>2, TwoDigits
  <2>. QED  BY <1>2, <1>3, <2>1
<1>6. num = h * TO + low /\ u * O = h * TO + t * O /\ u * O \in Nat
  <2>1. (h * T + t) * O = (h * T) * O + t * O
    BY <1>2, <1>3
  <2>2. (h * T) * O = h * (T * O)
    BY <1>2, <1>3
  <2>3. h * TO \in Nat /\ t * O \in Nat
    BY <1>2, <1>3
  <2>. QED  BY <1>2, <1>3, <2>1, <2>2, <2>3
<1>7. num \in 0 .. Word - 1 /\ num \div TO = h
  <2>. DEFINE l == low
  <2>1. l \in 0 .. TO - 1
    BY <1>5
  <2>. HIDE DEF l
  <2>2. h * TO + l \in 0 .. H * TO - 1 /\ (h * TO + l) \div TO = h
    BY <1>1, <1>2, <2>1, TwoDigits
  <2>. QED  BY <1>2, <1>6, <2>2 DEF l
<1>8. num \div O = u /\ num % O = o
  <2>. HIDE DEF u
  <2>1. num = O * u + o /\ u * O \in Nat
    BY <1>2, <1>3, <1>4
  <2>. QED  BY <1>1, <1>2, <1>4, <2>1, DivModIs
<1>9. BitsOf(num) = BitsOf(u * O) \cup BitsOf(o)
  <2>. HIDE DEF u
  <2>. QED  BY <1>1, <1>4, ScidWidths, BitsOfSum DEF O
<1>10. BitsOf(u * O) = BitsOf(h * TO) \cup BitsOf(t * O)
  <2>. DEFINE l == t * O
  <2>1. l \in 0 .. TO - 1
    BY <1>5
  <2>. HIDE DEF l
  <2>2. BitsOf(h * TO + l) = BitsOf(h * TO) \cup BitsOf(l)
    <3>. DEFINE e == TxBits + OutBits
    <3>1. e \in Nat /\ TO = TwoTo[e]
      BY ScidWidths DEF TO
    <3>. HIDE DEF e
    <3>2. l \in 0 .. TwoTo[e] - 1
      BY <2>1, <3>1, Zenon
    <3>3. BitsOf(h * TwoTo[e] + l) = BitsOf(h * TwoTo[e]) \cup BitsOf(l)
      BY <1>3, <3>1, <3>2, BitsOfSum
    <3>. QED  BY <3>1, <3>3, Zenon
  <2>. QED  BY <1>6, <2>2 DEF l
<1>11. (h * TO) % Word = h * TO /\ (t * O) % Word = t * O
  <2>1. h * TO \in Nat /\ t * O \in Nat
    BY <1>2, <1>3
  <2>2. h * TO < Word /\ t * O < Word /\ Word \in Nat \ {0}
    <3>1. u * O \in Nat /\ num \in 0 .. Word - 1 /\ num = u * O + o
      BY <1>6, <1>7
    <3>2. u * O = h * TO + t * O
      BY <1>6
    <3>. HIDE DEF u, num
    <3>. DEFINE x == h * TO
                y == t * O
    <3>3. x \in Nat /\ y \in Nat /\ x + y + o \in 0 .. Word - 1
      BY <2>1, <3>1, <3>2
    <3>. HIDE DEF x, y
    <3>4. x < Word /\ y < Word
      BY <1>3, <3>3, WordFacts
    <3>. QED  BY <3>4, WordFacts DEF x, y
  <2>. DEFINE x == h * TO
              y == t * O
  <2>. HIDE DEF x, y
  <2>3. x % Word = x /\ y % Word = y
    BY <2>1, <2>2, ModSmall DEF x, y
  <2>. QED  BY <2>3 DEF x, y
<1>. DEFINE bits == UNION {BitsOf((h * TO) % Word), BitsOf((t * O) % Word), BitsOf(o)}
            made == FromBits(bits, WordBits)
<1>12. bits = BitsOf(num)
  <2>. HIDE DEF num, u
  <2>1. bits = BitsOf(h * TO) \cup BitsOf(t * O) \cup BitsOf(o)
    BY <1>11
  <2>. QED  BY <1>9, <1>10, <2>1 DEF num
<1>13. ToUint64(scid) = made
  BY DEF ToUint64, h, t, o, TO, O
<1>. HIDE DEF bits, made, num, u
<1>14. made \in 0 .. Word - 1 /\ BitsOf(made) = {k \in 0 .. WordBits - 1 : k \in bits}
  <2>1. WordBits \in 0 .. WordBits
    BY WordFacts
  <2>. QED  BY <2>1, FromBitsFacts DEF made
<1>15. BitsOf(made) = BitsOf(num)
  BY <1>12, <1>14 DEF BitsOf
<1>16. made = num
  BY <1>7, <1>14, <1>15, BitsSame
<1>17. h % H = h
  BY <1>1, <1>2, <1>3, ModSmall
<1>18. NewShortChannelIDFromUint64(num) =
         [height |-> (num \div TO) % H, tx |-> (num \div O) % T, out |-> num % O]
  BY DEF NewShortChannelIDFromUint64, H, T, O, TO
<1>. QED  BY <1>4, <1>7, <1>8, <1>13, <1>16, <1>17, <1>18 DEF h, t, o

\* What is taken out of a number stays within its width.
LEMMA ScidType ==
  ASSUME NEW num \in Nat
  PROVE  /\ ScidOK(NewShortChannelIDFromUint64(num))
         /\ NewShortChannelIDFromUint64(num) \in
              [height : Nat, tx : Nat, out : 0 .. TwoTo[OutBits] - 1]
<1>. DEFINE H == TwoTo[HeightBits]
            T == TwoTo[TxBits]
            O == TwoTo[OutBits]
            TO == TwoTo[TxBits + OutBits]
<1>1. H \in Nat \ {0} /\ T \in Nat \ {0} /\ O \in Nat \ {0} /\ TO \in Nat \ {0}
  BY ScidWidths
<1>2. NewShortChannelIDFromUint64(num) =
        [height |-> (num \div TO) % H, tx |-> (num \div O) % T, out |-> num % O]
  BY DEF NewShortChannelIDFromUint64
<1>. HIDE DEF H, T, O, TO
<1>3. num \div TO \in Nat /\ num \div O \in Nat /\ num % O \in 0 .. O - 1
  BY <1>1, DivMod
<1>4. (num \div TO) % H \in 0 .. H - 1 /\ (num \div O) % T \in 0 .. T - 1
  BY <1>1, <1>3, DivMod
<1>5. (num \div TO) % H \in Nat /\ (num \div O) % T \in Nat
  BY <1>1, <1>4
<1>. QED  BY <1>2, <1>3, <1>4, <1>5 DEF ScidOK, H, T, O

-----------------------------------------------------------------------------
(* Hop hints *)

\* The k elements of s after the a-th
Piece(s, a, k) == SubSeq(s, a + 1, a + k)

\* Pieces, element by element
LEMMA PieceFacts ==
  ASSUME NEW s, NEW m, HasLength(s, m)
  PROVE  /\ \A a, k \in Nat : a + k <= m =>
              /\ HasLength(Piece(s, a, k), k)
              /\ \A i \in 1 .. k : Piece(s, a, k)[i] = s[a + i] /\ a + i \in 1 .. m
         /\ Piece(s, 0, m) = s
<1>1. m \in Nat
  BY DEF HasLength
<1>2. ASSUME NEW a \in Nat, NEW k \in Nat, a + k <= m
      PROVE  /\ HasLength(Piece(s, a, k), k)
             /\ \A i \in 1 .. k : Piece(s, a, k)[i] = s[a + i] /\ a + i \in 1 .. m
  <2>1. a + 1 \in 1 .. m + 1 /\ a + k \in (a + 1) - 1 .. m /\ (a + k) - (a + 1) + 1 = k
    BY <1>1, <1>2
  <2>2. /\ HasLength(SubSeq(s, a + 1, a + k), (a + k) - (a + 1) + 1)
        /\ \A i \in 1 .. (a + k) - (a + 1) + 1 : SubSeq(s, a + 1, a + k)[i] = s[(a + 1) + i - 1]
    BY <2>1, LengthSubSeq
  <2>3. \A i \in 1 .. k : (a + 1) + i - 1 = a + i /\ a + i \in 1 .. m
    BY <1>1, <1>2
  <2>. QED  BY <2>1, <2>2, <2>3 DEF Piece
<1>3. Piece(s, 0, m) = s
  <2>1. 0 \in Nat /\ 0 + m <= m /\ \A i \in 1 .. m : 0 + i = i
    BY <1>1
  <2>2. HasLength(Piece(s, 0, m), m) /\ \A i \in 1 .. m : Piece(s, 0, m)[i] = s[i]
    BY <1>1, <1>2, <2>1
  <2>. QED  BY <2>2, LengthSame
<1>. QED  BY <1>2, <1>3

\* A concatenation and its pieces
LEMMA PartOfConcat ==
  ASSUME NEW s, NEW m, HasLength(s, m), NEW t, NEW n, HasLength(t, n), NEW u, Joins(u, s, t)
  PROVE  /\ m \in Nat /\ n \in Nat /\ m + n \in Nat /\ HasLength(u, m + n)
         /\ \A i \in 1 .. m : u[i] = s[i]
         /\ \A i \in 1 .. n : u[m + i] = t[i]
         /\ Piece(u, m, n) = t
         /\ \A a, k \in Nat : a + k <= m => Piece(u, a, k) = Piece(s, a, k)
<1>1. m \in Nat /\ n \in Nat
  BY DEF HasLength
<1>3. HasLength(u, m + n) /\ (\A i \in 1 .. m : u[i] = s[i]) /\ (\A i \in 1 .. n : u[m + i] = t[i])
  BY LengthConcat
<1>4. Piece(u, m, n) = t
  <2>1. m + n <= m + n
    BY <1>1
  <2>2. HasLength(Piece(u, m, n), n) /\ \A i \in 1 .. n : Piece(u, m, n)[i] = u[m + i]
    BY <1>1, <1>3, <2>1, PieceFacts
  <2>3. \A i \in 1 .. n : Piece(u, m, n)[i] = t[i]
    BY <1>3, <2>2
  <2>. QED  BY <2>2, <2>3, LengthSame
<1>5. ASSUME NEW a \in Nat, NEW k \in Nat, a + k <= m PROVE Piece(u, a, k) = Piece(s, a, k)
  <2>1. a + k <= m + n
    BY <1>1, <1>5
  <2>2. HasLength(Piece(u, a, k), k) /\ \A i \in 1 .. k : Piece(u, a, k)[i] = u[a + i]
    BY <1>3, <2>1, PieceFacts
  <2>3. /\ HasLength(Piece(s, a, k), k)
        /\ \A i \in 1 .. k : Piece(s, a, k)[i] = s[a + i] /\ a + i \in 1 .. m
    BY <1>5, PieceFacts
  <2>4. \A i \in 1 .. k : Piece(u, a, k)[i] = Piece(s, a, k)[i]
    BY <1>3, <2>2, <2>3
  <2>. QED  BY <2>2, <2>3, <2>4, LengthSame
<1>6. m + n \in Nat
  BY <1>1
<1>. QED  BY <1>1, <1>3, <1>4, <1>5, <1>6

\* A concatenation of digits
LEMMA ConcatDigits ==
  ASSUME NEW width \in Nat, NEW s, NEW m, AreDigits(s, width, m), NEW t, NEW n, AreDigits(t, width, n),
         NEW u, Joins(u, s, t)
  PROVE  AreDigits(u, width, m + n)
<1>1. HasLength(s, m) /\ HasLength(t, n)
  BY DEF AreDigits
<1>2. /\ m \in Nat /\ n \in Nat /\ HasLength(u, m + n)
      /\ \A i \in 1 .. m : u[i] = s[i]
      /\ \A i \in 1 .. n : u[m + i] = t[i]
  BY <1>1, PartOfConcat
<1>3. ASSUME NEW i \in 1 .. m + n PROVE u[i] \in 0 .. TwoTo[width] - 1
  <2>1. CASE i <= m
    <3>1. i \in 1 .. m
      BY <1>2, <2>1
    <3>2. u[i] = s[i]
      BY <1>2, <3>1
    <3>. QED  BY <3>1, <3>2 DEF AreDigits
  <2>2. CASE i > m
    <3>1. i - m \in 1 .. n /\ m + (i - m) = i
      BY <1>2, <2>2
    <3>2. u[i] = t[i - m]
      <4>1. u[m + (i - m)] = t[i - m]
        BY <1>2, <3>1
      <4>. QED  BY <3>1, <4>1
    <3>. QED  BY <3>1, <3>2 DEF AreDigits
  <2>. QED  BY <1>2, <2>1, <2>2
<1>. QED  BY <1>2, <1>3 DEF AreDigits

\* The parts of a hop hint that fit a word, and their widths
LEMMA HopWidths ==
  /\ ByteBits \in Nat \ {0}
  /\ KeyBytes \in Nat \ {0} /\ ScidBytes \in Nat /\ FeeBytes \in Nat /\ PpmBytes \in Nat
  /\ DeltaBytes \in Nat /\ HopLength \in Nat \ {0}
  /\ ByteBits * ScidBytes = WordBits
  /\ ByteBits * FeeBytes \in 0 .. WordBits /\ ByteBits * PpmBytes \in 0 .. WordBits
  /\ ByteBits * DeltaBytes \in 0 .. WordBits
  /\ \A p \in Points : AreBytes(p, KeyBytes)
<1>1. ByteBits \in Nat \ {0} /\ WordBits \in Nat /\ WordBits % ByteBits = 0
  BY WordFacts, WidthsAssumption
<1>. DEFINE q == WordBits \div ByteBits
<1>2. q \in Nat /\ WordBits = ByteBits * q + (WordBits % ByteBits)
  BY <1>1, DivMod
<1>. HIDE DEF q
<1>3. ByteBits * q = WordBits
  <2>1. ByteBits * q \in Nat
    BY <1>1, <1>2
  <2>. QED  BY <1>1, <1>2, <2>1
<1>4. FeeBytes \in 0 .. q /\ PpmBytes \in 0 .. q /\ DeltaBytes \in 0 .. q
  BY SizesAssumption DEF q
<1>5. KeyBytes \in Nat \ {0}
  BY SizesAssumption
<1>6. ScidBytes = q
  BY DEF ScidBytes, q
<1>7. HopLength \in Nat \ {0}
  BY <1>2, <1>4, <1>5, <1>6 DEF HopLength
<1>8. ASSUME NEW n \in 0 .. q PROVE ByteBits * n \in 0 .. WordBits
  <2>1. PICK e \in Nat : q = n + e
    <3>1. q - n \in Nat /\ q = n + (q - n)
      BY <1>2
    <3>. QED  BY <3>1
  <2>2. ByteBits * q = ByteBits * n + ByteBits * e /\ ByteBits * n \in Nat /\ ByteBits * e \in Nat
    BY <1>1, <2>1
  <2>. QED  BY <1>1, <1>3, <2>2
<1>9. ASSUME NEW p \in Points PROVE AreBytes(p, KeyBytes)
  <2>1. p \in Seq(0 .. Byte - 1) /\ Len(p) = KeyBytes
    BY SizesAssumption
  <2>2. HasLength(p, KeyBytes)
    BY <2>1, LengthMakes
  <2>3. \A i \in 1 .. KeyBytes : p[i] \in 0 .. Byte - 1
    BY <2>1, ElementOfSeq
  <2>. QED  BY <2>2, <2>3 DEF AreBytes, AreDigits, Byte
<1>10. FeeBytes \in Nat /\ PpmBytes \in Nat /\ DeltaBytes \in Nat
  BY <1>4
<1>. QED  BY <1>1, <1>2, <1>3, <1>4, <1>5, <1>6, <1>7, <1>8, <1>9, <1>10

\* What an invoice can say of a hop
HopOK(hop) ==
  /\ hop.scid.height < TwoTo[HeightBits] /\ hop.scid.tx < TwoTo[TxBits]
  /\ hop.fee < TwoTo[ByteBits * FeeBytes]

\* A number that fits its bytes is read back.
LEMMA UintBytes ==
  ASSUME NEW num \in Nat, NEW n \in Nat
  PROVE  /\ AreBytes(Digits(num, ByteBits, n), n)
         /\ ByteBits * n \in 0 .. WordBits =>
              /\ num < TwoTo[ByteBits * n] => Number(Digits(num, ByteBits, n), ByteBits) = num
              /\ \A bytes : AreBytes(bytes, n) =>
                   /\ Number(bytes, ByteBits) \in 0 .. TwoTo[ByteBits * n] - 1
                   /\ Number(bytes, ByteBits) \in Nat
<1>1. ByteBits \in Nat
  BY HopWidths
<1>2. AreBytes(Digits(num, ByteBits, n), n)
  BY <1>1, DigitsAre DEF AreBytes
<1>. DEFINE w == ByteBits * n
<1>3. ASSUME w \in 0 .. WordBits, num < TwoTo[w]
      PROVE  Number(Digits(num, ByteBits, n), ByteBits) = num
  <2>1. w \in Nat /\ w <= WordBits /\ WordBits \in Nat
    BY <1>3, WordFacts
  <2>. HIDE DEF w
  <2>2. TwoTo[w] <= TwoTo[WordBits] /\ TwoTo[w] \in Nat /\ TwoTo[WordBits] \in Nat
    BY <2>1, TwoToGrows, TwoToFacts
  <2>3. num \in 0 .. Word - 1
    BY <1>3, <2>2 DEF Word
  <2>. QED  BY <1>1, <1>3, <2>3, NumberOfDigits DEF w
<1>4. ASSUME w \in 0 .. WordBits, NEW bytes, AreBytes(bytes, n)
      PROVE  /\ Number(bytes, ByteBits) \in 0 .. TwoTo[w] - 1
             /\ Number(bytes, ByteBits) \in Nat
  <2>1. w <= WordBits
    BY <1>4, WordFacts
  <2>2. Number(bytes, ByteBits) \in 0 .. TwoTo[w] - 1 /\ Number(bytes, ByteBits) \in 0 .. Word - 1
    BY <1>1, <1>4, <2>1, DigitsOfNumber DEF AreBytes
  <2>3. Number(bytes, ByteBits) \in Nat
    BY <2>2
  <2>. QED  BY <2>2, <2>3
<1>. QED  BY <1>2, <1>3, <1>4

\* A hop hint has its bytes, and one that an invoice can say is read from them.
LEMMA HopBytesFacts ==
  ASSUME NEW hop \in HopHint
  PROVE  /\ AreBytes(HopBytes(hop), HopLength)
         /\ HopOf(HopBytes(hop)).key = hop.key
         /\ HopOK(hop) => HopOf(HopBytes(hop)) = hop
<1>. DEFINE num == ToUint64(hop.scid)
            k == hop.key
            s == Digits(num, ByteBits, ScidBytes)
            f == Digits(hop.fee, ByteBits, FeeBytes)
            p == Digits(hop.ppm, ByteBits, PpmBytes)
            d == Digits(hop.delta, ByteBits, DeltaBytes)
            ks == k \o s
            ksf == ks \o f
            ksfp == ksf \o p
            b == ksfp \o d
            K == KeyBytes
            S == KeyBytes + ScidBytes
            F == KeyBytes + ScidBytes + FeeBytes
            P == KeyBytes + ScidBytes + FeeBytes + PpmBytes
<1>1. /\ hop.key \in Points /\ hop.fee \in Nat /\ hop.ppm \in 0 .. TwoTo[ByteBits * PpmBytes] - 1
      /\ hop.delta \in 0 .. TwoTo[ByteBits * DeltaBytes] - 1
      /\ hop.scid \in [height : Nat, tx : Nat, out : 0 .. TwoTo[OutBits] - 1]
  BY DEF HopHint
<1>2. num \in 0 .. Word - 1 /\ num \in Nat
  <2>1. WordBits \in 0 .. WordBits
    BY WordFacts
  <2>2. num \in 0 .. Word - 1
    BY <2>1, FromBitsFacts DEF ToUint64
  <2>. HIDE DEF num
  <2>. QED  BY <2>2
<1>3. hop.ppm \in Nat /\ hop.delta \in Nat
  BY <1>1
<1>4. /\ K \in Nat /\ S \in Nat /\ F \in Nat /\ P \in Nat /\ ScidBytes \in Nat /\ FeeBytes \in Nat
      /\ PpmBytes \in Nat /\ DeltaBytes \in Nat /\ ByteBits \in Nat
      /\ S = K + ScidBytes /\ F = S + FeeBytes /\ P = F + PpmBytes /\ HopLength = P + DeltaBytes
  BY HopWidths DEF HopLength
<1>5. /\ AreBytes(k, K) /\ AreBytes(s, ScidBytes) /\ AreBytes(f, FeeBytes) /\ AreBytes(p, PpmBytes)
      /\ AreBytes(d, DeltaBytes)
  <2>1. AreBytes(k, K)
    BY <1>1, HopWidths
  <2>. HIDE DEF num
  <2>2. AreBytes(s, ScidBytes)
    BY <1>2, <1>4, UintBytes
  <2>. QED  BY <1>1, <1>3, <1>4, <2>1, <2>2, UintBytes
<1>6. HopBytes(hop) = b
  BY DEF HopBytes
<1>. HIDE DEF num, k, s, f, p, d, K, S, F, P
<1>7. AreBytes(ks, S) /\ Piece(ks, K, ScidBytes) = s
      /\ \A a, n \in Nat : a + n <= K => Piece(ks, a, n) = Piece(k, a, n)
  <2>1. HasLength(k, K) /\ HasLength(s, ScidBytes) /\ Joins(ks, k, s)
    BY <1>5 DEF AreBytes, AreDigits, Joins
  <2>. HIDE DEF ks
  <2>2. AreBytes(ks, K + ScidBytes)
    BY <1>4, <1>5, <2>1, ConcatDigits DEF AreBytes
  <2>3. /\ Piece(ks, K, ScidBytes) = s
        /\ \A a, n \in Nat : a + n <= K => Piece(ks, a, n) = Piece(k, a, n)
    BY <2>1, PartOfConcat
  <2>. QED  BY <1>4, <2>2, <2>3
<1>. HIDE DEF ks
<1>8. AreBytes(ksf, F) /\ Piece(ksf, S, FeeBytes) = f
      /\ \A a, n \in Nat : a + n <= S => Piece(ksf, a, n) = Piece(ks, a, n)
  <2>1. HasLength(ks, S) /\ HasLength(f, FeeBytes) /\ Joins(ksf, ks, f)
    BY <1>5, <1>7 DEF AreBytes, AreDigits, Joins
  <2>. HIDE DEF ksf
  <2>2. AreBytes(ksf, S + FeeBytes)
    BY <1>4, <1>5, <1>7, <2>1, ConcatDigits DEF AreBytes
  <2>3. /\ Piece(ksf, S, FeeBytes) = f
        /\ \A a, n \in Nat : a + n <= S => Piece(ksf, a, n) = Piece(ks, a, n)
    BY <2>1, PartOfConcat
  <2>. QED  BY <1>4, <2>2, <2>3
<1>. HIDE DEF ksf
<1>9. AreBytes(ksfp, P) /\ Piece(ksfp, F, PpmBytes) = p
      /\ \A a, n \in Nat : a + n <= F => Piece(ksfp, a, n) = Piece(ksf, a, n)
  <2>1. HasLength(ksf, F) /\ HasLength(p, PpmBytes) /\ Joins(ksfp, ksf, p)
    BY <1>5, <1>8 DEF AreBytes, AreDigits, Joins
  <2>. HIDE DEF ksfp
  <2>2. AreBytes(ksfp, F + PpmBytes)
    BY <1>4, <1>5, <1>8, <2>1, ConcatDigits DEF AreBytes
  <2>3. /\ Piece(ksfp, F, PpmBytes) = p
        /\ \A a, n \in Nat : a + n <= F => Piece(ksfp, a, n) = Piece(ksf, a, n)
    BY <2>1, PartOfConcat
  <2>. QED  BY <1>4, <2>2, <2>3
<1>. HIDE DEF ksfp
<1>10. AreBytes(b, HopLength) /\ Piece(b, P, DeltaBytes) = d
      /\ \A a, n \in Nat : a + n <= P => Piece(b, a, n) = Piece(ksfp, a, n)
  <2>1. HasLength(ksfp, P) /\ HasLength(d, DeltaBytes) /\ Joins(b, ksfp, d)
    BY <1>5, <1>9 DEF AreBytes, AreDigits, Joins
  <2>. HIDE DEF b
  <2>2. AreBytes(b, P + DeltaBytes)
    BY <1>4, <1>5, <1>9, <2>1, ConcatDigits DEF AreBytes
  <2>3. /\ Piece(b, P, DeltaBytes) = d
        /\ \A a, n \in Nat : a + n <= P => Piece(b, a, n) = Piece(ksfp, a, n)
    BY <2>1, PartOfConcat
  <2>. QED  BY <1>4, <2>2, <2>3
<1>. HIDE DEF b
<1>11. Piece(b, 0, K) = k /\ Piece(b, K, ScidBytes) = s /\ Piece(b, S, FeeBytes) = f
       /\ Piece(b, F, PpmBytes) = p
  <2>1. /\ 0 + K <= K /\ 0 + K <= S /\ 0 + K <= F /\ 0 + K <= P /\ K + ScidBytes <= S
        /\ K + ScidBytes <= F /\ K + ScidBytes <= P /\ S + FeeBytes <= F /\ S + FeeBytes <= P
        /\ F + PpmBytes <= P /\ 0 \in Nat
    BY <1>4
  <2>2. Piece(k, 0, K) = k
    BY <1>5, PieceFacts DEF AreBytes, AreDigits
  <2>. QED  BY ONLY <1>4, <1>7, <1>8, <1>9, <1>10, <2>1, <2>2
<1>12. HopOf(b) =
         [key   |-> Piece(b, 0, K),
          scid  |-> NewShortChannelIDFromUint64(Number(Piece(b, K, ScidBytes), ByteBits)),
          fee   |-> Number(Piece(b, S, FeeBytes), ByteBits),
          ppm   |-> Number(Piece(b, F, PpmBytes), ByteBits),
          delta |-> Number(Piece(b, P, DeltaBytes), ByteBits)]
  BY DEF HopOf, K, S, F, P, Piece
<1>13. HopOf(b) =
         [key |-> k, scid |-> NewShortChannelIDFromUint64(Number(s, ByteBits)),
          fee |-> Number(f, ByteBits), ppm |-> Number(p, ByteBits), delta |-> Number(d, ByteBits)]
  BY <1>10, <1>11, <1>12
<1>14. ASSUME HopOK(hop) PROVE HopOf(b) = hop
  <2>1. Number(s, ByteBits) = num
    <3>1. num < TwoTo[ByteBits * ScidBytes]
      BY <1>2, HopWidths, WordFacts DEF Word
    <3>2. ByteBits * ScidBytes \in 0 .. WordBits
      BY HopWidths, WordFacts
    <3>. QED  BY <1>2, <1>4, <3>1, <3>2, UintBytes DEF s
  <2>2. Number(f, ByteBits) = hop.fee
    BY <1>1, <1>4, <1>14, HopWidths, UintBytes DEF f, HopOK
  <2>3. Number(p, ByteBits) = hop.ppm
    <3>1. hop.ppm < TwoTo[ByteBits * PpmBytes]
      <4>1. TwoTo[ByteBits * PpmBytes] \in Nat
        BY HopWidths, TwoToFacts
      <4>. QED  BY <1>1, <4>1
    <3>. QED  BY <1>3, <1>4, <3>1, HopWidths, UintBytes DEF p
  <2>4. Number(d, ByteBits) = hop.delta
    <3>1. hop.delta < TwoTo[ByteBits * DeltaBytes]
      <4>1. TwoTo[ByteBits * DeltaBytes] \in Nat
        BY HopWidths, TwoToFacts
      <4>. QED  BY <1>1, <4>1
    <3>. QED  BY <1>3, <1>4, <3>1, HopWidths, UintBytes DEF d
  <2>5. NewShortChannelIDFromUint64(num) = hop.scid
    <3>1. ScidOK(hop.scid)
      BY <1>1, <1>14, ScidWidths DEF HopOK, ScidOK
    <3>2. NewShortChannelIDFromUint64(num) =
            [height |-> hop.scid.height, tx |-> hop.scid.tx, out |-> hop.scid.out]
      BY <3>1, ScidRoundTrip DEF num
    <3>. QED  BY <1>1, <3>2
  <2>6. hop = [key |-> hop.key, scid |-> hop.scid, fee |-> hop.fee, ppm |-> hop.ppm, delta |-> hop.delta]
    BY DEF HopHint
  <2>. QED  BY <1>13, <2>1, <2>2, <2>3, <2>4, <2>5, <2>6 DEF k
<1>15. HopOf(b).key = hop.key
  BY <1>13 DEF k
<1>. QED  BY <1>6, <1>10, <1>14, <1>15

\* What is read of a hop is a hop that can be written.
LEMMA HopOfFacts ==
  ASSUME NEW bytes, AreBytes(bytes, HopLength), HopOf(bytes).key \in Points
  PROVE  HopOf(bytes) \in HopHint /\ HopOK(HopOf(bytes))
<1>. DEFINE K == KeyBytes
            S == KeyBytes + ScidBytes
            F == KeyBytes + ScidBytes + FeeBytes
            P == KeyBytes + ScidBytes + FeeBytes + PpmBytes
<1>1. /\ K \in Nat /\ S \in Nat /\ F \in Nat /\ P \in Nat /\ ScidBytes \in Nat /\ FeeBytes \in Nat
      /\ PpmBytes \in Nat /\ DeltaBytes \in Nat /\ ByteBits \in Nat
      /\ S = K + ScidBytes /\ F = S + FeeBytes /\ P = F + PpmBytes /\ HopLength = P + DeltaBytes
  BY HopWidths DEF HopLength
<1>2. ASSUME NEW a \in Nat, NEW n \in Nat, a + n <= HopLength
      PROVE  AreBytes(Piece(bytes, a, n), n)
  <2>1. HasLength(bytes, HopLength) /\ \A i \in 1 .. HopLength : bytes[i] \in 0 .. TwoTo[ByteBits] - 1
    BY DEF AreBytes, AreDigits
  <2>2. /\ HasLength(Piece(bytes, a, n), n)
        /\ \A i \in 1 .. n : Piece(bytes, a, n)[i] = bytes[a + i] /\ a + i \in 1 .. HopLength
    BY <1>2, <2>1, PieceFacts
  <2>3. \A i \in 1 .. n : Piece(bytes, a, n)[i] \in 0 .. TwoTo[ByteBits] - 1
    BY <2>1, <2>2
  <2>. QED  BY <2>2, <2>3 DEF AreBytes, AreDigits
<1>. DEFINE scid == Piece(bytes, K, ScidBytes)
            fee == Piece(bytes, S, FeeBytes)
            ppm == Piece(bytes, F, PpmBytes)
            delta == Piece(bytes, P, DeltaBytes)
<1>3. HopOf(bytes) =
         [key   |-> Piece(bytes, 0, K),
          scid  |-> NewShortChannelIDFromUint64(Number(scid, ByteBits)),
          fee   |-> Number(fee, ByteBits), ppm |-> Number(ppm, ByteBits),
          delta |-> Number(delta, ByteBits)]
  BY DEF HopOf, Piece
<1>. HIDE DEF K, S, F, P
<1>4. /\ AreBytes(scid, ScidBytes) /\ AreBytes(fee, FeeBytes) /\ AreBytes(ppm, PpmBytes)
      /\ AreBytes(delta, DeltaBytes)
  <2>1. /\ K + ScidBytes <= HopLength /\ S + FeeBytes <= HopLength /\ F + PpmBytes <= HopLength
        /\ P + DeltaBytes <= HopLength
    BY <1>1
  <2>. QED  BY <1>1, <1>2, <2>1
<1>. HIDE DEF scid, fee, ppm, delta
<1>5. Number(scid, ByteBits) \in Nat
  <2>1. ByteBits * ScidBytes \in 0 .. WordBits /\ 0 \in Nat
    BY HopWidths, WordFacts
  <2>. QED  BY <1>1, <1>4, <2>1, UintBytes
<1>6. /\ Number(fee, ByteBits) \in 0 .. TwoTo[ByteBits * FeeBytes] - 1 /\ Number(fee, ByteBits) \in Nat
      /\ Number(ppm, ByteBits) \in 0 .. TwoTo[ByteBits * PpmBytes] - 1
      /\ Number(delta, ByteBits) \in 0 .. TwoTo[ByteBits * DeltaBytes] - 1
  <2>1. 0 \in Nat
    OBVIOUS
  <2>. QED  BY <1>1, <1>4, <2>1, HopWidths, UintBytes
<1>7. Number(fee, ByteBits) < TwoTo[ByteBits * FeeBytes]
  <2>1. TwoTo[ByteBits * FeeBytes] \in Nat
    BY HopWidths, TwoToFacts
  <2>. QED  BY <1>6, <2>1
<1>8. /\ ScidOK(NewShortChannelIDFromUint64(Number(scid, ByteBits)))
      /\ NewShortChannelIDFromUint64(Number(scid, ByteBits)) \in
           [height : Nat, tx : Nat, out : 0 .. TwoTo[OutBits] - 1]
  BY <1>5, ScidType
<1>9. HopOf(bytes) =
         [key   |-> HopOf(bytes).key, scid  |-> NewShortChannelIDFromUint64(Number(scid, ByteBits)),
          fee   |-> Number(fee, ByteBits), ppm   |-> Number(ppm, ByteBits),
          delta |-> Number(delta, ByteBits)]
  BY <1>3
<1>10. HopOf(bytes) \in HopHint
  BY <1>6, <1>8, <1>9 DEF HopHint
<1>11. HopOK(HopOf(bytes))
  BY <1>7, <1>8, <1>9, ScidWidths DEF HopOK, ScidOK
<1>. QED  BY <1>10, <1>11

-----------------------------------------------------------------------------
(* Routing hints *)

\* How many groups hold c hops
LEMMA HintBytes ==
  ASSUME NEW c \in Nat, NEW hops, HasLength(hops, c), \A i \in 1 .. c : hops[i] \in HopHint
  PROVE  LET parts == [i \in 1 .. Len(hops) |-> HopBytes(hops[i])]
             bytes == Joined(parts, HopLength)
         IN  /\ c * HopLength \in Nat
             /\ HasLength(parts, c) /\ \A i \in 1 .. c : parts[i] = HopBytes(hops[i])
             /\ AreBytes(bytes, c * HopLength) /\ Len(bytes) = c * HopLength
             /\ Cut(bytes, HopLength) = parts
             /\ EncodeHint(hops) = ToGroups(bytes)
<1>. DEFINE parts == [i \in 1 .. Len(hops) |-> HopBytes(hops[i])]
            bytes == Joined(parts, HopLength)
<1>1. HopLength \in Nat \ {0} /\ c * HopLength \in Nat /\ ByteBits \in Nat
  BY HopWidths
<1>2. Len(hops) = c
  BY LengthOf
<1>3. HasLength(parts, c) /\ \A i \in 1 .. c : parts[i] = HopBytes(hops[i])
  <2>1. parts = [i \in 1 .. c |-> HopBytes(hops[i])]
    BY <1>2
  <2>. HIDE DEF parts
  <2>. QED  BY <2>1 DEF HasLength
<1>. HIDE DEF parts
<1>4. \A i \in 1 .. c : AreBytes(parts[i], HopLength)
  BY <1>3, HopBytesFacts
<1>5. HasLength(bytes, c * HopLength)
      /\ \A k \in 1 .. c, j \in 1 .. HopLength : bytes[(k - 1) * HopLength + j] = parts[k][j]
  <2>. DEFINE n == HopLength
  <2>1. n \in Nat \ {0} /\ c \in Nat
    BY <1>1
  <2>2. HasLength(parts, c)
    BY <1>3
  <2>. HIDE DEF n
  <2>3. HasLength(Joined(parts, n), c * n)
    BY <2>1, <2>2, JoinedFacts
  <2>4. ASSUME NEW k \in 1 .. c, NEW j \in 1 .. n PROVE Joined(parts, n)[(k - 1) * n + j] = parts[k][j]
    BY <2>1, <2>2, JoinedFacts
  <2>. QED  BY <2>3, <2>4 DEF n
<1>. HIDE DEF bytes
<1>6. AreBytes(bytes, c * HopLength)
  <2>1. ASSUME NEW i \in 1 .. c * HopLength PROVE bytes[i] \in 0 .. TwoTo[ByteBits] - 1
    <3>. DEFINE k == (i - 1) \div HopLength + 1
                j == ((i - 1) % HopLength) + 1
    <3>1. k \in 1 .. c /\ j \in 1 .. HopLength /\ (k - 1) * HopLength + j = i
      BY <1>1, PlaceInPart
    <3>. HIDE DEF k, j
    <3>2. bytes[(k - 1) * HopLength + j] = parts[k][j]
      BY <1>5, <3>1
    <3>3. bytes[i] = parts[k][j]
      BY <3>1, <3>2
    <3>4. AreBytes(parts[k], HopLength)
      BY <1>4, <3>1
    <3>. QED  BY <3>1, <3>3, <3>4 DEF AreBytes, AreDigits
  <2>. QED  BY <1>5, <2>1 DEF AreBytes, AreDigits
<1>7. Len(bytes) = c * HopLength
  BY <1>5, LengthOf
<1>8. Cut(bytes, HopLength) = parts
  <2>1. \A k \in 1 .. c : HasLength(parts[k], HopLength)
    BY <1>4 DEF AreBytes, AreDigits
  <2>. QED  BY <1>1, <1>3, <2>1, CutOfJoined DEF bytes
<1>9. EncodeHint(hops) = ToGroups(bytes)
  BY DEF EncodeHint, bytes, parts
<1>. QED  BY <1>1, <1>3, <1>6, <1>7, <1>8, <1>9 DEF parts, bytes

\* What DecodeHint makes of bytes
HopsOf(bytes) == [i \in 1 .. Len(bytes) \div HopLength |-> HopOf(Cut(bytes, HopLength)[i])]

\* What DecodeHint gives
LEMMA DecodeHintIs ==
  ASSUME NEW data, NEW hops
  PROVE  hops \in DecodeHint(data) <=>
           \E bytes \in ToBytes(data) :
             /\ Len(bytes) % HopLength = 0 /\ hops = HopsOf(bytes)
             /\ \A i \in DOMAIN hops : hops[i].key \in Points
BY DEF DecodeHint, HopsOf

\* A hint is read, and is what was written if an invoice can say it.
LEMMA HintFacts ==
  ASSUME NEW hops \in Seq(HopHint)
  PROVE  /\ Len(hops) * HopLength \in Nat
         /\ AreGroups(EncodeHint(hops), GroupsFor(Len(hops) * HopLength))
         /\ GroupsFor(Len(hops) * HopLength) \in Nat
         /\ DecodeHint(EncodeHint(hops)) # {}
         /\ (\A i \in DOMAIN hops : HopOK(hops[i])) => DecodeHint(EncodeHint(hops)) = {hops}
<1>. DEFINE c == Len(hops)
            parts == [i \in 1 .. Len(hops) |-> HopBytes(hops[i])]
            bytes == Joined(parts, HopLength)
            read == HopsOf(bytes)
<1>1. c \in Nat /\ HasLength(hops, c) /\ DOMAIN hops = 1 .. c /\ \A i \in 1 .. c : hops[i] \in HopHint
  BY LengthMakes, LenProperties, ElementOfSeq
<1>. HIDE DEF c
<1>2. /\ c * HopLength \in Nat
      /\ HasLength(parts, c) /\ \A i \in 1 .. c : parts[i] = HopBytes(hops[i])
      /\ AreBytes(bytes, c * HopLength) /\ Len(bytes) = c * HopLength
      /\ Cut(bytes, HopLength) = parts
      /\ EncodeHint(hops) = ToGroups(bytes)
  BY <1>1, HintBytes
<1>. HIDE DEF parts, bytes
<1>3. HopLength \in Nat \ {0}
  BY HopWidths
<1>4. AreGroups(EncodeHint(hops), GroupsFor(c * HopLength)) /\ GroupsFor(c * HopLength) \in Nat
  BY <1>2, ToGroupsFacts
<1>5. ToBytes(EncodeHint(hops)) = {bytes}
  BY <1>2, ToBytesOfToGroups
<1>6. Len(bytes) % HopLength = 0 /\ Len(bytes) \div HopLength = c
  <2>. DEFINE w == c * HopLength
  <2>1. w = HopLength * c + 0 /\ 0 \in 0 .. HopLength - 1
    BY <1>1, <1>3
  <2>. HIDE DEF w
  <2>2. w \div HopLength = c /\ w % HopLength = 0
    BY <1>1, <1>3, <2>1, DivModIs
  <2>. QED  BY <1>2, <2>2 DEF w
<1>7. read = [i \in 1 .. c |-> HopOf(HopBytes(hops[i]))]
  BY <1>2, <1>6 DEF HopsOf
<1>. HIDE DEF read
<1>8. DOMAIN read = 1 .. c /\ \A i \in 1 .. c : read[i] = HopOf(HopBytes(hops[i]))
  BY <1>7
<1>9. \A i \in DOMAIN read : read[i].key \in Points
  <2>1. ASSUME NEW i \in 1 .. c PROVE read[i].key \in Points
    <3>1. HopOf(HopBytes(hops[i])).key = hops[i].key /\ hops[i].key \in Points
      BY <1>1, HopBytesFacts DEF HopHint
    <3>. QED  BY <1>8, <3>1
  <2>. QED  BY <1>8, <2>1
<1>10. DecodeHint(EncodeHint(hops)) = {read}
  BY <1>5, <1>6, <1>9, DecodeHintIs DEF read
<1>11. ASSUME \A i \in DOMAIN hops : HopOK(hops[i]) PROVE read = hops
  <2>1. \A i \in 1 .. c : HopOf(HopBytes(hops[i])) = hops[i]
    BY <1>1, <1>11, HopBytesFacts
  <2>2. HasLength(read, c)
    BY <1>1, <1>7, <1>8 DEF HasLength
  <2>. QED  BY <1>1, <1>8, <2>1, <2>2, LengthSame
<1>. QED  BY <1>2, <1>4, <1>10, <1>11 DEF c

\* A hint that was read is one that an invoice can say, in no more groups.
LEMMA DecodedHint ==
  ASSUME NEW g \in Nat, NEW data, AreGroups(data, g), NEW hops \in DecodeHint(data)
  PROVE  /\ hops \in Seq(HopHint) /\ \A i \in DOMAIN hops : HopOK(hops[i])
         /\ GroupsFor(Len(hops) * HopLength) <= g
<1>1. PICK bytes \in ToBytes(data) :
        /\ Len(bytes) % HopLength = 0 /\ hops = HopsOf(bytes)
        /\ \A i \in DOMAIN hops : hops[i].key \in Points
  BY DecodeHintIs
<1>. DEFINE m == (g * GroupBits) \div ByteBits
            c == m \div HopLength
            parts == Cut(bytes, HopLength)
<1>2. AreBytes(bytes, m) /\ m \in Nat
  BY ToBytesFacts
<1>3. m * ByteBits <= g * GroupBits /\ m * ByteBits \in Nat
  <2>1. ByteBits \in Nat \ {0} /\ g * GroupBits \in Nat
    BY WordFacts
  <2>. DEFINE w == g * GroupBits
  <2>. HIDE DEF w
  <2>2. w = ByteBits * (w \div ByteBits) + (w % ByteBits) /\ w % ByteBits \in 0 .. ByteBits - 1
        /\ w \div ByteBits \in Nat
    BY <2>1, DivMod DEF w
  <2>. DEFINE q == w \div ByteBits
  <2>. HIDE DEF q
  <2>3. q * ByteBits <= w /\ q * ByteBits \in Nat
    BY <2>1, <2>2 DEF q
  <2>. QED  BY <2>3 DEF q, w
<1>. HIDE DEF m
<1>4. HopLength \in Nat \ {0} /\ HopLength \in Nat
  BY HopWidths
<1>5. Len(bytes) = m /\ HasLength(bytes, m)
  BY <1>2, LengthOf DEF AreBytes, AreDigits
<1>6. c \in Nat /\ c * HopLength = m
  <2>1. c \in Nat /\ m = HopLength * c + (m % HopLength)
    BY <1>2, <1>4, DivMod
  <2>2. m % HopLength = 0
    BY <1>1, <1>5
  <2>. HIDE DEF c
  <2>. QED  BY <1>4, <2>1, <2>2
<1>7. hops = [i \in 1 .. c |-> HopOf(parts[i])]
  BY <1>1, <1>5 DEF HopsOf
<1>8. /\ HasLength(parts, c)
      /\ \A k \in 1 .. c : /\ HasLength(parts[k], HopLength)
                           /\ \A j \in 1 .. HopLength : /\ parts[k][j] = bytes[(k - 1) * HopLength + j]
                                                        /\ (k - 1) * HopLength + j \in 1 .. m
  BY <1>2, <1>4, <1>5, CutFacts
<1>. HIDE DEF c, parts
<1>9. HasLength(hops, c) /\ DOMAIN hops = 1 .. c /\ \A i \in 1 .. c : hops[i] = HopOf(parts[i])
  BY <1>6, <1>7 DEF HasLength
<1>10. ASSUME NEW i \in 1 .. c PROVE hops[i] \in HopHint /\ HopOK(hops[i])
  <2>1. AreBytes(parts[i], HopLength)
    BY <1>2, <1>8 DEF AreBytes, AreDigits
  <2>2. HopOf(parts[i]).key \in Points
    BY <1>1, <1>9
  <2>. QED  BY <1>9, <2>1, <2>2, HopOfFacts
<1>11. hops \in Seq(HopHint) /\ Len(hops) = c
  BY <1>9, <1>10, LengthOf
<1>12. GroupsFor(m) <= g
  BY <1>3, PadFacts DEF GroupsFor
<1>. QED  BY <1>6, <1>9, <1>10, <1>11, <1>12

-----------------------------------------------------------------------------
(* Fallback addresses *)

\* Bytes are sequences of bytes.
LEMMA BytesAre ==
  ASSUME NEW v
  PROVE  /\ v \in Bytes => AreBytes(v, Len(v)) /\ Len(v) \in Nat
         /\ \A n : AreBytes(v, n) => v \in Bytes /\ Len(v) = n
<1>1. ASSUME v \in Bytes PROVE AreBytes(v, Len(v)) /\ Len(v) \in Nat
  <2>1. v \in Seq(0 .. Byte - 1)
    BY <1>1 DEF Bytes
  <2>2. HasLength(v, Len(v)) /\ Len(v) \in Nat /\ \A i \in 1 .. Len(v) : v[i] \in 0 .. Byte - 1
    BY <2>1, LengthMakes, LenProperties, ElementOfSeq
  <2>. QED  BY <2>2 DEF AreBytes, AreDigits, Byte
<1>2. ASSUME NEW n, AreBytes(v, n) PROVE v \in Bytes /\ Len(v) = n
  BY <1>2, LengthOf DEF AreBytes, AreDigits, Bytes, Byte
<1>. QED  BY <1>1, <1>2

\* Groups are sequences of groups.
LEMMA GroupsAre ==
  ASSUME NEW v
  PROVE  /\ v \in Seq(Groups) => AreGroups(v, Len(v)) /\ Len(v) \in Nat
         /\ \A n : AreGroups(v, n) => v \in Seq(Groups) /\ Len(v) = n /\ n \in Nat
<1>1. ASSUME v \in Seq(Groups) PROVE AreGroups(v, Len(v)) /\ Len(v) \in Nat
  <2>1. HasLength(v, Len(v)) /\ Len(v) \in Nat /\ \A i \in 1 .. Len(v) : v[i] \in Groups
    BY <1>1, LengthMakes, LenProperties, ElementOfSeq
  <2>. QED  BY <2>1 DEF AreGroups, AreDigits, Groups, Group
<1>2. ASSUME NEW n, AreGroups(v, n) PROVE v \in Seq(Groups) /\ Len(v) = n /\ n \in Nat
  BY <1>2, LengthOf DEF AreGroups, AreDigits, Groups, Group
<1>. QED  BY <1>1, <1>2

\* One element before others
LEMMA OneBefore ==
  ASSUME NEW x \in Groups, NEW groups, NEW n, AreGroups(groups, n)
  PROVE  /\ AreGroups(<<x>> \o groups, 1 + n) /\ (<<x>> \o groups)[1] = x
         /\ SubSeq(<<x>> \o groups, 2, Len(<<x>> \o groups)) = groups
<1>. DEFINE s == <<x>>
            u == s \o groups
<1>1. HasLength(s, 1) /\ s[1] = x
  BY DEF HasLength
<1>2. AreGroups(s, 1)
  BY <1>1 DEF AreGroups, AreDigits, Groups, Group
<1>3. Joins(u, s, groups) /\ GroupBits \in Nat
  BY WordFacts DEF Joins
<1>. HIDE DEF s, u
<1>4. AreGroups(u, 1 + n)
  BY <1>2, <1>3, ConcatDigits DEF AreGroups
<1>5. n \in Nat /\ u[1] = s[1] /\ Piece(u, 1, n) = groups
  <2>1. HasLength(groups, n)
    BY DEF AreGroups, AreDigits
  <2>. QED  BY <1>1, <1>3, <2>1, PartOfConcat
<1>6. Len(u) = 1 + n
  BY <1>4, LengthOf DEF AreGroups, AreDigits
<1>7. Piece(u, 1, n) = SubSeq(u, 2, Len(u))
  BY <1>6 DEF Piece
<1>. QED  BY <1>1, <1>4, <1>5, <1>7 DEF s, u

Legacy(v, a) ==
  /\ v.form = "base58" /\ v.hash \in Bytes /\ Len(v.hash) = HashSize
  /\ a = [kind |-> a.kind, network |-> a.network, hash |-> v.hash]
  /\ a.kind \in {"p2pkh", "p2sh"}
  /\ a.network \in DOMAIN VersionByte[a.kind] /\ VersionByte[a.kind][a.network] = v.version

Witness(v, a) ==
  /\ v.form \in {"bech32", "bech32m"} /\ v.program \in Bytes /\ v.version \in 0 .. MaxVersion
  /\ a = [kind |-> "segwit", network |-> a.network, version |-> v.version, program |-> v.program]
  /\ a.network \in DOMAIN SegwitHRP /\ SegwitHRP[a.network] = v.hrp

\* What a text says: a hash for a legacy address, a program, or a public key
LEMMA AddressForms ==
  ASSUME NEW v, Text(v), NEW a \in DecodeAddress(v)
  PROVE  Legacy(v, a) \/ Witness(v, a) \/ (v.form = "hex" /\ a = [kind |-> "p2pk"])
<1>1. CASE v.form = "base58" /\ v.hash \in Bytes
  <2>1. v.form = "base58" /\ v.hash \in Bytes
    BY <1>1
  <2>2. a \in decodeLegacyAddress(v)
    BY <2>1 DEF DecodeAddress
  <2>3. PICK kn \in (DOMAIN VersionByte) \X Networks :
          /\ Len(v.hash) = HashSize /\ kn[2] \in DOMAIN VersionByte[kn[1]]
          /\ VersionByte[kn[1]][kn[2]] = v.version
          /\ a = [kind |-> kn[1], network |-> kn[2], hash |-> v.hash]
    BY <2>2 DEF decodeLegacyAddress
  <2>4. kn[1] \in {"p2pkh", "p2sh"}
    BY DEF VersionByte
  <2>. QED  BY <2>1, <2>3, <2>4 DEF Legacy
<1>2. CASE v.form \in {"bech32", "bech32m"} /\ v.version \in Nat /\ v.program \in Bytes
  <2>1. v.form \in {"bech32", "bech32m"} /\ v.program \in Bytes /\ v.version \in Nat
    BY <1>2
  <2>2. a \in decodeSegwitAddress(v)
    BY <2>1 DEF DecodeAddress
  <2>3. PICK n \in DOMAIN SegwitHRP :
          /\ SegwitHRP[n] = v.hrp /\ v.version <= MaxVersion
          /\ a = [kind |-> "segwit", network |-> n, version |-> v.version, program |-> v.program]
    BY <2>2 DEF decodeSegwitAddress
  <2>4. MaxVersion \in Nat
    BY VersionsAssumption
  <2>. QED  BY <2>1, <2>3, <2>4 DEF Witness
<1>3. CASE v = [form |-> "hex"]
  BY <1>3 DEF DecodeAddress
<1>. QED  BY <1>1, <1>2, <1>3 DEF Text

\* A text is one address.
LEMMA OneAddress ==
  ASSUME NEW v, Text(v), NEW a \in DecodeAddress(v), NEW b \in DecodeAddress(v)
  PROVE  a = b
<1>1. CASE Legacy(v, a)
  <2>1. Legacy(v, b)
    BY <1>1, AddressForms DEF Legacy, Witness
  <2>2. a.kind = b.kind /\ a.network = b.network
    BY <1>1, <2>1 DEF Legacy, VersionByte
  <2>. QED  BY <1>1, <2>1, <2>2 DEF Legacy
<1>2. CASE Witness(v, a)
  <2>1. Witness(v, b)
    BY <1>2, AddressForms DEF Legacy, Witness
  <2>2. a.network = b.network
    BY <1>2, <2>1 DEF Witness, SegwitHRP
  <2>. QED  BY <1>2, <2>1, <2>2 DEF Witness
<1>3. CASE v.form = "hex" /\ a = [kind |-> "p2pk"]
  <2>1. b = [kind |-> "p2pk"]
    BY <1>3, AddressForms DEF Legacy, Witness
  <2>. QED  BY <1>3, <2>1
<1>. QED  BY <1>1, <1>2, <1>3, AddressForms

\* A version fits a group; those of legacy addresses are no witness versions.
LEMMA VersionGroups ==
  /\ P2PKH \in Groups /\ P2SH \in Groups /\ P2PKH # P2SH /\ MaxVersion \in Nat
  /\ 0 \in 0 .. MaxVersion /\ 1 \in 0 .. MaxVersion
  /\ \A v \in 0 .. MaxVersion : v \in Groups /\ v # P2PKH /\ v # P2SH
<1>1. MaxVersion \in Nat /\ P2PKH \in Nat /\ P2SH \in Nat /\ 0 \in 0 .. MaxVersion /\ 1 \in 0 .. MaxVersion
      /\ MaxVersion < P2PKH /\ P2PKH < P2SH /\ P2SH < Group
  BY VersionsAssumption
<1>2. Group \in Nat
  BY WordFacts
<1>. QED  BY <1>1, <1>2 DEF Groups

\* Whether the decoder takes what the encoder wrote
LEMMA AddressFacts ==
  ASSUME NEW v, Text(v), NEW a \in DecodeAddress(v), NEW data \in EncodeAddress(a), NEW network \in Networks
  PROVE  /\ \E n \in Nat : AreGroups(data, n)
         /\ DecodeFallback(network, data) # {} \/ UnknownVersion(data) \/ NoTextFor(network, a)
         /\ Encode(a) = {v} /\ a.network = network =>
              DecodeFallback(network, data) = {v} /\ ~UnknownVersion(data)
<1>1. CASE Legacy(v, a)
  <2>. DEFINE kind == a.kind
              version == IF kind = "p2pkh" THEN P2PKH ELSE P2SH
              groups == ToGroups(v.hash)
              n == GroupsFor(Len(v.hash))
              b == [kind |-> kind, network |-> network, hash |-> v.hash]
  <2>1. /\ AreBytes(v.hash, Len(v.hash)) /\ Len(v.hash) \in Nat /\ Len(v.hash) = HashSize
        /\ a = [kind |-> kind, network |-> a.network, hash |-> v.hash]
        /\ kind \in {"p2pkh", "p2sh"}
    BY <1>1, BytesAre DEF Legacy
  <2>2. data = <<version>> \o groups
    BY <2>1 DEF EncodeAddress
  <2>3. AreGroups(groups, n) /\ n \in Nat /\ ToBytes(groups) = {v.hash}
    BY <2>1, ToGroupsFacts, ToBytesOfToGroups
  <2>4. version \in Groups
    BY VersionGroups
  <2>. HIDE DEF version, groups, n
  <2>5. AreGroups(data, 1 + n) /\ data[1] = version /\ SubSeq(data, 2, Len(data)) = groups
    BY <2>2, <2>3, <2>4, OneBefore
  <2>6. DecodeLegacy(kind, network, data) = EncodeLegacy(b)
    BY <2>1, <2>3, <2>5 DEF DecodeLegacy
  <2>7. DecodeFallback(network, data) = DecodeLegacy(kind, network, data)
    <3>1. CASE kind = "p2pkh"
      <4>1. data[1] = P2PKH
        BY <2>5, <3>1 DEF version
      <4>. QED  BY <3>1, <4>1, VersionGroups DEF DecodeFallback
    <3>2. CASE kind = "p2sh"
      <4>1. data[1] = P2SH
        BY <2>5, <3>2 DEF version
      <4>. QED  BY <3>2, <4>1, VersionGroups DEF DecodeFallback
    <3>. QED  BY <2>1, <3>1, <3>2
  <2>8. ~UnknownVersion(data)
    BY <2>5 DEF UnknownVersion, version
  <2>9. DecodeFallback(network, data) # {} \/ NoTextFor(network, a)
    <3>1. CASE network = "regtest"
      BY <2>1, <3>1 DEF NoTextFor
    <3>2. CASE network # "regtest"
      <4>1. network \in DOMAIN VersionByte[kind]
        BY <2>1, <3>2 DEF VersionByte, Networks
      <4>2. b.network = network /\ b.kind = kind
        OBVIOUS
      <4>3. EncodeLegacy(b) # {}
        BY <4>1, <4>2 DEF EncodeLegacy
      <4>. QED  BY <2>6, <2>7, <4>3
    <3>. QED  BY <3>1, <3>2
  <2>10. ASSUME Encode(a) = {v}, a.network = network PROVE DecodeFallback(network, data) = {v}
    <3>1. b = a
      BY <2>1, <2>10
    <3>2. Encode(a) = EncodeLegacy(a)
      BY <2>1 DEF Encode
    <3>. QED  BY <2>6, <2>7, <2>10, <3>1, <3>2
  <2>11. \E m \in Nat : AreGroups(data, m)
    BY <2>3, <2>5
  <2>. QED  BY <2>8, <2>9, <2>10, <2>11
<1>2. CASE Witness(v, a)
  <2>. DEFINE version == v.version
              groups == ToGroups(v.program)
              n == GroupsFor(Len(v.program))
              b == [network |-> network, version |-> version, program |-> v.program]
  <2>1. /\ AreBytes(v.program, Len(v.program)) /\ Len(v.program) \in Nat
        /\ a = [kind |-> "segwit", network |-> a.network, version |-> version, program |-> v.program]
        /\ a.kind = "segwit" /\ a.version = version /\ a.program = v.program
        /\ version \in 0 .. MaxVersion
    BY <1>2, BytesAre DEF Witness
  <2>2. data = <<version>> \o groups
    BY <2>1 DEF EncodeAddress
  <2>3. AreGroups(groups, n) /\ n \in Nat /\ ToBytes(groups) = {v.program}
    BY <2>1, ToGroupsFacts, ToBytesOfToGroups
  <2>4. version \in Groups /\ version # P2PKH /\ version # P2SH
    BY <2>1, VersionGroups
  <2>. HIDE DEF version, groups, n
  <2>5. AreGroups(data, 1 + n) /\ data[1] = version /\ SubSeq(data, 2, Len(data)) = groups
    BY <2>2, <2>3, <2>4, OneBefore
  <2>6. DecodeSegwit(network, data) = EncodeSegwit(b)
    BY <2>3, <2>5 DEF DecodeSegwit
  <2>7. DecodeFallback(network, data) = DecodeSegwit(network, data)
    BY <2>4, <2>5 DEF DecodeFallback
  <2>8. UnknownVersion(data) <=> version \notin {0, 1}
    BY <2>4, <2>5 DEF UnknownVersion
  <2>9. DecodeFallback(network, data) # {} \/ UnknownVersion(data) \/ NoTextFor(network, a)
    <3>1. CASE network = "signet"
      BY <2>1, <3>1 DEF NoTextFor
    <3>2. CASE network # "signet" /\ version \in {0, 1}
      <4>1. network \in DOMAIN SegwitHRP
        BY <3>2 DEF SegwitHRP, Networks
      <4>2. b.network = network /\ b.version = version
        OBVIOUS
      <4>3. EncodeSegwit(b) # {}
        BY <3>2, <4>1, <4>2 DEF EncodeSegwit
      <4>. QED  BY <2>6, <2>7, <4>3
    <3>. QED  BY <2>8, <3>1, <3>2
  <2>10. ASSUME Encode(a) = {v}, a.network = network
         PROVE  DecodeFallback(network, data) = {v} /\ ~UnknownVersion(data)
    <3>1. Encode(a) = EncodeSegwit(a)
      BY <2>1 DEF Encode
    <3>2. EncodeSegwit(a) = EncodeSegwit(b)
      BY <2>1, <2>10 DEF EncodeSegwit
    <3>3. version \in {0, 1}
      BY <2>1, <2>10, <3>1 DEF EncodeSegwit
    <3>. QED  BY <2>6, <2>7, <2>8, <2>10, <3>1, <3>2, <3>3
  <2>11. \E m \in Nat : AreGroups(data, m)
    BY <2>3, <2>5
  <2>. QED  BY <2>9, <2>10, <2>11
<1>3. CASE a = [kind |-> "p2pk"]
  BY <1>3 DEF EncodeAddress
<1>. QED  BY <1>1, <1>2, <1>3, AddressForms

\* Bytes that were read are written in no more groups.
LEMMA BytesRewritten ==
  ASSUME NEW g \in Nat, NEW groups, AreGroups(groups, g), NEW b \in ToBytes(groups)
  PROVE  /\ b \in Bytes /\ AreBytes(b, Len(b)) /\ Len(b) \in Nat
         /\ AreGroups(ToGroups(b), GroupsFor(Len(b))) /\ GroupsFor(Len(b)) \in Nat
         /\ GroupsFor(Len(b)) <= g
<1>. DEFINE w == g * GroupBits
            m == w \div ByteBits
<1>1. AreBytes(b, m) /\ m \in Nat
  BY ToBytesFacts
<1>2. ByteBits \in Nat \ {0} /\ w \in Nat
  BY WordFacts
<1>. HIDE DEF w
<1>3. w = ByteBits * m + (w % ByteBits) /\ w % ByteBits \in 0 .. ByteBits - 1
  BY <1>2, DivMod
<1>. HIDE DEF m
<1>4. m * ByteBits <= w /\ m * ByteBits \in Nat
  BY <1>1, <1>2, <1>3
<1>5. GroupsFor(m) <= g
  BY <1>4, PadFacts DEF GroupsFor, w
<1>6. AreGroups(ToGroups(b), GroupsFor(m)) /\ GroupsFor(m) \in Nat
  BY <1>1, ToGroupsFacts
<1>. QED  BY <1>1, <1>5, <1>6, BytesAre

\* What comes after the first group
LEMMA AfterFirst ==
  ASSUME NEW g \in Nat, NEW data, AreGroups(data, g)
  PROVE  \E n \in Nat : /\ AreGroups(SubSeq(data, 2, Len(data)), n)
                        /\ 1 + n <= g \/ (g = 0 /\ n = 0)
<1>1. Len(data) = g /\ HasLength(data, g) /\ \A i \in 1 .. g : data[i] \in 0 .. TwoTo[GroupBits] - 1
  BY LengthOf DEF AreGroups, AreDigits
<1>2. CASE g = 0
  <2>1. SubSeq(data, 2, 0) = [i \in 1 .. -1 |-> data[2 + i - 1]]
    OBVIOUS
  <2>2. HasLength(SubSeq(data, 2, 0), 0)
    BY <2>1 DEF HasLength
  <2>3. AreGroups(SubSeq(data, 2, 0), 0)
    BY <2>2 DEF AreGroups, AreDigits
  <2>. QED  BY <1>1, <1>2, <2>3
<1>3. CASE g # 0
  <2>1. g - 1 \in Nat /\ 1 + (g - 1) <= g /\ 1 \in Nat /\ 1 + (g - 1) = g
    BY <1>3
  <2>2. HasLength(Piece(data, 1, g - 1), g - 1)
        /\ \A i \in 1 .. g - 1 : Piece(data, 1, g - 1)[i] = data[1 + i] /\ 1 + i \in 1 .. g
    BY <1>1, <2>1, PieceFacts
  <2>3. AreGroups(Piece(data, 1, g - 1), g - 1)
    BY <1>1, <2>2 DEF AreGroups, AreDigits
  <2>4. Piece(data, 1, g - 1) = SubSeq(data, 2, Len(data))
    BY <1>1, <2>1 DEF Piece
  <2>. QED  BY <2>1, <2>3, <2>4
<1>. QED  BY <1>2, <1>3

\* An address that was read is one of the network and can be written, in no
\* more groups; but a program may have a length that no address has.
LEMMA DecodedAddress ==
  ASSUME NEW g \in Nat, NEW data, AreGroups(data, g), NEW network,
         NEW v \in DecodeFallback(network, data)
  PROVE  /\ Text(v)
         /\ \/ OddProgram(v)
            \/ \E a \in DecodeAddress(v) :
                 /\ Encode(a) = {v} /\ a.network = network
                 /\ \E d \in EncodeAddress(a), n \in Nat : AreGroups(d, n) /\ (n <= g \/ n <= 1)
<1>. DEFINE payload == SubSeq(data, 2, Len(data))
<1>1. PICK n \in Nat : AreGroups(payload, n) /\ (1 + n <= g \/ (g = 0 /\ n = 0))
  BY AfterFirst
<1>. HIDE DEF payload
<1>2. \A b \in ToBytes(payload) :
        /\ b \in Bytes /\ AreGroups(ToGroups(b), GroupsFor(Len(b))) /\ GroupsFor(Len(b)) \in Nat
        /\ GroupsFor(Len(b)) <= n
  BY <1>1, BytesRewritten
<1>3. ASSUME NEW kind \in {"p2pkh", "p2sh"}, v \in DecodeLegacy(kind, network, data)
      PROVE  /\ Text(v)
             /\ \E a \in DecodeAddress(v) :
                  /\ Encode(a) = {v} /\ a.network = network
                  /\ \E d \in EncodeAddress(a), m \in Nat : AreGroups(d, m) /\ (m <= g \/ m <= 1)
  <2>1. PICK h \in ToBytes(payload) :
          Len(h) = HashSize /\ v \in EncodeLegacy([kind |-> kind, network |-> network, hash |-> h])
    BY <1>3 DEF DecodeLegacy, payload
  <2>. DEFINE a == [kind |-> kind, network |-> network, hash |-> h]
              version == IF kind = "p2pkh" THEN P2PKH ELSE P2SH
              d == <<version>> \o ToGroups(h)
  <2>2. /\ network \in DOMAIN VersionByte[kind]
        /\ v = [form |-> "base58", version |-> VersionByte[kind][network], hash |-> h, checksum |-> TRUE]
        /\ EncodeLegacy(a) = {v}
    BY <2>1 DEF EncodeLegacy
  <2>3. kind \in DOMAIN VersionByte /\ network \in Networks
    BY <2>2 DEF VersionByte, Networks
  <2>4. /\ v.form = "base58" /\ v.hash \in Bytes
        /\ v = [form |-> v.form, version |-> v.version, hash |-> v.hash, checksum |-> v.checksum]
    BY <1>2, <2>1, <2>2
  <2>5. Text(v)
    BY <2>4 DEF Text
  <2>6. a \in decodeLegacyAddress(v)
    <3>. DEFINE kn == <<kind, network>>
    <3>1. kn \in (DOMAIN VersionByte) \X Networks /\ kn[1] = kind /\ kn[2] = network
      BY <2>3
    <3>2. v.hash = h /\ v.version = VersionByte[kind][network]
      BY <2>2
    <3>. HIDE DEF kn
    <3>. QED  BY <2>1, <2>2, <3>1, <3>2 DEF decodeLegacyAddress
  <2>7. a \in DecodeAddress(v)
    BY <2>2, <2>6 DEF DecodeAddress
  <2>8. Encode(a) = {v} /\ a.network = network
    BY <2>2 DEF Encode
  <2>9. d \in EncodeAddress(a)
    BY DEF EncodeAddress
  <2>10. version \in Groups
    BY VersionGroups
  <2>11. AreGroups(d, 1 + GroupsFor(Len(h)))
    <3>. HIDE DEF version
    <3>. QED  BY <1>2, <2>1, <2>10, OneBefore
  <2>12. 1 + GroupsFor(Len(h)) \in Nat /\ (1 + GroupsFor(Len(h)) <= g \/ 1 + GroupsFor(Len(h)) <= 1)
    BY <1>1, <1>2, <2>1
  <2>. HIDE DEF a, d
  <2>. QED  BY <2>5, <2>7, <2>8, <2>9, <2>11, <2>12
<1>4. ASSUME v \in DecodeSegwit(network, data)
      PROVE  /\ Text(v)
             /\ \/ OddProgram(v)
                \/ \E a \in DecodeAddress(v) :
                     /\ Encode(a) = {v} /\ a.network = network
                     /\ \E d \in EncodeAddress(a), m \in Nat : AreGroups(d, m) /\ (m <= g \/ m <= 1)
  <2>1. PICK p \in ToBytes(payload) :
          v \in EncodeSegwit([network |-> network, version |-> data[1], program |-> p])
    BY <1>4 DEF DecodeSegwit, payload
  <2>. DEFINE version == data[1]
              form == IF version = 0 THEN "bech32" ELSE "bech32m"
              a == [kind |-> "segwit", network |-> network, version |-> version, program |-> p]
              d == <<version>> \o ToGroups(p)
  <2>2. /\ network \in DOMAIN SegwitHRP /\ version \in {0, 1}
        /\ v = [form |-> form, hrp |-> SegwitHRP[network], version |-> version, program |-> p]
    BY <2>1 DEF EncodeSegwit
  <2>. HIDE DEF version
  <2>3. /\ v.form = form /\ v.hrp = SegwitHRP[network] /\ v.version = version /\ v.program = p
        /\ form \in {"bech32", "bech32m"}
    BY <2>2
  <2>4. /\ v.form \in {"bech32", "bech32m"} /\ v.version \in Nat /\ v.program \in Bytes
        /\ v = [form |-> v.form, hrp |-> v.hrp, version |-> v.version, program |-> v.program]
    BY <1>2, <2>1, <2>2, <2>3
  <2>5. Text(v)
    BY <2>4 DEF Text
  <2>6. ASSUME ~OddProgram(v)
        PROVE  \E b \in DecodeAddress(v) :
                 /\ Encode(b) = {v} /\ b.network = network
                 /\ \E e \in EncodeAddress(b), m \in Nat : AreGroups(e, m) /\ (m <= g \/ m <= 1)
    <3>1. Len(p) \in (IF version = 0 THEN V0Sizes ELSE ProgramSizes)
      BY <2>3, <2>6 DEF OddProgram
    <3>2. Len(p) \in ProgramSizes /\ (version = 0 => Len(p) \in V0Sizes)
      BY <3>1, VersionsAssumption
    <3>3. version \in 0 .. MaxVersion /\ version <= MaxVersion /\ version \in Groups
      BY <2>2, VersionGroups
    <3>4. a \in decodeSegwitAddress(v)
      BY <2>2, <2>3, <3>2, <3>3 DEF decodeSegwitAddress
    <3>5. a \in DecodeAddress(v)
      BY <2>3, <3>4 DEF DecodeAddress
    <3>6. Encode(a) = {v} /\ a.network = network
      BY <2>2 DEF Encode, EncodeSegwit
    <3>7. d \in EncodeAddress(a)
      BY DEF EncodeAddress
    <3>8. AreGroups(d, 1 + GroupsFor(Len(p)))
      BY <1>2, <2>1, <3>3, OneBefore
    <3>9. 1 + GroupsFor(Len(p)) \in Nat /\ (1 + GroupsFor(Len(p)) <= g \/ 1 + GroupsFor(Len(p)) <= 1)
      BY <1>1, <1>2, <2>1
    <3>. HIDE DEF a, d
    <3>. QED  BY <3>5, <3>6, <3>7, <3>8, <3>9
  <2>. QED  BY <2>5, <2>6
<1>. QED  BY <1>3, <1>4 DEF DecodeFallback

-----------------------------------------------------------------------------
(* Numbers, durations and hashes *)

\* The widths of numbers and of hashes
LEMMA NumberWidths ==
  /\ Second \in Nat \ {0} /\ CltvBits \in Nat /\ TwoTo[CltvBits] \in Nat \ {0}
  /\ TwoTo[CltvBits] <= Word /\ Word \in Nat \ {0} /\ HashBytes \in Nat \ {0}
  /\ (Word \div 2) \in Nat /\ 2 * (Word \div 2) = Word
<1>1. Second \in Nat \ {0} /\ CltvBits \in Nat /\ CltvBits <= WordBits /\ WordBits \in Nat \ {0}
      /\ HashBytes \in Nat \ {0} /\ Word \in Nat \ {0}
  BY WidthsAssumption, SizesAssumption, WordFacts
<1>2. TwoTo[CltvBits] \in Nat \ {0} /\ TwoTo[CltvBits] <= Word
  BY <1>1, TwoToFacts, TwoToGrows DEF Word
<1>3. WordBits - 1 \in Nat /\ (WordBits - 1) + 1 = WordBits
  BY <1>1
<1>4. TwoTo[(WordBits - 1) + 1] = 2 * TwoTo[WordBits - 1] /\ TwoTo[WordBits - 1] \in Nat
  BY <1>3, TwoToFacts
<1>5. Word = 2 * TwoTo[WordBits - 1]
  BY <1>3, <1>4 DEF Word
<1>. QED  BY <1>1, <1>2, <1>4, <1>5

\* A number that is written is read; a hash copied over the zero hash is itself.
LEMMA CopyFacts ==
  ASSUME NEW v
  PROVE  /\ v \in [1 .. HashBytes -> 0 .. Byte - 1] => AreBytes(v, HashBytes) /\ Copy(ZeroHash, v) = v
         /\ \A old \in [1 .. HashBytes -> 0 .. Byte - 1], n \in Nat :
              AreBytes(v, n) => Copy(old, v) \in [1 .. HashBytes -> 0 .. Byte - 1]
         /\ ZeroHash \in [1 .. HashBytes -> 0 .. Byte - 1]
<1>1. HashBytes \in Nat /\ Byte \in Nat \ {0}
  BY NumberWidths, WordFacts
<1>2. ASSUME v \in [1 .. HashBytes -> 0 .. Byte - 1]
      PROVE  AreBytes(v, HashBytes) /\ Copy(ZeroHash, v) = v
  <2>1. HasLength(v, HashBytes) /\ \A i \in 1 .. HashBytes : v[i] \in 0 .. Byte - 1
    BY <1>1, <1>2 DEF HasLength
  <2>2. Len(v) = HashBytes
    BY <2>1, LengthOf
  <2>3. Copy(ZeroHash, v) = [i \in 1 .. HashBytes |-> v[i]]
    BY <1>1, <2>2 DEF Copy
  <2>. QED  BY <2>1, <2>3 DEF AreBytes, AreDigits, HasLength, Byte
<1>3. ASSUME NEW old \in [1 .. HashBytes -> 0 .. Byte - 1], NEW n \in Nat, AreBytes(v, n)
      PROVE  Copy(old, v) \in [1 .. HashBytes -> 0 .. Byte - 1]
  <2>1. Len(v) = n /\ \A i \in 1 .. n : v[i] \in 0 .. Byte - 1
    BY <1>3, LengthOf DEF AreBytes, AreDigits, Byte
  <2>2. \A i \in 1 .. HashBytes : (IF i <= Len(v) THEN v[i] ELSE old[i]) \in 0 .. Byte - 1
    BY <1>1, <2>1
  <2>. QED  BY <2>2 DEF Copy
<1>4. ZeroHash \in [1 .. HashBytes -> 0 .. Byte - 1]
  BY <1>1 DEF ZeroHash
<1>. QED  BY <1>2, <1>3, <1>4

\* An expiry in whole seconds is what its seconds say.
LEMMA SecondsFacts ==
  ASSUME NEW v \in -(Word \div 2) .. Word \div 2 - 1, NEW s \in Seconds(v)
  PROVE  /\ s \in 0 .. Word - 1
         /\ v >= 0 /\ v % Second = 0 => s * Second = v
<1>1. Second \in Nat \ {0} /\ Word \in Nat \ {0} /\ Word \div 2 \in Nat /\ 2 * (Word \div 2) = Word
  BY NumberWidths
<1>2. CASE v >= 0
  <2>. DEFINE q == v \div Second
  <2>1. v \in Nat /\ v < Word
    BY <1>1, <1>2
  <2>2. s = q /\ q \in Nat /\ v = Second * q + (v % Second) /\ q <= v
    BY <1>1, <1>2, <2>1, DivMod DEF Seconds
  <2>. HIDE DEF q
  <2>3. s \in 0 .. Word - 1
    BY <1>1, <2>1, <2>2
  <2>4. v % Second = 0 => s * Second = v
    BY <1>1, <2>1, <2>2
  <2>. QED  BY <2>3, <2>4
<1>3. CASE v < 0
  <2>. DEFINE q == (-v) \div Second
  <2>1. -v \in Nat /\ -v <= Word
    BY <1>1, <1>3
  <2>2. q \in Nat /\ q <= -v
    BY <1>1, <2>1, DivMod
  <2>3. s \in {0, (Word - q) % Word}
    BY <1>3 DEF Seconds
  <2>. HIDE DEF q
  <2>4. Word - q \in Nat
    BY <1>1, <2>1, <2>2
  <2>5. (Word - q) % Word \in 0 .. Word - 1
    BY <1>1, <2>4, DivMod
  <2>. QED  BY <1>1, <1>3, <2>3, <2>5
<1>. QED  BY <1>1, <1>2, <1>3

\* What was read as a duration fits its word, and is what was read if that does.
LEMMA DurationFacts ==
  ASSUME NEW num \in Nat
  PROVE  /\ Signed((num * Second) % Word) \in -(Word \div 2) .. Word \div 2 - 1
         /\ num * Second \in Nat
         /\ num * Second < Word \div 2 =>
              /\ Signed((num * Second) % Word) = num * Second
              /\ num * Second >= 0 /\ (num * Second) % Second = 0
<1>1. Second \in Nat \ {0} /\ Word \in Nat \ {0} /\ Word \div 2 \in Nat /\ 2 * (Word \div 2) = Word
  BY NumberWidths
<1>. DEFINE n == num * Second
<1>2. n \in Nat /\ n = Second * num + 0 /\ 0 \in 0 .. Second - 1
  BY <1>1
<1>. HIDE DEF n
<1>3. n % Word \in 0 .. Word - 1
  BY <1>1, <1>2, DivMod
<1>4. Signed(n % Word) \in -(Word \div 2) .. Word \div 2 - 1
  BY <1>1, <1>3 DEF Signed
<1>5. ASSUME n < Word \div 2 PROVE Signed(n % Word) = n /\ n >= 0 /\ n % Second = 0
  <2>1. n < Word
    BY <1>1, <1>2, <1>5
  <2>2. n % Word = n
    BY <1>1, <1>2, <2>1, ModSmall
  <2>3. n % Second = 0
    BY <1>1, <1>2, DivModIs
  <2>. QED  BY <1>2, <1>5, <2>2, <2>3 DEF Signed
<1>. QED  BY <1>2, <1>4, <1>5 DEF n

-----------------------------------------------------------------------------
(* Every kind of field *)

\* How many groups a frame can say that its data has
MaxGroups == TwoTo[LengthGroups * GroupBits] - 1

\* The widths of lengths and of the timestamp, and the lengths that fit
LEMMA LengthWidths ==
  /\ LengthGroups \in Nat \ {0} /\ TimestampGroups \in Nat \ {0} /\ SignatureGroups \in Nat \ {0}
  /\ LengthGroups * GroupBits \in Nat /\ LengthGroups * GroupBits < WordBits
  /\ TimestampGroups * GroupBits \in Nat /\ TimestampGroups * GroupBits < WordBits
  /\ MaxGroups \in Nat \ {0} /\ HashGroups \in Nat /\ HashGroups <= MaxGroups
  /\ (WordBits + GroupBits - 1) \div GroupBits <= MaxGroups
  /\ HashGroups = GroupsFor(HashBytes)
<1>1. /\ LengthGroups \in Nat \ {0} /\ TimestampGroups \in Nat \ {0} /\ SignatureGroups \in Nat \ {0}
      /\ LengthGroups * GroupBits < WordBits /\ TimestampGroups * GroupBits < WordBits
  BY GroupsAssumption
<1>2. HashGroups \in 0 .. MaxGroups /\ (WordBits + GroupBits - 1) \div GroupBits \in 0 .. MaxGroups
  BY GroupsAssumption DEF MaxGroups
<1>3. GroupBits \in Nat \ {0}
  BY WordFacts
<1>. DEFINE w == LengthGroups * GroupBits
<1>4. w \in Nat /\ w # 0 /\ TimestampGroups * GroupBits \in Nat
  BY <1>1, <1>3
<1>. HIDE DEF w
<1>5. w - 1 \in Nat /\ (w - 1) + 1 = w
  BY <1>4
<1>6. TwoTo[(w - 1) + 1] = 2 * TwoTo[w - 1] /\ TwoTo[w - 1] \in Nat \ {0}
  BY <1>5, TwoToFacts
<1>7. MaxGroups \in Nat \ {0}
  BY <1>5, <1>6 DEF MaxGroups, w
<1>8. HashGroups = GroupsFor(HashBytes)
  BY DEF HashGroups, GroupsFor
<1>. QED  BY <1>1, <1>2, <1>4, <1>7, <1>8 DEF w

\* A value that was written
LEMMA WrittenValue ==
  ASSUME NEW k \in Kinds, NEW v, v # Absent, FieldTypeOK(k, v), NEW data \in EncodeBolt11(k, v),
         NEW network \in Networks
  PROVE  /\ \E n \in Nat : AreGroups(data, n)
         /\ \/ DecodeBolt11(k, network, Absent, data) # {}
            \/ k = "f" /\ UnknownVersion(data)
            \/ k = "f" /\ \E a \in DecodeAddress(v) : NoTextFor(network, a)
         /\ Representable(network, k, v) =>
              /\ DecodeBolt11(k, network, Absent, data) = {v}
              /\ ~(k = "f" /\ UnknownVersion(data))
<1>1. CASE k = "h"
  <2>1. v \in [1 .. HashBytes -> 0 .. Byte - 1] /\ data = ToGroups(v)
    BY <1>1 DEF FieldTypeOK, EncodeBolt11
  <2>2. AreBytes(v, HashBytes) /\ Copy(ZeroHash, v) = v /\ HashBytes \in Nat
    BY <2>1, CopyFacts, NumberWidths
  <2>3. \E n \in Nat : AreGroups(data, n)
    BY <2>1, <2>2, ToGroupsFacts
  <2>4. ToBytes(data) = {v}
    BY <2>1, <2>2, ToBytesOfToGroups
  <2>5. DecodeBolt11(k, network, Absent, data) = {v}
    BY <1>1, <2>2, <2>4 DEF DecodeBolt11
  <2>. QED  BY <1>1, <2>3, <2>5
<1>2. CASE k = "m"
  <2>1. v \in Bytes /\ data = ToGroups(v)
    BY <1>2 DEF FieldTypeOK, EncodeBolt11
  <2>2. AreBytes(v, Len(v)) /\ Len(v) \in Nat
    BY <2>1, BytesAre
  <2>3. \E n \in Nat : AreGroups(data, n)
    BY <2>1, <2>2, ToGroupsFacts
  <2>4. ToBytes(data) = {v}
    BY <2>1, <2>2, ToBytesOfToGroups
  <2>5. DecodeBolt11(k, network, Absent, data) = {v}
    BY <1>2, <2>4 DEF DecodeBolt11
  <2>. QED  BY <1>2, <2>3, <2>5
<1>3. CASE k = "x"
  <2>1. v \in -(Word \div 2) .. Word \div 2 - 1
    BY <1>3 DEF FieldTypeOK
  <2>2. PICK s \in Seconds(v) : data = EncodeVarUint(s)
    BY <1>3 DEF EncodeBolt11
  <2>3. s \in 0 .. Word - 1
    BY <2>1, SecondsFacts
  <2>4. PICK n \in Nat : AreGroups(data, n) /\ DecodeUint(data) = s
    BY <2>2, <2>3, EncodeVarUintFacts
  <2>5. DecodeBolt11(k, network, Absent, data) = {Signed((s * Second) % Word)}
    BY <1>3, <2>4 DEF DecodeBolt11, DecodeDuration
  <2>6. ASSUME Representable(network, k, v) PROVE Signed((s * Second) % Word) = v
    <3>1. v >= 0 /\ v % Second = 0
      BY <1>3, <2>6 DEF Representable
    <3>2. s * Second = v
      BY <2>1, <3>1, SecondsFacts
    <3>3. s \in Nat /\ s * Second < Word \div 2
      BY <2>1, <2>3, <3>2, NumberWidths
    <3>4. Signed((s * Second) % Word) = s * Second
      BY <3>3, DurationFacts
    <3>. QED  BY <3>2, <3>4
  <2>. QED  BY <1>3, <2>4, <2>5, <2>6
<1>4. CASE k = "c"
  <2>1. v \in 1 .. TwoTo[CltvBits] - 1 /\ data = EncodeVarUint(v)
    BY <1>4 DEF FieldTypeOK, EncodeBolt11
  <2>2. v \in 0 .. Word - 1 /\ v \in Nat /\ v < TwoTo[CltvBits] /\ TwoTo[CltvBits] \in Nat \ {0}
    BY <2>1, NumberWidths
  <2>3. PICK n \in Nat : AreGroups(data, n) /\ DecodeUint(data) = v
    BY <2>1, <2>2, EncodeVarUintFacts
  <2>4. v % TwoTo[CltvBits] = v
    BY <2>2, ModSmall
  <2>5. DecodeBolt11(k, network, Absent, data) = {v}
    BY <1>4, <2>3, <2>4 DEF DecodeBolt11
  <2>. QED  BY <1>4, <2>3, <2>5
<1>5. CASE k = "9"
  <2>1. FeatureVector(v) /\ data \in EncodeFeatures(v)
    BY <1>5 DEF FieldTypeOK, EncodeBolt11
  <2>2. (\E n \in Nat : AreGroups(data, n)) /\ DecodeFeatures(data) = {v}
    BY <2>1, FeaturesFacts
  <2>3. DecodeBolt11(k, network, Absent, data) = {v}
    BY <1>5, <2>2 DEF DecodeBolt11
  <2>. QED  BY <1>5, <2>2, <2>3
<1>6. CASE k = "r"
  <2>1. v \in Seq(HopHint) /\ data = EncodeHint(v)
    BY <1>6 DEF FieldTypeOK, EncodeBolt11
  <2>2. (\E n \in Nat : AreGroups(data, n)) /\ DecodeHint(data) # {}
        /\ ((\A i \in DOMAIN v : HopOK(v[i])) => DecodeHint(data) = {v})
    BY <2>1, HintFacts
  <2>3. DecodeBolt11(k, network, Absent, data) = DecodeHint(data)
    BY <1>6 DEF DecodeBolt11
  <2>4. Representable(network, k, v) => \A i \in DOMAIN v : HopOK(v[i])
    BY <1>6 DEF Representable, HopOK
  <2>. QED  BY <1>6, <2>2, <2>3, <2>4
<1>7. CASE k = "f"
  <2>1. Text(v)
    BY <1>7 DEF FieldTypeOK
  <2>2. PICK a \in DecodeAddress(v) : data \in EncodeAddress(a)
    BY <1>7 DEF EncodeBolt11
  <2>3. /\ \E n \in Nat : AreGroups(data, n)
        /\ DecodeFallback(network, data) # {} \/ UnknownVersion(data) \/ NoTextFor(network, a)
        /\ Encode(a) = {v} /\ a.network = network =>
              DecodeFallback(network, data) = {v} /\ ~UnknownVersion(data)
    BY <2>1, <2>2, AddressFacts
  <2>4. DecodeBolt11(k, network, Absent, data) = DecodeFallback(network, data)
    BY <1>7 DEF DecodeBolt11
  <2>5. ASSUME Representable(network, k, v) PROVE Encode(a) = {v} /\ a.network = network
    <3>1. PICK b \in DecodeAddress(v) : Encode(b) = {v} /\ b.network = network
      BY <1>7, <2>5 DEF Representable
    <3>2. a = b
      BY <2>1, <2>2, <3>1, OneAddress
    <3>. QED  BY <3>1, <3>2
  <2>. QED  BY <1>7, <2>3, <2>4, <2>5
<1>. QED  BY <1>1, <1>2, <1>3, <1>4, <1>5, <1>6, <1>7 DEF Kinds

\* A value that can be written in a frame
Writable(k, v) ==
  \E data \in EncodeBolt11(k, v) :
    \E n \in 0 .. MaxGroups : AreGroups(data, n) /\ (k = "h" => n = HashGroups)

\* A field's type, where nothing was read before
LEMMA StoredType ==
  ASSUME NEW k \in Kinds, NEW v, Stored(k, v) # Absent
  PROVE  Stored(k, v) = v
BY DEF Stored

\* A value is stored once.
LEMMA StoredTwice ==
  ASSUME NEW k, NEW v
  PROVE  Stored(k, Stored(k, v)) = Stored(k, v)
BY DEF Stored

\* A value that was read has its type, is one that an invoice can say and can be
\* written again, but for an expiry that overflows and an odd program.
LEMMA ReadValue ==
  ASSUME NEW k \in Kinds, NEW old, FieldTypeOK(k, old), NEW network,
         NEW g \in 0 .. MaxGroups, NEW data, AreGroups(data, g),
         NEW w \in DecodeBolt11(k, network, old, data)
  PROVE  LET v == Stored(k, w)
         IN  /\ FieldTypeOK(k, v)
             /\ v = Absent \/ Writable(k, v) \/ (k = "f" /\ OddProgram(v))
             /\ \/ Representable(network, k, v)
                \/ k = "x" /\ DecodeUint(data) * Second >= Word \div 2
                \/ k = "f" /\ OddProgram(v)
<1>. DEFINE v == Stored(k, w)
<1>1. g \in Nat /\ MaxGroups \in Nat \ {0} /\ g <= MaxGroups
  BY LengthWidths
<1>2. CASE v = Absent
  BY <1>2 DEF FieldTypeOK, Representable
<1>3. ASSUME v # Absent
      PROVE  /\ FieldTypeOK(k, w)
             /\ Writable(k, w) \/ (k = "f" /\ OddProgram(w))
             /\ \/ Representable(network, k, w)
                \/ k = "x" /\ DecodeUint(data) * Second >= Word \div 2
                \/ k = "f" /\ OddProgram(w)
  <2>1. v = w
    BY <1>3, StoredType
  <2>2. CASE k = "h"
    <3>1. PICK b \in ToBytes(data) : w = Copy(IF old = Absent THEN ZeroHash ELSE old, b)
      BY <2>2 DEF DecodeBolt11
    <3>2. (IF old = Absent THEN ZeroHash ELSE old) \in [1 .. HashBytes -> 0 .. Byte - 1]
      <4>1. ZeroHash \in [1 .. HashBytes -> 0 .. Byte - 1]
        BY CopyFacts
      <4>2. old = Absent \/ old \in [1 .. HashBytes -> 0 .. Byte - 1]
        BY <2>2 DEF FieldTypeOK
      <4>. QED  BY <4>1, <4>2
    <3>3. AreBytes(b, Len(b)) /\ Len(b) \in Nat
      BY <1>1, <3>1, BytesRewritten
    <3>4. w \in [1 .. HashBytes -> 0 .. Byte - 1]
      BY <3>1, <3>2, <3>3, CopyFacts
    <3>5. AreBytes(w, HashBytes) /\ HashBytes \in Nat
      BY <3>4, CopyFacts, NumberWidths
    <3>6. AreGroups(ToGroups(w), HashGroups)
      BY <3>5, ToGroupsFacts, LengthWidths
    <3>7. HashGroups \in 0 .. MaxGroups
      BY LengthWidths
    <3>8. ToGroups(w) \in EncodeBolt11(k, w)
      BY <2>2 DEF EncodeBolt11
    <3>9. Writable(k, w)
      BY <3>6, <3>7, <3>8 DEF Writable
    <3>. QED  BY <1>3, <2>1, <2>2, <3>4, <3>9 DEF FieldTypeOK, Representable
  <2>3. CASE k = "m"
    <3>1. w \in ToBytes(data)
      BY <2>3 DEF DecodeBolt11
    <3>2. /\ w \in Bytes /\ AreGroups(ToGroups(w), GroupsFor(Len(w))) /\ GroupsFor(Len(w)) \in Nat
          /\ GroupsFor(Len(w)) <= g
      BY <1>1, <3>1, BytesRewritten
    <3>3. GroupsFor(Len(w)) \in 0 .. MaxGroups
      BY <1>1, <3>2
    <3>4. ToGroups(w) \in EncodeBolt11(k, w)
      BY <2>3 DEF EncodeBolt11
    <3>5. Writable(k, w)
      BY <2>3, <3>2, <3>3, <3>4 DEF Writable
    <3>. QED  BY <1>3, <2>1, <2>3, <3>2, <3>5 DEF FieldTypeOK, Representable
  <2>4. CASE k = "x"
    <3>. DEFINE num == DecodeUint(data)
    <3>1. num \in Nat
      BY <1>1, DecodeUintFacts
    <3>2. w = Signed((num * Second) % Word)
      BY <2>4 DEF DecodeBolt11, DecodeDuration
    <3>. HIDE DEF num
    <3>3. /\ w \in -(Word \div 2) .. Word \div 2 - 1 /\ num * Second \in Nat
          /\ num * Second < Word \div 2 =>
               w = num * Second /\ num * Second >= 0 /\ (num * Second) % Second = 0
      BY <3>1, <3>2, DurationFacts
    <3>4. num * Second < Word \div 2 \/ num * Second >= Word \div 2
      BY <3>3, NumberWidths
    <3>5. num * Second < Word \div 2 => Representable(network, k, w)
      BY <1>3, <2>1, <2>4, <3>3 DEF Representable
    <3>6. PICK s \in Seconds(w) : TRUE
      BY DEF Seconds
    <3>7. s \in 0 .. Word - 1
      BY <3>3, <3>6, SecondsFacts
    <3>8. PICK n \in Nat : /\ AreGroups(EncodeVarUint(s), n)
                           /\ n <= (WordBits + GroupBits - 1) \div GroupBits
      BY <3>7, EncodeVarUintFacts
    <3>9. n \in 0 .. MaxGroups
      <4>1. (WordBits + GroupBits - 1) \div GroupBits <= MaxGroups
        BY LengthWidths
      <4>2. (WordBits + GroupBits - 1) \div GroupBits \in Nat
        BY WordFacts, PadFacts
      <4>. QED  BY <1>1, <3>8, <4>1, <4>2
    <3>10. EncodeVarUint(s) \in EncodeBolt11(k, w)
      BY <2>4, <3>6 DEF EncodeBolt11
    <3>11. Writable(k, w)
      BY <2>4, <3>8, <3>9, <3>10 DEF Writable
    <3>. QED  BY <2>4, <3>3, <3>4, <3>5, <3>11 DEF FieldTypeOK, num
  <2>5. CASE k = "c"
    <3>. DEFINE num == DecodeUint(data)
    <3>1. num \in Nat /\ TwoTo[CltvBits] \in Nat \ {0}
      BY <1>1, DecodeUintFacts, NumberWidths
    <3>2. w = num % TwoTo[CltvBits]
      BY <2>5 DEF DecodeBolt11
    <3>. HIDE DEF num
    <3>3. w \in 0 .. TwoTo[CltvBits] - 1
      BY <3>1, <3>2, DivMod
    <3>4. w # 0
      BY <1>3, <2>5 DEF Stored
    <3>5. w \in 1 .. TwoTo[CltvBits] - 1
      BY <3>1, <3>3, <3>4
    <3>6. w \in 0 .. Word - 1
      BY <3>1, <3>3, NumberWidths
    <3>7. PICK n \in Nat : /\ AreGroups(EncodeVarUint(w), n)
                           /\ n <= (WordBits + GroupBits - 1) \div GroupBits
      BY <3>6, EncodeVarUintFacts
    <3>8. n \in 0 .. MaxGroups
      <4>1. (WordBits + GroupBits - 1) \div GroupBits <= MaxGroups
        BY LengthWidths
      <4>2. (WordBits + GroupBits - 1) \div GroupBits \in Nat
        BY WordFacts, PadFacts
      <4>. QED  BY <1>1, <3>7, <4>1, <4>2
    <3>9. EncodeVarUint(w) \in EncodeBolt11(k, w)
      BY <2>5 DEF EncodeBolt11
    <3>10. Writable(k, w)
      BY <2>5, <3>7, <3>8, <3>9 DEF Writable
    <3>. QED  BY <1>3, <2>1, <2>5, <3>5, <3>10 DEF FieldTypeOK, Representable
  <2>6. CASE k = "9"
    <3>1. w \in DecodeFeatures(data)
      BY <2>6 DEF DecodeBolt11
    <3>. DEFINE n == w.maxBit \div GroupBits + 1
    <3>2. FeatureVector(w) /\ EncodeFeatures(w) # {} /\ (n <= g \/ n = 1)
      BY <1>1, <3>1, DecodedFeatures
    <3>3. PICK d \in EncodeFeatures(w) : TRUE
      BY <3>2
    <3>4. n \in Nat \ {0} /\ AreGroups(d, n)
      BY <3>2, <3>3, FeaturesFacts
    <3>. HIDE DEF n
    <3>5. n \in 0 .. MaxGroups
      BY <1>1, <3>2, <3>4
    <3>6. d \in EncodeBolt11(k, w)
      BY <2>6, <3>3 DEF EncodeBolt11
    <3>7. Writable(k, w)
      BY <2>6, <3>4, <3>5, <3>6 DEF Writable
    <3>. QED  BY <1>3, <2>1, <2>6, <3>2, <3>7 DEF FieldTypeOK, Representable
  <2>7. CASE k = "r"
    <3>1. w \in DecodeHint(data)
      BY <2>7 DEF DecodeBolt11
    <3>. DEFINE n == GroupsFor(Len(w) * HopLength)
    <3>2. /\ w \in Seq(HopHint) /\ \A i \in DOMAIN w : HopOK(w[i])
          /\ n <= g
      BY <1>1, <3>1, DecodedHint
    <3>3. AreGroups(EncodeHint(w), n) /\ n \in Nat
      BY <3>2, HintFacts
    <3>. HIDE DEF n
    <3>4. n \in 0 .. MaxGroups
      BY <1>1, <3>2, <3>3
    <3>5. EncodeHint(w) \in EncodeBolt11(k, w)
      BY <2>7 DEF EncodeBolt11
    <3>6. Writable(k, w)
      BY <2>7, <3>3, <3>4, <3>5 DEF Writable
    <3>7. Representable(network, k, w)
      BY <1>3, <2>1, <2>7, <3>2 DEF Representable, HopOK
    <3>. QED  BY <2>7, <3>2, <3>6, <3>7 DEF FieldTypeOK
  <2>8. CASE k = "f"
    <3>1. w \in DecodeFallback(network, data)
      BY <2>8 DEF DecodeBolt11
    <3>2. /\ Text(w)
          /\ \/ OddProgram(w)
             \/ \E a \in DecodeAddress(w) :
                  /\ Encode(a) = {w} /\ a.network = network
                  /\ \E d \in EncodeAddress(a), n \in Nat : AreGroups(d, n) /\ (n <= g \/ n <= 1)
      BY <1>1, <3>1, DecodedAddress
    <3>3. ASSUME ~OddProgram(w) PROVE Writable(k, w) /\ Representable(network, k, w)
      <4>1. PICK a \in DecodeAddress(w) :
                  /\ Encode(a) = {w} /\ a.network = network
                  /\ \E d \in EncodeAddress(a), n \in Nat : AreGroups(d, n) /\ (n <= g \/ n <= 1)
        BY <3>2, <3>3
      <4>2. PICK d \in EncodeAddress(a), n \in Nat : AreGroups(d, n) /\ (n <= g \/ n <= 1)
        BY <4>1
      <4>3. n \in 0 .. MaxGroups
        BY <1>1, <4>2
      <4>4. d \in EncodeBolt11(k, w)
        BY <2>8, <4>1, <4>2 DEF EncodeBolt11
      <4>5. Writable(k, w)
        BY <2>8, <4>2, <4>3, <4>4 DEF Writable
      <4>6. Representable(network, k, w)
        BY <1>3, <2>1, <2>8, <4>1 DEF Representable
      <4>. QED  BY <4>5, <4>6
    <3>. QED  BY <2>8, <3>2, <3>3 DEF FieldTypeOK
  <2>. QED  BY <2>2, <2>3, <2>4, <2>5, <2>6, <2>7, <2>8 DEF Kinds
<1>4. ASSUME v # Absent
      PROVE  /\ FieldTypeOK(k, v)
             /\ Writable(k, v) \/ (k = "f" /\ OddProgram(v))
             /\ \/ Representable(network, k, v)
                \/ k = "x" /\ DecodeUint(data) * Second >= Word \div 2
                \/ k = "f" /\ OddProgram(v)
  <2>1. v = w
    BY <1>4, StoredType
  <2>. QED  BY <1>3, <1>4, <2>1
<1>. HIDE DEF v
<1>. QED  BY <1>2, <1>4 DEF v

\* A number that was written begins with a group that is not zero.
LEMMA NoLeadingZero ==
  ASSUME NEW k \in {"c", "9"}, NEW v, v # Absent, FieldTypeOK(k, v), NEW data \in EncodeBolt11(k, v),
         data[1] = 0
  PROVE  data = <<0>>
<1>1. CASE k = "c"
  <2>1. v \in 1 .. TwoTo[CltvBits] - 1 /\ data = EncodeVarUint(v)
    BY <1>1 DEF FieldTypeOK, EncodeBolt11
  <2>2. v \in 0 .. Word - 1 /\ v > 0
    BY <2>1, NumberWidths
  <2>3. EncodeVarUint(v)[1] # 0
    BY <2>2, EncodeVarUintFacts
  <2>. QED  BY <2>1, <2>3
<1>2. CASE k = "9"
  <2>1. FeatureVector(v) /\ data \in EncodeFeatures(v)
    BY <1>2 DEF FieldTypeOK, EncodeBolt11
  <2>. QED  BY <2>1, FeaturesFacts
<1>. QED  BY <1>1, <1>2

-----------------------------------------------------------------------------
(* Frames *)

\* f is a frame of kind k with this data.
IsFrame(f, k, data) ==
  \E len : /\ AreGroups(len, LengthGroups) /\ DecodeUint(len) = Len(data)
           /\ AreGroups(data, Len(data)) /\ f = (<<Type[k]>> \o len) \o data

\* Appending keeps the parts.
LEMMA FrameParts ==
  ASSUME NEW f, NEW k \in Kinds, NEW data, IsFrame(f, k, data)
  PROVE  /\ Len(data) \in Nat /\ HeadLength \in Nat \ {0}
         /\ AreGroups(f, HeadLength + Len(data)) /\ f[1] = Type[k]
         /\ DecodeUint(Piece(f, 1, LengthGroups)) = Len(data)
         /\ Piece(f, HeadLength, Len(data)) = data
<1>1. PICK len : /\ AreGroups(len, LengthGroups) /\ DecodeUint(len) = Len(data)
                 /\ AreGroups(data, Len(data)) /\ f = (<<Type[k]>> \o len) \o data
  BY DEF IsFrame
<1>. DEFINE s == <<Type[k]>>
            h == s \o len
<1>2. Type[k] \in Groups /\ GroupBits \in Nat /\ LengthGroups \in Nat
  BY TypeAssumption, WordFacts, LengthWidths
<1>3. AreGroups(s, 1) /\ s[1] = Type[k]
  <2>1. HasLength(s, 1) /\ s[1] = Type[k]
    BY DEF HasLength
  <2>. QED  BY <1>2, <2>1 DEF AreGroups, AreDigits, Groups, Group
<1>4. Joins(h, s, len) /\ Joins(f, h, data)
  BY <1>1 DEF Joins
<1>. HIDE DEF s, h
<1>5. HasLength(s, 1) /\ HasLength(len, LengthGroups) /\ HasLength(data, Len(data))
  BY <1>1, <1>3 DEF AreGroups, AreDigits
<1>6. AreGroups(h, HeadLength) /\ HeadLength \in Nat \ {0}
  <2>1. AreGroups(h, 1 + LengthGroups)
    BY <1>1, <1>2, <1>3, <1>4, ConcatDigits DEF AreGroups
  <2>. QED  BY <1>2, <2>1 DEF HeadLength
<1>7. h[1] = s[1] /\ Piece(h, 1, LengthGroups) = len
  BY <1>4, <1>5, PartOfConcat
<1>8. HasLength(h, HeadLength)
  BY <1>6 DEF AreGroups, AreDigits
<1>9. /\ Piece(f, HeadLength, Len(data)) = data /\ Len(data) \in Nat
      /\ \A i \in 1 .. HeadLength : f[i] = h[i]
      /\ \A a, n \in Nat : a + n <= HeadLength => Piece(f, a, n) = Piece(h, a, n)
  BY <1>4, <1>5, <1>8, PartOfConcat
<1>10. f[1] = Type[k] /\ Piece(f, 1, LengthGroups) = len
  <2>1. 1 \in 1 .. HeadLength /\ 1 \in Nat /\ 1 + LengthGroups <= HeadLength
    BY <1>2, <1>6 DEF HeadLength
  <2>. QED  BY <1>2, <1>3, <1>7, <1>9, <2>1
<1>11. AreGroups(f, HeadLength + Len(data))
  BY <1>1, <1>2, <1>4, <1>6, ConcatDigits DEF AreGroups
<1>. QED  BY <1>1, <1>6, <1>9, <1>10, <1>11

\* What WriteField writes is a frame.
LEMMA FrameFacts ==
  ASSUME NEW k \in Kinds, NEW n \in Nat, NEW data, AreGroups(data, n), NEW f \in Frame(k, data)
  PROVE  IsFrame(f, k, data)
<1>1. PICK len \in EncodeUint(Len(data), LengthGroups) : f = (<<Type[k]>> \o len) \o data
  BY DEF Frame
<1>2. Len(data) = n
  BY GroupsAre
<1>3. LengthGroups \in Nat /\ LengthGroups * GroupBits < WordBits
  BY LengthWidths
<1>4. AreGroups(len, LengthGroups) /\ DecodeUint(len) = Len(data)
  BY <1>1, <1>2, <1>3, EncodeUintFacts
<1>. QED  BY <1>1, <1>2, <1>4 DEF IsFrame

\* Data whose length fits has a frame.
LEMMA FrameExists ==
  ASSUME NEW k \in Kinds, NEW n \in 0 .. MaxGroups, NEW data, AreGroups(data, n),
         k = "h" => n = HashGroups
  PROVE  Frame(k, data) # {}
<1>1. Len(data) = n /\ n \in Nat
  BY GroupsAre
<1>2. LengthGroups \in Nat /\ LengthGroups * GroupBits < WordBits /\ LengthGroups * GroupBits \in Nat
  BY LengthWidths
<1>. DEFINE w == LengthGroups * GroupBits
<1>3. n < TwoTo[w]
  <2>. HIDE DEF w
  <2>1. TwoTo[w] \in Nat
    BY <1>2, TwoToFacts DEF w
  <2>. QED  BY <1>1, <2>1 DEF MaxGroups, w
<1>4. EncodeUint(n, LengthGroups) # {}
  BY <1>1, <1>2, <1>3, EncodeUintFacts
<1>. QED  BY <1>1, <1>4 DEF Frame

\* A type is of one kind.
LEMMA KindIs ==
  ASSUME NEW k \in Kinds
  PROVE  KindOf(Type[k]) = k
<1>1. \A l \in Kinds : Type[l] = Type[k] => l = k
  BY TypeAssumption
<1>. QED  BY <1>1 DEF KindOf

\* Any type is of a kind or unknown.
LEMMA KindType ==
  ASSUME NEW type
  PROVE  KindOf(type) \in Kinds \cup {"?"}
BY DEF KindOf

\* A piece of a piece
LEMMA PieceOfPiece ==
  ASSUME NEW s, NEW m, HasLength(s, m), NEW a \in Nat, NEW c \in Nat, a + c <= m,
         NEW b \in Nat, NEW d \in Nat, b + d <= c
  PROVE  Piece(Piece(s, a, c), b, d) = Piece(s, a + b, d)
<1>1. m \in Nat /\ a + b \in Nat /\ (a + b) + d <= m
  BY DEF HasLength
<1>. DEFINE p == Piece(s, a, c)
<1>2. HasLength(p, c) /\ \A i \in 1 .. c : p[i] = s[a + i]
  BY PieceFacts
<1>. HIDE DEF p
<1>3. HasLength(Piece(p, b, d), d)
      /\ \A i \in 1 .. d : Piece(p, b, d)[i] = p[b + i] /\ b + i \in 1 .. c
  BY <1>2, PieceFacts
<1>4. HasLength(Piece(s, a + b, d), d)
      /\ \A i \in 1 .. d : Piece(s, a + b, d)[i] = s[(a + b) + i]
  BY <1>1, PieceFacts
<1>5. \A i \in 1 .. d : Piece(p, b, d)[i] = Piece(s, a + b, d)[i]
  <2>1. \A i \in 1 .. d : a + (b + i) = (a + b) + i
    OBVIOUS
  <2>. QED  BY <1>2, <1>3, <1>4, <2>1
<1>. QED  BY <1>3, <1>4, <1>5, LengthSame DEF p

\* Any piece of groups is groups.
LEMMA PieceGroups ==
  ASSUME NEW s, NEW m, AreGroups(s, m), NEW a \in Nat, NEW n \in Nat, a + n <= m
  PROVE  AreGroups(Piece(s, a, n), n)
<1>1. HasLength(s, m) /\ \A i \in 1 .. m : s[i] \in 0 .. TwoTo[GroupBits] - 1
  BY DEF AreGroups, AreDigits
<1>2. HasLength(Piece(s, a, n), n)
      /\ \A i \in 1 .. n : Piece(s, a, n)[i] = s[a + i] /\ a + i \in 1 .. m
  BY <1>1, PieceFacts
<1>. QED  BY <1>1, <1>2 DEF AreGroups, AreDigits

\* What ReadField takes of what is still to be read, if it begins with a frame
LEMMA ReadFrame ==
  ASSUME NEW m, AreGroups(rest, m), NEW f, NEW k \in Kinds, NEW data, IsFrame(f, k, data),
         NEW n, n = HeadLength + Len(data), n <= m, Piece(rest, 0, n) = f
  PROVE  /\ rest # << >> /\ Whole /\ KindOf(Head(rest)) = k /\ Data = data
         /\ SubSeq(rest, HeadLength + DataLength + 1, Len(rest)) = Piece(rest, n, m - n)
<1>1. /\ Len(data) \in Nat /\ HeadLength \in Nat \ {0} /\ AreGroups(f, n) /\ f[1] = Type[k]
      /\ DecodeUint(Piece(f, 1, LengthGroups)) = Len(data)
      /\ Piece(f, HeadLength, Len(data)) = data
  BY FrameParts
<1>2. Len(rest) = m /\ HasLength(rest, m) /\ m \in Nat /\ n \in Nat \ {0}
  <2>1. HasLength(rest, m)
    BY DEF AreGroups, AreDigits
  <2>. QED  BY <1>1, <2>1, LengthOf
<1>3. rest # << >> /\ Head(rest) = rest[1]
  <2>1. rest \in Seq(Groups)
    BY GroupsAre
  <2>2. Len(rest) # 0
    BY <1>1, <1>2
  <2>. QED  BY <2>1, <2>2
<1>4. rest[1] = f[1]
  <2>1. 0 \in Nat /\ 0 + n <= m /\ n \in Nat /\ 1 \in 1 .. n /\ 0 + 1 = 1
    BY <1>2
  <2>2. Piece(rest, 0, n)[1] = rest[0 + 1]
    BY <1>2, <2>1, PieceFacts
  <2>. QED  BY <2>1, <2>2
<1>5. \A b, d \in Nat : b + d <= n => Piece(rest, b, d) = Piece(f, b, d)
  <2>1. 0 \in Nat /\ n \in Nat /\ 0 + n <= m
    BY <1>2
  <2>2. ASSUME NEW b \in Nat, NEW d \in Nat, b + d <= n PROVE Piece(rest, b, d) = Piece(f, b, d)
    <3>1. Piece(Piece(rest, 0, n), b, d) = Piece(rest, 0 + b, d)
      BY <1>2, <2>1, <2>2, PieceOfPiece
    <3>2. 0 + b = b
      OBVIOUS
    <3>. QED  BY <3>1, <3>2
  <2>. QED  BY <2>2
<1>6. DataLength = Len(data)
  <2>1. LengthGroups \in Nat /\ 1 + LengthGroups <= n /\ 1 \in Nat
    BY <1>1, LengthWidths DEF HeadLength
  <2>2. Piece(rest, 1, LengthGroups) = Piece(f, 1, LengthGroups)
    BY <1>5, <2>1
  <2>3. Piece(rest, 1, LengthGroups) = SubSeq(rest, 2, HeadLength)
    BY <2>1 DEF Piece, HeadLength
  <2>. QED  BY <1>1, <2>2, <2>3 DEF DataLength
<1>7. Data = data
  <2>1. HeadLength + Len(data) <= n
    BY <1>1
  <2>2. Piece(rest, HeadLength, Len(data)) = data
    BY <1>1, <1>5, <2>1
  <2>. QED  BY <1>6, <2>2 DEF Data, Piece
<1>8. Whole
  BY <1>1, <1>2, <1>6 DEF Whole
<1>9. KindOf(Head(rest)) = k
  BY <1>1, <1>3, <1>4, KindIs
<1>10. SubSeq(rest, HeadLength + DataLength + 1, Len(rest)) = Piece(rest, n, m - n)
  <2>1. n + (m - n) = m
    BY <1>2
  <2>. QED  BY <1>2, <1>6, <2>1 DEF Piece
<1>. QED  BY <1>3, <1>7, <1>8, <1>9, <1>10

\* The data of whatever is read
LEMMA DataFacts ==
  ASSUME NEW m, AreGroups(rest, m), Whole
  PROVE  /\ \E g \in 0 .. MaxGroups : AreGroups(Data, g)
         /\ \E n \in Nat : AreGroups(SubSeq(rest, HeadLength + DataLength + 1, Len(rest)), n)
<1>1. Len(rest) = m /\ HasLength(rest, m) /\ m \in Nat
  <2>1. HasLength(rest, m)
    BY DEF AreGroups, AreDigits
  <2>. QED  BY <2>1, LengthOf
<1>2. LengthGroups \in Nat /\ HeadLength = 1 + LengthGroups /\ LengthGroups * GroupBits < WordBits
      /\ LengthGroups * GroupBits \in Nat
  BY LengthWidths DEF HeadLength
<1>3. HeadLength <= m
  BY <1>1 DEF Whole
<1>. DEFINE len == Piece(rest, 1, LengthGroups)
<1>4. AreGroups(len, LengthGroups)
  <2>1. 1 \in Nat /\ 1 + LengthGroups <= m
    BY <1>2, <1>3
  <2>. QED  BY <1>2, <2>1, PieceGroups
<1>5. len = SubSeq(rest, 2, HeadLength)
  BY <1>2 DEF Piece
<1>. HIDE DEF len
<1>6. DataLength \in 0 .. MaxGroups
  <2>. DEFINE w == LengthGroups * GroupBits
              num == DecodeUint(len)
  <2>1. num \in Nat /\ w <= WordBits => num < TwoTo[w]
    BY <1>2, <1>4, DecodeUintFacts
  <2>2. num \in Nat /\ w \in Nat /\ TwoTo[w] \in Nat /\ w <= WordBits
    <3>1. num \in Nat
      BY <1>2, <1>4, DecodeUintFacts
    <3>2. w \in Nat /\ w < WordBits /\ WordBits \in Nat
      BY <1>2, WordFacts
    <3>. HIDE DEF w
    <3>. QED  BY <3>1, <3>2, TwoToFacts
  <2>3. num < TwoTo[w]
    BY <2>1, <2>2
  <2>4. DataLength = num
    BY <1>5 DEF DataLength
  <2>5. MaxGroups = TwoTo[w] - 1
    BY DEF MaxGroups
  <2>. HIDE DEF num, w
  <2>. QED  BY <2>2, <2>3, <2>4, <2>5
<1>7. MaxGroups \in Nat
  BY LengthWidths
<1>8. DataLength \in Nat /\ HeadLength \in Nat /\ HeadLength + DataLength <= m
  BY <1>1, <1>2, <1>6, <1>7 DEF Whole
<1>9. AreGroups(Data, DataLength)
  <2>1. Data = Piece(rest, HeadLength, DataLength)
    BY DEF Data, Piece
  <2>. QED  BY <1>8, <2>1, PieceGroups
<1>10. \E n \in Nat : AreGroups(SubSeq(rest, HeadLength + DataLength + 1, Len(rest)), n)
  <2>. DEFINE a == HeadLength + DataLength
              n == m - a
  <2>1. a \in Nat /\ n \in Nat /\ a + n = m /\ a + n <= m
    BY <1>1, <1>8
  <2>2. AreGroups(Piece(rest, a, n), n)
    BY <2>1, PieceGroups
  <2>3. Piece(rest, a, n) = SubSeq(rest, HeadLength + DataLength + 1, Len(rest))
    BY <1>1, <2>1 DEF Piece
  <2>. QED  BY <2>1, <2>2, <2>3
<1>. QED  BY <1>6, <1>9, <1>10

-----------------------------------------------------------------------------
(* The frames in a data part *)

\* A request whose fields are listed, once, and as Stored leaves them
Good(q) ==
  /\ q = [network |-> q.network, time |-> q.time, listed |-> q.listed,
          field |-> [k \in Kinds |-> q.field[k]]]
  /\ RequestTypeOK(q)
  /\ \A k \in Kinds :
       /\ Stored(k, q.field[k]) = q.field[k]
       /\ q.field[k] # Absent => \E i \in DOMAIN q.listed : q.listed[i] = k
  /\ \A i, j \in DOMAIN q.listed : q.listed[i] = q.listed[j] => i = j

\* The places of the fields that are written, among the first p, and their kinds
Chosen(q, p) == {i \in 1 .. p : q.field[q.listed[i]] # Absent}
Kept(q, p) == Subsequence(q.listed, Chosen(q, p))

\* data has the time of q, and from at[i - 1] to at[i] the frame of the i-th
\* field that is kept of the first p.
Carries(data, q, p, at) ==
  LET ks == Kept(q, p)
      n  == Len(ks)
  IN  /\ \A i \in 1 .. p : q.listed[i] \in Kinds
      /\ at \in [0 .. n -> Nat] /\ at[0] = TimestampGroups
      /\ \A i \in 0 .. n - 1 : at[i] < at[n]
      /\ \A i \in 1 .. n : \E d \in EncodeBolt11(ks[i], q.field[ks[i]]) :
           /\ IsFrame(Piece(data, at[i - 1], HeadLength + Len(d)), ks[i], d)
           /\ at[i] = at[i - 1] + (HeadLength + Len(d))
      /\ DecodeUint(Piece(data, 0, TimestampGroups)) = q.time

\* The fields that are listed
LEMMA ListedFacts ==
  ASSUME NEW q, Good(q)
  PROVE  /\ q.listed \in Seq(Kinds \cup {"?"}) /\ Len(q.listed) \in Nat
         /\ DOMAIN q.listed = 1 .. Len(q.listed) /\ HasLength(q.listed, Len(q.listed))
         /\ \A i, j \in 1 .. Len(q.listed) : q.listed[i] = q.listed[j] => i = j
         /\ \A k \in Kinds : FieldTypeOK(k, q.field[k]) /\ Stored(k, q.field[k]) = q.field[k]
         /\ q.time \in Nat
<1>1. q.listed \in Seq(Kinds \cup {"?"}) /\ q.time \in Nat
  BY DEF Good, RequestTypeOK
<1>2. Len(q.listed) \in Nat /\ DOMAIN q.listed = 1 .. Len(q.listed) /\ HasLength(q.listed, Len(q.listed))
  BY <1>1, LengthMakes, LenProperties
<1>. QED  BY <1>1, <1>2 DEF Good, RequestTypeOK

\* The kinds that are kept are those of fields that are present, each once.
LEMMA KeptFacts ==
  ASSUME NEW q, Good(q), NEW p \in 0 .. Len(q.listed)
  PROVE  LET ks == Kept(q, p)
             n  == Len(ks)
         IN  /\ n \in Nat /\ HasLength(ks, n)
             /\ \A i \in 1 .. n : q.field[ks[i]] # Absent /\ \E j \in 1 .. p : ks[i] = q.listed[j]
             /\ \A i, l \in 1 .. n : ks[i] = ks[l] => i = l
             /\ \A j \in 1 .. p : q.field[q.listed[j]] # Absent => \E i \in 1 .. n : ks[i] = q.listed[j]
<1>. DEFINE S == Chosen(q, p)
            ks == Kept(q, p)
            s == q.listed
            X == Kinds \cup {"?"}
<1>1. /\ s \in Seq(X) /\ Len(s) \in Nat /\ p \in Nat
      /\ \A i, j \in 1 .. Len(s) : s[i] = s[j] => i = j
  BY ListedFacts
<1>2. S \in SUBSET (1 .. Len(s)) /\ S \in SUBSET Nat /\ \A i \in S : i \in 1 .. p
  BY <1>1 DEF Chosen
<1>3. /\ IsFiniteSet(S) /\ ks \in Seq(X) /\ Len(ks) = Cardinality(S) /\ Cardinality(S) \in Nat
  <2>. HIDE DEF S, X
  <2>. QED  BY <1>1, <1>2, SubsequenceSeq DEF Kept, S
<1>. DEFINE n == Cardinality(S)
<1>4. PICK f : Places(S, n, f) /\ ks = Along(s, n, f)
  <2>. HIDE DEF S
  <2>. QED  BY <1>2, <1>3, SubsequencePlaces DEF Kept, S
<1>5. /\ f \in [1 .. n -> S] /\ n \in Nat
      /\ \A i, k \in 1 .. n : i < k => f[i] < f[k]
      /\ \A j \in S : \E k \in 1 .. n : f[k] = j
  BY <1>4 DEF Places
<1>. HIDE DEF n
<1>6. Len(ks) = n /\ HasLength(ks, n) /\ \A i \in 1 .. n : ks[i] = s[f[i]] /\ f[i] \in S
  BY <1>3, <1>4, <1>5, LengthMakes DEF Along, n
<1>. HIDE DEF ks
<1>7. ASSUME NEW i \in 1 .. n PROVE q.field[ks[i]] # Absent /\ \E j \in 1 .. p : ks[i] = s[j]
  <2>1. f[i] \in S /\ ks[i] = s[f[i]]
    BY <1>6
  <2>. QED  BY <1>2, <2>1 DEF Chosen
<1>8. ASSUME NEW i \in 1 .. n, NEW l \in 1 .. n, ks[i] = ks[l] PROVE i = l
  <2>1. f[i] \in 1 .. Len(s) /\ f[l] \in 1 .. Len(s) /\ s[f[i]] = s[f[l]]
    BY <1>2, <1>6, <1>8
  <2>2. f[i] = f[l]
    BY <1>1, <2>1
  <2>3. f[i] \in Nat /\ f[l] \in Nat
    BY <1>1, <2>1
  <2>. QED  BY <1>5, <2>2, <2>3
<1>9. ASSUME NEW j \in 1 .. p, q.field[s[j]] # Absent PROVE \E i \in 1 .. n : ks[i] = s[j]
  <2>1. j \in S
    BY <1>9 DEF Chosen
  <2>2. PICK i \in 1 .. n : f[i] = j
    BY <1>5, <2>1
  <2>. QED  BY <1>6, <2>2
<1>. QED  BY <1>5, <1>6, <1>7, <1>8, <1>9 DEF ks

\* Of no fields none is kept.
LEMMA KeptNone ==
  ASSUME NEW q, Good(q)
  PROVE  Len(Kept(q, 0)) = 0
<1>1. 0 \in 0 .. Len(q.listed)
  BY ListedFacts
<1>2. Len(Kept(q, 0)) \in Nat /\ \A i \in 1 .. Len(Kept(q, 0)) : \E j \in 1 .. 0 : TRUE
  BY <1>1, KeptFacts
<1>3. \A j : j \notin 1 .. 0
  OBVIOUS
<1>4. 1 \notin 1 .. Len(Kept(q, 0))
  BY <1>2, <1>3
<1>. QED  BY <1>2, <1>4

\* A field that is absent is not kept.
LEMMA KeptSkips ==
  ASSUME NEW q, Good(q), NEW p \in Nat, p + 1 <= Len(q.listed), q.field[q.listed[p + 1]] = Absent
  PROVE  Kept(q, p + 1) = Kept(q, p)
<1>1. \A i : i \in 1 .. p + 1 <=> i \in 1 .. p \/ i = p + 1
  OBVIOUS
<1>2. Chosen(q, p + 1) = Chosen(q, p)
  BY <1>1 DEF Chosen
<1>. QED  BY <1>2 DEF Kept

\* A field that is present is kept, behind the others.
LEMMA KeptKeeps ==
  ASSUME NEW q, Good(q), NEW p \in Nat, p + 1 <= Len(q.listed), q.field[q.listed[p + 1]] # Absent
  PROVE  LET ks == Kept(q, p)
             n  == Len(ks)
         IN  /\ Len(Kept(q, p + 1)) = n + 1 /\ n \in Nat
             /\ Kept(q, p + 1)[n + 1] = q.listed[p + 1]
             /\ \A i \in 1 .. n : Kept(q, p + 1)[i] = ks[i]
<1>. DEFINE S == Chosen(q, p)
            s == q.listed
            X == Kinds \cup {"?"}
            i == p + 1
            ks == Kept(q, p)
<1>1. s \in Seq(X) /\ Len(s) \in Nat /\ i \in 1 .. Len(s) /\ p \in 0 .. Len(s) /\ s[i] \in X
  <2>1. s \in Seq(X) /\ Len(s) \in Nat /\ i \in 1 .. Len(s) /\ p \in 0 .. Len(s)
    BY ListedFacts
  <2>. QED  BY <2>1, ElementOfSeq
<1>2. S \in SUBSET (1 .. Len(s)) /\ \A j \in S : j < i
  BY <1>1 DEF Chosen
<1>3. Chosen(q, i) = S \cup {i}
  <2>1. \A j : j \in 1 .. p + 1 <=> j \in 1 .. p \/ j = p + 1
    OBVIOUS
  <2>. QED  BY <2>1 DEF Chosen
<1>4. Subsequence(s, S \cup {i}) = Append(ks, s[i])
  <2>. HIDE DEF S, i, X
  <2>. QED  BY <1>1, <1>2, SubsequenceLast DEF Kept, S
<1>5. ks \in Seq(X) /\ Len(ks) \in Nat
  <2>. HIDE DEF S, X
  <2>1. ks \in Seq(X)
    BY <1>1, <1>2, SubsequenceSeq DEF Kept, S
  <2>. QED  BY <2>1, LenProperties
<1>. HIDE DEF ks, X, S, i
<1>6. /\ Len(Append(ks, s[i])) = Len(ks) + 1 /\ Append(ks, s[i])[Len(ks) + 1] = s[i]
      /\ \A j \in 1 .. Len(ks) : Append(ks, s[i])[j] = ks[j]
  BY <1>1, <1>5, AppendProperties
<1>. QED  BY <1>3, <1>4, <1>5, <1>6 DEF Kept, ks, i

\* What a data part carries it still carries when more is written behind.
LEMMA CarriesBefore ==
  ASSUME NEW q, Good(q), NEW p \in 0 .. Len(q.listed), NEW data, NEW at, Carries(data, q, p, at),
         AreGroups(data, at[Len(Kept(q, p))]),
         NEW t, NEW l, HasLength(t, l), NEW u, Joins(u, data, t)
  PROVE  Carries(u, q, p, at)
<1>. DEFINE ks == Kept(q, p)
            n == Len(ks)
            m == at[n]
<1>1. n \in Nat /\ HasLength(data, m) /\ m \in Nat
  BY KeptFacts DEF AreGroups, AreDigits, HasLength
<1>2. /\ \A i \in 1 .. p : q.listed[i] \in Kinds
      /\ at \in [0 .. n -> Nat] /\ at[0] = TimestampGroups
      /\ \A i \in 0 .. n - 1 : at[i] < at[n]
      /\ \A i \in 1 .. n : \E d \in EncodeBolt11(ks[i], q.field[ks[i]]) :
           /\ IsFrame(Piece(data, at[i - 1], HeadLength + Len(d)), ks[i], d)
           /\ at[i] = at[i - 1] + (HeadLength + Len(d))
      /\ DecodeUint(Piece(data, 0, TimestampGroups)) = q.time
  BY DEF Carries
<1>3. \A a, c \in Nat : a + c <= m => Piece(u, a, c) = Piece(data, a, c)
  <2>. HIDE DEF m
  <2>. QED  BY <1>1, PartOfConcat
<1>. HIDE DEF ks, n, m
<1>4. TimestampGroups <= m /\ TimestampGroups \in Nat
  <2>1. (0 \in 0 .. n - 1 \/ n = 0) /\ 0 \in 0 .. n /\ n \in 0 .. n
    BY <1>1
  <2>2. at[0] \in Nat /\ at[n] \in Nat
    BY <1>2, <2>1
  <2>3. at[0] < at[n] \/ at[0] = at[n]
    BY <1>2, <2>1
  <2>4. at[0] <= at[n]
    BY <2>2, <2>3
  <2>. QED  BY <1>2, <2>2, <2>4 DEF m
<1>5. Piece(u, 0, TimestampGroups) = Piece(data, 0, TimestampGroups)
  <2>1. 0 \in Nat /\ 0 + TimestampGroups <= m
    BY <1>1, <1>4
  <2>. QED  BY <1>3, <1>4, <2>1
<1>6. ASSUME NEW i \in 1 .. n
      PROVE  \E d \in EncodeBolt11(ks[i], q.field[ks[i]]) :
               /\ IsFrame(Piece(u, at[i - 1], HeadLength + Len(d)), ks[i], d)
               /\ at[i] = at[i - 1] + (HeadLength + Len(d))
  <2>1. PICK d \in EncodeBolt11(ks[i], q.field[ks[i]]) :
           /\ IsFrame(Piece(data, at[i - 1], HeadLength + Len(d)), ks[i], d)
           /\ at[i] = at[i - 1] + (HeadLength + Len(d))
    BY <1>2
  <2>2. ks[i] \in Kinds
    <3>1. \E j \in 1 .. p : ks[i] = q.listed[j]
      BY KeptFacts DEF ks, n
    <3>. QED  BY <1>2, <3>1
  <2>3. Len(d) \in Nat /\ HeadLength \in Nat
    BY <2>1, <2>2, FrameParts
  <2>4. at[i] <= m /\ at[i - 1] \in Nat /\ at[i] \in Nat
    <3>1. i \in 0 .. n /\ i - 1 \in 0 .. n /\ (i = n \/ i \in 0 .. n - 1) /\ n \in 0 .. n
      BY <1>1
    <3>2. at[i - 1] \in Nat /\ at[i] \in Nat
      BY <1>2, <3>1
    <3>3. at[i] = m \/ at[i] < m
      BY <1>2, <3>1 DEF m
    <3>. QED  BY <1>1, <3>2, <3>3
  <2>5. at[i - 1] + (HeadLength + Len(d)) <= m /\ HeadLength + Len(d) \in Nat
    BY <2>1, <2>3, <2>4
  <2>6. Piece(u, at[i - 1], HeadLength + Len(d)) = Piece(data, at[i - 1], HeadLength + Len(d))
    BY <1>3, <2>4, <2>5
  <2>. QED  BY <2>1, <2>6
<1>. QED  BY <1>2, <1>5, <1>6 DEF Carries, ks, n

\* One more frame
LEMMA CarriesMore ==
  ASSUME NEW q, Good(q), NEW p \in Nat, p + 1 <= Len(q.listed), NEW k \in Kinds, k = q.listed[p + 1],
         q.field[k] # Absent, NEW data, NEW at, Carries(data, q, p, at),
         AreGroups(data, at[Len(Kept(q, p))]),
         NEW d \in EncodeBolt11(k, q.field[k]), NEW f, IsFrame(f, k, d), NEW u, Joins(u, data, f)
  PROVE  \E to : Carries(u, q, p + 1, to) /\ AreGroups(u, to[Len(Kept(q, p + 1))])
<1>. DEFINE ks == Kept(q, p)
            n == Len(ks)
            m == at[n]
            more == Kept(q, p + 1)
            c == HeadLength + Len(d)
            to == [i \in 0 .. n + 1 |-> IF i = n + 1 THEN m + c ELSE at[i]]
<1>1. p \in 0 .. Len(q.listed)
  BY ListedFacts
<1>2. n \in Nat /\ HasLength(data, m) /\ m \in Nat
  BY <1>1, KeptFacts DEF AreGroups, AreDigits, HasLength
<1>3. /\ Len(d) \in Nat /\ HeadLength \in Nat \ {0} /\ AreGroups(f, c) /\ HasLength(f, c)
      /\ c \in Nat \ {0}
  <2>1. Len(d) \in Nat /\ HeadLength \in Nat \ {0} /\ AreGroups(f, HeadLength + Len(d))
    BY FrameParts
  <2>2. HasLength(f, c)
    BY <2>1 DEF AreGroups, AreDigits
  <2>3. c \in Nat \ {0}
    BY <2>1
  <2>. QED  BY <2>1, <2>2, <2>3
<1>4. Carries(u, q, p, at)
  BY <1>1, <1>3, CarriesBefore
<1>5. /\ \A i \in 1 .. p : q.listed[i] \in Kinds
      /\ at \in [0 .. n -> Nat] /\ at[0] = TimestampGroups
      /\ \A i \in 0 .. n - 1 : at[i] < at[n]
      /\ \A i \in 1 .. n : \E e \in EncodeBolt11(ks[i], q.field[ks[i]]) :
           /\ IsFrame(Piece(u, at[i - 1], HeadLength + Len(e)), ks[i], e)
           /\ at[i] = at[i - 1] + (HeadLength + Len(e))
      /\ DecodeUint(Piece(u, 0, TimestampGroups)) = q.time
  BY <1>4 DEF Carries
<1>6. Len(more) = n + 1 /\ more[n + 1] = k /\ \A i \in 1 .. n : more[i] = ks[i]
  BY KeptKeeps
<1>7. AreGroups(u, m + c) /\ Piece(u, m, c) = f
  <2>. HIDE DEF m, c
  <2>1. AreGroups(u, m + c)
    BY <1>3, ConcatDigits, WordFacts DEF AreGroups, m
  <2>. QED  BY <1>2, <1>3, <2>1, PartOfConcat
<1>. HIDE DEF more, c, ks, n, m
<1>8. to \in [0 .. n + 1 -> Nat] /\ to[n + 1] = m + c /\ \A i \in 0 .. n : to[i] = at[i]
  <2>1. \A i \in 0 .. n + 1 : i # n + 1 => i \in 0 .. n
    BY <1>2
  <2>2. m + c \in Nat /\ n + 1 \in 0 .. n + 1 /\ \A i \in 0 .. n : i \in 0 .. n + 1 /\ i # n + 1
    BY <1>2, <1>3
  <2>. QED  BY <1>5, <2>1, <2>2
<1>. HIDE DEF to
<1>9. to[0] = TimestampGroups
  BY <1>2, <1>5, <1>8
<1>10. ASSUME NEW i \in 0 .. (n + 1) - 1 PROVE to[i] < to[n + 1]
  <2>1. i \in 0 .. n /\ (i \in 0 .. n - 1 \/ i = n) /\ n \in 0 .. n
    BY <1>2
  <2>2. at[i] \in Nat /\ (at[i] < m \/ at[i] = m)
    BY <1>5, <2>1 DEF m
  <2>3. to[i] = at[i] /\ to[n + 1] = m + c
    BY <1>8, <2>1
  <2>. QED  BY <1>2, <1>3, <2>2, <2>3
<1>11. ASSUME NEW i \in 1 .. p + 1 PROVE q.listed[i] \in Kinds
  <2>1. i \in 1 .. p \/ i = p + 1
    OBVIOUS
  <2>. QED  BY <1>5, <2>1
<1>12. ASSUME NEW i \in 1 .. n + 1
       PROVE  \E e \in EncodeBolt11(more[i], q.field[more[i]]) :
                /\ IsFrame(Piece(u, to[i - 1], HeadLength + Len(e)), more[i], e)
                /\ to[i] = to[i - 1] + (HeadLength + Len(e))
  <2>1. CASE i = n + 1
    <3>1. i - 1 = n /\ n \in 0 .. n /\ to[i - 1] = m /\ to[i] = m + c /\ more[i] = k
      BY <1>2, <1>6, <1>8, <2>1 DEF m
    <3>2. IsFrame(Piece(u, to[i - 1], HeadLength + Len(d)), more[i], d)
          /\ to[i] = to[i - 1] + (HeadLength + Len(d))
      BY <1>7, <3>1 DEF c
    <3>. QED  BY <3>1, <3>2
  <2>2. CASE i \in 1 .. n
    <3>1. i \in 0 .. n /\ i - 1 \in 0 .. n /\ to[i] = at[i] /\ to[i - 1] = at[i - 1] /\ more[i] = ks[i]
      BY <1>2, <1>6, <1>8, <2>2
    <3>. QED  BY <1>5, <2>2, <3>1
  <2>. QED  BY <1>2, <2>1, <2>2
<1>13. Carries(u, q, p + 1, to)
  BY <1>5, <1>6, <1>8, <1>9, <1>10, <1>11, <1>12 DEF Carries, more
<1>14. AreGroups(u, to[Len(more)])
  BY <1>6, <1>7, <1>8
<1>. QED  BY <1>13, <1>14 DEF more

\* A data part with its signature
Holds(data, q, at) ==
  LET n == Len(Kept(q, Len(q.listed)))
  IN  Carries(data, q, Len(q.listed), at) /\ AreGroups(data, at[n] + SignatureGroups)

\* What is in r after the first j of the fields that were kept of q were read
Copied(q, r, j) ==
  LET ks == Kept(q, Len(q.listed))
  IN  /\ r.network = q.network /\ r.time = q.time /\ r.listed = Piece(ks, 0, j)
      /\ \A k \in Kinds : (\A i \in 1 .. j : ks[i] # k) => r.field[k] = Absent
      /\ \A i \in 1 .. j : Representable(q.network, ks[i], q.field[ks[i]]) =>
                             r.field[ks[i]] = q.field[ks[i]]

\* What is left of a sequence, one element after the other
LEMMA Remaining ==
  ASSUME NEW s, NEW l, HasLength(s, l), NEW p \in 0 .. l, NEW t, t = Piece(s, p, l - p)
  PROVE  /\ t = << >> => p = l
         /\ t # << >> => /\ p + 1 \in 0 .. l /\ p \in Nat /\ p + 1 <= l
                         /\ Head(t) = s[p + 1] /\ Tail(t) = Piece(s, p + 1, l - (p + 1))
<1>1. l \in Nat /\ p \in Nat /\ l - p \in Nat /\ p + (l - p) <= l
  BY DEF HasLength
<1>2. HasLength(t, l - p) /\ \A i \in 1 .. l - p : t[i] = s[p + i]
  BY <1>1, PieceFacts
<1>3. Len(t) = l - p
  BY <1>2, LengthOf
<1>4. ASSUME t = << >> PROVE p = l
  <2>1. Len(t) = 0
    BY <1>4
  <2>. QED  BY <1>1, <1>3, <2>1
<1>5. ASSUME t # << >>
      PROVE  /\ p + 1 \in 0 .. l /\ p + 1 <= l
             /\ Head(t) = s[p + 1] /\ Tail(t) = Piece(s, p + 1, l - (p + 1))
  <2>. DEFINE S == {t[i] : i \in 1 .. l - p}
  <2>1. t \in Seq(S)
    <3>1. \A i \in 1 .. l - p : t[i] \in S
      OBVIOUS
    <3>. HIDE DEF S
    <3>. QED  BY <1>2, <3>1, LengthOf
  <2>. HIDE DEF S
  <2>2. l - p # 0
    BY <1>3, <1>5, <2>1
  <2>3. p + 1 \in 0 .. l /\ p + 1 <= l /\ 1 \in 1 .. l - p /\ p + 1 \in Nat /\ l - (p + 1) \in Nat
        /\ (p + 1) + (l - (p + 1)) <= l /\ l - (p + 1) = (l - p) - 1
    BY <1>1, <2>2
  <2>4. Head(t) = s[p + 1]
    BY <1>2, <1>5, <2>1, <2>3
  <2>5. /\ HasLength(Piece(s, p + 1, l - (p + 1)), l - (p + 1))
        /\ \A i \in 1 .. l - (p + 1) : Piece(s, p + 1, l - (p + 1))[i] = s[(p + 1) + i]
    BY <2>3, PieceFacts
  <2>6. /\ Tail(t) \in Seq(S) /\ Len(Tail(t)) = (l - p) - 1
        /\ \A i \in 1 .. (l - p) - 1 : Tail(t)[i] = t[i + 1]
    BY <1>3, <1>5, <2>1, HeadTailProperties
  <2>7. HasLength(Tail(t), l - (p + 1))
    BY <2>3, <2>6, LengthMakes
  <2>8. \A i \in 1 .. l - (p + 1) : Tail(t)[i] = s[(p + 1) + i]
    <3>. TAKE i \in 1 .. l - (p + 1)
    <3>1. i \in 1 .. (l - p) - 1 /\ i + 1 \in 1 .. l - p /\ p + (i + 1) = (p + 1) + i
      BY <1>1, <2>3
    <3>. QED  BY <1>2, <2>6, <3>1
  <2>9. Tail(t) = Piece(s, p + 1, l - (p + 1))
    BY <2>5, <2>7, <2>8, LengthSame
  <2>. QED  BY <2>3, <2>4, <2>9
<1>. QED  BY <1>1, <1>4, <1>5

\* A data part with nothing but the time
LEMMA CarriesNone ==
  ASSUME NEW q, Good(q), NEW data \in EncodeUint(q.time, TimestampGroups)
  PROVE  \E at : Carries(data, q, 0, at) /\ AreGroups(data, at[Len(Kept(q, 0))])
<1>. DEFINE at == [i \in 0 .. 0 |-> TimestampGroups]
            ks == Kept(q, 0)
<1>1. Len(ks) = 0
  BY KeptNone
<1>2. TimestampGroups \in Nat /\ TimestampGroups * GroupBits < WordBits
  BY LengthWidths
<1>3. AreGroups(data, TimestampGroups) /\ DecodeUint(data) = q.time
  BY <1>2, ListedFacts, EncodeUintFacts
<1>4. Piece(data, 0, TimestampGroups) = data
  BY <1>3, PieceFacts DEF AreGroups, AreDigits
<1>5. at \in [0 .. 0 -> Nat] /\ at[0] = TimestampGroups
  BY <1>2
<1>. HIDE DEF at, ks
<1>6. \A i : i \notin 1 .. 0 /\ i \notin 0 .. 0 - 1
  OBVIOUS
<1>7. Carries(data, q, 0, at)
  BY <1>1, <1>3, <1>4, <1>5, <1>6 DEF Carries, ks
<1>8. AreGroups(data, at[Len(ks)])
  BY <1>1, <1>3, <1>5
<1>. QED  BY <1>7, <1>8 DEF ks

\* A field that is not written
LEMMA CarriesSkip ==
  ASSUME NEW q, Good(q), NEW p \in Nat, p + 1 <= Len(q.listed), q.listed[p + 1] \in Kinds,
         q.field[q.listed[p + 1]] = Absent, NEW data, NEW at, Carries(data, q, p, at)
  PROVE  Carries(data, q, p + 1, at) /\ Kept(q, p + 1) = Kept(q, p)
<1>1. Kept(q, p + 1) = Kept(q, p)
  BY KeptSkips
<1>2. \A i \in 1 .. p + 1 : i \in 1 .. p \/ i = p + 1
  OBVIOUS
<1>3. \A i \in 1 .. p : q.listed[i] \in Kinds
  BY DEF Carries
<1>4. \A i \in 1 .. p + 1 : q.listed[i] \in Kinds
  BY <1>2, <1>3
<1>. QED  BY <1>1, <1>4 DEF Carries

\* The signature
LEMMA HoldsSigned ==
  ASSUME NEW q, Good(q), NEW data, NEW at, Carries(data, q, Len(q.listed), at),
         AreGroups(data, at[Len(Kept(q, Len(q.listed)))]),
         NEW sig \in Signatures, NEW u, Joins(u, data, sig)
  PROVE  Holds(u, q, at)
<1>. DEFINE m == at[Len(Kept(q, Len(q.listed)))]
<1>1. sig \in Seq(Groups) /\ Len(sig) = SignatureGroups
  BY GroupsAssumption
<1>2. AreGroups(sig, SignatureGroups)
  BY <1>1, GroupsAre
<1>3. HasLength(sig, SignatureGroups)
  BY <1>2 DEF AreGroups, AreDigits
<1>4. Len(q.listed) \in 0 .. Len(q.listed)
  BY ListedFacts
<1>5. Carries(u, q, Len(q.listed), at)
  BY <1>3, <1>4, CarriesBefore
<1>. HIDE DEF m
<1>6. AreGroups(u, m + SignatureGroups)
  BY <1>2, ConcatDigits, WordFacts DEF AreGroups, m
<1>. QED  BY <1>5, <1>6 DEF Holds, m

\* Listing a field
LEMMA ListFacts ==
  ASSUME NEW q, Good(q), NEW k \in Kinds \cup {"?"}
  PROVE  /\ Good(List(q, k)) /\ List(q, k).field = q.field /\ List(q, k).network = q.network
         /\ List(q, k).time = q.time
         /\ \E i \in DOMAIN List(q, k).listed : List(q, k).listed[i] = k
         /\ (\A i \in 1 .. Len(q.listed) : q.listed[i] # k) => List(q, k).listed = Append(q.listed, k)
<1>. DEFINE X == Kinds \cup {"?"}
            s == q.listed
            S == {i \in DOMAIN s : s[i] # k}
            others == Subsequence(s, S)
            r == List(q, k)
            t == Append(others, k)
<1>1. /\ s \in Seq(X) /\ Len(s) \in Nat /\ DOMAIN s = 1 .. Len(s) /\ HasLength(s, Len(s))
      /\ \A i, j \in 1 .. Len(s) : s[i] = s[j] => i = j
  BY ListedFacts
<1>2. S \in SUBSET (1 .. Len(s)) /\ S \in SUBSET Nat
  BY <1>1
<1>3. /\ IsFiniteSet(S) /\ others \in Seq(X) /\ Len(others) = Cardinality(S) /\ Cardinality(S) \in Nat
  <2>. HIDE DEF S, X
  <2>. QED  BY <1>1, <1>2, SubsequenceSeq
<1>. DEFINE n == Cardinality(S)
<1>4. PICK f : Places(S, n, f) /\ others = Along(s, n, f)
  <2>. HIDE DEF S
  <2>. QED  BY <1>2, <1>3, SubsequencePlaces
<1>5. /\ f \in [1 .. n -> S] /\ n \in Nat
      /\ \A i, l \in 1 .. n : i < l => f[i] < f[l]
      /\ \A j \in S : \E l \in 1 .. n : f[l] = j
  BY <1>4 DEF Places
<1>. HIDE DEF n
<1>6. \A i \in 1 .. n : others[i] = s[f[i]] /\ f[i] \in S
  BY <1>4, <1>5 DEF Along
<1>7. \A i \in S : i \in 1 .. Len(s) /\ s[i] # k
  BY <1>2
<1>8. \A i \in 1 .. Len(s) : s[i] # k => i \in S
  BY <1>1
<1>. HIDE DEF S, others, X
<1>9. \A i \in 1 .. n : others[i] # k
  BY <1>6, <1>7
<1>10. ASSUME NEW i \in 1 .. n, NEW l \in 1 .. n, others[i] = others[l] PROVE i = l
  <2>1. f[i] \in 1 .. Len(s) /\ f[l] \in 1 .. Len(s) /\ s[f[i]] = s[f[l]]
    BY <1>6, <1>7, <1>10
  <2>2. f[i] = f[l] /\ f[i] \in Nat
    BY <1>1, <2>1
  <2>. QED  BY <1>5, <2>2
<1>11. /\ t \in Seq(X) /\ Len(t) = n + 1 /\ t[n + 1] = k /\ \A i \in 1 .. n : t[i] = others[i]
  <2>1. others \in Seq(X) /\ k \in X /\ Len(others) = n
    BY <1>3 DEF X, n
  <2>. QED  BY <2>1, AppendProperties
<1>12. DOMAIN t = 1 .. n + 1
  BY <1>11, LenProperties
<1>13. ASSUME NEW i \in 1 .. n + 1, NEW l \in 1 .. n + 1, t[i] = t[l] PROVE i = l
  <2>1. (i \in 1 .. n \/ i = n + 1) /\ (l \in 1 .. n \/ l = n + 1)
    BY <1>5
  <2>. HIDE DEF t
  <2>. QED  BY <1>9, <1>10, <1>11, <1>13, <2>1
<1>14. n + 1 \in 1 .. n + 1
  BY <1>5
<1>15. /\ q = [network |-> q.network, time |-> q.time, listed |-> q.listed,
               field |-> [l \in Kinds |-> q.field[l]]]
       /\ RequestTypeOK(q)
       /\ \A l \in Kinds :
            /\ Stored(l, q.field[l]) = q.field[l]
            /\ q.field[l] # Absent => \E i \in DOMAIN q.listed : q.listed[i] = l
  BY DEF Good
<1>16. r = [q EXCEPT !.listed = t]
  BY DEF List, others, S
<1>. HIDE DEF t
<1>17. /\ r = [network |-> q.network, time |-> q.time, listed |-> t, field |-> [l \in Kinds |-> q.field[l]]]
       /\ r.field = [l \in Kinds |-> q.field[l]] /\ q.field = [l \in Kinds |-> q.field[l]]
       /\ r.listed = t /\ r.network = q.network /\ r.time = q.time
  <2>. DEFINE N == q.network  T == q.time  F == [l \in Kinds |-> q.field[l]]
  <2>1. q = [network |-> N, time |-> T, listed |-> q.listed, field |-> F]
    BY <1>15
  <2>2. q.field = F
    BY <2>1
  <2>. HIDE DEF N, T, F
  <2>3. r = [network |-> N, time |-> T, listed |-> t, field |-> F]
    BY <1>16, <2>1
  <2>. QED  BY <2>2, <2>3 DEF N, T, F
<1>. HIDE DEF r
<1>18. ASSUME NEW l \in Kinds, r.field[l] # Absent PROVE \E i \in DOMAIN r.listed : r.listed[i] = l
  <2>1. CASE l = k
    BY <1>11, <1>12, <1>14, <1>17, <2>1
  <2>2. CASE l # k
    <3>1. PICK i \in 1 .. Len(s) : s[i] = l
      BY <1>1, <1>15, <1>17, <1>18
    <3>2. PICK j \in 1 .. n : f[j] = i
      BY <1>5, <1>8, <2>2, <3>1
    <3>3. t[j] = l /\ j \in 1 .. n + 1
      BY <1>5, <1>6, <1>11, <3>1, <3>2
    <3>. QED  BY <1>12, <1>17, <3>3
  <2>. QED  BY <2>1, <2>2
<1>19. RequestTypeOK(r)
  BY <1>11, <1>15, <1>17 DEF RequestTypeOK, X
<1>20. Good(r)
  <2>1. r = [network |-> r.network, time |-> r.time, listed |-> r.listed,
             field |-> [l \in Kinds |-> r.field[l]]]
    BY <1>17
  <2>2. \A l \in Kinds : Stored(l, r.field[l]) = r.field[l]
    BY <1>15, <1>17
  <2>3. \A i, j \in DOMAIN r.listed : r.listed[i] = r.listed[j] => i = j
    BY <1>12, <1>13, <1>17
  <2>. QED  BY <1>18, <1>19, <2>1, <2>2, <2>3 DEF Good
<1>21. ASSUME \A i \in 1 .. Len(s) : s[i] # k PROVE t = Append(s, k)
  <2>1. S = 1 .. Len(s)
    BY <1>2, <1>8, <1>21
  <2>2. others = [i \in 1 .. Len(s) |-> s[i]]
    BY <1>1, <2>1, SubsequenceFirst DEF others
  <2>3. others = s
    BY <1>1, <2>2 DEF HasLength
  <2>. QED  BY <2>3 DEF t
<1>22. r.listed[n + 1] = k /\ n + 1 \in DOMAIN r.listed
  BY <1>11, <1>12, <1>14, <1>17
<1>. QED  BY <1>17, <1>20, <1>21, <1>22 DEF r

\* What List and a value that was read make of a request
LEMMA ReadGood ==
  ASSUME NEW q, Good(q), NEW k \in Kinds, NEW v, FieldTypeOK(k, Stored(k, v))
  PROVE  LET r == [List(q, k) EXCEPT !.field[k] = Stored(k, v)]
         IN  /\ Good(r) /\ r.field[k] = Stored(k, v) /\ r.listed = List(q, k).listed
             /\ \A l \in Kinds : l # k => r.field[l] = q.field[l]
             /\ r.network = q.network /\ r.time = q.time
<1>. DEFINE p == List(q, k)
            w == Stored(k, v)
            r == [p EXCEPT !.field[k] = w]
            F == [l \in Kinds |-> p.field[l]]
            G == [F EXCEPT ![k] = w]
<1>1. /\ Good(p) /\ p.field = q.field /\ p.network = q.network /\ p.time = q.time
      /\ \E i \in DOMAIN p.listed : p.listed[i] = k
  BY ListFacts
<1>2. /\ p = [network |-> p.network, time |-> p.time, listed |-> p.listed, field |-> F]
      /\ RequestTypeOK(p)
      /\ \A l \in Kinds :
           /\ Stored(l, p.field[l]) = p.field[l]
           /\ p.field[l] # Absent => \E i \in DOMAIN p.listed : p.listed[i] = l
      /\ \A i, j \in DOMAIN p.listed : p.listed[i] = p.listed[j] => i = j
  BY <1>1 DEF Good
<1>. HIDE DEF p, w
<1>3. G[k] = w /\ (\A l \in Kinds : l # k => G[l] = p.field[l]) /\ G = [l \in Kinds |-> G[l]]
  OBVIOUS
<1>4. p.field = F
  BY <1>2
<1>5. r = [p EXCEPT !.field = G]
  BY <1>4
<1>. HIDE DEF F, G
<1>6. r = [network |-> p.network, time |-> p.time, listed |-> p.listed, field |-> G]
  <2>. DEFINE N == p.network  T == p.time  L == p.listed
  <2>1. p = [network |-> N, time |-> T, listed |-> L, field |-> F]
    BY <1>2
  <2>. HIDE DEF N, T, L, r
  <2>2. r = [network |-> N, time |-> T, listed |-> L, field |-> G]
    BY <1>5, <2>1
  <2>. QED  BY <2>2 DEF N, T, L
<1>. HIDE DEF r
<1>7. r.field = G /\ r.network = p.network /\ r.time = p.time /\ r.listed = p.listed
  BY <1>6
<1>8. Stored(k, w) = w
  BY StoredTwice DEF w
<1>9. Good(r)
  <2>1. r = [network |-> r.network, time |-> r.time, listed |-> r.listed,
             field |-> [l \in Kinds |-> r.field[l]]]
    BY <1>3, <1>6, <1>7
  <2>2. \A l \in Kinds : FieldTypeOK(l, r.field[l])
    BY <1>2, <1>3, <1>7 DEF RequestTypeOK, w
  <2>3. RequestTypeOK(r)
    BY <1>2, <1>7, <2>2 DEF RequestTypeOK
  <2>4. \A l \in Kinds : Stored(l, r.field[l]) = r.field[l]
    BY <1>2, <1>3, <1>7, <1>8
  <2>5. \A l \in Kinds : r.field[l] # Absent => \E i \in DOMAIN r.listed : r.listed[i] = l
    BY <1>1, <1>2, <1>3, <1>7
  <2>. QED  BY <1>2, <1>7, <2>1, <2>3, <2>4, <2>5 DEF Good
<1>. QED  BY <1>1, <1>3, <1>7, <1>9 DEF r, p, w

-----------------------------------------------------------------------------
(* The inductive invariant *)

Typed ==
  /\ stage \in Stages /\ author \in {"lnpilot", "other"} /\ rounds \in 0 .. MaxRounds
  /\ Good(request)
  /\ invoice = [prefix |-> invoice.prefix, data |-> invoice.data] /\ invoice.data \in Seq(Groups)
  /\ rest \in Seq(Groups)
  /\ todo \in Seq(Kinds \cup {"?"})
  /\ stage \in {"held", "writing", "reading"} => request.network \in Networks

\* What was read of another's invoice can be written.
Rewritable ==
  author = "other" /\ stage \in {"held", "writing", "reading"} =>
    /\ request.time < TwoTo[TimestampGroups * GroupBits]
    /\ \A k \in Kinds : \/ request.field[k] = Absent \/ Writable(k, request.field[k])
                        \/ k = "f" /\ OddProgram(request.field[k])

\* An invoice of this package has a payment hash and was written.
Own ==
  author = "lnpilot" =>
    /\ stage \in {"written", "reading", "unreadable"} => rounds > 0
    /\ stage \in {"held", "writing"} => request.field["h"] # Absent

Origin ==
  rounds > 0 =>
    /\ Good(origin) /\ origin.network \in Networks
    /\ author = "lnpilot" => origin.field["h"] # Absent

\* data carries the first p fields of q, and left are the others.
Reached(q, data, left, p, at) ==
  /\ left = Piece(q.listed, p, Len(q.listed) - p)
  /\ Carries(data, q, p, at) /\ AreGroups(data, at[Len(Kept(q, p))])

\* While an invoice is written, the data part has what was taken off todo.
Writing ==
  stage = "writing" =>
    /\ rounds > 0 /\ origin = request /\ invoice.prefix = Prefix[origin.network]
    /\ \E p \in 0 .. Len(origin.listed) : \E at : Reached(origin, invoice.data, todo, p, at)

Written ==
  stage \in {"written", "reading"} /\ rounds > 0 =>
    /\ invoice.prefix = Prefix[origin.network]
    /\ \E at : Holds(invoice.data, origin, at)

\* While an invoice is read, a number of whole frames was read and the others
\* are left.
Reading ==
  stage = "reading" /\ rounds > 0 =>
    \E at : LET n == Len(Kept(origin, Len(origin.listed)))
            IN  /\ Holds(invoice.data, origin, at)
                /\ \E j \in 0 .. n : /\ rest = Piece(invoice.data, at[j], at[n] - at[j])
                                     /\ Copied(origin, request, j)

IInv ==
  /\ Typed /\ Rewritable /\ Own /\ Origin /\ Writing /\ Written /\ Reading
  /\ ValuesSurvive /\ OwnIsAccepted /\ ReadCanBeWritten

-----------------------------------------------------------------------------
(* Initially *)

\* The request a reader begins with
LEMMA EmptyGood == Good(Empty)
<1>1. \A k \in Kinds : Stored(k, Absent) = Absent /\ FieldTypeOK(k, Absent)
  BY DEF Stored, FieldTypeOK
<1>2. Empty.field = [k \in Kinds |-> Absent] /\ Empty.listed = << >> /\ Empty.network = "" /\ Empty.time = 0
  BY DEF Empty
<1>3. << >> \in Seq(Kinds \cup {"?"}) /\ DOMAIN << >> = {}
  OBVIOUS
<1>4. RequestTypeOK(Empty)
  <2>. HIDE DEF Empty
  <2>1. 0 \in Nat /\ "" \in Networks \cup {""}
    OBVIOUS
  <2>2. \A k \in Kinds : FieldTypeOK(k, Empty.field[k])
    BY <1>1, <1>2
  <2>. QED  BY <1>2, <1>3, <2>1, <2>2 DEF RequestTypeOK
<1>5. Empty = [network |-> Empty.network, time |-> Empty.time, listed |-> Empty.listed,
               field |-> [k \in Kinds |-> Empty.field[k]]]
  <2>1. [k \in Kinds |-> Empty.field[k]] = [k \in Kinds |-> Absent]
    BY <1>2
  <2>. QED  BY <1>2, <2>1 DEF Empty
<1>. QED  BY <1>1, <1>2, <1>3, <1>4, <1>5 DEF Good

\* The inductive invariant holds initially.
LEMMA InitInv == Init => IInv
<1>. SUFFICES ASSUME Init PROVE IInv
  OBVIOUS
<1>1. /\ todo = << >> /\ rest = << >> /\ rounds = 0 /\ MaxRounds \in Nat
      /\ << >> \in Seq(Groups) /\ << >> \in Seq(Kinds \cup {"?"}) /\ rounds \in 0 .. MaxRounds /\ ~(rounds > 0)
  BY RequestsAssumption DEF Init
<1>2. Writing /\ Written /\ Reading /\ Origin /\ ValuesSurvive
  <2>1. stage # "writing"
    BY DEF Init
  <2>. QED  BY <1>1, <2>1 DEF Writing, Written, Reading, Origin, ValuesSurvive
<1>3. CASE /\ author = "lnpilot" /\ stage = "held" /\ request \in OwnRequests /\ invoice = Blank
  <2>1. OwnRequest(request)
    BY <1>3, RequestsAssumption
  <2>2. Good(request) /\ request.network \in Networks /\ request.field["h"] # Absent
    BY <2>1 DEF OwnRequest, Good
  <2>3. invoice = [prefix |-> invoice.prefix, data |-> invoice.data] /\ invoice.data \in Seq(Groups)
    BY <1>1, <1>3 DEF Blank
  <2>4. Typed
    BY <1>1, <1>3, <2>2, <2>3 DEF Typed, Stages
  <2>5. Rewritable /\ Own /\ OwnIsAccepted /\ ReadCanBeWritten
    BY <1>3, <2>2 DEF Rewritable, Own, OwnIsAccepted, ReadCanBeWritten
  <2>. QED  BY <1>2, <2>4, <2>5 DEF IInv
<1>4. CASE /\ author = "other" /\ stage = "written" /\ request = Empty /\ invoice \in OtherParts
  <2>1. invoice \in [prefix : STRING, data : Seq(Groups)]
    BY <1>4, RequestsAssumption
  <2>2. invoice = [prefix |-> invoice.prefix, data |-> invoice.data] /\ invoice.data \in Seq(Groups)
    BY <2>1
  <2>3. Good(request)
    BY <1>4, EmptyGood
  <2>4. Typed
    BY <1>1, <1>4, <2>2, <2>3 DEF Typed, Stages
  <2>5. Rewritable /\ Own /\ OwnIsAccepted /\ ReadCanBeWritten
    BY <1>4 DEF Rewritable, Own, OwnIsAccepted, ReadCanBeWritten
  <2>. QED  BY <1>2, <2>4, <2>5 DEF IInv
<1>. QED  BY <1>3, <1>4 DEF Init

-----------------------------------------------------------------------------
(* Steps of EncodeBech32 *)

\* The timestamp is all there is.
LEMMA BeginKeeps == ASSUME IInv, Begin PROVE IInv'
<1>1. /\ stage = "held" /\ rounds < MaxRounds
      /\ stage' = "writing" /\ todo' = request.listed /\ origin' = request /\ rounds' = rounds + 1
      /\ author' = author /\ request' = request /\ rest' = rest
  BY DEF Begin
<1>2. PICK data \in EncodeUint(request.time, TimestampGroups) :
        invoice' = [prefix |-> Prefix[request.network], data |-> data]
  BY DEF Begin
<1>3. Typed /\ Rewritable /\ Own
  BY DEF IInv
<1>4. Good(request) /\ request.network \in Networks /\ rounds \in 0 .. MaxRounds
  BY <1>1, <1>3 DEF Typed
<1>5. PICK at : Carries(data, request, 0, at) /\ AreGroups(data, at[Len(Kept(request, 0))])
  BY <1>4, CarriesNone
<1>6. /\ request.listed \in Seq(Kinds \cup {"?"}) /\ Len(request.listed) \in Nat
      /\ HasLength(request.listed, Len(request.listed))
  BY <1>4, ListedFacts
<1>7. /\ 0 \in 0 .. Len(request.listed) /\ Len(request.listed) - 0 = Len(request.listed)
      /\ Piece(request.listed, 0, Len(request.listed)) = request.listed
  BY <1>6, PieceFacts
<1>8. rounds' > 0 /\ rounds' \in 0 .. MaxRounds
  BY <1>1, <1>4, RequestsAssumption
<1>9. data \in Seq(Groups)
  BY <1>5, GroupsAre
<1>10. Typed'
  BY <1>1, <1>2, <1>3, <1>4, <1>6, <1>8, <1>9 DEF Typed, Stages
<1>11. Rewritable' /\ Own'
  BY <1>1, <1>3 DEF Rewritable, Own
<1>12. Origin'
  BY <1>1, <1>3, <1>4 DEF Origin, Own
<1>13. Writing'
  <2>1. invoice'.data = data /\ invoice'.prefix = Prefix[request.network]
    BY <1>2
  <2>2. Reached(request, invoice'.data, todo', 0, at)
    BY <1>1, <1>5, <1>7, <2>1 DEF Reached
  <2>3. \E p \in 0 .. Len(request.listed) : \E to : Reached(request, invoice'.data, todo', p, to)
    BY <1>7, <2>2
  <2>. QED  BY <1>1, <1>8, <2>1, <2>3 DEF Writing
<1>14. Written' /\ Reading' /\ ValuesSurvive' /\ OwnIsAccepted' /\ ReadCanBeWritten'
  BY <1>1 DEF Written, Reading, ValuesSurvive, OwnIsAccepted, ReadCanBeWritten
<1>. QED  BY <1>10, <1>11, <1>12, <1>13, <1>14 DEF IInv

\* A time that was read can be written.
LEMMA TimeTooLateKeeps == ASSUME IInv, TimeTooLate PROVE IInv'
<1>1. /\ stage = "held" /\ EncodeUint(request.time, TimestampGroups) = {} /\ stage' = "unwritable"
      /\ author' = author /\ request' = request /\ rest' = rest /\ invoice' = invoice
      /\ todo' = todo /\ origin' = origin /\ rounds' = rounds
  BY DEF TimeTooLate
<1>2. Typed /\ Rewritable /\ Own /\ Origin
  BY DEF IInv
<1>3. author # "other"
  <2>1. request.time \in Nat
    BY <1>2, ListedFacts DEF Typed
  <2>2. ~(request.time < TwoTo[TimestampGroups * GroupBits])
    BY <1>1, <2>1, EncodeUintFacts, LengthWidths
  <2>. QED  BY <1>1, <1>2, <2>2 DEF Rewritable
<1>4. Typed' /\ Rewritable' /\ Own' /\ Origin'
  BY <1>1, <1>2 DEF Typed, Rewritable, Own, Origin, Stages
<1>5. /\ Writing' /\ Written' /\ Reading' /\ ValuesSurvive' /\ OwnIsAccepted'
      /\ ReadCanBeWritten'
  BY <1>1, <1>3 DEF Writing, Written, Reading, ValuesSurvive, OwnIsAccepted, ReadCanBeWritten
<1>. QED  BY <1>4, <1>5 DEF IInv

\* A field that is absent leaves no frame.
LEMMA SkipFieldKeeps == ASSUME IInv, SkipField PROVE IInv'
<1>1. /\ stage = "writing" /\ todo # << >> /\ Head(todo) \in Kinds
      /\ request.field[Head(todo)] = Absent /\ todo' = Tail(todo) /\ stage' = stage
      /\ author' = author /\ request' = request /\ rest' = rest /\ invoice' = invoice
      /\ origin' = origin /\ rounds' = rounds
  BY DEF SkipField
<1>2. Typed /\ Rewritable /\ Own /\ Origin /\ Writing
  BY DEF IInv
<1>3. /\ rounds > 0 /\ origin = request /\ invoice.prefix = Prefix[origin.network] /\ Good(origin)
  BY <1>1, <1>2 DEF Writing, Typed
<1>4a. PICK p \in 0 .. Len(origin.listed) : \E at : Reached(origin, invoice.data, todo, p, at)
  BY <1>1, <1>2 DEF Writing
<1>4b. PICK at : Reached(origin, invoice.data, todo, p, at)
  BY <1>4a
<1>4. /\ todo = Piece(origin.listed, p, Len(origin.listed) - p)
      /\ Carries(invoice.data, origin, p, at)
      /\ AreGroups(invoice.data, at[Len(Kept(origin, p))])
  BY <1>4b DEF Reached
<1>5. HasLength(origin.listed, Len(origin.listed))
  BY <1>3, ListedFacts
<1>6. /\ p + 1 \in 0 .. Len(origin.listed) /\ p \in Nat /\ p + 1 <= Len(origin.listed)
      /\ Head(todo) = origin.listed[p + 1]
      /\ Tail(todo) = Piece(origin.listed, p + 1, Len(origin.listed) - (p + 1))
  <2>. DEFINE s == origin.listed
              l == Len(s)
  <2>1. HasLength(s, l) /\ p \in 0 .. l /\ todo = Piece(s, p, l - p)
    BY <1>4, <1>5
  <2>. HIDE DEF s, l
  <2>2. /\ p + 1 \in 0 .. l /\ p \in Nat /\ p + 1 <= l
        /\ Head(todo) = s[p + 1] /\ Tail(todo) = Piece(s, p + 1, l - (p + 1))
    BY <1>1, <2>1, Remaining
  <2>. QED  BY <2>2 DEF s, l
<1>7. Carries(invoice.data, origin, p + 1, at) /\ Kept(origin, p + 1) = Kept(origin, p)
  BY <1>1, <1>3, <1>4, <1>6, CarriesSkip
<1>8. Writing'
  <2>1. Reached(origin, invoice.data, todo', p + 1, at)
    BY <1>1, <1>4, <1>6, <1>7 DEF Reached
  <2>2. \E i \in 0 .. Len(origin.listed) : \E to : Reached(origin, invoice.data, todo', i, to)
    BY <1>6, <2>1
  <2>. QED  BY <1>1, <1>3, <2>2 DEF Writing
<1>9. Typed'
  <2>1. Tail(todo) \in Seq(Kinds \cup {"?"})
    BY <1>1, <1>2, HeadTailProperties DEF Typed
  <2>. QED  BY <1>1, <1>2, <2>1 DEF Typed
<1>10. Rewritable' /\ Own' /\ Origin'
  BY <1>1, <1>2 DEF Rewritable, Own, Origin
<1>11. Written' /\ Reading' /\ ValuesSurvive' /\ OwnIsAccepted' /\ ReadCanBeWritten'
  BY <1>1 DEF Written, Reading, ValuesSurvive, OwnIsAccepted, ReadCanBeWritten
<1>. QED  BY <1>8, <1>9, <1>10, <1>11 DEF IInv

\* One more frame is behind the others.
LEMMA WriteFieldKeeps == ASSUME IInv, WriteField PROVE IInv'
<1>1. /\ stage = "writing" /\ todo # << >> /\ Present(Head(todo))
      /\ todo' = Tail(todo) /\ stage' = stage
      /\ author' = author /\ request' = request /\ rest' = rest
      /\ origin' = origin /\ rounds' = rounds
  BY DEF WriteField
<1>2. Typed /\ Rewritable /\ Own /\ Origin /\ Writing
  BY DEF IInv
<1>3. /\ rounds > 0 /\ origin = request /\ invoice.prefix = Prefix[origin.network] /\ Good(origin)
  BY <1>1, <1>2 DEF Writing, Typed
<1>4a. PICK p \in 0 .. Len(origin.listed) : \E at : Reached(origin, invoice.data, todo, p, at)
  BY <1>1, <1>2 DEF Writing
<1>4b. PICK at : Reached(origin, invoice.data, todo, p, at)
  BY <1>4a
<1>4. /\ todo = Piece(origin.listed, p, Len(origin.listed) - p)
      /\ Carries(invoice.data, origin, p, at)
      /\ AreGroups(invoice.data, at[Len(Kept(origin, p))])
  BY <1>4b DEF Reached
<1>5. HasLength(origin.listed, Len(origin.listed))
  BY <1>3, ListedFacts
<1>6. /\ p + 1 \in 0 .. Len(origin.listed) /\ p \in Nat /\ p + 1 <= Len(origin.listed)
      /\ Head(todo) = origin.listed[p + 1]
      /\ Tail(todo) = Piece(origin.listed, p + 1, Len(origin.listed) - (p + 1))
  <2>. DEFINE s == origin.listed
              l == Len(s)
  <2>1. HasLength(s, l) /\ p \in 0 .. l /\ todo = Piece(s, p, l - p)
    BY <1>4, <1>5
  <2>. HIDE DEF s, l
  <2>2. /\ p + 1 \in 0 .. l /\ p \in Nat /\ p + 1 <= l
        /\ Head(todo) = s[p + 1] /\ Tail(todo) = Piece(s, p + 1, l - (p + 1))
    BY <1>1, <2>1, Remaining
  <2>. QED  BY <2>2 DEF s, l
<1>. DEFINE k == Head(todo)
<1>7. PICK f \in Frames(k) : invoice' = [invoice EXCEPT !.data = @ \o f]
  BY DEF WriteField
<1>8. k \in Kinds
  BY <1>7 DEF Frames
<1>9. PICK d \in EncodeBolt11(k, origin.field[k]) : f \in Frame(k, d)
  BY <1>3, <1>7, <1>8 DEF Frames
<1>10. origin.field[k] # Absent /\ FieldTypeOK(k, origin.field[k])
  <2>1. request.field[k] # Absent
    BY <1>1, <1>8 DEF Present
  <2>. QED  BY <1>3, <1>8, <2>1, ListedFacts
<1>. HIDE DEF k
<1>11. PICK n \in Nat : AreGroups(d, n)
  <2>1. "mainnet" \in Networks
    BY DEF Networks
  <2>. QED  BY <1>8, <1>9, <1>10, <2>1, WrittenValue
<1>12. IsFrame(f, k, d)
  BY <1>8, <1>9, <1>11, FrameFacts
<1>13. invoice = [prefix |-> invoice.prefix, data |-> invoice.data]
  BY <1>2 DEF Typed
<1>. DEFINE u == invoice.data \o f
<1>14. invoice' = [prefix |-> invoice.prefix, data |-> u]
  <2>. DEFINE a == invoice.prefix  b == invoice.data
  <2>1. invoice = [prefix |-> a, data |-> b] /\ invoice' = [invoice EXCEPT !.data = b \o f]
    BY <1>7, <1>13
  <2>. HIDE DEF a, b
  <2>2. invoice' = [prefix |-> a, data |-> b \o f]
    BY <2>1
  <2>. QED  BY <2>2 DEF a, b
<1>15. Joins(u, invoice.data, f)
  BY DEF Joins
<1>. HIDE DEF u
<1>16. PICK to : Carries(u, origin, p + 1, to) /\ AreGroups(u, to[Len(Kept(origin, p + 1))])
  BY <1>3, <1>4, <1>6, <1>8, <1>9, <1>10, <1>12, <1>15, CarriesMore DEF k
<1>17. Writing'
  <2>1. invoice'.data = u /\ invoice'.prefix = invoice.prefix
    BY <1>14
  <2>2. Reached(origin, u, todo', p + 1, to)
    BY <1>1, <1>6, <1>16 DEF Reached
  <2>3. \E i \in 0 .. Len(origin.listed) : \E t : Reached(origin, u, todo', i, t)
    BY <1>6, <2>2
  <2>. QED  BY <1>1, <1>3, <2>1, <2>3 DEF Writing
<1>18. Typed'
  <2>1. Tail(todo) \in Seq(Kinds \cup {"?"})
    BY <1>1, <1>2, HeadTailProperties DEF Typed
  <2>2. u \in Seq(Groups)
    BY <1>16, GroupsAre
  <2>. QED  BY <1>1, <1>2, <1>14, <2>1, <2>2 DEF Typed
<1>19. Rewritable' /\ Own' /\ Origin'
  BY <1>1, <1>2 DEF Rewritable, Own, Origin
<1>20. Written' /\ Reading' /\ ValuesSurvive' /\ OwnIsAccepted' /\ ReadCanBeWritten'
  BY <1>1 DEF Written, Reading, ValuesSurvive, OwnIsAccepted, ReadCanBeWritten
<1>. QED  BY <1>17, <1>18, <1>19, <1>20 DEF IInv

\* What was read can be written, but for the exceptions.
LEMMA WriteFailsKeeps == ASSUME IInv, WriteFails PROVE IInv'
<1>1. /\ stage = "writing" /\ todo # << >> /\ Present(Head(todo)) /\ Frames(Head(todo)) = {}
      /\ stage' = "unwritable" /\ todo' = todo
      /\ author' = author /\ request' = request /\ rest' = rest /\ invoice' = invoice
      /\ origin' = origin /\ rounds' = rounds
  BY DEF WriteFails
<1>2. Typed /\ Rewritable /\ Own /\ Origin
  BY DEF IInv
<1>. DEFINE k == Head(todo)
            v == request.field[k]
<1>3. k \in Kinds \cup {"?"}
  BY <1>1, <1>2, HeadTailProperties DEF Typed
<1>4. ASSUME author = "other", k # "?" PROVE k = "f" /\ OddProgram(request.field["f"])
  <2>1. k \in Kinds /\ v # Absent
    BY <1>1, <1>3, <1>4 DEF Present
  <2>2. Writable(k, v) \/ (k = "f" /\ OddProgram(v))
    BY <1>1, <1>2, <1>4, <2>1 DEF Rewritable
  <2>3. ~Writable(k, v)
    <3>1. SUFFICES ASSUME Writable(k, v) PROVE FALSE
      OBVIOUS
    <3>. HIDE DEF k, v
    <3>2. PICK data \in EncodeBolt11(k, v), n \in 0 .. MaxGroups :
            AreGroups(data, n) /\ (k = "h" => n = HashGroups)
      BY <3>1 DEF Writable
    <3>3. Frame(k, data) # {}
      BY <2>1, <3>2, FrameExists
    <3>. QED  BY <1>1, <2>1, <3>2, <3>3 DEF Frames, k, v
  <2>. QED  BY <2>2, <2>3
<1>5. ReadCanBeWritten'
  BY <1>1, <1>4 DEF ReadCanBeWritten
<1>6. Typed' /\ Rewritable' /\ Own' /\ Origin'
  BY <1>1, <1>2 DEF Typed, Rewritable, Own, Origin, Stages
<1>7. /\ Writing' /\ Written' /\ Reading' /\ ValuesSurvive' /\ OwnIsAccepted'
  BY <1>1 DEF Writing, Written, Reading, ValuesSurvive, OwnIsAccepted
<1>. QED  BY <1>5, <1>6, <1>7 DEF IInv

\* All frames are in what is signed.
LEMMA SignKeeps == ASSUME IInv, Sign PROVE IInv'
<1>1. /\ stage = "writing" /\ todo = << >> /\ stage' = "written" /\ todo' = todo
      /\ author' = author /\ request' = request /\ rest' = rest
      /\ origin' = origin /\ rounds' = rounds
  BY DEF Sign
<1>2. Typed /\ Rewritable /\ Own /\ Origin /\ Writing
  BY DEF IInv
<1>3. /\ rounds > 0 /\ origin = request /\ invoice.prefix = Prefix[origin.network] /\ Good(origin)
  BY <1>1, <1>2 DEF Writing, Typed
<1>4a. PICK p \in 0 .. Len(origin.listed) : \E at : Reached(origin, invoice.data, todo, p, at)
  BY <1>1, <1>2 DEF Writing
<1>4b. PICK at : Reached(origin, invoice.data, todo, p, at)
  BY <1>4a
<1>4. /\ todo = Piece(origin.listed, p, Len(origin.listed) - p)
      /\ Carries(invoice.data, origin, p, at)
      /\ AreGroups(invoice.data, at[Len(Kept(origin, p))])
  BY <1>4b DEF Reached
<1>5. HasLength(origin.listed, Len(origin.listed))
  BY <1>3, ListedFacts
<1>6. p = Len(origin.listed)
  <2>. DEFINE s == origin.listed
              l == Len(s)
  <2>1. HasLength(s, l) /\ p \in 0 .. l /\ todo = Piece(s, p, l - p)
    BY <1>4, <1>5
  <2>. HIDE DEF s, l
  <2>2. p = l
    BY <1>1, <2>1, Remaining
  <2>. QED  BY <2>2 DEF s, l
<1>7. PICK sig \in Signatures : invoice' = [invoice EXCEPT !.data = @ \o sig]
  BY DEF Sign
<1>. DEFINE u == invoice.data \o sig
<1>8. Joins(u, invoice.data, sig)
  BY DEF Joins
<1>9. invoice' = [prefix |-> invoice.prefix, data |-> u]
  <2>. DEFINE a == invoice.prefix  b == invoice.data
  <2>1. invoice = [prefix |-> a, data |-> b] /\ invoice' = [invoice EXCEPT !.data = b \o sig]
    BY <1>2, <1>7 DEF Typed
  <2>. HIDE DEF a, b
  <2>2. invoice' = [prefix |-> a, data |-> b \o sig]
    BY <2>1
  <2>. QED  BY <2>2 DEF a, b
<1>. HIDE DEF u
<1>10. Holds(u, origin, at)
  BY <1>3, <1>4, <1>6, <1>8, HoldsSigned
<1>11. u \in Seq(Groups)
  BY <1>10, GroupsAre DEF Holds
<1>12. Typed' /\ Rewritable' /\ Own' /\ Origin'
  BY <1>1, <1>2, <1>3, <1>9, <1>11 DEF Typed, Rewritable, Own, Origin, Stages
<1>13. Written'
  <2>1. invoice'.data = u /\ invoice'.prefix = invoice.prefix
    BY <1>9
  <2>. QED  BY <1>1, <1>3, <1>10, <2>1 DEF Written
<1>14. Writing' /\ Reading' /\ ValuesSurvive' /\ OwnIsAccepted' /\ ReadCanBeWritten'
  BY <1>1 DEF Writing, Reading, ValuesSurvive, OwnIsAccepted, ReadCanBeWritten
<1>. QED  BY <1>12, <1>13, <1>14 DEF IInv

-----------------------------------------------------------------------------
(* Steps of DecodePaymentRequest *)

\* The places of the frames in what was signed
LEMMA HoldsFacts ==
  ASSUME NEW q, Good(q), NEW data, NEW at, Holds(data, q, at)
  PROVE  LET n == Len(Kept(q, Len(q.listed)))
         IN  /\ n \in Nat /\ at \in [0 .. n -> Nat] /\ at[0] = TimestampGroups
             /\ \A i \in 0 .. n : at[i] \in Nat /\ (i # n => at[i] < at[n])
             /\ AreGroups(data, at[n] + SignatureGroups) /\ Len(data) = at[n] + SignatureGroups
             /\ HasLength(data, at[n] + SignatureGroups)
             /\ DecodeUint(Piece(data, 0, TimestampGroups)) = q.time
<1>. DEFINE n == Len(Kept(q, Len(q.listed)))
<1>1. Len(q.listed) \in 0 .. Len(q.listed)
  BY ListedFacts
<1>2. n \in Nat
  BY <1>1, KeptFacts
<1>3. /\ at \in [0 .. n -> Nat] /\ at[0] = TimestampGroups /\ \A i \in 0 .. n - 1 : at[i] < at[n]
      /\ DecodeUint(Piece(data, 0, TimestampGroups)) = q.time
  BY DEF Holds, Carries
<1>4. AreGroups(data, at[n] + SignatureGroups)
  BY DEF Holds
<1>. HIDE DEF n
<1>5. Len(data) = at[n] + SignatureGroups
  BY <1>4, GroupsAre
<1>6. HasLength(data, at[n] + SignatureGroups)
  BY <1>4 DEF AreGroups, AreDigits
<1>7. \A i \in 0 .. n : at[i] \in Nat /\ (i # n => at[i] < at[n])
  <2>1. \A i \in 0 .. n : i # n => i \in 0 .. n - 1
    BY <1>2
  <2>. QED  BY <1>3, <2>1
<1>. QED  BY <1>2, <1>3, <1>4, <1>5, <1>6, <1>7 DEF n

\* There is a field if there is a payment hash.
LEMMA SomeKept ==
  ASSUME NEW q, Good(q), NEW k \in Kinds, q.field[k] # Absent
  PROVE  LET ks == Kept(q, Len(q.listed))
         IN  \E i \in 1 .. Len(ks) : ks[i] = k
<1>1. /\ Len(q.listed) \in 0 .. Len(q.listed) /\ DOMAIN q.listed = 1 .. Len(q.listed)
  BY ListedFacts
<1>2. PICK j \in 1 .. Len(q.listed) : q.listed[j] = k
  BY <1>1 DEF Good
<1>. QED  BY <1>1, <1>2, KeptFacts

\* The next frame that is read is the next that was written.
LEMMA NextFrame ==
  ASSUME Typed, Origin, Reading, stage = "reading", rounds > 0, rest # << >>
  PROVE  LET ks == Kept(origin, Len(origin.listed))
             n  == Len(ks)
         IN  \E at : \E j \in 0 .. n - 1 :
               /\ Holds(invoice.data, origin, at) /\ Copied(origin, request, j)
               /\ j + 1 \in 0 .. n /\ j + 1 \in 1 .. n /\ j \in Nat
               /\ ks[j + 1] \in Kinds /\ origin.field[ks[j + 1]] # Absent
               /\ request.field[ks[j + 1]] = Absent
               /\ \A i \in 1 .. j : ks[i] # ks[j + 1]
               /\ Len(request.listed) = j
               /\ \A i \in 1 .. Len(request.listed) : request.listed[i] # ks[j + 1]
               /\ Data \in EncodeBolt11(ks[j + 1], origin.field[ks[j + 1]])
               /\ Whole /\ KindOf(Head(rest)) = ks[j + 1]
               /\ SubSeq(rest, HeadLength + DataLength + 1, Len(rest)) =
                    Piece(invoice.data, at[j + 1], at[n] - at[j + 1])
<1>. DEFINE q == origin
            data == invoice.data
            ks == Kept(q, Len(q.listed))
            n == Len(ks)
<1>1. Good(q) /\ Good(request)
  BY DEF Typed, Origin
<1>2. PICK at : /\ Holds(data, q, at)
                /\ \E j \in 0 .. n : /\ rest = Piece(data, at[j], at[n] - at[j])
                                     /\ Copied(q, request, j)
  BY DEF Reading
<1>3. PICK j \in 0 .. n : rest = Piece(data, at[j], at[n] - at[j]) /\ Copied(q, request, j)
  BY <1>2
<1>4. /\ n \in Nat /\ at \in [0 .. n -> Nat]
      /\ \A i \in 0 .. n : at[i] \in Nat /\ (i # n => at[i] < at[n])
      /\ AreGroups(data, at[n] + SignatureGroups) /\ HasLength(data, at[n] + SignatureGroups)
  BY <1>1, <1>2, HoldsFacts
<1>. DEFINE L == at[n] + SignatureGroups
<1>5. SignatureGroups \in Nat /\ L \in Nat
  <2>. DEFINE x == at[n]
  <2>1. x \in Nat /\ SignatureGroups \in Nat
    BY <1>4, LengthWidths
  <2>. HIDE DEF x
  <2>2. x + SignatureGroups \in Nat
    BY <2>1
  <2>. QED  BY <2>1, <2>2 DEF x
<1>6. Len(q.listed) \in 0 .. Len(q.listed)
  BY <1>1, ListedFacts
<1>7. /\ HasLength(ks, n)
      /\ \A i \in 1 .. n : q.field[ks[i]] # Absent /\ \E l \in 1 .. Len(q.listed) : ks[i] = q.listed[l]
      /\ \A i, l \in 1 .. n : ks[i] = ks[l] => i = l
  BY <1>1, <1>6, KeptFacts
<1>8. /\ \A i \in 1 .. Len(q.listed) : q.listed[i] \in Kinds
      /\ \A i \in 1 .. n : \E d \in EncodeBolt11(ks[i], q.field[ks[i]]) :
           /\ IsFrame(Piece(data, at[i - 1], HeadLength + Len(d)), ks[i], d)
           /\ at[i] = at[i - 1] + (HeadLength + Len(d))
  BY <1>2 DEF Holds, Carries
<1>9. \A i \in 1 .. n : ks[i] \in Kinds
  <2>. TAKE i \in 1 .. n
  <2>. HIDE DEF ks, n
  <2>1. PICK l \in 1 .. Len(q.listed) : ks[i] = q.listed[l]
    BY <1>7
  <2>. QED  BY <1>8, <2>1
<1>10. /\ request.listed = Piece(ks, 0, j)
       /\ \A k \in Kinds : (\A i \in 1 .. j : ks[i] # k) => request.field[k] = Absent
  BY <1>3 DEF Copied
<1>. HIDE DEF ks, n, L
<1>11. j # n
  <2>1. SUFFICES ASSUME j = n PROVE FALSE
    OBVIOUS
  <2>2. at[n] - at[n] = 0 /\ at[n] \in Nat /\ at[n] + 0 <= L /\ 0 \in Nat
    BY <1>3, <1>4, <1>5, <2>1 DEF L
  <2>3. HasLength(rest, 0)
    BY <1>3, <1>4, <2>1, <2>2, PieceFacts DEF L
  <2>4. Len(rest) = 0
    BY <2>3, LengthOf
  <2>. QED  BY <2>4 DEF Typed
<1>12. /\ j \in 0 .. n - 1 /\ j + 1 \in 0 .. n /\ j + 1 \in 1 .. n /\ j \in Nat /\ (j + 1) - 1 = j
       /\ j \in 0 .. n
  BY <1>3, <1>4, <1>11
<1>. DEFINE k == ks[j + 1]
<1>13. k \in Kinds /\ q.field[k] # Absent
  BY <1>7, <1>9, <1>12
<1>14. \A i \in 1 .. j : ks[i] # k
  <2>. TAKE i \in 1 .. j
  <2>1. i \in 1 .. n /\ i # j + 1
    BY <1>4, <1>12
  <2>. QED  BY <1>7, <1>12, <2>1
<1>15. request.field[k] = Absent
  BY <1>10, <1>13, <1>14
<1>. HIDE DEF k
<1>16. Len(request.listed) = j /\ \A i \in 1 .. j : request.listed[i] = ks[i]
  <2>1. 0 \in Nat /\ 0 + j <= n /\ j \in Nat
    BY <1>4, <1>12
  <2>2. HasLength(Piece(ks, 0, j), j) /\ \A i \in 1 .. j : Piece(ks, 0, j)[i] = ks[0 + i]
    BY <1>7, <2>1, PieceFacts
  <2>3. Len(request.listed) = j
    BY <1>10, <2>2, LengthOf
  <2>4. \A i \in 1 .. j : 0 + i = i
    OBVIOUS
  <2>. QED  BY <1>10, <2>2, <2>3, <2>4
<1>17. PICK d \in EncodeBolt11(k, q.field[k]) :
          /\ IsFrame(Piece(data, at[j], HeadLength + Len(d)), k, d)
          /\ at[j + 1] = at[j] + (HeadLength + Len(d))
  BY <1>8, <1>12 DEF k
<1>. DEFINE c == HeadLength + Len(d)
            m == at[n] - at[j]
<1>18. /\ at[j] \in Nat /\ at[n] \in Nat /\ at[j + 1] \in Nat /\ at[j] < at[n] /\ at[j + 1] <= at[n]
  <2>1. n \in 0 .. n
    BY <1>4
  <2>2. at[j] \in Nat /\ at[n] \in Nat /\ at[j + 1] \in Nat /\ at[j] < at[n]
    BY <1>4, <1>11, <1>12, <2>1
  <2>3. at[j + 1] < at[n] \/ at[j + 1] = at[n]
    BY <1>4, <1>12
  <2>. QED  BY <2>2, <2>3
<1>19. Len(d) \in Nat /\ HeadLength \in Nat
  BY <1>13, <1>17, FrameParts
<1>20. c \in Nat /\ m \in Nat /\ c <= m /\ at[j] + m <= L /\ 0 \in Nat /\ 0 + c <= m /\ at[j] + 0 = at[j]
       /\ at[j] + c = at[j + 1]
  <2>. DEFINE x == at[j]  y == at[n]  z == at[j + 1]  b == Len(d)
  <2>1. x \in Nat /\ y \in Nat /\ z \in Nat /\ x < y /\ z <= y /\ z = x + (HeadLength + b)
        /\ b \in Nat /\ HeadLength \in Nat
    BY <1>17, <1>18, <1>19
  <2>2. L = y + SignatureGroups /\ c = HeadLength + b /\ m = y - x
    BY DEF L
  <2>. HIDE DEF x, y, z, b, c, m
  <2>3. c \in Nat /\ m \in Nat /\ c <= m /\ x + m <= L /\ 0 \in Nat /\ 0 + c <= m /\ x + 0 = x /\ x + c = z
    BY <1>5, <2>1, <2>2
  <2>. QED  BY <2>3 DEF x, z
<1>21. rest = Piece(data, at[j], m) /\ AreGroups(rest, m)
  <2>1. rest = Piece(data, at[j], m)
    BY <1>3
  <2>. HIDE DEF m
  <2>2. AreGroups(data, L)
    BY <1>4 DEF L
  <2>. QED  BY <1>18, <1>20, <2>1, <2>2, PieceGroups
<1>. HIDE DEF c, m
<1>22. HasLength(data, L)
  BY <1>4 DEF L
<1>23. Piece(rest, 0, c) = Piece(data, at[j], c)
  <2>1. Piece(Piece(data, at[j], m), 0, c) = Piece(data, at[j] + 0, c)
    BY <1>18, <1>20, <1>22, PieceOfPiece
  <2>. QED  BY <1>20, <1>21, <2>1
<1>24. IsFrame(Piece(rest, 0, c), k, d)
  BY <1>17, <1>23 DEF c
<1>25. /\ Whole /\ KindOf(Head(rest)) = k /\ Data = d
       /\ SubSeq(rest, HeadLength + DataLength + 1, Len(rest)) = Piece(rest, c, m - c)
  <2>1. c = HeadLength + Len(d)
    BY DEF c
  <2>. QED  BY <1>13, <1>20, <1>21, <1>24, <2>1, ReadFrame
<1>26. Piece(rest, c, m - c) = Piece(data, at[j + 1], at[n] - at[j + 1])
  <2>1. c + (m - c) <= m /\ m - c \in Nat /\ m - c = at[n] - at[j + 1]
    <3>. DEFINE x == at[j]  y == at[n]  z == at[j + 1]
    <3>1. x \in Nat /\ y \in Nat /\ z \in Nat /\ x + c = z /\ m = y - x
      BY <1>18, <1>20 DEF m
    <3>2. c \in Nat /\ m \in Nat /\ c <= m
      BY <1>20
    <3>. HIDE DEF x, y, z
    <3>3. m - c = y - z
      BY <3>1, <3>2
    <3>. QED  BY <3>2, <3>3 DEF y, z
  <2>2. Piece(Piece(data, at[j], m), c, m - c) = Piece(data, at[j] + c, m - c)
    BY <1>18, <1>20, <1>22, <2>1, PieceOfPiece
  <2>. QED  BY <1>20, <1>21, <2>1, <2>2
<1>27. Data \in EncodeBolt11(k, q.field[k])
  BY <1>17, <1>25
<1>28. \A i \in 1 .. Len(request.listed) : request.listed[i] # k
  BY <1>14, <1>16
<1>29. /\ Holds(data, q, at) /\ Copied(q, request, j)
       /\ j + 1 \in 0 .. n /\ j + 1 \in 1 .. n /\ j \in Nat /\ j \in 0 .. n - 1
       /\ ks[j + 1] \in Kinds /\ q.field[ks[j + 1]] # Absent
       /\ request.field[ks[j + 1]] = Absent
       /\ \A i \in 1 .. j : ks[i] # ks[j + 1]
       /\ Len(request.listed) = j
       /\ \A i \in 1 .. Len(request.listed) : request.listed[i] # ks[j + 1]
       /\ Data \in EncodeBolt11(ks[j + 1], q.field[ks[j + 1]])
       /\ Whole /\ KindOf(Head(rest)) = ks[j + 1]
       /\ SubSeq(rest, HeadLength + DataLength + 1, Len(rest)) =
            Piece(data, at[j + 1], at[n] - at[j + 1])
  BY <1>2, <1>3, <1>12, <1>13, <1>14, <1>15, <1>16, <1>25, <1>26, <1>27, <1>28 DEF k
<1>. QED  BY <1>29 DEF ks, n

\* All frames are to be read.
LEMMA OpenKeeps == ASSUME IInv, Open PROVE IInv'
<1>1. /\ stage = "written" /\ Readable /\ stage' = "reading" /\ rest' = TaggedFields(invoice.data)
      /\ author' = author /\ invoice' = invoice /\ todo' = todo
      /\ origin' = origin /\ rounds' = rounds
  BY DEF Open
<1>2. Typed /\ Own /\ Origin /\ Written
  BY DEF IInv
<1>. DEFINE time == DecodeUint(SubSeq(invoice.data, 1, TimestampGroups))
            data == invoice.data
            m == Len(data) - SignatureGroups - TimestampGroups
<1>3. PICK network \in DecodeNetworkPrefix(invoice.prefix) :
        request' = [Empty EXCEPT !.network = network, !.time = time]
  BY DEF Open
<1>4. network \in Networks /\ Prefix[network] = invoice.prefix
  BY DEF DecodeNetworkPrefix
<1>5. /\ TimestampGroups \in Nat /\ SignatureGroups \in Nat
      /\ TimestampGroups * GroupBits < WordBits /\ TimestampGroups * GroupBits \in Nat /\ WordBits \in Nat
  BY LengthWidths, WordFacts
<1>6. AreGroups(data, Len(data)) /\ Len(data) \in Nat /\ HasLength(data, Len(data))
  <2>1. AreGroups(data, Len(data)) /\ Len(data) \in Nat
    BY <1>2, GroupsAre DEF Typed
  <2>. QED  BY <2>1 DEF AreGroups, AreDigits
<1>7. /\ m \in Nat \ {0} /\ TimestampGroups + m = Len(data) - SignatureGroups
      /\ TimestampGroups + m <= Len(data) /\ 0 + TimestampGroups <= Len(data) /\ 0 \in Nat
  <2>1. Len(data) - SignatureGroups > TimestampGroups
    BY <1>1 DEF Readable
  <2>. QED  BY <1>5, <1>6, <2>1
<1>. HIDE DEF m
<1>8. rest' = Piece(data, TimestampGroups, m)
  BY <1>1, <1>7 DEF TaggedFields, Piece
<1>9. rest' \in Seq(Groups)
  <2>1. AreGroups(rest', m)
    BY <1>5, <1>6, <1>7, <1>8, PieceGroups
  <2>. QED  BY <2>1, GroupsAre
<1>10. time = DecodeUint(Piece(data, 0, TimestampGroups))
  BY <1>5 DEF Piece
<1>11. AreGroups(Piece(data, 0, TimestampGroups), TimestampGroups)
  BY <1>5, <1>6, <1>7, PieceGroups
<1>12. time \in Nat /\ time < TwoTo[TimestampGroups * GroupBits]
  <2>1. TimestampGroups * GroupBits <= WordBits
    BY <1>5
  <2>. QED  BY <1>5, <1>10, <1>11, <2>1, DecodeUintFacts
<1>. HIDE DEF time
<1>13. /\ request' = [network |-> network, time |-> time, listed |-> << >>, field |-> [k \in Kinds |-> Absent]]
       /\ request'.network = network /\ request'.time = time /\ request'.listed = << >>
       /\ request'.field = [k \in Kinds |-> Absent]
  BY <1>3 DEF Empty
<1>14. Good(request')
  <2>1. \A k \in Kinds : Stored(k, Absent) = Absent /\ FieldTypeOK(k, Absent) /\ request'.field[k] = Absent
    BY <1>13 DEF Stored, FieldTypeOK
  <2>2. << >> \in Seq(Kinds \cup {"?"}) /\ DOMAIN << >> = {}
    OBVIOUS
  <2>3. RequestTypeOK(request')
    BY <1>4, <1>12, <1>13, <2>1, <2>2 DEF RequestTypeOK
  <2>4. [k \in Kinds |-> request'.field[k]] = [k \in Kinds |-> Absent]
    BY <1>13
  <2>5. request' = [network |-> request'.network, time |-> request'.time, listed |-> request'.listed,
                    field |-> [k \in Kinds |-> request'.field[k]]]
    BY <1>13, <2>4
  <2>. QED  BY <1>13, <2>1, <2>2, <2>3, <2>5 DEF Good
<1>15. Typed'
  BY <1>1, <1>2, <1>4, <1>9, <1>13, <1>14 DEF Typed, Stages
<1>16. Rewritable'
  BY <1>12, <1>13 DEF Rewritable
<1>17. Own' /\ Origin' /\ Written'
  BY <1>1, <1>2 DEF Own, Origin, Written
<1>18. Reading'
  <2>1. SUFFICES ASSUME rounds > 0
                 PROVE  \E at : LET n == Len(Kept(origin, Len(origin.listed)))
                                IN  /\ Holds(data, origin, at)
                                    /\ \E j \in 0 .. n : /\ rest' = Piece(data, at[j], at[n] - at[j])
                                                         /\ Copied(origin, request', j)
    BY <1>1 DEF Reading
  <2>2. PICK at : Holds(data, origin, at)
    BY <1>1, <1>2, <2>1 DEF Written
  <2>. DEFINE ks == Kept(origin, Len(origin.listed))
              n == Len(ks)
  <2>3. Good(origin) /\ origin.network \in Networks /\ invoice.prefix = Prefix[origin.network]
    BY <1>1, <1>2, <2>1 DEF Origin, Written
  <2>4. network = origin.network
    BY <1>4, <2>3 DEF Networks, Prefix
  <2>5. /\ n \in Nat /\ at[0] = TimestampGroups /\ Len(data) = at[n] + SignatureGroups
        /\ \A i \in 0 .. n : at[i] \in Nat
        /\ DecodeUint(Piece(data, 0, TimestampGroups)) = origin.time
    BY <2>2, <2>3, HoldsFacts
  <2>. HIDE DEF n
  <2>6. at[n] - at[0] = m /\ 0 \in 0 .. n
    <3>1. n \in 0 .. n /\ 0 \in 0 .. n
      BY <2>5
    <3>2. at[n] \in Nat
      BY <2>5, <3>1
    <3>. QED  BY <1>5, <2>5, <3>1, <3>2 DEF m
  <2>7. rest' = Piece(data, at[0], at[n] - at[0])
    BY <1>8, <2>5, <2>6
  <2>8. Copied(origin, request', 0)
    <3>1. \A i : i \notin 1 .. 0
      OBVIOUS
    <3>2. Piece(ks, 0, 0) = << >>
      BY DEF Piece
    <3>3. \A k \in Kinds : request'.field[k] = Absent
      BY <1>13
    <3>. QED  BY <1>10, <1>13, <2>4, <2>5, <3>1, <3>2, <3>3 DEF Copied
  <2>. QED  BY <2>2, <2>6, <2>7, <2>8 DEF n
<1>19. Writing' /\ ValuesSurvive' /\ OwnIsAccepted' /\ ReadCanBeWritten'
  BY <1>1 DEF Writing, ValuesSurvive, OwnIsAccepted, ReadCanBeWritten
<1>. QED  BY <1>15, <1>16, <1>17, <1>18, <1>19 DEF IInv

\* What this package wrote has a prefix and a field.
LEMMA OpenFailsKeeps == ASSUME IInv, OpenFails PROVE IInv'
<1>1. /\ stage = "written" /\ ~Readable /\ stage' = "unreadable"
      /\ author' = author /\ request' = request /\ rest' = rest /\ invoice' = invoice
      /\ todo' = todo /\ origin' = origin /\ rounds' = rounds
  BY DEF OpenFails
<1>2. Typed /\ Rewritable /\ Own /\ Origin /\ Written
  BY DEF IInv
<1>3. author # "lnpilot"
  <2>1. SUFFICES ASSUME author = "lnpilot" PROVE Readable
    BY <1>1
  <2>2. /\ rounds > 0 /\ Good(origin) /\ origin.network \in Networks /\ origin.field["h"] # Absent
        /\ invoice.prefix = Prefix[origin.network]
    BY <1>1, <1>2, <2>1 DEF Own, Origin, Written
  <2>3. PICK at : Holds(invoice.data, origin, at)
    BY <1>1, <1>2, <2>2 DEF Written
  <2>. DEFINE n == Len(Kept(origin, Len(origin.listed)))
  <2>4. "h" \in Kinds
    BY DEF Kinds
  <2>5. \E i \in 1 .. n : TRUE
    BY <2>2, <2>4, SomeKept
  <2>6. /\ n \in Nat /\ at[0] = TimestampGroups /\ Len(invoice.data) = at[n] + SignatureGroups
        /\ \A i \in 0 .. n : at[i] \in Nat /\ (i # n => at[i] < at[n])
    BY <2>2, <2>3, HoldsFacts
  <2>. HIDE DEF n
  <2>7. 0 \in 0 .. n /\ n \in 0 .. n /\ 0 # n
    BY <2>5, <2>6
  <2>8. at[n] \in Nat /\ TimestampGroups < at[n]
    BY <2>6, <2>7
  <2>9. Len(invoice.data) - SignatureGroups > TimestampGroups
    BY <2>6, <2>8, LengthWidths
  <2>10. DecodeNetworkPrefix(invoice.prefix) # {}
    BY <2>2 DEF DecodeNetworkPrefix
  <2>. QED  BY <2>9, <2>10 DEF Readable
<1>4. Typed' /\ Rewritable' /\ Own' /\ Origin'
  BY <1>1, <1>2, <1>3 DEF Typed, Rewritable, Own, Origin, Stages
<1>5. /\ Writing' /\ Written' /\ Reading' /\ ValuesSurvive' /\ OwnIsAccepted'
      /\ ReadCanBeWritten'
  BY <1>1, <1>3 DEF Writing, Written, Reading, ValuesSurvive, OwnIsAccepted, ReadCanBeWritten
<1>. QED  BY <1>4, <1>5 DEF IInv

\* What ReadField makes of a request: one field, or a listed kind only
LEMMA ReadFieldIs ==
  ASSUME Typed, ReadField
  PROVE  LET k == KindOf(Head(rest))
         IN  /\ k \in Kinds \cup {"?"} /\ Good(request')
             /\ request'.listed = List(request, k).listed
             /\ request'.network = request.network /\ request'.time = request.time
             /\ \A l \in Kinds : l # k => request'.field[l] = request.field[l]
             /\ \/ Skipped(k) /\ \A l \in Kinds : request'.field[l] = request.field[l]
                \/ /\ ~Skipped(k) /\ k \in Kinds
                   /\ \E v \in Decoded(k) : request'.field[k] = Stored(k, v)
                   /\ FieldTypeOK(k, request'.field[k])
                   /\ \/ request'.field[k] = Absent \/ Writable(k, request'.field[k])
                      \/ k = "f" /\ OddProgram(request'.field[k])
                   /\ \/ Representable(request.network, k, request'.field[k])
                      \/ k = "x" /\ Overflows
                      \/ k = "f" /\ OddProgram(request'.field[k])
             /\ rest' \in Seq(Groups)
<1>. DEFINE k == KindOf(Head(rest))
<1>1. /\ stage = "reading" /\ Whole
      /\ rest' = SubSeq(rest, HeadLength + DataLength + 1, Len(rest))
      /\ \/ Skipped(k) /\ request' = List(request, k)
         \/ /\ ~Skipped(k)
            /\ \E v \in Decoded(k) : request' = [List(request, k) EXCEPT !.field[k] = Stored(k, v)]
  BY DEF ReadField
<1>2. k \in Kinds \cup {"?"}
  BY KindType
<1>. HIDE DEF k
<1>3. Good(request) /\ rest \in Seq(Groups)
  BY DEF Typed
<1>4. AreGroups(rest, Len(rest))
  BY <1>3, GroupsAre
<1>5. /\ \E g \in 0 .. MaxGroups : AreGroups(Data, g)
      /\ \E n \in Nat : AreGroups(SubSeq(rest, HeadLength + DataLength + 1, Len(rest)), n)
  BY <1>1, <1>4, DataFacts
<1>6. rest' \in Seq(Groups)
  BY <1>1, <1>5, GroupsAre
<1>7. CASE Skipped(k) /\ request' = List(request, k)
  BY <1>2, <1>3, <1>6, <1>7, ListFacts DEF k
<1>8. CASE ~Skipped(k) /\ \E v \in Decoded(k) : request' = [List(request, k) EXCEPT !.field[k] = Stored(k, v)]
  <2>1. PICK v \in Decoded(k) : request' = [List(request, k) EXCEPT !.field[k] = Stored(k, v)]
    BY <1>8
  <2>2. k \in Kinds
    BY <1>2, <1>8 DEF Skipped
  <2>3. PICK g \in 0 .. MaxGroups : AreGroups(Data, g)
    BY <1>5
  <2>4. FieldTypeOK(k, request.field[k])
    BY <1>3, <2>2, ListedFacts
  <2>5. v \in DecodeBolt11(k, request.network, request.field[k], Data)
    BY <2>1 DEF Decoded
  <2>. DEFINE w == Stored(k, v)
  <2>6. /\ FieldTypeOK(k, w)
        /\ w = Absent \/ Writable(k, w) \/ (k = "f" /\ OddProgram(w))
        /\ \/ Representable(request.network, k, w)
           \/ k = "x" /\ DecodeUint(Data) * Second >= Word \div 2
           \/ k = "f" /\ OddProgram(w)
    BY <2>2, <2>3, <2>4, <2>5, ReadValue
  <2>7. /\ Good(request') /\ request'.field[k] = w /\ request'.listed = List(request, k).listed
        /\ \A l \in Kinds : l # k => request'.field[l] = request.field[l]
        /\ request'.network = request.network /\ request'.time = request.time
    BY <1>3, <2>1, <2>2, <2>6, ReadGood
  <2>. HIDE DEF w
  <2>8. \E u \in Decoded(k) : request'.field[k] = Stored(k, u)
    BY <2>1, <2>7 DEF w
  <2>9. /\ FieldTypeOK(k, request'.field[k])
        /\ \/ request'.field[k] = Absent \/ Writable(k, request'.field[k])
           \/ k = "f" /\ OddProgram(request'.field[k])
        /\ \/ Representable(request.network, k, request'.field[k])
           \/ k = "x" /\ Overflows
           \/ k = "f" /\ OddProgram(request'.field[k])
    BY <2>6, <2>7 DEF Overflows
  <2>. QED  BY <1>2, <1>6, <1>8, <2>2, <2>7, <2>8, <2>9 DEF k
<1>. QED  BY <1>1, <1>7, <1>8

\* One more field is read, from its own frame.
LEMMA ReadFieldKeeps == ASSUME IInv, ReadField PROVE IInv'
<1>. DEFINE k == KindOf(Head(rest))
<1>1. /\ stage = "reading" /\ rest # << >> /\ Whole /\ stage' = stage
      /\ rest' = SubSeq(rest, HeadLength + DataLength + 1, Len(rest))
      /\ author' = author /\ invoice' = invoice /\ todo' = todo
      /\ origin' = origin /\ rounds' = rounds
  BY DEF ReadField
<1>2. Typed /\ Rewritable /\ Own /\ Origin /\ Written /\ Reading
  BY DEF IInv
<1>3. /\ k \in Kinds \cup {"?"} /\ Good(request')
      /\ request'.listed = List(request, k).listed
      /\ request'.network = request.network /\ request'.time = request.time
      /\ \A l \in Kinds : l # k => request'.field[l] = request.field[l]
      /\ \/ Skipped(k) /\ \A l \in Kinds : request'.field[l] = request.field[l]
         \/ /\ ~Skipped(k) /\ k \in Kinds
            /\ \E v \in Decoded(k) : request'.field[k] = Stored(k, v)
            /\ \/ request'.field[k] = Absent \/ Writable(k, request'.field[k])
               \/ k = "f" /\ OddProgram(request'.field[k])
      /\ rest' \in Seq(Groups)
  BY <1>2, ReadFieldIs
<1>. HIDE DEF k
<1>4. Typed'
  BY <1>1, <1>2, <1>3 DEF Typed
<1>5. Rewritable'
  <2>1. SUFFICES ASSUME author = "other"
                 PROVE  /\ request'.time < TwoTo[TimestampGroups * GroupBits]
                        /\ \A l \in Kinds : \/ request'.field[l] = Absent \/ Writable(l, request'.field[l])
                                            \/ l = "f" /\ OddProgram(request'.field[l])
    BY <1>1 DEF Rewritable
  <2>2. /\ request.time < TwoTo[TimestampGroups * GroupBits]
        /\ \A l \in Kinds : \/ request.field[l] = Absent \/ Writable(l, request.field[l])
                            \/ l = "f" /\ OddProgram(request.field[l])
    BY <1>1, <1>2, <2>1 DEF Rewritable
  <2>3. ASSUME NEW l \in Kinds
        PROVE  \/ request'.field[l] = Absent \/ Writable(l, request'.field[l])
               \/ l = "f" /\ OddProgram(request'.field[l])
    <3>1. CASE request'.field[l] = request.field[l]
      BY <2>2, <3>1
    <3>2. CASE request'.field[l] # request.field[l]
      <4>1. l = k
        BY <1>3, <3>2
      <4>. QED  BY <1>3, <3>2, <4>1
    <3>. QED  BY <3>1, <3>2
  <2>. QED  BY <1>3, <2>2, <2>3
<1>6. Own' /\ Origin' /\ Written'
  BY <1>1, <1>2 DEF Own, Origin, Written
<1>7. Reading'
  <2>. DEFINE ks == Kept(origin, Len(origin.listed))
              n == Len(ks)
  <2>1. SUFFICES ASSUME rounds > 0
                 PROVE  \E at : /\ Holds(invoice.data, origin, at)
                                /\ \E j \in 0 .. n : /\ rest' = Piece(invoice.data, at[j], at[n] - at[j])
                                                     /\ Copied(origin, request', j)
    BY <1>1 DEF Reading
  <2>2. PICK at : \E j \in 0 .. n - 1 :
               /\ Holds(invoice.data, origin, at) /\ Copied(origin, request, j)
               /\ j + 1 \in 0 .. n /\ j + 1 \in 1 .. n /\ j \in Nat
               /\ ks[j + 1] \in Kinds /\ origin.field[ks[j + 1]] # Absent
               /\ request.field[ks[j + 1]] = Absent
               /\ \A i \in 1 .. j : ks[i] # ks[j + 1]
               /\ Len(request.listed) = j
               /\ \A i \in 1 .. Len(request.listed) : request.listed[i] # ks[j + 1]
               /\ Data \in EncodeBolt11(ks[j + 1], origin.field[ks[j + 1]])
               /\ Whole /\ KindOf(Head(rest)) = ks[j + 1]
               /\ SubSeq(rest, HeadLength + DataLength + 1, Len(rest)) =
                    Piece(invoice.data, at[j + 1], at[n] - at[j + 1])
    BY <1>1, <1>2, <2>1, NextFrame
  <2>3. PICK j \in 0 .. n - 1 :
               /\ Holds(invoice.data, origin, at) /\ Copied(origin, request, j)
               /\ j + 1 \in 0 .. n /\ j + 1 \in 1 .. n /\ j \in Nat
               /\ ks[j + 1] \in Kinds /\ origin.field[ks[j + 1]] # Absent
               /\ request.field[ks[j + 1]] = Absent
               /\ \A i \in 1 .. j : ks[i] # ks[j + 1]
               /\ Len(request.listed) = j
               /\ \A i \in 1 .. Len(request.listed) : request.listed[i] # ks[j + 1]
               /\ Data \in EncodeBolt11(ks[j + 1], origin.field[ks[j + 1]])
               /\ Whole /\ KindOf(Head(rest)) = ks[j + 1]
               /\ SubSeq(rest, HeadLength + DataLength + 1, Len(rest)) =
                    Piece(invoice.data, at[j + 1], at[n] - at[j + 1])
    BY <2>2
  <2>4. Good(request) /\ Good(origin) /\ origin.network \in Networks
    BY <1>2, <2>1 DEF Typed, Origin
  <2>5. /\ request.network = origin.network /\ request.time = origin.time
        /\ request.listed = Piece(ks, 0, j)
        /\ \A l \in Kinds : (\A i \in 1 .. j : ks[i] # l) => request.field[l] = Absent
        /\ \A i \in 1 .. j : Representable(origin.network, ks[i], origin.field[ks[i]]) =>
                               request.field[ks[i]] = origin.field[ks[i]]
    BY <2>3 DEF Copied
  <2>6. Len(origin.listed) \in 0 .. Len(origin.listed)
    BY <2>4, ListedFacts
  <2>7. /\ HasLength(ks, n) /\ n \in Nat
        /\ \A i \in 1 .. n : \E l \in 1 .. Len(origin.listed) : ks[i] = origin.listed[l]
    BY <2>4, <2>6, KeptFacts
  <2>8. \A i \in 1 .. n : ks[i] \in Kinds
    <3>1. \A l \in 1 .. Len(origin.listed) : origin.listed[l] \in Kinds
      BY <2>3 DEF Holds, Carries
    <3>. HIDE DEF ks, n
    <3>. QED  BY <2>7, <3>1
  <2>. HIDE DEF ks, n
  <2>9. k = ks[j + 1]
    BY <2>3 DEF k
  <2>10. request'.listed = Piece(ks, 0, j + 1)
    <3>1. request'.listed = Append(request.listed, k)
      BY <1>3, <2>3, <2>4, <2>9, ListFacts
    <3>2. /\ 0 \in Nat /\ 0 + j <= n /\ j \in Nat /\ 0 + (j + 1) <= n /\ j + 1 \in Nat
          /\ \A i : i \in 1 .. j + 1 <=> i \in 1 .. j \/ i = j + 1
      BY <2>3, <2>7
    <3>3. /\ HasLength(Piece(ks, 0, j + 1), j + 1)
          /\ \A i \in 1 .. j + 1 : Piece(ks, 0, j + 1)[i] = ks[0 + i] /\ 0 + i \in 1 .. n
      BY <2>7, <3>2, PieceFacts
    <3>4. /\ HasLength(Piece(ks, 0, j), j)
          /\ \A i \in 1 .. j : Piece(ks, 0, j)[i] = ks[0 + i] /\ 0 + i \in 1 .. n
      BY <2>7, <3>2, PieceFacts
    <3>. DEFINE s == Piece(ks, 0, j)
                t == Piece(ks, 0, j + 1)
    <3>. HIDE DEF s, t
    <3>5. s \in Seq(Kinds) /\ Len(s) = j
      <4>1. \A i \in 1 .. j : s[i] \in Kinds
        BY <2>8, <3>4 DEF s
      <4>. QED  BY <3>4, <4>1, LengthOf DEF s
    <3>6. t \in Seq(Kinds) /\ Len(t) = j + 1
      <4>1. \A i \in 1 .. j + 1 : t[i] \in Kinds
        BY <2>8, <3>3 DEF t
      <4>. QED  BY <3>3, <4>1, LengthOf DEF t
    <3>7. t[j + 1] = k /\ \A i \in 1 .. j : t[i] = s[i]
      <4>1. 0 + (j + 1) = j + 1 /\ j + 1 \in 1 .. j + 1
        BY <2>3
      <4>. QED  BY <2>9, <3>2, <3>3, <3>4, <4>1 DEF s, t
    <3>8. k \in Kinds
      BY <2>3, <2>9
    <3>9. Append(s, k) = t
      BY <3>5, <3>6, <3>7, <3>8, AppendElements
    <3>. QED  BY <2>5, <3>1, <3>9 DEF s, t
  <2>11. Representable(origin.network, k, origin.field[k]) => request'.field[k] = origin.field[k]
    <3>1. SUFFICES ASSUME Representable(origin.network, k, origin.field[k])
                   PROVE  request'.field[k] = origin.field[k]
      OBVIOUS
    <3>2. k \in Kinds /\ origin.field[k] # Absent /\ Data \in EncodeBolt11(k, origin.field[k])
          /\ request.field[k] = Absent
      BY <2>3, <2>9
    <3>3. FieldTypeOK(k, origin.field[k]) /\ Stored(k, origin.field[k]) = origin.field[k]
      BY <2>4, <3>2, ListedFacts
    <3>4. /\ DecodeBolt11(k, origin.network, Absent, Data) = {origin.field[k]}
          /\ ~(k = "f" /\ UnknownVersion(Data))
      BY <2>4, <3>1, <3>2, <3>3, WrittenValue
    <3>5. k # "?"
      BY <3>2 DEF Kinds
    <3>6. ~Skipped(k) /\ Decoded(k) = {origin.field[k]}
      BY <2>5, <3>2, <3>4, <3>5 DEF Skipped, Decoded
    <3>. QED  BY <1>3, <3>3, <3>6
  <2>12. Copied(origin, request', j + 1)
    <3>1. \A i : i \in 1 .. j + 1 <=> i \in 1 .. j \/ i = j + 1
      BY <2>3
    <3>2. ASSUME NEW l \in Kinds, \A i \in 1 .. j + 1 : ks[i] # l PROVE request'.field[l] = Absent
      <4>1. l # k /\ \A i \in 1 .. j : ks[i] # l
        BY <2>9, <3>1, <3>2
      <4>. QED  BY <1>3, <2>5, <4>1
    <3>3. ASSUME NEW i \in 1 .. j + 1, Representable(origin.network, ks[i], origin.field[ks[i]])
          PROVE  request'.field[ks[i]] = origin.field[ks[i]]
      <4>1. CASE i = j + 1
        BY <2>9, <2>11, <3>3, <4>1
      <4>2. CASE i \in 1 .. j
        <5>1. ks[i] # k /\ i \in 1 .. n
          BY <2>3, <2>7, <2>9, <4>2
        <5>2. ks[i] \in Kinds
          BY <2>8, <5>1
        <5>3. request'.field[ks[i]] = request.field[ks[i]]
          BY <1>3, <5>1, <5>2
        <5>. QED  BY <2>5, <3>3, <4>2, <5>3
      <4>. QED  BY <3>1, <4>1, <4>2
    <3>. QED  BY <1>3, <2>5, <2>10, <3>2, <3>3 DEF Copied, ks
  <2>13. rest' = Piece(invoice.data, at[j + 1], at[n] - at[j + 1])
    BY <1>1, <2>3
  <2>. QED  BY <2>3, <2>12, <2>13
<1>8. Writing' /\ ValuesSurvive' /\ OwnIsAccepted' /\ ReadCanBeWritten'
  BY <1>1 DEF Writing, ValuesSurvive, OwnIsAccepted, ReadCanBeWritten
<1>. QED  BY <1>4, <1>5, <1>6, <1>7, <1>8 DEF IInv

\* What this package wrote is read, but for the exceptions.
LEMMA ReadFailsKeeps == ASSUME IInv, ReadFails PROVE IInv'
<1>1. /\ stage = "reading" /\ rest # << >> /\ stage' = "unreadable"
      /\ Whole => ~Skipped(KindOf(Head(rest))) /\ Decoded(KindOf(Head(rest))) = {}
      /\ author' = author /\ request' = request /\ rest' = rest /\ invoice' = invoice
      /\ todo' = todo /\ origin' = origin /\ rounds' = rounds
  BY DEF ReadFails
<1>2. Typed /\ Rewritable /\ Own /\ Origin /\ Reading
  BY DEF IInv
<1>3. ASSUME author = "lnpilot"
      PROVE  /\ origin.field["f"] # Absent
             /\ \E a \in DecodeAddress(origin.field["f"]) : NoTextFor(origin.network, a)
  <2>. DEFINE ks == Kept(origin, Len(origin.listed))
              n == Len(ks)
  <2>1. rounds > 0
    BY <1>1, <1>2, <1>3 DEF Own
  <2>2. PICK j \in 0 .. n - 1 :
               /\ Copied(origin, request, j)
               /\ ks[j + 1] \in Kinds /\ origin.field[ks[j + 1]] # Absent
               /\ request.field[ks[j + 1]] = Absent
               /\ Data \in EncodeBolt11(ks[j + 1], origin.field[ks[j + 1]])
               /\ Whole /\ KindOf(Head(rest)) = ks[j + 1]
    BY <1>1, <1>2, <2>1, NextFrame
  <2>3. request.network = origin.network /\ Good(origin) /\ origin.network \in Networks
    BY <1>2, <2>1, <2>2 DEF Copied, Origin
  <2>. HIDE DEF ks, n
  <2>. DEFINE k == KindOf(Head(rest))
  <2>4. k \in Kinds /\ origin.field[k] # Absent /\ Data \in EncodeBolt11(k, origin.field[k])
        /\ request.field[k] = Absent /\ ~Skipped(k) /\ Decoded(k) = {}
    BY <1>1, <2>2
  <2>. HIDE DEF k
  <2>5. FieldTypeOK(k, origin.field[k])
    BY <2>3, <2>4, ListedFacts
  <2>6. \/ DecodeBolt11(k, origin.network, Absent, Data) # {}
        \/ k = "f" /\ UnknownVersion(Data)
        \/ k = "f" /\ \E a \in DecodeAddress(origin.field[k]) : NoTextFor(origin.network, a)
    BY <2>3, <2>4, <2>5, WrittenValue
  <2>7. k = "f" /\ \E a \in DecodeAddress(origin.field[k]) : NoTextFor(origin.network, a)
    BY <2>3, <2>4, <2>6 DEF Skipped, Decoded
  <2>. QED  BY <2>4, <2>7
<1>4. OwnIsAccepted'
  BY <1>1, <1>3 DEF OwnIsAccepted
<1>5. Typed' /\ Rewritable' /\ Own' /\ Origin'
  BY <1>1, <1>2 DEF Typed, Rewritable, Own, Origin, Stages
<1>6. /\ Writing' /\ Written' /\ Reading' /\ ValuesSurvive' /\ ReadCanBeWritten'
  BY <1>1 DEF Writing, Written, Reading, ValuesSurvive, ReadCanBeWritten
<1>. QED  BY <1>4, <1>5, <1>6 DEF IInv

\* Nothing is left to read once all frames were read.
LEMMA CloseKeeps == ASSUME IInv, Close PROVE IInv'
<1>1. /\ stage = "reading" /\ rest = << >> /\ stage' = "held"
      /\ author' = author /\ request' = request /\ rest' = rest /\ invoice' = invoice
      /\ todo' = todo /\ origin' = origin /\ rounds' = rounds
  BY DEF Close
<1>2. Typed /\ Rewritable /\ Own /\ Origin /\ Reading
  BY DEF IInv
<1>3. ASSUME rounds > 0
      PROVE  /\ request.network = origin.network /\ request.time = origin.time
             /\ request.listed =
                  Subsequence(origin.listed,
                              {i \in DOMAIN origin.listed : origin.field[origin.listed[i]] # Absent})
             /\ \A k \in Kinds : Representable(origin.network, k, origin.field[k]) =>
                                   request.field[k] = origin.field[k]
  <2>. DEFINE ks == Kept(origin, Len(origin.listed))
              n == Len(ks)
              data == invoice.data
  <2>1. PICK at : /\ Holds(data, origin, at)
                  /\ \E j \in 0 .. n : /\ rest = Piece(data, at[j], at[n] - at[j])
                                       /\ Copied(origin, request, j)
    BY <1>1, <1>2, <1>3 DEF Reading
  <2>2. PICK j \in 0 .. n : rest = Piece(data, at[j], at[n] - at[j]) /\ Copied(origin, request, j)
    BY <2>1
  <2>3. Good(origin)
    BY <1>2, <1>3 DEF Origin
  <2>4. /\ n \in Nat /\ at \in [0 .. n -> Nat]
        /\ \A i \in 0 .. n : at[i] \in Nat /\ (i # n => at[i] < at[n])
        /\ HasLength(data, at[n] + SignatureGroups)
    BY <2>1, <2>3, HoldsFacts
  <2>5. /\ request.network = origin.network /\ request.time = origin.time
        /\ request.listed = Piece(ks, 0, j)
        /\ \A l \in Kinds : (\A i \in 1 .. j : ks[i] # l) => request.field[l] = Absent
        /\ \A i \in 1 .. j : Representable(origin.network, ks[i], origin.field[ks[i]]) =>
                               request.field[ks[i]] = origin.field[ks[i]]
    BY <2>2 DEF Copied
  <2>6. /\ Len(origin.listed) \in 0 .. Len(origin.listed) /\ DOMAIN origin.listed = 1 .. Len(origin.listed)
    BY <2>3, ListedFacts
  <2>7. HasLength(ks, n)
    BY <2>3, <2>6, KeptFacts
  <2>. HIDE DEF n
  <2>8. j = n
    <3>1. SUFFICES ASSUME j # n PROVE FALSE
      OBVIOUS
    <3>2. n \in 0 .. n
      BY <2>4
    <3>3. at[j] \in Nat /\ at[n] \in Nat /\ at[j] < at[n]
      BY <2>4, <3>1, <3>2
    <3>. DEFINE x == at[j]  y == at[n]  m == y - x  L == y + SignatureGroups
    <3>4. x \in Nat /\ y \in Nat /\ x < y
      BY <3>3
    <3>5. HasLength(data, L) /\ rest = Piece(data, x, m)
      BY <2>2, <2>4
    <3>. HIDE DEF x, y
    <3>6. m \in Nat \ {0} /\ x + m <= L
      BY <3>4, LengthWidths
    <3>. HIDE DEF m, L
    <3>7. HasLength(rest, m)
      BY <3>4, <3>5, <3>6, PieceFacts
    <3>8. Len(rest) = m
      BY <3>7, LengthOf
    <3>9. Len(rest) = 0
      BY <1>1
    <3>. QED  BY <3>6, <3>8, <3>9
  <2>9. request.listed = ks
    BY <2>5, <2>7, <2>8, PieceFacts
  <2>10. ks = Subsequence(origin.listed,
                          {i \in DOMAIN origin.listed : origin.field[origin.listed[i]] # Absent})
    BY <2>6 DEF Kept, Chosen
  <2>11. ASSUME NEW k \in Kinds, Representable(origin.network, k, origin.field[k])
         PROVE  request.field[k] = origin.field[k]
    <3>1. CASE \E i \in 1 .. n : ks[i] = k
      <4>1. PICK i \in 1 .. n : ks[i] = k
        BY <3>1
      <4>. HIDE DEF ks
      <4>. QED  BY <2>5, <2>8, <2>11, <4>1
    <3>2. CASE ~\E i \in 1 .. n : ks[i] = k
      <4>1. request.field[k] = Absent
        BY <2>5, <2>8, <3>2
      <4>2. origin.field[k] = Absent
        BY <2>3, <3>2, SomeKept DEF n
      <4>. QED  BY <4>1, <4>2
    <3>. QED  BY <3>1, <3>2
  <2>. QED  BY <2>5, <2>9, <2>10, <2>11
<1>4. ValuesSurvive'
  BY <1>1, <1>3 DEF ValuesSurvive
<1>5. Own'
  <2>1. SUFFICES ASSUME author = "lnpilot" PROVE request.field["h"] # Absent
    BY <1>1 DEF Own
  <2>2. rounds > 0 /\ origin.field["h"] # Absent
    BY <1>1, <1>2, <2>1 DEF Own, Origin
  <2>3. "h" \in Kinds /\ Representable(origin.network, "h", origin.field["h"])
    BY DEF Kinds, Representable
  <2>. QED  BY <1>3, <2>2, <2>3
<1>6. Typed' /\ Rewritable' /\ Origin'
  BY <1>1, <1>2 DEF Typed, Rewritable, Origin, Stages
<1>7. /\ Writing' /\ Written' /\ Reading' /\ OwnIsAccepted' /\ ReadCanBeWritten'
  BY <1>1 DEF Writing, Written, Reading, OwnIsAccepted, ReadCanBeWritten
<1>. QED  BY <1>4, <1>5, <1>6, <1>7 DEF IInv

-----------------------------------------------------------------------------
(* The theorems *)

\* Every step keeps the inductive invariant.
LEMMA NextInv == IInv /\ [Next]_vars => IInv'
<1>. SUFFICES ASSUME IInv, [Next]_vars PROVE IInv'
  OBVIOUS
<1>1. CASE Next
  BY <1>1, BeginKeeps, TimeTooLateKeeps, SkipFieldKeeps, WriteFieldKeeps, WriteFailsKeeps, SignKeeps,
     OpenKeeps, OpenFailsKeeps, ReadFieldKeeps, ReadFailsKeeps, CloseKeeps DEF Next
<1>2. CASE UNCHANGED vars
  <2>1. /\ stage' = stage /\ author' = author /\ request' = request /\ invoice' = invoice
        /\ todo' = todo /\ rest' = rest /\ origin' = origin /\ rounds' = rounds
    BY <1>2 DEF vars
  <2>2. Typed' /\ Rewritable' /\ Own' /\ Origin' /\ Writing' /\ Written' /\ Reading'
    BY <2>1 DEF IInv, Typed, Rewritable, Own, Origin, Writing, Written, Reading
  <2>3. ValuesSurvive' /\ OwnIsAccepted' /\ ReadCanBeWritten'
    BY <2>1 DEF IInv, ValuesSurvive, OwnIsAccepted, ReadCanBeWritten
  <2>. QED  BY <2>2, <2>3 DEF IInv
<1>. QED  BY <1>1, <1>2

\* The inductive invariant is an invariant.
LEMMA Invariance == Spec => []IInv
<1>1. Init => IInv
  BY InitInv
<1>2. IInv /\ [Next]_vars => IInv'
  BY NextInv
<1>. QED  BY <1>1, <1>2, PTL DEF Spec

\* Types: a hash is whole, an expiry fits its word, the highest feature bit is
\* one of the features, and a data part consists of groups.
THEOREM TypeCorrect == Spec => []TypeOK
<1>1. IInv => TypeOK
  BY DEF IInv, Typed, TypeOK, Good
<1>. QED  BY <1>1, Invariance, PTL

\* Whatever EncodeBech32 writes and an invoice can say is what
\* DecodePaymentRequest returns, bit for bit and in its order.
THEOREM EveryValueSurvives == Spec => []ValuesSurvive
<1>1. IInv => ValuesSurvive
  BY DEF IInv
<1>. QED  BY <1>1, Invariance, PTL

\* DecodePaymentRequest refuses no field that EncodeBech32 wrote, but for
\* fallback addresses on regtest and signet.
THEOREM OwnInvoicesAreAccepted == Spec => []OwnIsAccepted
<1>1. IInv => OwnIsAccepted
  BY DEF IInv
<1>. QED  BY <1>1, Invariance, PTL

\* An invoice that was read can be written again, unless it has a field of an
\* unknown type or a program of a length no address has.
THEOREM WhatWasReadCanBeWritten == Spec => []ReadCanBeWritten
<1>1. IInv => ReadCanBeWritten
  BY DEF IInv
<1>. QED  BY <1>1, Invariance, PTL

\* Numbers and features are written without a leading group of zeros.
THEOREM NumbersAreShort == Spec => []NoLeadingZeros
<1>1. ASSUME IInv PROVE NoLeadingZeros
  <2>1. \A k \in {"c", "9"} : k \in Kinds
    BY DEF Kinds
  <2>2. \A k \in {"c", "9"} : FieldTypeOK(k, request.field[k])
    BY <1>1, <2>1, ListedFacts DEF IInv, Typed
  <2>. QED  BY <2>2, NoLeadingZero DEF NoLeadingZeros
<1>. QED  BY <1>1, Invariance, PTL

\* Reading a field never leaves a value that no invoice can say, but for an
\* expiry that overflows a duration and a program of a length no address has.
THEOREM ReadingIsRepresentable == Spec => ReadIsRepresentable
<1>. DEFINE A == stage = "reading" =>
                   \A k \in Kinds : request'.field[k] # request.field[k] =>
                     \/ Representable(request.network, k, request'.field[k])
                     \/ k = "x" /\ Overflows
                     \/ k = "f" /\ OddProgram(request'.field[k])
<1>1. IInv /\ [Next]_vars => [A]_vars
  <2>. SUFFICES ASSUME IInv, Next PROVE A
    OBVIOUS
  <2>1. SUFFICES ASSUME stage = "reading", NEW k \in Kinds, request'.field[k] # request.field[k]
                 PROVE  \/ Representable(request.network, k, request'.field[k])
                        \/ k = "x" /\ Overflows
                        \/ k = "f" /\ OddProgram(request'.field[k])
    OBVIOUS
  <2>2. ReadField
    BY <2>1 DEF Next, Begin, TimeTooLate, SkipField, WriteField, WriteFails, Sign, Open, OpenFails,
                ReadFails, Close
  <2>3. Typed
    BY DEF IInv
  <2>. QED  BY <2>1, <2>2, <2>3, ReadFieldIs
<1>. QED  BY <1>1, Invariance, PTL DEF Spec, ReadIsRepresentable
=============================================================================
