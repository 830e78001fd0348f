---------------------------- MODULE AmountProofs ----------------------------
(* Proofs about Amount, for machine words of any width, any ratio of the   *)
(* multipliers, and any set of amounts.                                    *)
EXTENDS Amount, Integers, TLAPS

\* What the encoder has divided by after it has divided n times
Scale(n) ==
  IF n = 0 THEN 1
  ELSE IF n = 1 THEN Kilo
  ELSE IF n = 2 THEN Kilo * Kilo
  ELSE IF n = 3 THEN Kilo * Kilo * Kilo
  ELSE IF n = 4 THEN Kilo * Kilo * Kilo * Kilo
  ELSE Kilo * Kilo * Kilo * Kilo * Kilo

(***************************************************************************)
(* The inductive invariant: the encoder's units, scaled back, are the      *)
(* picobitcoins it started from, and what it writes is the first quotient  *)
(* that the ratio does not divide, or that of thousands of bitcoins.       *)
(***************************************************************************)
Letters == {"p", "n", "u", "m"}

Dividing ==
  stage = "dividing" =>
    /\ origin = msats
    /\ Fits(origin) => units * Scale(at) = origin * PicoPerMsat

Encoded(n) ==
  /\ hrp.multiplier = Multipliers[n + 1]
  /\ hrp.amount * Scale(n) = origin * PicoPerMsat /\ hrp.amount % Kilo # 0

Overdivided ==
  hrp.multiplier = "whole" /\ hrp.amount * Scale(5) = origin * PicoPerMsat

Written ==
  stage \in {"encoded", "decoded", "refused"} /\ origin # None /\ Fits(origin) =>
    \/ origin = 0 /\ hrp = Bare
    \/ \E n \in 0 .. 4 : Encoded(n)
    \/ Overdivided

Holding ==
  /\ stage = "holding" => origin = msats /\ at = 0 /\ hrp = Bare
  /\ hrp = Bare \/ hrp.multiplier \in Letters \cup {"whole"}

Read == stage = "decoded" => ~Refused(hrp)

IInv ==
  TypeOK /\ Holding /\ Dividing /\ Written /\ Read /\ AmountSurvives /\ ReadIsExact

-----------------------------------------------------------------------------
(* Arithmetic *)

LEMMA Quotient ==
  ASSUME NEW n \in Nat, NEW d \in Nat \ {0}
  PROVE  n = d * (n \div d) + (n % d) /\ n \div d \in 0 .. n /\ n % d \in 0 .. d - 1
<1>1. n = d * (n \div d) + (n % d) /\ n \div d \in Nat /\ n % d \in 0 .. d - 1
  OBVIOUS
<1>2. n \div d <= n
  OBVIOUS
<1>. QED  BY <1>1, <1>2

LEMMA Divided ==
  ASSUME NEW n \in Nat, NEW d \in Nat \ {0}, n % d = 0
  PROVE  \E q \in Nat : q = n \div d /\ n = d * q
<1>1. PICK q \in Nat : q = n \div d
  OBVIOUS
<1>2. n = d * (n \div d) + 0
  BY Quotient
<1>. QED  BY <1>1, <1>2

LEMMA Multiple ==
  ASSUME NEW q \in Nat, NEW d \in Nat \ {0}
  PROVE  (q * d) \div d = q /\ (q * d) % d = 0 /\ q <= q * d
<1>1. (d * q) \div d = q /\ (d * q) % d = 0
  OBVIOUS
<1>2. q <= d * q /\ d * q = q * d
  OBVIOUS
<1>. QED  BY <1>1, <1>2

\* A number below the word is not wrapped.
LEMMA Unwrapped ==
  ASSUME NEW n \in Nat, n < Word
  PROVE  n % Word = n
BY RatioAssumption

LEMMA Scales ==
  /\ \A n \in 0 .. 5 : Scale(n) \in Nat \ {0}
  /\ \A n \in 0 .. 4 : Scale(n + 1) = Kilo * Scale(n)
<1>1. Kilo \in Nat \ {0}
  BY RatioAssumption
<1>2. ASSUME NEW a \in Nat \ {0}
      PROVE  Kilo * a \in Nat \ {0} /\ a * Kilo = Kilo * a /\ a * Kilo \in Nat \ {0}
  BY <1>1
<1>3. /\ Kilo * Kilo \in Nat \ {0} /\ Kilo * Kilo * Kilo \in Nat \ {0}
      /\ Kilo * Kilo * Kilo * Kilo \in Nat \ {0}
      /\ Kilo * Kilo * Kilo * Kilo * Kilo \in Nat \ {0}
  BY <1>1, <1>2
<1>. QED  BY <1>1, <1>2, <1>3 DEF Scale

\* Dividing once more and scaling once more is nothing.
LEMMA DivideScale ==
  ASSUME NEW n \in Nat, n % Kilo = 0, NEW k \in 0 .. 4
  PROVE  (n \div Kilo) * Scale(k + 1) = n * Scale(k)
<1>. DEFINE q == n \div Kilo  s == Scale(k)
<1>1. Kilo \in Nat \ {0} /\ q \in Nat /\ s \in Nat /\ n = Kilo * q
  <2>1. Kilo \in Nat \ {0}
    BY RatioAssumption
  <2>2. n = Kilo * (n \div Kilo) + 0 /\ n \div Kilo \in Nat
    BY <2>1, Quotient
  <2>3. Scale(k) \in Nat
    BY Scales
  <2>. QED  BY <2>1, <2>2, <2>3
<1>2. Scale(k + 1) = Kilo * s
  BY Scales
<1>. HIDE DEF q, s
<1>3. q * (Kilo * s) = (Kilo * q) * s
  BY <1>1
<1>. QED  BY <1>1, <1>2, <1>3 DEF q, s

LEMMA Listed ==
  /\ Len(Multipliers) = 5
  /\ Multipliers[1] = "p" /\ Multipliers[2] = "n" /\ Multipliers[3] = "u"
  /\ Multipliers[4] = "m" /\ Multipliers[5] = "whole"
  /\ \A n \in 0 .. 4 : /\ Multipliers[n + 1] \in Letters \cup {"whole"}
                       /\ Multipliers[n + 1] = "p" => n = 0
                       /\ Multipliers[n + 1] # "whole" => n < 4
<1>1. /\ Len(Multipliers) = 5
      /\ Multipliers[1] = "p" /\ Multipliers[2] = "n" /\ Multipliers[3] = "u"
      /\ Multipliers[4] = "m" /\ Multipliers[5] = "whole"
  BY DEF Multipliers
<1>2. ASSUME NEW n \in 0 .. 4
      PROVE  /\ Multipliers[n + 1] \in Letters \cup {"whole"}
             /\ Multipliers[n + 1] = "p" => n = 0
             /\ Multipliers[n + 1] # "whole" => n < 4
  <2>1. n = 0 \/ n = 1 \/ n = 2 \/ n = 3 \/ n = 4
    OBVIOUS
  <2>. QED  BY <1>1, <2>1 DEF Letters
<1>. QED  BY <1>1, <1>2

\* The decoder multiplies by what the encoder divided by.
LEMMA Factors ==
  /\ \A n \in 0 .. 3 : Factor(Multipliers[n + 1]) = Scale(n)
  /\ \A m \in Letters : Factor(m) \in Nat \ {0}
  /\ \A m \in Letters \ {"p"} : Factor(m) % PicoPerMsat = 0
  /\ Factor("p") = 1
<1>1. /\ Factor("p") = 1 /\ Factor("n") = Kilo /\ Factor("u") = Kilo * Kilo
      /\ Factor("m") = Kilo * Kilo * Kilo
  BY DEF Factor
<1>2. \A n \in 0 .. 3 : Factor(Multipliers[n + 1]) = Scale(n)
  <2>1. /\ Multipliers[1] = "p" /\ Multipliers[2] = "n"
        /\ Multipliers[3] = "u" /\ Multipliers[4] = "m"
    BY Listed
  <2>2. Scale(0) = 1 /\ Scale(1) = Kilo /\ Scale(2) = Kilo * Kilo
        /\ Scale(3) = Kilo * Kilo * Kilo
    BY DEF Scale
  <2>3. 0 + 1 = 1 /\ 1 + 1 = 2 /\ 2 + 1 = 3 /\ 3 + 1 = 4 /\ 0 .. 3 = {0, 1, 2, 3}
    OBVIOUS
  <2>. QED  BY <1>1, <2>1, <2>2, <2>3, Zenon
<1>3. \A n \in 0 .. 3 : Scale(n) \in Nat \ {0}
  BY Scales
<1>4. \A m \in Letters : Factor(m) \in Nat \ {0}
  BY <1>1, <1>3 DEF Letters, Scale
<1>5. PICK q \in Nat : Kilo = q * PicoPerMsat
  <2>1. Kilo \in Nat /\ PicoPerMsat \in Nat \ {0} /\ Kilo % PicoPerMsat = 0
    BY RatioAssumption
  <2>2. Kilo = PicoPerMsat * (Kilo \div PicoPerMsat) + 0 /\ Kilo \div PicoPerMsat \in Nat
    BY <2>1, Quotient
  <2>. DEFINE q == Kilo \div PicoPerMsat
  <2>. HIDE DEF q
  <2>3. Kilo = q * PicoPerMsat /\ q \in Nat
    BY <2>1, <2>2 DEF q
  <2>. QED  BY <2>3
<1>6. ASSUME NEW a \in Nat
      PROVE  (Kilo * a) % PicoPerMsat = 0
  <2>1. Kilo * a = (q * a) * PicoPerMsat /\ q * a \in Nat
    <3>1. PICK d \in Nat \ {0} : d = PicoPerMsat
      BY RatioAssumption
    <3>2. (q * d) * a = (q * a) * d /\ q * a \in Nat
      BY <1>5, <3>1
    <3>. QED  BY <1>5, <3>1, <3>2
  <2>2. PicoPerMsat \in Nat \ {0}
    BY RatioAssumption
  <2>. QED  BY <2>1, <2>2, Multiple, Zenon
<1>7. Kilo % PicoPerMsat = 0 /\ (Kilo * Kilo) % PicoPerMsat = 0
      /\ (Kilo * Kilo * Kilo) % PicoPerMsat = 0
  <2>1. Kilo \in Nat /\ Kilo * Kilo \in Nat
    BY RatioAssumption
  <2>2. Kilo * (Kilo * Kilo) = Kilo * Kilo * Kilo
    BY <2>1
  <2>. QED  BY <1>6, <2>1, <2>2, RatioAssumption
<1>. QED  BY <1>1, <1>2, <1>4, <1>7 DEF Letters

-----------------------------------------------------------------------------
(* The invariant is preserved by every step *)

LEMMA DropNothing ==
  ASSUME NEW n \in Nat
  PROVE  /\ (n % Word) \div PicoPerMsat \in 0 .. Word - 1
         /\ n < Word /\ n % PicoPerMsat = 0 =>
              ((n % Word) \div PicoPerMsat) * PicoPerMsat = n
<1>1. PicoPerMsat \in Nat \ {0} /\ Word \in Nat \ {0}
  BY RatioAssumption
<1>2. n % Word \in 0 .. Word - 1
  BY <1>1, Quotient
<1>3. ASSUME NEW m \in 0 .. Word - 1
      PROVE  m \div PicoPerMsat \in 0 .. Word - 1
  <2>1. m \div PicoPerMsat \in 0 .. m
    BY <1>1, Quotient
  <2>. QED  BY <1>1, <2>1
<1>4. ASSUME n < Word, n % PicoPerMsat = 0
      PROVE  ((n % Word) \div PicoPerMsat) * PicoPerMsat = n
  <2>. DEFINE q == n \div PicoPerMsat
  <2>1. n % Word = n
    BY <1>4, Unwrapped
  <2>2. n = PicoPerMsat * q + 0 /\ q \in Nat
    BY <1>1, <1>4, Quotient
  <2>. HIDE DEF q
  <2>3. n = q * PicoPerMsat
    BY <1>1, <2>2
  <2>. QED  BY <2>1, <2>3 DEF q
<1>. QED  BY <1>2, <1>3, <1>4

LEMMA MultipleOf ==
  ASSUME NEW a \in Nat, NEW f \in Nat, NEW d \in Nat \ {0}, a % d = 0 \/ f % d = 0
  PROVE  (a * f) % d = 0
<1>1. ASSUME NEW b \in Nat, NEW c \in Nat, b % d = 0
      PROVE  (b * c) % d = 0
  <2>. DEFINE q == b \div d
  <2>1. b = d * q + 0 /\ q \in Nat
    BY <1>1, Quotient
  <2>. HIDE DEF q
  <2>2. b * c = (q * c) * d /\ q * c \in Nat
    BY <2>1
  <2>. QED  BY <2>2, Multiple
<1>2. a * f = f * a
  OBVIOUS
<1>. QED  BY <1>1, <1>2

\* An amount read from a part that is not refused
LEMMA Exact ==
  ASSUME NEW h \in [amount : 0 .. Word - 1, multiplier : {"p", "n", "u", "m", "whole", None}],
         h = Bare \/ h.multiplier \in Letters \cup {"whole"},
         h.amount # 0, ~Refused(h)
  PROVE  /\ h.multiplier \in Letters
         /\ Picobitcoins(h) \div PicoPerMsat \in 0 .. Word - 1
         /\ h.amount * Factor(h.multiplier) < Word =>
              (Picobitcoins(h) \div PicoPerMsat) * PicoPerMsat = h.amount * Factor(h.multiplier)
<1>1. PICK a, m : a = h.amount /\ m = h.multiplier
  OBVIOUS
<1>2. /\ m \in Letters /\ a \in Nat
      /\ m = "p" => a % PicoPerMsat = 0
  <2>1. h # Bare
    BY DEF Bare
  <2>. QED  BY <1>1, <2>1, RatioAssumption DEF Refused, Matches, SubMillisatoshi, Letters
<1>3. PICK f \in Nat : f = Factor(m) /\ (m # "p" => f % PicoPerMsat = 0)
  BY <1>2, Factors
<1>4. (a * f) % PicoPerMsat = 0 /\ a * f \in Nat
  <2>1. PicoPerMsat \in Nat \ {0} /\ (a % PicoPerMsat = 0 \/ f % PicoPerMsat = 0)
    BY <1>2, <1>3, RatioAssumption
  <2>2. (a * f) % PicoPerMsat = 0
    BY <1>2, <1>3, <2>1, MultipleOf, Zenon
  <2>. QED  BY <1>2, <1>3, <2>2
<1>5. Picobitcoins(h) = (a * f) % Word
  BY <1>1, <1>3, Zenon DEF Picobitcoins
<1>. QED  BY <1>1, <1>2, <1>3, <1>4, <1>5, DropNothing

LEMMA InitIInv == Init => IInv
<1>. SUFFICES ASSUME Init PROVE IInv
  OBVIOUS
<1>1. 0 \in 0 .. Word - 1 /\ 0 \in 0 .. Len(Multipliers) /\ Amounts \subseteq 0 .. Word - 1
  BY RatioAssumption DEF Multipliers
<1>2. CASE stage = "holding" /\ msats \in Amounts /\ origin = msats /\ hrp = Bare
  BY <1>1, <1>2 DEF Init, IInv, TypeOK, Holding, Dividing, Written, Read, AmountSurvives,
                    ReadIsExact, Bare
<1>3. CASE /\ stage = "encoded" /\ msats = 0 /\ origin = None
           /\ hrp \in [amount : Amounts, multiplier : {"p", "n", "u", "m", "whole"}]
  BY <1>1, <1>3 DEF Init, IInv, TypeOK, Holding, Dividing, Written, Read, AmountSurvives,
                    ReadIsExact, Letters
<1>. QED  BY <1>2, <1>3 DEF Init

LEMMA EncodeHRPIInv ==
  ASSUME IInv, EncodeHRP
  PROVE  IInv'
<1>1. /\ stage = "holding" /\ origin = msats /\ msats \in 0 .. Word - 1
      /\ msats' = msats /\ at' = at /\ hrp' = hrp /\ origin' = origin
      /\ hrp = Bare
  BY DEF IInv, TypeOK, Holding, EncodeHRP
<1>2. CASE msats = 0
  <2>1. stage' = "encoded" /\ units' = units
    BY <1>2 DEF EncodeHRP
  <2>. QED
    BY <1>1, <1>2, <2>1 DEF IInv, TypeOK, Holding, Dividing, Written, Read, AmountSurvives,
                            ReadIsExact
<1>3. CASE msats # 0
  <2>1. stage' = "dividing" /\ units' = (msats * PicoPerMsat) % Word
    BY <1>3 DEF EncodeHRP
  <2>. DEFINE n == msats * PicoPerMsat
  <2>2. n \in Nat
    BY <1>1, RatioAssumption
  <2>3. units' \in 0 .. Word - 1 /\ (Fits(origin) => units' = n)
    <3>. HIDE DEF n
    <3>1. units' = n % Word /\ (Fits(origin) => n < Word)
      BY <1>1, <2>1 DEF Fits, n
    <3>. QED  BY <2>2, <3>1, Quotient, Unwrapped, RatioAssumption
  <2>4. at = 0 /\ Scale(0) = 1
    BY <1>1 DEF IInv, Holding, Scale
  <2>5. TypeOK'
    BY <1>1, <2>1, <2>3 DEF IInv, TypeOK
  <2>6. Dividing'
    <3>1. n * 1 = n
      BY <2>2
    <3>. QED  BY <1>1, <2>1, <2>3, <2>4, <3>1 DEF Dividing, Fits
  <2>. QED
    BY <1>1, <2>1, <2>5, <2>6 DEF IInv, Holding, Written, Read, AmountSurvives, ReadIsExact
<1>. QED  BY <1>2, <1>3

LEMMA DivideIInv ==
  ASSUME IInv, Divide
  PROVE  IInv'
<1>1. /\ stage = "dividing" /\ units % Kilo = 0 /\ units \in 0 .. Word - 1 /\ at \in 0 .. 4
      /\ at' = at + 1 /\ units' = units \div Kilo
      /\ stage' = stage /\ msats' = msats /\ hrp' = hrp /\ origin' = origin
  BY Listed DEF IInv, TypeOK, Divide
<1>2. Word \in Nat \ {0} /\ Kilo \in Nat \ {0}
  BY RatioAssumption
<1>3. units' \in 0 .. Word - 1
  <2>1. units \div Kilo \in 0 .. units
    BY <1>1, <1>2, Quotient
  <2>. QED  BY <1>1, <1>2, <2>1
<1>4. TypeOK'
  BY <1>1, <1>3, Listed DEF IInv, TypeOK
<1>5. Dividing'
  <2>1. (units \div Kilo) * Scale(at + 1) = units * Scale(at)
    BY <1>1, <1>2, DivideScale
  <2>. QED  BY <1>1, <2>1, Zenon DEF IInv, Dividing, Fits
<1>. QED
  BY <1>1, <1>4, <1>5 DEF IInv, Holding, Written, Read, AmountSurvives, ReadIsExact

LEMMA StopIInv ==
  ASSUME IInv, Stop
  PROVE  IInv'
<1>1. /\ stage = "dividing" /\ units \in 0 .. Word - 1 /\ at \in 0 .. 5
      /\ (at \in 0 .. 4 /\ units % Kilo # 0 /\ at' = at + 1) \/ (at = 5 /\ at' = 5)
      /\ stage' = "encoded" /\ hrp' = [amount |-> units, multiplier |-> Multipliers[at']]
      /\ msats' = msats /\ units' = units /\ origin' = origin
  BY Listed DEF IInv, TypeOK, Stop
<1>2. at' \in 1 .. 5 /\ Multipliers[at'] \in Letters \cup {"whole"}
  <2>1. at' \in 1 .. 5
    BY <1>1
  <2>2. ASSUME NEW k \in 1 .. 5
        PROVE  \E n \in 0 .. 4 : k = n + 1
    <3>1. k - 1 \in 0 .. 4 /\ k = (k - 1) + 1
      OBVIOUS
    <3>. QED  BY <3>1
  <2>. QED  BY <2>1, <2>2, Listed
<1>3. hrp'.amount = units /\ hrp'.multiplier = Multipliers[at']
  BY <1>1
<1>4. TypeOK'
  BY <1>1, <1>2, Listed DEF IInv, TypeOK, Letters
<1>5. Written'
  <2>. SUFFICES ASSUME origin # None, Fits(origin)
                PROVE  (\E n \in 0 .. 4 : Encoded(n)') \/ Overdivided'
    BY <1>1 DEF Written, Fits
  <2>1. units * Scale(at) = origin * PicoPerMsat
    BY <1>1 DEF IInv, Dividing
  <2>2. CASE at \in 0 .. 4 /\ units % Kilo # 0 /\ at' = at + 1
    <3>1. PICK n \in 0 .. 4 : n = at
      BY <2>2
    <3>2. Encoded(n)'
      BY <1>1, <1>3, <2>1, <2>2, <3>1, Zenon DEF Encoded
    <3>. QED  BY <3>2
  <2>3. CASE at = 5 /\ at' = 5
    <3>1. hrp'.multiplier = "whole"
      BY <1>3, <2>3, Listed
    <3>2. Overdivided'
      BY <1>1, <1>3, <2>1, <2>3, <3>1, Zenon DEF Overdivided
    <3>. QED  BY <3>2
  <2>. QED  BY <1>1, <2>2, <2>3
<1>. QED
  BY <1>1, <1>2, <1>3, <1>4, <1>5 DEF IInv, Holding, Dividing, Read, AmountSurvives, ReadIsExact

\* What the encoder wrote of an amount that fits is read as that amount.
LEMMA WrittenIsRead ==
  ASSUME IInv, stage = "encoded", origin # None, Fits(origin), ~Refused(hrp), hrp.amount # 0
  PROVE  Picobitcoins(hrp) \div PicoPerMsat = origin
<1>1. PICK n \in 0 .. 4 : Encoded(n)
  BY DEF IInv, Written, Bare, Overdivided, Refused, Matches
<1>2. n \in 0 .. 3
  <2>1. n # 4
    BY <1>1, Listed DEF Encoded, Refused, Matches
  <2>. QED  BY <2>1
<1>3. hrp.amount * Factor(hrp.multiplier) = origin * PicoPerMsat
  BY <1>1, <1>2, Factors DEF Encoded
<1>4. origin \in Nat /\ PicoPerMsat \in Nat \ {0}
  BY RatioAssumption DEF IInv, TypeOK
<1>5. Picobitcoins(hrp) = origin * PicoPerMsat
  BY <1>3, <1>4, Unwrapped DEF Picobitcoins, Fits
<1>. QED  BY <1>4, <1>5, Multiple

LEMMA DecodeHRPIInv ==
  ASSUME IInv, DecodeHRP
  PROVE  IInv'
<1>1. /\ stage = "encoded" /\ ~Refused(hrp) /\ stage' = "decoded"
      /\ units' = units /\ at' = at /\ hrp' = hrp /\ origin' = origin
      /\ msats' = IF hrp.amount = 0 THEN 0 ELSE Picobitcoins(hrp) \div PicoPerMsat
  BY DEF DecodeHRP
<1>2. /\ hrp \in [amount : 0 .. Word - 1, multiplier : {"p", "n", "u", "m", "whole", None}]
      /\ hrp = Bare \/ hrp.multiplier \in Letters \cup {"whole"}
  BY DEF IInv, TypeOK, Holding
<1>3. hrp.amount # 0 =>
        /\ msats' \in 0 .. Word - 1
        /\ hrp.amount * Factor(hrp.multiplier) < Word =>
              msats' * PicoPerMsat = hrp.amount * Factor(hrp.multiplier)
  BY <1>1, <1>2, Exact
<1>4. TypeOK'
  <2>1. 0 \in 0 .. Word - 1
    BY RatioAssumption
  <2>2. msats' \in 0 .. Word - 1
    BY <1>1, <1>3, <2>1
  <2>. QED  BY <1>1, <2>2 DEF IInv, TypeOK
<1>5. AmountSurvives'
  <2>. SUFFICES ASSUME origin # None, Fits(origin)
                PROVE  msats' = origin
    BY <1>1 DEF AmountSurvives, Fits
  <2>1. CASE hrp.amount # 0
    BY <1>1, <2>1, WrittenIsRead
  <2>2. CASE hrp.amount = 0 /\ origin # 0
    <3>1. PICK n \in 0 .. 4 : Encoded(n)
      BY <1>1, <2>2 DEF IInv, Written, Overdivided, Refused, Matches
    <3>2. 0 % Kilo = 0
      BY RatioAssumption
    <3>. QED  BY <2>2, <3>1, <3>2 DEF Encoded
  <2>. QED  BY <1>1, <2>1, <2>2
<1>6. Written' /\ Holding' /\ Dividing' /\ Read'
  <2>1. /\ Fits(origin') = Fits(origin) /\ (Refused(hrp') <=> Refused(hrp))
        /\ \A n : Encoded(n)' <=> Encoded(n)
        /\ Overdivided' <=> Overdivided
    BY <1>1, Zenon DEF Encoded, Overdivided
  <2>. QED  BY <1>1, <2>1 DEF IInv, Written, Holding, Dividing, Read
<1>7. ReadIsExact'
  BY <1>1, <1>3 DEF ReadIsExact
<1>. QED  BY <1>4, <1>5, <1>6, <1>7 DEF IInv

LEMMA RefuseHRPIInv ==
  ASSUME IInv, RefuseHRP
  PROVE  IInv'
<1>1. /\ stage = "encoded" /\ stage' = "refused"
      /\ units' = units /\ at' = at /\ hrp' = hrp /\ origin' = origin /\ msats' = msats
  BY DEF RefuseHRP
<1>2. (\A n : Encoded(n)' <=> Encoded(n)) /\ (Overdivided' <=> Overdivided)
  BY <1>1, Zenon DEF Encoded, Overdivided
<1>. QED
  BY <1>1, <1>2 DEF IInv, TypeOK, Written, Holding, Dividing, Read, AmountSurvives, ReadIsExact

LEMMA NextIInv == IInv /\ [Next]_vars => IInv'
<1>. SUFFICES ASSUME IInv, [Next]_vars PROVE IInv'
  OBVIOUS
<1>1. CASE UNCHANGED vars
  <2>1. /\ stage' = stage /\ msats' = msats /\ units' = units /\ at' = at /\ hrp' = hrp
        /\ origin' = origin
    BY <1>1 DEF vars
  <2>2. Written' = Written
    BY <2>1, Zenon DEF Written, Encoded, Overdivided
  <2>3. TypeOK' = TypeOK /\ Holding' = Holding /\ Dividing' = Dividing /\ Read' = Read
    BY <2>1, Zenon DEF TypeOK, Holding, Dividing, Read
  <2>4. AmountSurvives' = AmountSurvives /\ ReadIsExact' = ReadIsExact
    BY <2>1, Zenon DEF AmountSurvives, ReadIsExact
  <2>. QED  BY <2>2, <2>3, <2>4 DEF IInv
<1>. QED
  BY <1>1, EncodeHRPIInv, DivideIInv, StopIInv, DecodeHRPIInv, RefuseHRPIInv DEF Next

-----------------------------------------------------------------------------
(* The shortest form *)

\* A later unit is a multiple of the ratio times an earlier one.
LEMMA LaterUnits ==
  ASSUME NEW n \in 0 .. 4, NEW k \in 0 .. 4, n < k
  PROVE  \E c \in Nat \ {0} : Scale(k) = (Kilo * c) * Scale(n)
<1>1. Kilo \in Nat \ {0} /\ \A j \in 0 .. 5 : Scale(j) \in Nat \ {0}
  BY RatioAssumption, Scales
<1>2. ASSUME NEW i \in 0 .. 3
      PROVE  Scale(i + 1) = (Kilo * 1) * Scale(i)
  BY <1>1, Scales
<1>3. ASSUME NEW j \in 0 .. 3, NEW c \in Nat \ {0}, Scale(j) = (Kilo * c) * Scale(n)
      PROVE  \E d \in Nat \ {0} : Scale(j + 1) = (Kilo * d) * Scale(n)
  <2>1. PICK s \in Nat : s = Scale(n)
    BY <1>1
  <2>2. PICK d \in Nat \ {0} : d = Kilo * c
    BY <1>1
  <2>3. Kilo * (d * s) = (Kilo * d) * s
    BY <1>1, <2>1, <2>2
  <2>4. Scale(j + 1) = Kilo * ((Kilo * c) * Scale(n))
    BY <1>3, Scales
  <2>5. Scale(j + 1) = (Kilo * d) * Scale(n)
    BY <2>1, <2>2, <2>3, <2>4
  <2>. QED  BY <2>5
<1>4. n \in 0 .. 3 /\ k \in {n + 1, (n + 1) + 1, ((n + 1) + 1) + 1, (((n + 1) + 1) + 1) + 1}
  OBVIOUS
<1>5. \E c \in Nat \ {0} : Scale(n + 1) = (Kilo * c) * Scale(n)
  BY <1>2, <1>4
<1>6. n + 1 \in 0 .. 3 => \E c \in Nat \ {0} : Scale((n + 1) + 1) = (Kilo * c) * Scale(n)
  BY <1>3, <1>5
<1>7. (n + 1) + 1 \in 0 .. 3 =>
        \E c \in Nat \ {0} : Scale(((n + 1) + 1) + 1) = (Kilo * c) * Scale(n)
  BY <1>3, <1>4, <1>6
<1>8. ((n + 1) + 1) + 1 \in 0 .. 3 =>
        \E c \in Nat \ {0} : Scale((((n + 1) + 1) + 1) + 1) = (Kilo * c) * Scale(n)
  BY <1>3, <1>4, <1>7
<1>. QED  BY <1>4, <1>5, <1>6, <1>7, <1>8

\* A number the ratio does not divide is the least of the exact forms.
LEMMA LeastForm ==
  ASSUME NEW a \in Nat, a % Kilo # 0, NEW n \in 0 .. 4, NEW k \in 0 .. 4,
         NEW p \in Nat, a * Scale(n) = p, p % Scale(k) = 0
  PROVE  a <= p \div Scale(k)
<1>1. PICK s \in Nat \ {0} : s = Scale(n)
  BY Scales
<1>2. PICK t \in Nat \ {0} : t = Scale(k)
  BY Scales
<1>3. PICK q \in Nat : q = p \div t /\ p = t * q
  BY <1>2, Divided
<1>4. a * s = t * q
  BY <1>1, <1>3
<1>5. CASE n = k
  <2>1. s = t
    BY <1>1, <1>2, <1>5
  <2>2. a * s = q * s
    BY <1>2, <1>3, <1>4, <2>1
  <2>3. a = (a * s) \div s /\ q = (q * s) \div s
    BY <1>1, <1>3, Multiple
  <2>. QED  BY <1>2, <1>3, <2>2, <2>3
<1>6. CASE n < k
  <2>1. PICK c \in Nat \ {0} : Scale(k) = (Kilo * c) * Scale(n)
    BY <1>6, LaterUnits
  <2>2. PICK b \in Nat : b = c * q
    BY <1>3, <2>1
  <2>3. Kilo \in Nat \ {0}
    BY RatioAssumption
  <2>4. t * q = (b * Kilo) * s
    <3>1. t = (Kilo * c) * s
      BY <1>1, <1>2, <2>1
    <3>2. ((Kilo * c) * s) * q = ((c * q) * Kilo) * s
      BY <1>1, <1>3, <2>1, <2>3
    <3>. QED  BY <2>2, <3>1, <3>2
  <2>5. a = b * Kilo
    <3>1. PICK m \in Nat : m = b * Kilo
      BY <2>2, <2>3
    <3>2. a * s = m * s
      BY <1>4, <2>4, <3>1
    <3>3. a = (a * s) \div s /\ m = (m * s) \div s
      BY <1>1, <3>1, Multiple
    <3>. QED  BY <3>1, <3>2, <3>3
  <2>. QED  BY <2>2, <2>3, <2>5, Multiple
<1>7. CASE k < n
  <2>1. PICK c \in Nat \ {0} : Scale(n) = (Kilo * c) * Scale(k)
    BY <1>7, LaterUnits
  <2>2. PICK d \in Nat \ {0} : d = Kilo * c
    BY <2>1, RatioAssumption
  <2>3. PICK m \in Nat : m = a * d /\ a <= m
    <3>1. a <= a * d /\ a * d \in Nat
      BY <2>2, Multiple
    <3>. QED  BY <3>1
  <2>4. m * t = q * t
    <3>1. s = d * t
      BY <1>1, <1>2, <2>1, <2>2
    <3>2. a * (d * t) = (a * d) * t /\ t * q = q * t
      BY <1>2, <1>3, <2>2
    <3>. QED  BY <1>4, <2>3, <3>1, <3>2
  <2>5. m = (m * t) \div t /\ q = (q * t) \div t
    BY <1>2, <1>3, <2>3, Multiple
  <2>. QED  BY <1>2, <1>3, <2>3, <2>4, <2>5
<1>. QED  BY <1>5, <1>6, <1>7

\* The units are what the encoder has divided by.
LEMMA Units ==
  /\ \A n \in 0 .. 4 : Unit(Multipliers[n + 1]) = Scale(n)
  /\ \A m \in Letters \cup {"whole"} : \E k \in 0 .. 4 : Unit(m) = Scale(k)
  /\ Kilo * Unit("whole") = Scale(5)
<1>1. /\ Unit("p") = 1 /\ Unit("n") = Kilo /\ Unit("u") = Kilo * Kilo
      /\ Unit("m") = Kilo * Kilo * Kilo /\ Unit("whole") = Kilo * Kilo * Kilo * Kilo
  BY DEF Unit, Factor
<1>2. /\ Scale(0) = 1 /\ Scale(1) = Kilo /\ Scale(2) = Kilo * Kilo
      /\ Scale(3) = Kilo * Kilo * Kilo /\ Scale(4) = Kilo * Kilo * Kilo * Kilo
  BY DEF Scale
<1>3. /\ 0 + 1 = 1 /\ 1 + 1 = 2 /\ 2 + 1 = 3 /\ 3 + 1 = 4 /\ 4 + 1 = 5
      /\ 0 .. 4 = {0, 1, 2, 3, 4}
  OBVIOUS
<1>4. \A n \in 0 .. 4 : Unit(Multipliers[n + 1]) = Scale(n)
  BY <1>1, <1>2, <1>3, Listed, Zenon
<1>5. \A m \in Letters \cup {"whole"} : \E k \in 0 .. 4 : Unit(m) = Scale(k)
  <2>1. /\ Unit("p") = Scale(0) /\ Unit("n") = Scale(1) /\ Unit("u") = Scale(2)
        /\ Unit("m") = Scale(3) /\ Unit("whole") = Scale(4)
    BY <1>1, <1>2, Zenon
  <2>2. 0 \in 0 .. 4 /\ 1 \in 0 .. 4 /\ 2 \in 0 .. 4 /\ 3 \in 0 .. 4 /\ 4 \in 0 .. 4
    OBVIOUS
  <2>. QED  BY <2>1, <2>2, Zenon DEF Letters
<1>6. Kilo * Unit("whole") = Scale(5)
  <2>1. Scale(4 + 1) = Kilo * Scale(4)
    BY Scales
  <2>2. 4 + 1 = 5
    OBVIOUS
  <2>. QED  BY <1>1, <1>2, <2>1, <2>2, Zenon
<1>. QED  BY <1>4, <1>5, <1>6

-----------------------------------------------------------------------------
(* The theorems *)

\* However an invoice came about, the encoder's quotients scale back to the
\* amount and what is decoded is what was written.
THEOREM Invariance == Spec => []IInv
<1>. QED  BY InitIInv, NextIInv, PTL DEF Spec

\* The variables have their types: the encoder takes no multiplier beyond the
\* last, and every amount stays a machine word.
THEOREM TypeCorrect == Spec => []TypeOK
<1>1. IInv => TypeOK
  BY DEF IInv
<1>. QED  BY <1>1, Invariance, PTL

\* encodeHRP followed by decodeHRP gives the amount back, whenever its
\* picobitcoins are a machine word.
THEOREM Survives == Spec => []AmountSurvives
<1>1. IInv => AmountSurvives
  BY DEF IInv
<1>. QED  BY <1>1, Invariance, PTL

\* decodeHRP reads every amount it accepts exactly: its division by ten drops
\* nothing, whoever wrote the invoice.
THEOREM Exactly == Spec => []ReadIsExact
<1>1. IInv => ReadIsExact
  BY DEF IInv
<1>. QED  BY <1>1, Invariance, PTL

\* An amount that encodeHRP writes with the multiplier for pico ends in a zero,
\* so decodeHRP does not refuse it as sub-millisatoshi.
THEOREM NoSubMillisatoshi == Spec => []PicoEndsInZero
<1>1. IInv => PicoEndsInZero
  <2>. SUFFICES ASSUME IInv, stage \in {"encoded", "refused"}, origin # None, Fits(origin),
                       hrp.multiplier = "p"
                PROVE  hrp.amount % PicoPerMsat = 0
    BY DEF PicoEndsInZero, SubMillisatoshi
  <2>1. PICK n \in 0 .. 4 : Encoded(n)
    BY NoneAssumption DEF IInv, Written, Bare, Overdivided
  <2>2. n = 0
    BY <2>1, Listed DEF Encoded
  <2>3. hrp.amount * 1 = origin * PicoPerMsat
    BY <2>1, <2>2 DEF Encoded, Scale
  <2>4. hrp.amount \in Nat /\ origin \in Nat /\ PicoPerMsat \in Nat \ {0}
    BY RatioAssumption DEF IInv, TypeOK
  <2>5. hrp.amount = origin * PicoPerMsat
    BY <2>3, <2>4
  <2>. QED  BY <2>4, <2>5, Multiple
<1>. QED  BY <1>1, Invariance, PTL

\* What encodeHRP writes of an amount that fits is worth the amount, and no
\* multiplier writes it with a smaller number, thousands of bitcoins excepted.
THEOREM ShortestForm == Spec => []Shortest
<1>1. IInv => Shortest
  <2>. SUFFICES ASSUME IInv, OwnWritten, ~Thousands(origin)
                PROVE  /\ Denotes(hrp, origin)
                       /\ \A m \in Letters \cup {"whole"} :
                            (origin * PicoPerMsat) % Unit(m) = 0 =>
                              hrp.amount <= (origin * PicoPerMsat) \div Unit(m)
    BY DEF Shortest, Letters
  <2>1. PICK p \in Nat : p = origin * PicoPerMsat
    BY RatioAssumption DEF IInv, TypeOK, OwnWritten
  <2>2. hrp.amount \in Nat
    BY RatioAssumption DEF IInv, TypeOK
  <2>3. ~Overdivided
    <3>1. ASSUME Overdivided PROVE FALSE
      <4>1. PICK t \in Nat \ {0} : t = Scale(5)
        BY Scales
      <4>2. p % t = 0
        BY <2>1, <2>2, <3>1, <4>1, Multiple DEF Overdivided
      <4>. QED  BY <2>1, <4>1, <4>2, Units DEF Thousands
    <3>. QED  BY <3>1
  <2>4. PICK n \in 0 .. 4 : Encoded(n)
    BY <2>3 DEF IInv, Written, OwnWritten
  <2>5. hrp.amount * Scale(n) = p /\ hrp.amount % Kilo # 0
    BY <2>1, <2>4, Zenon DEF Encoded
  <2>6. Denotes(hrp, origin)
    BY <2>1, <2>4, <2>5, Units, Zenon DEF Denotes, Encoded
  <2>7. ASSUME NEW m \in Letters \cup {"whole"}, p % Unit(m) = 0
        PROVE  hrp.amount <= p \div Unit(m)
    <3>1. PICK k \in 0 .. 4 : Unit(m) = Scale(k)
      BY Units
    <3>2. p % Scale(k) = 0
      BY <2>7, <3>1
    <3>3. hrp.amount <= p \div Scale(k)
      BY <2>2, <2>5, <3>2, LeastForm
    <3>. QED  BY <3>1, <3>3
  <2>. QED  BY <2>1, <2>6, <2>7
<1>. QED  BY <1>1, Invariance, PTL
=============================================================================
