------------------------------- MODULE Amount -------------------------------
(***************************************************************************)
(* The amount in the human-readable part of an invoice                     *)
(* (src/lightning/bolt11/encoding.go, src/lightning/lntypes/amount.go).    *)
(*                                                                         *)
(* The encoder turns millisatoshis into picobitcoins and divides them by a *)
(* thousand as often as it can, moving from one multiplier to the next.    *)
(* The decoder reads an amount with its multiplier, of this encoder or of  *)
(* another implementation, back into millisatoshis.  All arithmetic is on  *)
(* unsigned machine words and wraps at Word.  A part without amount and    *)
(* multiplier is [amount |-> 0, multiplier |-> None].                      *)
(***************************************************************************)
EXTENDS Naturals, Sequences

CONSTANTS
  Kilo,         \* 1000: the ratio of one multiplier to the next
  PicoPerMsat,  \* 10
  Word,         \* 2^64
  Amounts,      \* bound: the millisatoshis and the numbers that are tried
  None

ASSUME RatioAssumption ==
  /\ PicoPerMsat \in Nat \ {0} /\ Kilo \in Nat \ {0, 1} /\ Word \in Nat \ {0}
  /\ Kilo % PicoPerMsat = 0 /\ Kilo * Kilo * Kilo * Kilo * Kilo < Word
  /\ Amounts \subseteq 0 .. Word - 1

\* The last is the empty string: whole bitcoins.
Multipliers == <<"p", "n", "u", "m", "whole">>

ASSUME NoneAssumption == None \notin {"p", "n", "u", "m", "whole"}

VARIABLES
  stage,   \* "holding", "dividing", "encoded", "decoded" or "refused"
  msats,   \* PaymentRequest.Msats
  units,   \* the encoder's units
  at,      \* the encoder's place in Multipliers, 0 before the loop
  hrp,     \* the amount and the multiplier that are written
  origin   \* history: the Msats that were encoded, None for a foreign invoice

vars == <<stage, msats, units, at, hrp, origin>>

Bare == [amount |-> 0, multiplier |-> None]

-----------------------------------------------------------------------------
(* An amount to encode, or the amount of an invoice another implementation *)
(* wrote.                                                                  *)
Init ==
  /\ units = 0 /\ at = 0
  /\ \/ /\ stage = "holding" /\ msats \in Amounts /\ origin = msats /\ hrp = Bare
     \/ /\ stage = "encoded" /\ msats = 0 /\ origin = None
        /\ hrp \in [amount : Amounts, multiplier : {"p", "n", "u", "m", "whole"}]

\* Mutation: millisatoshis are taken for picobitcoins.
EncodeHRPUnscaled ==
  /\ stage = "holding"
  /\ IF msats = 0 THEN stage' = "encoded" /\ UNCHANGED units
                  ELSE stage' = "dividing" /\ units' = msats
  /\ UNCHANGED <<msats, at, hrp, origin>>

EncodeHRP ==
  /\ stage = "holding"
  /\ IF msats = 0 THEN stage' = "encoded" /\ UNCHANGED units
                  ELSE stage' = "dividing" /\ units' = (msats * PicoPerMsat) % Word
  /\ UNCHANGED <<msats, at, hrp, origin>>

\* Mutation: the loop is not bounded by the multipliers.
DivideForever ==
  /\ stage = "dividing" /\ units % Kilo = 0
  /\ at' = at + 1 /\ units' = units \div Kilo
  /\ UNCHANGED <<stage, msats, hrp, origin>>

\* The loop takes the next multiplier and divides ...
Divide ==
  /\ stage = "dividing" /\ at < Len(Multipliers) /\ units % Kilo = 0
  /\ at' = at + 1 /\ units' = units \div Kilo
  /\ UNCHANGED <<stage, msats, hrp, origin>>

\* Mutation: the loop stops before it has tried to divide.
StopAnywhere ==
  /\ stage = "dividing" /\ at < Len(Multipliers) /\ at' = at + 1
  /\ stage' = "encoded"
  /\ hrp' = [amount |-> units, multiplier |-> Multipliers[at']]
  /\ UNCHANGED <<msats, units, origin>>

\* ... or stops, at the multiplier it has just taken or after the last one.
Stop ==
  /\ stage = "dividing"
  /\ \/ at < Len(Multipliers) /\ units % Kilo # 0 /\ at' = at + 1
     \/ at = Len(Multipliers) /\ at' = at
  /\ stage' = "encoded"
  /\ hrp' = [amount |-> units, multiplier |-> Multipliers[at']]
  /\ UNCHANGED <<msats, units, origin>>

\* Mutation: two multipliers are swapped.
FactorSwapped(multiplier) == CASE multiplier = "p" -> 1
                               [] multiplier = "n" -> Kilo * Kilo
                               [] multiplier = "u" -> Kilo
                               [] multiplier = "m" -> Kilo * Kilo * Kilo

Factor(multiplier) == CASE multiplier = "p" -> 1
                        [] multiplier = "n" -> Kilo
                        [] multiplier = "u" -> Kilo * Kilo
                        [] multiplier = "m" -> Kilo * Kilo * Kilo

Picobitcoins(h) == (h.amount * Factor(h.multiplier)) % Word

\* The expression matches an amount only together with a multiplier.
Matches(h) == h.multiplier # "whole"

SubMillisatoshi(h) == h.multiplier = "p" /\ h.amount % PicoPerMsat # 0

\* Mutation: the last decimal is not looked at.
RefusedUnmatched(h) == ~Matches(h)

Refused(h) == ~Matches(h) \/ SubMillisatoshi(h)

DecodeHRP ==
  /\ stage = "encoded" /\ ~Refused(hrp)
  /\ stage' = "decoded"
  /\ msats' = IF hrp.amount = 0 THEN 0 ELSE Picobitcoins(hrp) \div PicoPerMsat
  /\ UNCHANGED <<units, at, hrp, origin>>

RefuseHRP ==
  /\ stage = "encoded" /\ Refused(hrp)
  /\ stage' = "refused"
  /\ UNCHANGED <<msats, units, at, hrp, origin>>

Next == EncodeHRP \/ Divide \/ Stop \/ DecodeHRP \/ RefuseHRP
Spec == Init /\ [][Next]_vars

-----------------------------------------------------------------------------
(* Properties.  An amount Fits when its picobitcoins are a machine word: a *)
(* larger one wraps in the code.                                           *)
Fits(m) == m * PicoPerMsat < Word

(* Types of the variables. *)
TypeOK ==
  /\ stage \in {"holding", "dividing", "encoded", "decoded", "refused"}
  /\ msats \in 0 .. Word - 1 /\ units \in 0 .. Word - 1
  /\ at \in 0 .. Len(Multipliers)
  /\ hrp \in [amount : 0 .. Word - 1, multiplier : {"p", "n", "u", "m", "whole", None}]
  /\ origin \in Amounts \cup {None}

(* An amount that was written and is read is the amount that was written:  *)
(* no step of the division loses a digit and the decoder multiplies by     *)
(* what the encoder divided by (encoding.go:182-195 and 578-590).          *)
AmountSurvives ==
  stage = "decoded" /\ origin # None => (Fits(origin) => msats = origin)

(* The encoder's comment (encoding.go:180-181): the last decimal is a zero *)
(* when `pico' is used, so the decoder never calls an amount this package  *)
(* wrote sub-millisatoshi.                                                 *)
PicoEndsInZero ==
  stage \in {"encoded", "refused"} /\ origin # None /\ Fits(origin) => ~SubMillisatoshi(hrp)

\* The picobitcoins of one unit; without a multiplier it is a bitcoin.
Unit(multiplier) ==
  IF multiplier = "whole" THEN Kilo * Kilo * Kilo * Kilo ELSE Factor(multiplier)

\* What is written is worth m millisatoshis.
Denotes(h, m) == h.amount * Unit(h.multiplier) = m * PicoPerMsat

\* Amounts of thousands of bitcoins
Thousands(m) == (m * PicoPerMsat) % (Kilo * Unit("whole")) = 0

\* An amount that is positive, fits, and has just been written
OwnWritten == stage = "encoded" /\ origin # None /\ Fits(origin) /\ origin # 0

(* The shortest representation: what is written is worth the amount, and   *)
(* of all the ways to write it, with any multiplier or none, none has a    *)
(* smaller number (encoding.go:182-195).  Thousands of bitcoins are        *)
(* excepted: the loop divides once more than there are units.              *)
Shortest ==
  OwnWritten /\ ~Thousands(origin) =>
    /\ Denotes(hrp, origin)
    /\ \A multiplier \in {"p", "n", "u", "m", "whole"} :
         (origin * PicoPerMsat) % Unit(multiplier) = 0 =>
           hrp.amount <= (origin * PicoPerMsat) \div Unit(multiplier)

(* An amount that is accepted is read exactly, whoever wrote it: the       *)
(* division by ten drops nothing because a sub-millisatoshi amount has     *)
(* been refused before (encoding.go:574-590).                              *)
ReadIsExact ==
  stage = "decoded" /\ hrp.amount > 0 /\ hrp.amount * Factor(hrp.multiplier) < Word
    => msats * PicoPerMsat = hrp.amount * Factor(hrp.multiplier)

(* Every amount the encoder writes is one its decoder reads: "the          *)
(* multiplier is used to represent smaller units of bitcoin"               *)
(* (encoding.go:193-194), so whole bitcoins are written without one.       *)
OwnAmountIsRead ==
  stage = "refused" => origin = None
=============================================================================
