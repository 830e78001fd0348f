----------------------------- MODULE FieldData ------------------------------
(***************************************************************************)
(* How the values of an invoice's tagged fields become groups of bits and  *)
(* values again: the numbers and bytes of src/lib/bech32, the feature      *)
(* vector of src/lightning/bolt09, the hashes, routing hints and short     *)
(* channel ids of src/lightning/lntypes and the addresses of               *)
(* src/lib/bitcoin.                                                        *)
(*                                                                         *)
(* A conversion that can fail is a set: {} for an error, {v} for the       *)
(* result v.  A byte or a group is a number of ByteBits or GroupBits bits; *)
(* what the code calls base32 are groups of five bits.                     *)
(***************************************************************************)
EXTENDS Integers, Sequences, Subsequences

CONSTANTS
  ByteBits, GroupBits,         \* 8 and 5
  WordBits,                    \* 64, the bits of a uint
  CltvBits,                    \* 16, those of the CLTV delta
  Second,                      \* 10^9, the unit of a duration
  FirstUnknown,                \* 62, the first feature bit without a name
  HeightBits, TxBits, OutBits, \* 24, 24 and 16, a short channel id
  FeeBytes, PpmBytes, DeltaBytes, \* 4, 4 and 2, the end of a hop hint
  Points,                      \* serialized public keys that parse
  KeyBytes,                    \* 33, their length
  HashBytes,                   \* 32, a payment hash
  HashSize,                    \* 20, ripemd160.Size
  ProgramSizes,                \* 2 .. 40, witness programs
  V0Sizes,                     \* {20, 32}, those of version 0
  MaxVersion,                  \* 16, the highest witness version
  P2PKH, P2SH,                 \* 17 and 18, versions of legacy addresses
  Absent                       \* the zero value of a field

TwoTo[n \in Nat] == IF n = 0 THEN 1 ELSE 2 * TwoTo[n - 1]

Byte  == TwoTo[ByteBits]
Group == TwoTo[GroupBits]
Word  == TwoTo[WordBits]

ASSUME WidthsAssumption ==
  /\ {ByteBits, GroupBits, WordBits, CltvBits, Second} \subseteq Nat \ {0}
  /\ GroupBits < ByteBits /\ WordBits % ByteBits = 0 /\ CltvBits <= WordBits
  /\ {HeightBits, TxBits, OutBits} \subseteq Nat /\ HeightBits + TxBits + OutBits = WordBits

ASSUME SizesAssumption ==
  /\ {FeeBytes, PpmBytes, DeltaBytes} \subseteq 0 .. WordBits \div ByteBits
  /\ {KeyBytes, HashBytes, HashSize} \subseteq Nat \ {0}
  /\ \A point \in Points : point \in Seq(0 .. Byte - 1) /\ Len(point) = KeyBytes

ASSUME VersionsAssumption ==
  /\ {MaxVersion, P2PKH, P2SH} \subseteq Nat /\ {0, 1} \subseteq 0 .. MaxVersion
  /\ MaxVersion < P2PKH /\ P2PKH < P2SH /\ P2SH < Group
  /\ V0Sizes \subseteq ProgramSizes

-----------------------------------------------------------------------------
(* src/lib/bech32 *)

\* The n low digits of num, each of width bits, the most significant first.
Digits(num, width, n) == [i \in 1 .. n |-> (num \div TwoTo[width * (n - i)]) % TwoTo[width]]

\* A uint: what does not fit is shifted out.
Number(digits, width) ==
  LET first[n \in 0 .. Len(digits)] ==
        IF n = 0 THEN 0 ELSE (first[n - 1] * TwoTo[width] + digits[n]) % Word
  IN  first[Len(digits)]

BitLen(num) == Cardinality({k \in 0 .. WordBits - 1 : num \div TwoTo[k] > 0})
BitsOf(num) == {k \in 0 .. WordBits - 1 : (num \div TwoTo[k]) % 2 = 1}

\* The number of n bits that has these bits.
FromBits(bits, n) == Number([i \in 1 .. n |-> IF n - i \in bits THEN 1 ELSE 0], 1)

\* Parts of n elements each in one sequence, and a sequence cut into such parts.
Joined(parts, n) ==
  [i \in 1 .. Len(parts) * n |-> parts[(i - 1) \div n + 1][((i - 1) % n) + 1]]
Cut(s, n) == [k \in 1 .. Len(s) \div n |-> SubSeq(s, (k - 1) * n + 1, k * n)]

Bits(data, width) == Joined([i \in 1 .. Len(data) |-> Digits(data[i], 1, width)], width)
Regroup(bits, width) ==
  [k \in 1 .. Len(bits) \div width |-> Number(Cut(bits, width)[k], 1)]

\* ConvertBits with padding (bytes to groups) ...
ToGroups(bytes) ==
  LET bits == Bits(bytes, ByteBits)
  IN  Regroup(bits \o [i \in 1 .. ((-Len(bits)) % GroupBits) |-> 0], GroupBits)

\* ... and back, where what is left must be less than a group, and zero.
ToBytes(groups) ==
  LET bits  == Bits(groups, GroupBits)
      whole == Len(bits) - (Len(bits) % ByteBits)
      rest  == SubSeq(bits, whole + 1, Len(bits))
  IN  IF Len(rest) >= GroupBits \/ \E i \in DOMAIN rest : rest[i] = 1
      THEN {} ELSE {Regroup(SubSeq(bits, 1, whole), ByteBits)}

EncodeUint(num, groups) ==
  IF BitLen(num) > groups * GroupBits THEN {} ELSE {Digits(num, GroupBits, groups)}

\* Mutation: the number of groups rounds up too far.
EncodeVarUintPadded(num) == Digits(num, GroupBits, BitLen(num) \div GroupBits + 1)

EncodeVarUint(num) == Digits(num, GroupBits, (BitLen(num) + GroupBits - 1) \div GroupBits)

DecodeUint(groups) == Number(groups, GroupBits)

-----------------------------------------------------------------------------
(* Expiry: a signed duration, written in whole seconds. *)

Signed(num) == IF num < Word \div 2 THEN num ELSE num - Word

\* uint(Expiry.Seconds()); what a negative float64 becomes depends on the
\* machine: zero, or its two's complement.
Seconds(expiry) ==
  IF expiry >= 0 THEN {expiry \div Second}
                 ELSE {0, (Word - ((-expiry) \div Second)) % Word}

DecodeDuration(data) == Signed((DecodeUint(data) * Second) % Word)

-----------------------------------------------------------------------------
(* src/lightning/bolt09 *)

Set(fv, bit) ==
  [features |-> fv.features \cup {bit},
   maxBit   |-> IF bit > fv.maxBit THEN bit ELSE fv.maxBit]

NewFeatureVector(bits) ==
  LET fv[n \in 0 .. Len(bits)] ==
        IF n = 0 THEN [features |-> {}, maxBit |-> 0] ELSE Set(fv[n - 1], bits[n])
  IN  fv[Len(bits)]

IsUnknown(bit) == bit >= FirstUnknown
IsRequired(bit) == bit % 2 = 0
UnknownRequired(bits) == \E bit \in bits : IsUnknown(bit) /\ IsRequired(bit)

\* The i-th group from the end holds the bits from (i-1) * GroupBits on.
EncodeFeatures(fv) ==
  LET n == fv.maxBit \div GroupBits + 1
  IN  IF UnknownRequired(fv.features) THEN {}
      ELSE {[i \in 1 .. n |->
               FromBits({bit % GroupBits :
                           bit \in {b \in fv.features : n - b \div GroupBits = i}}, GroupBits)]}

\* Mutation: the groups are not reversed before they are read.
IsSetForwards(data, bit) == bit % GroupBits \in BitsOf(data[bit \div GroupBits + 1])

\* The bits that are set, group by group from the end, each from its low end.
IsSet(data, bit) == bit % GroupBits \in BitsOf(data[Len(data) - bit \div GroupBits])
SetBits(data) ==
  LET places == 1 .. Len(data) * GroupBits
  IN  Subsequence([i \in places |-> i - 1], {i \in places : IsSet(data, i - 1)})

\* Mutation: the rule for unknown bits is left to the encoder.
DecodeFeaturesLenient(data) == {NewFeatureVector(SetBits(data))}

DecodeFeatures(data) ==
  LET bits == SetBits(data)
  IN  IF UnknownRequired({bits[i] : i \in DOMAIN bits}) THEN {} ELSE {NewFeatureVector(bits)}

-----------------------------------------------------------------------------
(* src/lightning/lntypes: hashes, short channel ids, routing hints *)

\* Mutation: the hash becomes as long as its data.
CopyAll(old, bytes) == bytes

\* copy(h[:], hash): a short one leaves the rest of the old hash.
Copy(old, bytes) == [i \in 1 .. HashBytes |-> IF i <= Len(bytes) THEN bytes[i] ELSE old[i]]

ZeroHash == [i \in 1 .. HashBytes |-> 0]

\* The parts are shifted and or-ed, none of them is masked.
ToUint64(scid) ==
  FromBits(UNION {BitsOf((scid.height * TwoTo[TxBits + OutBits]) % Word),
                  BitsOf((scid.tx * TwoTo[OutBits]) % Word), BitsOf(scid.out)}, WordBits)

\* Mutation: the transaction index is not masked.
NewShortChannelIDFromUint64Unmasked(num) ==
  [height |-> num \div TwoTo[TxBits + OutBits],
   tx     |-> num \div TwoTo[OutBits],
   out    |-> num % TwoTo[OutBits]]

NewShortChannelIDFromUint64(num) ==
  [height |-> (num \div TwoTo[TxBits + OutBits]) % TwoTo[HeightBits],
   tx     |-> (num \div TwoTo[OutBits]) % TwoTo[TxBits],
   out    |-> num % TwoTo[OutBits]]

ScidBytes == WordBits \div ByteBits
HopLength == KeyBytes + ScidBytes + FeeBytes + PpmBytes + DeltaBytes

HopBytes(hop) ==
  hop.key \o Digits(ToUint64(hop.scid), ByteBits, ScidBytes) \o Digits(hop.fee, ByteBits, FeeBytes)
          \o Digits(hop.ppm, ByteBits, PpmBytes) \o Digits(hop.delta, ByteBits, DeltaBytes)

HopOf(bytes) ==
  LET At(from, n) == SubSeq(bytes, from + 1, from + n)
      scid == KeyBytes  fee == scid + ScidBytes  ppm == fee + FeeBytes  delta == ppm + PpmBytes
  IN  [key   |-> At(0, KeyBytes),
       scid  |-> NewShortChannelIDFromUint64(Number(At(scid, ScidBytes), ByteBits)),
       fee   |-> Number(At(fee, FeeBytes), ByteBits),
       ppm   |-> Number(At(ppm, PpmBytes), ByteBits),
       delta |-> Number(At(delta, DeltaBytes), ByteBits)]

EncodeHint(hops) ==
  ToGroups(Joined([i \in 1 .. Len(hops) |-> HopBytes(hops[i])], HopLength))

DecodeHint(data) ==
  {hops \in
     {[i \in 1 .. Len(bytes) \div HopLength |->
         HopOf(Cut(bytes, HopLength)[i])] :
        bytes \in {b \in ToBytes(data) : Len(b) % HopLength = 0}} :
     \A i \in DOMAIN hops : hops[i].key \in Points}

-----------------------------------------------------------------------------
(* src/lib/bitcoin: fallback addresses.  An address as text is base58 of a *)
(* network's version byte, a hash and a checksum, which may be right or    *)
(* not; bech32 or bech32m of a witness version and a program after a       *)
(* prefix, with a right checksum; or a public key in hex.                  *)

Networks == {"mainnet", "testnet", "regtest", "signet"}

\* The networks for which Encode knows a version byte or a prefix.
VersionByte ==
  [p2pkh |-> [mainnet |-> "00", testnet |-> "6f", signet |-> "3f"],
   p2sh  |-> [mainnet |-> "05", testnet |-> "c4", signet |-> "7b"]]
SegwitHRP == [mainnet |-> "bc", testnet |-> "tb", regtest |-> "bcrt"]

EncodeLegacy(a) ==
  IF a.network \notin DOMAIN VersionByte[a.kind] THEN {}
  ELSE {[form |-> "base58", version |-> VersionByte[a.kind][a.network], hash |-> a.hash,
         checksum |-> TRUE]}

EncodeSegwit(a) ==
  IF a.network \notin DOMAIN SegwitHRP \/ a.version \notin {0, 1} THEN {}
  ELSE {[form |-> IF a.version = 0 THEN "bech32" ELSE "bech32m",
         hrp |-> SegwitHRP[a.network], version |-> a.version, program |-> a.program]}

\* Paying to a public key is not implemented.
Encode(a) ==
  CASE a.kind \in {"p2pkh", "p2sh"} -> EncodeLegacy(a)
    [] a.kind = "segwit"            -> EncodeSegwit(a)
    [] a.kind = "p2pk"              -> {}

\* The checksum of base58 is not looked at.
decodeLegacyAddress(text) ==
  {[kind |-> kn[1], network |-> kn[2], hash |-> text.hash] :
     kn \in
       {kn \in (DOMAIN VersionByte) \X Networks :
          /\ Len(text.hash) = HashSize
          /\ kn[2] \in DOMAIN VersionByte[kn[1]]
          /\ VersionByte[kn[1]][kn[2]] = text.version}}

decodeSegwitAddress(text) ==
  {[kind |-> "segwit", network |-> network, version |-> text.version,
    program |-> text.program] :
     network \in
       {n \in DOMAIN SegwitHRP :
          /\ SegwitHRP[n] = text.hrp /\ text.version <= MaxVersion
          /\ Len(text.program) \in ProgramSizes
          /\ text.version = 0 => text.form = "bech32" /\ Len(text.program) \in V0Sizes
          /\ text.version = 1 => text.form = "bech32m"}}

DecodeAddress(text) ==
  CASE text.form \in {"bech32", "bech32m"} -> decodeSegwitAddress(text)
    [] text.form = "base58"                -> decodeLegacyAddress(text)
    [] text.form = "hex"                   -> {[kind |-> "p2pk"]}

EncodeAddress(a) ==
  CASE a.kind = "p2pkh"  -> {<<P2PKH>> \o ToGroups(a.hash)}
    [] a.kind = "p2sh"   -> {<<P2SH>> \o ToGroups(a.hash)}
    [] a.kind = "segwit" -> {<<a.version>> \o ToGroups(a.program)}
    [] a.kind = "p2pk"   -> {}

\* AddressBolt11Decoder: data begins with a version, and the address is of the
\* invoice's network.
UnknownVersion(data) == data[1] \notin {0, 1, P2PKH, P2SH}

DecodeLegacy(kind, network, data) ==
  UNION {EncodeLegacy([kind |-> kind, network |-> network, hash |-> hash]) :
           hash \in {h \in ToBytes(SubSeq(data, 2, Len(data))) : Len(h) = HashSize}}

DecodeSegwit(network, data) ==
  UNION {EncodeSegwit([network |-> network, version |-> data[1], program |-> program]) :
           program \in ToBytes(SubSeq(data, 2, Len(data)))}

DecodeFallback(network, data) ==
  CASE data[1] = P2PKH -> DecodeLegacy("p2pkh", network, data)
    [] data[1] = P2SH  -> DecodeLegacy("p2sh", network, data)
    [] OTHER           -> DecodeSegwit(network, data)

-----------------------------------------------------------------------------
(* The kinds of fields: getTaggedFieldEncoder and getTaggedFieldDecoder.   *)
(* `h' stands for the payment hash, the payment secret and the description *)
(* hash.  A description is written as the metadata `m' is.                 *)

Kinds == {"h", "m", "x", "c", "9", "r", "f"}

EncodeBolt11(k, v) ==
  CASE k = "h" -> {ToGroups(v)}
    [] k = "m" -> {ToGroups(v)}
    [] k = "x" -> {EncodeVarUint(s) : s \in Seconds(v)}
    [] k = "c" -> {EncodeVarUint(v)}
    [] k = "9" -> EncodeFeatures(v)
    [] k = "r" -> {EncodeHint(v)}
    [] k = "f" -> UNION {EncodeAddress(a) : a \in DecodeAddress(v)}

\* Where the zero value of a field counts as none.
Stored(k, v) ==
  IF v = CASE k = "h" -> ZeroHash [] k = "m" -> << >> [] k \in {"x", "c"} -> 0
           [] OTHER -> Absent
  THEN Absent ELSE v

\* What data leaves in field k of an invoice of the network, which held old.
DecodeBolt11(k, network, old, data) ==
  CASE k = "h" -> {Copy(IF old = Absent THEN ZeroHash ELSE old, h) : h \in ToBytes(data)}
    [] k = "m" -> ToBytes(data)
    [] k = "x" -> {DecodeDuration(data)}
    [] k = "c" -> {DecodeUint(data) % TwoTo[CltvBits]}
    [] k = "9" -> DecodeFeatures(data)
    [] k = "r" -> DecodeHint(data)
    [] k = "f" -> DecodeFallback(network, data)
=============================================================================
