------------------------------ MODULE DataPart ------------------------------
(***************************************************************************)
(* The data part of an invoice (src/lightning/bolt11/encoding.go): a       *)
(* timestamp, the tagged fields, each with its type, the length of its     *)
(* data and the data, and a signature.  The request of this package or the *)
(* invoice of another implementation is written and read, again and again. *)
(*                                                                         *)
(* PaymentRequest has the fields and their order with opaque values; here  *)
(* are the values with every bit.  The amount in the prefix is in Amount,  *)
(* and required fields and signatures are not checked here.                *)
(***************************************************************************)
EXTENDS FieldData

CONSTANTS
  TimestampGroups, LengthGroups, SignatureGroups, \* 7, 2 and 104
  Type,         \* the number of each kind of field
  OwnRequests,  \* requests built from options
  OtherParts,   \* invoices of other implementations: prefix and data part
  Signatures,   \* signatures
  MaxRounds     \* bound: times a request is written

Groups == 0 .. Group - 1

\* encodeTaggedField, where the data of a hash has a fixed length.
HashGroups == (HashBytes * ByteBits + GroupBits - 1) \div GroupBits

ASSUME TypeAssumption ==
  /\ DOMAIN Type = Kinds /\ \A k \in Kinds : Type[k] \in Groups
  /\ \A k, l \in Kinds : Type[k] = Type[l] => k = l

\* Fields of fixed width fit a word, and a length can say how long a hash or a
\* number is.
ASSUME GroupsAssumption ==
  /\ {TimestampGroups, LengthGroups, SignatureGroups} \subseteq Nat \ {0}
  /\ TimestampGroups * GroupBits < WordBits /\ LengthGroups * GroupBits < WordBits
  /\ {HashGroups, (WordBits + GroupBits - 1) \div GroupBits} \subseteq
        0 .. TwoTo[LengthGroups * GroupBits] - 1
  /\ \A sig \in Signatures : sig \in Seq(Groups) /\ Len(sig) = SignatureGroups

-----------------------------------------------------------------------------
(* Requests *)

Bytes == Seq(0 .. Byte - 1)

HopHint ==
  [key : Points, scid : [height : Nat, tx : Nat, out : 0 .. TwoTo[OutBits] - 1], fee : Nat,
   ppm : 0 .. TwoTo[ByteBits * PpmBytes] - 1, delta : 0 .. TwoTo[ByteBits * DeltaBytes] - 1]

Text(v) ==
  \/ /\ v.form = "base58" /\ v.hash \in Bytes
     /\ v = [form |-> v.form, version |-> v.version, hash |-> v.hash, checksum |-> v.checksum]
  \/ /\ v.form \in {"bech32", "bech32m"} /\ v.version \in Nat /\ v.program \in Bytes
     /\ v = [form |-> v.form, hrp |-> v.hrp, version |-> v.version, program |-> v.program]
  \/ v = [form |-> "hex"]

FeatureVector(v) ==
  /\ v \in [features : SUBSET Nat, maxBit : Nat]
  /\ v.features \subseteq 0 .. v.maxBit /\ (v.maxBit = 0 \/ v.maxBit \in v.features)

FieldTypeOK(k, v) ==
  \/ v = Absent
  \/ k = "h" /\ v \in [1 .. HashBytes -> 0 .. Byte - 1]
  \/ k = "m" /\ v \in Bytes
  \/ k = "x" /\ v \in -(Word \div 2) .. Word \div 2 - 1
  \/ k = "c" /\ v \in 1 .. TwoTo[CltvBits] - 1
  \/ k = "9" /\ FeatureVector(v)
  \/ k = "r" /\ v \in Seq(HopHint)
  \/ k = "f" /\ Text(v)

RequestTypeOK(q) ==
  /\ q.network \in Networks \cup {""} /\ q.time \in Nat
  /\ q.listed \in Seq(Kinds \cup {"?"})
  /\ \A k \in Kinds : FieldTypeOK(k, q.field[k])

\* What options and validate leave: a zero value counts as none, every other
\* is listed, once, and there is a payment hash.
OwnRequest(q) ==
  /\ q = [network |-> q.network, time |-> q.time, listed |-> q.listed,
          field |-> [k \in Kinds |-> q.field[k]]]
  /\ RequestTypeOK(q) /\ q.network \in Networks /\ q.listed \in Seq(Kinds)
  /\ \A k \in Kinds :
       /\ Stored(k, q.field[k]) = q.field[k]
       /\ q.field[k] # Absent => \E i \in DOMAIN q.listed : q.listed[i] = k
  /\ \A i, j \in DOMAIN q.listed : q.listed[i] = q.listed[j] => i = j
  /\ q.field["h"] # Absent

ASSUME RequestsAssumption ==
  /\ MaxRounds \in Nat
  /\ \A q \in OwnRequests : OwnRequest(q)
  /\ OtherParts \subseteq [prefix : STRING, data : Seq(Groups)]

-----------------------------------------------------------------------------
VARIABLES
  stage,    \* what is being done
  author,   \* who made the first invoice
  request,  \* the request
  invoice,  \* the invoice being written or read: prefix and data part
  todo,     \* kinds of fields still to write
  rest,     \* tagged fields still to read
  origin,   \* history: the request that was written last
  rounds    \* times a request was written

vars == <<stage, author, request, invoice, todo, rest, origin, rounds>>

Stages == {"held", "writing", "written", "reading", "unwritable", "unreadable"}

\* src/lightning/lntypes/network.go
Prefix == [mainnet |-> "lnbc", testnet |-> "lntb", regtest |-> "lnbcrt", signet |-> "lntbs"]
DecodeNetworkPrefix(prefix) == {n \in Networks : Prefix[n] = prefix}

Empty == [network |-> "", time |-> 0, listed |-> << >>, field |-> [k \in Kinds |-> Absent]]
Blank == [prefix |-> "", data |-> << >>]

Init ==
  /\ \/ /\ author = "lnpilot" /\ stage = "held"
        /\ request \in OwnRequests /\ invoice = Blank
     \/ /\ author = "other" /\ stage = "written"
        /\ request = Empty /\ invoice \in OtherParts
  /\ todo = << >> /\ rest = << >> /\ origin = Empty /\ rounds = 0

-----------------------------------------------------------------------------
(* EncodeBech32 *)

Begin ==
  /\ stage = "held" /\ rounds < MaxRounds
  /\ \E data \in EncodeUint(request.time, TimestampGroups) :
       invoice' = [prefix |-> Prefix[request.network], data |-> data]
  /\ stage' = "writing" /\ todo' = request.listed
  /\ origin' = request /\ rounds' = rounds + 1
  /\ UNCHANGED <<author, request, rest>>

TimeTooLate ==
  /\ stage = "held" /\ EncodeUint(request.time, TimestampGroups) = {}
  /\ stage' = "unwritable"
  /\ UNCHANGED <<author, request, invoice, todo, rest, origin, rounds>>

\* Mutation: the length is written in one group.
FrameShort(k, data) == {<<Type[k], Len(data) % Group>> \o data}

Frame(k, data) ==
  {(<<Type[k]>> \o len) \o data :
     len \in IF k = "h" /\ Len(data) # HashGroups THEN {}
             ELSE EncodeUint(Len(data), LengthGroups)}

Frames(k) ==
  IF k \notin Kinds THEN {}
  ELSE UNION {Frame(k, data) : data \in EncodeBolt11(k, request.field[k])}

SkipField ==
  /\ stage = "writing" /\ todo # << >>
  /\ Head(todo) \in Kinds /\ request.field[Head(todo)] = Absent
  /\ todo' = Tail(todo)
  /\ UNCHANGED <<stage, author, request, invoice, rest, origin, rounds>>

Present(k) == k \in Kinds => request.field[k] # Absent

WriteField ==
  /\ stage = "writing" /\ todo # << >> /\ Present(Head(todo))
  /\ \E frame \in Frames(Head(todo)) : invoice' = [invoice EXCEPT !.data = @ \o frame]
  /\ todo' = Tail(todo)
  /\ UNCHANGED <<stage, author, request, rest, origin, rounds>>

WriteFails ==
  /\ stage = "writing" /\ todo # << >> /\ Present(Head(todo)) /\ Frames(Head(todo)) = {}
  /\ stage' = "unwritable"
  /\ UNCHANGED <<author, request, invoice, todo, rest, origin, rounds>>

Sign ==
  /\ stage = "writing" /\ todo = << >>
  /\ \E sig \in Signatures : invoice' = [invoice EXCEPT !.data = @ \o sig]
  /\ stage' = "written"
  /\ UNCHANGED <<author, request, todo, rest, origin, rounds>>

-----------------------------------------------------------------------------
(* DecodePaymentRequest *)

TaggedFields(data) == SubSeq(data, TimestampGroups + 1, Len(data) - SignatureGroups)

Readable ==
  /\ DecodeNetworkPrefix(invoice.prefix) # {}
  /\ Len(invoice.data) - SignatureGroups > TimestampGroups

Open ==
  /\ stage = "written" /\ Readable
  /\ \E network \in DecodeNetworkPrefix(invoice.prefix) :
       request' = [Empty EXCEPT !.network = network,
                                !.time = DecodeUint(SubSeq(invoice.data, 1, TimestampGroups))]
  /\ rest' = TaggedFields(invoice.data)
  /\ stage' = "reading"
  /\ UNCHANGED <<author, invoice, todo, origin, rounds>>

OpenFails ==
  /\ stage = "written" /\ ~Readable
  /\ stage' = "unreadable"
  /\ UNCHANGED <<author, request, invoice, todo, rest, origin, rounds>>

\* The next frame: its type, and its data if all of it is there.
KindOf(type) == IF \E k \in Kinds : Type[k] = type
                THEN CHOOSE k \in Kinds : Type[k] = type ELSE "?"
HeadLength == 1 + LengthGroups
DataLength == DecodeUint(SubSeq(rest, 2, HeadLength))
Whole == Len(rest) >= HeadLength /\ Len(rest) >= HeadLength + DataLength
Data == SubSeq(rest, HeadLength + 1, HeadLength + DataLength)

\* An unknown type or version of an address is passed over.
Skipped(k) == k = "?" \/ (k = "f" /\ UnknownVersion(Data))

Decoded(k) == DecodeBolt11(k, request.network, request.field[k], Data)

List(q, k) ==
  LET others == Subsequence(q.listed, {i \in DOMAIN q.listed : q.listed[i] # k})
  IN  [q EXCEPT !.listed = Append(others, k)]

ReadField ==
  /\ stage = "reading" /\ rest # << >> /\ Whole
  /\ LET k == KindOf(Head(rest)) IN
       \/ Skipped(k) /\ request' = List(request, k)
       \/ /\ ~Skipped(k)
          /\ \E v \in Decoded(k) : request' = [List(request, k) EXCEPT !.field[k] = Stored(k, v)]
  /\ rest' = SubSeq(rest, HeadLength + DataLength + 1, Len(rest))
  /\ UNCHANGED <<stage, author, invoice, todo, origin, rounds>>

ReadFails ==
  /\ stage = "reading" /\ rest # << >>
  /\ Whole => LET k == KindOf(Head(rest)) IN ~Skipped(k) /\ Decoded(k) = {}
  /\ stage' = "unreadable"
  /\ UNCHANGED <<author, request, invoice, todo, rest, origin, rounds>>

Close ==
  /\ stage = "reading" /\ rest = << >>
  /\ stage' = "held"
  /\ UNCHANGED <<author, request, invoice, todo, rest, origin, rounds>>

Next == \/ Begin \/ TimeTooLate \/ SkipField \/ WriteField \/ WriteFails \/ Sign
        \/ Open \/ OpenFails \/ ReadField \/ ReadFails \/ Close

Spec == Init /\ [][Next]_vars

-----------------------------------------------------------------------------
(* Properties *)

\* Types: a hash is whole, an expiry fits its word, the highest feature bit is
\* one of the features, and a data part consists of groups.
TypeOK ==
  /\ stage \in Stages /\ author \in {"lnpilot", "other"} /\ rounds \in 0 .. MaxRounds
  /\ RequestTypeOK(request)
  /\ invoice.data \in Seq(Groups) /\ rest \in Seq(Groups)
  /\ todo \in Seq(Kinds \cup {"?"})

\* What an invoice of a network can say: whole seconds, parts of a hop hint
\* within their widths, and addresses of the network, in the form Encode gives them.
Representable(network, k, v) ==
  CASE v = Absent -> TRUE
    [] v # Absent /\ k = "x" -> v >= 0 /\ v % Second = 0
    [] v # Absent /\ k = "r" ->
         \A i \in DOMAIN v : /\ v[i].scid.height < TwoTo[HeightBits]
                             /\ v[i].scid.tx < TwoTo[TxBits]
                             /\ v[i].fee < TwoTo[ByteBits * FeeBytes]
    [] v # Absent /\ k = "f" ->
         \E a \in DecodeAddress(v) : Encode(a) = {v} /\ a.network = network
    [] OTHER -> TRUE

\* Whatever EncodeBech32 accepts and an invoice can say is what
\* DecodePaymentRequest returns, bit for bit and in its order: shifts, padding,
\* lengths and framing of one field never reach into another.
ValuesSurvive ==
  stage = "held" /\ rounds > 0 =>
    /\ request.network = origin.network /\ request.time = origin.time
    /\ request.listed =
         Subsequence(origin.listed, {i \in DOMAIN origin.listed : origin.field[origin.listed[i]] # Absent})
    /\ \A k \in Kinds : Representable(origin.network, k, origin.field[k]) =>
                          request.field[k] = origin.field[k]

\* The networks whose fallback addresses Encode has no case for.
NoTextFor(network, a) ==
  \/ network = "regtest" /\ a.kind \in {"p2pkh", "p2sh"}
  \/ network = "signet" /\ a.kind = "segwit"

\* DecodePaymentRequest refuses no field that EncodeBech32 wrote, but for
\* fallback addresses on regtest and signet.
OwnIsAccepted ==
  stage = "unreadable" /\ author = "lnpilot" =>
    origin.field["f"] # Absent /\ \E a \in DecodeAddress(origin.field["f"]) : NoTextFor(origin.network, a)

\* A program that DecodeBolt11 takes and decodeSegwitAddress does not.
OddProgram(text) ==
  /\ text.form \in {"bech32", "bech32m"}
  /\ Len(text.program) \notin (IF text.version = 0 THEN V0Sizes ELSE ProgramSizes)

Overflows == DecodeUint(Data) * Second >= Word \div 2

\* Reading never gives a field a value that no invoice can say, so that reading
\* what was read and written again changes nothing; the exceptions are expiries
\* that overflow a duration and programs of a length no address has.
ReadIsRepresentable ==
  [][stage = "reading" =>
       \A k \in Kinds : request'.field[k] # request.field[k] =>
         \/ Representable(request.network, k, request'.field[k])
         \/ k = "x" /\ Overflows
         \/ k = "f" /\ OddProgram(request'.field[k])]_vars

\* An invoice that was read can be written again, unless it has a field of an
\* unknown type or a program of a length no address has.
ReadCanBeWritten ==
  stage = "unwritable" /\ author = "other" =>
    Head(todo) = "?" \/ (Head(todo) = "f" /\ OddProgram(request.field["f"]))

\* The numbers that were written are as short as they can be, and features too
\* but for the single group of an empty vector.
NoLeadingZeros ==
  stage = "writing" =>
    \A k \in {"c", "9"} : request.field[k] # Absent =>
      \A data \in EncodeBolt11(k, request.field[k]) : data[1] = 0 => data = <<0>>
=============================================================================
