--------------------------- MODULE PaymentRequest ---------------------------
(***************************************************************************)
(* The payment request of src/lightning/bolt11: the options that build     *)
(* one, the encoder that writes its tagged fields in the order they were   *)
(* specified, the decoder that reads an invoice (its own or another        *)
(* implementation's) back, and the life of a request that is read and then *)
(* written again.                                                          *)
(*                                                                         *)
(* A field's type is its letter.  What a field holds and the data it is    *)
(* written with are values of the constants Encode and Decode, the two     *)
(* conversions of every type, which lose what those of the code lose and   *)
(* may refuse either way; DataPart and FieldData have them digit by digit. *)
(* Hashes have their bytes here, since reading one keeps bytes of another. *)
(* The zero value of a field (a zero hash, a nil description, no expiry,   *)
(* an empty string) is Absent.  The human-readable part, the timestamp,    *)
(* the checksum and the signature are not in this module.                  *)
(***************************************************************************)
EXTENDS Naturals, Sequences, FiniteSets, Subsequences

CONSTANTS
  Encode,       \* for every type: the data of what the field may hold, or Error
  Decode,       \* for every type: what is read from data, or Error, or Skip
  Values,       \* for every type: what the options may set
  OtherData,    \* for every type: data another implementation writes
  HashSize,     \* bytes of a hash
  Parts, Zero,  \* the values of a byte, one of them zero
  LongTexts,    \* descriptions that do not fit into a field
  Sha256,       \* their hashes
  Unknown,      \* field types the package does not know
  Absent,       \* the zero value of a field
  ZeroKey,      \* the public key of new(secp256k1.PublicKey)
  Error,        \* an error of an encoder or a decoder
  Skip,         \* bitcoin.ErrUnknownVersion: the address of a newer version
  Defaults,     \* what the five default options set
  OtherInvoice, \* the fields another implementation's invoice begins with
  Writers,      \* who writes the first invoice: {"lnpilot", "other"}
  MaxOptions,   \* bound: options passed to NewPaymentRequest
  MaxExtra,     \* bound: fields another implementation adds to OtherInvoice
  MaxRounds     \* bound: times a request is encoded

\* The field types; all but `r' hold a single value of the request.
Single == {"p", "s", "d", "h", "x", "9", "f", "c", "m", "n"}
Known  == Single \cup {"r"}
Types  == Known \cup Unknown

HashTypes == {"p", "s", "h"}
NoBytes == [i \in 1 .. HashSize |-> Zero]
Hashes == [1 .. HashSize -> Parts] \ {NoBytes}

DataOf(t) == IF t \in Known THEN DOMAIN Decode[t] ELSE {Absent}

ASSUME TypesAssumption ==
  /\ Unknown \cap Known = {}
  /\ DOMAIN Encode = Known /\ DOMAIN Decode = Known
  /\ HashSize \in Nat /\ Zero \in Parts
  /\ Absent # ZeroKey /\ Absent # Error /\ Absent # Skip /\ Error # Skip
  /\ \A t \in Known : /\ DOMAIN Encode[t] \cap {Absent, Error, Skip} = {}
                      /\ Absent \notin DOMAIN Decode[t] /\ Error \notin DOMAIN Decode[t]

\* A hash is written in full and comes back; its field may have less data.  A
\* description and feature bits are never the zero value once they were read.
ASSUME ConversionsAssumption ==
  /\ \A t \in Known : \A v \in DOMAIN Encode[t] : Encode[t][v] \in DOMAIN Decode[t] \cup {Error}
  /\ \A t \in Known \ HashTypes : \A data \in DOMAIN Decode[t] :
       Decode[t][data] \in DOMAIN Encode[t] \cup {Error}
                             \cup (IF t \in {"d", "9", "r"} THEN {} ELSE {Absent})
                             \cup (IF t = "f" THEN {Skip} ELSE {})
  /\ \A t \in HashTypes :
       /\ DOMAIN Encode[t] = Hashes
       /\ \A hash \in Hashes : /\ Encode[t][hash] # Error
                               /\ Decode[t][Encode[t][hash]] = hash
       /\ \A data \in DOMAIN Decode[t] : Decode[t][data] # Error => Decode[t][data] \in Seq(Parts)
  /\ Absent \notin Hashes /\ Error \notin Seq(Parts) /\ Skip \notin Seq(Parts)
  /\ ZeroKey \in DOMAIN Encode["n"] /\ Decode["n"][Encode["n"][ZeroKey]] = Error

ASSUME InputsAssumption ==
  /\ DOMAIN Values = Known /\ DOMAIN OtherData = Known
  /\ \A t \in Known : Values[t] \subseteq DOMAIN Encode[t] /\ OtherData[t] \subseteq DOMAIN Decode[t]
  /\ \A text \in LongTexts : Sha256[text] \in Hashes
  /\ Writers \subseteq {"lnpilot", "other"}
  /\ {MaxOptions, MaxExtra, MaxRounds} \subseteq Nat
  /\ DOMAIN Defaults = {"s", "p", "x", "c", "d"}
  /\ \A t \in DOMAIN Defaults : Defaults[t] \in Values[t]
  /\ OtherInvoice \in Seq({OtherInvoice[i] : i \in DOMAIN OtherInvoice})
  /\ \A i \in DOMAIN OtherInvoice : LET t == OtherInvoice[i].type IN
       t \in Types /\ OtherInvoice[i] \in [type : {t}, data : DataOf(t)]

VARIABLES
  stage,    \* what is being done with the request
  pr,       \* the request: values, routing hints, order of its fields
  invoice,  \* the tagged fields of the encoded invoice
  todo,     \* what the encoder's or the decoder's loop has still to visit
  hints,    \* the hints the encoder's iterator has still to return
  origin,   \* history: the request that was encoded last
  source,   \* history: the invoice that was decoded last
  options, rounds   \* counters for the bounds

vars == <<stage, pr, invoice, todo, hints, origin, source, options, rounds>>

\* The last three end with an error of NewPaymentRequest, EncodeBech32 and
\* DecodePaymentRequest.
Stages == {"building", "receiving", "held", "encoding", "written", "decoding",
           "invalid", "unencodable", "undecodable"}

-----------------------------------------------------------------------------
(* The order of the tagged fields. *)

remove(listed, t) == Subsequence(listed, {i \in DOMAIN listed : listed[i] # t})

\* Mutations: a type is listed again, or stays where it was listed first.
AppendAgain(listed, t) == Append(listed, t)
AppendOnce(listed, t) == IF remove(listed, t) = listed THEN Append(listed, t) ELSE listed

appendOrMoveToEnd(listed, t) == Append(remove(listed, t), t)

Empty == [field |-> [t \in Single |-> Absent], hints |-> << >>, listed |-> << >>]

\* Setting and clearing a field of request q, with its place in the order.
Put(q, t, v) ==
  [q EXCEPT !.field[t] = v, !.listed = appendOrMoveToEnd(q.listed, t)]
Drop(q, t) == [q EXCEPT !.field[t] = Absent, !.listed = remove(q.listed, t)]

\* Mutations: no limit for a description; a hash that leaves the description.
WithDescriptionUnlimited(q, text) == Drop(Put(q, "d", text), "h")
WithDescriptionHashToo(q, hash) == Put(q, "h", hash)

\* The options that do more than store their argument.
WithDescription(q, text) ==
  IF text \in LongTexts THEN Drop(Put(q, "h", Sha256[text]), "d")
                        ELSE Drop(Put(q, "d", text), "h")
WithDescriptionHash(q, hash) == Put(Drop(q, "d"), "h", hash)
WithNoExpiry(q) == Drop(q, "x")
WithNoMinFinalCLTVExpiryDelta(q) == Drop(q, "c")
WithRoutingHint(q, hint) ==
  [q EXCEPT !.hints = Append(q.hints, hint), !.listed = Append(q.listed, "r")]

\* The request the default options leave, in the order they are applied.
DefaultRequest ==
  [field  |-> [t \in Single |-> IF t \in DOMAIN Defaults THEN Defaults[t] ELSE Absent],
   hints  |-> << >>,
   listed |-> <<"s", "p", "x", "c", "d">>]

validate(q) ==
  /\ q.field["s"] # Absent /\ q.field["p"] # Absent
  /\ (q.field["d"] # Absent) # (q.field["h"] # Absent)

-----------------------------------------------------------------------------
Init ==
  /\ \/ /\ "lnpilot" \in Writers /\ stage = "building"
        /\ pr = DefaultRequest /\ invoice = << >>
     \/ /\ "other" \in Writers /\ stage = "receiving"
        /\ pr = Empty /\ invoice = OtherInvoice
  /\ todo = << >> /\ hints = << >> /\ origin = Empty /\ source = << >>
  /\ options = 0 /\ rounds = 0

(* NewPaymentRequest: the caller's options one after the other, then the   *)
(* final validation.                                                       *)
Option(q) ==
  /\ stage = "building" /\ options < MaxOptions
  /\ pr' = q /\ options' = options + 1
  /\ UNCHANGED <<stage, invoice, todo, hints, origin, source, rounds>>

SetOption(t) == \E v \in Values[t] \cup {Absent} : Option(Put(pr, t, v))

ApplyPaymentHash == SetOption("p")
ApplyPaymentSecret == SetOption("s")
ApplyExpiry == SetOption("x")
ApplyFallbackAddress == SetOption("f")
ApplyMinFinalCLTVExpiryDelta == SetOption("c")
ApplyPaymentMetadata == SetOption("m")
ApplyFeatureBits == \E v \in Values["9"] : Option(Put(pr, "9", v))
ApplyDescription == \E text \in Values["d"] \cup LongTexts : Option(WithDescription(pr, text))
ApplyDescriptionHash ==
  \E hash \in Values["h"] \cup {Absent} : Option(WithDescriptionHash(pr, hash))
ApplyNoExpiry == Option(WithNoExpiry(pr))
ApplyNoMinFinalCLTVExpiryDelta == Option(WithNoMinFinalCLTVExpiryDelta(pr))
ApplyRoutingHint == \E hint \in Values["r"] : Option(WithRoutingHint(pr, hint))

NewPaymentRequest ==
  /\ stage = "building"
  /\ stage' = IF validate(pr) THEN "held" ELSE "invalid"
  /\ UNCHANGED <<pr, invoice, todo, hints, origin, source, options, rounds>>

-----------------------------------------------------------------------------
(* EncodeBech32: the tagged fields are visited in order; `r' takes the     *)
(* next hint of the iterator, a field without data is skipped, and a type  *)
(* the encoder does not know ends the encoding with an error.              *)
EncodeBech32 ==
  /\ stage = "held" /\ rounds < MaxRounds
  /\ stage' = IF validate(pr) THEN "encoding" ELSE "unencodable"
  /\ todo' = pr.listed /\ hints' = pr.hints
  /\ invoice' = << >> /\ origin' = pr /\ rounds' = rounds + 1
  /\ UNCHANGED <<pr, source, options>>

\* Mutation: the iterator never moves on.
EncoderDataFirstHint(t) ==
  CASE t = "r"      -> IF hints = << >> THEN Absent ELSE Head(pr.hints)
    [] t \in Single -> pr.field[t]

\* What getTaggedFieldEncoder finds for type t: a value, or Absent for
\* errFieldDataNotFound.
EncoderData(t) ==
  CASE t = "r"      -> IF hints = << >> THEN Absent ELSE Head(hints)
    [] t \in Single -> pr.field[t]

EncodeRefused(t) ==
  IF t \in Unknown THEN TRUE
  ELSE EncoderData(t) # Absent /\ Encode[t][EncoderData(t)] = Error

EncodeField(t) ==
  /\ stage = "encoding" /\ todo # << >> /\ t = Head(todo) /\ ~EncodeRefused(t)
  /\ todo' = Tail(todo)
  /\ hints' = IF t = "r" /\ hints # << >> THEN Tail(hints) ELSE hints
  /\ UNCHANGED <<stage, pr, origin, source, options, rounds>>

SkipField ==
  \E t \in Types :
    EncodeField(t) /\ EncoderData(t) = Absent /\ UNCHANGED invoice

WriteField ==
  \E t \in Types :
    /\ EncodeField(t) /\ EncoderData(t) # Absent
    /\ invoice' = Append(invoice, [type |-> t, data |-> Encode[t][EncoderData(t)]])

EncodeFails ==
  /\ stage = "encoding" /\ todo # << >> /\ EncodeRefused(Head(todo))
  /\ stage' = "unencodable"
  /\ UNCHANGED <<pr, invoice, todo, hints, origin, source, options, rounds>>

EncodeDone ==
  /\ stage = "encoding" /\ todo = << >>
  /\ stage' = "written"
  /\ UNCHANGED <<pr, invoice, todo, hints, origin, source, options, rounds>>

-----------------------------------------------------------------------------
(* Another implementation adds any field to its invoice, in any order. *)
OtherField ==
  /\ stage = "receiving" /\ Len(invoice) < Len(OtherInvoice) + MaxExtra
  /\ \E t \in Types : \E data \in IF t \in Known THEN OtherData[t] ELSE {Absent} :
       invoice' = Append(invoice, [type |-> t, data |-> data])
  /\ UNCHANGED <<stage, pr, todo, hints, origin, source, options, rounds>>

(* DecodePaymentRequest: the fields are read in order.  Every type is      *)
(* entered into the order of the request before it is known whether the    *)
(* package can decode it.                                                  *)
DecodePaymentRequest ==
  /\ stage \in {"written", "receiving"}
  /\ stage' = "decoding" /\ pr' = Empty
  /\ todo' = invoice /\ source' = invoice
  /\ UNCHANGED <<invoice, hints, origin, options, rounds>>

\* The bytes of a hash, zero or not, and the hash of them.
Bytes(hash) == IF hash = Absent THEN NoBytes ELSE hash
HashOf(bytes) == IF bytes = NoBytes THEN Absent ELSE bytes

\* Mutation: the old hash is cleared first.
CopiedToZero(old, bytes) ==
  HashOf([i \in 1 .. HashSize |-> IF i <= Len(bytes) THEN bytes[i] ELSE Zero])

\* copy(h[:], bytes): what is too short leaves the end of the old hash.
Copied(old, bytes) ==
  HashOf([i \in 1 .. HashSize |-> IF i <= Len(bytes) THEN bytes[i] ELSE Bytes(old)[i]])

\* What reading data leaves in field t of q.  The decoder of `n' assigns the
\* parsed key to its own copy of the pointer; the address of a newer version
\* changes nothing.
DecodeBolt11(q, t, data) ==
  CASE t \in Unknown         -> q
    [] t = "n"               -> [q EXCEPT !.field[t] = ZeroKey]
    [] t = "r"               -> [q EXCEPT !.hints = Append(q.hints, Decode[t][data])]
    [] t \in HashTypes       -> [q EXCEPT !.field[t] = Copied(q.field[t], Decode[t][data])]
    [] t \in Single \ (HashTypes \cup {"n"}) ->
         IF Decode[t][data] = Skip THEN q ELSE [q EXCEPT !.field[t] = Decode[t][data]]

\* Mutation: an unknown version is an error like any other.
RefusedSkipped(f) == f.type \notin Unknown /\ Decode[f.type][f.data] \in {Error, Skip}

\* Data a decoder of its type refuses.
Refused(f) == f.type \notin Unknown /\ Decode[f.type][f.data] = Error

ReadField ==
  /\ stage = "decoding" /\ todo # << >> /\ ~Refused(Head(todo))
  /\ LET t == Head(todo).type IN
       pr' = DecodeBolt11([pr EXCEPT !.listed = appendOrMoveToEnd(pr.listed, t)],
                          t, Head(todo).data)
  /\ todo' = Tail(todo)
  /\ UNCHANGED <<stage, invoice, hints, origin, source, options, rounds>>

DecodeFails ==
  /\ stage = "decoding" /\ todo # << >> /\ Refused(Head(todo))
  /\ stage' = "undecodable"
  /\ UNCHANGED <<pr, invoice, todo, hints, origin, source, options, rounds>>

DecodeDone ==
  /\ stage = "decoding" /\ todo = << >>
  /\ stage' = IF validate(pr) THEN "held" ELSE "undecodable"
  /\ UNCHANGED <<pr, invoice, todo, hints, origin, source, options, rounds>>

Building == \/ ApplyPaymentHash \/ ApplyPaymentSecret \/ ApplyExpiry
            \/ ApplyFallbackAddress \/ ApplyMinFinalCLTVExpiryDelta
            \/ ApplyPaymentMetadata \/ ApplyFeatureBits \/ ApplyDescription
            \/ ApplyDescriptionHash \/ ApplyNoExpiry
            \/ ApplyNoMinFinalCLTVExpiryDelta \/ ApplyRoutingHint
            \/ NewPaymentRequest
Writing  == EncodeBech32 \/ SkipField \/ WriteField \/ EncodeFails \/ EncodeDone
Reading  == OtherField \/ DecodePaymentRequest \/ ReadField \/ DecodeFails \/ DecodeDone

Next == Building \/ Writing \/ Reading
Spec == Init /\ [][Next]_vars

-----------------------------------------------------------------------------
(* Properties. *)

Positions(s, t) == {i \in DOMAIN s : s[i] = t}
Occurrences(s, t) == {i \in DOMAIN s : s[i].type = t}
Last(S) == CHOOSE i \in S : \A j \in S : j <= i

Fields(q) == DOMAIN q.listed

(* Types of the variables. *)
TypeOK ==
  /\ stage \in Stages
  /\ \A q \in {pr, origin} :
       /\ DOMAIN q.field = Single /\ \A i \in Fields(q) : q.listed[i] \in Types
       /\ \A t \in Single : q.field[t] \in DOMAIN Encode[t] \cup {Absent}
       /\ \A i \in DOMAIN q.hints : q.hints[i] \in DOMAIN Encode["r"]
  /\ \A i \in DOMAIN invoice :
       invoice[i].type \in Types /\ invoice[i].data \in DataOf(invoice[i].type)
  /\ options \in 0 .. MaxOptions /\ rounds \in 0 .. MaxRounds

(* Whatever options a caller combines, every value that is set has one     *)
(* place in the order of the fields, and there is one `r' for every        *)
(* routing hint (options.go:25-174): nothing that was set is left out of   *)
(* the invoice or written twice.                                           *)
Listed(q) ==
  /\ \A t \in Single :
       IF q.field[t] # Absent THEN \E i \in Fields(q) : Positions(q.listed, t) = {i}
                              ELSE \A i, j \in Positions(q.listed, t) : i = j
  /\ Cardinality(Positions(q.listed, "r")) = Len(q.hints)

EveryValueIsListed == stage = "building" => Listed(pr)

(* The options keep the description and its hash exclusive, also in the    *)
(* order of the fields (options.go:56-91): setting one clears the other,   *)
(* so no order of description options makes the request invalid other than *)
(* by an explicit zero hash.                                               *)
OneDescription ==
  stage = "building" =>
    /\ pr.field["d"] = Absent \/ pr.field["h"] = Absent
    /\ Positions(pr.listed, "d") = {} \/ Positions(pr.listed, "h") = {}

(* A request that is encoded and decoded again (encoding.go:207-292,       *)
(* 614-713) has in every field what the two conversions of that field make *)
(* of its value, and the same of its routing hints in their order: no      *)
(* field takes the value of another, is left out or appears.  A value      *)
(* changes only as its own conversion changes it: an expiry loses its      *)
(* fraction of a second, an address its network, a base fee the bits that  *)
(* have no place, and an address of a newer version is not there.          *)
ReadBack(t, v) == Decode[t][Encode[t][v]]
Kept(t, v) == IF v = Absent \/ ReadBack(t, v) = Skip THEN Absent ELSE ReadBack(t, v)

RoundTrip ==
  stage = "held" /\ rounds > 0 /\ source # << >> /\ Listed(origin) =>
    /\ pr.hints = [i \in DOMAIN origin.hints |-> ReadBack("r", origin.hints[i])]
    /\ \A t \in Single : pr.field[t] = Kept(t, origin.field[t])

(* Reading an invoice, another implementation's too (encoding.go:614-713,  *)
(* hash.go:23-30): a field that occurs several times has the value of its  *)
(* last occurrence that is not skipped, all routing hints are kept in      *)
(* their order, and a type the package does not know changes no value.     *)
(* Every byte of a hash is that of the last occurrence long enough to have *)
(* it: data shorter than a hash leaves the end of an earlier one.          *)
LastOccurrenceCounts ==
  stage = "held" /\ source # << >> =>
    /\ LET hs == Subsequence(source, Occurrences(source, "r")) IN
         pr.hints = [i \in DOMAIN hs |-> Decode["r"][hs[i].data]]
    /\ \A t \in Single \ (HashTypes \cup {"n"}) :
         LET read == {i \in Occurrences(source, t) : Decode[t][source[i].data] # Skip} IN
           pr.field[t] = IF read = {} THEN Absent ELSE Decode[t][source[Last(read)].data]
    /\ \A t \in HashTypes : \A k \in 1 .. HashSize :
         LET long == {i \in Occurrences(source, t) : k <= Len(Decode[t][source[i].data])} IN
           Bytes(pr.field[t])[k] = IF long = {} THEN Zero
                                   ELSE Decode[t][source[Last(long)].data][k]

(* A request that was read and is written again has the fields of the      *)
(* invoice in their order (types.go:45-47 and the order the decoder        *)
(* builds, encoding.go:679), a repeated one at its last place, with what   *)
(* the request holds of it.  It is stated for invoices of which every      *)
(* field left a value, with at most one routing hint.                      *)
WrittenData(t) == Encode[t][IF t = "r" THEN Head(origin.hints) ELSE origin.field[t]]

FieldOrderSurvives ==
  stage = "written" /\ source # << >>
    /\ (\A i \in DOMAIN source : source[i].type \in Single => origin.field[source[i].type] # Absent)
    /\ (\A i, j \in Occurrences(source, "r") : i = j)
    => LET last == Subsequence(source, {Last(Occurrences(source, source[i].type)) :
                                          i \in DOMAIN source})
       IN  /\ Len(invoice) = Len(last)
           /\ \A i \in DOMAIN last : /\ invoice[i].type = last[i].type
                                     /\ invoice[i].data = WrittenData(last[i].type)

(* What the encoder completes for a request that lists what it holds, the  *)
(* decoder accepts, unless a single value of it is refused by its own      *)
(* decoder (a legacy address of regtest, say): no combination of fields,   *)
(* no order and no repetition of them is refused on the way back, and what *)
(* is skipped is not an error.                                             *)
NotReadBack(t, v) == v # Absent /\ ReadBack(t, v) = Error

OwnInvoiceIsAccepted ==
  stage = "undecodable" /\ rounds > 0 /\ Listed(origin) =>
    \/ \E t \in Single : NotReadBack(t, origin.field[t])
    \/ \E i \in DOMAIN origin.hints : NotReadBack("r", origin.hints[i])

-----------------------------------------------------------------------------
(* What comments of the package say and the code does not do. *)

(* types.go:74 and encoding.go:207 call `r' repeatable: a request that was *)
(* read lists every routing hint it holds.                                 *)
EveryHintIsListed ==
  stage = "held" =>
    Cardinality(Positions(pr.listed, "r")) = Len(pr.hints)

(* encoding.go:675-677: calling DecodeBolt11 on the decoder sets the field *)
(* in the payment request; for `n', the public key of the payee.           *)
PayeeKeyIsSet ==
  stage = "held" /\ source # << >> /\ Occurrences(source, "n") # {} =>
    pr.field["n"] = Decode["n"][source[Last(Occurrences(source, "n"))].data]
=============================================================================
