# A verification project for lnpilot

lnpilot is a terminal tool for looking at the Lightning protocol. Its core is a set
of Go packages that implement parts of the BOLT specifications: the encrypted
transport (`src/lightning/bolt08`), payment requests (`src/lightning/bolt11`), onions
(`src/lightning/bolt04`) and feature bits (`src/lightning/bolt09`), with small
libraries below them (`src/lib`) and a user interface above (`src/tui`).

This directory holds TLA+ models of that core, the TLC configurations that check
them on small instances, and proofs of the most important results for all
instances. Every definition is translated from the Go source; `PROJECT.json` gives
the lines.

## Inventory

| Part | State | Operations | Talks to | What is hard |
|---|---|---|---|---|
| bolt08 `Handshake` | hash, chaining key, temporary key and nonce; static, ephemeral and remote keys | `GenActOne/Two/Three`, `RecvActOne/Two/Three`, `RemoteStatic`, `Transport` | the peer's handshake, through acts of 50 and 66 bytes its caller carries | acts lost, crossed, repeated, damaged; a refused act leaves the state half updated; no phase is stored |
| bolt08 `Transport` | a key, chaining key and nonce per direction | `Encrypt`, `Decrypt`, `rotateKey` | the peer's `Transport`, through a byte stream | two nonces per message, rotation in step on both sides; errors between the two reads of `Decrypt` |
| bolt11 builder | `PaymentRequest` values and the order of its tagged fields | `NewPaymentRequest` and the `With...` options | the encoder | options in any order and number; values and order kept in step |
| bolt11 codec | the loop over the tagged fields, the iterator over routing hints | `EncodeBech32`, `DecodePaymentRequest` | builder, bolt09, lntypes, bitcoin, bech32, secp256k1 | repeated, unknown and skipped fields; reading and writing again |
| bolt11 amount | none | `encodeHRP`, `decodeHumanReadablePart` | codec | digits lost in conversions, overflow |
| bolt09 feature vector | a set of bits and its maximum | `Set`, `EncodeBolt11`, `DecodeBolt11` | codec | unknown required bits; the decoder reverses its input in place |
| bolt04 onion | the packet while it is wrapped | `NewOnionPacket` and its helpers | secp256k1, bigsize | fillers and shifts agree over variable payload sizes |
| lntypes, bech32, base58, addresses | none | conversions of numbers, bytes, hashes, routing hints and addresses | codec | widths cut, padding, forms that do not come back |
| node | a private key and its signer | construction | secp256k1 | nothing |
| user interface | selection of both panes, text and decoded invoice | key presses, pastes | `DecodePaymentRequest`, event loop, text area | the message is rewritten in place; keys of the program are letters of invoices; answers to commands come later |

What makes each part correct:

* *Handshake*: two handshakes that finish agree on keys and peers, one to one; a
  refused tag is final; an act refused before anything of it was opened or mixed leaves
  no trace; no key and nonce are used twice.
* *Transport*: the receiver gets a prefix of what was sent, in order; both ends rotate
  at the same message; no key and nonce are used twice; an error never resynchronises
  on a wrong boundary.
* *Builder and codec*: every value a caller set is written once and read back as the
  conversions of its own field leave it; the order of fields survives; of repeated, unknown
  and skipped fields of other implementations exactly the right ones have an effect.
* *Onion*: every hop of every route that fits finds its own HMAC and payload, only it can
  read them, and the last hop knows that it is the last.
* *Amount*: no conversion changes an amount that fits a machine word, and it is written
  with the smallest number there is for it.
* *Field data*: what an invoice can say comes back bit by bit, whatever stands beside it;
  what is read from others can be said again.
* *User interface*: the text is what was entered, the invoice shown is that of the text,
  and a quit key quits.

The hazards behind these properties are listed with their lines in `PROJECT.json`.

## Modules

| Module | Models | Kind |
|---|---|---|
| `SecureChannel` | what a connection promises: delivered messages are a prefix of those sent | abstract specification |
| `Transport` | `Transport` at both ends of a connection | detailed specification, implements `SecureChannel` |
| `TransportProofs` | | proofs about `Transport`: order, nonces, refinement; frames, rotation, refused tags |
| `Handshake` | any number of `Handshake` values and the network between them | specification |
| `HandshakeProofs` | | proofs about `Handshake` |
| `Subsequences` | taking elements out of a sequence, as `slices.DeleteFunc` and the loops over fields do | operators |
| `PaymentRequest` | options, encoder, decoder and the order of tagged fields | specification |
| `PaymentRequestProofs` | | proofs about `PaymentRequest` |
| `Amount` | the amount in the human-readable part | specification |
| `AmountProofs` | | proofs about `Amount` |
| `Onion` | building an onion packet and, as external, the hops that peel it | specification |
| `OnionProofs` | | proofs about `Onion` |
| `FieldData` | how values become groups of bits and back: bech32 numbers, feature vectors, hashes, routing hints, addresses | operators |
| `DataPart` | the data part of an invoice, group by group, written and read | specification |
| `DataPartProofs` | | proofs about `DataPart` and the operators of `FieldData` |
| `Tui` | key presses, panes and the decoder | specification |
| `TuiProofs` | | proofs about `Tui` |
| `SequenceFacts` | | lemmas about sequences, and about recursion over the naturals, that several of the proofs cite |
| `MC...` | instances of the seven for TLC | |

Operators named `...Late`, `...AndGoOn` and the like, marked *Mutation* in the modules,
are not part of a model. Each is a plausible bug of the definition after it, and
`PROJECT.json` pairs it with the property that finds it.

### Transport

`tx[p]` and `rx[p]` hold what `sendKey`/`sendChain`/`sendNonce` and their receiving
counterparts hold. `hkdf2` derives the chaining key and the key together, so one record
`[half, gen]` stands for both: the half of the handshake's output it began with and the
number of rotations since. A ciphertext is a record of key, nonce and plaintext.
`wire[p]` is the stream, one unit per byte, so that `Decrypt` does not know where a
ciphertext begins: `Opens` holds only if the units read are exactly those of one
ciphertext under the reader's key and nonce.

| Action | Code (`bolt08.go`) |
|---|---|
| `Encrypt(p, m)` | `Encrypt`, 368-385, and its caller's write |
| `ReadLength(p)` | `Decrypt` to the end of its first read and opening, 388-398 |
| `ReadPayload(p)` | `Decrypt` from its second read, 400-416, with `rotateKey` |
| `ReadError(p)` | the two `io.ReadFull` that fail, after any number of units |
| `Fail(p, kind)` | an error return and what the caller does: tear down, or call again if `kind` is in `RetryAfter` |
| `Corrupt(p)`, `Break(p)` | the connection (external) |

`Decrypt` is two actions because a reader blocks in each of its two reads and
everything else may happen in between. `Encrypt` and `Decrypt` of one value touch
disjoint fields, and the comment in line 344 rules concurrent use out; the model has one
user per direction. `sent`, `sealed`, `opened` and `failed` are history variables:
actions write them and never read them, except that `sent` counts towards `MaxSent`.

### Handshake

Cryptography is symbolic: a hash or chaining key is the sequence of what was mixed
in, ECDH is the set of two keys, a ciphertext opens under the same key, nonce and
associated data only. `h`, `ck` and `nonce` are those of `symmetricState` (the
temporary key comes out of the same `hkdf2` as `ck`), `re` and `rs` are
`remoteEphemeral` and `remoteStatic`. The Go value stores no phase; `phase` is the
order in which callers make their calls, and calls out of order are not modelled (they
dereference nil keys or derive unfinished ones). The network keeps all acts and hands
any of them, whole or with one field damaged or exchanged, to any handshake that
expects an act of that size, any number of times. After an error a caller drops the
handshake (it takes no further step) or feeds it another act. Every handshake belongs to
one connection (`Answers`), and any node may dial any node, itself included. An initiator
in `Foreign` is of another implementation: it may seal any node's static key, or bytes that
are no key (`Unparsable`), with a last tag that means nothing, since that tag takes the
private half of the key; and it may go on afterwards with a static key of its own. Failing to
generate an ephemeral key changes nothing and is left out.

| Action | Code (`bolt08.go`) |
|---|---|
| `GenActOne`, `GenActTwo` | 180-201, 227-248, both through `GenEphemeralAct` |
| `RecvActOne`, `RecvActTwo` | 205-224, 251-270, both through `RecvEphemeralAct` |
| `GenActThree`, `RecvActThree` | 274-289, 293-315 |
| `FailClean` | returns before anything was mixed: version, ephemeral key, a static key that does not open |
| `FailOpened` | a static key that opens and does not parse, 302-305: hash and nonce have moved on |
| `FailDirty` | a last tag that is refused after the keys were stored and mixed |
| `GenOddActThree` | act three of a foreign initiator (external) |

### PaymentRequest

A request has a value per field type, a sequence of routing hints, and `listed`, the
`taggedFields` slice. The zero value of a field is `Absent`. The encoder's loop and the
decoder's loop are one action per field. What the conversions of single fields do is two
constants: `Encode[t]` takes what a field of type `t` may hold to its data or to `Error`
(required features nobody knows, addresses that do not parse, data of more than 1023
groups), and `Decode[t]` takes data to a value, to `Error`, to the zero value, or, for an
address of a witness version the package does not know, to `Skip`. They need not undo each
other, and in the instance they do not: an expiry is cut to seconds, a CLTV delta to 16 bits,
a base fee to what a hint can say, an address of mainnet comes back as one of regtest, and a
legacy address of regtest is written and then refused. `DataPart` has the conversions
themselves. Only hashes have bytes here, since `Hash.DecodeBolt11` copies what it reads over
the hash of an earlier field of the type and keeps the end of it if the data is short
(`Copied`). An invoice starts from options (`"lnpilot"`) or from another implementation
(`"other"`), which adds fields of any type in any order.

| Action | Code |
|---|---|
| `Apply...` | the options, `options.go` 25-163 |
| `NewPaymentRequest` | end of `NewPaymentRequest`, `bolt11.go` 44-49 |
| `EncodeBech32`, `SkipField`, `WriteField`, `EncodeFails`, `EncodeDone` | `encoding.go` 104-151, 206-332 |
| `DecodePaymentRequest`, `ReadField`, `DecodeFails`, `DecodeDone` | `encoding.go` 462-529, 614-713 |
| `OtherField` | another implementation (external) |

### Amount

`EncodeHRP`, `Divide` and `Stop` are the conversion and the loop of `encodeHRP`;
`DecodeHRP` and `RefuseHRP` the end of `decodeHumanReadablePart`. Words wrap at `Word`.
What a written amount is worth (`Denotes`, `Unit`) is said by the properties, from the
units of `lntypes/amount.go` and not from the loop.

### Onion

A byte is the set of what was added up in it: `xor` is the symmetric difference, a zero
byte the empty set, and a byte of a stream, a payload, a length or an HMAC an atom. Two
HMACs are equal only if their secret and their input are. A private key is the set of
blinding factors multiplied into the session key; a factor, a hash of the public key and
of the shared secret, is determined by the shared secret and stands as it.

| Action | Code (`bolt04.go`) |
|---|---|
| `ValidateHops` | `validateHops`, 56-65 |
| `DeriveSecret` | a round of the first loop, 85-92 |
| `Pad`, `WrapHop`, `Send` | 101-111, a round of the second loop with the filler, 113-145, the packet, 147-153 |
| `Peel`, `Drop` | a hop (external), from what the sender's comments say of it: 81-83, 108-110, 131-136 |
| `Damage` | the connection between two hops (external) |

The repository only builds packets. `Peel` is there because what a packet must be is said
by the hops: a filler is right when the second hop's HMAC is.

### FieldData and DataPart

`PaymentRequest` has the fields and their order, with conversions that are parameters; these
two have the values with every bit, and one request at a time. `FieldData` holds the conversions as
operators: one that can fail returns a set, empty for an error. Widths are constants (8
and 5 bits for a byte and a group, 64 for a word, 24, 24 and 16 for a short channel id),
so that TLC can try all values of small ones. A base58 address is a record of version,
hash and whether its checksum is right, a segwit address one of its form, prefix, version
and program.

| Action of `DataPart` | Code (`encoding.go`) |
|---|---|
| `Begin`, `TimeTooLate` | `EncodeBech32` to the timestamp, 105-128 |
| `SkipField`, `WriteField`, `WriteFails` | the loop of `encodeTaggedFields` with `encodeTaggedField`, 206-332 |
| `Sign` | 140-151; any signature |
| `Open`, `OpenFails` | `DecodePaymentRequest` to the tagged fields, 462-494 |
| `ReadField`, `ReadFails` | the loop of `decodeTaggedFields`, 614-673 |
| `Close` | the end of the loop; signature and required fields are not checked here |

A request begins as one of this package (`"lnpilot"`) or as an invoice of another
implementation (`"other"`), and goes round until an error or the bound on rounds.

### Tui

`side` and `main` are the two `selected`, `text` is the text area's value with its `cursor`,
`shown` stands for `invoice` and `invoiceErr`. A press is a record of its characters and of the text by
which `msg.String()` is compared: a paste is in brackets there, so that it is never a key
of the program, while the characters `e`, `s`, `c` arriving together are the key "esc".
`removeWhitespace` keeps the length of the message, as the code does: `OnMessage` assigns
the shortened slice to a variable of the `switch` only, and the message that goes on has
its characters moved to the front and zeroes behind, which the text area drops.

The text area (external) compares the same text of the *rewritten* message with its key
bindings: whether a key was pressed or its name came in as characters, it moves the cursor
(`Moves`), deletes (`Deletes` and backspace) or asks for the clipboard, and inserts nothing.
Where a key moves the cursor to and how far one deletes is left open, as it depends on lines
and words. Everything else is inserted at the cursor. Which keys there are is a parameter;
the instance has up, down, a word back, backspace, ctrl+v and ctrl+k.

| Action | Code |
|---|---|
| `Quit`, `Select`, `Type` | the branches of `Update`, `tui.go` 58-69, with the pane's `OnMessage` |
| `PasteMsg` | `Update` for the clipboard's answer to ctrl+v, which is no key press and goes to no pane |
| `QuitMsg` | the event loop (external) |

## Runs

| Run | Bounds | Shows |
|---|---|---|
| `transport_channel` | interval 4, bytes 0-1, messages of 0 to 2 bytes, both peers send, one fault, timeouts | types, no nonce reuse, rotation in step, no refused tag without a cause, delivery in order, and refinement of `SecureChannel` with its fairness |
| `transport_stubborn` | the same one way, two faults, caller goes on after MAC failures | order of opening; a MAC failure is final |
| `transport_timeout` | caller goes on after timeouts | **violation**: a payload is read as a length |
| `handshake_connections` | two connections between two nodes, made by any node to any node; one initiator is foreign and seals one odd static key; one error for each handshake, callers go on | nonces, remote static keys, poisoned handshakes, agreement of both sides, completion |
| `request_life` | up to three options; three fields of another implementation; one encoding; hashes of two bytes, data of none to three | values, order and acceptance |
| `request_hints`, `request_payee` | two and one further fields | **violations**: hints lost, payee key zero |
| `amount_roundtrip` | `Kilo` 4, ten is 2, word of 13 bits | exactness of both directions, shortest form |
| `onion_routes` | packets of 15 bytes, HMACs of 2, layers of 3, 4 and 8 bytes, routes of up to four hops over two nodes, one damaged byte | the packet's size, every hop finds its payload, no stream is used twice, confidentiality |
| `amount_whole` | the same as `amount_roundtrip` | **violation**: whole bitcoins are refused |
| `data_part` | bytes of 4 bits, groups of 3, words of 8, seven kinds of fields; see below | values survive, own invoices are accepted, what is read can be said and written again, no leading zeros |
| `tui_session` | texts of three characters, runs and pastes of up to five, runs that spell keys of the program and of the text area | types, what is entered is shown, quit keys quit |

*Why the bounds are enough.* With an interval of four a key serves two messages, and
the number of messages sent lets each direction rotate and go on under its next key;
messages of up to two bytes include the one that is as long as a length prefix, which
is where framing can go wrong. One fault reaches every position of the stream; the
second one in `transport_stubborn` hits a reader that is already out of step. Two
handshakes on each side give every exchange of acts, between two connections that are
crossed, parallel, or of a node to itself; more add no new pairing. One odd static key is
every key a foreign initiator may name and one that does not parse, before or instead of its
own. Three
options include setting, clearing and setting again with another field in between;
three extra fields allow a repeated field with another one in between on top of the
required ones. Hash data is shorter than, as long as and longer than a hash, zero and not, in
a field that repeats a whole one. In `Amount` the word holds five divisions by `Kilo` and three more
bits, as 2^64 holds five divisions by 1000 and more, and *all* amounts of the word are
tried. In `Onion` layers have three sizes, one of them with a long length prefix, and
their sums fall short of the packet, fill it exactly and exceed it; with four hops the
filler is the sum of three streams, one more than the smallest case in which their
offsets differ.

In `DataPart` a group is shorter than a byte and does not divide it, a word is no multiple
of a group, and the three parts of a short channel id fill a word, as in the code. Own
requests take values at, below and beyond every width, single, in pairs of kinds, and for
every network with every form of address; feature vectors are set in every order of up to
two bits around the first unknown one; hints and metadata reach and pass the 63 groups a
length can say (1023 in the code). Other implementations put *every* sequence of up to three
groups into every kind of field and into an unknown one, repeat fields, and end in the
middle of one. Bounds by choice of inputs: an invoice holds a whole timestamp, an `f` field
its version, and at most one `r` (several are in `PaymentRequest`); invoices have a payment
hash, without which `validate` would refuse them. One unknown type stands for all.

In `Tui` a text of three characters is reached, passed, cut and removed again; runs and
pastes hold white space in every position, keys of both panes, quit keys and names of keys
of the text area, whole and broken by white space. The cursor reaches every place of the
text. Window sizes are left out.

*Stopping.* Deadlock is not checked: connections go down, handshakes finish and bounds
on messages, options and errors are reached, after which a system really stops.

*Fairness.* `Transport!FairSpec` has weak fairness of each peer's `Receive`: a goroutine
blocked in `io.ReadFull` is woken when its bytes or an error arrive, and nothing else
in the code keeps it from running. `Encrypt` and faults are not fair. `Handshake!FairSpec`
has weak fairness of the generating calls, which need no input, and of receiving an act
that will be accepted: the stream below is reliable, so an intact act arrives unless
something takes its place first, and `Completes` excuses the handshakes in which a
tag was refused, those that were handed an act of another connection, and those whose own
initiator sealed an odd static key, which only that initiator can have done. `Tui!FairSpec`
has weak fairness of the event loop taking the quit message that is waiting for it.

## What disagrees with the source's own words

* `transport_timeout`: `Decrypt` forgets the length it has read when its second read
  fails, so that a caller who calls again after a deadline reads the payload as a length.
  The comment on errors (404-407) speaks of MAC failures only.
* `request_hints`: the decoder lists `r` once however often it occurs; writing the
  request again drops all hints but the first.
* `request_payee`: the decoder of `n` assigns to its own copy of a pointer.
* `amount_whole`: whole bitcoins are written without multiplier; the decoder's
  expression requires one.

Not given a run of its own: a request read with a field of unknown type cannot be
encoded again. The type is entered into the order (`encoding.go:679`) before the
decoder finds it unknown (653), and the encoder stops at it (291); `EncodeFails` models
it and `FieldOrderSurvives` excludes it.

Neither has a static key that is not the peer's. `RecvActThree` stores the key it opened (306)
before the last tag proves that the other end owns it (311), so after a refused act three
`RemoteStatic`, which "returns the peer's static public key" (317), may name any node. A foreign
initiator does this in `handshake_connections`; `RemoteStaticIsProven` is what holds: only on
a handshake that refused a tag, which never completes.

Neither have thousands of bitcoins. The loop of `encodeHRP` divides once for each of the five
multipliers, but there are four units below a bitcoin, so that 1000 bitcoins are written as
`1`; `Shortest` excepts them (`Thousands`), and the decoder refuses them with all whole bitcoins.

Neither has the network of a fallback address. `P2PKHAddress.Encode` and
`P2SHAddress.Encode` (`address.go` 192-206, 240-254) have no case for regtest, although the
version bytes are commented "same for regtest" (34, 39), and `SegwitAddress.Encode`
(119-130) has none for signet. An invoice of this package with such an address is written
and then refused when it is read; `OwnIsAccepted` names the two cases, and
`OwnInvoiceIsAccepted` says that nothing but such a value has this effect. An address of
another network than the invoice's is written as it is and read as the invoice network's
(`Representable` excludes it), and base58 addresses are taken without a look at their
checksum (`base58.go:28`, a TODO), so that a wrong one is read back as a right one.

## Proofs

A theorem holds for every value of the constants its module allows, so for runs of every
length, any number of handshakes, options, fields and faults. Every safety property that a
passing run checks, of all seven models, is one of them. Each argument is an inductive
invariant (`IInv`, `FInv` for frames), checked by TLC on the instance of the model's run
before it was proved; only where those of `Onion` and `DataPart` say that there are packets
inside packets or places of frames, TLC has nothing to enumerate, and it checked the
properties alone.

### Transport: order, nonces and refinement

`TransportProofs`, for every even interval, byte base, tag size, message set, caller
and bound:

| Theorem | Says |
|---|---|
| `TypeCorrect` | `TypeOK`; in particular `rotateKey`'s equality test is never jumped over |
| `NonceDiscipline` | `NoNonceReuse` |
| `OpensInOrder` | `OpenedInOrder`, whatever errors the caller ignores |
| `DeliversInOrder` | `DeliveredInOrder`, if the caller goes on after no error |
| `ImplementsChannelSafety` | `Channel!Safety`, under the same condition |

They rest on the assumptions named in `Transport` (an even positive interval, a base
above one, tags of at least one unit, messages that are byte sequences).

*The invariant.* None of the properties is inductive. `IInv` adds to `TypeOK` the
*position* of a cipher state, generation times interval plus nonce, and three logs:
`SealedLog` (the k-th ciphertext a peer sealed has position k-1, and its sender stands
at the position after the last), `WireLog` (every unit on a wire is of a sealed
ciphertext) and `OpenedLog` (what was opened is what the peer sealed, up to the reader's
position). `NoNonceReuse` follows from `SealedLog`: equal keys and nonces are equal
positions, and a position is a place in the log. The lemma `OpensNext` is the heart: a
tag that verifies belongs to the ciphertext at the reader's own position, because its
units come from the log and its key and nonce are the reader's. For delivery, `SentLog`
says ciphertexts 2m-1 and 2m carry the length and the text of message m, and
`DeliveredLog` that as long as no error occurred the reader's stage is the parity of what
it has opened. The refinement is the step lemma of the same invariants with a case for
each action.

### Transport: frames

The second part of `TransportProofs` goes on from there, under the same assumptions:

| Theorem | Says |
|---|---|
| `FramesHold` | the invariant `FInv` |
| `BothRotateInStep` | `RotateInStep` |
| `RefusalHasCause` | `MacFailureHasCause` |
| `RefusalIsFinal` | `MacFailureIsFinal`, an action property |

Here a wire has to be known unit by unit. `Frames` says that neighbours on it are
neighbours in the log: the units of a ciphertext are consecutive, the next one begins
where it ends, and the wire ends with the last ciphertext sealed, whole. `Unread` places
the wire behind what was opened and, after a refused tag, without the beginning of the
ciphertext the reader waits for: that beginning never comes again, so nothing is ever
opened. `InStep` says of a reader without an error that it is at the beginning of a
ciphertext, knows which of a pair it is, and (by `Pairs`) how long; so the units it takes
are exactly that ciphertext and only damage can make the tag wrong, which `Undamaged`
traces to a fault. A reader that has nothing to read is then at the sender's position,
and positions determine key and nonce (`PositionUnique`).

### Handshake

`HandshakeProofs`, for any sets of nodes and connections and any number of errors:

| Theorem | Says |
|---|---|
| `TypeCorrect` | `TypeOK` |
| `NoncesAreFresh` | `NoNonceReuse` |
| `PoisonedStaysOut` | `PoisonedNeverDone` |
| `RemoteStaticHolds` | `RemoteStaticIsProven` |
| `InitiatorIsAnswered` | `InitiatorAgrees` |
| `ResponderIsMet` | `ResponderAgrees` |

Assumed are that initiators, responders and nodes have different keys and that every
connection has one end of each kind (`SessionsAssumption`, `AnswersAssumption`), and the
symbolic cryptography of the model.

*The invariant.* `Sessions` gives every handshake, by its phase, the transcript it must have
mixed: `HashOne`, `HashAnswer`, `HashTwo` and `KeyOne` to `KeyThree` are the hashes and
chaining keys of a handshake as functions of who takes part. After act two the keys are
still known but the hash is only known by its length, four items and one for each nonce
(`Going`), because a foreign initiator puts into it what it likes. It also ties the two ends
together: a responder past act one holds an initiator that dialled its node, an initiator
past act two was `Answered` by a responder, and a responder past act three has an initiator
that is `Finished` with it and has its hash. `Network` says of every act on the network who
made it, and of every static key where in its maker's hash it stands (`Statics`). The
agreement properties alone are not inductive because nothing in them says that a tag that
opens was made by the handshake it names. The case that needs thought is a handshake that
refused a tag and is fed another act: in acts one and two its hash is `Beyond` the intact
ones, longer than the associated data of any tag of its kind, and in act three its key has
three secrets while static keys are sealed under two (`OpensKey`), so nothing opens. The
last tag opens under the third secret of a node only if that node's own initiator sealed it,
and it is the end of that initiator's hash (`OpensThree`): hence both ends agree on
everything in between, odd static keys included. A tag opens only if sequences of keys and
hashes are equal, and equal sequences have equal elements; from these the peers are read
off.

### Payment requests

`PaymentRequestProofs`, for every pair of conversions, every set of values, hints, unknown
types and defaults, and any number of options, fields and rounds:

| Theorem | Says |
|---|---|
| `TypeCorrect` | `TypeOK` |
| `BuilderLists` | `EveryValueIsListed` |
| `BuilderExcludes` | `OneDescription` |
| `RoundTripHolds` | `RoundTrip` |
| `OwnInvoiceAccepted` | `OwnInvoiceIsAccepted` |
| `ReaderTakesTheLast` | `LastOccurrenceCounts` |
| `OrderSurvives` | `FieldOrderSurvives` |

`TypesAssumption`, `ConversionsAssumption` and `InputsAssumption` are all they rest on: unknown
types are not known ones, the markers are no values, the defaults are values, and an invoice
of another implementation is a sequence of fields. Of the conversions they assume that what
one returns is in the domain of the other, that a hash is written in full and comes back, that
only an address is skipped, and that descriptions, features and hints are there once they
were read. They do not assume that any other value comes back: `RoundTrip` says that a field
has what *its own* two conversions make of *its own* value, so what can still go wrong, and is
proved not to, is a value that lands in another field, is written twice, left out or taken
from the wrong occurrence. What the conversions make of a value is `ValuesSurvive` of `DataPart`.

*The invariant* has a part for each stage. `Built`: while options run, a type is listed as
often as it has values, at most once but for `r`, and a description excludes its hash.
`Encoding`: there is a place k of the order such that the loop has the rest to do, the
iterator the hints behind it, and the invoice is the written entries up to k.
`Decoding`: there is a place k of the invoice such that the request is what `Decoded` says of
its first k fields: the hints in their order, the order of last occurrences, of every
other type the last occurrence that was not skipped, and of a hash each byte from the last
occurrence that had it (`BytesRead`, `BytesGrow`). `Written` carries over the reading what
the invoice was written from. The loops' own state (`todo`, `hints`) is in none of the
properties, which is why none of them is inductive. The round trip is then a fact about two
descriptions of one invoice: a listed type has one place in it (`OnePlace`), and hints stand
in it in their order (`HintsInOrder`); the order of a second writing is `OrderKept`.

Both loops leave elements out. `SelectSeq` takes its test as an operator, and lemmas for every
test would need an operator as a parameter, so the modules use `Subsequence` of
`Subsequences`, which counts the places that are kept; TLC checks the same states either way. Its lemmas (what appending
does to it, that it keeps order, when two of them are equal) are in `SequenceFacts`.

### Amount

`AmountProofs`, for every ratio of the multipliers, every width of the word and every set
of amounts:

| Theorem | Says |
|---|---|
| `TypeCorrect` | `TypeOK` |
| `Survives` | `AmountSurvives` |
| `Exactly` | `ReadIsExact` |
| `NoSubMillisatoshi` | `PicoEndsInZero` |
| `ShortestForm` | `Shortest` |

`RatioAssumption` asks that ten divides the ratio and that five divisions fit the word, as
10 divides 1000 and 1000^5 fits 64 bits; `NoneAssumption` that the marker for no
multiplier is none. The invariant follows the loop: the quotient times what was divided by
is the picobitcoins it started from (`Dividing`), and what is written is the first quotient
the ratio does not divide (`Encoded`), or the fifth (`Overdivided`). `Shortest` does not speak of
the loop: it compares what was written with the amount itself in every unit. `Units` relates the
two, the unit of the n-th multiplier to n divisions, and `LeastForm` shows that a number the
ratio does not divide can be in no larger unit; the theorem needs both, and that the loop and
the multiplier it leaves agree. Thousands of bitcoins are excepted, since for them it is
false (see above), and amounts whose tenfold does not fit a word, as the loop starts
from the wrapped product. That whole bitcoins are refused when they are read back is not a
matter of exactness; the run `amount_whole` shows it.

### Onion

`OnionProofs`, for every route and every size of packets, HMACs and payloads:

| Theorem | Says |
|---|---|
| `TypeCorrect` | `TypeOK`; in particular the packet keeps its one size |
| `EveryHopReads` | `EveryHopFindsItsPayload` |
| `KeysAreFresh` | `KeysNeverReused` |
| `OnlyItsHop` | `OnlyItsHopReads` |

`SizeAssumption` and `RoutesAssumption` say that sizes and lengths are numbers; what the
proofs assume of cryptography is built into the model: bytes of different streams,
payloads and HMACs are different, and different factors give different keys.

*Offsets and filler.* `Offset` and `FillerUpTo` are recursive functions of the place in the
route. `Offsets` says that an offset is the sum of the layers before it and `LayersFit` that
`validateHops` leaves no route whose sum exceeds the packet. `FillerFacts` is an induction
over the rounds of `generateFiller`: after k of them the filler is as long as the first k
layers, and its bytes are what the zeros that k hops have appended become under the streams
of those hops and nothing else.

*Layers.* `EndingKept`: the packet of place k, while it is made, ends with the filler of that
place; the last layer has it put there (131-136), and every layer around it keeps it,
because the stream of the hop before turns the end of its packet into the filler of one
place earlier. So `OpenedFacts`, `PeelFacts` and `WrapsPeel`: what a hop has after
it took its layer off is, byte for byte, the packet that was inside. This is the statement
of `EveryHopFindsItsPayload` that is inductive: `Wraps` describes the chain of packets inside
packets that is on its way, and a damaged byte breaks it, since an HMAC is of one packet only
(`HmacFacts`).

*Keys.* The ephemeral key has been blinded once for each secret derived so far, so the k-th
secret was made with a key of k - 1 factors, and equal secrets have equally many. That a node
is on the route twice makes no difference. *Confidentiality* (`HiddenKept`): a byte of a
hop's payload gets that hop's stream added when its layer is made; no other layer adds a byte of
the same stream to it, so it is there until that hop takes it off.

### Field data and the data part

`DataPartProofs`, for all widths of bytes, groups, words and lengths, every set of requests a
caller can build, any data part of another implementation and any number of rounds:

| Theorem | Says |
|---|---|
| `TypeCorrect` | `TypeOK` |
| `EveryValueSurvives` | `ValuesSurvive` |
| `OwnInvoicesAreAccepted` | `OwnIsAccepted` |
| `WhatWasReadCanBeWritten` | `ReadCanBeWritten` |
| `NumbersAreShort` | `NoLeadingZeros` |
| `ReadingIsRepresentable` | `ReadIsRepresentable`, an action property |

*Assumptions.* `WidthsAssumption`: a group is narrower than a byte, a word has whole bytes,
and the parts of a short channel id fill a word. `SizesAssumption`: the numbers of a hop hint
fit a word, and a public key has its length. `VersionsAssumption`: versions of witness programs
and of legacy addresses differ and fit a group, and the lengths of version 0 are among those of
all programs. `TypeAssumption`: every kind has a number of its own. `GroupsAssumption`: a
timestamp and a length fit a word, and a length can say how long a hash and a number are.
`RequestsAssumption`: own requests are `OwnRequest`, which is what options and `validate`
leave, and other implementations send groups of bits. The constants of the code (8, 5, 64;
24, 24, 16; 33; 7, 2, 104) satisfy them.

*From the bits up.* A number is the last of the values of the prefixes of its digits
(`NumberIsValue`), so `Digits` and `Number` undo each other as long as nothing is shifted out.
`Joined` and `Cut` undo each other place by place, so regrouping bits keeps them, and
`ToBytes` of `ToGroups` is the bytes that were there: the padding is zero and shorter than a
group (`PadFacts`). Sets of bits are the digits of base two (`BitsOfSum`: the bits of a sum
whose parts do not overlap are those of the parts). From these follow a lemma for each kind
of field, that decoding what was encoded gives the value back if an invoice can say it, and one
that a value that was decoded can be encoded in no more groups than it came in, so that a
length can say how many. For feature vectors both rest on `FromBits` and `IsSet`: the
decoder finds exactly the bits that were written, from the low end, and so the highest last.

*The invariant.* That one field never reaches into another is a statement about places:
`Carries` says that there is a function `at` such that from `at[i - 1]` to `at[i]` the data
part is the frame (`IsFrame`) of the i-th field that is not absent. `Writing` says it of the
fields that were taken off `todo`, `Written` of all of them, and `Reading` that the reader stands
at some `at[j]` and has copied the first j fields (`Copied`). `NextFrame` is the heart: a
reader at `at[j]` finds a whole frame with the type and the length that were written and is at
`at[j + 1]` afterwards, whatever groups the data is made of. `Rewritable` has what is needed
of an invoice that was not written here: every value in it came out of a decoder.

*Recursion.* `TwoTo`, `Number` and `NewFeatureVector` are recursive functions. What they
compute is proved by `Induction` and `StepsExist` of `SequenceFacts`, which use a set in place of
a predicate and so need no operator as a parameter.

### User interface

`TuiProofs`, for all key presses, pastes, white space, valid texts, and keys and limits of the
text area:

| Theorem | Says |
|---|---|
| `TypeCorrect` | `TypeOK`: no white space and no zero is ever in the text, nor more than its limit, and the cursor is in it |
| `EnteredIsShown` | `WhatIsEnteredIsShown`, an action property |

`CharactersAssumption` says that the zero rune cannot be entered, `KeysAssumption` that a key
of the text area does one thing, and that its name holds no zero and does not begin with a
bracket. The proof shows that `removeWhitespace`, which moves the characters of a message to
the front of its array and leaves zeroes behind, and the text area, which drops zeroes and
what exceeds its limit, together put the characters without the white space in at the cursor.
`KeysAreRead` is about the presses that are taken for keys: rewriting the message never makes
a key of what was none, because the zeroes it leaves are in no name, and it leaves what reads
like a key as it is.

### Only model-checked

* Liveness: `SecureChannel`'s delivery, `Completes`, `QuitKeyQuits`. It rests on fairness
  and `ENABLED`, which the provers here do not handle.
* The four disagreements with runs above are counterexamples and need an instance.

## Plan

1. Done: `Transport` with `SecureChannel`, `Handshake`, `PaymentRequest`, `Amount`, `Onion`,
   `FieldData` and `DataPart`, `Tui`.
2. Done: proofs of every invariant and every safety property of steps that their passing
   runs check, for all seven models.
3. Done: sums over a route, digits and bits as recursive functions, and induction over them
   (`SequenceFacts`), for the packet of `Onion` and the data of `DataPart`.
4. `Session`: handshake and transport composed, so that the keys a transport starts with
   are those the handshake derived. `ResponderIsMet` has what the composition needs of the
   handshake.
5. A tighter `SecureChannel`, in which a connection may go down only after a fault, a
   timeout or the other side's end. `RefusalHasCause` is its first half; `FInv` has what
   the second half needs to know of an undisturbed wire.

## Not modelled

* Signatures of invoices, except for their place: what `sign` hashes and what `Verify`
  checks. Checksums of bech32 text, which a library verifies.
* The payee key, descriptions and several routing hints in `DataPart`; `PaymentRequest` has
  them, with conversions that are parameters.
* Keys of the text area that change letters or swap them (alt+u, alt+l, alt+c, ctrl+t), and
  the width of characters.
* A foreign initiator that seals more than static keys out of turn; a responder of another
  implementation.
* Invoices too short for a timestamp, `f` fields without a version and base58 texts too
  short for a version and a checksum.
* An expiry of many months whose fraction of a second rounds up as a `float64`.
* Calls out of order on a `Handshake`, and concurrent use of one `Transport` (ruled out by
  the comment in `bolt08.go:344`).
* Key generation and the primitives themselves; text forms of keys, short channel ids and
  features; formatting, layout, colours and logging; `node.go`, which keeps a key, and
  `main.go`, which starts the program.
