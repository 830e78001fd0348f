----------------------------- MODULE Transport -----------------------------
(***************************************************************************)
(* The encrypted transport of src/lightning/bolt08/bolt08.go: two          *)
(* Transport values, one per end of a connection, after the handshake.     *)
(*                                                                         *)
(* A ciphertext is a record of the key and nonce it was sealed under and   *)
(* of its plaintext; what goes over the connection is its units, one per   *)
(* plaintext byte and MacSize more for the tag.  Decrypt reads units with  *)
(* io.ReadFull and cannot see where a ciphertext begins: opening succeeds  *)
(* only when the units read are, whole and in order, the units of a        *)
(* ciphertext sealed under the reader's current key and nonce.             *)
(*                                                                         *)
(* A key stands for the pair (chain, key): hkdf2 derives both together, so *)
(* the pair is determined by the half of the handshake's output it began   *)
(* with and by the number of rotations since.                              *)
(***************************************************************************)
EXTENDS Naturals, Sequences, SequencesExt

CONSTANTS
    KeyRotationInterval, \* ciphertexts sealed under one key; 1000 in the code
    Base,                \* number of values of a byte; 256 in the code
    MacSize,             \* units of an authentication tag; 16 in the code
    Messages,            \* the plaintexts callers hand to Encrypt
    RetryAfter,          \* the read failures after which the caller of
                         \* Decrypt calls it again: a subset of {"mac", "io"}
    ReadTimeouts,        \* whether the reader given to Decrypt can time out
    \* bounds
    MaxSent,             \* MaxSent[p]: messages peer p encrypts
    MaxFaults            \* faults of the connection

Peers == {"initiator", "responder"}

Other(p) == IF p = "initiator" THEN "responder" ELSE "initiator"

Byte == 0..(Base - 1)

LengthSize == 2                     \* bytes of the length prefix

MaxMessageSize == Base * Base - 1   \* 65535 in the code

\* Rotation happens between messages, each of which uses two nonces.
ASSUME IntervalAssumption ==
    KeyRotationInterval \in Nat \ {0} /\ KeyRotationInterval % 2 = 0

ASSUME SizeAssumption == Base \in Nat \ {0, 1} /\ MacSize \in Nat \ {0}

ASSUME MessagesAssumption == Messages \subseteq Seq(Byte)

ASSUME CallerAssumption ==
    RetryAfter \subseteq {"mac", "io"} /\ ReadTimeouts \in BOOLEAN

ASSUME BoundAssumption == MaxSent \in [Peers -> Nat] /\ MaxFaults \in Nat

VARIABLES
    tx,         \* tx[p]: sendKey (with sendChain) and sendNonce of p's Transport
    rx,         \* rx[p]: recvKey (with recvChain) and recvNonce of p's Transport
    stage,      \* stage[p]: the read that p's Decrypt is blocked in, or "down"
                \* once p's caller has torn the connection down
    length,     \* length[p]: the length Decrypt holds while it reads a payload
    wire,       \* wire[p]: units written by p that Other(p) has not read
    closed,     \* closed[p]: nothing p writes any longer reaches Other(p)
    sent,       \* history: the messages p's Encrypt accepted
    sealed,     \* history: the ciphertexts p has sealed
    opened,     \* history: the ciphertexts p has opened
    delivered,  \* the messages p's Decrypt returned
    failed,     \* history: the kinds of failure p's Decrypt has returned
    faults      \* faults so far

vars == <<tx, rx, stage, length, wire, closed,
          sent, sealed, opened, delivered, failed, faults>>
-----------------------------------------------------------------------------
(***************************************************************************)
(* Keys and ciphertexts                                                    *)
(***************************************************************************)
Key == [half : {"k1", "k2"}, gen : Nat]

CipherState == [key : Key, nonce : Nat]

\* Handshake.Transport: the initiator sends with the first half of the last
\* hkdf2 and receives with the second, the responder the other way round.
SendHalf(p) == IF p = "initiator" THEN "k1" ELSE "k2"

RecvHalf(p) == IF p = "initiator" THEN "k2" ELSE "k1"

Fresh(half) == [key |-> [half |-> half, gen |-> 0], nonce |-> 0]

\* Mutations: rotation a message late, and rotation that keeps the key.
RotateKeyLate(s) ==
    IF s.nonce > KeyRotationInterval
    THEN [key |-> [s.key EXCEPT !.gen = @ + 1], nonce |-> 0]
    ELSE s

RotateKeyKeepsKey(s) ==
    IF s.nonce = KeyRotationInterval THEN [s EXCEPT !.nonce = 0] ELSE s

\* rotateKey
RotateKey(s) ==
    IF s.nonce = KeyRotationInterval
    THEN [key |-> [s.key EXCEPT !.gen = @ + 1], nonce |-> 0]
    ELSE s

\* Mutation: Encrypt counts one of the two ciphertexts of a message.
AdvanceOnce(s, n) == [s EXCEPT !.nonce = @ + 1]

Advance(s, n) == [s EXCEPT !.nonce = @ + n]

\* encryptWithAD with no associated data
Seal(key, nonce, plain) == [key |-> key, nonce |-> nonce, plain |-> plain]

Units(c) ==
    [i \in 1..(Len(c.plain) + MacSize) |-> [of |-> c, at |-> i, intact |-> TRUE]]

\* Mutation: the nonce is left out.
OpensAnyNonce(s, us) == us = Units(us[1].of) /\ us[1].of.key = s.key

\* decryptWithAD: does the tag of these units verify under s?
Opens(s, us) ==
    /\ us = Units(us[1].of)
    /\ us[1].of.key = s.key
    /\ us[1].of.nonce = s.nonce

\* Mutation: the bytes in the wrong order.
LengthBytesSwapped(n) == <<n % Base, (n \div Base) % Base>>

\* binary.BigEndian.PutUint16(uint16(n)) and its inverse
LengthBytes(n) == <<(n \div Base) % Base, n % Base>>

LengthOf(bytes) == bytes[1] * Base + bytes[2]
-----------------------------------------------------------------------------
Init ==
    /\ tx = [p \in Peers |-> Fresh(SendHalf(p))]
    /\ rx = [p \in Peers |-> Fresh(RecvHalf(p))]
    /\ stage = [p \in Peers |-> "length"]
    /\ length = [p \in Peers |-> 0]
    /\ wire = [p \in Peers |-> <<>>]
    /\ closed = [p \in Peers |-> FALSE]
    /\ sent = [p \in Peers |-> <<>>]
    /\ sealed = [p \in Peers |-> <<>>]
    /\ opened = [p \in Peers |-> <<>>]
    /\ delivered = [p \in Peers |-> <<>>]
    /\ failed = [p \in Peers |-> {}]
    /\ faults = 0

\* The caller of Encrypt writes the bytes it returns to the connection. A
\* message that is too long is refused and changes nothing.
Encrypt(p, m) ==
    LET prefix  == Seal(tx[p].key, tx[p].nonce, LengthBytes(Len(m)))
        payload == Seal(tx[p].key, tx[p].nonce + 1, m)
    IN
    /\ stage[p] # "down"
    /\ Len(sent[p]) < MaxSent[p]
    /\ Len(m) <= MaxMessageSize
    /\ tx' = [tx EXCEPT ![p] = RotateKey(Advance(@, 2))]
    /\ wire' = [wire EXCEPT ![p] =
                  IF closed[p] THEN @ ELSE @ \o Units(prefix) \o Units(payload)]
    /\ sent' = [sent EXCEPT ![p] = Append(@, m)]
    /\ sealed' = [sealed EXCEPT ![p] = @ \o <<prefix, payload>>]
    /\ UNCHANGED <<rx, stage, length, closed, opened, delivered, failed, faults>>

\* Mutation: a caller that never tears the connection down.
FailAndGoOn(p, kind) ==
    /\ failed' = [failed EXCEPT ![p] = @ \cup {kind}]
    /\ stage' = [stage EXCEPT ![p] = "length"]
    /\ UNCHANGED closed

\* Decrypt returned an error of the given kind: its caller calls it again or
\* tears the connection down.
Fail(p, kind) ==
    /\ failed' = [failed EXCEPT ![p] = @ \cup {kind}]
    /\ IF kind \in RetryAfter
       THEN stage' = [stage EXCEPT ![p] = "length"] /\ UNCHANGED closed
       ELSE stage' = [stage EXCEPT ![p] = "down"] /\ closed' = [closed EXCEPT ![p] = TRUE]

\* The units Decrypt's next io.ReadFull asks for
Wanted(p) == MacSize + (IF stage[p] = "length" THEN LengthSize ELSE length[p])

Reading(p) == stage[p] \in {"length", "payload"}

Available(p) == Len(wire[Other(p)])

Incoming(p) == SubSeq(wire[Other(p)], 1, Wanted(p))

Consume(p, n) ==
    wire' = [wire EXCEPT ![Other(p)] = SubSeq(@, n + 1, Len(@))]

\* Decrypt up to the end of its first read: the length prefix
ReadLength(p) ==
    /\ stage[p] = "length"
    /\ Available(p) >= Wanted(p)
    /\ Consume(p, Wanted(p))
    /\ IF Opens(rx[p], Incoming(p))
       THEN /\ rx' = [rx EXCEPT ![p] = Advance(@, 1)]
            /\ length' = [length EXCEPT ![p] = LengthOf(Incoming(p)[1].of.plain)]
            /\ opened' = [opened EXCEPT ![p] = Append(@, Incoming(p)[1].of)]
            /\ stage' = [stage EXCEPT ![p] = "payload"]
            /\ UNCHANGED <<closed, failed>>
       ELSE Fail(p, "mac") /\ UNCHANGED <<rx, length, opened>>
    /\ UNCHANGED <<tx, sent, sealed, delivered, faults>>

\* Mutation: the nonce advances before the tag is verified.
ReadPayloadResyncs(p) ==
    /\ stage[p] = "payload"
    /\ Available(p) >= Wanted(p)
    /\ Consume(p, Wanted(p))
    /\ rx' = [rx EXCEPT ![p] = RotateKey(Advance(@, 1))]
    /\ IF Opens(rx[p], Incoming(p))
       THEN /\ opened' = [opened EXCEPT ![p] = Append(@, Incoming(p)[1].of)]
            /\ delivered' = [delivered EXCEPT ![p] = Append(@, Incoming(p)[1].of.plain)]
            /\ stage' = [stage EXCEPT ![p] = "length"]
            /\ UNCHANGED <<closed, failed>>
       ELSE Fail(p, "mac") /\ UNCHANGED <<opened, delivered>>
    /\ UNCHANGED <<tx, length, sent, sealed, faults>>

\* Decrypt from its second read to its return
ReadPayload(p) ==
    /\ stage[p] = "payload"
    /\ Available(p) >= Wanted(p)
    /\ Consume(p, Wanted(p))
    /\ IF Opens(rx[p], Incoming(p))
       THEN /\ rx' = [rx EXCEPT ![p] = RotateKey(Advance(@, 1))]
            /\ opened' = [opened EXCEPT ![p] = Append(@, Incoming(p)[1].of)]
            /\ delivered' = [delivered EXCEPT ![p] = Append(@, Incoming(p)[1].of.plain)]
            /\ stage' = [stage EXCEPT ![p] = "length"]
            /\ UNCHANGED <<closed, failed>>
       ELSE Fail(p, "mac") /\ UNCHANGED <<rx, opened, delivered>>
    /\ UNCHANGED <<tx, length, sent, sealed, faults>>

\* io.ReadFull fails: the stream ended, or the reader timed out, and n units
\* fewer than it asked for were read. Units on their way to a reader that
\* times out may or may not have arrived.
ReadError(p) ==
    /\ Reading(p)
    /\ \E n \in 0..(Wanted(p) - 1) :
          /\ \/ closed[Other(p)] /\ n = Available(p)
             \/ ReadTimeouts /\ n <= Available(p)
          /\ Consume(p, n)
    /\ Fail(p, "io")
    /\ UNCHANGED <<tx, rx, length, sent, sealed, opened, delivered, faults>>

\* The connection delivers a wrong byte.
Corrupt(p) ==
    /\ faults < MaxFaults
    /\ \E i \in 1..Len(wire[p]) : wire' = [wire EXCEPT ![p][i].intact = FALSE]
    /\ faults' = faults + 1
    /\ UNCHANGED <<tx, rx, stage, length, closed, sent, sealed, opened, delivered, failed>>

\* The connection breaks: any number of the units under way are lost.
Break(p) ==
    /\ faults < MaxFaults
    /\ ~closed[p]
    /\ \E n \in 0..Len(wire[p]) : wire' = [wire EXCEPT ![p] = SubSeq(@, 1, n)]
    /\ closed' = [closed EXCEPT ![p] = TRUE]
    /\ faults' = faults + 1
    /\ UNCHANGED <<tx, rx, stage, length, sent, sealed, opened, delivered, failed>>

Receive(p) == ReadLength(p) \/ ReadPayload(p) \/ ReadError(p)

Next ==
    \E p \in Peers :
        \/ \E m \in Messages : Encrypt(p, m)
        \/ Receive(p)
        \/ Corrupt(p)
        \/ Break(p)

Spec == Init /\ [][Next]_vars

\* A goroutine blocked in Decrypt runs when its bytes, or an error, arrive.
FairSpec == Spec /\ \A p \in Peers : WF_vars(Receive(p))
-----------------------------------------------------------------------------
(***************************************************************************)
(* Properties                                                              *)
(***************************************************************************)
Ciphertext == [key : Key, nonce : Nat, plain : Seq(Byte)]

Unit == [of : Ciphertext, at : Nat, intact : BOOLEAN]

\* Every variable has its type, and no nonce passes the rotation interval:
\* rotateKey's equality test is never jumped over.
TypeOK ==
    /\ tx \in [Peers -> CipherState]
    /\ rx \in [Peers -> CipherState]
    /\ \A p \in Peers : tx[p].nonce < KeyRotationInterval /\ rx[p].nonce <= KeyRotationInterval
    /\ stage \in [Peers -> {"length", "payload", "down"}]
    /\ length \in [Peers -> 0..MaxMessageSize]
    /\ wire \in [Peers -> Seq(Unit)]
    /\ closed \in [Peers -> BOOLEAN]
    /\ sent \in [Peers -> Seq(Messages)]
    /\ sealed \in [Peers -> Seq(Ciphertext)]
    /\ opened \in [Peers -> Seq(Ciphertext)]
    /\ delivered \in [Peers -> Seq(Seq(Byte))]
    /\ failed \in [Peers -> SUBSET {"mac", "io"}]
    /\ faults \in 0..MaxFaults

\* No key and nonce ever seal two ciphertexts, in either direction and
\* across every rotation: the one thing ChaCha20-Poly1305 must be spared.
NoNonceReuse ==
    \A p, q \in Peers : \A i \in DOMAIN sealed[p], j \in DOMAIN sealed[q] :
        (sealed[p][i].key = sealed[q][j].key /\ sealed[p][i].nonce = sealed[q][j].nonce)
            => p = q /\ i = j

\* Whatever the connection does and however stubborn the caller, the k-th
\* ciphertext Decrypt opens is the k-th the peer sealed: none is skipped,
\* opened twice or taken out of order.
OpenedInOrder == \A p \in Peers : IsPrefix(opened[p], sealed[Other(p)])

\* What Decrypt returned is a prefix of what the peer's Encrypt was given.
\* It holds of a caller that gives up at the first error.
DeliveredInOrder == \A p \in Peers : IsPrefix(delivered[p], sent[Other(p)])

\* After a MAC failure Decrypt returns no message again, even to a caller
\* that ignores the comment asking it to tear the connection down.
MacFailureIsFinal ==
    [][\A p \in Peers : "mac" \in failed[p] => delivered'[p] = delivered[p]]_vars

\* A tag is refused only after the connection did something wrong, or after a
\* read that failed and was not the end: messages of every length, sent at any
\* pace in both directions and across rotations, never lose their frame.
MacFailureHasCause ==
    \A p \in Peers : "mac" \in failed[p] => faults > 0 \/ "io" \in failed[p]

\* When everything written has been read without an error, receiver and
\* sender are at the same key and nonce: both sides rotate in step.
RotateInStep ==
    \A p \in Peers :
        (wire[Other(p)] = <<>> /\ ~closed[Other(p)] /\ failed[p] = {} /\ stage[p] = "length")
            => rx[p] = tx[Other(p)]

\* Each message Decrypt returns is one the peer gave to Encrypt ("Decrypt
\* reads one encrypted message from r and returns the plaintext").
DeliversOnlyMessages ==
    \A p \in Peers : \A k \in DOMAIN delivered[p] : Contains(sent[Other(p)], delivered[p][k])

Sendable == {m \in Messages : Len(m) <= MaxMessageSize}

Channel == INSTANCE SecureChannel WITH up <- [p \in Peers |-> stage[p] # "down"]

\* The transport implements the secure channel: safety and, with Decrypt
\* running when it can, the delivery of what was sent.
ImplementsChannel == Channel!Spec
=============================================================================
