------------------------------- MODULE Onion -------------------------------
(***************************************************************************)
(* The onion packets of src/lightning/bolt04/bolt04.go: NewOnionPacket     *)
(* wraps the payloads of a route into one packet, and every hop of the     *)
(* route peels one layer off.  The repository has the sender only; the     *)
(* hops are modelled from what its comments expect of them.                *)
(*                                                                         *)
(* A byte is the set of the things that were added up in it, so that xor   *)
(* is the symmetric difference and a zero byte is the empty set: bytes of  *)
(* payloads and of their lengths, of pseudo-random streams and of HMACs.   *)
(* A private key is the set of blinding factors multiplied into the        *)
(* session key, and a blinding factor, a hash of the public key and of the *)
(* shared secret made with it, is determined by that secret.               *)
(***************************************************************************)
EXTENDS Naturals, Sequences, FiniteSetsExt

CONSTANTS
    OnionPacketPayloadSize,  \* 1300
    HMACSize,                \* 32
    LongPayload,             \* 253: lengths from here on take three bytes
    Nodes,
    Routes,                  \* the routes: sequences of [node, length]
    AssociatedData

ASSUME SizeAssumption ==
    OnionPacketPayloadSize \in Nat \ {0} /\ HMACSize \in Nat \ {0} /\ LongPayload \in Nat \ {0}

ASSUME RoutesAssumption == Routes \subseteq Seq([node : Nodes, length : Nat])

VARIABLES
    stage,    \* "validating", "deriving", "wrapping", "sent"; "refused" with an
              \* error; "arrived" at the last hop; "dropped" by a hop
    hops,     \* the route, with the length of each hop's payload
    key,      \* the sender's ephemeral key, then the packet's
    secrets,  \* sharedSecrets
    payload,  \* hopPayload, then the packet's
    todo,     \* the layers still to add: i + 1 in the second loop
    mac,      \* hmac, then the packet's
    read,     \* history: the payloads the hops have found
    damaged   \* history: a byte of the packet was changed on its way

vars == <<stage, hops, key, secrets, payload, mac, todo, read, damaged>>

-----------------------------------------------------------------------------
(* Bytes *)

Bytes(kind, of, n) == [j \in 1..n |-> {<<kind, of, j>>}]

Zeros(n) == [j \in 1..n |-> {}]

\* The longer operand keeps the bytes the shorter one does not reach.
xor(a, b) ==
    [j \in 1..(IF Len(a) > Len(b) THEN Len(a) ELSE Len(b)) |->
        SymDiff(IF j <= Len(a) THEN a[j] ELSE {}, IF j <= Len(b) THEN b[j] ELSE {})]

BigSizeLength(n) == IF n < LongPayload THEN 1 ELSE 3

BigSize(n) == Bytes("size", n, BigSizeLength(n))

Payload(k) == Bytes("payload", k, hops[k].length)

OnionPayloadLength(hop) == BigSizeLength(hop.length) + hop.length + HMACSize

\* The length of the first k layers of the route.
Offset[k \in 0..Len(hops)] ==
    IF k = 0 THEN 0 ELSE Offset[k - 1] + OnionPayloadLength(hops[k])

-----------------------------------------------------------------------------
(* Keys, streams and HMACs *)

SessionKey == {}

ECDH(k, node) == [key |-> k, node |-> node]

\* Mutation: the ephemeral key is not blinded from hop to hop.
BlindNot(k, secret) == k

Blind(k, secret) == k \cup {secret}

Stream(secret, n) == Bytes("rho", secret, n)

Padding == Bytes("pad", SessionKey, OnionPacketPayloadSize)

HMAC(secret, bytes) == Bytes("hmac", [over |-> bytes \o <<AssociatedData>>, secret |-> secret], HMACSize)

\* Mutation: every hop's stretch of the stream begins at the packet's end.
FillerStretchUnshifted(k) ==
    SubSeq(Stream(secrets[k], 2 * OnionPacketPayloadSize),
           OnionPacketPayloadSize + 1, OnionPacketPayloadSize + OnionPayloadLength(hops[k]))

\* What hop k's stream does to the zeros that the hops up to k have appended.
FillerStretch(k) ==
    SubSeq(Stream(secrets[k], 2 * OnionPacketPayloadSize),
           OnionPacketPayloadSize - Offset[k - 1] + 1,
           OnionPacketPayloadSize + OnionPayloadLength(hops[k]))

\* The filler after the first k rounds of its loop
FillerUpTo[k \in 0..Len(hops) - 1] ==
    IF k = 0 THEN Zeros(Offset[Len(hops) - 1]) ELSE xor(FillerUpTo[k - 1], FillerStretch(k))

Filler == FillerUpTo[Len(hops) - 1]

-----------------------------------------------------------------------------
Init ==
    /\ stage = "validating"
    /\ hops \in Routes
    /\ key = SessionKey /\ secrets = <<>>
    /\ payload = <<>> /\ mac = Zeros(HMACSize) /\ todo = 0
    /\ read = <<>> /\ damaged = FALSE

\* Mutation: each hop is held against the limit by itself.
ValidateEachHop ==
    /\ stage = "validating"
    /\ stage' = IF \E k \in DOMAIN hops : OnionPayloadLength(hops[k]) > OnionPacketPayloadSize
                THEN "refused" ELSE "deriving"
    /\ UNCHANGED <<hops, key, secrets, payload, mac, todo, read, damaged>>

ValidateHops ==
    /\ stage = "validating"
    /\ stage' = IF Offset[Len(hops)] > OnionPacketPayloadSize THEN "refused" ELSE "deriving"
    /\ UNCHANGED <<hops, key, secrets, payload, mac, todo, read, damaged>>

\* One round of the first loop
DeriveSecret ==
    LET secret == ECDH(key, hops[Len(secrets) + 1].node) IN
    /\ stage = "deriving"
    /\ Len(secrets) < Len(hops)
    /\ secrets' = Append(secrets, secret)
    /\ key' = Blind(key, secret)
    /\ UNCHANGED <<stage, hops, payload, mac, todo, read, damaged>>

\* The padding every layer is pushed into
Pad ==
    /\ stage = "deriving"
    /\ Len(secrets) = Len(hops)
    /\ stage' = "wrapping"
    /\ todo' = Len(hops)
    /\ payload' = Padding
    /\ UNCHANGED <<hops, key, secrets, mac, read, damaged>>

Prepend(k, hmac) == BigSize(hops[k].length) \o Payload(k) \o hmac

Prepended(k, inner, hmac) ==
    LET prepend == Prepend(k, hmac) IN
    prepend \o SubSeq(inner, 1, OnionPacketPayloadSize - Len(prepend))

\* Mutation: the layer is added after the rest has been encrypted.
LayerInTheClear(k, inner, hmac) ==
    LET prepend == Prepend(k, hmac) IN
    prepend \o SubSeq(xor(inner, Stream(secrets[k], OnionPacketPayloadSize)),
                      1, OnionPacketPayloadSize - Len(prepend))

\* The packet of hop k around the packet `inner' of the next one.
Layer(k, inner, hmac) ==
    LET encrypted == xor(Prepended(k, inner, hmac), Stream(secrets[k], OnionPacketPayloadSize)) IN
    IF k = Len(hops)
    THEN SubSeq(encrypted, 1, OnionPacketPayloadSize - Len(Filler)) \o Filler
    ELSE encrypted

\* One round of the second loop, the last hop of the route first
WrapHop ==
    /\ stage = "wrapping"
    /\ todo > 0
    /\ payload' = Layer(todo, payload, mac)
    /\ mac' = HMAC(secrets[todo], payload')
    /\ todo' = todo - 1
    /\ UNCHANGED <<stage, hops, key, secrets, read, damaged>>

\* The packet carries the session key's public key.
Send ==
    /\ stage = "wrapping"
    /\ todo = 0
    /\ stage' = "sent"
    /\ key' = SessionKey
    /\ UNCHANGED <<hops, secrets, payload, mac, todo, read, damaged>>

-----------------------------------------------------------------------------
(* The hops *)

Hop == Len(read) + 1

HopSecret == ECDH(key, hops[Hop].node)

\* Every hop adds zeros before it decrypts and cuts what it passes on.
Opened ==
    xor(payload \o Zeros(OnionPacketPayloadSize), Stream(HopSecret, 2 * OnionPacketPayloadSize))

\* The lengths, at most one, that a decrypted payload begins with.
LengthsRead(opened) ==
    {n \in {byte[2] : byte \in {b \in opened[1] : b[1] = "size"}} :
        SubSeq(opened, 1, BigSizeLength(n)) = BigSize(n)}

Readable == mac = HMAC(HopSecret, payload) /\ LengthsRead(Opened) # {}

Peel ==
    /\ stage = "sent" /\ Hop <= Len(hops)
    /\ Readable
    /\ \E n \in LengthsRead(Opened) :
          LET layer == OnionPayloadLength([length |-> n])
              next  == SubSeq(Opened, layer - HMACSize + 1, layer)
          IN  /\ read' = Append(read, SubSeq(Opened, BigSizeLength(n) + 1, BigSizeLength(n) + n))
              /\ mac' = next
              /\ payload' = SubSeq(Opened, layer + 1, layer + OnionPacketPayloadSize)
              /\ stage' = IF next = Zeros(HMACSize) THEN "arrived" ELSE "sent"
    /\ key' = Blind(key, HopSecret)
    /\ UNCHANGED <<hops, secrets, todo, damaged>>

Drop ==
    /\ stage = "sent" /\ Hop <= Len(hops)
    /\ ~Readable
    /\ stage' = "dropped"
    /\ UNCHANGED <<hops, key, secrets, payload, mac, todo, read, damaged>>

\* A byte of the packet changes on its way to the next hop.
Damage ==
    /\ stage = "sent" /\ Hop <= Len(hops)
    /\ ~damaged
    /\ damaged' = TRUE
    /\ \E j \in DOMAIN payload : payload' = [payload EXCEPT ![j] = SymDiff(@, {<<"noise", 0, j>>})]
    /\ UNCHANGED <<stage, hops, key, secrets, mac, todo, read>>

NewOnionPacket == ValidateHops \/ DeriveSecret \/ Pad \/ WrapHop \/ Send

Next == NewOnionPacket \/ Peel \/ Drop \/ Damage

Spec == Init /\ [][Next]_vars

-----------------------------------------------------------------------------
(* Properties *)

\* Types; in particular the packet has its one size while it is wrapped and
\* at every hop (bolt04.go:117-123, 131-136): no layer and no filler is cut
\* short or makes it grow.
TypeOK ==
    /\ stage \in {"validating", "deriving", "wrapping", "sent", "refused", "arrived", "dropped"}
    /\ hops \in Routes
    /\ todo \in 0..Len(hops)
    /\ Len(secrets) <= Len(hops) /\ Len(read) <= Len(hops)
    /\ Len(mac) = HMACSize
    /\ Len(payload) = IF stage \in {"wrapping", "sent", "arrived", "dropped"}
                      THEN OnionPacketPayloadSize ELSE 0

\* Every route that is not refused is read by all of its hops: each finds the
\* HMAC it computes itself and its own payload, and the last one, and nobody
\* else, finds that it is the last (bolt04.go:108-110). This is what the
\* filler is for (131-136): it must be the bytes that the zeros added by
\* earlier hops have become. A packet that is damaged is read by no hop.
EveryHopFindsItsPayload ==
    /\ stage = "dropped" => damaged
    /\ damaged => stage # "arrived"
    /\ \A k \in DOMAIN read : read[k] = Payload(k)
    /\ stage = "arrived" <=> (hops # <<>> /\ Len(read) = Len(hops))

\* No two layers are encrypted with one stream, also when a node is on the
\* route more than once ("using the same 96-bit nonce is safe because we
\* never reuse keys", bolt04.go:178).
KeysNeverReused ==
    \A i, j \in DOMAIN secrets : secrets[i] = secrets[j] => i = j

\* A payload on its way is hidden from the hops before its own: whatever they
\* take off, its own hop's stream is still on every byte of it.
OnlyItsHopReads ==
    stage = "sent" =>
        \A k \in Hop..Len(hops), j \in DOMAIN payload :
            (\E i \in 1..hops[k].length : <<"payload", k, i>> \in payload[j])
                => \E i \in 1..OnionPacketPayloadSize : <<"rho", secrets[k], i>> \in payload[j]
=============================================================================
