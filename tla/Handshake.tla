----------------------------- MODULE Handshake -----------------------------
(***************************************************************************)
(* The three-act Noise_XK handshake of src/lightning/bolt08/bolt08.go, for *)
(* any number of Handshake values on the dialling and the accepting side.  *)
(*                                                                         *)
(* Cryptography is symbolic.  A hash or a chaining key is the sequence of  *)
(* what was mixed into it, ECDH is the set of the two keys it combines,    *)
(* and a ciphertext is a record of the key, nonce and associated data it   *)
(* was sealed under and of its plaintext; it opens under the same three    *)
(* only.  The ephemeral key a handshake generates is named by the          *)
(* handshake itself, a static key by the node that owns it.                *)
(*                                                                         *)
(* Acts are arrays of 50 (acts one and two) or 66 bytes (act three). The   *)
(* network keeps every act and hands any act of the right size to any      *)
(* handshake, whole or damaged, any number of times.  An initiator of      *)
(* another implementation may seal, as its static key, one that is not its *)
(* own or bytes that are no key.                                           *)
(***************************************************************************)
EXTENDS Naturals, Sequences, FiniteSets

CONSTANTS
    Nodes,        \* static keys
    Initiators,   \* handshakes made by NewInitiatorHandshake
    Responders,   \* handshakes made by NewResponderHandshake
    Answers,      \* Answers[i]: the handshake made by the node that i dials for
                  \* the connection it accepts
    Foreign,      \* the initiators that are not of this code
    Unparsable,   \* 33 bytes that ParsePubKey refuses
    None,         \* no key; the empty plaintext
    \* bounds
    MaxErrors,    \* errors each handshake returns
    MaxOdd        \* static keys not its own that a foreign initiator seals

Handshakes == Initiators \cup Responders

Keys == Nodes \cup Handshakes

ASSUME SessionsAssumption ==
    /\ Initiators \cap Responders = {} /\ Nodes \cap Handshakes = {}
    /\ Unparsable \notin Keys /\ None \notin Keys \cup {Unparsable}
    /\ Foreign \subseteq Initiators

ASSUME AnswersAssumption ==
    /\ Answers \in [Initiators -> Responders]
    /\ \A r \in Responders : \E i \in Initiators : Answers[i] = r
    /\ \A i, j \in Initiators : Answers[i] = Answers[j] => i = j

ASSUME BoundAssumption == MaxErrors \in Nat /\ MaxOdd \in Nat

VARIABLES
    hs,       \* hs[s]: the symmetricState and the static and remote keys of
              \* handshake s
    phase,    \* phase[s]: the next call of s's caller
    net50,    \* acts one and two sent so far
    net66,    \* acts three sent so far
    errors,   \* errors[s]: errors s has returned
    poisoned  \* history: handshakes that refused the tag of an act after mixing
              \* in the key that came with it

vars == <<hs, phase, net50, net66, errors, poisoned>>
-----------------------------------------------------------------------------
(***************************************************************************)
(* symmetricState                                                          *)
(***************************************************************************)
\* mixHash: public keys and ciphertexts
Pub(k) == [pub |-> k]

MixHash(s, data) == [s EXCEPT !.h = Append(@, data)]

\* mixKey: tempK comes out of the same hkdf2 as ck, so ck stands for both.
MixKey(s, dh) == [s EXCEPT !.ck = Append(@, dh), !.nonce = 0]

ECDH(a, b) == {a, b}

Sealed(s, plain) == [key |-> s.ck, nonce |-> s.nonce, ad |-> s.h, plain |-> plain]

\* Mutation: the nonce is not incremented.
MixedKeepsNonce(s, c) == MixHash(s, c)

Mixed(s, c) == MixHash([s EXCEPT !.nonce = @ + 1], c)

EncryptAndHash(s, plain) == Mixed(s, Sealed(s, plain))

\* Mutation: the tag is not verified.
OpensAnything(s, c) == TRUE

Opens(s, c) == c.key = s.ck /\ c.nonce = s.nonce /\ c.ad = s.h

\* decryptAndHash, when the tag verifies
DecryptAndHash(s, c) == Mixed(s, c)

\* newHandshake: both sides mix the responder's static key
newHandshake(local, responder) ==
    [h |-> <<Pub(responder)>>, ck |-> <<>>, nonce |-> 0, ls |-> local, re |-> None, rs |-> None]

NewInitiatorHandshake(local, remote) == [newHandshake(local, remote) EXCEPT !.rs = remote]

NewResponderHandshake(local) == newHandshake(local, local)
-----------------------------------------------------------------------------
\* Any node may dial any node; each connection is accepted by the node dialled.
Init ==
    /\ \E local \in [Handshakes -> Nodes] :
          hs = [s \in Handshakes |->
                  IF s \in Initiators THEN NewInitiatorHandshake(local[s], local[Answers[s]])
                                      ELSE NewResponderHandshake(local[s])]
    /\ phase = [s \in Handshakes |-> IF s \in Initiators THEN "genOne" ELSE "recvOne"]
    /\ net50 = {}
    /\ net66 = {}
    /\ errors = [s \in Handshakes |-> 0]
    /\ poisoned = {}

Become(s, state, next) ==
    /\ hs' = [hs EXCEPT ![s] = state]
    /\ phase' = [phase EXCEPT ![s] = next]

\* A Recv* call returns an error and leaves s in the given state; its caller
\* may drop it or feed it another act.
Fail(s, state) ==
    /\ errors[s] < MaxErrors
    /\ errors' = [errors EXCEPT ![s] = @ + 1]
    /\ Become(s, state, phase[s])

\* Mutations: the version is checked after mixHash, and a refused key is
\* taken back.
FailCleanMixes(s) == Fail(s, MixHash(hs[s], Pub(Unparsable))) /\ UNCHANGED poisoned

FailDirtyTakesBack(s, state) == Fail(s, hs[s]) /\ poisoned' = poisoned \cup {s}

FailClean(s) == Fail(s, hs[s]) /\ UNCHANGED poisoned

\* Mutation: the hash is moved on and the nonce is not.
FailOpenedKeepsNonce(s, c) == Fail(s, MixHash(hs[s], c)) /\ UNCHANGED poisoned

\* What was opened has moved the hash and the nonce on, and is refused.
FailOpened(s, c) == Fail(s, DecryptAndHash(hs[s], c)) /\ UNCHANGED poisoned

FailDirty(s, state) == Fail(s, state) /\ poisoned' = poisoned \cup {s}

Succeed(s, state, next) ==
    Become(s, state, next) /\ UNCHANGED <<errors, poisoned>>

\* Acts one and two are made alike: mix the new ephemeral key, mix its ECDH
\* with the remote key, seal nothing.
GenEphemeralAct(s, remote, next) ==
    LET keyed == MixKey(MixHash(hs[s], Pub(s)), ECDH(s, remote)) IN
    /\ net50' = net50 \cup {[version |-> 0, key |-> s, tag |-> Sealed(keyed, None)]}
    /\ Succeed(s, EncryptAndHash(keyed, None), next)
    /\ UNCHANGED net66

\* They are received alike too. A bad version or key changes nothing; a bad
\* tag is found after the key has been stored and mixed.
RecvEphemeralAct(s, act, local, next) ==
    LET stored == [hs[s] EXCEPT !.re = act.key]
        keyed  == MixKey(MixHash(stored, Pub(act.key)), ECDH(local, act.key))
    IN
    /\ IF act.version # 0 \/ act.key = Unparsable
       THEN FailClean(s)
       ELSE IF Opens(keyed, act.tag)
            THEN Succeed(s, DecryptAndHash(keyed, act.tag), next)
            ELSE FailDirty(s, keyed)
    /\ UNCHANGED <<net50, net66>>

GenActOne(i) ==
    /\ phase[i] = "genOne"
    /\ GenEphemeralAct(i, hs[i].rs, "recvTwo")

RecvActOne(r, act) ==
    /\ phase[r] = "recvOne"
    /\ RecvEphemeralAct(r, act, hs[r].ls, "genTwo")

GenActTwo(r) ==
    /\ phase[r] = "genTwo"
    /\ GenEphemeralAct(r, hs[r].re, "recvThree")

RecvActTwo(i, act) ==
    /\ phase[i] = "recvTwo"
    /\ RecvEphemeralAct(i, act, i, "genThree")

GenActThree(i) ==
    LET known == EncryptAndHash(hs[i], hs[i].ls)
        keyed == MixKey(known, ECDH(hs[i].ls, hs[i].re))
    IN
    /\ phase[i] = "genThree"
    /\ net66' = net66 \cup {[version |-> 0,
                             static  |-> Sealed(hs[i], hs[i].ls),
                             tag     |-> Sealed(keyed, None)]}
    /\ Succeed(i, EncryptAndHash(keyed, None), "done")
    /\ UNCHANGED net50

\* A static key that opens and does not parse has been mixed into the hash. One
\* that parses is stored before the last tag authenticates it.
RecvActThree(r, act) ==
    LET known == [DecryptAndHash(hs[r], act.static) EXCEPT !.rs = act.static.plain]
        keyed == MixKey(known, ECDH(r, act.static.plain))
    IN
    /\ phase[r] = "recvThree"
    /\ IF act.version # 0 \/ ~Opens(hs[r], act.static) THEN FailClean(r)
       ELSE IF act.static.plain = Unparsable THEN FailOpened(r, act.static)
       ELSE IF Opens(keyed, act.tag) THEN Succeed(r, DecryptAndHash(keyed, act.tag), "done")
       ELSE FailDirty(r, keyed)
    /\ UNCHANGED <<net50, net66>>
-----------------------------------------------------------------------------
(***************************************************************************)
(* The network                                                             *)
(***************************************************************************)
Garbage == [key |-> <<>>, nonce |-> 0, ad |-> <<>>, plain |-> None]

\* A foreign initiator sends an act three with a static key of its choice. The
\* last tag takes the private half of that key, which it does not have. It goes
\* on from there as the responder does, and may still send its own static key.
GenOddActThree(i, static) ==
    /\ phase[i] = "genThree" /\ hs[i].nonce <= MaxOdd
    /\ net66' = net66 \cup {[version |-> 0, static |-> Sealed(hs[i], static), tag |-> Garbage]}
    /\ Succeed(i, EncryptAndHash(hs[i], static), "genThree")
    /\ UNCHANGED net50

\* One field of an act is wrong: the version, or a field replaced by that of
\* another act or by bytes that mean nothing.
Damaged50 ==
    (UNION {{[a EXCEPT !.version = 1], [a EXCEPT !.key = Unparsable], [a EXCEPT !.tag = Garbage]}
              : a \in net50})
    \cup {[a EXCEPT !.key = b.key] : a, b \in net50}

Damaged66 ==
    (UNION {{[a EXCEPT !.version = 1], [a EXCEPT !.static = Garbage], [a EXCEPT !.tag = Garbage]}
              : a \in net66})
    \cup {[a EXCEPT !.tag = b.tag] : a, b \in net66}

Recv(s, acts50, acts66) ==
    \/ s \in Responders /\ \E a \in acts50 : RecvActOne(s, a)
    \/ s \in Initiators /\ \E a \in acts50 : RecvActTwo(s, a)
    \/ s \in Responders /\ \E a \in acts66 : RecvActThree(s, a)

Gen(s) ==
    \/ s \in Initiators /\ (GenActOne(s) \/ GenActThree(s))
    \/ s \in Responders /\ GenActTwo(s)

Next ==
    \/ \E s \in Handshakes :
          \/ Gen(s)
          \/ Recv(s, net50 \cup Damaged50, net66 \cup Damaged66)
    \/ \E i \in Foreign, static \in Nodes \cup {Unparsable} : GenOddActThree(i, static)

Spec == Init /\ [][Next]_vars

\* Callers make their calls, and an intact act that would be accepted does
\* arrive in the end.
Accept(s) == Recv(s, net50, net66) /\ errors' = errors

FairSpec == Spec /\ \A s \in Handshakes : WF_vars(Gen(s)) /\ WF_vars(Accept(s))
-----------------------------------------------------------------------------
(***************************************************************************)
(* Properties                                                              *)
(***************************************************************************)
Phases ==
    {"genOne", "recvOne", "genTwo", "recvTwo", "genThree", "recvThree", "done"}

\* Variables have their types; a handshake that refused no tag after mixing has
\* mixed what its phase says, and a ciphertext more for each static key that was
\* sealed or opened in vain, with its nonce counting them.
TypeOK ==
    /\ phase \in [Handshakes -> Phases]
    /\ errors \in [Handshakes -> 0..MaxErrors]
    /\ poisoned \subseteq Handshakes
    /\ \A s \in Handshakes :
          /\ hs[s].nonce \in 0..(MaxOdd + 1)
          /\ hs[s].re \in Handshakes \cup {None}
          /\ hs[s].rs \in Nodes \cup {None} /\ hs[s].ls \in Nodes
          /\ s \notin poisoned =>
               LET hashed == Len(hs[s].h)
                   keyed  == Len(hs[s].ck)
                   nonce  == hs[s].nonce
               IN
               CASE phase[s] \in {"genOne", "recvOne"} -> hashed = 1 /\ keyed = 0 /\ nonce = 0
                 [] phase[s] \in {"recvTwo", "genTwo"}  -> hashed = 3 /\ keyed = 1 /\ nonce = 1
                 [] phase[s] \in {"genThree", "recvThree"} ->
                      hashed = 4 + nonce /\ keyed = 2 /\ nonce > 0
                 [] phase[s] = "done" -> hashed \in 7..(7 + MaxOdd) /\ keyed = 3 /\ nonce = 1

\* Handshake.Transport
Transport(s) ==
    LET k(half) == [ck |-> hs[s].ck, half |-> half] IN
    IF s \in Initiators THEN [send |-> k("k1"), recv |-> k("k2")]
                        ELSE [send |-> k("k2"), recv |-> k("k1")]

Mirrored(s, t) ==
    Transport(s).send = Transport(t).recv /\ Transport(s).recv = Transport(t).send

\* A responder that finishes act three shares its transport keys with one
\* initiator, no other handshake; that initiator meant to reach it and is the
\* node the responder's RemoteStatic names.
ResponderAgrees ==
    \A r \in Responders : phase[r] = "done" =>
        \E i \in Initiators :
            /\ phase[i] = "done"
            /\ hs[i].h = hs[r].h
            /\ Mirrored(i, r)
            /\ hs[i].rs = hs[r].ls /\ hs[r].rs = hs[i].ls
            /\ \A s \in Handshakes \ {i, r} : phase[s] = "done" => hs[s].ck # hs[r].ck

\* An initiator that accepts act two got it from the node it dialled, made in
\* answer to its own act one; a crossed, stale or damaged act never passes.
InitiatorAgrees ==
    \A i \in Initiators : phase[i] \in {"genThree", "done"} =>
        \E r \in Responders :
            /\ hs[r].ls = hs[i].rs
            /\ hs[i].re = r /\ hs[r].re = i
            /\ hs[r].ck[1] = hs[i].ck[1] /\ hs[r].ck[2] = hs[i].ck[2]

\* Once a tag has been refused the handshake never completes, whatever acts
\* its caller goes on feeding it: the refused key stays mixed in.
PoisonedNeverDone == \A s \in poisoned : phase[s] # "done"

\* i went through acts one and two with r, and its static key is what
\* RemoteStatic of r names.
IsRemoteOf(i, r) == hs[i].re = r /\ hs[i].rs = hs[r].ls /\ hs[i].ls = hs[r].rs

\* "RecvActThree is called by the responder to learn and authenticate the
\* initiator's static key" (bolt08.go:291-292).
\* RemoteStatic of a responder, stored before the last tag vouches for it, names
\* the initiator at the other end from then on if that is of this code, and in
\* any case once act three is accepted; what else a foreign initiator names
\* stays with a handshake that never completes.
RemoteStaticIsProven ==
    \A r \in Responders : hs[r].rs # None =>
        \/ \E i \in Initiators : phase[i] = "done" /\ IsRemoteOf(i, r)
        \/ r \in poisoned /\ phase[r] # "done" /\ hs[r].re \in Foreign

\* No key and nonce seal two ciphertexts in all handshakes together.
NoNonceReuse ==
    LET all == {a.tag : a \in net50 \cup net66} \cup {a.static : a \in net66} IN
    \A c, d \in all : (c.key = d.key /\ c.nonce = d.nonce) => c = d

\* Two handshakes have taken the same act one or two for their own.
Replayed ==
    \E s, t \in Handshakes : s # t /\ hs[s].re # None /\ hs[s].re = hs[t].re

\* A static key was sealed or opened in vain: more has been mixed into the hash
\* of s than the public key of the responder and two items for each key.
Strayed(s) == Len(hs[s].h) > 2 * Len(hs[s].ck) + 1

\* A bad version, an ephemeral key that does not parse or a static key that does
\* not open is refused before it leaves a trace: if nothing worse happens, no tag
\* is refused after its key was mixed and no act is taken twice, each connection
\* completes when intact acts arrive, unless its own initiator has sealed an odd
\* static key.
Completes ==
    <>(poisoned # {} \/ Replayed
         \/ \A i \in Initiators :
               Strayed(i) \/ (phase[i] = "done" /\ phase[hs[i].re] = "done"))
=============================================================================
