-------------------------- MODULE TransportProofs --------------------------
(* Proofs about Transport, for every interval, message set and caller. *)
EXTENDS Transport, SequenceTheorems, TLAPS

(***************************************************************************)
(* The inductive invariant                                                 *)
(***************************************************************************)

\* How many ciphertexts come before the one sealed or opened in state s
Position(s) == s.key.gen * KeyRotationInterval + s.nonce

\* The k-th ciphertext a peer seals has position k - 1; message m is
\* ciphertexts 2m - 1 (its length) and 2m.
SealedLog ==
    \A p \in Peers :
        /\ tx[p].key.half = SendHalf(p)
        /\ tx[p].nonce % 2 = 0
        /\ Position(tx[p]) = Len(sealed[p])
        /\ \A k \in DOMAIN sealed[p] :
              /\ sealed[p][k].key.half = SendHalf(p)
              /\ sealed[p][k].nonce < KeyRotationInterval
              /\ Position(sealed[p][k]) = k - 1

\* A connection invents no ciphertext.
WireLog ==
    \A p \in Peers : \A i \in DOMAIN wire[p] :
        \E k \in DOMAIN sealed[p] : wire[p][i].of = sealed[p][k]

\* What was opened is what was sealed, up to the reader's position.
OpenedLog ==
    \A p \in Peers :
        /\ rx[p].key.half = RecvHalf(p)
        /\ Position(rx[p]) = Len(opened[p])
        /\ Len(opened[p]) <= Len(sealed[Other(p)])
        /\ \A k \in DOMAIN opened[p] : opened[p][k] = sealed[Other(p)][k]

IInv == TypeOK /\ SealedLog /\ WireLog /\ OpenedLog

-----------------------------------------------------------------------------
(***************************************************************************)
(* Lemmas about the operators                                              *)
(***************************************************************************)

\* A position determines the key's generation and the nonce.
LEMMA PositionUnique ==
    ASSUME NEW K \in Nat \ {0}, NEW g \in Nat, NEW h \in Nat,
           NEW n \in Nat, NEW m \in Nat, n < K, m < K, g * K + n = h * K + m
    PROVE  g = h /\ n = m
<1>1. ASSUME NEW a \in Nat, NEW b \in Nat, a < b
      PROVE  a * K + K <= b * K
  <2>1. PICK d \in Nat : b = a + 1 + d
    BY <1>1, b - a - 1 \in Nat
  <2>2. b * K = a * K + K + d * K
    BY <2>1
  <2>3. d * K \in Nat /\ a * K \in Nat
    OBVIOUS
  <2>. QED  BY <2>2, <2>3
<1>2. ~(g < h)
  BY <1>1 , g * K \in Nat, h * K \in Nat
<1>3. ~(h < g)
  BY <1>1 , g * K \in Nat, h * K \in Nat
<1>4. g = h
  BY <1>2, <1>3
<1>. QED  BY <1>4, g * K \in Nat

\* The two ends are each other's peer and use different halves.
LEMMA PeersFacts ==
    /\ \A p \in Peers : Other(p) \in Peers /\ Other(p) # p /\ Other(Other(p)) = p
    /\ \A p \in Peers : SendHalf(p) = RecvHalf(Other(p)) /\ RecvHalf(p) = SendHalf(Other(p))
    /\ \A p \in Peers : SendHalf(p) \in {"k1", "k2"} /\ RecvHalf(p) \in {"k1", "k2"}
    /\ \A p, q \in Peers : SendHalf(p) = SendHalf(q) => p = q
BY DEF Peers, Other, SendHalf, RecvHalf

\* A rotation keeps the half and the position.
LEMMA RotateFacts ==
    ASSUME NEW s \in CipherState, s.nonce <= KeyRotationInterval
    PROVE  /\ RotateKey(s) \in CipherState
           /\ RotateKey(s).nonce < KeyRotationInterval
           /\ RotateKey(s).key.half = s.key.half
           /\ Position(RotateKey(s)) = Position(s)
           /\ s.nonce % 2 = 0 => RotateKey(s).nonce % 2 = 0
<1>. DEFINE K == KeyRotationInterval
<1>1. K \in Nat \ {0}
  BY IntervalAssumption
<1>2. CASE s.nonce = K
  <2>1. RotateKey(s) = [key |-> [half |-> s.key.half, gen |-> s.key.gen + 1], nonce |-> 0]
    BY <1>2 DEF RotateKey, CipherState, Key
  <2>2. Position(RotateKey(s)) = (s.key.gen + 1) * K
    BY <2>1, <1>1 DEF Position, CipherState, Key
  <2>3. (s.key.gen + 1) * K = s.key.gen * K + K
    BY <1>1 DEF CipherState, Key
  <2>. QED  BY <2>1, <2>2, <2>3, <1>1, <1>2 DEF Position, CipherState, Key
<1>3. CASE s.nonce # K
  BY <1>1, <1>3 DEF RotateKey, CipherState, Key
<1>. QED  BY <1>2, <1>3

\* Counting a ciphertext keeps the key.
LEMMA AdvanceFacts ==
    ASSUME NEW s \in CipherState, NEW n \in Nat
    PROVE  /\ Advance(s, n) \in CipherState
           /\ Advance(s, n).key = s.key
           /\ Advance(s, n).nonce = s.nonce + n
           /\ Position(Advance(s, n)) = Position(s) + n
<1>1. /\ Advance(s, n) \in CipherState
      /\ Advance(s, n).key = s.key
      /\ Advance(s, n).nonce = s.nonce + n
  BY DEF Advance, CipherState
<1>2. s.key.gen * KeyRotationInterval \in Nat /\ s.nonce \in Nat
  BY IntervalAssumption DEF CipherState, Key
<1>. QED  BY <1>1, <1>2 DEF Position

\* A length prefix consists of bytes.
LEMMA LengthBytesType ==
    ASSUME NEW n \in Nat
    PROVE  LengthBytes(n) \in Seq(Byte)
<1>1. (n \div Base) % Base \in Byte /\ n % Base \in Byte
  BY SizeAssumption DEF Byte
<1>. QED  BY <1>1 DEF LengthBytes

\* The largest message has a size.
LEMMA MaxSizeType == MaxMessageSize \in Nat
<1>1. \A b \in Nat \ {0, 1} : b * b >= b /\ b * b \in Nat
  OBVIOUS
<1>. QED  BY <1>1, SizeAssumption DEF MaxMessageSize

\* Two bytes read as a length stay within the largest message.
LEMMA LengthOfType ==
    ASSUME NEW b \in Seq(Byte), Len(b) = 2
    PROVE  LengthOf(b) \in 0..MaxMessageSize
<1>0. b[1] \in Byte /\ b[2] \in Byte
  OBVIOUS
<1>1. b[1] \in 0..(Base - 1) /\ b[2] \in 0..(Base - 1)
  BY <1>0 DEF Byte
<1>2. \A x \in 0..(Base - 1) : x * Base \in Nat /\ x * Base <= (Base - 1) * Base
  BY SizeAssumption
<1>3. (Base - 1) * Base = Base * Base - Base /\ Base * Base \in Nat
  BY SizeAssumption
<1>. QED  BY <1>1, <1>2, <1>3, SizeAssumption DEF LengthOf, MaxMessageSize

\* The units of a ciphertext are typed and name it.
LEMMA UnitsFacts ==
    ASSUME NEW c \in Ciphertext
    PROVE  /\ Units(c) \in Seq(Unit)
           /\ Len(Units(c)) = Len(c.plain) + MacSize
           /\ \A i \in DOMAIN Units(c) : Units(c)[i].of = c
<1>1. Len(c.plain) + MacSize \in Nat
  BY SizeAssumption DEF Ciphertext
<1>2. \A i \in 1..(Len(c.plain) + MacSize) : [of |-> c, at |-> i, intact |-> TRUE] \in Unit
  BY <1>1 DEF Unit
<1>. QED  BY <1>1, <1>2 DEF Units

\* Where an element of a concatenation comes from.
LEMMA ConcatElement ==
    ASSUME NEW S, NEW a \in Seq(S), NEW b \in Seq(S), NEW c \in Seq(S),
           NEW i \in DOMAIN (a \o b \o c)
    PROVE  \/ i \in DOMAIN a /\ (a \o b \o c)[i] = a[i]
           \/ \E j \in DOMAIN b : (a \o b \o c)[i] = b[j]
           \/ \E j \in DOMAIN c : (a \o b \o c)[i] = c[j]
<1>1. i \in 1..(Len(a) + Len(b) + Len(c))
  OBVIOUS
<1>2. CASE i <= Len(a)
  BY <1>1, <1>2
<1>3. CASE Len(a) < i /\ i <= Len(a) + Len(b)
  <2>1. i - Len(a) \in DOMAIN b /\ (a \o b \o c)[i] = b[i - Len(a)]
    BY <1>1, <1>3
  <2>. QED  BY <2>1
<1>4. CASE Len(a) + Len(b) < i
  <2>1. /\ i - Len(a) - Len(b) \in DOMAIN c
        /\ (a \o b \o c)[i] = c[i - Len(a) - Len(b)]
    BY <1>1, <1>4
  <2>. QED  BY <2>1
<1>. QED  BY <1>1, <1>2, <1>3, <1>4

\* What is on a wire after writing two ciphertexts to it
LEMMA WrittenUnits ==
    \A w \in Seq(Unit), c, d \in Ciphertext :
        \A i \in DOMAIN (w \o Units(c) \o Units(d)) :
            \/ i \in DOMAIN w /\ (w \o Units(c) \o Units(d))[i] = w[i]
            \/ (w \o Units(c) \o Units(d))[i].of = c
            \/ (w \o Units(c) \o Units(d))[i].of = d
<1>. TAKE w \in Seq(Unit), c, d \in Ciphertext
<1>. TAKE i \in DOMAIN (w \o Units(c) \o Units(d))
<1>1. Units(c) \in Seq(Unit) /\ Units(d) \in Seq(Unit)
  BY UnitsFacts
<1>2. \/ i \in DOMAIN w /\ (w \o Units(c) \o Units(d))[i] = w[i]
      \/ \E j \in DOMAIN Units(c) : (w \o Units(c) \o Units(d))[i] = Units(c)[j]
      \/ \E j \in DOMAIN Units(d) : (w \o Units(c) \o Units(d))[i] = Units(d)[j]
  BY <1>1, ConcatElement
<1>. QED  BY <1>2, UnitsFacts

LEMMA PrefixFromElements ==
    \A S : \A a, b \in Seq(S) :
        (Len(a) <= Len(b) /\ \A k \in DOMAIN a : a[k] = b[k]) => IsPrefix(a, b)
<1>. SUFFICES ASSUME NEW S, NEW a \in Seq(S), NEW b \in Seq(S),
                     Len(a) <= Len(b), \A k \in DOMAIN a : a[k] = b[k]
              PROVE  SubSeq(a, 1, Len(a)) = SubSeq(b, 1, Len(a))
  BY DEF IsPrefix
<1>. QED  OBVIOUS

-----------------------------------------------------------------------------
(***************************************************************************)
(* What a successful read opens                                            *)
(***************************************************************************)

\* The units read are a ciphertext of the peer's log, whole, and the one at
\* the reader's position: the tag leaves no other choice.
LEMMA OpensNext ==
    ASSUME IInv, NEW p \in Peers, Reading(p), Available(p) >= Wanted(p),
           Opens(rx[p], Incoming(p))
    PROVE  LET c == Incoming(p)[1].of
               k == Len(opened[p]) + 1
           IN  /\ k \in DOMAIN sealed[Other(p)]
               /\ c = sealed[Other(p)][k]
               /\ c \in Ciphertext
               /\ Len(c.plain) + MacSize = Wanted(p)
               /\ rx[p].nonce < KeyRotationInterval
<1>. DEFINE q == Other(p)
            us == Incoming(p)
            c == us[1].of
            K == KeyRotationInterval
<1>1. q \in Peers
  BY PeersFacts
<1>2. Wanted(p) \in Nat /\ Wanted(p) >= 1
  BY SizeAssumption DEF IInv, TypeOK, Wanted, LengthSize, MaxMessageSize
<1>3. wire[q] \in Seq(Unit) /\ Wanted(p) <= Len(wire[q])
  BY <1>1 DEF IInv, TypeOK, Available
<1>4. Len(us) = Wanted(p) /\ us[1] = wire[q][1] /\ 1 \in DOMAIN wire[q]
  BY <1>2, <1>3 DEF Incoming
<1>5. PICK k \in DOMAIN sealed[q] : c = sealed[q][k]
  BY <1>1, <1>4 DEF IInv, WireLog
<1>6. sealed[q] \in Seq(Ciphertext)
  BY <1>1 DEF IInv, TypeOK
<1>7. c \in Ciphertext
  BY <1>5, <1>6
<1>8. Len(c.plain) + MacSize = Wanted(p)
  BY <1>4, <1>7, UnitsFacts DEF Opens
<1>9. c.key = rx[p].key /\ c.nonce = rx[p].nonce
  BY DEF Opens
<1>10. c.nonce < K /\ Position(c) = k - 1
  BY <1>1, <1>5 DEF IInv, SealedLog
<1>11. Position(rx[p]) = Len(opened[p])
  BY DEF IInv, OpenedLog
<1>12. k = Len(opened[p]) + 1
  BY <1>5, <1>6, <1>9, <1>10, <1>11 DEF Position, IInv, TypeOK
<1>. QED  BY <1>5, <1>7, <1>8, <1>9, <1>10, <1>12

-----------------------------------------------------------------------------
(***************************************************************************)
(* The invariant is inductive                                              *)
(***************************************************************************)
LEMMA InitIInv == Init => IInv
<1>. SUFFICES ASSUME Init PROVE IInv
  OBVIOUS
<1>. USE DEF Init
<1>1. TypeOK
  <2>1. 0 \in 0..MaxMessageSize
    BY MaxSizeType
  <2>2. \A half \in {"k1", "k2"} : Fresh(half) \in CipherState /\ Fresh(half).nonce = 0
    BY DEF Fresh, CipherState, Key
  <2>3. /\ tx \in [Peers -> CipherState] /\ rx \in [Peers -> CipherState]
        /\ \A p \in Peers : tx[p].nonce = 0 /\ rx[p].nonce = 0
    BY <2>2, PeersFacts
  <2>4. /\ <<>> \in Seq(Unit) /\ <<>> \in Seq(Messages)
        /\ <<>> \in Seq(Ciphertext) /\ <<>> \in Seq(Seq(Byte))
    OBVIOUS
  <2>. QED  BY <2>1, <2>3, <2>4, IntervalAssumption, BoundAssumption DEF TypeOK
<1>2. SealedLog
  BY IntervalAssumption DEF SealedLog, Fresh, Position
<1>3. WireLog
  BY DEF WireLog
<1>4. OpenedLog
  BY IntervalAssumption, PeersFacts DEF OpenedLog, Fresh, Position
<1>. QED  BY <1>1, <1>2, <1>3, <1>4 DEF IInv

\* Encrypt moves the sender to fresh nonces and logs what it sealed there.
LEMMA EncryptIInv ==
    ASSUME IInv, NEW p \in Peers, NEW m \in Messages, Encrypt(p, m)
    PROVE  IInv'
<1>. DEFINE K == KeyRotationInterval
            prefix == Seal(tx[p].key, tx[p].nonce, LengthBytes(Len(m)))
            payload == Seal(tx[p].key, tx[p].nonce + 1, m)
            t == Advance(tx[p], 2)
            log == sealed[p]
<1>0. K \in Nat \ {0} /\ K % 2 = 0
  BY IntervalAssumption
<1>1. tx[p] \in CipherState /\ tx[p].nonce < K /\ tx[p].nonce % 2 = 0
  BY DEF IInv, TypeOK, SealedLog
<1>2. tx[p].nonce + 2 <= K /\ (tx[p].nonce + 2) % 2 = 0
  BY <1>0, <1>1 DEF CipherState
<1>3. /\ t \in CipherState
      /\ t.nonce = tx[p].nonce + 2
      /\ t.key = tx[p].key
      /\ Position(t) = Position(tx[p]) + 2
  BY <1>1, AdvanceFacts
<1>4. /\ RotateKey(t) \in CipherState
      /\ RotateKey(t).nonce < K
      /\ RotateKey(t).nonce % 2 = 0
      /\ RotateKey(t).key.half = tx[p].key.half
      /\ Position(RotateKey(t)) = Position(t)
  BY <1>2, <1>3, RotateFacts
<1>5. Position(tx[p]) = Len(log) /\ Position(t) = Len(log) + 2
  BY <1>3 DEF IInv, SealedLog
<1>6. m \in Seq(Byte)
  BY MessagesAssumption
<1>7. prefix \in Ciphertext /\ payload \in Ciphertext
  <2>1. Len(m) \in Nat
    BY <1>6
  <2>2. LengthBytes(Len(m)) \in Seq(Byte)
    BY <2>1, LengthBytesType
  <2>. QED  BY <1>1, <1>6, <2>2 DEF Seal, Ciphertext, CipherState, Key
<1>8. /\ prefix.key = tx[p].key /\ prefix.nonce = tx[p].nonce
      /\ payload.key = tx[p].key /\ payload.nonce = tx[p].nonce + 1
  BY DEF Seal
<1>9. log \in Seq(Ciphertext) /\ wire[p] \in Seq(Unit)
  BY DEF IInv, TypeOK
<1>10. /\ sealed' = [sealed EXCEPT ![p] = log \o <<prefix, payload>>]
       /\ tx' = [tx EXCEPT ![p] = RotateKey(t)]
       /\ wire' = [wire EXCEPT ![p] =
                     IF closed[p] THEN @ ELSE @ \o Units(prefix) \o Units(payload)]
       /\ sent' = [sent EXCEPT ![p] = Append(@, m)]
       /\ UNCHANGED <<rx, stage, length, closed, opened, delivered, failed, faults>>
  BY DEF Encrypt
<1>11. /\ Len(log \o <<prefix, payload>>) = Len(log) + 2
       /\ \A k \in 1..Len(log) : (log \o <<prefix, payload>>)[k] = log[k]
       /\ (log \o <<prefix, payload>>)[Len(log) + 1] = prefix
       /\ (log \o <<prefix, payload>>)[Len(log) + 2] = payload
       /\ log \o <<prefix, payload>> \in Seq(Ciphertext)
  BY <1>7, <1>9
<1>12. /\ Units(prefix) \in Seq(Unit) /\ Units(payload) \in Seq(Unit)
       /\ \A i \in DOMAIN Units(prefix) : Units(prefix)[i].of = prefix
       /\ \A i \in DOMAIN Units(payload) : Units(payload)[i].of = payload
  BY <1>7, UnitsFacts
<1>13. TypeOK'
  BY <1>4, <1>9, <1>10, <1>11, <1>12 DEF IInv, TypeOK
<1>14. SealedLog'
  <2>. SUFFICES ASSUME NEW q \in Peers
                PROVE  /\ tx'[q].key.half = SendHalf(q)
                       /\ tx'[q].nonce % 2 = 0
                       /\ Position(tx'[q]) = Len(sealed'[q])
                       /\ \A k \in DOMAIN sealed'[q] :
                             /\ sealed'[q][k].key.half = SendHalf(q)
                             /\ sealed'[q][k].nonce < K
                             /\ Position(sealed'[q][k]) = k - 1
    BY DEF SealedLog, Position
  <2>1. CASE q # p
    BY <2>1, <1>10 DEF IInv, TypeOK, SealedLog
  <2>2. CASE q = p
    <3>1. tx'[p] = RotateKey(t) /\ sealed'[p] = log \o <<prefix, payload>>
      BY <1>10 DEF IInv, TypeOK
    <3>2. tx[p].key.half = SendHalf(p)
      BY DEF IInv, SealedLog
    <3>3. /\ Position(prefix) = Len(log) /\ prefix.nonce < K
          /\ Position(payload) = Len(log) + 1 /\ payload.nonce < K
      <4>1. tx[p].key.gen * K \in Nat
        BY <1>0, <1>1 DEF CipherState, Key
      <4>2. Position(prefix) = Position(tx[p])
        BY <1>8 DEF Position
      <4>3. Position(payload) = Position(tx[p]) + 1
        <5>1. tx[p].nonce \in Nat
          BY <1>1 DEF CipherState
        <5>. QED  BY <1>8, <4>1, <5>1 DEF Position
      <4>. QED  BY <1>0, <1>1, <1>2, <1>5, <1>8, <4>2, <4>3 DEF CipherState
    <3>4. ASSUME NEW k \in DOMAIN sealed'[p]
          PROVE  /\ sealed'[p][k].key.half = SendHalf(p)
                 /\ sealed'[p][k].nonce < K
                 /\ Position(sealed'[p][k]) = k - 1
      <4>1. k \in 1..(Len(log) + 2)
        BY <1>11, <3>1
      <4>2. CASE k \in 1..Len(log)
        BY <1>9, <1>11, <3>1, <4>2 DEF IInv, SealedLog
      <4>3. CASE k = Len(log) + 1
        BY <1>8, <1>9, <1>11, <3>1, <3>2, <3>3, <4>3
      <4>4. CASE k = Len(log) + 2
        BY <1>8, <1>9, <1>11, <3>1, <3>2, <3>3, <4>4
      <4>. QED  BY <1>9, <4>1, <4>2, <4>3, <4>4
    <3>. QED  BY <1>4, <1>5, <1>11, <2>2, <3>1, <3>2, <3>4
  <2>. QED  BY <2>1, <2>2
<1>15. WireLog'
  <2>. SUFFICES ASSUME NEW q \in Peers, NEW i \in DOMAIN wire'[q]
                PROVE  \E k \in DOMAIN sealed'[q] : wire'[q][i].of = sealed'[q][k]
    BY DEF WireLog
  <2>1. \A r \in Peers : \A k \in DOMAIN sealed[r] :
           k \in DOMAIN sealed'[r] /\ sealed'[r][k] = sealed[r][k]
    <3>. TAKE r \in Peers
    <3>1. CASE r = p
      <4>1. sealed'[p] = log \o <<prefix, payload>>
        BY <1>10 DEF IInv, TypeOK
      <4>. QED  BY <1>9, <1>11, <3>1, <4>1
    <3>2. CASE r # p
      BY <1>10, <3>2 DEF IInv, TypeOK
    <3>. QED  BY <3>1, <3>2
  <2>2. CASE wire'[q] = wire[q]
    BY <2>1, <2>2 DEF IInv, WireLog
  <2>3. CASE q = p /\ wire'[p] = wire[p] \o Units(prefix) \o Units(payload)
    <3>1. \/ i \in DOMAIN wire[p] /\ wire'[p][i] = wire[p][i]
          \/ wire'[p][i].of = prefix
          \/ wire'[p][i].of = payload
      <4>. DEFINE cat == wire[p] \o Units(prefix) \o Units(payload)
      <4>. HIDE DEF prefix, payload
      <4>1. \A j \in DOMAIN cat : \/ j \in DOMAIN wire[p] /\ cat[j] = wire[p][j]
                                \/ cat[j].of = prefix
                                \/ cat[j].of = payload
        BY <1>7, <1>9, WrittenUnits
      <4>2. wire'[p] = cat /\ i \in DOMAIN wire'[p]
        BY <2>3
      <4>. HIDE DEF cat
      <4>. QED  BY <4>1, <4>2
    <3>2. /\ Len(log) + 1 \in DOMAIN sealed'[p] /\ sealed'[p][Len(log) + 1] = prefix
          /\ Len(log) + 2 \in DOMAIN sealed'[p] /\ sealed'[p][Len(log) + 2] = payload
      BY <1>9, <1>10, <1>11 DEF IInv, TypeOK
    <3>. QED  BY <2>1, <2>3, <3>1, <3>2 DEF IInv, WireLog
  <2>. QED  BY <1>10, <2>2, <2>3 DEF IInv, TypeOK
<1>16. OpenedLog'
  <2>1. \A q \in Peers : /\ sealed[q] \in Seq(Ciphertext)
                         /\ Len(sealed[q]) <= Len(sealed'[q])
                         /\ \A k \in DOMAIN sealed[q] : sealed'[q][k] = sealed[q][k]
    <3>. TAKE q \in Peers
    <3>1. CASE q = p
      <4>1. sealed'[p] = log \o <<prefix, payload>>
        BY <1>10 DEF IInv, TypeOK
      <4>. QED  BY <1>9, <1>11, <3>1, <4>1
    <3>2. CASE q # p
      BY <1>10, <3>2 DEF IInv, TypeOK
    <3>. QED  BY <3>1, <3>2
  <2>2. \A q \in Peers : Other(q) \in Peers /\ opened[q] \in Seq(Ciphertext)
    BY PeersFacts DEF IInv, TypeOK
  <2>3. opened' = opened /\ rx' = rx
    BY <1>10
  <2>4. \A q \in Peers : sealed'[q] \in Seq(Ciphertext)
    BY <1>13 DEF TypeOK
  <2>. SUFFICES ASSUME NEW q \in Peers
                PROVE  /\ Len(opened[q]) <= Len(sealed'[Other(q)])
                       /\ \A k \in DOMAIN opened[q] : opened[q][k] = sealed'[Other(q)][k]
    BY <2>3 DEF IInv, OpenedLog, Position
  <2>. QED  BY <2>1, <2>2, <2>4 DEF IInv, OpenedLog
<1>. QED  BY <1>13, <1>14, <1>15, <1>16 DEF IInv

\* Taking units off the wire, or losing some, leaves the rest in place.
LEMMA ShorterWire ==
    ASSUME IInv, NEW q \in Peers, NEW a \in Nat, NEW b \in 0..Len(wire[q]), a >= 1,
           wire' = [wire EXCEPT ![q] = SubSeq(@, a, b)], sealed' = sealed
    PROVE  wire' \in [Peers -> Seq(Unit)] /\ WireLog'
<1>1. wire[q] \in Seq(Unit)
  BY DEF IInv, TypeOK
<1>2. /\ SubSeq(wire[q], a, b) \in Seq(Unit)
      /\ \A i \in DOMAIN SubSeq(wire[q], a, b) :
            a + i - 1 \in DOMAIN wire[q] /\ SubSeq(wire[q], a, b)[i] = wire[q][a + i - 1]
  BY <1>1
<1>3. wire' \in [Peers -> Seq(Unit)] /\ wire'[q] = SubSeq(wire[q], a, b)
  BY <1>2 DEF IInv, TypeOK
<1>4. \A r \in Peers : \A i \in DOMAIN wire'[r] : \E j \in DOMAIN wire[r] : wire'[r][i] = wire[r][j]
  <2>. TAKE r \in Peers
  <2>1. CASE r = q
    BY <1>2, <1>3, <2>1
  <2>2. CASE r # q
    BY <2>2 DEF IInv, TypeOK
  <2>. QED  BY <2>1, <2>2
<1>5. WireLog'
  <2>. SUFFICES ASSUME NEW r \in Peers, NEW i \in DOMAIN wire'[r]
                PROVE  \E k \in DOMAIN sealed[r] : wire'[r][i].of = sealed[r][k]
    BY DEF WireLog
  <2>1. PICK j \in DOMAIN wire[r] : wire'[r][i] = wire[r][j]
    BY <1>4
  <2>2. PICK k \in DOMAIN sealed[r] : wire[r][j].of = sealed[r][k]
    BY DEF IInv, WireLog
  <2>. QED  BY <2>1, <2>2
<1>. QED  BY <1>3, <1>5

\* Reading only takes units off the wire.
LEMMA ConsumeIInv ==
    ASSUME IInv, NEW p \in Peers, NEW n \in 0..Available(p), Consume(p, n), sealed' = sealed
    PROVE  wire' \in [Peers -> Seq(Unit)] /\ WireLog'
<1>1. Other(p) \in Peers
  BY PeersFacts
<1>2. wire[Other(p)] \in Seq(Unit)
  BY <1>1 DEF IInv, TypeOK
<1>3. /\ n + 1 \in Nat /\ n + 1 >= 1
      /\ Len(wire[Other(p)]) \in 0..Len(wire[Other(p)])
  BY <1>2 DEF Available
<1>4. wire' = [wire EXCEPT ![Other(p)] = SubSeq(@, n + 1, Len(wire[Other(p)]))]
  BY DEF Consume
<1>. QED  BY <1>1, <1>3, <1>4, ShorterWire

\* An error leaves types as they are.
LEMMA FailType ==
    ASSUME IInv, NEW p \in Peers, NEW kind \in {"mac", "io"}, Fail(p, kind)
    PROVE  /\ stage' \in [Peers -> {"length", "payload", "down"}]
           /\ closed' \in [Peers -> BOOLEAN]
           /\ failed' \in [Peers -> SUBSET {"mac", "io"}]
<1>1. failed' \in [Peers -> SUBSET {"mac", "io"}]
  <2>1. failed[p] \cup {kind} \in SUBSET {"mac", "io"}
    BY DEF IInv, TypeOK
  <2>. QED  BY <2>1 DEF Fail, IInv, TypeOK
<1>2. CASE kind \in RetryAfter
  BY <1>1, <1>2 DEF Fail, IInv, TypeOK
<1>3. CASE kind \notin RetryAfter
  BY <1>1, <1>3 DEF Fail, IInv, TypeOK
<1>. QED  BY <1>2, <1>3

\* Opening a ciphertext: the reader's position follows the log.
LEMMA OpenedNext ==
    ASSUME IInv, NEW p \in Peers, Reading(p), Available(p) >= Wanted(p),
           Opens(rx[p], Incoming(p)), NEW s \in CipherState,
           s.key.half = rx[p].key.half, Position(s) = Position(rx[p]) + 1,
           rx' = [rx EXCEPT ![p] = s], sealed' = sealed,
           opened' = [opened EXCEPT ![p] = Append(@, Incoming(p)[1].of)]
    PROVE  /\ rx' \in [Peers -> CipherState]
           /\ opened' \in [Peers -> Seq(Ciphertext)]
           /\ OpenedLog'
<1>. DEFINE c == Incoming(p)[1].of
<1>1. /\ Len(opened[p]) + 1 \in DOMAIN sealed[Other(p)]
      /\ c = sealed[Other(p)][Len(opened[p]) + 1]
      /\ c \in Ciphertext
  BY OpensNext
<1>2. opened[p] \in Seq(Ciphertext) /\ sealed[Other(p)] \in Seq(Ciphertext)
  BY PeersFacts DEF IInv, TypeOK
<1>3. /\ rx' \in [Peers -> CipherState] /\ rx'[p] = s
      /\ opened' \in [Peers -> Seq(Ciphertext)] /\ opened'[p] = Append(opened[p], c)
  BY <1>1, <1>2 DEF IInv, TypeOK
<1>4. OpenedLog'
  <2>. SUFFICES ASSUME NEW q \in Peers
                PROVE  /\ rx'[q].key.half = RecvHalf(q)
                       /\ Position(rx'[q]) = Len(opened'[q])
                       /\ Len(opened'[q]) <= Len(sealed[Other(q)])
                       /\ \A k \in DOMAIN opened'[q] : opened'[q][k] = sealed[Other(q)][k]
    BY DEF OpenedLog, Position
  <2>1. CASE q # p
    BY <2>1 DEF IInv, TypeOK, OpenedLog
  <2>2. CASE q = p
    <3>1. /\ rx[p].key.half = RecvHalf(p)
          /\ Position(rx[p]) = Len(opened[p])
          /\ \A k \in DOMAIN opened[p] : opened[p][k] = sealed[Other(p)][k]
      BY DEF IInv, OpenedLog
    <3>. HIDE DEF c
    <3>. QED  BY <1>1, <1>2, <1>3, <2>2, <3>1
  <2>. QED  BY <2>1, <2>2
<1>. QED  BY <1>3, <1>4

\* Reading a length prefix preserves the invariant.
LEMMA ReadLengthIInv ==
    ASSUME IInv, NEW p \in Peers, ReadLength(p)
    PROVE  IInv'
<1>. DEFINE c == Incoming(p)[1].of
<1>1. Reading(p) /\ stage[p] = "length" /\ Available(p) >= Wanted(p)
  BY DEF ReadLength, Reading
<1>2. Wanted(p) \in 0..Available(p)
  BY <1>1, SizeAssumption, PeersFacts DEF IInv, TypeOK, Wanted, LengthSize, Available
<1>3. Consume(p, Wanted(p)) /\ UNCHANGED <<tx, sent, sealed, delivered, faults>>
  BY DEF ReadLength
<1>4. wire' \in [Peers -> Seq(Unit)] /\ WireLog'
  BY <1>2, <1>3, ConsumeIInv
<1>5. SealedLog'
  BY <1>3 DEF IInv, SealedLog, Position
<1>6. CASE Opens(rx[p], Incoming(p))
  <2>1. /\ rx' = [rx EXCEPT ![p] = Advance(@, 1)]
        /\ length' = [length EXCEPT ![p] = LengthOf(c.plain)]
        /\ opened' = [opened EXCEPT ![p] = Append(@, c)]
        /\ stage' = [stage EXCEPT ![p] = "payload"]
        /\ UNCHANGED <<closed, failed>>
    BY <1>6 DEF ReadLength
  <2>2. /\ c \in Ciphertext /\ Len(c.plain) + MacSize = Wanted(p)
        /\ rx[p].nonce < KeyRotationInterval
    BY <1>1, <1>6, OpensNext
  <2>3. c.plain \in Seq(Byte) /\ Len(c.plain) = 2
    <3>1. c.plain \in Seq(Byte)
      BY <2>2 DEF Ciphertext
    <3>2. Len(c.plain) \in Nat
      BY <3>1
    <3>3. Wanted(p) = MacSize + 2
      BY <1>1 DEF Wanted, LengthSize
    <3>4. Len(c.plain) + MacSize = MacSize + 2 /\ MacSize \in Nat
      BY <2>2, <3>3, SizeAssumption
    <3>. HIDE DEF c
    <3>5. \A x, y \in Nat : x + y = y + 2 => x = 2
      OBVIOUS
    <3>6. Len(c.plain) = 2
      BY <3>2, <3>4, <3>5, Zenon
    <3>. QED  BY <3>1, <3>6
  <2>4. LengthOf(c.plain) \in 0..MaxMessageSize
    BY <2>3, LengthOfType
  <2>5. /\ Advance(rx[p], 1) \in CipherState
        /\ Advance(rx[p], 1).key = rx[p].key
        /\ Advance(rx[p], 1).nonce = rx[p].nonce + 1
        /\ Position(Advance(rx[p], 1)) = Position(rx[p]) + 1
    BY AdvanceFacts DEF IInv, TypeOK
  <2>6. /\ rx' \in [Peers -> CipherState]
        /\ opened' \in [Peers -> Seq(Ciphertext)]
        /\ OpenedLog'
    <3>. HIDE DEF c
    <3>. QED  BY <1>1, <1>3, <1>6, <2>1, <2>5, OpenedNext DEF c
  <2>7. \A q \in Peers : rx'[q].nonce <= KeyRotationInterval
    BY <2>1, <2>2, <2>5, IntervalAssumption DEF IInv, TypeOK, CipherState
  <2>8. length' \in [Peers -> 0..MaxMessageSize]
    BY <2>1, <2>4 DEF IInv, TypeOK
  <2>9. stage' \in [Peers -> {"length", "payload", "down"}]
    BY <2>1 DEF IInv, TypeOK
  <2>10. TypeOK'
    BY <1>3, <1>4, <2>1, <2>6, <2>7, <2>8, <2>9 DEF IInv, TypeOK
  <2>. QED  BY <1>4, <1>5, <2>6, <2>10 DEF IInv
<1>7. CASE ~Opens(rx[p], Incoming(p))
  <2>1. Fail(p, "mac") /\ UNCHANGED <<rx, length, opened>>
    BY <1>7 DEF ReadLength
  <2>2. TypeOK'
    BY <1>3, <1>4, <2>1, FailType DEF IInv, TypeOK
  <2>3. OpenedLog'
    BY <1>3, <2>1 DEF IInv, OpenedLog, Position
  <2>. QED  BY <1>4, <1>5, <2>2, <2>3 DEF IInv
<1>. QED  BY <1>6, <1>7

\* Reading a payload, with its rotation, preserves the invariant.
LEMMA ReadPayloadIInv ==
    ASSUME IInv, NEW p \in Peers, ReadPayload(p)
    PROVE  IInv'
<1>. DEFINE c == Incoming(p)[1].of
            s == Advance(rx[p], 1)
<1>1. Reading(p) /\ stage[p] = "payload" /\ Available(p) >= Wanted(p)
  BY DEF ReadPayload, Reading
<1>2. Wanted(p) \in 0..Available(p)
  BY <1>1, SizeAssumption, MaxSizeType, PeersFacts DEF IInv, TypeOK, Wanted, Available
<1>3. Consume(p, Wanted(p)) /\ UNCHANGED <<tx, length, sent, sealed, faults>>
  BY DEF ReadPayload
<1>4. wire' \in [Peers -> Seq(Unit)] /\ WireLog'
  BY <1>2, <1>3, ConsumeIInv
<1>5. SealedLog'
  BY <1>3 DEF IInv, SealedLog, Position
<1>6. CASE Opens(rx[p], Incoming(p))
  <2>1. /\ rx' = [rx EXCEPT ![p] = RotateKey(s)]
        /\ opened' = [opened EXCEPT ![p] = Append(@, c)]
        /\ delivered' = [delivered EXCEPT ![p] = Append(@, c.plain)]
        /\ stage' = [stage EXCEPT ![p] = "length"]
        /\ UNCHANGED <<closed, failed>>
    BY <1>6 DEF ReadPayload
  <2>2. c \in Ciphertext /\ rx[p].nonce < KeyRotationInterval
    BY <1>1, <1>6, OpensNext
  <2>3. /\ s \in CipherState
        /\ s.key = rx[p].key
        /\ s.nonce = rx[p].nonce + 1
        /\ Position(s) = Position(rx[p]) + 1
    BY AdvanceFacts DEF IInv, TypeOK
  <2>4. s.nonce <= KeyRotationInterval
    BY <2>2, <2>3, IntervalAssumption DEF IInv, TypeOK, CipherState
  <2>5. /\ RotateKey(s) \in CipherState
        /\ RotateKey(s).nonce < KeyRotationInterval
        /\ RotateKey(s).key.half = rx[p].key.half
        /\ Position(RotateKey(s)) = Position(rx[p]) + 1
    BY <2>3, <2>4, RotateFacts
  <2>6. /\ rx' \in [Peers -> CipherState]
        /\ opened' \in [Peers -> Seq(Ciphertext)]
        /\ OpenedLog'
    <3>. HIDE DEF s
    <3>. QED  BY <1>1, <1>3, <1>6, <2>1, <2>5, OpenedNext
  <2>7. \A q \in Peers : rx'[q].nonce <= KeyRotationInterval
    BY <2>1, <2>5, IntervalAssumption DEF IInv, TypeOK, CipherState
  <2>8. delivered' \in [Peers -> Seq(Seq(Byte))]
    <3>1. c.plain \in Seq(Byte)
      BY <2>2 DEF Ciphertext
    <3>. QED  BY <2>1, <3>1 DEF IInv, TypeOK
  <2>9. stage' \in [Peers -> {"length", "payload", "down"}]
    BY <2>1 DEF IInv, TypeOK
  <2>10. TypeOK'
    BY <1>3, <1>4, <2>1, <2>6, <2>7, <2>8, <2>9 DEF IInv, TypeOK
  <2>. QED  BY <1>4, <1>5, <2>6, <2>10 DEF IInv
<1>7. CASE ~Opens(rx[p], Incoming(p))
  <2>1. Fail(p, "mac") /\ UNCHANGED <<rx, opened, delivered>>
    BY <1>7 DEF ReadPayload
  <2>2. TypeOK'
    BY <1>3, <1>4, <2>1, FailType DEF IInv, TypeOK
  <2>3. OpenedLog'
    BY <1>3, <2>1 DEF IInv, OpenedLog, Position
  <2>. QED  BY <1>4, <1>5, <2>2, <2>3 DEF IInv
<1>. QED  BY <1>6, <1>7

\* A failed read preserves the invariant.
LEMMA ReadErrorIInv ==
    ASSUME IInv, NEW p \in Peers, ReadError(p)
    PROVE  IInv'
<1>1. PICK n \in 0..(Wanted(p) - 1) :
        /\ \/ closed[Other(p)] /\ n = Available(p)
           \/ ReadTimeouts /\ n <= Available(p)
        /\ Consume(p, n)
  BY DEF ReadError
<1>2. n \in 0..Available(p)
  BY <1>1, PeersFacts, SizeAssumption, MaxSizeType
     DEF IInv, TypeOK, Available, Wanted, LengthSize
<1>3. UNCHANGED <<tx, rx, length, sent, sealed, opened, delivered, faults>> /\ Fail(p, "io")
  BY DEF ReadError
<1>4. wire' \in [Peers -> Seq(Unit)] /\ WireLog'
  BY <1>1, <1>2, <1>3, ConsumeIInv
<1>5. TypeOK'
  BY <1>3, <1>4, FailType DEF IInv, TypeOK
<1>6. SealedLog' /\ OpenedLog'
  BY <1>3 DEF IInv, SealedLog, OpenedLog, Position
<1>. QED  BY <1>4, <1>5, <1>6 DEF IInv

\* A wrong byte preserves the invariant.
LEMMA CorruptIInv ==
    ASSUME IInv, NEW p \in Peers, Corrupt(p)
    PROVE  IInv'
<1>1. PICK i \in 1..Len(wire[p]) : wire' = [wire EXCEPT ![p][i].intact = FALSE]
  BY DEF Corrupt
<1>2. /\ UNCHANGED <<tx, rx, stage, length, closed, sent, sealed, opened, delivered, failed>>
      /\ faults' = faults + 1 /\ faults < MaxFaults
  BY DEF Corrupt
<1>3. wire[p] \in Seq(Unit) /\ wire[p][i] \in Unit
  BY <1>1 DEF IInv, TypeOK
<1>. DEFINE u == [wire[p][i] EXCEPT !.intact = FALSE]
            w == [wire[p] EXCEPT ![i] = u]
<1>4. u \in Unit /\ u.of = wire[p][i].of
  BY <1>3 DEF Unit
<1>5. wire' = [wire EXCEPT ![p] = w]
  BY <1>1 DEF IInv, TypeOK
<1>6. /\ w \in Seq(Unit) /\ DOMAIN w = DOMAIN wire[p]
      /\ \A j \in DOMAIN w : w[j].of = wire[p][j].of
  <2>. HIDE DEF u
  <2>. QED  BY <1>1, <1>3, <1>4
<1>7. wire' \in [Peers -> Seq(Unit)]
  <2>. HIDE DEF w
  <2>. QED  BY <1>5, <1>6 DEF IInv, TypeOK
<1>8. WireLog'
  <2>. HIDE DEF w
  <2>. SUFFICES ASSUME NEW q \in Peers, NEW j \in DOMAIN wire'[q]
                PROVE  \E k \in DOMAIN sealed[q] : wire'[q][j].of = sealed[q][k]
    BY <1>2 DEF WireLog
  <2>1. j \in DOMAIN wire[q] /\ wire'[q][j].of = wire[q][j].of
    <3>1. CASE q = p
      BY <1>5, <1>6, <3>1 DEF IInv, TypeOK
    <3>2. CASE q # p
      BY <1>5, <3>2 DEF IInv, TypeOK
    <3>. QED  BY <3>1, <3>2
  <2>. QED  BY <2>1 DEF IInv, WireLog
<1>9. faults' \in 0..MaxFaults
  BY <1>2, BoundAssumption DEF IInv, TypeOK
<1>10. TypeOK'
  BY <1>2, <1>7, <1>9 DEF IInv, TypeOK
<1>11. SealedLog' /\ OpenedLog'
  BY <1>2 DEF IInv, SealedLog, OpenedLog, Position
<1>. QED  BY <1>8, <1>10, <1>11 DEF IInv

\* Losing units preserves the invariant.
LEMMA BreakIInv ==
    ASSUME IInv, NEW p \in Peers, Break(p)
    PROVE  IInv'
<1>1. PICK n \in 0..Len(wire[p]) : wire' = [wire EXCEPT ![p] = SubSeq(@, 1, n)]
  BY DEF Break
<1>2. /\ UNCHANGED <<tx, rx, stage, length, sent, sealed, opened, delivered, failed>>
      /\ closed' = [closed EXCEPT ![p] = TRUE]
      /\ faults' = faults + 1 /\ faults < MaxFaults
  BY DEF Break
<1>3. wire' \in [Peers -> Seq(Unit)] /\ WireLog'
  <2>1. 1 \in Nat /\ 1 >= 1 /\ sealed' = sealed
    BY <1>2
  <2>. QED  BY <1>1, <2>1, ShorterWire
<1>4. faults' \in 0..MaxFaults
  BY <1>2, BoundAssumption DEF IInv, TypeOK
<1>5. TypeOK'
  BY <1>2, <1>3, <1>4 DEF IInv, TypeOK
<1>6. SealedLog' /\ OpenedLog'
  BY <1>2 DEF IInv, SealedLog, OpenedLog, Position
<1>. QED  BY <1>3, <1>5, <1>6 DEF IInv

\* Every step preserves the invariant.
LEMMA NextIInv == IInv /\ [Next]_vars => IInv'
<1>. SUFFICES ASSUME IInv, [Next]_vars PROVE IInv'
  OBVIOUS
<1>1. ASSUME NEW p \in Peers, NEW m \in Messages, Encrypt(p, m) PROVE IInv'
  BY <1>1, EncryptIInv
<1>2. ASSUME NEW p \in Peers, ReadLength(p) PROVE IInv'
  BY <1>2, ReadLengthIInv
<1>3. ASSUME NEW p \in Peers, ReadPayload(p) PROVE IInv'
  BY <1>3, ReadPayloadIInv
<1>4. ASSUME NEW p \in Peers, ReadError(p) PROVE IInv'
  BY <1>4, ReadErrorIInv
<1>5. ASSUME NEW p \in Peers, Corrupt(p) PROVE IInv'
  BY <1>5, CorruptIInv
<1>6. ASSUME NEW p \in Peers, Break(p) PROVE IInv'
  BY <1>6, BreakIInv
<1>7. CASE UNCHANGED vars
  BY <1>7 DEF vars, IInv, TypeOK, SealedLog, WireLog, OpenedLog, Position
<1>. QED  BY <1>1, <1>2, <1>3, <1>4, <1>5, <1>6, <1>7 DEF Next, Receive

\* The inductive invariant holds of every reachable state: types, the logs of
\* ciphertexts against the positions of both ends, and the units on the wire.
THEOREM Invariance == Spec => []IInv
BY InitIInv, NextIInv, PTL DEF Spec

-----------------------------------------------------------------------------
(***************************************************************************)
(* What follows from it                                                    *)
(***************************************************************************)

\* Every variable of both Transports keeps its type, and rotateKey's test for
\* equality is never jumped over, whatever the interval.
THEOREM TypeCorrect == Spec => []TypeOK
BY Invariance, PTL DEF IInv

\* Encrypt never seals two plaintexts under one key and nonce.
THEOREM NonceDiscipline == Spec => []NoNonceReuse
<1>1. IInv => NoNonceReuse
  <2>. SUFFICES ASSUME IInv, NEW p \in Peers, NEW q \in Peers,
                       NEW i \in DOMAIN sealed[p], NEW j \in DOMAIN sealed[q],
                       sealed[p][i].key = sealed[q][j].key,
                       sealed[p][i].nonce = sealed[q][j].nonce
                PROVE  p = q /\ i = j
    BY DEF NoNonceReuse
  <2>1. SendHalf(p) = SendHalf(q)
    BY DEF IInv, SealedLog
  <2>2. p = q
    BY <2>1, PeersFacts
  <2>3. Position(sealed[p][i]) = i - 1 /\ Position(sealed[q][j]) = j - 1
    BY DEF IInv, SealedLog
  <2>4. Position(sealed[p][i]) = Position(sealed[q][j])
    BY DEF Position
  <2>5. i \in Int /\ j \in Int
    BY DEF IInv, TypeOK
  <2>. QED  BY <2>2, <2>3, <2>4, <2>5
<1>. QED  BY <1>1, Invariance, PTL

\* Decrypt opens the peer's ciphertexts in the order they were sealed, each
\* once, whatever the connection does to the bytes and whatever the caller
\* does after an error.
THEOREM OpensInOrder == Spec => []OpenedInOrder
<1>1. IInv => OpenedInOrder
  <2>. SUFFICES ASSUME IInv, NEW p \in Peers
                PROVE  IsPrefix(opened[p], sealed[Other(p)])
    BY DEF OpenedInOrder
  <2>1. opened[p] \in Seq(Ciphertext) /\ sealed[Other(p)] \in Seq(Ciphertext)
    BY PeersFacts DEF IInv, TypeOK
  <2>2. /\ Len(opened[p]) <= Len(sealed[Other(p)])
        /\ \A k \in DOMAIN opened[p] : opened[p][k] = sealed[Other(p)][k]
    BY DEF IInv, OpenedLog
  <2>. QED  BY <2>1, <2>2, PrefixFromElements
<1>. QED  BY <1>1, Invariance, PTL

-----------------------------------------------------------------------------
(***************************************************************************)
(* Callers that give up at the first error                                 *)
(***************************************************************************)

\* Message m went out as ciphertexts 2m - 1 and 2m.
SentLog ==
    \A p \in Peers :
        /\ Len(sealed[p]) = 2 * Len(sent[p])
        /\ \A m \in DOMAIN sent[p] : sealed[p][2 * m].plain = sent[p][m]

\* A message is delivered for every second ciphertext opened. A caller that
\* ignored an error would break the count of the "length" stage.
DeliveredLog ==
    \A p \in Peers :
        /\ 2 * Len(delivered[p]) <= Len(opened[p])
        /\ \A k \in DOMAIN delivered[p] : delivered[p][k] = opened[p][2 * k].plain
        /\ stage[p] = "length" => Len(opened[p]) = 2 * Len(delivered[p])
        /\ stage[p] = "payload" => Len(opened[p]) = 2 * Len(delivered[p]) + 1

\* The ciphertexts sealed stay those of the messages sent.
LEMMA SentLogStep == IInv /\ SentLog /\ [Next]_vars => SentLog'
<1>. SUFFICES ASSUME IInv, SentLog, [Next]_vars PROVE SentLog'
  OBVIOUS
<1>1. ASSUME NEW p \in Peers, NEW m \in Messages, Encrypt(p, m)
      PROVE  SentLog'
  <2>. DEFINE prefix == Seal(tx[p].key, tx[p].nonce, LengthBytes(Len(m)))
              payload == Seal(tx[p].key, tx[p].nonce + 1, m)
              log == sealed[p] \o <<prefix, payload>>
  <2>1. /\ sealed' = [sealed EXCEPT ![p] = log]
        /\ sent' = [sent EXCEPT ![p] = Append(@, m)]
    BY <1>1 DEF Encrypt
  <2>2. payload.plain = m
    BY DEF Seal
  <2>3. sealed[p] \in Seq(Ciphertext) /\ sent[p] \in Seq(Messages)
    BY DEF IInv, TypeOK
  <2>. HIDE DEF prefix, payload
  <2>4. /\ Len(log) = Len(sealed[p]) + 2
        /\ \A k \in DOMAIN sealed[p] : log[k] = sealed[p][k]
        /\ log[Len(sealed[p]) + 2] = payload
    BY <2>3
  <2>. HIDE DEF log
  <2>5. sealed'[p] = log /\ sent'[p] = Append(sent[p], m)
    BY <2>1 DEF IInv, TypeOK
  <2>. SUFFICES ASSUME NEW q \in Peers
                PROVE  /\ Len(sealed'[q]) = 2 * Len(sent'[q])
                       /\ \A i \in DOMAIN sent'[q] : sealed'[q][2 * i].plain = sent'[q][i]
    BY DEF SentLog
  <2>6. CASE q # p
    BY <2>1, <2>6 DEF IInv, TypeOK, SentLog
  <2>7. CASE q = p
    <3>1. /\ Len(sealed[p]) = 2 * Len(sent[p])
          /\ \A i \in DOMAIN sent[p] : sealed[p][2 * i].plain = sent[p][i]
      BY DEF SentLog
    <3>2. \A i \in DOMAIN sent[p] : 2 * i \in DOMAIN sealed[p]
      BY <2>3, <3>1
    <3>3. DOMAIN sent'[p] = DOMAIN sent[p] \cup {Len(sent[p]) + 1}
      BY <2>3, <2>5
    <3>4. \A i \in DOMAIN sent[p] : sent'[p][i] = sent[p][i]
      BY <2>3, <2>5
    <3>5. \A i \in DOMAIN sent[p] : sealed'[p][2 * i].plain = sent'[p][i]
      BY <2>4, <2>5, <3>1, <3>2, <3>4
    <3>6. sealed'[p][2 * (Len(sent[p]) + 1)].plain = sent'[p][Len(sent[p]) + 1]
      <4>1. 2 * (Len(sent[p]) + 1) = Len(sealed[p]) + 2
        BY <2>3, <3>1
      <4>2. sent'[p][Len(sent[p]) + 1] = m
        BY <2>3, <2>5
      <4>. QED  BY <2>2, <2>4, <2>5, <4>1, <4>2
    <3>7. Len(sealed'[p]) = 2 * Len(sent'[p])
      BY <2>3, <2>4, <2>5, <3>1
    <3>. QED  BY <2>7, <3>3, <3>5, <3>6, <3>7
  <2>. QED  BY <2>6, <2>7
<1>2. CASE UNCHANGED <<sealed, sent>>
  BY <1>2 DEF SentLog
<1>. QED
  BY <1>1, <1>2 DEF Next, Receive, ReadLength, ReadPayload, ReadError, Corrupt, Break, vars

\* An error stops a caller that retries after none.
LEMMA FailStops ==
    ASSUME RetryAfter = {}, IInv, NEW p \in Peers, NEW kind, Fail(p, kind)
    PROVE  stage' = [stage EXCEPT ![p] = "down"]
BY DEF Fail

\* What was opened stays what was delivered, while no error occurred.
LEMMA DeliveredLogStep ==
    ASSUME RetryAfter = {}, IInv, DeliveredLog, [Next]_vars
    PROVE  DeliveredLog'
<1>0. \A p \in Peers : /\ opened[p] \in Seq(Ciphertext)
                       /\ delivered[p] \in Seq(Seq(Byte))
  BY DEF IInv, TypeOK
<1>1. ASSUME NEW p \in Peers, ReadLength(p)
      PROVE  DeliveredLog'
  <2>1. UNCHANGED delivered /\ stage[p] = "length"
    BY <1>1 DEF ReadLength
  <2>2. CASE Opens(rx[p], Incoming(p))
    <3>. DEFINE c == Incoming(p)[1].of
    <3>1. /\ opened' = [opened EXCEPT ![p] = Append(@, c)]
          /\ stage' = [stage EXCEPT ![p] = "payload"]
      BY <1>1, <2>2 DEF ReadLength
    <3>. HIDE DEF c
    <3>2. /\ opened'[p] = Append(opened[p], c) /\ stage'[p] = "payload"
          /\ \A q \in Peers \ {p} : opened'[q] = opened[q] /\ stage'[q] = stage[q]
      BY <3>1 DEF IInv, TypeOK
    <3>. SUFFICES ASSUME NEW q \in Peers
                  PROVE  /\ 2 * Len(delivered[q]) <= Len(opened'[q])
                         /\ \A k \in DOMAIN delivered[q] :
                               delivered[q][k] = opened'[q][2 * k].plain
                         /\ stage'[q] = "length" => Len(opened'[q]) = 2 * Len(delivered[q])
                         /\ stage'[q] = "payload" =>
                               Len(opened'[q]) = 2 * Len(delivered[q]) + 1
      BY <2>1 DEF DeliveredLog
    <3>3. CASE q # p
      BY <3>2, <3>3 DEF DeliveredLog
    <3>4. CASE q = p
      <4>1. /\ Len(opened[p]) = 2 * Len(delivered[p])
            /\ \A k \in DOMAIN delivered[p] : delivered[p][k] = opened[p][2 * k].plain
        BY <2>1 DEF DeliveredLog
      <4>2. \A k \in DOMAIN delivered[p] : 2 * k \in DOMAIN opened[p]
        BY <1>0, <4>1
      <4>3. /\ Len(opened'[p]) = Len(opened[p]) + 1
            /\ \A k \in DOMAIN opened[p] : opened'[p][k] = opened[p][k]
        BY <1>0, <3>2
      <4>4. Len(opened[p]) \in Nat /\ Len(delivered[p]) \in Nat
        BY <1>0
      <4>5. \A k \in DOMAIN delivered[p] : delivered[p][k] = opened'[p][2 * k].plain
        BY <4>1, <4>2, <4>3
      <4>6. Len(opened'[p]) = 2 * Len(delivered[p]) + 1
        BY <4>1, <4>3
      <4>7. 2 * Len(delivered[p]) <= Len(opened'[p])
        BY <4>4, <4>6
      <4>. QED  BY <3>2, <3>4, <4>5, <4>6, <4>7
    <3>. QED  BY <3>3, <3>4
  <2>3. CASE ~Opens(rx[p], Incoming(p))
    <3>1. UNCHANGED opened /\ stage' = [stage EXCEPT ![p] = "down"]
      BY <1>1, <2>3, FailStops DEF ReadLength
    <3>. QED  BY <2>1, <3>1 DEF IInv, TypeOK, DeliveredLog
  <2>. QED  BY <2>2, <2>3
<1>2. ASSUME NEW p \in Peers, ReadPayload(p)
      PROVE  DeliveredLog'
  <2>1. stage[p] = "payload"
    BY <1>2 DEF ReadPayload
  <2>2. CASE Opens(rx[p], Incoming(p))
    <3>. DEFINE c == Incoming(p)[1].of
    <3>1. /\ opened' = [opened EXCEPT ![p] = Append(@, c)]
          /\ delivered' = [delivered EXCEPT ![p] = Append(@, c.plain)]
          /\ stage' = [stage EXCEPT ![p] = "length"]
      BY <1>2, <2>2 DEF ReadPayload
    <3>. HIDE DEF c
    <3>2. /\ opened'[p] = Append(opened[p], c) /\ stage'[p] = "length"
          /\ delivered'[p] = Append(delivered[p], c.plain)
          /\ \A q \in Peers \ {p} : /\ opened'[q] = opened[q] /\ stage'[q] = stage[q]
                                    /\ delivered'[q] = delivered[q]
      BY <3>1 DEF IInv, TypeOK
    <3>. SUFFICES ASSUME NEW q \in Peers
                  PROVE  /\ 2 * Len(delivered'[q]) <= Len(opened'[q])
                         /\ \A k \in DOMAIN delivered'[q] :
                               delivered'[q][k] = opened'[q][2 * k].plain
                         /\ stage'[q] = "length" => Len(opened'[q]) = 2 * Len(delivered'[q])
                         /\ stage'[q] = "payload" =>
                               Len(opened'[q]) = 2 * Len(delivered'[q]) + 1
      BY DEF DeliveredLog
    <3>3. CASE q # p
      BY <3>2, <3>3 DEF DeliveredLog
    <3>4. CASE q = p
      <4>1. /\ Len(opened[p]) = 2 * Len(delivered[p]) + 1
            /\ \A k \in DOMAIN delivered[p] : delivered[p][k] = opened[p][2 * k].plain
        BY <2>1 DEF DeliveredLog
      <4>2. \A k \in DOMAIN delivered[p] : 2 * k \in DOMAIN opened[p]
        BY <1>0, <4>1
      <4>3. /\ Len(opened'[p]) = Len(opened[p]) + 1
            /\ opened'[p][Len(opened[p]) + 1] = c
            /\ \A k \in DOMAIN opened[p] : opened'[p][k] = opened[p][k]
        BY <1>0, <3>2
      <4>4. Len(opened[p]) \in Nat /\ Len(delivered[p]) \in Nat
        BY <1>0
      <4>5. /\ Len(delivered'[p]) = Len(delivered[p]) + 1
            /\ DOMAIN delivered'[p] = DOMAIN delivered[p] \cup {Len(delivered[p]) + 1}
            /\ delivered'[p][Len(delivered[p]) + 1] = c.plain
            /\ \A k \in DOMAIN delivered[p] : delivered'[p][k] = delivered[p][k]
        BY <1>0, <3>2
      <4>6. 2 * (Len(delivered[p]) + 1) = Len(opened[p]) + 1
        BY <4>1, <4>4
      <4>7. \A k \in DOMAIN delivered'[p] : delivered'[p][k] = opened'[p][2 * k].plain
        BY <4>1, <4>2, <4>3, <4>5, <4>6
      <4>8. Len(opened'[p]) = 2 * Len(delivered'[p])
        BY <4>3, <4>5, <4>6
      <4>9. 2 * Len(delivered'[p]) <= Len(opened'[p])
        BY <4>4, <4>5, <4>8
      <4>. QED  BY <3>2, <3>4, <4>7, <4>8, <4>9
    <3>. QED  BY <3>3, <3>4
  <2>3. CASE ~Opens(rx[p], Incoming(p))
    <3>1. UNCHANGED <<opened, delivered>> /\ stage' = [stage EXCEPT ![p] = "down"]
      BY <1>2, <2>3, FailStops DEF ReadPayload
    <3>. QED  BY <3>1 DEF IInv, TypeOK, DeliveredLog
  <2>. QED  BY <2>2, <2>3
<1>3. ASSUME NEW p \in Peers, ReadError(p)
      PROVE  DeliveredLog'
  <2>1. UNCHANGED <<opened, delivered>> /\ stage' = [stage EXCEPT ![p] = "down"]
    BY <1>3, FailStops DEF ReadError
  <2>. QED  BY <2>1 DEF IInv, TypeOK, DeliveredLog
<1>4. CASE UNCHANGED <<opened, delivered, stage>>
  BY <1>4 DEF DeliveredLog
<1>. QED
  BY <1>1, <1>2, <1>3, <1>4 DEF Next, Receive, Encrypt, Corrupt, Break, vars

\* The logs agree initially.
LEMMA InitLogs == Init => SentLog /\ DeliveredLog
BY DEF Init, SentLog, DeliveredLog

\* Under the invariants, the k-th message delivered is the k-th sent.
LEMMA DeliveredIsSent ==
    ASSUME IInv, SentLog, DeliveredLog, NEW p \in Peers
    PROVE  /\ Len(delivered[p]) <= Len(sent[Other(p)])
           /\ \A k \in DOMAIN delivered[p] : delivered[p][k] = sent[Other(p)][k]
<1>. DEFINE q == Other(p)
<1>1. /\ q \in Peers
      /\ opened[p] \in Seq(Ciphertext) /\ delivered[p] \in Seq(Seq(Byte))
      /\ sealed[q] \in Seq(Ciphertext) /\ sent[q] \in Seq(Messages)
  BY PeersFacts DEF IInv, TypeOK
<1>2. /\ 2 * Len(delivered[p]) <= Len(opened[p])
      /\ Len(opened[p]) <= Len(sealed[q])
      /\ Len(sealed[q]) = 2 * Len(sent[q])
  BY <1>1 DEF IInv, OpenedLog, SentLog, DeliveredLog
<1>3. Len(delivered[p]) <= Len(sent[q])
  <2>. HIDE DEF q
  <2>. QED  BY <1>1, <1>2
<1>4. ASSUME NEW k \in DOMAIN delivered[p]
      PROVE  delivered[p][k] = sent[q][k]
  <2>. HIDE DEF q
  <2>1. k \in DOMAIN sent[q] /\ 2 * k \in DOMAIN opened[p]
    BY <1>1, <1>2, <1>3
  <2>2. delivered[p][k] = opened[p][2 * k].plain
    BY DEF DeliveredLog
  <2>3. opened[p][2 * k] = sealed[q][2 * k]
    BY <2>1 DEF IInv, OpenedLog, q
  <2>4. sealed[q][2 * k].plain = sent[q][k]
    BY <1>1, <2>1 DEF SentLog
  <2>. QED  BY <2>2, <2>3, <2>4
<1>. QED  BY <1>3, <1>4

\* What Decrypt returns is what the peer's Encrypt was given, in order and
\* without a gap, for a caller that gives up at the first error.
THEOREM DeliversInOrder ==
    ASSUME RetryAfter = {}
    PROVE  Spec => []DeliveredInOrder
<1>1. Init => IInv /\ SentLog /\ DeliveredLog
  BY InitIInv, InitLogs
<1>2. (IInv /\ SentLog /\ DeliveredLog) /\ [Next]_vars
         => (IInv /\ SentLog /\ DeliveredLog)'
  BY NextIInv, SentLogStep, DeliveredLogStep
<1>3. IInv /\ SentLog /\ DeliveredLog => DeliveredInOrder
  <2>. SUFFICES ASSUME IInv, SentLog, DeliveredLog, NEW p \in Peers
                PROVE  IsPrefix(delivered[p], sent[Other(p)])
    BY DEF DeliveredInOrder
  <2>1. delivered[p] \in Seq(Seq(Byte)) /\ sent[Other(p)] \in Seq(Seq(Byte))
    BY MessagesAssumption, PeersFacts DEF IInv, TypeOK
  <2>. QED  BY <2>1, DeliveredIsSent, PrefixFromElements
<1>. QED  BY <1>1, <1>2, <1>3, PTL DEF Spec

-----------------------------------------------------------------------------
(***************************************************************************)
(* The transport implements the secure channel                             *)
(***************************************************************************)

\* Every step of two Transports is a step of the secure channel or leaves it
\* alone: sealing sends, the end of a Decrypt delivers the next message, an
\* error breaks.
THEOREM ImplementsChannelSafety ==
    ASSUME RetryAfter = {}
    PROVE  Spec => Channel!Safety
<1>. DEFINE up == [p \in Peers |-> stage[p] # "down"]
            Inv == IInv /\ SentLog /\ DeliveredLog
<1>1. Init => Channel!Init
  BY DEF Init, Channel!Init
<1>2. Inv /\ [Next]_vars => [Channel!Next]_(Channel!vars)
  <2>. SUFFICES ASSUME Inv, Next PROVE Channel!Next \/ UNCHANGED Channel!vars
    BY DEF vars, Channel!vars
  <2>0. stage \in [Peers -> {"length", "payload", "down"}]
    BY DEF IInv, TypeOK
  <2>1. ASSUME NEW p \in Peers, NEW m \in Messages, Encrypt(p, m)
        PROVE  Channel!Next
    <3>1. m \in Sendable /\ Channel!Send(p, m)
      BY <2>1 DEF Encrypt, Sendable, Channel!Send
    <3>. QED  BY <3>1 DEF Channel!Next
  <2>2. ASSUME NEW p \in Peers, Fail(p, "mac") \/ Fail(p, "io"),
               stage[p] # "down", UNCHANGED <<sent, delivered>>
        PROVE  Channel!Next
    <3>1. stage' = [stage EXCEPT ![p] = "down"]
      BY <2>2, FailStops
    <3>2. Channel!Break(p)
      BY <2>0, <2>2, <3>1 DEF Channel!Break
    <3>. QED  BY <3>2 DEF Channel!Next
  <2>3. ASSUME NEW p \in Peers, ReadLength(p)
        PROVE  Channel!Next \/ UNCHANGED Channel!vars
    <3>1. CASE Opens(rx[p], Incoming(p))
      <4>1. /\ UNCHANGED <<sent, delivered>> /\ stage[p] = "length"
            /\ stage' = [stage EXCEPT ![p] = "payload"]
        BY <2>3, <3>1 DEF ReadLength
      <4>. QED  BY <2>0, <4>1 DEF Channel!vars
    <3>2. CASE ~Opens(rx[p], Incoming(p))
      BY <2>2, <2>3, <3>2 DEF ReadLength
    <3>. QED  BY <3>1, <3>2
  <2>4. ASSUME NEW p \in Peers, ReadPayload(p)
        PROVE  Channel!Next
    <3>1. CASE Opens(rx[p], Incoming(p))
      <4>. DEFINE c == Incoming(p)[1].of
                  next == Len(delivered[p]) + 1
                  q == Other(p)
      <4>1. /\ UNCHANGED sent /\ stage[p] = "payload"
            /\ delivered' = [delivered EXCEPT ![p] = Append(@, c.plain)]
            /\ stage' = [stage EXCEPT ![p] = "length"]
        BY <2>4, <3>1 DEF ReadPayload
      <4>2. /\ Len(opened[p]) + 1 \in DOMAIN sealed[q]
            /\ c = sealed[q][Len(opened[p]) + 1]
        BY <2>4, <3>1, OpensNext DEF ReadPayload, Reading
      <4>. HIDE DEF c
      <4>3. q \in Peers /\ sealed[q] \in Seq(Ciphertext) /\ sent[q] \in Seq(Messages)
        BY PeersFacts DEF IInv, TypeOK
      <4>4. Len(opened[p]) = 2 * Len(delivered[p]) + 1 /\ Len(delivered[p]) \in Nat
        BY <4>1 DEF DeliveredLog, IInv, TypeOK
      <4>5. Len(opened[p]) + 1 = 2 * next
        BY <4>4
      <4>6. Len(sealed[q]) = 2 * Len(sent[q])
        BY <4>3 DEF SentLog
      <4>7. next \in DOMAIN sent[q]
        <5>. HIDE DEF q
        <5>. QED  BY <4>2, <4>3, <4>4, <4>5, <4>6
      <4>8. c.plain = sent[q][next]
        BY <4>2, <4>3, <4>5, <4>7 DEF SentLog
      <4>9. next <= Len(sent[q])
        BY <4>3, <4>7
      <4>10. up' = up
        BY <2>0, <4>1
      <4>11. Channel!Deliver(p)
        BY <2>0, <4>1, <4>8, <4>9, <4>10 DEF Channel!Deliver
      <4>. QED  BY <4>11 DEF Channel!Next
    <3>2. CASE ~Opens(rx[p], Incoming(p))
      BY <2>2, <2>4, <3>2 DEF ReadPayload
    <3>. QED  BY <3>1, <3>2
  <2>5. ASSUME NEW p \in Peers, ReadError(p)
        PROVE  Channel!Next
    BY <2>2, <2>5 DEF ReadError, Reading
  <2>6. ASSUME NEW p \in Peers, Corrupt(p) \/ Break(p)
        PROVE  UNCHANGED Channel!vars
    BY <2>6 DEF Corrupt, Break, Channel!vars
  <2>. QED  BY <2>1, <2>3, <2>4, <2>5, <2>6 DEF Next, Receive
<1>3. Init => Inv
  BY InitIInv, InitLogs
<1>4. Inv /\ [Next]_vars => Inv'
  BY NextIInv, SentLogStep, DeliveredLogStep
<1>. QED  BY <1>1, <1>2, <1>3, <1>4, PTL DEF Spec, Channel!Safety
-----------------------------------------------------------------------------
(***************************************************************************)
(* Frames: where a ciphertext begins on the byte stream, what a refused    *)
(* tag costs, and that both ends rotate in step.                           *)
(***************************************************************************)

\* The number of units of the ciphertext that u belongs to, and its place in
\* the log.
Full(u) == Len(u.of.plain) + MacSize

Place(u) == Position(u.of)

\* Neighbours on a wire are neighbours in the log: the units of a ciphertext
\* are consecutive and the next ciphertext begins where one ends.
Framed(w) ==
    /\ \A i \in DOMAIN w : w[i].at \in 1..Full(w[i])
    /\ \A i, j \in DOMAIN w :
          w[i].at + j - i \in 1..Full(w[i]) =>
              w[j].of = w[i].of /\ w[j].at = w[i].at + j - i
    /\ \A i, j \in DOMAIN w :
          (j = i + 1 /\ w[i].at = Full(w[i])) =>
              w[j].at = 1 /\ Place(w[j]) = Place(w[i]) + 1

\* No unit comes twice or late.
Ordered(w) ==
    \A i, j \in DOMAIN w : i < j =>
        Place(w[i]) < Place(w[j]) \/ (Place(w[i]) = Place(w[j]) /\ w[i].at < w[j].at)

\* The wire ends with the n-th ciphertext, whole.
EndsWith(w, n) ==
    w # <<>> => w[Len(w)].at = Full(w[Len(w)]) /\ Place(w[Len(w)]) = n - 1

\* The wire begins with the ciphertext after the k-th, whole.
StartsAfter(w, k) ==
    w # <<>> => w[1].at = 1 /\ Place(w[1]) = k

Frames ==
    \A p \in Peers :
        /\ Framed(wire[p])
        /\ Ordered(wire[p])
        /\ ~closed[p] => EndsWith(wire[p], Len(sealed[p]))

\* Nothing on a wire has been opened, and after a refused tag the beginning
\* of the next ciphertext is gone.
Unread ==
    \A p \in Peers : \A i \in DOMAIN wire[Other(p)] :
        /\ Place(wire[Other(p)][i]) >= Len(opened[p])
        /\ "mac" \in failed[p] =>
              ~(Place(wire[Other(p)][i]) = Len(opened[p]) /\ wire[Other(p)][i].at = 1)

\* A tag was refused because of something that was sealed.
Refused ==
    \A p \in Peers : "mac" \in failed[p] => Len(opened[p]) < Len(sealed[Other(p)])

\* Ciphertexts come in pairs, the first of which says how long the second is.
Pairs ==
    \A p \in Peers :
        /\ Len(sealed[p]) % 2 = 0
        /\ \A k \in DOMAIN sealed[p] : k % 2 = 1 =>
              /\ sealed[p][k].plain = LengthBytes(Len(sealed[p][k + 1].plain))
              /\ Len(sealed[p][k + 1].plain) <= MaxMessageSize

\* A reader without an error is at the beginning of a ciphertext, and knows
\* which of a pair it is and how long.
InStep ==
    \A p \in Peers : failed[p] = {} =>
        /\ StartsAfter(wire[Other(p)], Len(opened[p]))
        /\ (~closed[Other(p)] /\ wire[Other(p)] = <<>>) => Len(opened[p]) = Len(sealed[Other(p)])
        /\ rx[p].nonce < KeyRotationInterval
        /\ stage[p] # "down"
        /\ stage[p] = "length" => Len(opened[p]) % 2 = 0
        /\ stage[p] = "payload" =>
              /\ Len(opened[p]) % 2 = 1
              /\ length[p] = Len(sealed[Other(p)][Len(opened[p]) + 1].plain)

\* Without a fault every unit is as it was written.
Undamaged ==
    faults = 0 => \A p \in Peers : \A i \in DOMAIN wire[p] : wire[p][i].intact

FInv == IInv /\ Frames /\ Unread /\ Refused /\ Pairs /\ InStep /\ Undamaged /\ MacFailureHasCause
-----------------------------------------------------------------------------
(***************************************************************************)
(* Lemmas about frames                                                     *)
(***************************************************************************)
LEMMA ByteSizes == MacSize \in Nat /\ MacSize >= 1
BY SizeAssumption

LEMMA PositionType ==
    \A s : (s.key.gen \in Nat /\ s.nonce \in Nat) => Position(s) \in Nat
<1>. SUFFICES ASSUME NEW s, s.key.gen \in Nat, s.nonce \in Nat
              PROVE  Position(s) \in Nat
  OBVIOUS
<1>1. s.key.gen * KeyRotationInterval \in Nat
  BY IntervalAssumption
<1>. QED  BY <1>1 DEF Position

\* Places and sizes are numbers.
LEMMA UnitNumbers ==
    ASSUME NEW u \in Unit
    PROVE  /\ Place(u) \in Nat /\ Full(u) \in Nat /\ Full(u) >= 1
           /\ u.at \in Nat /\ u.of \in Ciphertext
<1>1. u.of \in Ciphertext /\ u.at \in Nat
  BY DEF Unit
<1>2. Place(u) \in Nat
  BY <1>1, PositionType DEF Place, Ciphertext, Key
<1>3. Len(u.of.plain) \in Nat
  BY <1>1 DEF Ciphertext
<1>. QED  BY <1>1, <1>2, <1>3, ByteSizes DEF Full

\* v is a part of w from its a-th unit on, damaged or not.
Slice(v, w, a) ==
    /\ a \in Nat
    /\ a + Len(v) <= Len(w)
    /\ \A i \in DOMAIN v : v[i].of = w[a + i].of /\ v[i].at = w[a + i].at

LEMMA SliceFacts ==
    ASSUME NEW w \in Seq(Unit), NEW v \in Seq(Unit), NEW a, Slice(v, w, a)
    PROVE  /\ \A i \in DOMAIN v : /\ a + i \in DOMAIN w
                                  /\ v[i].of = w[a + i].of
                                  /\ v[i].at = w[a + i].at
                                  /\ Place(v[i]) = Place(w[a + i])
                                  /\ Full(v[i]) = Full(w[a + i])
           /\ Framed(w) => Framed(v)
           /\ Ordered(w) => Ordered(v)
           /\ \A n \in Nat : EndsWith(w, n) /\ a + Len(v) = Len(w) => EndsWith(v, n)
<1>1. \A i \in DOMAIN v : /\ a + i \in DOMAIN w
                          /\ v[i].of = w[a + i].of
                          /\ v[i].at = w[a + i].at
  BY DEF Slice
<1>2. \A i \in DOMAIN v : /\ Place(v[i]) = Place(w[a + i])
                          /\ Full(v[i]) = Full(w[a + i])
  BY <1>1 DEF Place, Full
<1>3. a \in Nat /\ DOMAIN v \subseteq Nat
  BY DEF Slice
<1>4. \A i \in DOMAIN v : v[i] \in Unit
  OBVIOUS
<1>5. ASSUME Framed(w) PROVE Framed(v)
  <2>1. ASSUME NEW i \in DOMAIN v PROVE v[i].at \in 1..Full(v[i])
    BY <1>1, <1>2, <1>5 DEF Framed
  <2>2. ASSUME NEW i \in DOMAIN v, NEW j \in DOMAIN v, v[i].at + j - i \in 1..Full(v[i])
        PROVE  v[j].of = v[i].of /\ v[j].at = v[i].at + j - i
    <3>1. i \in Nat /\ j \in Nat /\ v[i].at \in Nat
      BY <1>4, UnitNumbers
    <3>2. w[a + i].at + (a + j) - (a + i) = v[i].at + j - i
      BY <1>1, <1>3, <3>1
    <3>3. w[a + i].at + (a + j) - (a + i) \in 1..Full(w[a + i])
      BY <1>2, <2>2, <3>2
    <3>. QED  BY <1>1, <1>5, <3>2, <3>3 DEF Framed
  <2>3. ASSUME NEW i \in DOMAIN v, NEW j \in DOMAIN v, j = i + 1, v[i].at = Full(v[i])
        PROVE  v[j].at = 1 /\ Place(v[j]) = Place(v[i]) + 1
    <3>1. a + j = (a + i) + 1
      BY <1>3, <2>3
    <3>2. w[a + i].at = Full(w[a + i])
      BY <1>1, <1>2, <2>3
    <3>3. w[a + j].at = 1 /\ Place(w[a + j]) = Place(w[a + i]) + 1
      BY <1>1, <1>5, <3>1, <3>2 DEF Framed
    <3>. QED  BY <1>1, <1>2, <3>3
  <2>. QED  BY <2>1, <2>2, <2>3 DEF Framed
<1>6. ASSUME Ordered(w) PROVE Ordered(v)
  <2>. SUFFICES ASSUME NEW i \in DOMAIN v, NEW j \in DOMAIN v, i < j
                PROVE  \/ Place(v[i]) < Place(v[j])
                       \/ Place(v[i]) = Place(v[j]) /\ v[i].at < v[j].at
    BY DEF Ordered
  <2>1. a + i < a + j
    BY <1>3
  <2>. QED  BY <1>1, <1>2, <1>6, <2>1 DEF Ordered
<1>7. ASSUME NEW n \in Nat, EndsWith(w, n), a + Len(v) = Len(w)
      PROVE  EndsWith(v, n)
  <2>. SUFFICES ASSUME v # <<>>
                PROVE  v[Len(v)].at = Full(v[Len(v)]) /\ Place(v[Len(v)]) = n - 1
    BY DEF EndsWith
  <2>1. Len(v) \in DOMAIN v
    OBVIOUS
  <2>2. a + Len(v) \in DOMAIN w
    BY <1>1, <2>1
  <2>3. w # <<>>
    BY <2>2
  <2>. QED  BY <1>1, <1>2, <1>7, <2>1, <2>3 DEF EndsWith
<1>. QED  BY <1>1, <1>2, <1>5, <1>6, <1>7
\* What a sender writes goes on where its wire ends.
LEMMA AppendUnits ==
    ASSUME NEW w \in Seq(Unit), NEW c \in Ciphertext, NEW n \in Nat, Position(c) = n,
           Framed(w), Ordered(w), EndsWith(w, n), \A i \in DOMAIN w : Place(w[i]) < n
    PROVE  LET v == w \o Units(c) IN
           /\ v \in Seq(Unit) /\ v # <<>>
           /\ Framed(v) /\ Ordered(v) /\ EndsWith(v, n + 1)
           /\ \A i \in DOMAIN v : Place(v[i]) < n + 1
           /\ \A i \in DOMAIN v : \/ i \in DOMAIN w /\ v[i] = w[i]
                                  \/ Place(v[i]) = n /\ v[i].intact
           /\ w # <<>> => v[1] = w[1]
           /\ w = <<>> => StartsAfter(v, n)
<1>. DEFINE L == Len(c.plain) + MacSize
            N == Len(w)
            v == w \o Units(c)
<1>1. L \in Nat /\ L >= 1 /\ N \in Nat
  BY ByteSizes DEF Ciphertext
<1>2. /\ Units(c) \in Seq(Unit)
      /\ Len(Units(c)) = L
      /\ \A i \in 1..L : Units(c)[i] = [of |-> c, at |-> i, intact |-> TRUE]
  BY <1>1, UnitsFacts DEF Units
<1>3. /\ v \in Seq(Unit) /\ Len(v) = N + L
      /\ \A i \in 1..N : v[i] = w[i]
      /\ \A i \in 1..L : v[N + i] = Units(c)[i]
      /\ DOMAIN v = 1..(N + L)
  <2>. DEFINE U == Units(c)
  <2>1. U \in Seq(Unit) /\ Len(U) = L
    BY <1>2
  <2>. HIDE DEF L, U
  <2>2. v \in Seq(Unit) /\ Len(v) = N + L
    BY <2>1 DEF U
  <2>3. \A i \in 1..N : v[i] = w[i]
    BY <2>1 DEF U
  <2>4. \A i \in 1..L : v[N + i] = U[i]
    BY <1>1, <2>1 DEF U
  <2>5. DOMAIN v = 1..(N + L)
    <3>. HIDE DEF v, N
    <3>. QED  BY <2>2
  <2>. QED  BY <2>2, <2>3, <2>4, <2>5, Zenon DEF U
<1>. HIDE DEF L, N, v
<1>4. \A i \in 1..L : v[N + i].of = c /\ v[N + i].at = i /\ v[N + i].intact
  BY <1>2, <1>3
<1>5. \A i \in 1..L : Place(v[N + i]) = n /\ Full(v[N + i]) = L
  BY <1>4 DEF Place, Full, L
<1>6. \A i \in DOMAIN v : i \in 1..N \/ (i - N \in 1..L /\ i = N + (i - N))
  BY <1>1, <1>3
<1>7. \A i \in DOMAIN v : v[i] \in Unit /\ i \in Nat
  BY <1>3
<1>8. \A i \in 1..N : i \in DOMAIN w /\ w[i] \in Unit /\ Place(w[i]) < n
  BY DEF N
<1>9. \A i \in 1..N : w[N].at = Full(w[N]) /\ Place(w[N]) = n - 1 /\ N \in DOMAIN w
  <2>. SUFFICES ASSUME NEW i \in 1..N
                PROVE  w[N].at = Full(w[N]) /\ Place(w[N]) = n - 1 /\ N \in DOMAIN w
    OBVIOUS
  <2>1. w # <<>> /\ N \in DOMAIN w
    BY DEF N
  <2>. QED  BY <2>1 DEF EndsWith, N
<1>10. Framed(v)
  <2>1. ASSUME NEW i \in DOMAIN v PROVE v[i].at \in 1..Full(v[i])
    <3>1. CASE i \in 1..N
      BY <1>3, <1>8, <3>1 DEF Framed
    <3>2. CASE i \notin 1..N
      BY <1>4, <1>5, <1>6, <3>2
    <3>. QED  BY <3>1, <3>2
  <2>2. ASSUME NEW i \in DOMAIN v, NEW j \in DOMAIN v, v[i].at + j - i \in 1..Full(v[i])
        PROVE  v[j].of = v[i].of /\ v[j].at = v[i].at + j - i
    <3>1. CASE i \in 1..N /\ j \in 1..N
      BY <1>3, <1>8, <2>2, <3>1 DEF Framed
    <3>2. CASE i \in 1..N /\ j \notin 1..N
      <4>1. /\ w[i].at \in 1..Full(w[i]) /\ Full(w[i]) \in Nat
            /\ v[i] = w[i] /\ i <= N /\ j > N /\ j \in Nat /\ i \in Nat
        <5>1. v[i] = w[i] /\ i \in DOMAIN w /\ w[i] \in Unit
          BY <1>3, <1>8, <3>2
        <5>2. w[i].at \in 1..Full(w[i]) /\ Full(w[i]) \in Nat
          BY <5>1, UnitNumbers DEF Framed
        <5>. QED  BY <1>1, <1>3, <3>2, <5>1, <5>2
      <4>5. w[i].at + j - i \in 1..Full(w[i])
        BY <2>2, <4>1, Zenon
      <4>2. w[i].at + N - i \in 1..Full(w[i])
        <5>. DEFINE x == w[i].at
                    y == Full(w[i])
        <5>1. x \in 1..y /\ y \in Nat /\ x + j - i \in 1..y
          BY <4>1, <4>5, Zenon
        <5>2. i <= N /\ j > N /\ j \in Nat /\ i \in Nat /\ N \in Nat
          BY <1>1, <4>1, Zenon
        <5>. HIDE DEF x, y, N
        <5>3. x + N - i \in 1..y
          BY <5>1, <5>2
        <5>. QED  BY <5>3 DEF x, y
      <4>3. w[N].of = w[i].of /\ w[N].at = w[i].at + N - i
        BY <1>8, <1>9, <3>2, <4>2 DEF Framed
      <4>4. w[N].at = Full(w[i])
        BY <1>9, <3>2, <4>3 DEF Full
      <4>6. w[i].at + N - i = Full(w[i]) /\ w[i].at \in Nat
        BY <4>1, <4>3, <4>4
      <4>. QED  BY <1>1, <4>1, <4>5, <4>6
    <3>3. CASE i \notin 1..N /\ j \in 1..N
      <4>1. PICK a \in 1..L : i = N + a
        BY <1>6, <3>3
      <4>2. v[i].at = a
        BY <1>4, <4>1
      <4>. QED  BY <1>1, <2>2, <3>3, <4>1, <4>2
    <3>4. CASE i \notin 1..N /\ j \notin 1..N
      <4>1. PICK a \in 1..L : i = N + a
        BY <1>6, <3>4
      <4>2. PICK b \in 1..L : j = N + b
        BY <1>6, <3>4
      <4>3. v[i].at = a /\ v[j].at = b /\ v[i].of = c /\ v[j].of = c
        BY <1>4, <4>1, <4>2
      <4>4. b = a + j - i
        BY <1>1, <4>1, <4>2
      <4>. QED  BY <4>3, <4>4
    <3>. QED  BY <3>1, <3>2, <3>3, <3>4
  <2>3. ASSUME NEW i \in DOMAIN v, NEW j \in DOMAIN v, j = i + 1, v[i].at = Full(v[i])
        PROVE  v[j].at = 1 /\ Place(v[j]) = Place(v[i]) + 1
    <3>1. CASE j \in 1..N
      <4>1. i \in 1..N
        BY <1>1, <1>3, <2>3, <3>1
      <4>. QED  BY <1>3, <1>8, <2>3, <3>1, <4>1 DEF Framed
    <3>2. CASE j \notin 1..N
      <4>1. PICK b \in 1..L : j = N + b
        BY <1>6, <3>2
      <4>2. v[j].at = b /\ Place(v[j]) = n
        BY <1>4, <1>5, <4>1
      <4>3. CASE i \in 1..N
        <5>1. i = N /\ b = 1
          BY <1>1, <2>3, <4>1, <4>3
        <5>2. Place(v[i]) = n - 1
          BY <1>3, <1>9, <4>3, <5>1
        <5>. QED  BY <4>2, <5>1, <5>2
      <4>4. CASE i \notin 1..N
        <5>1. PICK a \in 1..L : i = N + a
          BY <1>6, <4>4
        <5>2. v[i].at = a /\ Full(v[i]) = L
          BY <1>4, <1>5, <5>1
        <5>. QED  BY <1>1, <2>3, <4>1, <5>1, <5>2
      <4>. QED  BY <4>3, <4>4
    <3>. QED  BY <3>1, <3>2
  <2>. QED  BY <2>1, <2>2, <2>3 DEF Framed
<1>11. Ordered(v)
  <2>. SUFFICES ASSUME NEW i \in DOMAIN v, NEW j \in DOMAIN v, i < j
                PROVE  \/ Place(v[i]) < Place(v[j])
                       \/ Place(v[i]) = Place(v[j]) /\ v[i].at < v[j].at
    BY DEF Ordered
  <2>1. CASE j \in 1..N
    <3>1. i \in 1..N
      BY <1>1, <1>3, <2>1
    <3>. QED  BY <1>3, <1>8, <2>1, <3>1 DEF Ordered
  <2>2. CASE j \notin 1..N
    <3>1. PICK b \in 1..L : j = N + b
      BY <1>6, <2>2
    <3>2. v[j].at = b /\ Place(v[j]) = n
      BY <1>4, <1>5, <3>1
    <3>3. CASE i \in 1..N
      BY <1>3, <1>8, <3>2, <3>3
    <3>4. CASE i \notin 1..N
      <4>1. PICK a \in 1..L : i = N + a
        BY <1>6, <3>4
      <4>2. v[i].at = a /\ Place(v[i]) = n
        BY <1>4, <1>5, <4>1
      <4>. QED  BY <1>1, <3>1, <3>2, <4>1, <4>2
    <3>. QED  BY <3>3, <3>4
  <2>. QED  BY <2>1, <2>2
<1>12. Len(v) = N + L /\ L \in 1..L /\ v # <<>>
  BY <1>1, <1>3
<1>13. EndsWith(v, n + 1)
  <2>1. v[Len(v)].at = L /\ Full(v[Len(v)]) = L /\ Place(v[Len(v)]) = n
    BY <1>4, <1>5, <1>12
  <2>. QED  BY <2>1 DEF EndsWith
<1>14. \A i \in DOMAIN v : \/ i \in DOMAIN w /\ v[i] = w[i]
                           \/ Place(v[i]) = n /\ v[i].intact
  BY <1>3, <1>4, <1>5, <1>6, <1>8
<1>15. \A i \in DOMAIN v : Place(v[i]) < n + 1
  <2>1. \A i \in DOMAIN w : w[i] \in Unit
    OBVIOUS
  <2>. QED  BY <1>14, <2>1, UnitNumbers
<1>16. w # <<>> => v[1] = w[1]
  <2>1. w # <<>> => 1 \in 1..N
    BY DEF N
  <2>. QED  BY <1>3, <2>1
<1>17. w = <<>> => StartsAfter(v, n)
  <2>1. w = <<>> => N = 0
    BY DEF N
  <2>2. w = <<>> => v[1].at = 1 /\ Place(v[1]) = n
    BY <1>1, <1>4, <1>5, <2>1
  <2>. QED  BY <2>2 DEF StartsAfter
<1>. QED  BY <1>3, <1>10, <1>11, <1>12, <1>13, <1>14, <1>15, <1>16, <1>17 DEF v
-----------------------------------------------------------------------------
(***************************************************************************)
(* What reading leaves on the wire                                         *)
(***************************************************************************)

\* Every unit on a wire has its place in the sender's log.
LEMMA OnWire ==
    ASSUME IInv, NEW p \in Peers, NEW i \in DOMAIN wire[p]
    PROVE  /\ wire[p][i] \in Unit
           /\ Place(wire[p][i]) \in Nat
           /\ Place(wire[p][i]) < Len(sealed[p])
           /\ Place(wire[p][i]) + 1 \in DOMAIN sealed[p]
           /\ wire[p][i].of = sealed[p][Place(wire[p][i]) + 1]
<1>1. wire[p] \in Seq(Unit) /\ sealed[p] \in Seq(Ciphertext)
  BY DEF IInv, TypeOK
<1>2. wire[p][i] \in Unit
  BY <1>1
<1>3. PICK k \in DOMAIN sealed[p] : wire[p][i].of = sealed[p][k]
  BY DEF IInv, WireLog
<1>4. Position(sealed[p][k]) = k - 1
  BY DEF IInv, SealedLog
<1>5. Place(wire[p][i]) = k - 1
  BY <1>3, <1>4 DEF Place
<1>6. k \in Nat /\ k >= 1 /\ k <= Len(sealed[p])
  BY <1>1
<1>7. Place(wire[p][i]) + 1 = k /\ Place(wire[p][i]) \in Nat /\ Place(wire[p][i]) < Len(sealed[p])
  BY <1>1, <1>5, <1>6
<1>. QED  BY <1>2, <1>3, <1>7

LEMMA Consumed ==
    ASSUME IInv, NEW p \in Peers, NEW n \in 0..Available(p), Consume(p, n)
    PROVE  LET q == Other(p) IN
           /\ n \in Nat
           /\ wire[q] \in Seq(Unit) /\ wire'[q] \in Seq(Unit)
           /\ Len(wire'[q]) = Len(wire[q]) - n
           /\ \A i \in DOMAIN wire'[q] : n + i \in DOMAIN wire[q] /\ wire'[q][i] = wire[q][n + i]
           /\ Slice(wire'[q], wire[q], n)
           /\ \A r \in Peers \ {q} : wire'[r] = wire[r]
<1>. DEFINE q == Other(p)
            w == wire[q]
            v == SubSeq(w, n + 1, Len(w))
<1>1. q \in Peers
  BY PeersFacts
<1>2. w \in Seq(Unit) /\ n \in 0..Len(w)
  BY <1>1 DEF IInv, TypeOK, Available
<1>3. /\ v \in Seq(Unit) /\ Len(v) = Len(w) - n
      /\ \A i \in DOMAIN v : n + i \in DOMAIN w /\ v[i] = w[n + i]
  <2>. HIDE DEF w
  <2>. QED  BY <1>2
<1>4. wire' = [wire EXCEPT ![q] = v]
  BY DEF Consume
<1>5. wire \in [Peers -> Seq(Unit)]
  BY DEF IInv, TypeOK
<1>6. wire'[q] = v /\ \A r \in Peers \ {q} : wire'[r] = wire[r]
  <2>. HIDE DEF v, q
  <2>. QED  BY <1>1, <1>4, <1>5
<1>7. Slice(v, w, n)
  <2>. HIDE DEF v, w
  <2>. QED  BY <1>2, <1>3 DEF Slice
<1>. HIDE DEF v
<1>. QED  BY <1>2, <1>3, <1>6, <1>7

\* When a tag verifies, no tag was refused before, and the wire goes on with
\* the next ciphertext.
LEMMA AfterOpening ==
    ASSUME IInv, Frames, Unread, NEW p \in Peers, Reading(p), Available(p) >= Wanted(p),
           Opens(rx[p], Incoming(p)), Consume(p, Wanted(p))
    PROVE  LET q == Other(p)
               k == Len(opened[p])
           IN  /\ "mac" \notin failed[p]
               /\ \A i \in DOMAIN wire'[q] : Place(wire'[q][i]) >= k + 1
               /\ StartsAfter(wire'[q], k + 1)
               /\ (~closed[q] /\ wire'[q] = <<>>) => Len(sealed[q]) = k + 1
<1>. DEFINE q == Other(p)
            k == Len(opened[p])
            w == wire[q]
            v == wire'[q]
            n == Wanted(p)
            c == Incoming(p)[1].of
<1>1. q \in Peers /\ opened[p] \in Seq(Ciphertext)
  BY PeersFacts DEF IInv, TypeOK
<1>2. n \in Nat /\ n >= 1 /\ n <= Len(w) /\ k \in Nat /\ n \in 0..Available(p)
  BY <1>1, ByteSizes DEF IInv, TypeOK, Wanted, LengthSize, MaxMessageSize, Available
<1>3. /\ k + 1 \in DOMAIN sealed[q] /\ c = sealed[q][k + 1]
      /\ Len(c.plain) + MacSize = n
  BY OpensNext
<1>4. /\ w \in Seq(Unit) /\ v \in Seq(Unit)
      /\ Len(v) = Len(w) - n
      /\ \A i \in DOMAIN v : n + i \in DOMAIN w /\ v[i] = w[n + i]
  BY <1>2, Consumed
<1>5. /\ Incoming(p)[1] = w[1] /\ Len(Incoming(p)) = n
      /\ Incoming(p)[n] = w[n] /\ 1 \in DOMAIN w /\ n \in DOMAIN w
  <2>. HIDE DEF w, n
  <2>1. Incoming(p) = SubSeq(w, 1, n)
    BY DEF Incoming, w, n
  <2>. QED  BY <1>2, <1>4, <2>1
<1>6. Incoming(p) = Units(c)
  BY DEF Opens
<1>7. \A i \in 1..n : Units(c)[i] = [of |-> c, at |-> i, intact |-> TRUE]
  BY <1>3 DEF Units
<1>. HIDE DEF c, n, v, w
<1>8. w[1].of = c /\ w[1].at = 1 /\ w[n].of = c /\ w[n].at = n
  BY <1>2, <1>5, <1>6, <1>7
<1>9. Position(c) = k
  BY <1>1, <1>2, <1>3 DEF IInv, SealedLog
<1>10. Place(w[1]) = k /\ Place(w[n]) = k /\ w[n].at = Full(w[n])
  BY <1>3, <1>8, <1>9 DEF Place, Full
<1>11. "mac" \notin failed[p]
  BY <1>5, <1>8, <1>10 DEF Unread, w
<1>12. Framed(w) /\ Ordered(w) /\ (~closed[q] => EndsWith(w, Len(sealed[q])))
  BY <1>1 DEF Frames, w
<1>13. \A i \in DOMAIN v : v[i] = w[n + i] /\ n + i \in DOMAIN w /\ i \in Nat /\ i >= 1
  BY <1>4
<1>14. v # <<>> => 1 \in DOMAIN v /\ w[n + 1].at = 1 /\ Place(w[n + 1]) = k + 1
  <2>. SUFFICES ASSUME v # <<>>
                PROVE  1 \in DOMAIN v /\ w[n + 1].at = 1 /\ Place(w[n + 1]) = k + 1
    OBVIOUS
  <2>1. 1 \in DOMAIN v
    BY <1>4
  <2>2. n + 1 \in DOMAIN w
    BY <1>13, <2>1
  <2>. QED  BY <1>5, <1>10, <1>12, <2>1, <2>2 DEF Framed
<1>15. \A i \in DOMAIN v : Place(v[i]) >= k + 1
  <2>. SUFFICES ASSUME NEW i \in DOMAIN v
                PROVE  Place(w[n + i]) >= k + 1
    BY <1>13
  <2>1. i = 1 \/ n + 1 < n + i
    BY <1>2, <1>13
  <2>2. 1 \in DOMAIN v /\ Place(w[n + 1]) = k + 1 /\ n + 1 \in DOMAIN w
    BY <1>13, <1>14
  <2>3. w[n + i] \in Unit
    BY <1>4, <1>13
  <2>4. Place(w[n + i]) \in Nat
    BY <2>3, UnitNumbers
  <2>5. CASE n + 1 < n + i
    <3>1. Place(w[n + 1]) < Place(w[n + i]) \/ Place(w[n + 1]) = Place(w[n + i])
      BY <1>12, <1>13, <2>2, <2>5 DEF Ordered
    <3>. QED  BY <1>2, <2>2, <2>4, <3>1
  <2>. QED  BY <1>2, <2>1, <2>2, <2>5
<1>16. StartsAfter(v, k + 1)
  BY <1>13, <1>14 DEF StartsAfter
<1>17. (~closed[q] /\ v = <<>>) => Len(sealed[q]) = k + 1
  <2>. SUFFICES ASSUME ~closed[q], v = <<>> PROVE Len(sealed[q]) = k + 1
    OBVIOUS
  <2>1. Len(w) = n /\ w # <<>>
    BY <1>2, <1>4
  <2>2. Place(w[n]) = Len(sealed[q]) - 1
    BY <1>12, <2>1 DEF EndsWith
  <2>3. Len(sealed[q]) \in Nat
    BY <1>1 DEF IInv, TypeOK
  <2>. QED  BY <1>2, <1>10, <2>2, <2>3
<1>. QED  BY <1>11, <1>15, <1>16, <1>17 DEF v

\* When a tag is refused, the beginning of the next ciphertext is gone.
LEMMA AfterRefusal ==
    ASSUME IInv, Frames, Unread, NEW p \in Peers, NEW n \in 1..Available(p), Consume(p, n)
    PROVE  LET q == Other(p)
               k == Len(opened[p])
           IN  /\ k < Len(sealed[q])
               /\ \A i \in DOMAIN wire'[q] : ~(Place(wire'[q][i]) = k /\ wire'[q][i].at = 1)
<1>. DEFINE q == Other(p)
            k == Len(opened[p])
            w == wire[q]
            v == wire'[q]
<1>1. q \in Peers /\ opened[p] \in Seq(Ciphertext) /\ sealed[q] \in Seq(Ciphertext)
  BY PeersFacts DEF IInv, TypeOK
<1>2. w \in Seq(Unit) /\ n \in 1..Len(w) /\ n \in 0..Available(p)
  BY <1>1 DEF IInv, TypeOK, Available
<1>3. \A i \in DOMAIN v : n + i \in DOMAIN w /\ v[i] = w[n + i] /\ i \in Nat /\ i >= 1
  <2>1. v \in Seq(Unit) /\ \A i \in DOMAIN v : n + i \in DOMAIN w /\ v[i] = w[n + i]
    BY <1>2, Consumed
  <2>. HIDE DEF v, w
  <2>. QED  BY <2>1
<1>4. 1 \in DOMAIN w
  BY <1>2
<1>5. Place(w[1]) \in Nat /\ Place(w[1]) < Len(sealed[q]) /\ w[1] \in Unit
  BY <1>1, <1>4, OnWire
<1>6. Place(w[1]) >= k
  BY <1>4 DEF Unread
<1>7. k < Len(sealed[q])
  BY <1>1, <1>5, <1>6
<1>8. Framed(w) /\ Ordered(w)
  BY <1>1 DEF Frames
<1>9. w[1].at \in Nat /\ w[1].at >= 1
  BY <1>4, <1>5, <1>8, UnitNumbers DEF Framed
<1>. HIDE DEF v, w
<1>10. ASSUME NEW i \in DOMAIN v, Place(v[i]) = k, v[i].at = 1
       PROVE  FALSE
  <2>1. n + i \in DOMAIN w /\ v[i] = w[n + i] /\ 1 < n + i
    BY <1>2, <1>3
  <2>3. Place(w[n + i]) = k /\ w[n + i].at = 1
    BY <1>10, <2>1
  <2>2. Place(w[1]) < k \/ w[1].at < 1
    BY <1>4, <1>8, <2>1, <2>3 DEF Ordered
  <2>. QED  BY <1>1, <1>5, <1>6, <1>9, <2>2
<1>. QED  BY <1>7, <1>10 DEF v
-----------------------------------------------------------------------------
(***************************************************************************)
(* A reader in step opens what it reads                                    *)
(***************************************************************************)

\* A length survives its two bytes.
LEMMA LengthSurvives ==
    ASSUME NEW n \in 0..MaxMessageSize
    PROVE  LengthBytes(n) \in Seq(Byte) /\ Len(LengthBytes(n)) = 2 /\ LengthOf(LengthBytes(n)) = n
<1>1. n \in Nat /\ n < Base * Base /\ Base \in Nat /\ Base > 0
  <2>1. \A b \in Nat : b * b \in Nat
    OBVIOUS
  <2>. QED  BY <2>1, SizeAssumption, MaxSizeType DEF MaxMessageSize
<1>2. /\ n \div Base \in Nat /\ n % Base \in Nat /\ n % Base < Base
      /\ n = Base * (n \div Base) + (n % Base)
  BY <1>1
<1>3. n \div Base < Base
  <2>1. \A d, b, r \in Nat : d >= b => b * d + r >= b * b
    OBVIOUS
  <2>. QED  BY <1>1, <1>2, <2>1
<1>4. (n \div Base) % Base = n \div Base
  <2>1. \A d, b \in Nat : d < b => d % b = d
    OBVIOUS
  <2>. QED  BY <1>1, <1>2, <1>3, <2>1
<1>5. LengthOf(LengthBytes(n)) = (n \div Base) * Base + (n % Base)
  BY <1>4 DEF LengthOf, LengthBytes
<1>6. (n \div Base) * Base = Base * (n \div Base)
  BY <1>1, <1>2
<1>. QED  BY <1>1, <1>2, <1>5, <1>6, LengthBytesType DEF LengthBytes

\* A position says which key and nonce, for ciphertexts of one direction.
LEMMA SameState ==
    ASSUME NEW s, NEW t, s.key \in Key, t.key \in Key, s.nonce \in Nat, t.nonce \in Nat,
           s.nonce < KeyRotationInterval, t.nonce < KeyRotationInterval,
           s.key.half = t.key.half, Position(s) = Position(t)
    PROVE  s.key = t.key /\ s.nonce = t.nonce
<1>1. s.key.gen \in Nat /\ t.key.gen \in Nat
  BY DEF Key
<1>2. s.key.gen = t.key.gen /\ s.nonce = t.nonce
  <2>1. KeyRotationInterval \in Nat \ {0}
    BY IntervalAssumption
  <2>2. s.key.gen * KeyRotationInterval + s.nonce = t.key.gen * KeyRotationInterval + t.nonce
    BY DEF Position
  <2>3. \A g, h, n, m \in Nat :
          (/\ n < KeyRotationInterval /\ m < KeyRotationInterval
           /\ g * KeyRotationInterval + n = h * KeyRotationInterval + m) => g = h /\ n = m
    BY <2>1, PositionUnique, Zenon
  <2>. QED  BY <1>1, <2>2, <2>3
<1>3. s.key = t.key
  BY <1>2 DEF Key
<1>. QED  BY <1>2, <1>3

\* What a reader in step waits for is the size of the next ciphertext.
LEMMA WantedInStep ==
    ASSUME IInv, Pairs, InStep, NEW p \in Peers, failed[p] = {},
           Len(opened[p]) + 1 \in DOMAIN sealed[Other(p)]
    PROVE  /\ Reading(p)
           /\ Wanted(p) = Len(sealed[Other(p)][Len(opened[p]) + 1].plain) + MacSize
<1>. DEFINE q == Other(p)
            k == Len(opened[p])
            c == sealed[q][k + 1]
<1>1. q \in Peers /\ sealed[q] \in Seq(Ciphertext) /\ k \in Nat
  BY PeersFacts DEF IInv, TypeOK
<1>2. c \in Ciphertext
  BY <1>1
<1>3. Len(c.plain) \in Nat
  BY <1>2 DEF Ciphertext
<1>4. stage[p] \in {"length", "payload"}
  BY DEF InStep, IInv, TypeOK
<1>5. CASE stage[p] = "length"
  <2>1. k % 2 = 0
    BY <1>5 DEF InStep
  <2>2. (k + 1) % 2 = 1
    <3>. HIDE DEF k
    <3>. QED  BY <1>1, <2>1
  <2>3. /\ c.plain = LengthBytes(Len(sealed[q][k + 1 + 1].plain))
    BY <1>1, <2>2 DEF Pairs
  <2>4. Len(c.plain) = 2
    BY <2>3 DEF LengthBytes
  <2>. QED  BY <1>4, <1>5, <2>4, ByteSizes DEF Reading, Wanted, LengthSize
<1>6. CASE stage[p] = "payload"
  <2>1. length[p] = Len(c.plain)
    BY <1>6 DEF InStep
  <2>2. Wanted(p) = MacSize + length[p]
    BY <1>6 DEF Wanted
  <2>. QED  BY <1>3, <1>4, <2>1, <2>2, ByteSizes DEF Reading
<1>. QED  BY <1>4, <1>5, <1>6

\* On an undisturbed connection every tag verifies.
LEMMA OpensInStep ==
    ASSUME IInv, Frames, Pairs, InStep, Undamaged, NEW p \in Peers,
           failed[p] = {}, faults = 0, Available(p) >= Wanted(p)
    PROVE  Opens(rx[p], Incoming(p))
<1>. DEFINE q == Other(p)
            k == Len(opened[p])
            w == wire[q]
            n == Wanted(p)
            c == w[1].of
            in == Incoming(p)
<1>1. q \in Peers /\ opened[p] \in Seq(Ciphertext) /\ w \in Seq(Unit)
  BY PeersFacts DEF IInv, TypeOK
<1>2. n \in Nat /\ n >= 1 /\ n <= Len(w) /\ k \in Nat
  BY <1>1, ByteSizes, MaxSizeType DEF IInv, TypeOK, Wanted, LengthSize, Available
<1>3. 1 \in DOMAIN w /\ w # <<>>
  <2>. HIDE DEF w, n
  <2>. QED  BY <1>1, <1>2
<1>4. w[1].at = 1 /\ Place(w[1]) = k
  BY <1>3 DEF InStep, StartsAfter
<1>5. k + 1 \in DOMAIN sealed[q] /\ c = sealed[q][k + 1]
  BY <1>1, <1>3, <1>4, OnWire
<1>6. Len(c.plain) + MacSize = n
  BY <1>5, WantedInStep
<1>7. w[1] \in Unit /\ c \in Ciphertext
  BY <1>1, <1>3, OnWire, UnitNumbers
<1>8. Full(w[1]) = n
  BY <1>6 DEF Full
<1>9. Framed(w)
  BY <1>1 DEF Frames
<1>10. \A i \in DOMAIN w : w[i].intact
  BY <1>1 DEF Undamaged
<1>11. /\ Len(in) = n /\ DOMAIN in = 1..n
       /\ \A i \in 1..n : in[i] = w[i] /\ i \in DOMAIN w
  <2>. HIDE DEF w, n, in
  <2>1. in = SubSeq(w, 1, n)
    BY DEF Incoming, w, n, in
  <2>. QED  BY <1>1, <1>2, <2>1
<1>. HIDE DEF c, n, w, in
<1>12. ASSUME NEW i \in 1..n
       PROVE  w[i] = [of |-> c, at |-> i, intact |-> TRUE]
  <2>1. i \in DOMAIN w /\ w[i] \in Unit /\ w[i].intact
    BY <1>1, <1>10, <1>11
  <2>2. w[1].at + i - 1 = i
    BY <1>4
  <2>3. w[1].at + i - 1 \in 1..Full(w[1])
    BY <1>8, <2>2
  <2>4. w[i].of = c /\ w[i].at = i
    BY <1>3, <1>9, <2>1, <2>2, <2>3 DEF Framed, c
  <2>. QED  BY <2>1, <2>4 DEF Unit
<1>13. in = Units(c)
  <2>1. Units(c) = [i \in 1..n |-> [of |-> c, at |-> i, intact |-> TRUE]]
    BY <1>6 DEF Units
  <2>2. \A i \in 1..n : in[i] = [of |-> c, at |-> i, intact |-> TRUE]
    BY <1>11, <1>12
  <2>3. in = [i \in 1..n |-> in[i]]
    <3>1. in \in Seq(Unit)
      BY <1>1, <1>2 DEF in, Incoming, w, n
    <3>. QED  BY <1>11, <3>1
  <2>. QED  BY <2>1, <2>2, <2>3
<1>14. in[1].of = c
  BY <1>2, <1>11 DEF c
<1>15. c.key = rx[p].key /\ c.nonce = rx[p].nonce
  <2>1. /\ Position(rx[p]) = k /\ rx[p].key.half = RecvHalf(p)
        /\ rx[p].key \in Key /\ rx[p].nonce \in Nat
    BY DEF IInv, OpenedLog, TypeOK, CipherState
  <2>2. rx[p].nonce < KeyRotationInterval
    BY DEF InStep
  <2>3. Position(c) = k
    BY <1>4 DEF Place, c
  <2>4. c.key.half = SendHalf(q) /\ c.nonce < KeyRotationInterval
    BY <1>1, <1>5 DEF IInv, SealedLog
  <2>5. c.key \in Key /\ c.nonce \in Nat
    BY <1>7 DEF Ciphertext
  <2>6. SendHalf(q) = RecvHalf(p)
    BY PeersFacts
  <2>. QED  BY <2>1, <2>2, <2>3, <2>4, <2>5, <2>6, SameState
<1>. QED  BY <1>13, <1>14, <1>15 DEF Opens, in
-----------------------------------------------------------------------------
(***************************************************************************)
(* What the actions do to wires and logs                                   *)
(***************************************************************************)

\* Reading takes units off one wire and closes no connection for good but its
\* own.
LEMMA ReceiveShape ==
    ASSUME IInv, NEW p \in Peers, Receive(p)
    PROVE  /\ \E n \in 0..Available(p) : Consume(p, n)
           /\ UNCHANGED <<tx, sent, sealed, faults>>
           /\ \A r \in Peers : closed[r] => closed'[r]
<1>1. Wanted(p) \in Nat /\ Available(p) \in Nat
  <2>1. wire[Other(p)] \in Seq(Unit)
    BY PeersFacts DEF IInv, TypeOK
  <2>2. MacSize \in Nat /\ length[p] \in Nat
    BY ByteSizes, MaxSizeType DEF IInv, TypeOK
  <2>. QED  BY <2>1, <2>2 DEF Wanted, LengthSize, Available
<1>2. ASSUME NEW kind, Fail(p, kind)
      PROVE  \A r \in Peers : closed[r] => closed'[r]
  BY <1>2 DEF Fail, IInv, TypeOK
<1>3. CASE ReadLength(p)
  <2>1. Wanted(p) \in 0..Available(p) /\ Consume(p, Wanted(p))
    BY <1>1, <1>3 DEF ReadLength
  <2>2. UNCHANGED closed \/ Fail(p, "mac")
    BY <1>3 DEF ReadLength
  <2>. QED  BY <1>2, <1>3, <2>1, <2>2 DEF ReadLength
<1>4. CASE ReadPayload(p)
  <2>1. Wanted(p) \in 0..Available(p) /\ Consume(p, Wanted(p))
    BY <1>1, <1>4 DEF ReadPayload
  <2>2. UNCHANGED closed \/ Fail(p, "mac")
    BY <1>4 DEF ReadPayload
  <2>. QED  BY <1>2, <1>4, <2>1, <2>2 DEF ReadPayload
<1>5. CASE ReadError(p)
  <2>1. PICK n \in 0..(Wanted(p) - 1) :
           (n = Available(p) \/ n <= Available(p)) /\ Consume(p, n)
    BY <1>5 DEF ReadError
  <2>2. n \in 0..Available(p)
    BY <1>1, <2>1
  <2>. QED  BY <1>2, <1>5, <2>1, <2>2 DEF ReadError
<1>. QED  BY <1>3, <1>4, <1>5 DEF Receive

\* Encrypt seals a length and a message at the next two places.
LEMMA EncryptShape ==
    ASSUME IInv, NEW p \in Peers, NEW m \in Messages, Encrypt(p, m)
    PROVE  \E c, d \in Ciphertext :
              /\ c.plain = LengthBytes(Len(d.plain)) /\ Len(d.plain) <= MaxMessageSize
              /\ Position(c) = Len(sealed[p]) /\ Position(d) = Len(sealed[p]) + 1
              /\ sealed'[p] = sealed[p] \o <<c, d>>
              /\ wire'[p] = IF closed[p] THEN wire[p] ELSE wire[p] \o Units(c) \o Units(d)
<1>. DEFINE c == Seal(tx[p].key, tx[p].nonce, LengthBytes(Len(m)))
            d == Seal(tx[p].key, tx[p].nonce + 1, m)
<1>1. tx[p] \in CipherState /\ Position(tx[p]) = Len(sealed[p])
  BY DEF IInv, TypeOK, SealedLog
<1>2. m \in Seq(Byte) /\ Len(m) <= MaxMessageSize
  BY MessagesAssumption DEF Encrypt
<1>3. Len(m) \in Nat
  BY <1>2
<1>4. LengthBytes(Len(m)) \in Seq(Byte)
  BY <1>3, LengthBytesType
<1>5. c \in Ciphertext /\ d \in Ciphertext
  BY <1>1, <1>2, <1>4 DEF Seal, Ciphertext, CipherState, Key
<1>6. /\ c.plain = LengthBytes(Len(m)) /\ d.plain = m
      /\ c.key = tx[p].key /\ d.key = tx[p].key
      /\ c.nonce = tx[p].nonce /\ d.nonce = tx[p].nonce + 1
  BY DEF Seal
<1>7. tx[p].key.gen * KeyRotationInterval \in Nat /\ tx[p].nonce \in Nat
  BY <1>1, IntervalAssumption DEF CipherState, Key
<1>8. Position(c) = Len(sealed[p]) /\ Position(d) = Len(sealed[p]) + 1
  <2>1. Position(c) = Position(tx[p])
    BY <1>6 DEF Position
  <2>2. Position(d) = Position(tx[p]) + 1
    <3>. HIDE DEF d
    <3>. QED  BY <1>6, <1>7 DEF Position
  <2>. QED  BY <1>1, <2>1, <2>2
<1>9. /\ sealed' = [sealed EXCEPT ![p] = @ \o <<c, d>>]
      /\ wire' = [wire EXCEPT ![p] = IF closed[p] THEN @ ELSE @ \o Units(c) \o Units(d)]
  BY DEF Encrypt
<1>. HIDE DEF c, d
<1>10. /\ sealed'[p] = sealed[p] \o <<c, d>>
       /\ wire'[p] = IF closed[p] THEN wire[p] ELSE wire[p] \o Units(c) \o Units(d)
  BY <1>9 DEF IInv, TypeOK
<1>. QED  BY <1>2, <1>5, <1>6, <1>8, <1>10

\* The log and the wire of a sender after Encrypt.
LEMMA EncryptEffect ==
    ASSUME IInv, Frames, NEW p \in Peers, NEW m \in Messages, Encrypt(p, m)
    PROVE  LET N == Len(sealed[p]) IN
           /\ N \in Nat /\ Len(sealed'[p]) = N + 2
           /\ \A k \in DOMAIN sealed'[p] :
                 (k \in DOMAIN sealed[p] /\ sealed'[p][k] = sealed[p][k]) \/ k \in {N + 1, N + 2}
           /\ \A k \in DOMAIN sealed[p] : k \in DOMAIN sealed'[p] /\ sealed'[p][k] = sealed[p][k]
           /\ sealed'[p][N + 1].plain = LengthBytes(Len(sealed'[p][N + 2].plain))
           /\ Len(sealed'[p][N + 2].plain) <= MaxMessageSize
           /\ closed[p] => wire'[p] = wire[p]
           /\ Framed(wire'[p]) /\ Ordered(wire'[p])
           /\ ~closed[p] => EndsWith(wire'[p], N + 2) /\ wire'[p] # <<>>
           /\ \A i \in DOMAIN wire'[p] : \/ i \in DOMAIN wire[p] /\ wire'[p][i] = wire[p][i]
                                         \/ Place(wire'[p][i]) >= N /\ wire'[p][i].intact
           /\ wire[p] # <<>> => wire'[p] # <<>> /\ wire'[p][1] = wire[p][1]
           /\ wire[p] = <<>> => StartsAfter(wire'[p], N)
<1>. DEFINE N == Len(sealed[p])
            w == wire[p]
<1>1. PICK c \in Ciphertext, d \in Ciphertext :
              /\ c.plain = LengthBytes(Len(d.plain)) /\ Len(d.plain) <= MaxMessageSize
              /\ Position(c) = N /\ Position(d) = N + 1
              /\ sealed'[p] = sealed[p] \o <<c, d>>
              /\ wire'[p] = IF closed[p] THEN w ELSE w \o Units(c) \o Units(d)
  BY EncryptShape
<1>2. /\ sealed[p] \in Seq(Ciphertext) /\ N \in Nat /\ w \in Seq(Unit)
  BY DEF IInv, TypeOK
<1>3. /\ Len(sealed'[p]) = N + 2
      /\ \A k \in DOMAIN sealed'[p] :
            (k \in DOMAIN sealed[p] /\ sealed'[p][k] = sealed[p][k]) \/ k \in {N + 1, N + 2}
      /\ \A k \in DOMAIN sealed[p] : k \in DOMAIN sealed'[p] /\ sealed'[p][k] = sealed[p][k]
      /\ sealed'[p][N + 1] = c /\ sealed'[p][N + 2] = d
  <2>. DEFINE log == sealed[p]
              new == log \o <<c, d>>
  <2>1. log \in Seq(Ciphertext)
    BY <1>2
  <2>. HIDE DEF log
  <2>2. /\ Len(new) = Len(log) + 2
        /\ \A k \in DOMAIN new :
              (k \in DOMAIN log /\ new[k] = log[k]) \/ k \in {Len(log) + 1, Len(log) + 2}
        /\ \A k \in DOMAIN log : k \in DOMAIN new /\ new[k] = log[k]
        /\ new[Len(log) + 1] = c /\ new[Len(log) + 2] = d
    BY <2>1
  <2>. HIDE DEF new
  <2>. QED  BY <1>1, <2>2 DEF log, new
<1>4. Framed(w) /\ Ordered(w) /\ (~closed[p] => EndsWith(w, N))
  BY DEF Frames
<1>5. \A i \in DOMAIN w : Place(w[i]) < N
  BY OnWire
<1>6. CASE closed[p]
  <2>1. wire'[p] = w
    BY <1>1, <1>6
  <2>2. w = <<>> => StartsAfter(w, N)
    BY DEF StartsAfter
  <2>. QED  BY <1>1, <1>2, <1>3, <1>4, <1>6, <2>1, <2>2
<1>7. CASE ~closed[p]
  <2>. DEFINE u == w \o Units(c)
              v == u \o Units(d)
  <2>1. wire'[p] = v
    BY <1>1, <1>7
  <2>. HIDE DEF w
  <2>2. /\ u \in Seq(Unit) /\ u # <<>> /\ Framed(u) /\ Ordered(u) /\ EndsWith(u, N + 1)
        /\ \A i \in DOMAIN u : Place(u[i]) < N + 1
        /\ \A i \in DOMAIN u : \/ i \in DOMAIN w /\ u[i] = w[i]
                               \/ Place(u[i]) = N /\ u[i].intact
        /\ w # <<>> => u[1] = w[1]
        /\ w = <<>> => StartsAfter(u, N)
    BY <1>1, <1>2, <1>4, <1>5, <1>7, AppendUnits
  <2>. HIDE DEF u
  <2>3. /\ v # <<>> /\ Framed(v) /\ Ordered(v) /\ EndsWith(v, N + 1 + 1)
        /\ \A i \in DOMAIN v : \/ i \in DOMAIN u /\ v[i] = u[i]
                               \/ Place(v[i]) = N + 1 /\ v[i].intact
        /\ v[1] = u[1]
    BY <1>1, <1>2, <2>2, AppendUnits
  <2>. HIDE DEF v
  <2>4. EndsWith(v, N + 2)
    BY <1>2, <2>3
  <2>5. \A i \in DOMAIN v : \/ i \in DOMAIN w /\ v[i] = w[i]
                            \/ Place(v[i]) >= N /\ v[i].intact
    BY <1>2, <2>2, <2>3
  <2>6. w = <<>> => StartsAfter(v, N)
    BY <2>2, <2>3 DEF StartsAfter
  <2>. QED  BY <1>1, <1>2, <1>3, <1>7, <2>1, <2>2, <2>3, <2>4, <2>5, <2>6 DEF w
<1>. QED  BY <1>6, <1>7
\* The three ways a read ends: it opens a ciphertext, a tag is refused, or
\* the connection fails.
Opening(p) ==
    LET c == Incoming(p)[1].of IN
    /\ Reading(p) /\ Available(p) >= Wanted(p) /\ Opens(rx[p], Incoming(p))
    /\ Consume(p, Wanted(p))
    /\ opened'[p] = Append(opened[p], c)
    /\ UNCHANGED <<closed, failed>>
    /\ \/ /\ stage[p] = "length" /\ stage'[p] = "payload"
          /\ rx'[p] = Advance(rx[p], 1) /\ length'[p] = LengthOf(c.plain)
       \/ /\ stage[p] = "payload" /\ stage'[p] = "length"
          /\ rx'[p] = RotateKey(Advance(rx[p], 1))

Refusing(p) ==
    /\ Available(p) >= Wanted(p) /\ ~Opens(rx[p], Incoming(p))
    /\ \E n \in 1..Available(p) : Consume(p, n)
    /\ failed'[p] = failed[p] \cup {"mac"}
    /\ UNCHANGED <<opened, delivered>>

Failing(p) ==
    /\ \E n \in 0..Available(p) : Consume(p, n)
    /\ failed'[p] = failed[p] \cup {"io"}
    /\ UNCHANGED <<opened, delivered>>

LEMMA ReceiveCases ==
    ASSUME IInv, NEW p \in Peers, Receive(p)
    PROVE  /\ \A r \in Peers \ {p} :
                 /\ opened'[r] = opened[r] /\ failed'[r] = failed[r] /\ rx'[r] = rx[r]
                 /\ stage'[r] = stage[r] /\ length'[r] = length[r]
                 /\ delivered'[r] = delivered[r]
           /\ Opening(p) \/ Refusing(p) \/ Failing(p)
<1>1. /\ Wanted(p) \in Nat /\ Wanted(p) >= 1 /\ Available(p) \in Nat
  <2>1. wire[Other(p)] \in Seq(Unit)
    BY PeersFacts DEF IInv, TypeOK
  <2>2. MacSize \in Nat /\ MacSize >= 1 /\ length[p] \in Nat
    BY ByteSizes, MaxSizeType DEF IInv, TypeOK
  <2>. QED  BY <2>1, <2>2 DEF Wanted, LengthSize, Available
<1>2. ASSUME NEW kind, Fail(p, kind)
      PROVE  /\ failed'[p] = failed[p] \cup {kind}
             /\ \A r \in Peers \ {p} : failed'[r] = failed[r] /\ stage'[r] = stage[r]
  BY <1>2 DEF Fail, IInv, TypeOK
<1>3. CASE ReadLength(p)
  <2>1. Wanted(p) \in 1..Available(p) /\ Consume(p, Wanted(p)) /\ Available(p) >= Wanted(p)
    BY <1>1, <1>3 DEF ReadLength
  <2>2. CASE Opens(rx[p], Incoming(p))
    <3>. DEFINE c == Incoming(p)[1].of
                n == LengthOf(c.plain)
                s == Advance(rx[p], 1)
    <3>1. /\ stage[p] = "length"
          /\ rx' = [rx EXCEPT ![p] = s]
          /\ length' = [length EXCEPT ![p] = n]
          /\ opened' = [opened EXCEPT ![p] = Append(@, c)]
          /\ stage' = [stage EXCEPT ![p] = "payload"]
          /\ UNCHANGED <<closed, failed, delivered>>
      BY <1>3, <2>2 DEF ReadLength
    <3>. HIDE DEF c, n, s
    <3>2. /\ rx'[p] = s /\ length'[p] = n /\ opened'[p] = Append(opened[p], c)
          /\ stage'[p] = "payload"
          /\ \A r \in Peers \ {p} :
                 /\ opened'[r] = opened[r] /\ rx'[r] = rx[r]
                 /\ stage'[r] = stage[r] /\ length'[r] = length[r]
      BY <3>1 DEF IInv, TypeOK
    <3>3. Opening(p)
      BY <2>1, <2>2, <3>1, <3>2 DEF Opening, Reading, c, n, s
    <3>. QED  BY <3>1, <3>2, <3>3
  <2>3. CASE ~Opens(rx[p], Incoming(p))
    <3>1. Fail(p, "mac") /\ UNCHANGED <<rx, length, opened, delivered>>
      BY <1>3, <2>3 DEF ReadLength
    <3>2. Refusing(p)
      BY <1>2, <2>1, <2>3, <3>1 DEF Refusing
    <3>. QED  BY <1>2, <3>1, <3>2
  <2>. QED  BY <2>2, <2>3
<1>4. CASE ReadPayload(p)
  <2>1. Wanted(p) \in 1..Available(p) /\ Consume(p, Wanted(p)) /\ Available(p) >= Wanted(p)
    BY <1>1, <1>4 DEF ReadPayload
  <2>2. CASE Opens(rx[p], Incoming(p))
    <3>. DEFINE c == Incoming(p)[1].of
                s == RotateKey(Advance(rx[p], 1))
    <3>1. /\ stage[p] = "payload"
          /\ rx' = [rx EXCEPT ![p] = s]
          /\ opened' = [opened EXCEPT ![p] = Append(@, c)]
          /\ delivered' = [delivered EXCEPT ![p] = Append(@, c.plain)]
          /\ stage' = [stage EXCEPT ![p] = "length"]
          /\ UNCHANGED <<closed, failed, length>>
      BY <1>4, <2>2 DEF ReadPayload
    <3>. HIDE DEF c, s
    <3>2. /\ rx'[p] = s /\ opened'[p] = Append(opened[p], c)
          /\ stage'[p] = "length"
          /\ \A r \in Peers \ {p} :
                 /\ opened'[r] = opened[r] /\ rx'[r] = rx[r]
                 /\ stage'[r] = stage[r] /\ delivered'[r] = delivered[r]
      BY <3>1 DEF IInv, TypeOK
    <3>3. Opening(p)
      BY <2>1, <2>2, <3>1, <3>2 DEF Opening, Reading, c, s
    <3>. QED  BY <3>1, <3>2, <3>3
  <2>3. CASE ~Opens(rx[p], Incoming(p))
    <3>1. Fail(p, "mac") /\ UNCHANGED <<rx, length, opened, delivered>>
      BY <1>4, <2>3 DEF ReadPayload
    <3>2. Refusing(p)
      BY <1>2, <2>1, <2>3, <3>1 DEF Refusing
    <3>. QED  BY <1>2, <3>1, <3>2
  <2>. QED  BY <2>2, <2>3
<1>5. CASE ReadError(p)
  <2>1. Fail(p, "io") /\ UNCHANGED <<rx, length, opened, delivered>>
    BY <1>5 DEF ReadError
  <2>2. \E n \in 0..Available(p) : Consume(p, n)
    BY <1>5, ReceiveShape DEF Receive
  <2>3. Failing(p)
    BY <1>2, <2>1, <2>2 DEF Failing
  <2>. QED  BY <1>2, <2>1, <2>3
<1>. QED  BY <1>3, <1>4, <1>5 DEF Receive

\* A fault damages or drops units at the end of one wire, and moves none.
LEMMA FaultShape ==
    ASSUME IInv, NEW p \in Peers, Corrupt(p) \/ Break(p)
    PROVE  /\ UNCHANGED <<tx, rx, stage, length, sent, sealed, opened, delivered, failed>>
           /\ faults' > 0
           /\ \A r \in Peers : /\ wire[r] \in Seq(Unit) /\ wire'[r] \in Seq(Unit)
                               /\ Slice(wire'[r], wire[r], 0)
                               /\ closed[r] => closed'[r]
                               /\ ~closed'[r] => Len(wire'[r]) = Len(wire[r])
<1>. DEFINE w == wire[p]
<1>1. w \in Seq(Unit) /\ faults \in Nat
  BY BoundAssumption DEF IInv, TypeOK
<1>2. CASE Corrupt(p)
  <2>1. PICK i \in 1..Len(w) : wire' = [wire EXCEPT ![p][i].intact = FALSE]
    BY <1>2 DEF Corrupt
  <2>2. /\ UNCHANGED <<tx, rx, stage, length, closed, sent, sealed, opened, delivered, failed>>
        /\ faults' = faults + 1
    BY <1>2 DEF Corrupt
  <2>. DEFINE u == [w[i] EXCEPT !.intact = FALSE]
              v == [w EXCEPT ![i] = u]
  <2>3. w[i] \in Unit
    BY <1>1, <2>1
  <2>4. u \in Unit /\ u.of = w[i].of /\ u.at = w[i].at
    BY <2>3 DEF Unit
  <2>5. wire' = [wire EXCEPT ![p] = v]
    BY <2>1 DEF IInv, TypeOK
  <2>. HIDE DEF w
  <2>6. /\ v \in Seq(Unit) /\ Len(v) = Len(w)
        /\ \A j \in DOMAIN v : v[j].of = w[j].of /\ v[j].at = w[j].at
    <3>. HIDE DEF u
    <3>. QED  BY <1>1, <2>1, <2>4
  <2>. HIDE DEF v
  <2>7. Slice(v, w, 0)
    <3>1. \A j \in DOMAIN v : 0 + j = j
      BY <2>6
    <3>. QED  BY <1>1, <2>6, <3>1 DEF Slice
  <2>8. \A r \in Peers : wire[r] \in Seq(Unit) /\ Slice(wire[r], wire[r], 0)
    <3>. TAKE r \in Peers
    <3>1. wire[r] \in Seq(Unit)
      BY DEF IInv, TypeOK
    <3>2. \A j \in DOMAIN wire[r] : 0 + j = j
      BY <3>1
    <3>. QED  BY <3>1, <3>2 DEF Slice
  <2>9. wire'[p] = v /\ \A r \in Peers \ {p} : wire'[r] = wire[r]
    BY <2>5 DEF IInv, TypeOK
  <2>10. \A r \in Peers : wire'[r] \in Seq(Unit) /\ Slice(wire'[r], wire[r], 0)
                          /\ Len(wire'[r]) = Len(wire[r])
    BY <2>6, <2>7, <2>8, <2>9 DEF w
  <2>. QED  BY <1>1, <2>2, <2>8, <2>10
<1>3. CASE Break(p)
  <2>1. PICK n \in 0..Len(w) : wire' = [wire EXCEPT ![p] = SubSeq(@, 1, n)]
    BY <1>3 DEF Break
  <2>2. /\ UNCHANGED <<tx, rx, stage, length, sent, sealed, opened, delivered, failed>>
        /\ faults' = faults + 1 /\ closed' = [closed EXCEPT ![p] = TRUE]
    BY <1>3 DEF Break
  <2>3. closed'[p] /\ \A r \in Peers \ {p} : closed'[r] = closed[r]
    BY <2>2 DEF IInv, TypeOK
  <2>. DEFINE v == SubSeq(w, 1, n)
  <2>4. wire'[p] = v /\ \A r \in Peers \ {p} : wire'[r] = wire[r]
    BY <2>1 DEF IInv, TypeOK
  <2>. HIDE DEF w
  <2>5. v \in Seq(Unit) /\ Len(v) = n /\ \A j \in DOMAIN v : v[j] = w[0 + j]
    BY <1>1, <2>1
  <2>. HIDE DEF v
  <2>6. Slice(v, w, 0)
    BY <1>1, <2>1, <2>5 DEF Slice
  <2>7. \A r \in Peers : wire[r] \in Seq(Unit) /\ Slice(wire[r], wire[r], 0)
    <3>. TAKE r \in Peers
    <3>1. wire[r] \in Seq(Unit)
      BY DEF IInv, TypeOK
    <3>2. \A j \in DOMAIN wire[r] : 0 + j = j
      BY <3>1
    <3>. QED  BY <3>1, <3>2 DEF Slice
  <2>. QED  BY <1>1, <2>2, <2>3, <2>4, <2>5, <2>6, <2>7 DEF w
<1>. QED  BY <1>2, <1>3
-----------------------------------------------------------------------------
(***************************************************************************)
(* The invariant is inductive                                              *)
(***************************************************************************)

\* What Encrypt leaves alone.
LEMMA EncryptOthers ==
    ASSUME IInv, NEW p \in Peers, NEW m \in Messages, Encrypt(p, m)
    PROVE  /\ UNCHANGED <<rx, stage, length, closed, opened, delivered, failed, faults>>
           /\ \A r \in Peers \ {p} : wire'[r] = wire[r] /\ sealed'[r] = sealed[r]
BY DEF Encrypt, IInv, TypeOK

LEMMA FramesStep ==
    ASSUME IInv, Frames, [Next]_vars
    PROVE  Frames'
<1>. SUFFICES ASSUME NEW r \in Peers
              PROVE  /\ Framed(wire'[r])
                     /\ Ordered(wire'[r])
                     /\ ~closed'[r] => EndsWith(wire'[r], Len(sealed'[r]))
  BY DEF Frames, Framed, Ordered, EndsWith, Place, Full, Position
<1>0. /\ Framed(wire[r]) /\ Ordered(wire[r])
      /\ ~closed[r] => EndsWith(wire[r], Len(sealed[r]))
      /\ wire[r] \in Seq(Unit) /\ Len(sealed[r]) \in Nat
  BY DEF Frames, IInv, TypeOK
<1>1. ASSUME NEW p \in Peers, NEW m \in Messages, Encrypt(p, m)
      PROVE  /\ Framed(wire'[r])
             /\ Ordered(wire'[r])
             /\ ~closed'[r] => EndsWith(wire'[r], Len(sealed'[r]))
  <2>1. CASE r = p
    <3>1. closed' = closed
      BY <1>1, EncryptOthers
    <3>. QED  BY <1>1, <2>1, <3>1, EncryptEffect
  <2>2. CASE r # p
    BY <1>0, <1>1, <2>2, EncryptOthers
  <2>. QED  BY <2>1, <2>2
<1>2. ASSUME NEW p \in Peers, Receive(p)
      PROVE  /\ Framed(wire'[r])
             /\ Ordered(wire'[r])
             /\ ~closed'[r] => EndsWith(wire'[r], Len(sealed'[r]))
  <2>1. PICK n \in 0..Available(p) : Consume(p, n)
    BY <1>2, ReceiveShape
  <2>2. sealed' = sealed /\ (closed[r] => closed'[r])
    BY <1>2, ReceiveShape
  <2>3. CASE r = Other(p)
    <3>1. /\ n \in Nat /\ wire'[r] \in Seq(Unit) /\ Slice(wire'[r], wire[r], n)
          /\ Len(wire'[r]) = Len(wire[r]) - n
      BY <2>1, <2>3, Consumed
    <3>2. n + Len(wire'[r]) = Len(wire[r])
      BY <1>0, <3>1
    <3>. QED  BY <1>0, <2>2, <3>1, <3>2, SliceFacts
  <2>4. CASE r # Other(p)
    <3>1. wire'[r] = wire[r]
      BY <2>1, <2>4, Consumed
    <3>. QED  BY <1>0, <2>2, <3>1
  <2>. QED  BY <2>3, <2>4
<1>3. ASSUME NEW p \in Peers, Corrupt(p) \/ Break(p)
      PROVE  /\ Framed(wire'[r])
             /\ Ordered(wire'[r])
             /\ ~closed'[r] => EndsWith(wire'[r], Len(sealed'[r]))
  <2>1. /\ sealed' = sealed /\ wire'[r] \in Seq(Unit) /\ Slice(wire'[r], wire[r], 0)
        /\ closed[r] => closed'[r]
        /\ ~closed'[r] => 0 + Len(wire'[r]) = Len(wire[r])
    BY <1>3, FaultShape
  <2>. QED  BY <1>0, <2>1, SliceFacts
<1>4. CASE UNCHANGED vars
  BY <1>0, <1>4 DEF vars
<1>. QED  BY <1>1, <1>2, <1>3, <1>4 DEF Next

LEMMA PairsStep ==
    ASSUME IInv, Frames, Pairs, [Next]_vars
    PROVE  Pairs'
<1>1. ASSUME NEW p \in Peers, NEW m \in Messages, Encrypt(p, m)
      PROVE  Pairs'
  <2>. SUFFICES ASSUME NEW r \in Peers
                PROVE  /\ Len(sealed'[r]) % 2 = 0
                       /\ \A k \in DOMAIN sealed'[r] : k % 2 = 1 =>
                             /\ sealed'[r][k].plain = LengthBytes(Len(sealed'[r][k + 1].plain))
                             /\ Len(sealed'[r][k + 1].plain) <= MaxMessageSize
    BY DEF Pairs
  <2>1. CASE r # p
    BY <1>1, <2>1, EncryptOthers DEF Pairs
  <2>2. CASE r = p
    <3>. DEFINE N == Len(sealed[p])
    <3>1. /\ N \in Nat /\ Len(sealed'[p]) = N + 2
          /\ \A k \in DOMAIN sealed'[p] :
                 (k \in DOMAIN sealed[p] /\ sealed'[p][k] = sealed[p][k]) \/ k \in {N + 1, N + 2}
          /\ \A k \in DOMAIN sealed[p] : k \in DOMAIN sealed'[p] /\ sealed'[p][k] = sealed[p][k]
          /\ sealed'[p][N + 1].plain = LengthBytes(Len(sealed'[p][N + 2].plain))
          /\ Len(sealed'[p][N + 2].plain) <= MaxMessageSize
      BY <1>1, EncryptEffect
    <3>2. /\ N % 2 = 0 /\ DOMAIN sealed[p] = 1..N
          /\ \A k \in DOMAIN sealed[p] : k % 2 = 1 =>
                /\ sealed[p][k].plain = LengthBytes(Len(sealed[p][k + 1].plain))
                /\ Len(sealed[p][k + 1].plain) <= MaxMessageSize
      BY DEF Pairs, IInv, TypeOK
    <3>. HIDE DEF N
    <3>3. (N + 2) % 2 = 0
      BY <3>1, <3>2
    <3>4. ASSUME NEW k \in DOMAIN sealed'[p], k % 2 = 1
          PROVE  /\ sealed'[p][k].plain = LengthBytes(Len(sealed'[p][k + 1].plain))
                 /\ Len(sealed'[p][k + 1].plain) <= MaxMessageSize
      <4>1. CASE k \in DOMAIN sealed[p]
        <5>1. k + 1 \in DOMAIN sealed[p]
          <6>1. k \in 1..N /\ k # N
            BY <3>2, <3>4, <4>1
          <6>2. k + 1 \in 1..N
            BY <3>1, <6>1
          <6>. QED  BY <3>2, <6>2
        <5>2. sealed'[p][k] = sealed[p][k] /\ sealed'[p][k + 1] = sealed[p][k + 1]
          BY <3>1, <4>1, <5>1
        <5>3. /\ sealed[p][k].plain = LengthBytes(Len(sealed[p][k + 1].plain))
              /\ Len(sealed[p][k + 1].plain) <= MaxMessageSize
          BY <3>2, <3>4, <4>1
        <5>. QED  BY <5>2, <5>3
      <4>2. CASE k = N + 1
        <5>1. k + 1 = N + 2
          BY <3>1, <4>2
        <5>. QED  BY <3>1, <4>2, <5>1
      <4>3. CASE k = N + 2
        BY <3>1, <3>2, <3>4, <4>3
      <4>. QED  BY <3>1, <3>4, <4>1, <4>2, <4>3
    <3>. QED  BY <2>2, <3>1, <3>3, <3>4
  <2>. QED  BY <2>1, <2>2
<1>2. ASSUME NEW p \in Peers, Receive(p) PROVE Pairs'
  <2>1. sealed' = sealed
    BY <1>2, ReceiveShape
  <2>. QED  BY <2>1 DEF Pairs
<1>3. ASSUME NEW p \in Peers, Corrupt(p) \/ Break(p) PROVE Pairs'
  <2>1. sealed' = sealed
    BY <1>3, FaultShape
  <2>. QED  BY <2>1 DEF Pairs
<1>4. CASE UNCHANGED vars
  BY <1>4 DEF vars, Pairs
<1>. QED  BY <1>1, <1>2, <1>3, <1>4 DEF Next
\* Opening goes to the next ciphertext, and what is left begins after it.
LEMMA UnreadStep ==
    ASSUME IInv, Frames, Unread, Refused, [Next]_vars
    PROVE  Unread' /\ Refused'
<1>. SUFFICES ASSUME NEW r \in Peers
              PROVE  LET q == Other(r) IN
                     /\ \A i \in DOMAIN wire'[q] :
                           /\ Place(wire'[q][i]) >= Len(opened'[r])
                           /\ "mac" \in failed'[r] =>
                                 ~(Place(wire'[q][i]) = Len(opened'[r]) /\ wire'[q][i].at = 1)
                     /\ "mac" \in failed'[r] => Len(opened'[r]) < Len(sealed'[q])
  BY DEF Unread, Refused, Place, Position
<1>. DEFINE q == Other(r)
            k == Len(opened[r])
            N == Len(sealed[q])
<1>0. /\ q \in Peers /\ k \in Nat /\ N \in Nat /\ k <= N
      /\ \A i \in DOMAIN wire[q] : Place(wire[q][i]) >= k
      /\ "mac" \in failed[r] =>
            \A i \in DOMAIN wire[q] : ~(Place(wire[q][i]) = k /\ wire[q][i].at = 1)
      /\ "mac" \in failed[r] => k < N
      /\ wire[q] \in Seq(Unit)
      /\ \A i \in DOMAIN wire[q] : Place(wire[q][i]) \in Nat
  <2>1. q \in Peers
    BY PeersFacts
  <2>2. k \in Nat /\ N \in Nat /\ k <= N /\ wire[q] \in Seq(Unit)
    BY <2>1 DEF IInv, TypeOK, OpenedLog
  <2>. QED  BY <2>1, <2>2, OnWire DEF Unread, Refused
<1>1. ASSUME NEW p \in Peers, NEW m \in Messages, Encrypt(p, m)
      PROVE  /\ \A i \in DOMAIN wire'[q] :
                   /\ Place(wire'[q][i]) >= Len(opened'[r])
                   /\ "mac" \in failed'[r] =>
                         ~(Place(wire'[q][i]) = Len(opened'[r]) /\ wire'[q][i].at = 1)
             /\ "mac" \in failed'[r] => Len(opened'[r]) < Len(sealed'[q])
  <2>0. opened' = opened /\ failed' = failed
    BY <1>1, EncryptOthers
  <2>1. CASE q = p
    <3>1. /\ Len(sealed'[q]) = N + 2
          /\ \A i \in DOMAIN wire'[q] : \/ i \in DOMAIN wire[q] /\ wire'[q][i] = wire[q][i]
                                        \/ Place(wire'[q][i]) >= N /\ wire'[q][i].intact
          /\ \A i \in DOMAIN wire[q] : Place(wire[q][i]) \in Nat
      BY <1>0, <1>1, <2>1, EncryptEffect
    <3>2. ASSUME NEW i \in DOMAIN wire'[q]
          PROVE  /\ Place(wire'[q][i]) >= k
                 /\ "mac" \in failed[r] => ~(Place(wire'[q][i]) = k /\ wire'[q][i].at = 1)
      <4>1. CASE i \in DOMAIN wire[q] /\ wire'[q][i] = wire[q][i]
        BY <1>0, <4>1
      <4>2. CASE Place(wire'[q][i]) >= N
        <5>1. Place(wire'[q][i]) \in Int
          <6>1. IInv'
            BY <1>1, NextIInv DEF Next
          <6>2. wire'[q] \in Seq(Unit)
            BY <1>0, <6>1 DEF IInv, TypeOK
          <6>3. wire'[q][i] \in Unit
            BY <6>2
          <6>. QED  BY <6>3, UnitNumbers
        <5>. QED  BY <1>0, <4>2, <5>1
      <4>. QED  BY <3>1, <4>1, <4>2
    <3>. QED  BY <1>0, <2>0, <3>1, <3>2
  <2>2. CASE q # p
    BY <1>0, <1>1, <2>0, <2>2, EncryptOthers
  <2>. QED  BY <2>1, <2>2
<1>2. ASSUME NEW p \in Peers, Receive(p)
      PROVE  /\ \A i \in DOMAIN wire'[q] :
                   /\ Place(wire'[q][i]) >= Len(opened'[r])
                   /\ "mac" \in failed'[r] =>
                         ~(Place(wire'[q][i]) = Len(opened'[r]) /\ wire'[q][i].at = 1)
             /\ "mac" \in failed'[r] => Len(opened'[r]) < Len(sealed'[q])
  <2>0. sealed' = sealed
    BY <1>2, ReceiveShape
  <2>1. CASE r # p
    <3>1. opened'[r] = opened[r] /\ failed'[r] = failed[r]
      BY <1>2, <2>1, ReceiveCases
    <3>2. q # Other(p)
      BY <2>1, PeersFacts
    <3>3. wire'[q] = wire[q]
      BY <1>0, <1>2, <3>2, ReceiveShape, Consumed
    <3>. QED  BY <1>0, <2>0, <3>1, <3>3
  <2>2. CASE r = p /\ Opening(p)
    <3>1. /\ Reading(p) /\ Available(p) >= Wanted(p) /\ Opens(rx[p], Incoming(p))
          /\ Consume(p, Wanted(p)) /\ failed' = failed
          /\ opened'[p] = Append(opened[p], Incoming(p)[1].of)
      BY <2>2 DEF Opening
    <3>2. /\ "mac" \notin failed[p]
          /\ \A i \in DOMAIN wire'[q] : Place(wire'[q][i]) >= k + 1
      BY <2>2, <3>1, AfterOpening
    <3>3. Len(opened'[p]) = k + 1
      <4>1. opened[p] \in Seq(Ciphertext)
        BY DEF IInv, TypeOK
      <4>. DEFINE c == Incoming(p)[1].of
      <4>. HIDE DEF c
      <4>2. opened'[p] = Append(opened[p], c)
        BY <3>1 DEF c
      <4>. QED  BY <2>2, <4>1, <4>2
    <3>. QED  BY <2>2, <3>1, <3>2, <3>3
  <2>3. CASE r = p /\ Refusing(p)
    <3>1. PICK n \in 1..Available(p) : Consume(p, n)
      BY <2>3 DEF Refusing
    <3>2. opened' = opened
      BY <2>3 DEF Refusing
    <3>3. /\ k < N
          /\ \A i \in DOMAIN wire'[q] : ~(Place(wire'[q][i]) = k /\ wire'[q][i].at = 1)
      BY <2>3, <3>1, AfterRefusal
    <3>4. n \in 0..Available(p)
      BY <3>1
    <3>5. \A i \in DOMAIN wire'[q] : n + i \in DOMAIN wire[q] /\ wire'[q][i] = wire[q][n + i]
      BY <2>3, <3>1, <3>4, Consumed
    <3>. QED  BY <1>0, <2>0, <3>2, <3>3, <3>5
  <2>4. CASE r = p /\ Failing(p)
    <3>1. PICK n \in 0..Available(p) : Consume(p, n)
      BY <2>4 DEF Failing
    <3>2. opened' = opened /\ failed'[p] = failed[p] \cup {"io"}
      BY <2>4 DEF Failing
    <3>3. "mac" \in failed'[p] => "mac" \in failed[p]
      BY <3>2
    <3>5. \A i \in DOMAIN wire'[q] : n + i \in DOMAIN wire[q] /\ wire'[q][i] = wire[q][n + i]
      BY <2>4, <3>1, Consumed
    <3>. QED  BY <1>0, <2>0, <2>4, <3>2, <3>3, <3>5
  <2>. QED  BY <1>2, <2>1, <2>2, <2>3, <2>4, ReceiveCases
<1>3. ASSUME NEW p \in Peers, Corrupt(p) \/ Break(p)
      PROVE  /\ \A i \in DOMAIN wire'[q] :
                   /\ Place(wire'[q][i]) >= Len(opened'[r])
                   /\ "mac" \in failed'[r] =>
                         ~(Place(wire'[q][i]) = Len(opened'[r]) /\ wire'[q][i].at = 1)
             /\ "mac" \in failed'[r] => Len(opened'[r]) < Len(sealed'[q])
  <2>1. /\ opened' = opened /\ failed' = failed /\ sealed' = sealed
        /\ wire'[q] \in Seq(Unit) /\ Slice(wire'[q], wire[q], 0)
    BY <1>0, <1>3, FaultShape
  <2>2. \A i \in DOMAIN wire'[q] : /\ 0 + i \in DOMAIN wire[q]
                                   /\ Place(wire'[q][i]) = Place(wire[q][0 + i])
                                   /\ wire'[q][i].at = wire[q][0 + i].at
    BY <1>0, <2>1, SliceFacts
  <2>. QED  BY <1>0, <2>1, <2>2
<1>4. CASE UNCHANGED vars
  BY <1>0, <1>4 DEF vars
<1>. QED  BY <1>1, <1>2, <1>3, <1>4 DEF Next
\* A position has the parity of its nonce: intervals are even.
LEMMA Parity ==
    ASSUME NEW s \in CipherState
    PROVE  Position(s) % 2 = s.nonce % 2
<1>. DEFINE h == KeyRotationInterval \div 2
            g == s.key.gen
            n == s.nonce
<1>1. h \in Nat /\ KeyRotationInterval = 2 * h /\ KeyRotationInterval \in Nat
  BY IntervalAssumption
<1>2. g \in Nat /\ n \in Nat
  BY DEF CipherState, Key
<1>3. Position(s) = g * (2 * h) + n
  BY <1>1, Zenon DEF Position
<1>. HIDE DEF h, g, n
<1>4. g * (2 * h) = 2 * (g * h) /\ g * h \in Nat
  BY <1>1, <1>2
<1>5. \A x, y \in Nat : (2 * x + y) % 2 = y % 2
  OBVIOUS
<1>6. PICK x \in Nat : x = g * h
  BY <1>4
<1>7. Position(s) = 2 * x + n
  BY <1>3, <1>4, <1>6, Zenon
<1>8. Position(s) % 2 = n % 2
  BY <1>2, <1>5, <1>7
<1>. QED  BY <1>8 DEF n

\* A reader in step stays in step when it opens a ciphertext: after a length
\* it knows how long the payload is, after a payload it has rotated if that
\* was the last under its key.
LEMMA OpeningStaysInStep ==
    ASSUME IInv, Pairs, InStep, NEW p \in Peers, failed[p] = {}, Opening(p)
    PROVE  LET q == Other(p)
               k == Len(opened[p]) + 1
           IN  /\ Len(opened'[p]) = k
               /\ rx'[p].nonce < KeyRotationInterval
               /\ stage'[p] # "down"
               /\ stage'[p] = "length" => k % 2 = 0
               /\ stage'[p] = "payload" => k % 2 = 1 /\ length'[p] = Len(sealed[q][k + 1].plain)
<1>. DEFINE q == Other(p)
            k == Len(opened[p]) + 1
            c == Incoming(p)[1].of
            s == Advance(rx[p], 1)
<1>1. q \in Peers /\ opened[p] \in Seq(Ciphertext) /\ k - 1 \in Nat /\ k \in Nat
  BY PeersFacts DEF IInv, TypeOK
<1>2. /\ Reading(p) /\ Available(p) >= Wanted(p) /\ Opens(rx[p], Incoming(p))
      /\ opened'[p] = Append(opened[p], c)
      /\ \/ stage[p] = "length" /\ stage'[p] = "payload" /\ rx'[p] = s
            /\ length'[p] = LengthOf(c.plain)
         \/ stage[p] = "payload" /\ stage'[p] = "length" /\ rx'[p] = RotateKey(s)
  BY DEF Opening
<1>3. c = sealed[q][k] /\ k \in DOMAIN sealed[q]
  BY <1>2, OpensNext
<1>4. Len(opened'[p]) = k
  <2>. HIDE DEF c
  <2>. QED  BY <1>1, <1>2
<1>5. /\ rx[p] \in CipherState /\ rx[p].nonce \in Nat /\ rx[p].nonce < KeyRotationInterval
      /\ Position(rx[p]) = k - 1
  BY DEF IInv, TypeOK, OpenedLog, CipherState, InStep
<1>6. /\ s \in CipherState /\ s.nonce = rx[p].nonce + 1
  BY <1>5, AdvanceFacts
<1>7. KeyRotationInterval \in Nat /\ KeyRotationInterval % 2 = 0
  BY IntervalAssumption
<1>10. k - 1 = Len(opened[p])
  BY <1>1
<1>. HIDE DEF c, s, k
<1>8. CASE stage[p] = "length"
  <2>1. stage'[p] = "payload" /\ rx'[p] = s /\ length'[p] = LengthOf(c.plain)
    BY <1>2, <1>8
  <2>2. (k - 1) % 2 = 0
    BY <1>8, <1>10 DEF InStep
  <2>3. k % 2 = 1
    BY <1>1, <2>2
  <2>4. rx[p].nonce % 2 = 0
    BY <1>5, <2>2, Parity
  <2>5. s.nonce < KeyRotationInterval
    BY <1>5, <1>6, <1>7, <2>4
  <2>6. c.plain = LengthBytes(Len(sealed[q][k + 1].plain)) /\ Len(sealed[q][k + 1].plain) <= MaxMessageSize
    BY <1>1, <1>3, <2>3 DEF Pairs
  <2>7. k + 1 \in DOMAIN sealed[q]
    <3>1. Len(sealed[q]) % 2 = 0 /\ DOMAIN sealed[q] = 1..Len(sealed[q]) /\ Len(sealed[q]) \in Nat
      BY <1>1 DEF Pairs, IInv, TypeOK
    <3>2. k <= Len(sealed[q]) /\ k # Len(sealed[q])
      <4>. DEFINE N == Len(sealed[q])
      <4>1. k \in 1..N /\ N % 2 = 0 /\ N \in Nat
        BY <1>3, <3>1
      <4>. HIDE DEF N
      <4>2. k <= N /\ k # N
        BY <2>3, <4>1
      <4>. QED  BY <4>2 DEF N
    <3>. QED  BY <1>1, <3>1, <3>2
  <2>8. Len(sealed[q][k + 1].plain) \in Nat
    <3>1. sealed[q][k + 1] \in Ciphertext
      BY <1>1, <2>7 DEF IInv, TypeOK
    <3>. QED  BY <3>1 DEF Ciphertext
  <2>9. length'[p] = Len(sealed[q][k + 1].plain)
    BY <2>1, <2>6, <2>8, LengthSurvives, MaxSizeType
  <2>. QED  BY <1>4, <2>1, <2>3, <2>5, <2>9 DEF k
<1>9. CASE stage[p] = "payload"
  <2>1. stage'[p] = "length" /\ rx'[p] = RotateKey(s)
    BY <1>2, <1>9
  <2>2. (k - 1) % 2 = 1
    BY <1>9, <1>10 DEF InStep
  <2>3. k % 2 = 0
    BY <1>1, <2>2
  <2>4. s.nonce <= KeyRotationInterval
    BY <1>5, <1>6, <1>7
  <2>5. RotateKey(s).nonce < KeyRotationInterval
    BY <1>6, <2>4, RotateFacts
  <2>. QED  BY <1>4, <2>1, <2>3, <2>5 DEF k
<1>. QED  BY <1>2, <1>8, <1>9

LEMMA InStepStep ==
    ASSUME IInv, Frames, Unread, Pairs, InStep, [Next]_vars
    PROVE  InStep'
<1>. SUFFICES ASSUME NEW r \in Peers, failed'[r] = {}
              PROVE  LET q == Other(r) IN
                     /\ StartsAfter(wire'[q], Len(opened'[r]))
                     /\ (~closed'[q] /\ wire'[q] = <<>>) => Len(opened'[r]) = Len(sealed'[q])
                     /\ rx'[r].nonce < KeyRotationInterval
                     /\ stage'[r] # "down"
                     /\ stage'[r] = "length" => Len(opened'[r]) % 2 = 0
                     /\ stage'[r] = "payload" =>
                           /\ Len(opened'[r]) % 2 = 1
                           /\ length'[r] = Len(sealed'[q][Len(opened'[r]) + 1].plain)
  BY DEF InStep, StartsAfter, Place, Position
<1>. DEFINE q == Other(r)
            k == Len(opened[r])
            N == Len(sealed[q])
            Goal == /\ StartsAfter(wire'[q], Len(opened'[r]))
                    /\ (~closed'[q] /\ wire'[q] = <<>>) => Len(opened'[r]) = Len(sealed'[q])
                    /\ rx'[r].nonce < KeyRotationInterval
                    /\ stage'[r] # "down"
                    /\ stage'[r] = "length" => Len(opened'[r]) % 2 = 0
                    /\ stage'[r] = "payload" =>
                           /\ Len(opened'[r]) % 2 = 1
                           /\ length'[r] = Len(sealed'[q][Len(opened'[r]) + 1].plain)
<1>0. q \in Peers /\ k \in Nat /\ N \in Nat /\ k <= N /\ wire[q] \in Seq(Unit)
  BY PeersFacts DEF IInv, TypeOK, OpenedLog
<1>1. ASSUME failed[r] = {}
      PROVE  /\ StartsAfter(wire[q], k)
             /\ (~closed[q] /\ wire[q] = <<>>) => k = N
             /\ rx[r].nonce < KeyRotationInterval
             /\ stage[r] # "down"
             /\ stage[r] = "length" => k % 2 = 0
             /\ stage[r] = "payload" => k % 2 = 1 /\ length[r] = Len(sealed[q][k + 1].plain)
  BY <1>1 DEF InStep
<1>2. ASSUME NEW p \in Peers, NEW m \in Messages, Encrypt(p, m)
      PROVE  Goal
  <2>1. UNCHANGED <<rx, stage, length, closed, opened, failed>>
    BY <1>2, EncryptOthers
  <2>2. CASE q # p
    <3>1. wire'[q] = wire[q] /\ sealed'[q] = sealed[q]
      BY <1>0, <1>2, <2>2, EncryptOthers
    <3>. QED  BY <1>1, <2>1, <3>1
  <2>3. CASE q = p
    <3>1. /\ Len(sealed'[q]) = N + 2
          /\ \A j \in DOMAIN sealed[q] : sealed'[q][j] = sealed[q][j]
          /\ closed[q] => wire'[q] = wire[q]
          /\ ~closed[q] => wire'[q] # <<>>
          /\ wire[q] # <<>> => wire'[q] # <<>> /\ wire'[q][1] = wire[q][1]
          /\ wire[q] = <<>> => StartsAfter(wire'[q], N)
      BY <1>2, <2>3, EncryptEffect
    <3>2. StartsAfter(wire'[q], k)
      <4>1. CASE wire[q] # <<>>
        BY <1>1, <2>1, <3>1, <4>1 DEF StartsAfter
      <4>2. CASE wire[q] = <<>> /\ closed[q]
        BY <3>1, <4>2 DEF StartsAfter
      <4>3. CASE wire[q] = <<>> /\ ~closed[q]
        BY <1>1, <2>1, <3>1, <4>3
      <4>. QED  BY <4>1, <4>2, <4>3
    <3>3. ASSUME k % 2 = 1 PROVE sealed'[q][k + 1] = sealed[q][k + 1]
      <4>1. N % 2 = 0 /\ DOMAIN sealed[q] = 1..N
        BY <1>0 DEF Pairs, IInv, TypeOK
      <4>2. k + 1 \in DOMAIN sealed[q]
        <5>. HIDE DEF k, N
        <5>1. k # N
          BY <3>3, <4>1
        <5>. QED  BY <1>0, <4>1, <5>1
      <4>. QED  BY <3>1, <4>2
    <3>. QED  BY <1>1, <2>1, <3>1, <3>2, <3>3
  <2>. QED  BY <2>2, <2>3
<1>3. ASSUME NEW p \in Peers, Receive(p)
      PROVE  Goal
  <2>0. sealed' = sealed /\ (closed[q] => closed'[q])
    BY <1>0, <1>3, ReceiveShape
  <2>1. CASE r # p
    <3>1. /\ opened'[r] = opened[r] /\ failed'[r] = failed[r] /\ rx'[r] = rx[r]
          /\ stage'[r] = stage[r] /\ length'[r] = length[r]
      BY <1>3, <2>1, ReceiveCases
    <3>2. q # Other(p)
      BY <2>1, PeersFacts
    <3>3. wire'[q] = wire[q]
      BY <1>0, <1>3, <3>2, ReceiveShape, Consumed
    <3>. QED  BY <1>1, <2>0, <3>1, <3>3
  <2>2. CASE r = p /\ Opening(p)
    <3>1. /\ Reading(p) /\ Available(p) >= Wanted(p) /\ Opens(rx[p], Incoming(p))
          /\ Consume(p, Wanted(p)) /\ failed' = failed /\ closed' = closed
      BY <2>2 DEF Opening
    <3>2. failed[p] = {}
      BY <2>2, <3>1
    <3>3. /\ StartsAfter(wire'[q], k + 1)
          /\ (~closed[q] /\ wire'[q] = <<>>) => N = k + 1
      BY <2>2, <3>1, AfterOpening
    <3>4. /\ Len(opened'[p]) = k + 1
          /\ rx'[p].nonce < KeyRotationInterval
          /\ stage'[p] # "down"
          /\ stage'[p] = "length" => (k + 1) % 2 = 0
          /\ stage'[p] = "payload" =>
                (k + 1) % 2 = 1 /\ length'[p] = Len(sealed[q][k + 1 + 1].plain)
      BY <2>2, <3>2, OpeningStaysInStep
    <3>. QED  BY <2>0, <2>2, <3>1, <3>3, <3>4
  <2>3. CASE r = p /\ (Refusing(p) \/ Failing(p))
    <3>1. failed'[p] # {}
      BY <2>3 DEF Refusing, Failing
    <3>. QED  BY <2>3, <3>1
  <2>. QED  BY <1>3, <2>1, <2>2, <2>3, ReceiveCases
<1>4. ASSUME NEW p \in Peers, Corrupt(p) \/ Break(p)
      PROVE  Goal
  <2>1. /\ UNCHANGED <<rx, stage, length, sealed, opened, failed>>
        /\ wire'[q] \in Seq(Unit) /\ Slice(wire'[q], wire[q], 0)
        /\ closed[q] => closed'[q]
        /\ ~closed'[q] => Len(wire'[q]) = Len(wire[q])
    BY <1>0, <1>4, FaultShape
  <2>2. \A i \in DOMAIN wire'[q] : /\ 0 + i \in DOMAIN wire[q]
                                   /\ Place(wire'[q][i]) = Place(wire[q][0 + i])
                                   /\ wire'[q][i].at = wire[q][0 + i].at
    BY <1>0, <2>1, SliceFacts
  <2>3. StartsAfter(wire'[q], k)
    <3>. SUFFICES ASSUME wire'[q] # <<>>
                  PROVE  wire'[q][1].at = 1 /\ Place(wire'[q][1]) = k
      BY DEF StartsAfter
    <3>1. 1 \in DOMAIN wire'[q] /\ 0 + 1 = 1
      BY <2>1
    <3>2. 1 \in DOMAIN wire[q] /\ wire[q] # <<>>
      BY <1>0, <2>2, <3>1
    <3>3. wire[q][1].at = 1 /\ Place(wire[q][1]) = k
      BY <1>1, <2>1, <3>2 DEF StartsAfter
    <3>. QED  BY <2>2, <3>1, <3>3
  <2>4. (~closed'[q] /\ wire'[q] = <<>>) => wire[q] = <<>>
    BY <1>0, <2>1
  <2>. QED  BY <1>1, <2>1, <2>3, <2>4
<1>5. CASE UNCHANGED vars
  BY <1>1, <1>5 DEF vars
<1>. QED  BY <1>2, <1>3, <1>4, <1>5 DEF Next
\* Only a fault damages a unit.
LEMMA UndamagedStep ==
    ASSUME IInv, Frames, Undamaged, [Next]_vars
    PROVE  Undamaged'
<1>. SUFFICES ASSUME faults' = 0, NEW r \in Peers, NEW i \in DOMAIN wire'[r]
              PROVE  wire'[r][i].intact
  BY DEF Undamaged
<1>1. ASSUME faults = 0
      PROVE  \A j \in DOMAIN wire[r] : wire[r][j].intact
  BY <1>1 DEF Undamaged
<1>2. ASSUME NEW p \in Peers, NEW m \in Messages, Encrypt(p, m)
      PROVE  wire'[r][i].intact
  <2>1. faults = 0
    BY <1>2, EncryptOthers
  <2>2. CASE r = p
    <3>1. \/ i \in DOMAIN wire[r] /\ wire'[r][i] = wire[r][i]
          \/ wire'[r][i].intact
      BY <1>2, <2>2, EncryptEffect
    <3>. QED  BY <1>1, <2>1, <3>1
  <2>3. CASE r # p
    BY <1>1, <1>2, <2>1, <2>3, EncryptOthers
  <2>. QED  BY <2>2, <2>3
<1>3. ASSUME NEW p \in Peers, Receive(p)
      PROVE  wire'[r][i].intact
  <2>1. faults = 0
    BY <1>3, ReceiveShape
  <2>2. PICK n \in 0..Available(p) : Consume(p, n)
    BY <1>3, ReceiveShape
  <2>3. CASE r = Other(p)
    <3>1. n + i \in DOMAIN wire[r] /\ wire'[r][i] = wire[r][n + i]
      BY <2>2, <2>3, Consumed
    <3>. QED  BY <1>1, <2>1, <3>1
  <2>4. CASE r # Other(p)
    <3>1. wire'[r] = wire[r]
      BY <2>2, <2>4, Consumed
    <3>. QED  BY <1>1, <2>1, <3>1
  <2>. QED  BY <2>3, <2>4
<1>4. ASSUME NEW p \in Peers, Corrupt(p) \/ Break(p)
      PROVE  FALSE
  BY <1>4, FaultShape
<1>5. CASE UNCHANGED vars
  BY <1>1, <1>5 DEF vars
<1>. QED  BY <1>2, <1>3, <1>4, <1>5 DEF Next

\* A tag is refused where a reader is out of step or a fault was before.
LEMMA CauseStep ==
    ASSUME FInv, [Next]_vars
    PROVE  MacFailureHasCause'
<1>. SUFFICES ASSUME NEW r \in Peers, "mac" \in failed'[r], ~(faults' > 0), "io" \notin failed'[r]
              PROVE  FALSE
  BY DEF MacFailureHasCause
<1>1. /\ IInv /\ Frames /\ Unread /\ Pairs /\ InStep /\ Undamaged
      /\ "mac" \in failed[r] => faults > 0 \/ "io" \in failed[r]
      /\ failed[r] \subseteq {"mac", "io"}
      /\ faults \in Nat
  BY BoundAssumption DEF FInv, MacFailureHasCause, IInv, TypeOK
<1>2. CASE UNCHANGED <<failed, faults>>
  BY <1>1, <1>2
<1>3. ASSUME NEW p \in Peers, Receive(p)
      PROVE  FALSE
  <2>1. faults' = faults /\ faults = 0
    BY <1>1, <1>3, ReceiveShape
  <2>2. CASE r # p
    BY <1>1, <1>3, <2>1, <2>2, ReceiveCases
  <2>3. CASE r = p /\ Opening(p)
    BY <1>1, <2>1, <2>3 DEF Opening
  <2>4. CASE r = p /\ Failing(p)
    BY <2>4 DEF Failing
  <2>5. CASE r = p /\ Refusing(p)
    <3>1. /\ failed'[p] = failed[p] \cup {"mac"} /\ ~Opens(rx[p], Incoming(p))
          /\ Available(p) >= Wanted(p)
      BY <2>5 DEF Refusing
    <3>2. failed[p] = {}
      BY <1>1, <2>1, <2>5, <3>1
    <3>. QED  BY <1>1, <2>1, <3>1, <3>2, OpensInStep
  <2>. QED  BY <1>1, <1>3, <2>2, <2>3, <2>4, <2>5, ReceiveCases
<1>4. ASSUME NEW p \in Peers, Corrupt(p) \/ Break(p)
      PROVE  FALSE
  BY <1>1, <1>4, FaultShape
<1>5. ASSUME NEW p \in Peers, NEW m \in Messages, Encrypt(p, m)
      PROVE  UNCHANGED <<failed, faults>>
  BY <1>1, <1>5, EncryptOthers
<1>. QED  BY <1>2, <1>3, <1>4, <1>5 DEF Next, vars

LEMMA InitFInv == Init => FInv
<1>. SUFFICES ASSUME Init PROVE FInv
  OBVIOUS
<1>1. IInv
  BY InitIInv
<1>2. \A p \in Peers : /\ wire[p] = <<>> /\ failed[p] = {} /\ sealed[p] = <<>> /\ opened[p] = <<>>
                       /\ rx[p] = Fresh(RecvHalf(p)) /\ stage[p] = "length"
                       /\ Other(p) \in Peers
  BY PeersFacts DEF Init
<1>3. Frames
  <2>1. Framed(<<>>) /\ Ordered(<<>>) /\ \A n : EndsWith(<<>>, n)
    BY DEF Framed, Ordered, EndsWith
  <2>. QED  BY <1>2, <2>1 DEF Frames
<1>4. Unread
  BY <1>2 DEF Unread
<1>5. Refused /\ MacFailureHasCause
  BY <1>2 DEF Refused, MacFailureHasCause
<1>6. Pairs
  <2>1. Len(<<>>) = 0 /\ 0 % 2 = 0 /\ DOMAIN <<>> = {}
    OBVIOUS
  <2>. QED  BY <1>2, <2>1 DEF Pairs
<1>7. InStep
  <2>1. \A n : StartsAfter(<<>>, n)
    BY DEF StartsAfter
  <2>2. \A p \in Peers : rx[p].nonce < KeyRotationInterval
    <3>1. \A half : Fresh(half).nonce = 0
      BY DEF Fresh
    <3>2. \A p \in Peers : rx[p].nonce = 0
      BY <1>2, <3>1
    <3>. QED  BY <3>2, IntervalAssumption
  <2>3. Len(<<>>) = 0 /\ 0 % 2 = 0
    OBVIOUS
  <2>. SUFFICES ASSUME NEW p \in Peers
                PROVE  /\ StartsAfter(wire[Other(p)], Len(opened[p]))
                       /\ Len(opened[p]) = Len(sealed[Other(p)])
                       /\ rx[p].nonce < KeyRotationInterval
                       /\ stage[p] = "length" /\ Len(opened[p]) % 2 = 0
    BY DEF InStep
  <2>4. wire[Other(p)] = <<>> /\ sealed[Other(p)] = <<>> /\ opened[p] = <<>>
    BY <1>2
  <2>. QED  BY <1>2, <2>1, <2>2, <2>3, <2>4
<1>8. Undamaged
  BY <1>2 DEF Undamaged
<1>. QED  BY <1>1, <1>3, <1>4, <1>5, <1>6, <1>7, <1>8 DEF FInv

LEMMA NextFInv == FInv /\ [Next]_vars => FInv'
<1>. SUFFICES ASSUME FInv, [Next]_vars PROVE FInv'
  OBVIOUS
<1>1. /\ IInv /\ Frames /\ Unread /\ Refused /\ Pairs /\ InStep /\ Undamaged
      /\ MacFailureHasCause
  BY DEF FInv
<1>2. IInv'
  BY <1>1, NextIInv
<1>3. Frames' /\ Pairs'
  BY <1>1, FramesStep, PairsStep
<1>4. Unread' /\ Refused'
  BY <1>1, UnreadStep
<1>5. InStep'
  BY <1>1, InStepStep
<1>6. Undamaged' /\ MacFailureHasCause'
  BY <1>1, UndamagedStep, CauseStep
<1>. QED  BY <1>2, <1>3, <1>4, <1>5, <1>6 DEF FInv

-----------------------------------------------------------------------------
(***************************************************************************)
(* Theorems                                                                *)
(***************************************************************************)

\* The frames of both directions, at every moment.
THEOREM FramesHold == Spec => []FInv
BY InitFInv, NextFInv, PTL DEF Spec

\* A tag is refused only after a fault of the connection or a failed read:
\* Encrypt and Decrypt never disagree on where a ciphertext begins, under
\* which key and nonce it is, or how long it is.
THEOREM RefusalHasCause == Spec => []MacFailureHasCause
<1>1. FInv => MacFailureHasCause
  BY DEF FInv
<1>. QED  BY <1>1, FramesHold, PTL

\* A reader that met no error and has nothing left to read is at the sender's
\* key and nonce: both rotate at the same message.
THEOREM BothRotateInStep == Spec => []RotateInStep
<1>1. FInv => RotateInStep
  <2>. SUFFICES ASSUME FInv, NEW p \in Peers, wire[Other(p)] = <<>>, ~closed[Other(p)],
                       failed[p] = {}
                PROVE  rx[p] = tx[Other(p)]
    BY DEF RotateInStep
  <2>. DEFINE q == Other(p)
              s == rx[p]
              t == tx[q]
  <2>1. IInv /\ InStep /\ q \in Peers
    BY PeersFacts DEF FInv
  <2>2. Len(opened[p]) = Len(sealed[q]) /\ s.nonce < KeyRotationInterval
    BY <2>1 DEF InStep
  <2>3. /\ s \in CipherState /\ t \in CipherState /\ t.nonce < KeyRotationInterval
        /\ Position(s) = Len(opened[p]) /\ Position(t) = Len(sealed[q])
        /\ s.key.half = RecvHalf(p) /\ t.key.half = SendHalf(q)
    BY <2>1 DEF IInv, TypeOK, OpenedLog, SealedLog
  <2>4. SendHalf(q) = RecvHalf(p)
    BY PeersFacts
  <2>. HIDE DEF s, t
  <2>5. s.key \in Key /\ t.key \in Key /\ s.nonce \in Nat /\ t.nonce \in Nat
    BY <2>3 DEF CipherState
  <2>6. s.key = t.key /\ s.nonce = t.nonce
    BY <2>2, <2>3, <2>4, <2>5, SameState
  <2>7. s = t
    BY <2>3, <2>6 DEF CipherState
  <2>. QED  BY <2>7 DEF s, t
<1>. QED  BY <1>1, FramesHold, PTL

\* After a refused tag Decrypt returns no message again, whatever its caller
\* does: the beginning of the ciphertext it waits for is off the wire.
THEOREM RefusalIsFinal == Spec => MacFailureIsFinal
<1>1. FInv /\ [Next]_vars
        => [\A p \in Peers : "mac" \in failed[p] => delivered'[p] = delivered[p]]_vars
  <2>. SUFFICES ASSUME FInv, Next, NEW r \in Peers, "mac" \in failed[r]
                PROVE  delivered'[r] = delivered[r]
    OBVIOUS
  <2>1. IInv /\ Frames /\ Unread
    BY DEF FInv
  <2>2. ASSUME NEW p \in Peers, Receive(p)
        PROVE  delivered'[r] = delivered[r]
    <3>1. CASE r = p /\ Opening(p)
      <4>1. "mac" \notin failed[p]
        BY <2>1, <3>1, AfterOpening DEF Opening
      <4>. QED  BY <3>1, <4>1
    <3>2. CASE r = p /\ (Refusing(p) \/ Failing(p))
      BY <3>2 DEF Refusing, Failing
    <3>. QED  BY <2>1, <2>2, <3>1, <3>2, ReceiveCases
  <2>3. ASSUME NEW p \in Peers, Corrupt(p) \/ Break(p)
        PROVE  delivered'[r] = delivered[r]
    BY <2>1, <2>3, FaultShape
  <2>4. ASSUME NEW p \in Peers, NEW m \in Messages, Encrypt(p, m)
        PROVE  delivered'[r] = delivered[r]
    BY <2>1, <2>4, EncryptOthers
  <2>. QED  BY <2>2, <2>3, <2>4 DEF Next
<1>. QED  BY <1>1, FramesHold, PTL DEF Spec, MacFailureIsFinal
=============================================================================
