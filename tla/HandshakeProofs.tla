-------------------------- MODULE HandshakeProofs --------------------------
(* Proofs about Handshake, for any nodes, connections and number of errors. *)
EXTENDS Handshake, SequenceFacts

(***************************************************************************)
(* The transcript of a handshake: what initiator i, who dials the node R   *)
(* and is L, and responder r have mixed and sealed after each act.         *)
(***************************************************************************)
KeyOne(i, R) == <<ECDH(i, R)>>

KeyTwo(i, R, r) == <<ECDH(i, R), ECDH(r, i)>>

KeyThree(i, R, r, L) == <<ECDH(i, R), ECDH(r, i), ECDH(L, r)>>

SealOne(i, R) ==
    [key |-> KeyOne(i, R), nonce |-> 0, ad |-> <<Pub(R), Pub(i)>>, plain |-> None]

HashOne(i, R) == <<Pub(R), Pub(i), SealOne(i, R)>>

HashAnswer(i, R, r) == <<Pub(R), Pub(i), SealOne(i, R), Pub(r)>>

SealTwo(i, R, r) ==
    [key |-> KeyTwo(i, R, r), nonce |-> 0,
     ad |-> <<Pub(R), Pub(i), SealOne(i, R), Pub(r)>>, plain |-> None]

HashTwo(i, R, r) == <<Pub(R), Pub(i), SealOne(i, R), Pub(r), SealTwo(i, R, r)>>

\* A static key, and the tag after it, under what has been mixed so far
SealStatic(i, R, r, n, h, plain) ==
    [key |-> KeyTwo(i, R, r), nonce |-> n, ad |-> h, plain |-> plain]

SealThree(i, R, r, L, h) ==
    [key |-> KeyThree(i, R, r, L), nonce |-> 0, ad |-> h, plain |-> None]

State(h, ck, nonce, ls, re, rs) ==
    [h |-> h, ck |-> ck, nonce |-> nonce, ls |-> ls, re |-> re, rs |-> rs]

\* q is a sequence, of whatever.
IsSeq(q) == q \in Seq({q[k] : k \in DOMAIN q})

-----------------------------------------------------------------------------
(***************************************************************************)
(* The inductive invariant                                                 *)
(***************************************************************************)

\* A handshake that refused a tag in its first act received (recvOne, recvTwo)
\* has mixed a hash and a key for each, more than any tag was sealed under.
Beyond(s, hashed, keyed) ==
    LET q == hs[s] IN
    /\ q = State(q.h, q.ck, 0, q.ls, q.re, q.rs)
    /\ IsSeq(q.h) /\ IsSeq(q.ck)
    /\ Len(q.h) > hashed /\ Len(q.h) + keyed = Len(q.ck) + hashed
    /\ q.re \in Handshakes

\* Responder r has sent act two to initiator i.
Answered(r, i) ==
    /\ r \in Responders /\ i \in Initiators
    /\ phase[r] \in {"recvThree", "done"}
    /\ hs[r].re = i /\ hs[r].ls = hs[i].rs

\* After act two, s has mixed one item for each nonce: the tag of act two and
\* the static keys sealed or opened in vain.
Going(s) ==
    LET q == hs[s] IN
    /\ IsSeq(q.h)
    /\ q.nonce \in 1..(MaxOdd + 1) /\ Len(q.h) = 4 + q.nonce

Gone(s) == IsSeq(hs[s].h) /\ Len(hs[s].h) \in 7..(7 + MaxOdd)

InitiatorState(i) ==
    LET q == hs[i] IN
    /\ q.ls \in Nodes /\ q.rs \in Nodes
    /\ phase[i] \in {"genOne", "recvTwo", "genThree", "done"}
    /\ i \in poisoned => phase[i] = "recvTwo" /\ Beyond(i, 3, 1)
    /\ phase[i] = "genOne" => q = State(<<Pub(q.rs)>>, <<>>, 0, q.ls, None, q.rs)
    /\ phase[i] = "recvTwo" /\ i \notin poisoned =>
         q = State(HashOne(i, q.rs), KeyOne(i, q.rs), 1, q.ls, None, q.rs)
    /\ phase[i] \in {"genThree", "done"} => Answered(q.re, i)
    /\ phase[i] = "genThree" =>
         Going(i) /\ q = State(q.h, KeyTwo(i, q.rs, q.re), q.nonce, q.ls, q.re, q.rs)
    /\ phase[i] = "done" =>
         Gone(i) /\ q = State(q.h, KeyThree(i, q.rs, q.re, q.ls), 1, q.ls, q.re, q.rs)

\* Initiator i, who is L, has sent act three to responder r.
Finished(i, r, L) ==
    /\ i \in Initiators /\ phase[i] = "done"
    /\ hs[i].re = r /\ hs[i].ls = L

ResponderState(r) ==
    LET q == hs[r] IN
    /\ q.ls \in Nodes
    /\ phase[r] \in {"recvOne", "genTwo", "recvThree", "done"}
    /\ r \in poisoned => phase[r] \in {"recvOne", "recvThree"}
    /\ phase[r] \in {"recvOne", "genTwo"} => q.rs = None
    /\ phase[r] = "recvOne" =>
         IF r \in poisoned THEN Beyond(r, 1, 0)
                           ELSE q = State(<<Pub(q.ls)>>, <<>>, 0, q.ls, None, None)
    /\ phase[r] # "recvOne" => q.re \in Initiators /\ hs[q.re].rs = q.ls
    /\ phase[r] = "genTwo" =>
         q = State(HashOne(q.re, q.ls), KeyOne(q.re, q.ls), 1, q.ls, q.re, None)
    /\ phase[r] = "recvThree" /\ r \notin poisoned =>
         Going(r) /\ q = State(q.h, KeyTwo(q.re, q.ls, r), q.nonce, q.ls, q.re, None)
    /\ phase[r] = "recvThree" /\ r \in poisoned =>
         /\ q.re \in Foreign \/ Finished(q.re, r, q.rs)
         /\ q.rs \in Nodes
         /\ q = State(q.h, KeyThree(q.re, q.ls, r, q.rs), 0, q.ls, q.re, q.rs)
    /\ phase[r] = "done" =>
         /\ Finished(q.re, r, q.rs) /\ hs[q.re].h = q.h
         /\ q = State(q.h, KeyThree(q.re, q.ls, r, q.rs), 1, q.ls, q.re, q.rs)

Sessions ==
    /\ hs = [s \in Handshakes |-> hs[s]]
    /\ \A i \in Initiators : InitiatorState(i)
    /\ \A r \in Responders : ResponderState(r)

\* The network holds what the handshakes have sealed, each act once.
Sent50(a) ==
    \/ \E i \in Initiators :
          a = [version |-> 0, key |-> i, tag |-> SealOne(i, hs[i].rs)]
    \/ \E r \in Responders :
          /\ Answered(r, hs[r].re)
          /\ a = [version |-> 0, key |-> r, tag |-> SealTwo(hs[r].re, hs[r].ls, r)]

\* A static key c sealed by initiator i is found again in its hash, at the place
\* its nonce gives.
Statics(i, c) ==
    LET q == hs[i] IN
    /\ c = SealStatic(i, q.rs, q.re, c.nonce, c.ad, c.plain)
    /\ c.nonce \in 1..(MaxOdd + 1) /\ c.plain \in Nodes \cup {Unparsable}
    /\ 5 + c.nonce <= Len(q.h) /\ q.h[5 + c.nonce] = c

\* With a static key of its choice goes no tag; with its own, the last item of
\* its hash.
Odd(i, a) == i \in Foreign /\ a.tag = Garbage /\ a.static.nonce <= MaxOdd

Last(i, a) ==
    LET q == hs[i] IN
    /\ phase[i] = "done" /\ a.static.plain = q.ls
    /\ a.tag = SealThree(i, q.rs, q.re, q.ls, Append(a.static.ad, a.static))
    /\ q.h = Append(Append(a.static.ad, a.static), a.tag) /\ q.h[Len(q.h)] = a.tag

Sent66(a) ==
    /\ a = [version |-> 0, static |-> a.static, tag |-> a.tag]
    /\ \E i \in Initiators :
          /\ phase[i] \in {"genThree", "done"}
          /\ Statics(i, a.static)
          /\ Odd(i, a) \/ Last(i, a)

Network ==
    /\ \A a \in net50 : Sent50(a)
    /\ \A a \in net66 : Sent66(a)

Counted ==
    /\ phase \in [Handshakes -> Phases]
    /\ errors \in [Handshakes -> 0..MaxErrors]
    /\ poisoned \subseteq Handshakes

IInv == Counted /\ Sessions /\ Network

-----------------------------------------------------------------------------
(***************************************************************************)
(* Lemmas about the operators                                              *)
(***************************************************************************)

\* What the operations of symmetricState make of a state
LEMMA StateHash ==
    ASSUME NEW h, NEW ck, NEW n, NEW ls, NEW re, NEW rs, NEW data
    PROVE  MixHash(State(h, ck, n, ls, re, rs), data)
             = State(Append(h, data), ck, n, ls, re, rs)
<1>. DEFINE q == State(h, ck, n, ls, re, rs)
            longer == Append(h, data)
<1>1. q.h = h
  BY DEF State
<1>2. MixHash(q, data) = [q EXCEPT !.h = longer]
  BY <1>1, Zenon DEF MixHash
<1>. HIDE DEF longer
<1>3. [q EXCEPT !.h = longer] = State(longer, ck, n, ls, re, rs)
  BY DEF State
<1>. QED  BY <1>2, <1>3 DEF longer

LEMMA StateKey ==
    ASSUME NEW h, NEW ck, NEW n, NEW ls, NEW re, NEW rs, NEW dh
    PROVE  MixKey(State(h, ck, n, ls, re, rs), dh)
             = State(h, Append(ck, dh), 0, ls, re, rs)
<1>. DEFINE q == State(h, ck, n, ls, re, rs)
            longer == Append(ck, dh)
<1>1. q.ck = ck
  BY DEF State
<1>2. MixKey(q, dh) = [q EXCEPT !.ck = longer, !.nonce = 0]
  BY <1>1, Zenon DEF MixKey
<1>. HIDE DEF longer
<1>3. [q EXCEPT !.ck = longer, !.nonce = 0] = [[q EXCEPT !.ck = longer] EXCEPT !.nonce = 0]
  BY Zenon
<1>4. [q EXCEPT !.ck = longer] = State(h, longer, n, ls, re, rs)
  BY DEF State
<1>5. [State(h, longer, n, ls, re, rs) EXCEPT !.nonce = 0] = State(h, longer, 0, ls, re, rs)
  BY DEF State
<1>6. MixKey(q, dh) = State(h, longer, 0, ls, re, rs)
  BY <1>2, <1>3, <1>4, <1>5, Zenon
<1>. QED  BY <1>6 DEF longer

LEMMA StateMixed ==
    ASSUME NEW h, NEW ck, NEW n \in Nat, NEW ls, NEW re, NEW rs, NEW c
    PROVE  Mixed(State(h, ck, n, ls, re, rs), c)
             = State(Append(h, c), ck, n + 1, ls, re, rs)
<1>1. [State(h, ck, n, ls, re, rs) EXCEPT !.nonce = @ + 1] = State(h, ck, n + 1, ls, re, rs)
  BY DEF State
<1>2. Mixed(State(h, ck, n, ls, re, rs), c) = MixHash(State(h, ck, n + 1, ls, re, rs), c)
  BY <1>1, Zenon DEF Mixed
<1>. QED  BY <1>2, StateHash

LEMMA StateSealed ==
    ASSUME NEW h, NEW ck, NEW n, NEW ls, NEW re, NEW rs, NEW plain
    PROVE  Sealed(State(h, ck, n, ls, re, rs), plain)
             = [key |-> ck, nonce |-> n, ad |-> h, plain |-> plain]
BY DEF Sealed, State

LEMMA StateRemote ==
    ASSUME NEW h, NEW ck, NEW n, NEW ls, NEW re, NEW rs, NEW k
    PROVE  /\ [State(h, ck, n, ls, re, rs) EXCEPT !.re = k] = State(h, ck, n, ls, k, rs)
           /\ [State(h, ck, n, ls, re, rs) EXCEPT !.rs = k] = State(h, ck, n, ls, re, k)
BY DEF State

\* A new ephemeral key is mixed and nothing sealed, or nothing opened.
LEMMA StateKeyed ==
    ASSUME NEW h, NEW ck, NEW n, NEW ls, NEW re, NEW rs, NEW k, NEW dh
    PROVE  MixKey(MixHash(State(h, ck, n, ls, re, rs), Pub(k)), dh)
             = State(Append(h, Pub(k)), Append(ck, dh), 0, ls, re, rs)
BY StateHash, StateKey

\* Whatever is appended, a sequence grows by one.
LEMMA IsSeqAppend ==
    ASSUME NEW q, IsSeq(q), NEW e
    PROVE  /\ IsSeq(Append(q, e)) /\ Len(Append(q, e)) = Len(q) + 1 /\ Len(q) \in Nat
           /\ \A k \in 1..Len(q) : Append(q, e)[k] = q[k]
           /\ Append(q, e)[Len(q) + 1] = e
<1>. DEFINE S == {q[k] : k \in DOMAIN q} \cup {e}
            t == Append(q, e)
<1>1. q \in Seq(S)
  BY SeqMonotonic, {q[k] : k \in DOMAIN q} \subseteq S DEF IsSeq
<1>2. /\ t \in Seq(S) /\ Len(t) = Len(q) + 1
      /\ \A k \in 1..Len(q) : t[k] = q[k]
      /\ t[Len(q) + 1] = e
  BY <1>1, AppendProperties
<1>. HIDE DEF t, S
<1>3. t \in Seq({t[k] : k \in DOMAIN t})
  <2>. DEFINE T == {t[k] : k \in DOMAIN t}
  <2>1. DOMAIN t = 1..Len(t) /\ Len(t) \in Nat /\ t \in [1..Len(t) -> S]
    BY <1>2, LenProperties
  <2>2. t \in [1..Len(t) -> T]
    BY <2>1
  <2>. QED  BY <2>1, <2>2, SeqDef
<1>. QED  BY <1>1, <1>2, <1>3 DEF IsSeq, t

LEMMA IsSeqTuples ==
    /\ IsSeq(<<>>) /\ Len(<<>>) = 0
    /\ \A a : IsSeq(<<a>>) /\ Len(<<a>>) = 1
    /\ \A a, b, c : IsSeq(<<a, b, c>>) /\ Len(<<a, b, c>>) = 3
    /\ \A a, b, c, d, e : IsSeq(<<a, b, c, d, e>>) /\ Len(<<a, b, c, d, e>>) = 5
BY DEF IsSeq
-----------------------------------------------------------------------------
(***************************************************************************)
(* What a call does to its own handshake                                   *)
(***************************************************************************)

\* The errors that s has returned: none more, or one more below the bound.
Tried(s) ==
    \/ errors' = errors
    \/ errors[s] < MaxErrors /\ errors' = [errors EXCEPT ![s] = @ + 1]

\* GenActOne and GenActTwo
LEMMA GenStep ==
    ASSUME NEW s, NEW h, NEW ck, NEW n, NEW ls, NEW re, NEW rs,
           hs[s] = State(h, ck, n, ls, re, rs),
           NEW remote, NEW next, GenEphemeralAct(s, remote, next),
           NEW c, c = [key |-> Append(ck, ECDH(s, remote)), nonce |-> 0,
                       ad |-> Append(h, Pub(s)), plain |-> None]
    PROVE  /\ Become(s, State(Append(Append(h, Pub(s)), c), Append(ck, ECDH(s, remote)),
                              1, ls, re, rs), next)
           /\ net50' = net50 \cup {[version |-> 0, key |-> s, tag |-> c]}
           /\ UNCHANGED <<net66, errors, poisoned>>
<1>. DEFINE hash  == Append(h, Pub(s))
            key   == Append(ck, ECDH(s, remote))
            keyed == MixKey(MixHash(hs[s], Pub(s)), ECDH(s, remote))
<1>1. keyed = State(hash, key, 0, ls, re, rs)
  BY StateKeyed
<1>2. c = [key |-> key, nonce |-> 0, ad |-> hash, plain |-> None]
  OBVIOUS
<1>3. /\ Become(s, EncryptAndHash(keyed, None), next)
      /\ net50' = net50 \cup {[version |-> 0, key |-> s, tag |-> Sealed(keyed, None)]}
      /\ UNCHANGED <<net66, errors, poisoned>>
  BY Zenon DEF GenEphemeralAct, Succeed
<1>. HIDE DEF keyed, hash, key
<1>4. Sealed(keyed, None) = c
  BY <1>1, <1>2, StateSealed
<1>5. EncryptAndHash(keyed, None) = State(Append(hash, c), key, 1, ls, re, rs)
  <2>1. EncryptAndHash(keyed, None) = Mixed(keyed, c)
    BY <1>4, Zenon DEF EncryptAndHash
  <2>. QED  BY <1>1, <2>1, StateMixed
<1>. QED  BY <1>3, <1>4, <1>5, Zenon DEF hash, key

\* What an act's key and then its tag make of handshake s
HashWith(s, k) == Append(hs[s].h, Pub(k))

KeyWith(s, dh) == Append(hs[s].ck, dh)

MixedIn(s, k, dh) == State(HashWith(s, k), KeyWith(s, dh), 0, hs[s].ls, k, hs[s].rs)

TakenIn(s, k, dh, c) ==
    State(Append(HashWith(s, k), c), KeyWith(s, dh), 1, hs[s].ls, k, hs[s].rs)

\* The fields of handshake s are those of a symmetricState and its keys.
Whole(s) == hs[s] = State(hs[s].h, hs[s].ck, hs[s].nonce, hs[s].ls, hs[s].re, hs[s].rs)

\* RecvActOne and RecvActTwo: the act is refused without a trace, it is
\* accepted, or its tag is refused after its key has been mixed in.
LEMMA RecvStep ==
    ASSUME NEW s, NEW act, NEW local, NEW next, Whole(s),
           RecvEphemeralAct(s, act, local, next)
    PROVE  /\ UNCHANGED <<net50, net66>> /\ Tried(s)
           /\ \/ Become(s, hs[s], phase[s]) /\ UNCHANGED poisoned
              \/ /\ act.version = 0 /\ act.key # Unparsable
                 /\ act.tag.key = KeyWith(s, ECDH(local, act.key))
                 /\ act.tag.ad = HashWith(s, act.key)
                 /\ Become(s, TakenIn(s, act.key, ECDH(local, act.key), act.tag), next)
                 /\ UNCHANGED poisoned
              \/ /\ act.version = 0 /\ act.key # Unparsable
                 /\ Become(s, MixedIn(s, act.key, ECDH(local, act.key)), phase[s])
                 /\ poisoned' = poisoned \cup {s}
<1>. DEFINE k  == act.key
            dh == ECDH(local, k)
            h  == hs[s].h
            ck == hs[s].ck
            keyed == MixKey(MixHash([hs[s] EXCEPT !.re = k], Pub(k)), dh)
<1>1. keyed = MixedIn(s, k, dh)
  <2>. DEFINE stored == [hs[s] EXCEPT !.re = k]
  <2>1. stored = State(h, ck, hs[s].nonce, hs[s].ls, k, hs[s].rs)
    BY StateRemote DEF Whole
  <2>. HIDE DEF stored
  <2>2. MixKey(MixHash(stored, Pub(k)), dh)
          = State(Append(h, Pub(k)), Append(ck, dh), 0, hs[s].ls, k, hs[s].rs)
    BY <2>1, StateKeyed
  <2>. QED  BY <2>2, Zenon DEF stored, MixedIn, HashWith, KeyWith
<1>2. DecryptAndHash(MixedIn(s, k, dh), act.tag) = TakenIn(s, k, dh, act.tag)
  <2>1. 0 + 1 = 1
    OBVIOUS
  <2>2. Mixed(State(HashWith(s, k), KeyWith(s, dh), 0, hs[s].ls, k, hs[s].rs), act.tag)
          = State(Append(HashWith(s, k), act.tag), KeyWith(s, dh), 0 + 1, hs[s].ls, k, hs[s].rs)
    BY StateMixed
  <2>. QED  BY <2>1, <2>2, Zenon DEF DecryptAndHash, MixedIn, TakenIn
<1>3. MixedIn(s, k, dh).ck = KeyWith(s, dh) /\ MixedIn(s, k, dh).h = HashWith(s, k)
  BY DEF State, MixedIn
<1>4. /\ IF act.version # 0 \/ k = Unparsable
         THEN FailClean(s)
         ELSE IF Opens(MixedIn(s, k, dh), act.tag)
              THEN Succeed(s, TakenIn(s, k, dh, act.tag), next)
              ELSE FailDirty(s, MixedIn(s, k, dh))
      /\ UNCHANGED <<net50, net66>>
  BY <1>1, <1>2, Zenon DEF RecvEphemeralAct
<1>. HIDE DEF keyed, dh, k
<1>5. CASE act.version # 0 \/ k = Unparsable
  BY <1>4, <1>5, Zenon DEF FailClean, Fail, Tried, k, dh
<1>6. CASE ~(act.version # 0 \/ k = Unparsable) /\ Opens(MixedIn(s, k, dh), act.tag)
  BY <1>3, <1>4, <1>6, Zenon DEF Opens, Succeed, Tried, k, dh
<1>7. CASE ~(act.version # 0 \/ k = Unparsable) /\ ~Opens(MixedIn(s, k, dh), act.tag)
  BY <1>4, <1>7, Zenon DEF FailDirty, Fail, Tried, k, dh
<1>. QED  BY <1>5, <1>6, <1>7, Zenon

\* What a call on s may do to the state of s, for the others to keep theirs:
\* who s is stays, and an answer or a finished handshake is not taken back.
Keeps(s, state, next) ==
    /\ state.ls = hs[s].ls
    /\ s \in Initiators => state.rs = hs[s].rs
    /\ phase[s] \in {"recvThree", "done"} =>
         next \in {"recvThree", "done"} /\ state.re = hs[s].re
    /\ phase[s] = "done" => next = "done" /\ state = hs[s]
    /\ phase[s] = "genThree" =>
         /\ next \in {"genThree", "done"} /\ state.re = hs[s].re
         /\ Len(state.h) \in Nat /\ Len(hs[s].h) <= Len(state.h)
         /\ \A k \in 1..Len(hs[s].h) : state.h[k] = hs[s].h[k]

LEMMA OthersKeep ==
    ASSUME IInv, NEW s \in Handshakes, NEW state, NEW next,
           Become(s, state, next), Keeps(s, state, next),
           poisoned' = poisoned \/ poisoned' = poisoned \cup {s}
    PROVE  /\ hs' = [t \in Handshakes |-> hs'[t]] /\ hs'[s] = state /\ phase'[s] = next
           /\ \A i \in Initiators \ {s} : InitiatorState(i)'
           /\ \A r \in Responders \ {s} : ResponderState(r)'
           /\ \A a \in net50 : Sent50(a)'
           /\ \A a \in net66 : Sent66(a)'
<1>1. /\ hs = [t \in Handshakes |-> hs[t]] /\ DOMAIN phase = Handshakes
      /\ \A i \in Initiators : InitiatorState(i)
      /\ \A r \in Responders : ResponderState(r)
      /\ \A a \in net50 : Sent50(a)
      /\ \A a \in net66 : Sent66(a)
  BY DEF IInv, Counted, Sessions, Network
<1>2. /\ hs' = [t \in Handshakes |-> hs'[t]] /\ hs'[s] = state /\ phase'[s] = next
      /\ \A t \in Handshakes \ {s} : hs'[t] = hs[t] /\ phase'[t] = phase[t]
      /\ \A t \in Handshakes \ {s} : t \in poisoned' <=> t \in poisoned
  BY <1>1 DEF Become
<1>3. /\ \A t \in Handshakes : hs'[t].ls = hs[t].ls
      /\ \A t \in Initiators : hs'[t].rs = hs[t].rs
      /\ \A t \in Handshakes : phase[t] \in {"recvThree", "done"} =>
           phase'[t] \in {"recvThree", "done"} /\ hs'[t].re = hs[t].re
      /\ \A t \in Handshakes : phase[t] = "done" =>
           phase'[t] = "done" /\ hs'[t] = hs[t]
      /\ \A t \in Handshakes : phase[t] = "genThree" =>
           /\ phase'[t] \in {"genThree", "done"} /\ hs'[t].re = hs[t].re
           /\ Len(hs[t].h) <= Len(hs'[t].h)
           /\ \A k \in 1..Len(hs[t].h) : hs'[t].h[k] = hs[t].h[k]
  <2>1. ASSUME NEW t \in Handshakes
        PROVE  /\ hs'[t].ls = hs[t].ls
               /\ t \in Initiators => hs'[t].rs = hs[t].rs
               /\ phase[t] \in {"recvThree", "done"} =>
                    phase'[t] \in {"recvThree", "done"} /\ hs'[t].re = hs[t].re
               /\ phase[t] = "done" => phase'[t] = "done" /\ hs'[t] = hs[t]
    BY <1>2 DEF Keeps
  <2>2. ASSUME NEW t \in Handshakes, phase[t] = "genThree"
        PROVE  /\ phase'[t] \in {"genThree", "done"} /\ hs'[t].re = hs[t].re
               /\ Len(hs[t].h) <= Len(hs'[t].h)
               /\ \A k \in 1..Len(hs[t].h) : hs'[t].h[k] = hs[t].h[k]
    <3>1. CASE t = s
      BY <1>2, <2>2, <3>1 DEF Keeps
    <3>2. CASE t # s
      <4>1. InitiatorState(t) /\ Going(t)
        BY <1>1, <2>2 DEF Handshakes, InitiatorState, ResponderState
      <4>2. Len(hs[t].h) \in Nat
        BY <4>1, IsSeqAppend DEF Going
      <4>. QED  BY <1>2, <2>2, <3>2, <4>2
    <3>. QED  BY <3>1, <3>2
  <2>. QED  BY <2>1, <2>2 DEF Handshakes
<1>4. \A r, i : Answered(r, i) => Answered(r, i)'
  BY <1>3 DEF Answered, Handshakes
<1>5. \A i, r, L : Finished(i, r, L) => Finished(i, r, L)'
  BY <1>3 DEF Finished, Handshakes
<1>6. ASSUME NEW t \in Handshakes \ {s}, NEW n, NEW m
      PROVE  Beyond(t, n, m)' <=> Beyond(t, n, m)
  BY <1>2 DEF Beyond
<1>61. ASSUME NEW t \in Handshakes \ {s}
       PROVE  (Going(t)' <=> Going(t)) /\ (Gone(t)' <=> Gone(t))
  BY <1>2 DEF Going, Gone
<1>7. ASSUME NEW i \in Initiators \ {s}
      PROVE  InitiatorState(i)'
  <2>1. i \in Handshakes \ {s}
    BY DEF Handshakes
  <2>2. hs'[i] = hs[i] /\ phase'[i] = phase[i] /\ (i \in poisoned' <=> i \in poisoned)
    BY <1>2, <2>1
  <2>. QED  BY <1>1, <1>4, <1>6, <1>61, <2>1, <2>2, Zenon DEF InitiatorState
<1>8. ASSUME NEW r \in Responders \ {s}
      PROVE  ResponderState(r)'
  <2>1. r \in Handshakes \ {s}
    BY DEF Handshakes
  <2>2. hs'[r] = hs[r] /\ phase'[r] = phase[r] /\ (r \in poisoned' <=> r \in poisoned)
    BY <1>2, <2>1
  <2>3. ResponderState(r)
    BY <1>1
  <2>4. phase[r] # "recvOne" => hs[r].re \in Initiators /\ hs'[hs[r].re].rs = hs'[r].ls
    BY <1>3, <2>1, <2>3 DEF ResponderState
  <2>5. phase[r] = "done" => hs'[hs[r].re].h = hs'[r].h
    BY <1>3, <2>2, <2>3 DEF ResponderState, Finished, Handshakes
  <2>. QED  BY <1>5, <1>6, <1>61, <2>1, <2>2, <2>3, <2>4, <2>5, Zenon DEF ResponderState
<1>9. ASSUME NEW a \in net50
      PROVE  Sent50(a)'
  <2>1. CASE \E i \in Initiators : a = [version |-> 0, key |-> i, tag |-> SealOne(i, hs[i].rs)]
    BY <1>3, <2>1, Zenon DEF Sent50
  <2>2. CASE \E r \in Responders :
                /\ Answered(r, hs[r].re)
                /\ a = [version |-> 0, key |-> r, tag |-> SealTwo(hs[r].re, hs[r].ls, r)]
    <3>1. PICK r \in Responders :
                /\ Answered(r, hs[r].re)
                /\ a = [version |-> 0, key |-> r, tag |-> SealTwo(hs[r].re, hs[r].ls, r)]
      BY <2>2
    <3>2. hs'[r].re = hs[r].re /\ hs'[r].ls = hs[r].ls
      BY <1>3, <3>1 DEF Answered, Handshakes
    <3>3. Answered(r, hs[r].re)'
      BY <1>3, <3>1, <3>2 DEF Answered, Handshakes
    <3>. QED  BY <3>1, <3>2, <3>3, Zenon DEF Sent50
  <2>. QED  BY <1>1, <2>1, <2>2 DEF Sent50
<1>10. ASSUME NEW a \in net66
       PROVE  Sent66(a)'
  <2>1. PICK i \in Initiators : /\ phase[i] \in {"genThree", "done"}
                                /\ Statics(i, a.static)
                                /\ Odd(i, a) \/ Last(i, a)
    BY <1>1 DEF Sent66
  <2>2. /\ hs'[i].rs = hs[i].rs /\ hs'[i].re = hs[i].re /\ hs'[i].ls = hs[i].ls
        /\ phase'[i] \in {"genThree", "done"}
        /\ phase[i] = "done" => phase'[i] = "done" /\ hs'[i] = hs[i]
    BY <1>3, <2>1 DEF Handshakes
  <2>3. Statics(i, a.static)'
    <3>1. CASE phase[i] = "done"
      BY <2>1, <2>2, <3>1, Zenon DEF Statics
    <3>2. CASE phase[i] = "genThree"
      <4>. DEFINE p == 5 + a.static.nonce
      <4>1. p <= Len(hs[i].h) /\ hs[i].h[p] = a.static /\ p \in Nat /\ p >= 1
        BY <2>1 DEF Statics
      <4>2. /\ Len(hs[i].h) <= Len(hs'[i].h) /\ Len(hs[i].h) \in Nat
            /\ \A k \in 1..Len(hs[i].h) : hs'[i].h[k] = hs[i].h[k]
        <5>1. InitiatorState(i) /\ Going(i)
          BY <1>1, <3>2 DEF InitiatorState
        <5>2. Len(hs[i].h) \in Nat
          BY <5>1, IsSeqAppend DEF Going
        <5>. QED  BY <1>3, <3>2, <5>2 DEF Handshakes
      <4>3. Len(hs'[i].h) \in Int => p <= Len(hs'[i].h)
        BY <4>1, <4>2
      <4>4. Len(hs'[i].h) \in Int
        <5>1. CASE i = s
          BY <5>1, <1>2, <3>2 DEF Keeps
        <5>2. CASE i # s
          BY <1>2, <4>2, <5>2 DEF Handshakes
        <5>. QED  BY <5>1, <5>2
      <4>5. hs'[i].h[p] = a.static
        <5>1. p \in 1..Len(hs[i].h)
          BY <4>1, <4>2
        <5>. QED  BY <4>1, <4>2, <5>1, Zenon
      <4>. HIDE DEF p
      <4>. QED  BY <2>1, <2>2, <4>3, <4>4, <4>5, Zenon DEF Statics, p
    <3>. QED  BY <2>1, <3>1, <3>2
  <2>4. (Odd(i, a) \/ Last(i, a))'
    BY <2>1, <2>2, Zenon DEF Odd, Last
  <2>5. a = [version |-> 0, static |-> a.static, tag |-> a.tag]
    BY <1>1 DEF Sent66
  <2>. QED  BY <2>2, <2>3, <2>4, <2>5, Zenon DEF Sent66
<1>. QED  BY <1>2, <1>7, <1>8, <1>9, <1>10
-----------------------------------------------------------------------------
(***************************************************************************)
(* What an act that arrives can be                                         *)
(***************************************************************************)

\* The parts of a tag
LEMMA SealOneParts ==
    \A i, R : /\ SealOne(i, R).key = KeyOne(i, R) /\ SealOne(i, R).nonce = 0
              /\ SealOne(i, R).ad = <<Pub(R), Pub(i)>>
BY DEF SealOne

LEMMA SealTwoParts ==
    \A i, R, r : /\ SealTwo(i, R, r).key = KeyTwo(i, R, r) /\ SealTwo(i, R, r).nonce = 0
                 /\ SealTwo(i, R, r).ad = <<Pub(R), Pub(i), SealOne(i, R), Pub(r)>>
BY DEF SealTwo

LEMMA SealStaticParts ==
    \A i, R, r, n, h, p : /\ SealStatic(i, R, r, n, h, p).key = KeyTwo(i, R, r)
                          /\ SealStatic(i, R, r, n, h, p).nonce = n
                          /\ SealStatic(i, R, r, n, h, p).ad = h
                          /\ SealStatic(i, R, r, n, h, p).plain = p
BY DEF SealStatic

LEMMA SealThreeParts ==
    \A i, R, r, L, h : /\ SealThree(i, R, r, L, h).key = KeyThree(i, R, r, L)
                       /\ SealThree(i, R, r, L, h).nonce = 0
                       /\ SealThree(i, R, r, L, h).ad = h
BY DEF SealThree

LEMMA GarbageParts == Garbage.key = <<>> /\ Garbage.ad = <<>>
BY DEF Garbage

\* Tuples of different lengths differ.
LEMMA TupleLengths ==
    /\ Len(<<>>) = 0
    /\ \A a : Len(<<a>>) = 1
    /\ \A a, b : Len(<<a, b>>) = 2
    /\ \A a, b, c : Len(<<a, b, c>>) = 3
    /\ \A a, b, c, d : Len(<<a, b, c, d>>) = 4
OBVIOUS

\* A public key is told by its tag in the transcript.
LEMMA PubUnique == \A a, b : Pub(a) = Pub(b) => a = b
<1>1. \A a : Pub(a).pub = a
  BY DEF Pub
<1>. QED  BY <1>1

\* The acts of 50 bytes that pass the first checks
LEMMA Acts50 ==
    ASSUME IInv, NEW a \in net50 \cup Damaged50, a.version = 0, a.key # Unparsable
    PROVE  /\ a.key \in Handshakes
           /\ a.tag = Garbage \/ \E b \in net50 : a.tag = b.tag
<1>1. ASSUME NEW b \in net50
      PROVE  b = [version |-> 0, key |-> b.key, tag |-> b.tag] /\ b.key \in Handshakes
  BY DEF IInv, Network, Sent50, Handshakes
<1>2. CASE a \in net50
  BY <1>1, <1>2
<1>3. ASSUME NEW b \in net50, NEW c \in net50, a = [b EXCEPT !.key = c.key]
      PROVE  a.key = c.key /\ a.tag = b.tag
  <2>. DEFINE k == b.key  t == b.tag
  <2>1. b = [version |-> 0, key |-> k, tag |-> t]
    BY <1>1
  <2>. HIDE DEF k, t
  <2>2. a.key = c.key /\ a.tag = t
    BY <2>1, <1>3
  <2>. QED  BY <2>2 DEF t
<1>4. ASSUME NEW b \in net50,
             a \in {[b EXCEPT !.version = 1], [b EXCEPT !.key = Unparsable],
                    [b EXCEPT !.tag = Garbage]}
      PROVE  a.key = b.key /\ a.tag = Garbage
  <2>. DEFINE k == b.key  t == b.tag
  <2>1. b = [version |-> 0, key |-> k, tag |-> t]
    BY <1>1
  <2>. HIDE DEF k, t
  <2>2. a.key = k /\ a.tag = Garbage
    BY <2>1, <1>4
  <2>. QED  BY <2>2 DEF k
<1>5. CASE a \in Damaged50
  <2>. DEFINE one == UNION {{[b EXCEPT !.version = 1], [b EXCEPT !.key = Unparsable],
                             [b EXCEPT !.tag = Garbage]} : b \in net50}
              two == {[b EXCEPT !.key = c.key] : b, c \in net50}
  <2>1. Damaged50 = one \cup two
    BY DEF Damaged50
  <2>2. ASSUME a \in one
        PROVE  a.key \in Handshakes /\ a.tag = Garbage
    BY <1>1, <1>4, <2>2
  <2>3. ASSUME a \in two
        PROVE  a.key \in Handshakes /\ \E b \in net50 : a.tag = b.tag
    BY <1>1, <1>3, <2>3
  <2>. HIDE DEF one, two
  <2>. QED  BY <1>5, <2>1, <2>2, <2>3
<1>. QED  BY <1>2, <1>5

\* The tags of such acts
LEMMA Tags50 ==
    ASSUME IInv, NEW a \in net50 \cup Damaged50, a.version = 0, a.key # Unparsable
    PROVE  \/ a.tag = Garbage
           \/ \E i \in Initiators : a.tag = SealOne(i, hs[i].rs)
           \/ \E r \in Responders :
                 Answered(r, hs[r].re) /\ a.tag = SealTwo(hs[r].re, hs[r].ls, r)
BY Acts50 DEF IInv, Network, Sent50

\* No tag was sealed under a hash and a key of other lengths.
LEMMA TagLengths ==
    /\ Len(Garbage.ad) = 0 /\ Len(Garbage.key) = 0
    /\ \A i, R : Len(SealOne(i, R).ad) = 2 /\ Len(SealOne(i, R).key) = 1
    /\ \A i, R, r : Len(SealTwo(i, R, r).ad) = 4 /\ Len(SealTwo(i, R, r).key) = 2
<1>1. Len(Garbage.ad) = 0 /\ Len(Garbage.key) = 0
  BY GarbageParts, TupleLengths
<1>2. ASSUME NEW i, NEW R
      PROVE  Len(SealOne(i, R).ad) = 2 /\ Len(SealOne(i, R).key) = 1
  BY SealOneParts, TupleLengths, Zenon DEF KeyOne
<1>3. ASSUME NEW i, NEW R, NEW r
      PROVE  Len(SealTwo(i, R, r).ad) = 4 /\ Len(SealTwo(i, R, r).key) = 2
  BY SealTwoParts, TupleLengths, Zenon DEF KeyTwo
<1>. QED  BY <1>1, <1>2, <1>3

LEMMA OpensNone ==
    ASSUME IInv, NEW a \in net50 \cup Damaged50, a.version = 0, a.key # Unparsable
    PROVE  \/ Len(a.tag.ad) = 0 /\ Len(a.tag.key) = 0
           \/ Len(a.tag.ad) = 2 /\ Len(a.tag.key) = 1
           \/ Len(a.tag.ad) = 4 /\ Len(a.tag.key) = 2
<1>1. CASE a.tag = Garbage
  BY <1>1, TagLengths
<1>2. ASSUME NEW i \in Initiators, a.tag = SealOne(i, hs[i].rs)
      PROVE  Len(a.tag.ad) = 2 /\ Len(a.tag.key) = 1
  BY <1>2, TagLengths
<1>3. ASSUME NEW r \in Responders, a.tag = SealTwo(hs[r].re, hs[r].ls, r)
      PROVE  Len(a.tag.ad) = 4 /\ Len(a.tag.key) = 2
  BY <1>3, TagLengths
<1>. QED  BY <1>1, <1>2, <1>3, Tags50

\* The hash a tag was sealed under tells whose it is.
LEMMA OpensOne ==
    ASSUME IInv, NEW a \in net50 \cup Damaged50, a.version = 0, a.key # Unparsable,
           NEW R, NEW k, a.tag.ad = <<Pub(R), Pub(k)>>
    PROVE  k \in Initiators /\ hs[k].rs = R /\ a.tag = SealOne(k, R)
<1>1. Len(a.tag.ad) = 2
  BY TupleLengths, Zenon
<1>2. PICK i \in Initiators : a.tag = SealOne(i, hs[i].rs)
  <2>0. 0 # 2 /\ 4 # 2
    OBVIOUS
  <2>1. a.tag # Garbage
    BY <1>1, <2>0, TagLengths, Zenon
  <2>2. ASSUME NEW r, a.tag = SealTwo(hs[r].re, hs[r].ls, r)
        PROVE  FALSE
    <3>1. Len(SealTwo(hs[r].re, hs[r].ls, r).ad) = 4
      BY TagLengths
    <3>. QED  BY <1>1, <2>0, <2>2, <3>1, Zenon
  <2>. QED  BY Tags50, <2>1, <2>2
<1>3. <<Pub(hs[i].rs), Pub(i)>> = <<Pub(R), Pub(k)>>
  BY <1>2, SealOneParts, Zenon
<1>4. Pub(hs[i].rs) = Pub(R) /\ Pub(i) = Pub(k)
  BY <1>3
<1>. QED  BY <1>2, <1>4, PubUnique, Zenon

LEMMA OpensTwo ==
    ASSUME IInv, NEW a \in net50 \cup Damaged50, a.version = 0, a.key # Unparsable,
           NEW R, NEW i, NEW k, a.tag.ad = HashAnswer(i, R, k)
    PROVE  k \in Responders /\ Answered(k, i) /\ hs[k].ls = R /\ a.tag = SealTwo(i, R, k)
<1>1. Len(a.tag.ad) = 4
  BY TupleLengths, Zenon DEF HashAnswer
<1>2. PICK r \in Responders : Answered(r, hs[r].re) /\ a.tag = SealTwo(hs[r].re, hs[r].ls, r)
  <2>0. 0 # 4 /\ 2 # 4
    OBVIOUS
  <2>1. a.tag # Garbage
    BY <1>1, <2>0, TagLengths, Zenon
  <2>2. ASSUME NEW j, a.tag = SealOne(j, hs[j].rs)
        PROVE  FALSE
    BY <1>1, <2>0, <2>2, TagLengths, Zenon
  <2>. QED  BY Tags50, <2>1, <2>2
<1>3. <<Pub(hs[r].ls), Pub(hs[r].re), SealOne(hs[r].re, hs[r].ls), Pub(r)>>
        = <<Pub(R), Pub(i), SealOne(i, R), Pub(k)>>
  <2>1. SealTwo(hs[r].re, hs[r].ls, r).ad
          = <<Pub(hs[r].ls), Pub(hs[r].re), SealOne(hs[r].re, hs[r].ls), Pub(r)>>
    BY SealTwoParts
  <2>. QED  BY <1>2, <2>1 DEF HashAnswer
<1>4. Pub(hs[r].ls) = Pub(R) /\ Pub(hs[r].re) = Pub(i) /\ Pub(r) = Pub(k)
  BY <1>3
<1>5. hs[r].ls = R /\ hs[r].re = i /\ r = k
  BY <1>4, PubUnique, Zenon
<1>. QED  BY <1>2, <1>5, Zenon

LEMMA ECDHCommutes == \A a, b : ECDH(a, b) = ECDH(b, a)
BY DEF ECDH

\* The keys of an ECDH with one half in Nodes and the other not, or with the
\* halves on the two sides, are told apart.
LEMMA ECDHApart ==
    ASSUME NEW x, NEW y, NEW A, NEW B, ECDH(x, A) = ECDH(y, B),
           \/ x \in Handshakes /\ y \in Handshakes /\ A \in Nodes /\ B \in Nodes
           \/ x \in Responders /\ y \in Responders /\ A \in Initiators /\ B \in Initiators
    PROVE  x = y
<1>1. x # B
  BY SessionsAssumption DEF Keys
<1>. QED  BY <1>1 DEF ECDH

\* What the parties to an intact session have in common, and with no other
LEMMA KeyParts ==
    /\ \A i, R : KeyOne(i, R)[1] = ECDH(i, R)
    /\ \A i, R, r : KeyTwo(i, R, r)[1] = ECDH(i, R) /\ KeyTwo(i, R, r)[2] = ECDH(r, i)
    /\ \A i, R, r, L :
          KeyThree(i, R, r, L)[1] = ECDH(i, R) /\ KeyThree(i, R, r, L)[2] = ECDH(r, i)
BY DEF KeyOne, KeyTwo, KeyThree

LEMMA StateParts ==
    ASSUME NEW q, NEW h, NEW ck, NEW n, NEW ls, NEW re, NEW rs, q = State(h, ck, n, ls, re, rs)
    PROVE  q.h = h /\ q.ck = ck /\ q.nonce = n /\ q.ls = ls /\ q.re = re /\ q.rs = rs
BY DEF State

\* The acts of 66 bytes
LEMMA Acts66 ==
    ASSUME IInv, NEW a \in net66 \cup Damaged66
    PROVE  /\ a.static = Garbage \/ \E b \in net66 : a.static = b.static
           /\ a.tag = Garbage \/ \E b \in net66 : a.tag = b.tag
<1>1. ASSUME NEW b \in net66
      PROVE  b = [version |-> 0, static |-> b.static, tag |-> b.tag]
  BY Zenon DEF IInv, Network, Sent66
<1>2. CASE a \in net66
  BY <1>2
<1>3. ASSUME NEW b \in net66, NEW c \in net66, a = [b EXCEPT !.tag = c.tag]
      PROVE  a.static = b.static /\ a.tag = c.tag
  <2>. DEFINE k == b.static  t == b.tag  u == c.tag
  <2>1. b = [version |-> 0, static |-> k, tag |-> t] /\ a = [b EXCEPT !.tag = u]
    BY <1>1, <1>3
  <2>. HIDE DEF k, t, u
  <2>2. a.static = k /\ a.tag = u
    BY <2>1
  <2>. QED  BY <2>2 DEF k, u
<1>4. ASSUME NEW b \in net66,
             a \in {[b EXCEPT !.version = 1], [b EXCEPT !.static = Garbage],
                    [b EXCEPT !.tag = Garbage]}
      PROVE  a.static \in {b.static, Garbage} /\ a.tag \in {b.tag, Garbage}
  <2>. DEFINE k == b.static  t == b.tag
  <2>1. b = [version |-> 0, static |-> k, tag |-> t]
    BY <1>1
  <2>. HIDE DEF k, t
  <2>2. a.static \in {k, Garbage} /\ a.tag \in {t, Garbage}
    BY <2>1, <1>4
  <2>. QED  BY <2>2 DEF k, t
<1>5. CASE a \in Damaged66
  <2>. DEFINE one == UNION {{[b EXCEPT !.version = 1], [b EXCEPT !.static = Garbage],
                             [b EXCEPT !.tag = Garbage]} : b \in net66}
              two == {[b EXCEPT !.tag = c.tag] : b, c \in net66}
  <2>1. Damaged66 = one \cup two
    BY DEF Damaged66
  <2>2. ASSUME a \in one
        PROVE  \E b \in net66 : a.static \in {b.static, Garbage} /\ a.tag \in {b.tag, Garbage}
    BY <1>4, <2>2
  <2>3. ASSUME a \in two
        PROVE  \E b \in net66, c \in net66 : a.static = b.static /\ a.tag = c.tag
    BY <1>3, <2>3
  <2>. HIDE DEF one, two
  <2>. QED  BY <1>5, <2>1, <2>2, <2>3
<1>. QED  BY <1>2, <1>5

\* The keys after act two, and after act three, tell whose they are.
LEMMA KeysApart ==
    ASSUME NEW i \in Initiators, NEW j \in Initiators, NEW R \in Nodes, NEW S \in Nodes,
           NEW r \in Responders, NEW t \in Responders, NEW C, NEW D,
           C[1] = ECDH(i, R), C[2] = ECDH(r, i), D[1] = ECDH(j, S), D[2] = ECDH(t, j), C = D
    PROVE  i = j /\ r = t
<1>1. ECDH(i, R) = ECDH(j, S) /\ ECDH(r, i) = ECDH(t, j)
  BY Zenon
<1>2. i \in Handshakes /\ j \in Handshakes
  BY DEF Handshakes
<1>. QED  BY <1>1, <1>2, ECDHApart

\* An initiator that has sent an act three got its act two from a responder.
LEMMA SendersAre ==
    ASSUME IInv, NEW j \in Initiators, phase[j] \in {"genThree", "done"}
    PROVE  hs[j].rs \in Nodes /\ hs[j].ls \in Nodes /\ hs[j].re \in Responders
BY DEF IInv, Sessions, InitiatorState, Answered

\* The parts of what has been sealed, of whatever nonce and hash
LEMMA StaticKey ==
    ASSUME NEW j, NEW c, Statics(j, c)
    PROVE  c.key = KeyTwo(j, hs[j].rs, hs[j].re)
<1>1. ASSUME NEW n, NEW h, NEW p, c = SealStatic(j, hs[j].rs, hs[j].re, n, h, p)
      PROVE  c.key = KeyTwo(j, hs[j].rs, hs[j].re)
  BY <1>1, SealStaticParts
<1>. QED  BY <1>1 DEF Statics

LEMMA LastTag ==
    ASSUME NEW j, NEW b, Last(j, b)
    PROVE  /\ b.tag.key = KeyThree(j, hs[j].rs, hs[j].re, hs[j].ls)
           /\ b.tag.ad = Append(b.static.ad, b.static)
           /\ b.tag.nonce = 0
<1>1. ASSUME NEW h, b.tag = SealThree(j, hs[j].rs, hs[j].re, hs[j].ls, h)
      PROVE  /\ b.tag.key = KeyThree(j, hs[j].rs, hs[j].re, hs[j].ls)
             /\ b.tag.ad = h /\ b.tag.nonce = 0
  BY <1>1, SealThreeParts
<1>. QED  BY <1>1 DEF Last

\* A static key that opens under the key after act two was sealed by the
\* initiator which that key names.
LEMMA OpensStatic ==
    ASSUME IInv, NEW a \in net66 \cup Damaged66,
           NEW i \in Initiators, NEW R \in Nodes, NEW r \in Responders,
           a.static.key = KeyTwo(i, R, r)
    PROVE  /\ phase[i] \in {"genThree", "done"} /\ hs[i].re = r
           /\ Statics(i, a.static)
           /\ \/ i \in Foreign /\ a.static.nonce <= MaxOdd
              \/ phase[i] = "done" /\ a.static.plain = hs[i].ls
<1>1. a.static # Garbage
  <2>1. Len(KeyTwo(i, R, r)) = 2 /\ Len(Garbage.key) = 0
    BY GarbageParts, TupleLengths, Zenon DEF KeyTwo
  <2>2. 2 # 0
    OBVIOUS
  <2>. QED  BY <2>1, <2>2, Zenon
<1>2. PICK b \in net66 : a.static = b.static
  BY <1>1, Acts66
<1>3. PICK j \in Initiators : /\ phase[j] \in {"genThree", "done"}
                              /\ Statics(j, b.static)
                              /\ Odd(j, b) \/ Last(j, b)
  BY DEF IInv, Network, Sent66
<1>4. hs[j].rs \in Nodes /\ hs[j].ls \in Nodes /\ hs[j].re \in Responders
  BY <1>3, SendersAre
<1>5. j = i /\ hs[j].re = r
  <2>1. a.static.key = KeyTwo(j, hs[j].rs, hs[j].re)
    BY <1>2, <1>3, StaticKey
  <2>. DEFINE C == KeyTwo(i, R, r)
              D == KeyTwo(j, hs[j].rs, hs[j].re)
  <2>2. /\ C[1] = ECDH(i, R) /\ C[2] = ECDH(r, i)
        /\ D[1] = ECDH(j, hs[j].rs) /\ D[2] = ECDH(hs[j].re, j)
    BY KeyParts
  <2>3. C = D
    BY <2>1
  <2>. HIDE DEF C, D
  <2>. QED  BY <1>4, <2>2, <2>3, KeysApart
<1>. QED  BY <1>2, <1>3, <1>5, Zenon DEF Odd, Last

\* A static key is sealed under a key of two ECDHs.
LEMMA OpensKey ==
    ASSUME IInv, NEW a \in net66 \cup Damaged66
    PROVE  Len(a.static.key) = 0 \/ Len(a.static.key) = 2
<1>1. CASE a.static = Garbage
  BY <1>1, GarbageParts, TupleLengths, Zenon
<1>2. ASSUME NEW b \in net66, a.static = b.static
      PROVE  Len(a.static.key) = 2
  <2>1. PICK j \in Initiators : Statics(j, b.static)
    BY DEF IInv, Network, Sent66
  <2>2. b.static.key = KeyTwo(j, hs[j].rs, hs[j].re)
    BY <2>1, StaticKey
  <2>3. Len(KeyTwo(j, hs[j].rs, hs[j].re)) = 2
    BY TupleLengths, Zenon DEF KeyTwo
  <2>. QED  BY <1>2, <2>2, <2>3, Zenon
<1>. QED  BY <1>1, <1>2, Acts66

\* The last tag opens under the static key of the initiator only, and is the end
\* of its hash.
LEMMA OpensThree ==
    ASSUME IInv, NEW a \in net66 \cup Damaged66,
           NEW i \in Initiators, NEW R \in Nodes, NEW r \in Responders, NEW L \in Nodes,
           a.tag.key = KeyThree(i, R, r, L)
    PROVE  Finished(i, r, L) /\ hs[i].h = Append(a.tag.ad, a.tag)
<1>1. a.tag # Garbage
  <2>1. Len(KeyThree(i, R, r, L)) = 3 /\ Len(Garbage.key) = 0
    BY GarbageParts, TupleLengths, Zenon DEF KeyThree
  <2>2. 3 # 0
    OBVIOUS
  <2>. QED  BY <2>1, <2>2, Zenon
<1>2. PICK b \in net66 : a.tag = b.tag
  BY <1>1, Acts66
<1>3. PICK j \in Initiators : phase[j] \in {"genThree", "done"} /\ Last(j, b)
  BY <1>1, <1>2 DEF IInv, Network, Sent66, Odd
<1>4. hs[j].rs \in Nodes /\ hs[j].ls \in Nodes /\ hs[j].re \in Responders
  BY <1>3, SendersAre
<1>. DEFINE C == KeyThree(i, R, r, L)
            D == KeyThree(j, hs[j].rs, hs[j].re, hs[j].ls)
<1>5. /\ b.tag.key = D /\ b.tag.ad = Append(b.static.ad, b.static)
      /\ hs[j].h = Append(Append(b.static.ad, b.static), b.tag) /\ phase[j] = "done"
  BY <1>3, LastTag, Zenon DEF Last
<1>6. C = D
  BY <1>2, <1>5
<1>7. j = i /\ hs[j].re = r
  <2>1. /\ C[1] = ECDH(i, R) /\ C[2] = ECDH(r, i)
        /\ D[1] = ECDH(j, hs[j].rs) /\ D[2] = ECDH(hs[j].re, j)
    BY KeyParts
  <2>. HIDE DEF C, D
  <2>. QED  BY <1>4, <1>6, <2>1, KeysApart
<1>8. hs[j].ls = L
  <2>1. C[3] = ECDH(L, r) /\ D[3] = ECDH(hs[j].ls, hs[j].re)
    BY DEF KeyThree
  <2>2. ECDH(L, r) = ECDH(hs[j].ls, r)
    BY <1>6, <1>7, <2>1, Zenon
  <2>3. L # r /\ hs[j].ls # r
    BY <1>4, SessionsAssumption DEF Handshakes
  <2>. QED  BY <2>2, <2>3 DEF ECDH
<1>. QED  BY <1>2, <1>5, <1>7, <1>8, Zenon DEF Finished
-----------------------------------------------------------------------------
(***************************************************************************)
(* The invariant is preserved by every call                                *)
(***************************************************************************)

\* What is left to show of a call on s: its own state and what it sends.
LEMMA CallKeeps ==
    ASSUME IInv, NEW s \in Handshakes, NEW state, NEW next \in Phases,
           Become(s, state, next), Keeps(s, state, next), Tried(s),
           poisoned' = poisoned \/ poisoned' = poisoned \cup {s},
           s \in Initiators => InitiatorState(s)',
           s \in Responders => ResponderState(s)',
           \A a \in net50' \ net50 : Sent50(a)',
           \A a \in net66' \ net66 : Sent66(a)'
    PROVE  IInv'
<1>1. Counted
  BY DEF IInv
<1>2. phase' \in [Handshakes -> Phases]
  BY <1>1 DEF Become, Counted
<1>3. errors' \in [Handshakes -> 0..MaxErrors]
  BY <1>1, BoundAssumption DEF Tried, Counted
<1>4. poisoned' \subseteq Handshakes
  BY <1>1 DEF Counted
<1>5. Counted'
  BY <1>2, <1>3, <1>4 DEF Counted
<1>6. Sessions'
  BY OthersKeep DEF Sessions, Handshakes
<1>7. Network'
  BY OthersKeep DEF Network
<1>. QED  BY <1>5, <1>6, <1>7 DEF IInv

\* What a call after act two leaves in s
LEMMA GoesOn ==
    ASSUME NEW s, NEW h, NEW ck, NEW n \in 1..(MaxOdd + 1), NEW ls, NEW re, NEW rs,
           IsSeq(h), Len(h) = 4 + n, hs'[s] = State(h, ck, n, ls, re, rs)
    PROVE  Going(s)' /\ hs'[s] = State(hs'[s].h, ck, hs'[s].nonce, ls, re, rs)
<1>1. hs'[s].h = h /\ hs'[s].nonce = n
  BY StateParts
<1>2. hs'[s] = State(hs'[s].h, ck, hs'[s].nonce, ls, re, rs)
  BY <1>1, Zenon
<1>3. Going(s)'
  BY <1>1 DEF Going
<1>. QED  BY <1>2, <1>3

\* What act two leaves in s
LEMMA TwoGoesOn ==
    ASSUME NEW s, NEW i, NEW R, NEW r, NEW ck, NEW ls, NEW re, NEW rs,
           hs'[s] = State(HashTwo(i, R, r), ck, 1, ls, re, rs)
    PROVE  Going(s)' /\ hs'[s] = State(hs'[s].h, ck, hs'[s].nonce, ls, re, rs)
<1>0. PICK h : h = HashTwo(i, R, r)
  OBVIOUS
<1>1. IsSeq(h) /\ Len(h) = 5
  BY <1>0, IsSeqTuples, Zenon DEF HashTwo
<1>2. 1 \in 1..(MaxOdd + 1) /\ 5 = 4 + 1
  BY BoundAssumption
<1>3. PICK n \in 1..(MaxOdd + 1) : n = 1
  BY <1>2
<1>4. IsSeq(h) /\ Len(h) = 4 + n /\ hs'[s] = State(h, ck, n, ls, re, rs)
  BY <1>0, <1>1, <1>2, <1>3, Zenon
<1>5. n \in 1..(MaxOdd + 1)
  BY <1>3
<1>. QED  BY <1>4, <1>5, GoesOn

LEMMA GenActOneIInv ==
    ASSUME IInv, NEW i \in Initiators, GenActOne(i)
    PROVE  IInv'
<1>. DEFINE R == hs[i].rs
            L == hs[i].ls
            state == State(HashOne(i, R), KeyOne(i, R), 1, L, None, R)
<1>1. i \in Handshakes /\ i \notin Responders
  BY SessionsAssumption DEF Handshakes
<1>2. /\ phase[i] = "genOne" /\ i \notin poisoned
      /\ R \in Nodes /\ L \in Nodes
      /\ hs[i] = State(<<Pub(R)>>, <<>>, 0, L, None, R)
  BY DEF IInv, Sessions, InitiatorState, GenActOne
<1>3. /\ Append(<<Pub(R)>>, Pub(i)) = <<Pub(R), Pub(i)>>
      /\ Append(<<>>, ECDH(i, R)) = KeyOne(i, R)
      /\ Append(<<Pub(R), Pub(i)>>, SealOne(i, R)) = HashOne(i, R)
  BY Append1, Append2 DEF KeyOne, HashOne
<1>4. SealOne(i, R) = [key |-> Append(<<>>, ECDH(i, R)), nonce |-> 0,
                       ad |-> Append(<<Pub(R)>>, Pub(i)), plain |-> None]
  BY <1>3, Zenon DEF SealOne
<1>5. GenEphemeralAct(i, R, "recvTwo")
  BY DEF GenActOne
<1>6. /\ Become(i, state, "recvTwo")
      /\ net50' = net50 \cup {[version |-> 0, key |-> i, tag |-> SealOne(i, R)]}
      /\ UNCHANGED <<net66, errors, poisoned>>
  <2>. DEFINE c == SealOne(i, R)
              hash == Append(<<Pub(R)>>, Pub(i))
              key == Append(<<>>, ECDH(i, R))
  <2>1. /\ Become(i, State(Append(hash, c), key, 1, L, None, R), "recvTwo")
        /\ net50' = net50 \cup {[version |-> 0, key |-> i, tag |-> c]}
        /\ UNCHANGED <<net66, errors, poisoned>>
    BY <1>2, <1>4, <1>5, GenStep
  <2>2. hash = <<Pub(R), Pub(i)>> /\ key = KeyOne(i, R)
    BY <1>3
  <2>. HIDE DEF hash, key
  <2>. QED  BY <1>3, <2>1, <2>2
<1>. HIDE DEF state
<1>7. state.ls = L /\ state.rs = R /\ state.re = None /\ state = State(HashOne(i, R), KeyOne(i, R), 1, L, None, R)
  BY DEF State, state
<1>8. Keeps(i, state, "recvTwo")
  BY <1>2, <1>7 DEF Keeps
<1>9. hs'[i] = state /\ phase'[i] = "recvTwo"
  BY <1>1, <1>6, <1>8, OthersKeep
<1>10. InitiatorState(i)'
  BY <1>2, <1>6, <1>7, <1>9 DEF InitiatorState
<1>11. \A a \in net50' \ net50 : Sent50(a)'
  BY <1>6, <1>7, <1>9 DEF Sent50
<1>. QED  BY <1>1, <1>6, <1>8, <1>10, <1>11, CallKeeps DEF Tried, Phases

LEMMA GenActTwoIInv ==
    ASSUME IInv, NEW r \in Responders, GenActTwo(r)
    PROVE  IInv'
<1>. DEFINE R == hs[r].ls
            i == hs[r].re
            state == State(HashTwo(i, R, r), KeyTwo(i, R, r), 1, R, i, None)
<1>1. r \in Handshakes /\ r \notin Initiators
  BY SessionsAssumption DEF Handshakes
<1>2. /\ phase[r] = "genTwo" /\ r \notin poisoned
      /\ R \in Nodes /\ i \in Initiators /\ hs[i].rs = R
      /\ hs[r] = State(HashOne(i, R), KeyOne(i, R), 1, R, i, None)
  BY DEF IInv, Sessions, ResponderState, GenActTwo
<1>3. /\ Append(HashOne(i, R), Pub(r)) = <<Pub(R), Pub(i), SealOne(i, R), Pub(r)>>
      /\ Append(KeyOne(i, R), ECDH(r, i)) = KeyTwo(i, R, r)
      /\ Append(<<Pub(R), Pub(i), SealOne(i, R), Pub(r)>>, SealTwo(i, R, r)) = HashTwo(i, R, r)
  BY Append1, Append3, Append4 DEF KeyOne, KeyTwo, HashOne, HashTwo
<1>4. SealTwo(i, R, r) = [key |-> Append(KeyOne(i, R), ECDH(r, i)), nonce |-> 0,
                          ad |-> Append(HashOne(i, R), Pub(r)), plain |-> None]
  BY <1>3, Zenon DEF SealTwo
<1>5. GenEphemeralAct(r, i, "recvThree")
  BY DEF GenActTwo
<1>6. /\ Become(r, state, "recvThree")
      /\ net50' = net50 \cup {[version |-> 0, key |-> r, tag |-> SealTwo(i, R, r)]}
      /\ UNCHANGED <<net66, errors, poisoned>>
  <2>. DEFINE c == SealTwo(i, R, r)
              hash == Append(HashOne(i, R), Pub(r))
              key == Append(KeyOne(i, R), ECDH(r, i))
  <2>1. /\ Become(r, State(Append(hash, c), key, 1, R, i, None), "recvThree")
        /\ net50' = net50 \cup {[version |-> 0, key |-> r, tag |-> c]}
        /\ UNCHANGED <<net66, errors, poisoned>>
    BY <1>2, <1>4, <1>5, GenStep
  <2>2. hash = <<Pub(R), Pub(i), SealOne(i, R), Pub(r)>> /\ key = KeyTwo(i, R, r)
    BY <1>3
  <2>. HIDE DEF hash, key
  <2>. QED  BY <1>3, <2>1, <2>2
<1>. HIDE DEF state
<1>7. /\ state.ls = R /\ state.rs = None /\ state.re = i
      /\ state = State(HashTwo(i, R, r), KeyTwo(i, R, r), 1, R, i, None)
  BY DEF State, state
<1>8. Keeps(r, state, "recvThree")
  BY <1>1, <1>2, <1>7 DEF Keeps
<1>9. hs'[r] = state /\ phase'[r] = "recvThree"
  BY <1>1, <1>6, <1>8, OthersKeep
<1>10. hs'[i].rs = R
  BY <1>1, <1>2, <1>6 DEF Become
<1>11. ResponderState(r)'
  <2>1. Going(r)' /\ hs'[r] = State(hs'[r].h, KeyTwo(i, R, r), hs'[r].nonce, R, i, None)
    <3>1. hs'[r] = State(HashTwo(i, R, r), KeyTwo(i, R, r), 1, R, i, None)
      BY <1>7, <1>9
    <3>. QED  BY <3>1, TwoGoesOn
  <2>. QED  BY <1>2, <1>6, <1>7, <1>9, <1>10, <2>1 DEF ResponderState
<1>12. \A a \in net50' \ net50 : Sent50(a)'
  <2>1. Answered(r, hs[r].re)'
    BY <1>2, <1>7, <1>9, <1>10 DEF Answered
  <2>. QED  BY <1>6, <1>7, <1>9, <2>1 DEF Sent50
<1>. QED  BY <1>1, <1>6, <1>8, <1>11, <1>12, CallKeeps DEF Tried, Phases

\* A call that returned an error without a trace
LEMMA CleanIInv ==
    ASSUME IInv, NEW s \in Handshakes, Become(s, hs[s], phase[s]), Tried(s),
           UNCHANGED <<net50, net66, poisoned>>
    PROVE  IInv'
<1>1. hs' = hs /\ phase' = phase
  BY DEF Become, IInv, Sessions, Counted
<1>2. errors' \in [Handshakes -> 0..MaxErrors]
  BY BoundAssumption DEF Tried, Counted, IInv
<1>3. Keeps(s, hs[s], phase[s])
  <2>1. phase[s] = "genThree" => Len(hs[s].h) \in Nat
    <3>1. phase[s] = "genThree" => Going(s)
      BY DEF IInv, Sessions, InitiatorState, ResponderState, Handshakes
    <3>. QED  BY <3>1, IsSeqAppend DEF Going
  <2>2. phase[s] = "genThree" => Len(hs[s].h) <= Len(hs[s].h)
    BY <2>1
  <2>. QED  BY <2>1, <2>2, Zenon DEF Keeps
<1>4. /\ \A i \in Initiators : InitiatorState(i)
      /\ \A r \in Responders : ResponderState(r)
      /\ phase[s] \in Phases
  BY DEF IInv, Sessions, Counted
<1>5. ASSUME NEW i, InitiatorState(i)
      PROVE  InitiatorState(i)'
  BY <1>1, <1>5, Zenon DEF InitiatorState, Answered, Beyond, Going, Gone
<1>6. ASSUME NEW r, ResponderState(r)
      PROVE  ResponderState(r)'
  BY <1>1, <1>6, Zenon DEF ResponderState, Finished, Beyond, Going, Gone
<1>. QED  BY <1>3, <1>4, <1>5, <1>6, CallKeeps

\* What a refused tag leaves behind is longer than any tag's hash or key.
LEMMA BeyondGrows ==
    ASSUME NEW s, NEW h, NEW ck, NEW ls, NEW re \in Handshakes, NEW rs,
           IsSeq(h), IsSeq(ck), NEW hashed \in Nat, NEW keyed \in Nat,
           Len(h) >= hashed, Len(h) + keyed = Len(ck) + hashed,
           NEW d, NEW e,
           hs'[s] = State(Append(h, d), Append(ck, e), 0, ls, re, rs)
    PROVE  Beyond(s, hashed, keyed)'
<1>. DEFINE hash == Append(h, d)
            key  == Append(ck, e)
<1>1. /\ IsSeq(hash) /\ Len(hash) = Len(h) + 1 /\ Len(h) \in Nat
      /\ IsSeq(key) /\ Len(key) = Len(ck) + 1 /\ Len(ck) \in Nat
  BY IsSeqAppend
<1>. HIDE DEF hash, key
<1>2. /\ hs'[s].h = hash /\ hs'[s].ck = key /\ hs'[s].ls = ls
      /\ hs'[s].re = re /\ hs'[s].rs = rs
      /\ hs'[s] = State(hash, key, 0, ls, re, rs)
  <2>1. hs'[s] = State(hash, key, 0, ls, re, rs)
    BY DEF hash, key
  <2>. QED  BY <2>1 DEF State
<1>3. Len(hash) > hashed /\ Len(hash) + keyed = Len(key) + hashed
  BY <1>1
<1>. QED  BY <1>1, <1>2, <1>3, Zenon DEF Beyond

LEMMA RecvActOneIInv ==
    ASSUME IInv, NEW r \in Responders, NEW a \in net50 \cup Damaged50, RecvActOne(r, a)
    PROVE  IInv'
<1>. DEFINE R == hs[r].ls
            k == a.key
            H == hs[r].h
            C == hs[r].ck
            dh == ECDH(R, k)
            taken == TakenIn(r, k, dh, a.tag)
            mixed == MixedIn(r, k, dh)
<1>1. r \in Handshakes /\ r \notin Initiators
  BY SessionsAssumption DEF Handshakes
<1>2. /\ phase[r] = "recvOne" /\ R \in Nodes /\ hs[r].rs = None
      /\ IF r \in poisoned THEN Beyond(r, 1, 0)
                           ELSE hs[r] = State(<<Pub(R)>>, <<>>, 0, R, None, None)
  BY DEF IInv, Sessions, ResponderState, RecvActOne
<1>3. /\ Whole(r)
      /\ IsSeq(H) /\ IsSeq(C) /\ Len(H) >= 1 /\ Len(H) + 0 = Len(C) + 1
      /\ r \in poisoned => Len(H) > 1
      /\ r \notin poisoned => H = <<Pub(R)>> /\ C = <<>>
  <2>1. CASE r \in poisoned
    <3>1. Len(H) > 1 /\ Len(H) + 0 = Len(C) + 1 /\ IsSeq(H) /\ IsSeq(C)
      BY <1>2, <2>1 DEF Beyond
    <3>2. Len(H) \in Nat
      BY <3>1, IsSeqAppend
    <3>. QED  BY <1>2, <2>1, <3>1, <3>2 DEF Beyond, Whole, State
  <2>2. CASE r \notin poisoned
    <3>1. H = <<Pub(R)>> /\ C = <<>> /\ hs[r].re = None /\ hs[r].nonce = 0
      BY <1>2, <2>2 DEF State
    <3>2. Whole(r)
      BY <1>2, <2>2, <3>1, Zenon DEF Whole
    <3>. QED  BY <2>2, <3>1, <3>2, IsSeqTuples
  <2>. QED  BY <2>1, <2>2
<1>4. RecvEphemeralAct(r, a, R, "genTwo")
  BY DEF RecvActOne
<1>5. /\ UNCHANGED <<net50, net66>> /\ Tried(r)
      /\ \/ Become(r, hs[r], phase[r]) /\ UNCHANGED poisoned
         \/ /\ a.version = 0 /\ k # Unparsable
            /\ a.tag.key = KeyWith(r, dh) /\ a.tag.ad = HashWith(r, k)
            /\ Become(r, taken, "genTwo") /\ UNCHANGED poisoned
         \/ /\ a.version = 0 /\ k # Unparsable
            /\ Become(r, mixed, phase[r]) /\ poisoned' = poisoned \cup {r}
  BY <1>3, <1>4, RecvStep
<1>6. taken.ls = R /\ taken.rs = None /\ taken.re = k
      /\ mixed.ls = R /\ mixed.rs = None /\ mixed.re = k
  BY <1>2 DEF State, TakenIn, MixedIn
<1>. HIDE DEF taken, mixed
<1>7. Keeps(r, taken, "genTwo") /\ Keeps(r, mixed, phase[r])
  BY <1>1, <1>2, <1>6 DEF Keeps
<1>8. CASE Become(r, hs[r], phase[r]) /\ UNCHANGED poisoned
  BY <1>1, <1>5, <1>8, CleanIInv
<1>9. CASE /\ a.version = 0 /\ k # Unparsable
           /\ a.tag.key = KeyWith(r, dh) /\ a.tag.ad = HashWith(r, k)
           /\ Become(r, taken, "genTwo") /\ UNCHANGED poisoned
  <2>1. r \notin poisoned
    <3>1. \/ Len(a.tag.ad) = 0 /\ Len(a.tag.key) = 0
          \/ Len(a.tag.ad) = 2 /\ Len(a.tag.key) = 1
          \/ Len(a.tag.ad) = 4 /\ Len(a.tag.key) = 2
      BY <1>9, OpensNone
    <3>2. Len(a.tag.ad) = Len(H) + 1 /\ Len(a.tag.key) = Len(C) + 1
      <4>1. Len(HashWith(r, k)) = Len(H) + 1 /\ Len(KeyWith(r, dh)) = Len(C) + 1
        BY <1>3, IsSeqAppend DEF HashWith, KeyWith
      <4>. QED  BY <1>9, <4>1, Zenon
    <3>3. Len(H) \in Nat /\ Len(C) \in Nat
      BY <1>3, IsSeqAppend
    <3>. QED  BY <1>3, <3>1, <3>2, <3>3
  <2>2. /\ HashWith(r, k) = <<Pub(R), Pub(k)>> /\ KeyWith(r, dh) = <<ECDH(R, k)>>
        /\ Append(<<Pub(R), Pub(k)>>, a.tag) = <<Pub(R), Pub(k), a.tag>>
    <3>1. Append(<<Pub(R)>>, Pub(k)) = <<Pub(R), Pub(k)>>
      BY Append1
    <3>2. Append(<<>>, ECDH(R, k)) = <<ECDH(R, k)>>
      BY Append0
    <3>3. Append(<<Pub(R), Pub(k)>>, a.tag) = <<Pub(R), Pub(k), a.tag>>
      BY Append2
    <3>. QED  BY <1>3, <2>1, <3>1, <3>2, <3>3, Zenon DEF HashWith, KeyWith
  <2>3. k \in Initiators /\ hs[k].rs = R /\ a.tag = SealOne(k, R)
    <3>1. a.tag.ad = <<Pub(R), Pub(k)>>
      BY <1>9, <2>2, Zenon
    <3>2. a.version = 0 /\ a.key # Unparsable
      BY <1>9
    <3>3. ASSUME NEW x, NEW y, a.tag.ad = <<Pub(x), Pub(y)>>
          PROVE  y \in Initiators /\ hs[y].rs = x /\ a.tag = SealOne(y, x)
      BY <3>2, <3>3, OpensOne
    <3>. QED  BY <3>1, <3>3, Zenon
  <2>4. taken = State(HashOne(k, R), KeyOne(k, R), 1, R, k, None)
    BY <1>2, <2>2, <2>3, ECDHCommutes, Zenon DEF HashOne, KeyOne, taken, TakenIn
  <2>5. hs'[r] = taken /\ phase'[r] = "genTwo"
    BY <1>1, <1>7, <1>9, OthersKeep
  <2>6. hs'[k].rs = R
    BY <1>1, <1>9, <2>3 DEF Become
  <2>7. ResponderState(r)'
    BY <1>2, <1>6, <1>9, <2>1, <2>3, <2>4, <2>5, <2>6 DEF ResponderState
  <2>. QED  BY <1>1, <1>5, <1>7, <1>9, <2>7, CallKeeps DEF Phases
<1>10. CASE /\ a.version = 0 /\ k # Unparsable
            /\ Become(r, mixed, phase[r]) /\ poisoned' = poisoned \cup {r}
  <2>1. k \in Handshakes
    BY <1>10, Acts50
  <2>2. hs'[r] = mixed /\ phase'[r] = "recvOne"
    BY <1>1, <1>2, <1>7, <1>10, OthersKeep
  <2>3. Beyond(r, 1, 0)'
    <3>1. hs'[r] = State(Append(H, Pub(k)), Append(C, dh), 0, R, k, None)
      BY <1>2, <2>2, Zenon DEF mixed, MixedIn, HashWith, KeyWith
    <3>. QED  BY <1>3, <2>1, <3>1, BeyondGrows
  <2>4. ResponderState(r)'
    BY <1>2, <1>6, <1>10, <2>2, <2>3 DEF ResponderState
  <2>. QED  BY <1>1, <1>2, <1>5, <1>7, <1>10, <2>4, CallKeeps DEF Phases
<1>. QED  BY <1>5, <1>8, <1>9, <1>10

LEMMA RecvActTwoIInv ==
    ASSUME IInv, NEW i \in Initiators, NEW a \in net50 \cup Damaged50, RecvActTwo(i, a)
    PROVE  IInv'
<1>. DEFINE R == hs[i].rs
            L == hs[i].ls
            k == a.key
            H == hs[i].h
            C == hs[i].ck
            dh == ECDH(i, k)
            taken == TakenIn(i, k, dh, a.tag)
            mixed == MixedIn(i, k, dh)
<1>1. i \in Handshakes /\ i \notin Responders
  BY SessionsAssumption DEF Handshakes
<1>2. /\ phase[i] = "recvTwo" /\ R \in Nodes /\ L \in Nodes
      /\ IF i \in poisoned THEN Beyond(i, 3, 1)
                           ELSE hs[i] = State(HashOne(i, R), KeyOne(i, R), 1, L, None, R)
  BY DEF IInv, Sessions, InitiatorState, RecvActTwo
<1>3. /\ Whole(i)
      /\ IsSeq(H) /\ IsSeq(C) /\ Len(H) >= 3 /\ Len(H) + 1 = Len(C) + 3
      /\ i \in poisoned => Len(H) > 3
      /\ i \notin poisoned => H = HashOne(i, R) /\ C = KeyOne(i, R)
  <2>1. CASE i \in poisoned
    <3>1. Len(H) > 3 /\ Len(H) + 1 = Len(C) + 3 /\ IsSeq(H) /\ IsSeq(C)
      BY <1>2, <2>1 DEF Beyond
    <3>2. Len(H) \in Nat
      BY <3>1, IsSeqAppend
    <3>. QED  BY <1>2, <2>1, <3>1, <3>2 DEF Beyond, Whole, State
  <2>2. CASE i \notin poisoned
    <3>1. H = HashOne(i, R) /\ C = KeyOne(i, R) /\ hs[i].re = None /\ hs[i].nonce = 1
      BY <1>2, <2>2 DEF State
    <3>2. Whole(i)
      BY <1>2, <2>2, <3>1, Zenon DEF Whole
    <3>3. IsSeq(H) /\ IsSeq(C) /\ Len(H) = 3 /\ Len(C) = 1
      BY <3>1, IsSeqTuples, Zenon DEF HashOne, KeyOne
    <3>. QED  BY <2>2, <3>1, <3>2, <3>3
  <2>. QED  BY <2>1, <2>2
<1>4. RecvEphemeralAct(i, a, i, "genThree")
  BY DEF RecvActTwo
<1>5. /\ UNCHANGED <<net50, net66>> /\ Tried(i)
      /\ \/ Become(i, hs[i], phase[i]) /\ UNCHANGED poisoned
         \/ /\ a.version = 0 /\ k # Unparsable
            /\ a.tag.key = KeyWith(i, dh) /\ a.tag.ad = HashWith(i, k)
            /\ Become(i, taken, "genThree") /\ UNCHANGED poisoned
         \/ /\ a.version = 0 /\ k # Unparsable
            /\ Become(i, mixed, phase[i]) /\ poisoned' = poisoned \cup {i}
  BY <1>3, <1>4, RecvStep
<1>6. taken.ls = L /\ taken.rs = R /\ taken.re = k
      /\ mixed.ls = L /\ mixed.rs = R /\ mixed.re = k
  BY <1>2 DEF State, TakenIn, MixedIn
<1>. HIDE DEF taken, mixed
<1>7. Keeps(i, taken, "genThree") /\ Keeps(i, mixed, phase[i])
  BY <1>1, <1>2, <1>6 DEF Keeps
<1>8. CASE Become(i, hs[i], phase[i]) /\ UNCHANGED poisoned
  BY <1>1, <1>5, <1>8, CleanIInv
<1>9. CASE /\ a.version = 0 /\ k # Unparsable
           /\ a.tag.key = KeyWith(i, dh) /\ a.tag.ad = HashWith(i, k)
           /\ Become(i, taken, "genThree") /\ UNCHANGED poisoned
  <2>1. i \notin poisoned
    <3>1. \/ Len(a.tag.ad) = 0 /\ Len(a.tag.key) = 0
          \/ Len(a.tag.ad) = 2 /\ Len(a.tag.key) = 1
          \/ Len(a.tag.ad) = 4 /\ Len(a.tag.key) = 2
      BY <1>9, OpensNone
    <3>2. Len(a.tag.ad) = Len(H) + 1
      <4>1. Len(HashWith(i, k)) = Len(H) + 1
        BY <1>3, IsSeqAppend DEF HashWith
      <4>. QED  BY <1>9, <4>1, Zenon
    <3>3. Len(H) \in Nat
      BY <1>3, IsSeqAppend
    <3>. QED  BY <1>3, <3>1, <3>2, <3>3
  <2>2. /\ HashWith(i, k) = <<Pub(R), Pub(i), SealOne(i, R), Pub(k)>>
        /\ KeyWith(i, dh) = <<ECDH(i, R), ECDH(i, k)>>
        /\ Append(<<Pub(R), Pub(i), SealOne(i, R), Pub(k)>>, a.tag)
             = <<Pub(R), Pub(i), SealOne(i, R), Pub(k), a.tag>>
    <3>1. Append(<<Pub(R), Pub(i), SealOne(i, R)>>, Pub(k))
            = <<Pub(R), Pub(i), SealOne(i, R), Pub(k)>>
      BY Append3
    <3>2. Append(<<ECDH(i, R)>>, ECDH(i, k)) = <<ECDH(i, R), ECDH(i, k)>>
      BY Append1
    <3>3. Append(<<Pub(R), Pub(i), SealOne(i, R), Pub(k)>>, a.tag)
            = <<Pub(R), Pub(i), SealOne(i, R), Pub(k), a.tag>>
      BY Append4
    <3>. QED  BY <1>3, <2>1, <3>1, <3>2, <3>3, Zenon DEF HashWith, KeyWith, HashOne, KeyOne
  <2>3. k \in Responders /\ Answered(k, i) /\ hs[k].ls = R /\ a.tag = SealTwo(i, R, k)
    <3>1. a.tag.ad = HashAnswer(i, R, k)
      BY <1>9, <2>2, Zenon DEF HashAnswer
    <3>2. a.version = 0 /\ a.key # Unparsable
      BY <1>9
    <3>. QED  BY <3>1, <3>2, OpensTwo
  <2>4. taken = State(HashTwo(i, R, k), KeyTwo(i, R, k), 1, L, k, R)
    BY <2>2, <2>3, ECDHCommutes, Zenon DEF HashTwo, KeyTwo, taken, TakenIn
  <2>5. hs'[i] = taken /\ phase'[i] = "genThree"
    BY <1>1, <1>7, <1>9, OthersKeep
  <2>6. Answered(k, i)'
    <3>1. k \in Handshakes /\ k # i
      BY <1>1, <2>3 DEF Handshakes
    <3>2. hs'[k] = hs[k] /\ phase'[k] = phase[k]
      BY <1>1, <1>9, <3>1 DEF Become
    <3>. QED  BY <1>6, <2>3, <2>5, <3>2 DEF Answered
  <2>7. InitiatorState(i)'
    <3>1. Going(i)' /\ hs'[i] = State(hs'[i].h, KeyTwo(i, R, k), hs'[i].nonce, L, k, R)
      <4>1. hs'[i] = State(HashTwo(i, R, k), KeyTwo(i, R, k), 1, L, k, R)
        BY <2>4, <2>5
      <4>. QED  BY <4>1, TwoGoesOn
    <3>. QED  BY <1>2, <1>6, <1>9, <2>1, <2>5, <2>6, <3>1 DEF InitiatorState
  <2>. QED  BY <1>1, <1>5, <1>7, <1>9, <2>7, CallKeeps DEF Phases
<1>10. CASE /\ a.version = 0 /\ k # Unparsable
            /\ Become(i, mixed, phase[i]) /\ poisoned' = poisoned \cup {i}
  <2>1. k \in Handshakes
    BY <1>10, Acts50
  <2>2. hs'[i] = mixed /\ phase'[i] = "recvTwo"
    BY <1>1, <1>2, <1>7, <1>10, OthersKeep
  <2>3. Beyond(i, 3, 1)'
    <3>1. hs'[i] = State(Append(H, Pub(k)), Append(C, dh), 0, L, k, R)
      BY <2>2, Zenon DEF mixed, MixedIn, HashWith, KeyWith
    <3>. QED  BY <1>3, <2>1, <3>1, BeyondGrows
  <2>4. InitiatorState(i)'
    BY <1>2, <1>6, <1>10, <2>2, <2>3 DEF InitiatorState
  <2>. QED  BY <1>1, <1>2, <1>5, <1>7, <1>10, <2>4, CallKeeps DEF Phases
<1>. QED  BY <1>5, <1>8, <1>9, <1>10

\* A static key is sealed after act two.
Seals(i, p, R, r, L, h, n, c, longer) ==
    /\ R = hs[i].rs /\ r = hs[i].re /\ L = hs[i].ls /\ h = hs[i].h /\ n = hs[i].nonce
    /\ c = Sealed(hs[i], p) /\ longer = Append(h, c)

LEMMA SealsStatic ==
    ASSUME IInv, NEW i \in Initiators, phase[i] = "genThree", NEW p,
           NEW R, NEW r, NEW L, NEW h, NEW n, NEW c, NEW longer,
           Seals(i, p, R, r, L, h, n, c, longer)
    PROVE  /\ i \notin poisoned /\ R \in Nodes /\ L \in Nodes /\ Answered(r, i)
           /\ n \in 1..(MaxOdd + 1) /\ Len(h) = 4 + n
           /\ c = SealStatic(i, R, r, n, h, p)
           /\ EncryptAndHash(hs[i], p) = State(longer, KeyTwo(i, R, r), n + 1, L, r, R)
           /\ IsSeq(longer) /\ Len(longer) = 5 + n /\ longer[5 + n] = c
           /\ \A k \in 1..Len(h) : longer[k] = h[k]
<1>0. /\ R = hs[i].rs /\ r = hs[i].re /\ L = hs[i].ls /\ h = hs[i].h /\ n = hs[i].nonce
      /\ c = Sealed(hs[i], p) /\ longer = Append(h, c)
  BY Zenon DEF Seals
<1>1. /\ i \notin poisoned /\ R \in Nodes /\ L \in Nodes /\ Answered(r, i) /\ Going(i)
      /\ hs[i] = State(h, KeyTwo(i, R, r), n, L, r, R)
  BY <1>0 DEF IInv, Sessions, InitiatorState
<1>2. /\ n \in 1..(MaxOdd + 1) /\ n \in Nat /\ IsSeq(h) /\ Len(h) = 4 + n
  <2>1. n \in 1..(MaxOdd + 1) /\ IsSeq(h) /\ Len(h) = 4 + n
    BY <1>0, <1>1, Zenon DEF Going
  <2>. QED  BY <2>1, BoundAssumption
<1>3. c = SealStatic(i, R, r, n, h, p)
  <2>1. Sealed(State(h, KeyTwo(i, R, r), n, L, r, R), p)
          = [key |-> KeyTwo(i, R, r), nonce |-> n, ad |-> h, plain |-> p]
    BY StateSealed
  <2>. QED  BY <1>0, <1>1, <2>1, Zenon DEF SealStatic
<1>4. EncryptAndHash(hs[i], p) = State(longer, KeyTwo(i, R, r), n + 1, L, r, R)
  <2>1. EncryptAndHash(hs[i], p) = Mixed(State(h, KeyTwo(i, R, r), n, L, r, R), c)
    BY <1>0, <1>1, Zenon DEF EncryptAndHash
  <2>. QED  BY <1>0, <1>2, <2>1, StateMixed
<1>5. /\ IsSeq(longer) /\ Len(longer) = Len(h) + 1 /\ longer[Len(h) + 1] = c
      /\ \A k \in 1..Len(h) : longer[k] = h[k]
  BY <1>0, <1>2, IsSeqAppend
<1>6. Len(h) + 1 = 5 + n
  BY <1>2
<1>7. Len(longer) = 5 + n /\ longer[5 + n] = c
  BY <1>5, <1>6, Zenon
<1>. QED  BY <1>1, <1>2, <1>3, <1>4, <1>5, <1>7, Zenon

\* Answered(r, i) is not touched by a call on i that leaves its remote keys.
LEMMA AnsweredStays ==
    ASSUME NEW i \in Initiators, NEW r, Answered(r, i), NEW state, NEW next,
           IInv, Become(i, state, next), state.rs = hs[i].rs, hs'[i] = state
    PROVE  Answered(r, i)'
<1>1. r \in Handshakes /\ r # i
  BY SessionsAssumption DEF Answered, Handshakes
<1>2. hs'[r] = hs[r] /\ phase'[r] = phase[r]
  BY <1>1 DEF Become, IInv, Sessions, Counted
<1>. QED  BY <1>2 DEF Answered

LEMMA GenOddActThreeIInv ==
    ASSUME IInv, NEW i \in Foreign, NEW p \in Nodes \cup {Unparsable}, GenOddActThree(i, p)
    PROVE  IInv'
<1>0. i \in Initiators /\ i \in Handshakes /\ i \notin Responders
  BY SessionsAssumption DEF Handshakes
<1>01. phase[i] = "genThree" /\ hs[i].nonce <= MaxOdd
  BY DEF GenOddActThree
<1>03. PICK R, r, L, h, n, c, longer : Seals(i, p, R, r, L, h, n, c, longer)
  BY Zenon DEF Seals
<1>02. /\ R = hs[i].rs /\ r = hs[i].re /\ L = hs[i].ls /\ h = hs[i].h /\ n = hs[i].nonce
       /\ c = Sealed(hs[i], p) /\ longer = Append(h, c)
  BY <1>03, Zenon DEF Seals
<1>1. /\ i \notin poisoned /\ R \in Nodes /\ L \in Nodes /\ Answered(r, i)
      /\ n \in 1..(MaxOdd + 1) /\ Len(h) = 4 + n
      /\ c = SealStatic(i, R, r, n, h, p)
      /\ EncryptAndHash(hs[i], p) = State(longer, KeyTwo(i, R, r), n + 1, L, r, R)
      /\ IsSeq(longer) /\ Len(longer) = 5 + n /\ longer[5 + n] = c
      /\ \A k \in 1..Len(h) : longer[k] = h[k]
  BY <1>0, <1>01, <1>03, SealsStatic
<1>2. phase[i] = "genThree" /\ n <= MaxOdd
  BY <1>01, <1>02
<1>3. PICK state, act : /\ state = State(longer, KeyTwo(i, R, r), n + 1, L, r, R)
                        /\ act = [version |-> 0, static |-> c, tag |-> Garbage]
  OBVIOUS
<1>4. /\ Become(i, state, "genThree")
      /\ net66' = net66 \cup {act}
      /\ UNCHANGED <<net50, errors, poisoned>>
  BY <1>1, <1>02, <1>3, Zenon DEF GenOddActThree, Succeed
<1>5. state.ls = L /\ state.rs = R /\ state.re = r /\ state.h = longer
  BY <1>3, StateParts
<1>7. Keeps(i, state, "genThree")
  <2>1. Len(longer) \in Nat /\ Len(h) <= Len(longer)
    BY <1>1
  <2>. QED  BY <1>0, <1>02, <1>1, <1>2, <1>5, <2>1 DEF Keeps
<1>8. hs'[i] = state /\ phase'[i] = "genThree"
  BY <1>0, <1>4, <1>7, OthersKeep
<1>9. Answered(r, i)'
  BY <1>0, <1>02, <1>1, <1>4, <1>5, <1>8, AnsweredStays
<1>10. n + 1 \in 1..(MaxOdd + 1) /\ Len(longer) = 4 + (n + 1)
  BY <1>2, <1>1, BoundAssumption
<1>11. InitiatorState(i)'
  <2>1. Going(i)' /\ hs'[i] = State(hs'[i].h, KeyTwo(i, R, r), hs'[i].nonce, L, r, R)
    <3>1. hs'[i] = State(longer, KeyTwo(i, R, r), n + 1, L, r, R)
      BY <1>3, <1>8, Zenon
    <3>2. PICK m \in 1..(MaxOdd + 1) : m = n + 1
      BY <1>10
    <3>3. /\ hs'[i] = State(longer, KeyTwo(i, R, r), m, L, r, R)
          /\ IsSeq(longer) /\ Len(longer) = 4 + m
      BY <1>1, <1>10, <3>1, <3>2, Zenon
    <3>. QED  BY <3>2, <3>3, GoesOn
  <2>. QED  BY <1>1, <1>4, <1>5, <1>8, <1>9, <2>1 DEF InitiatorState
<1>12. \A a \in net66' \ net66 : Sent66(a)'
  <2>1. SUFFICES Sent66(act)'
    BY <1>4
  <2>2. act.static = c /\ act.tag = Garbage /\ act = [version |-> 0, static |-> act.static, tag |-> act.tag]
    BY <1>3
  <2>3. c.nonce = n /\ c.ad = h /\ c.plain = p
    BY <1>1, SealStaticParts
  <2>4. Statics(i, c)'
    <3>1. 5 + n <= Len(longer)
      BY <1>1
    <3>. QED  BY <1>1, <1>5, <1>8, <2>3, <3>1, Zenon DEF Statics
  <2>5. Odd(i, act)'
    BY <1>2, <2>2, <2>3 DEF Odd
  <2>. QED  BY <1>0, <1>8, <2>2, <2>4, <2>5 DEF Sent66
<1>. QED  BY <1>0, <1>4, <1>7, <1>11, <1>12, CallKeeps DEF Tried, Phases

LEMMA GenActThreeIInv ==
    ASSUME IInv, NEW i \in Initiators, GenActThree(i)
    PROVE  IInv'
<1>0. i \in Handshakes /\ i \notin Responders
  BY SessionsAssumption DEF Handshakes
<1>01. phase[i] = "genThree"
  BY DEF GenActThree
<1>03. PICK R, r, L, h, n, c, longer : Seals(i, hs[i].ls, R, r, L, h, n, c, longer)
  BY Zenon DEF Seals
<1>02. /\ R = hs[i].rs /\ r = hs[i].re /\ L = hs[i].ls /\ h = hs[i].h /\ n = hs[i].nonce
       /\ c = Sealed(hs[i], L) /\ longer = Append(h, c)
  BY <1>03, Zenon DEF Seals
<1>1. /\ i \notin poisoned /\ R \in Nodes /\ L \in Nodes /\ Answered(r, i)
      /\ n \in 1..(MaxOdd + 1) /\ Len(h) = 4 + n
      /\ c = SealStatic(i, R, r, n, h, L)
      /\ EncryptAndHash(hs[i], L) = State(longer, KeyTwo(i, R, r), n + 1, L, r, R)
      /\ IsSeq(longer) /\ Len(longer) = 5 + n /\ longer[5 + n] = c
      /\ \A k \in 1..Len(h) : longer[k] = h[k]
  <2>1. Seals(i, L, R, r, L, h, n, c, longer)
    BY <1>02, <1>03, Zenon
  <2>. QED  BY <1>01, <2>1, SealsStatic
<1>2. phase[i] = "genThree"
  BY <1>01
<1>. DEFINE keyed == MixKey(EncryptAndHash(hs[i], L), ECDH(L, r))
<1>3. PICK t, whole, state, act :
         /\ t = SealThree(i, R, r, L, longer)
         /\ whole = Append(longer, t)
         /\ state = State(whole, KeyThree(i, R, r, L), 1, L, r, R)
         /\ act = [version |-> 0, static |-> c, tag |-> t]
  OBVIOUS
<1>4. keyed = State(longer, KeyThree(i, R, r, L), 0, L, r, R)
  <2>1. keyed = State(longer, Append(KeyTwo(i, R, r), ECDH(L, r)), 0, L, r, R)
    <3>1. MixKey(State(longer, KeyTwo(i, R, r), n + 1, L, r, R), ECDH(L, r))
            = State(longer, Append(KeyTwo(i, R, r), ECDH(L, r)), 0, L, r, R)
      BY StateKey
    <3>. QED  BY <1>1, <3>1, Zenon
  <2>2. Append(KeyTwo(i, R, r), ECDH(L, r)) = KeyThree(i, R, r, L)
    BY Append2 DEF KeyTwo, KeyThree
  <2>. QED  BY <2>1, <2>2, Zenon
<1>5. /\ net66' = net66 \cup {[version |-> 0, static |-> Sealed(hs[i], L),
                               tag |-> Sealed(keyed, None)]}
      /\ Become(i, EncryptAndHash(keyed, None), "done")
      /\ UNCHANGED <<net50, errors, poisoned>>
  BY <1>02, Zenon DEF GenActThree, Succeed
<1>. HIDE DEF keyed
<1>6. Sealed(keyed, None) = t
  <2>1. Sealed(State(longer, KeyThree(i, R, r, L), 0, L, r, R), None)
          = [key |-> KeyThree(i, R, r, L), nonce |-> 0, ad |-> longer, plain |-> None]
    BY StateSealed
  <2>. QED  BY <1>3, <1>4, <2>1, Zenon DEF SealThree
<1>7. EncryptAndHash(keyed, None) = state
  <2>1. EncryptAndHash(keyed, None) = Mixed(State(longer, KeyThree(i, R, r, L), 0, L, r, R), t)
    BY <1>4, <1>6, Zenon DEF EncryptAndHash
  <2>2. 0 + 1 = 1
    OBVIOUS
  <2>3. Mixed(State(longer, KeyThree(i, R, r, L), 0, L, r, R), t)
          = State(whole, KeyThree(i, R, r, L), 0 + 1, L, r, R)
    BY <1>3, StateMixed
  <2>. QED  BY <1>3, <2>1, <2>2, <2>3, Zenon
<1>8. /\ Become(i, state, "done")
      /\ net66' = net66 \cup {act}
      /\ UNCHANGED <<net50, errors, poisoned>>
  BY <1>02, <1>3, <1>5, <1>6, <1>7, Zenon
<1>9. state.ls = L /\ state.rs = R /\ state.re = r /\ state.h = whole
  <2>1. ASSUME NEW ck, state = State(whole, ck, 1, L, r, R)
        PROVE  state.ls = L /\ state.rs = R /\ state.re = r /\ state.h = whole
    BY <2>1 DEF State
  <2>. QED  BY <1>3, <2>1, Zenon
<1>11. /\ IsSeq(whole) /\ Len(whole) = 6 + n /\ whole[Len(whole)] = t
       /\ whole[5 + n] = c /\ \A k \in 1..Len(h) : whole[k] = h[k]
  <2>1. /\ IsSeq(whole) /\ Len(whole) = Len(longer) + 1
        /\ \A k \in 1..Len(longer) : whole[k] = longer[k]
        /\ whole[Len(longer) + 1] = t
    <3>1. /\ IsSeq(Append(longer, t)) /\ Len(Append(longer, t)) = Len(longer) + 1
          /\ Append(longer, t)[Len(longer) + 1] = t
          /\ \A k \in 1..Len(longer) : Append(longer, t)[k] = longer[k]
      BY <1>1, IsSeqAppend
    <3>. QED  BY <1>3, <3>1, Zenon
  <2>2. n \in Nat
    BY <1>1, BoundAssumption
  <2>3. 5 + n \in 1..(5 + n) /\ (5 + n) + 1 = 6 + n
    BY <2>2
  <2>4. whole[5 + n] = c /\ Len(whole) = 6 + n
    BY <1>1, <2>1, <2>3, Zenon
  <2>5. ASSUME NEW k \in 1..Len(h)
        PROVE  k \in 1..Len(longer)
    BY <1>1, <2>2
  <2>. QED  BY <1>1, <2>1, <2>4, <2>5, Zenon
<1>12. whole = Append(Append(h, c), t)
  BY <1>02, <1>3, Zenon
<1>13. Keeps(i, state, "done")
  <2>1. Len(whole) \in Nat /\ Len(h) <= Len(whole)
    BY <1>1, <1>11, BoundAssumption
  <2>. QED  BY <1>0, <1>02, <1>1, <1>2, <1>9, <1>11, <2>1 DEF Keeps
<1>14. hs'[i] = state /\ phase'[i] = "done"
  BY <1>0, <1>8, <1>13, OthersKeep
<1>15. Answered(r, i)'
  BY <1>02, <1>1, <1>8, <1>9, <1>14, AnsweredStays
<1>16. InitiatorState(i)'
  <2>1. Gone(i)'
    <3>1. 6 + n \in 7..(7 + MaxOdd)
      BY <1>1, BoundAssumption
    <3>. QED  BY <1>9, <1>11, <1>14, <3>1 DEF Gone
  <2>. QED  BY <1>1, <1>8, <1>3, <1>9, <1>14, <1>15, <2>1 DEF InitiatorState
<1>17. \A a \in net66' \ net66 : Sent66(a)'
  <2>1. SUFFICES Sent66(act)'
    BY <1>8
  <2>2. act.static = c /\ act.tag = t /\ act = [version |-> 0, static |-> act.static, tag |-> act.tag]
    BY <1>3
  <2>3. c.nonce = n /\ c.ad = h /\ c.plain = L
    BY <1>1, SealStaticParts
  <2>4. Statics(i, c)'
    <3>1. 5 + n <= Len(whole)
      BY <1>1, <1>11, BoundAssumption
    <3>. QED  BY <1>1, <1>9, <1>11, <1>14, <2>3, <3>1, Zenon DEF Statics
  <2>5. Last(i, act)'
    <3>1. t = SealThree(i, R, r, L, Append(h, c))
      BY <1>02, <1>3, Zenon
    <3>. QED  BY <1>9, <1>11, <1>12, <1>14, <2>2, <2>3, <3>1, Zenon DEF Last
  <2>. QED  BY <1>14, <2>2, <2>4, <2>5 DEF Sent66
<1>. QED  BY <1>0, <1>8, <1>13, <1>16, <1>17, CallKeeps DEF Tried, Phases

\* RecvActThree, with the names of what a handshake in the middle would make
LEMMA RecvActThreeStep ==
    ASSUME NEW r, NEW a, RecvActThree(r, a),
           NEW opened, opened = Mixed(hs[r], a.static),
           NEW known, known = [opened EXCEPT !.rs = a.static.plain],
           NEW keyed, keyed = MixKey(known, ECDH(r, a.static.plain))
    PROVE  /\ phase[r] = "recvThree" /\ UNCHANGED <<net50, net66>> /\ Tried(r)
           /\ \/ Become(r, hs[r], phase[r]) /\ UNCHANGED poisoned
              \/ /\ Opens(hs[r], a.static) /\ a.static.plain = Unparsable
                 /\ Become(r, opened, "recvThree") /\ UNCHANGED poisoned
              \/ /\ Opens(hs[r], a.static) /\ a.static.plain # Unparsable
                 /\ Opens(keyed, a.tag)
                 /\ Become(r, Mixed(keyed, a.tag), "done") /\ UNCHANGED poisoned
              \/ /\ Opens(hs[r], a.static) /\ a.static.plain # Unparsable
                 /\ Become(r, keyed, "recvThree") /\ poisoned' = poisoned \cup {r}
<1>1. /\ phase[r] = "recvThree"
      /\ IF a.version # 0 \/ ~Opens(hs[r], a.static)
         THEN FailClean(r)
         ELSE IF a.static.plain = Unparsable
              THEN FailOpened(r, a.static)
              ELSE IF Opens(keyed, a.tag)
                   THEN Succeed(r, Mixed(keyed, a.tag), "done")
                   ELSE FailDirty(r, keyed)
      /\ UNCHANGED <<net50, net66>>
  BY Zenon DEF RecvActThree, DecryptAndHash
<1>2. CASE a.version # 0 \/ ~Opens(hs[r], a.static)
  BY <1>1, <1>2, Zenon DEF FailClean, Fail, Tried
<1>3. CASE ~(a.version # 0 \/ ~Opens(hs[r], a.static)) /\ a.static.plain = Unparsable
  BY <1>1, <1>3, Zenon DEF FailOpened, Fail, Tried, DecryptAndHash
<1>4. CASE /\ ~(a.version # 0 \/ ~Opens(hs[r], a.static)) /\ a.static.plain # Unparsable
           /\ Opens(keyed, a.tag)
  BY <1>1, <1>4, Zenon DEF Succeed, Tried
<1>5. CASE /\ ~(a.version # 0 \/ ~Opens(hs[r], a.static)) /\ a.static.plain # Unparsable
           /\ ~Opens(keyed, a.tag)
  BY <1>1, <1>5, Zenon DEF FailDirty, Fail, Tried
<1>. QED  BY <1>2, <1>3, <1>4, <1>5, Zenon

LEMMA RecvActThreeIInv ==
    ASSUME IInv, NEW r \in Responders, NEW a \in net66 \cup Damaged66, RecvActThree(r, a)
    PROVE  IInv'
<1>1. PICK R, i, h, n, c, t, p, longer :
         /\ R = hs[r].ls /\ i = hs[r].re /\ h = hs[r].h /\ n = hs[r].nonce
         /\ c = a.static /\ t = a.tag /\ p = c.plain /\ longer = Append(h, c)
  OBVIOUS
<1>2. PICK opened, known, keyed, done :
         /\ opened = Mixed(hs[r], a.static)
         /\ known = [opened EXCEPT !.rs = a.static.plain]
         /\ keyed = MixKey(known, ECDH(r, a.static.plain))
         /\ done = Mixed(keyed, a.tag)
  OBVIOUS
<1>3. r \in Handshakes /\ r \notin Initiators
  BY SessionsAssumption DEF Handshakes
<1>4. /\ phase[r] = "recvThree" /\ UNCHANGED <<net50, net66>> /\ Tried(r)
      /\ \/ Become(r, hs[r], phase[r]) /\ UNCHANGED poisoned
         \/ /\ Opens(hs[r], c) /\ p = Unparsable
            /\ Become(r, opened, "recvThree") /\ UNCHANGED poisoned
         \/ /\ Opens(hs[r], c) /\ p # Unparsable /\ Opens(keyed, t)
            /\ Become(r, done, "done") /\ UNCHANGED poisoned
         \/ /\ Opens(hs[r], c) /\ p # Unparsable
            /\ Become(r, keyed, "recvThree") /\ poisoned' = poisoned \cup {r}
  <2>1. /\ phase[r] = "recvThree" /\ UNCHANGED <<net50, net66>> /\ Tried(r)
        /\ \/ Become(r, hs[r], phase[r]) /\ UNCHANGED poisoned
           \/ /\ Opens(hs[r], a.static) /\ a.static.plain = Unparsable
              /\ Become(r, opened, "recvThree") /\ UNCHANGED poisoned
           \/ /\ Opens(hs[r], a.static) /\ a.static.plain # Unparsable
              /\ Opens(keyed, a.tag)
              /\ Become(r, Mixed(keyed, a.tag), "done") /\ UNCHANGED poisoned
           \/ /\ Opens(hs[r], a.static) /\ a.static.plain # Unparsable
              /\ Become(r, keyed, "recvThree") /\ poisoned' = poisoned \cup {r}
    BY <1>2, RecvActThreeStep
  <2>. QED  BY <1>1, <1>2, <2>1, Zenon
<1>5. /\ R \in Nodes /\ i \in Initiators /\ hs[i].rs = R
      /\ r \notin poisoned =>
           Going(r) /\ hs[r] = State(h, KeyTwo(i, R, r), n, R, i, None)
      /\ r \in poisoned => hs[r].ck = KeyThree(i, R, r, hs[r].rs)
  <2>1. ResponderState(r)
    BY DEF IInv, Sessions
  <2>2. /\ R \in Nodes /\ i \in Initiators /\ hs[i].rs = R
        /\ r \notin poisoned =>
             Going(r) /\ hs[r] = State(h, KeyTwo(i, R, r), n, R, i, None)
        /\ r \in poisoned =>
             hs[r] = State(h, KeyThree(i, R, r, hs[r].rs), 0, R, i, hs[r].rs)
    BY <1>1, <1>4, <2>1 DEF ResponderState
  <2>3. ASSUME NEW ck, hs[r] = State(h, ck, 0, R, i, hs[r].rs)
        PROVE  hs[r].ck = ck
    BY <2>3 DEF State
  <2>. QED  BY <2>2, <2>3
<1>6. CASE Become(r, hs[r], phase[r]) /\ UNCHANGED poisoned
  BY <1>3, <1>4, <1>6, CleanIInv
<1>7. ASSUME Opens(hs[r], c)
      PROVE  /\ r \notin poisoned
             /\ hs[r] = State(h, KeyTwo(i, R, r), n, R, i, None)
             /\ n \in 1..(MaxOdd + 1) /\ IsSeq(h) /\ Len(h) = 4 + n
             /\ c.key = KeyTwo(i, R, r) /\ c.nonce = n /\ c.ad = h
             /\ p \in Nodes \cup {Unparsable}
             /\ (i \in Foreign /\ n <= MaxOdd) \/ (phase[i] = "done" /\ p = hs[i].ls)
             /\ hs[i].re = r
  <2>1. r \notin poisoned
    <3>1. SUFFICES ASSUME r \in poisoned PROVE FALSE
      OBVIOUS
    <3>2. a.static.key = KeyThree(i, R, r, hs[r].rs)
      BY <1>1, <1>5, <1>7, <3>1 DEF Opens
    <3>3. Len(a.static.key) = 3
      BY <3>2, TupleLengths, Zenon DEF KeyThree
    <3>. QED  BY <3>3, OpensKey
  <2>2. hs[r] = State(h, KeyTwo(i, R, r), n, R, i, None)
    BY <1>5, <2>1
  <2>3. n \in 1..(MaxOdd + 1) /\ IsSeq(h) /\ Len(h) = 4 + n
    BY <1>1, <1>5, <2>1, Zenon DEF Going
  <2>4. c.key = KeyTwo(i, R, r) /\ c.nonce = n /\ c.ad = h
    <3>1. ASSUME NEW ck, hs[r] = State(h, ck, n, R, i, None)
          PROVE  hs[r].ck = ck
      BY <3>1 DEF State
    <3>. QED  BY <1>1, <1>7, <2>2, <3>1, Zenon DEF Opens
  <2>5. /\ hs[i].re = r
        /\ Statics(i, c)
        /\ (i \in Foreign /\ c.nonce <= MaxOdd) \/ (phase[i] = "done" /\ p = hs[i].ls)
    <3>1. a.static.key = KeyTwo(i, R, r)
      BY <1>1, <2>4, Zenon
    <3>2. /\ hs[i].re = r
          /\ Statics(i, a.static)
          /\ \/ i \in Foreign /\ a.static.nonce <= MaxOdd
             \/ phase[i] = "done" /\ a.static.plain = hs[i].ls
      BY <1>5, <3>1, OpensStatic
    <3>. QED  BY <1>1, <3>2, Zenon
  <2>6. p \in Nodes \cup {Unparsable}
    BY <1>1, <2>5, Zenon DEF Statics
  <2>. QED  BY <2>1, <2>2, <2>3, <2>4, <2>5, <2>6, Zenon
<1>8. ASSUME Opens(hs[r], c)
      PROVE  /\ opened = State(longer, KeyTwo(i, R, r), n + 1, R, i, None)
             /\ IsSeq(longer) /\ Len(longer) = 4 + (n + 1)
             /\ keyed = State(longer, KeyThree(i, R, r, p), 0, R, i, p)
             /\ done = State(Append(longer, t), KeyThree(i, R, r, p), 1, R, i, p)
  <2>1. n \in Nat /\ Len(h) = 4 + n /\ IsSeq(h)
    BY <1>7, <1>8, BoundAssumption
  <2>2. opened = State(longer, KeyTwo(i, R, r), n + 1, R, i, None)
    <3>1. Mixed(State(h, KeyTwo(i, R, r), n, R, i, None), c)
            = State(Append(h, c), KeyTwo(i, R, r), n + 1, R, i, None)
      BY <2>1, StateMixed
    <3>. QED  BY <1>1, <1>2, <1>7, <1>8, <3>1, Zenon
  <2>3. IsSeq(longer) /\ Len(longer) = 4 + (n + 1)
    <3>1. IsSeq(longer) /\ Len(longer) = Len(h) + 1
      BY <1>1, <2>1, IsSeqAppend
    <3>. QED  BY <2>1, <3>1
  <2>4. known = State(longer, KeyTwo(i, R, r), n + 1, R, i, p)
    <3>1. [State(longer, KeyTwo(i, R, r), n + 1, R, i, None) EXCEPT !.rs = p]
            = State(longer, KeyTwo(i, R, r), n + 1, R, i, p)
      <4>. DEFINE ck == KeyTwo(i, R, r)
                  m  == n + 1
      <4>. HIDE DEF ck, m
      <4>1. [State(longer, ck, m, R, i, None) EXCEPT !.rs = p] = State(longer, ck, m, R, i, p)
        BY DEF State
      <4>. QED  BY <4>1 DEF ck, m
    <3>. QED  BY <1>1, <1>2, <2>2, <3>1, Zenon
  <2>5. keyed = State(longer, KeyThree(i, R, r, p), 0, R, i, p)
    <3>1. Append(KeyTwo(i, R, r), ECDH(p, r)) = KeyThree(i, R, r, p)
      BY Append2 DEF KeyTwo, KeyThree
    <3>2. MixKey(State(longer, KeyTwo(i, R, r), n + 1, R, i, p), ECDH(p, r))
            = State(longer, Append(KeyTwo(i, R, r), ECDH(p, r)), 0, R, i, p)
      BY StateKey
    <3>. QED  BY <1>1, <1>2, <2>4, <3>1, <3>2, ECDHCommutes, Zenon
  <2>6. done = State(Append(longer, t), KeyThree(i, R, r, p), 1, R, i, p)
    <3>1. Mixed(State(longer, KeyThree(i, R, r, p), 0, R, i, p), t)
            = State(Append(longer, t), KeyThree(i, R, r, p), 0 + 1, R, i, p)
      BY StateMixed
    <3>2. 0 + 1 = 1
      OBVIOUS
    <3>. QED  BY <1>1, <1>2, <2>5, <3>1, <3>2, Zenon
  <2>. QED  BY <2>2, <2>3, <2>5, <2>6
<1>9. ASSUME Opens(hs[r], c), NEW state, NEW next, NEW hash, NEW ck, NEW m, NEW rs,
             state = State(hash, ck, m, R, i, rs),
             next = "recvThree" \/ next = "done",
             Become(r, state, next), poisoned' = poisoned \/ poisoned' = poisoned \cup {r}
      PROVE  /\ Keeps(r, state, next) /\ hs'[r] = state /\ phase'[r] = next
             /\ hs'[r].ls = R /\ hs'[r].re = i /\ hs'[r].rs = rs /\ hs'[r].h = hash
             /\ hs'[r].nonce = m
             /\ hs'[i] = hs[i] /\ phase'[i] = phase[i] /\ hs'[i].rs = R
  <2>1. state.ls = R /\ state.re = i /\ state.rs = rs /\ state.h = hash /\ state.nonce = m
    BY <1>9, StateParts
  <2>2. Keeps(r, state, next)
    BY <1>1, <1>3, <1>4, <1>9, <2>1 DEF Keeps
  <2>3. hs'[r] = state /\ phase'[r] = next
    BY <1>3, <1>9, <2>2, OthersKeep
  <2>4. i \in Handshakes /\ i # r
    BY <1>3, <1>5 DEF Handshakes
  <2>5. hs'[i] = hs[i] /\ phase'[i] = phase[i]
    BY <1>3, <1>9, <2>4 DEF Become
  <2>. QED  BY <1>5, <2>1, <2>2, <2>3, <2>5
<1>10. CASE /\ Opens(hs[r], c) /\ p = Unparsable
            /\ Become(r, opened, "recvThree") /\ UNCHANGED poisoned
  <2>1. opened = State(longer, KeyTwo(i, R, r), n + 1, R, i, None)
    BY <1>8, <1>10
  <2>2. PICK m \in 1..(MaxOdd + 1) : m = n + 1
    <3>1. n <= MaxOdd
      <4>1. hs[i].ls # Unparsable
        BY <1>5, SessionsAssumption DEF IInv, Sessions, InitiatorState, Keys
      <4>. QED  BY <1>7, <1>10, <4>1
    <3>. QED  BY <1>7, <1>10, <3>1, BoundAssumption
  <2>3. /\ Keeps(r, opened, "recvThree") /\ hs'[r] = opened /\ phase'[r] = "recvThree"
        /\ hs'[r].ls = R /\ hs'[r].re = i /\ hs'[r].rs = None /\ hs'[i].rs = R
    BY <1>9, <1>10, <2>1
  <2>4. Going(r)' /\ hs'[r] = State(hs'[r].h, KeyTwo(i, R, r), hs'[r].nonce, R, i, None)
    <3>1. /\ hs'[r] = State(longer, KeyTwo(i, R, r), m, R, i, None)
          /\ IsSeq(longer) /\ Len(longer) = 4 + m
      BY <1>8, <1>10, <2>1, <2>2, <2>3, Zenon
    <3>2. m \in 1..(MaxOdd + 1)
      BY <2>2
    <3>. QED  BY <3>1, <3>2, GoesOn
  <2>5. ResponderState(r)'
    BY <1>5, <1>7, <1>10, <2>3, <2>4 DEF ResponderState
  <2>. QED  BY <1>3, <1>4, <1>10, <2>3, <2>5, CallKeeps DEF Phases
<1>11. CASE /\ Opens(hs[r], c) /\ p # Unparsable /\ Opens(keyed, t)
            /\ Become(r, done, "done") /\ UNCHANGED poisoned
  <2>1. /\ keyed = State(longer, KeyThree(i, R, r, p), 0, R, i, p)
        /\ done = State(Append(longer, t), KeyThree(i, R, r, p), 1, R, i, p)
    BY <1>8, <1>11
  <2>2. t.key = KeyThree(i, R, r, p) /\ t.ad = longer
    <3>1. keyed.ck = KeyThree(i, R, r, p) /\ keyed.h = longer
      <4>1. ASSUME NEW ck, keyed = State(longer, ck, 0, R, i, p)
            PROVE  keyed.ck = ck /\ keyed.h = longer
        BY <4>1 DEF State
      <4>. QED  BY <2>1, <4>1, Zenon
    <3>. QED  BY <1>11, <3>1, Zenon DEF Opens
  <2>3. p \in Nodes
    BY <1>7, <1>11
  <2>4. Finished(i, r, p) /\ hs[i].h = Append(longer, t)
    <3>1. a.tag.key = KeyThree(i, R, r, p)
      BY <1>1, <2>2, Zenon
    <3>2. Finished(i, r, p) /\ hs[i].h = Append(a.tag.ad, a.tag)
      BY <1>5, <2>3, <3>1, OpensThree
    <3>. QED  BY <1>1, <2>2, <3>2, Zenon
  <2>5. /\ Keeps(r, done, "done") /\ hs'[r] = done /\ phase'[r] = "done"
        /\ hs'[r].ls = R /\ hs'[r].re = i /\ hs'[r].rs = p /\ hs'[r].h = Append(longer, t)
        /\ hs'[i] = hs[i] /\ phase'[i] = phase[i] /\ hs'[i].rs = R
    <3>1. PICK hash, ck : hash = Append(longer, t) /\ ck = KeyThree(i, R, r, p)
      OBVIOUS
    <3>2. done = State(hash, ck, 1, R, i, p)
      BY <2>1, <3>1, Zenon
    <3>3. /\ Keeps(r, done, "done") /\ hs'[r] = done /\ phase'[r] = "done"
          /\ hs'[r].ls = R /\ hs'[r].re = i /\ hs'[r].rs = p /\ hs'[r].h = hash
          /\ hs'[i] = hs[i] /\ phase'[i] = phase[i] /\ hs'[i].rs = R
      BY <1>9, <1>11, <3>2
    <3>. QED  BY <3>1, <3>3, Zenon
  <2>6. Finished(i, r, p)' /\ hs'[i].h = hs'[r].h
    BY <2>4, <2>5 DEF Finished
  <2>7. hs'[r] = State(hs'[r].h, KeyThree(i, R, r, p), 1, R, i, p)
    BY <2>1, <2>5, Zenon
  <2>8. ResponderState(r)'
    BY <1>5, <1>7, <1>11, <2>3, <2>5, <2>6, <2>7 DEF ResponderState
  <2>. QED  BY <1>3, <1>4, <1>11, <2>5, <2>8, CallKeeps DEF Phases
<1>12. CASE /\ Opens(hs[r], c) /\ p # Unparsable
            /\ Become(r, keyed, "recvThree") /\ poisoned' = poisoned \cup {r}
  <2>1. keyed = State(longer, KeyThree(i, R, r, p), 0, R, i, p)
    BY <1>8, <1>12
  <2>2. p \in Nodes
    BY <1>7, <1>12
  <2>3. /\ Keeps(r, keyed, "recvThree") /\ hs'[r] = keyed /\ phase'[r] = "recvThree"
        /\ hs'[r].ls = R /\ hs'[r].re = i /\ hs'[r].rs = p /\ hs'[r].h = longer
        /\ hs'[i] = hs[i] /\ phase'[i] = phase[i] /\ hs'[i].rs = R
    BY <1>9, <1>12, <2>1
  <2>4. i \in Foreign \/ Finished(i, r, p)'
    BY <1>5, <1>7, <1>12, <2>3 DEF Finished
  <2>5. hs'[r] = State(hs'[r].h, KeyThree(i, R, r, p), 0, R, i, p)
    BY <2>1, <2>3, Zenon
  <2>6. ResponderState(r)'
    BY <1>5, <1>12, <2>2, <2>3, <2>4, <2>5 DEF ResponderState
  <2>. QED  BY <1>3, <1>4, <1>12, <2>3, <2>6, CallKeeps DEF Phases
<1>. QED  BY <1>4, <1>6, <1>10, <1>11, <1>12
-----------------------------------------------------------------------------
(***************************************************************************)
(* The theorems                                                            *)
(***************************************************************************)

LEMMA InitIInv == Init => IInv
<1>. SUFFICES ASSUME Init PROVE IInv
  OBVIOUS
<1>. DEFINE first(local, s) ==
       IF s \in Initiators THEN NewInitiatorHandshake(local[s], local[Answers[s]])
                           ELSE NewResponderHandshake(local[s])
<1>1. PICK local \in [Handshakes -> Nodes] : hs = [s \in Handshakes |-> first(local, s)]
  BY DEF Init
<1>2. /\ phase = [s \in Handshakes |-> IF s \in Initiators THEN "genOne" ELSE "recvOne"]
      /\ net50 = {} /\ net66 = {} /\ errors = [s \in Handshakes |-> 0] /\ poisoned = {}
  BY DEF Init
<1>3. Counted
  BY <1>2, BoundAssumption DEF Counted, Phases
<1>4. hs = [s \in Handshakes |-> hs[s]]
  <2>. HIDE DEF first
  <2>. QED  BY <1>1
<1>5. ASSUME NEW i \in Initiators
      PROVE  InitiatorState(i)
  <2>1. i \in Handshakes /\ Answers[i] \in Handshakes
    BY AnswersAssumption DEF Handshakes
  <2>2. PICK L \in Nodes, R \in Nodes : L = local[i] /\ R = local[Answers[i]]
    BY <2>1
  <2>3. hs[i] = NewInitiatorHandshake(L, R)
    BY <1>1, <2>1, <2>2
  <2>4. hs[i] = State(<<Pub(R)>>, <<>>, 0, L, None, R)
    BY <2>3 DEF NewInitiatorHandshake, newHandshake, State
  <2>5. hs[i].ls = L /\ hs[i].rs = R /\ phase[i] = "genOne"
    BY <1>2, <2>1, <2>4 DEF State
  <2>. QED  BY <1>2, <2>2, <2>4, <2>5 DEF InitiatorState
<1>6. ASSUME NEW r \in Responders
      PROVE  ResponderState(r)
  <2>1. r \in Handshakes /\ r \notin Initiators
    BY SessionsAssumption DEF Handshakes
  <2>2. PICK R \in Nodes : R = local[r]
    BY <2>1
  <2>3. hs[r] = NewResponderHandshake(R)
    BY <1>1, <2>1, <2>2
  <2>4. hs[r] = State(<<Pub(R)>>, <<>>, 0, R, None, None)
    BY <2>3 DEF NewResponderHandshake, newHandshake, State
  <2>5. hs[r].ls = R /\ hs[r].rs = None /\ phase[r] = "recvOne"
    BY <1>2, <2>1, <2>4 DEF State
  <2>. QED  BY <1>2, <2>2, <2>4, <2>5 DEF ResponderState
<1>. QED  BY <1>2, <1>3, <1>4, <1>5, <1>6 DEF IInv, Sessions, Network

LEMMA NextIInv == IInv /\ [Next]_vars => IInv'
<1>. SUFFICES ASSUME IInv, [Next]_vars PROVE IInv'
  OBVIOUS
<1>1. CASE UNCHANGED vars
  <2>1. /\ hs' = hs /\ phase' = phase /\ net50' = net50 /\ net66' = net66
        /\ errors' = errors /\ poisoned' = poisoned
    BY <1>1 DEF vars
  <2>2. Counted'
    BY <2>1, Zenon DEF IInv, Counted
  <2>6. ASSUME NEW a \in net50
        PROVE  Sent50(a)'
    <3>1. Sent50(a)
      BY DEF IInv, Network
    <3>. QED  BY <2>1, <3>1, Zenon DEF Sent50, Answered
  <2>7. ASSUME NEW a \in net66
        PROVE  Sent66(a)'
    <3>1. Sent66(a)
      BY DEF IInv, Network
    <3>. QED  BY <2>1, <3>1, Zenon DEF Sent66, Statics, Odd, Last
  <2>8. Network'
    BY <2>1, <2>6, <2>7, Zenon DEF Network
  <2>3. ASSUME NEW i, InitiatorState(i)
        PROVE  InitiatorState(i)'
    BY <2>1, <2>3, Zenon DEF InitiatorState, Answered, Beyond, Going, Gone
  <2>4. ASSUME NEW r, ResponderState(r)
        PROVE  ResponderState(r)'
    BY <2>1, <2>4, Zenon DEF ResponderState, Finished, Beyond, Going
  <2>5. Sessions'
    BY <2>1, <2>3, <2>4 DEF IInv, Sessions
  <2>. QED  BY <2>2, <2>5, <2>8 DEF IInv
<1>2. ASSUME NEW s \in Handshakes, Gen(s)
      PROVE  IInv'
  <2>1. CASE s \in Initiators /\ GenActOne(s)
    BY <2>1, GenActOneIInv
  <2>2. CASE s \in Initiators /\ GenActThree(s)
    BY <2>2, GenActThreeIInv
  <2>3. CASE s \in Responders /\ GenActTwo(s)
    BY <2>3, GenActTwoIInv
  <2>. QED  BY <1>2, <2>1, <2>2, <2>3, Zenon DEF Gen
<1>3. ASSUME NEW s \in Handshakes, Recv(s, net50 \cup Damaged50, net66 \cup Damaged66)
      PROVE  IInv'
  <2>1. ASSUME s \in Responders, NEW a \in net50 \cup Damaged50, RecvActOne(s, a)
        PROVE  IInv'
    BY <2>1, RecvActOneIInv
  <2>2. ASSUME s \in Initiators, NEW a \in net50 \cup Damaged50, RecvActTwo(s, a)
        PROVE  IInv'
    BY <2>2, RecvActTwoIInv
  <2>3. ASSUME s \in Responders, NEW a \in net66 \cup Damaged66, RecvActThree(s, a)
        PROVE  IInv'
    BY <2>3, RecvActThreeIInv
  <2>. QED  BY <1>3, <2>1, <2>2, <2>3, Zenon DEF Recv
<1>4. ASSUME NEW i \in Foreign, NEW static \in Nodes \cup {Unparsable},
             GenOddActThree(i, static)
      PROVE  IInv'
  BY <1>4, GenOddActThreeIInv
<1>. QED  BY <1>1, <1>2, <1>3, <1>4, Zenon DEF Next

\* In every behaviour of Handshake, however the acts are crossed, repeated or
\* damaged and whatever static keys foreign initiators seal, each handshake has
\* mixed what its phase and its nonce say, or more than any tag was sealed under,
\* and the network holds nothing but what was sealed for it.
THEOREM Invariance == Spec => []IInv
<1>. QED  BY InitIInv, NextIInv, PTL DEF Spec

\* A handshake that refused a tag never completes: recvActOne, recvActTwo and
\* recvActThree leave the refused key mixed in.
THEOREM PoisonedStaysOut == Spec => []PoisonedNeverDone
<1>1. IInv => PoisonedNeverDone
  <2>. SUFFICES ASSUME IInv, NEW s \in poisoned PROVE phase[s] # "done"
    BY DEF PoisonedNeverDone
  <2>1. s \in Initiators \/ s \in Responders
    BY DEF IInv, Counted, Handshakes
  <2>2. CASE s \in Initiators
    BY <2>2 DEF IInv, Sessions, InitiatorState
  <2>3. CASE s \in Responders
    BY <2>3 DEF IInv, Sessions, ResponderState
  <2>. QED  BY <2>1, <2>2, <2>3
<1>. QED  BY <1>1, Invariance, PTL

\* RemoteStatic of a responder, which RecvActThree stores before the last tag
\* vouches for it, names the initiator it went through acts one and two with,
\* unless a foreign one named another node and the handshake has failed for good.
THEOREM RemoteStaticHolds == Spec => []RemoteStaticIsProven
<1>1. IInv => RemoteStaticIsProven
  <2>. SUFFICES ASSUME IInv, NEW r \in Responders, hs[r].rs # None
                PROVE  \/ \E i \in Initiators : phase[i] = "done" /\ IsRemoteOf(i, r)
                       \/ r \in poisoned /\ phase[r] # "done" /\ hs[r].re \in Foreign
    BY DEF RemoteStaticIsProven
  <2>1. ResponderState(r)
    BY DEF IInv, Sessions
  <2>2. phase[r] \in {"recvThree", "done"} /\ (phase[r] = "recvThree" => r \in poisoned)
    <3>1. CASE phase[r] = "recvThree" /\ r \notin poisoned
      <4>1. hs[r] = State(hs[r].h, KeyTwo(hs[r].re, hs[r].ls, r), hs[r].nonce,
                          hs[r].ls, hs[r].re, None)
        BY <2>1, <3>1 DEF ResponderState
      <4>2. ASSUME NEW h, NEW ck, NEW n, NEW ls, NEW re, hs[r] = State(h, ck, n, ls, re, None)
            PROVE  hs[r].rs = None
        BY <4>2 DEF State
      <4>. QED  BY <4>1, <4>2
    <3>. QED  BY <2>1, <3>1 DEF ResponderState
  <2>3. hs[hs[r].re].rs = hs[r].ls
    BY <2>1, <2>2 DEF ResponderState
  <2>4. CASE Finished(hs[r].re, r, hs[r].rs)
    BY <2>3, <2>4 DEF Finished, IsRemoteOf
  <2>5. CASE hs[r].re \in Foreign /\ phase[r] = "recvThree"
    BY <2>2, <2>5
  <2>. QED  BY <2>1, <2>2, <2>4, <2>5 DEF ResponderState
<1>. QED  BY <1>1, Invariance, PTL

\* Answered, in terms of keys
LEMMA AnsweredKeys ==
    ASSUME IInv, NEW i, NEW r, Answered(r, i)
    PROVE  hs[r].ck[1] = ECDH(i, hs[i].rs) /\ hs[r].ck[2] = ECDH(r, i)
<1>1. ResponderState(r) /\ hs[r].re = i /\ hs[r].ls = hs[i].rs /\ phase[r] \in {"recvThree", "done"}
  BY DEF IInv, Sessions, Answered
<1>2. PICK R, h, n, L : R = hs[i].rs /\ h = hs[r].h /\ n = hs[r].nonce /\ L = hs[r].rs
  OBVIOUS
<1>3. hs[r].ck = KeyTwo(i, R, r) \/ hs[r].ck = KeyThree(i, R, r, L)
  <2>1. CASE phase[r] = "recvThree" /\ r \notin poisoned
    <3>1. hs[r] = State(h, KeyTwo(i, R, r), n, R, i, None)
      BY <1>1, <1>2, <2>1 DEF ResponderState
    <3>. QED  BY <3>1, StateParts
  <2>2. CASE phase[r] = "recvThree" /\ r \in poisoned
    <3>1. hs[r] = State(h, KeyThree(i, R, r, L), 0, R, i, L)
      BY <1>1, <1>2, <2>2 DEF ResponderState
    <3>. QED  BY <3>1, StateParts
  <2>3. CASE phase[r] = "done"
    <3>1. hs[r] = State(h, KeyThree(i, R, r, L), 1, R, i, L)
      BY <1>1, <1>2, <2>3 DEF ResponderState
    <3>. QED  BY <3>1, StateParts
  <2>. QED  BY <1>1, <2>1, <2>2, <2>3
<1>. QED  BY <1>2, <1>3, KeyParts

\* Of an initiator that has accepted act two
LEMMA InitiatorKeys ==
    ASSUME IInv, NEW i \in Initiators, phase[i] \in {"genThree", "done"}
    PROVE  /\ Answered(hs[i].re, i) /\ hs[i].rs \in Nodes
           /\ hs[i].ck[1] = ECDH(i, hs[i].rs) /\ hs[i].ck[2] = ECDH(hs[i].re, i)
           /\ phase[i] = "done" => hs[i].ck = KeyThree(i, hs[i].rs, hs[i].re, hs[i].ls)
<1>1. PICK R, r, L, h, n :
         R = hs[i].rs /\ r = hs[i].re /\ L = hs[i].ls /\ h = hs[i].h /\ n = hs[i].nonce
  OBVIOUS
<1>2. InitiatorState(i)
  BY DEF IInv, Sessions
<1>3. Answered(r, i) /\ R \in Nodes
  BY <1>1, <1>2 DEF InitiatorState
<1>4. CASE phase[i] = "genThree"
  <2>1. hs[i] = State(h, KeyTwo(i, R, r), n, L, r, R)
    BY <1>1, <1>2, <1>4 DEF InitiatorState
  <2>2. hs[i].ck = KeyTwo(i, R, r)
    BY <2>1, StateParts
  <2>. QED  BY <1>1, <1>3, <1>4, <2>2, KeyParts
<1>5. CASE phase[i] = "done"
  <2>1. hs[i] = State(h, KeyThree(i, R, r, L), 1, L, r, R)
    BY <1>1, <1>2, <1>5 DEF InitiatorState
  <2>2. hs[i].ck = KeyThree(i, R, r, L)
    BY <2>1, StateParts
  <2>. QED  BY <1>1, <1>3, <1>5, <2>2, KeyParts
<1>. QED  BY <1>4, <1>5

\* An initiator that accepts act two in RecvActTwo got it from a handshake of
\* the node it dialled, which answers this initiator and shares its keys.
THEOREM InitiatorIsAnswered == Spec => []InitiatorAgrees
<1>1. IInv => InitiatorAgrees
  <2>. SUFFICES ASSUME IInv, NEW i \in Initiators, phase[i] \in {"genThree", "done"}
                PROVE  \E r \in Responders :
                          /\ hs[r].ls = hs[i].rs
                          /\ hs[i].re = r /\ hs[r].re = i
                          /\ hs[r].ck[1] = hs[i].ck[1] /\ hs[r].ck[2] = hs[i].ck[2]
    BY DEF InitiatorAgrees
  <2>1. Answered(hs[i].re, i)
    BY InitiatorKeys
  <2>2. hs[hs[i].re].ck[1] = hs[i].ck[1] /\ hs[hs[i].re].ck[2] = hs[i].ck[2]
    BY <2>1, InitiatorKeys, AnsweredKeys
  <2>. QED  BY <2>1, <2>2 DEF Answered
<1>. QED  BY <1>1, Invariance, PTL

\* A responder that finishes act three in RecvActThree shares its transcript
\* and its transport keys with the initiator that dialled it, which is the node
\* that RemoteStatic names, and its chaining key with no other handshake.
THEOREM ResponderIsMet == Spec => []ResponderAgrees
<1>1. IInv => ResponderAgrees
  <2>. SUFFICES ASSUME IInv, NEW r \in Responders, phase[r] = "done"
                PROVE  \E i \in Initiators :
                          /\ phase[i] = "done"
                          /\ hs[i].h = hs[r].h
                          /\ Mirrored(i, r)
                          /\ hs[i].rs = hs[r].ls /\ hs[r].rs = hs[i].ls
                          /\ \A s \in Handshakes \ {i, r} : phase[s] = "done" => hs[s].ck # hs[r].ck
    BY DEF ResponderAgrees
  <2>. DEFINE i == hs[r].re
              R == hs[r].ls
              L == hs[r].rs
              h == hs[r].h
  <2>1. /\ Finished(i, r, L) /\ hs[i].rs = R /\ R \in Nodes /\ hs[i].h = h
        /\ hs[r] = State(h, KeyThree(i, R, r, L), 1, R, i, L)
    BY DEF IInv, Sessions, ResponderState
  <2>2. hs[r].ck = KeyThree(i, R, r, L)
    <3>1. ASSUME NEW q, NEW ck, q = State(h, ck, 1, R, i, L)
          PROVE  q.ck = ck
      BY <3>1 DEF State
    <3>. QED  BY <2>1, <3>1
  <2>3. /\ i \in Initiators /\ phase[i] = "done" /\ hs[i].re = r /\ hs[i].ls = L
        /\ hs[i].h = hs[r].h /\ hs[i].ck = hs[r].ck
    BY <2>1, <2>2, InitiatorKeys DEF Finished
  <2>4. Mirrored(i, r)
    <3>1. i \in Initiators /\ r \notin Initiators
      BY <2>3, SessionsAssumption
    <3>. QED  BY <2>3, <3>1 DEF Mirrored, Transport
  <2>5. hs[r].ck[1] = ECDH(i, R) /\ hs[r].ck[2] = ECDH(r, i)
    BY <2>2, KeyParts
  <2>6. ASSUME NEW s \in Initiators, phase[s] = "done", hs[s].ck = hs[r].ck
        PROVE  s = i
    <3>1. hs[s].rs \in Nodes /\ hs[s].ck[1] = ECDH(s, hs[s].rs)
      BY <2>6, InitiatorKeys
    <3>2. ECDH(s, hs[s].rs) = ECDH(i, R)
      BY <2>5, <2>6, <3>1, Zenon
    <3>3. s \in Handshakes /\ i \in Handshakes
      BY <2>3 DEF Handshakes
    <3>. QED  BY <2>1, <3>1, <3>2, <3>3, ECDHApart
  <2>7. ASSUME NEW s \in Responders, phase[s] = "done", hs[s].ck = hs[r].ck
        PROVE  s = r
    <3>1. hs[s].re \in Initiators /\ Answered(s, hs[s].re)
      BY <2>7 DEF IInv, Sessions, ResponderState, Answered
    <3>3. hs[s].ck[2] = ECDH(s, hs[s].re)
      BY <3>1, AnsweredKeys
    <3>4. ECDH(s, hs[s].re) = ECDH(r, i)
      BY <2>5, <2>7, <3>3, Zenon
    <3>. QED  BY <2>3, <3>1, <3>4, ECDHApart
  <2>. QED  BY <2>1, <2>3, <2>4, <2>6, <2>7 DEF Handshakes
<1>. QED  BY <1>1, Invariance, PTL

-----------------------------------------------------------------------------
(***************************************************************************)
(* Keys and nonces                                                         *)
(***************************************************************************)
\* What has been sealed, by the length of its key and its nonce: the tags of acts
\* one and two, static keys, the last tags, and what was put in place of a tag
TagOne(c, i) == Len(c.key) = 1 /\ c.key[1] = ECDH(i, hs[i].rs) /\ c = SealOne(i, hs[i].rs)

TagTwo(c, r) ==
    /\ hs[r].re \in Initiators
    /\ Len(c.key) = 2 /\ c.nonce = 0 /\ c.key[2] = ECDH(r, hs[r].re)
    /\ c = SealTwo(hs[r].re, hs[r].ls, r)

StaticOf(c, i) ==
    /\ Len(c.key) = 2 /\ c.nonce # 0 /\ c.key[1] = ECDH(i, hs[i].rs)
    /\ c = hs[i].h[5 + c.nonce]

TagThree(c, i) ==
    Len(c.key) = 3 /\ c.key[1] = ECDH(i, hs[i].rs) /\ c = hs[i].h[Len(hs[i].h)]

NoTag(c) == Len(c.key) = 0 /\ c = Garbage

LEMMA SealedTags ==
    ASSUME IInv, NEW a \in net50
    PROVE  (\E i \in Initiators : TagOne(a.tag, i)) \/ (\E r \in Responders : TagTwo(a.tag, r))
<1>1. Sent50(a)
  BY DEF IInv, Network
<1>2. ASSUME NEW i \in Initiators, a = [version |-> 0, key |-> i, tag |-> SealOne(i, hs[i].rs)]
      PROVE  TagOne(a.tag, i)
  <2>1. a.tag = SealOne(i, hs[i].rs)
    BY <1>2
  <2>2. a.tag.key = KeyOne(i, hs[i].rs) /\ Len(a.tag.key) = 1
    BY <2>1, SealOneParts, TagLengths, Zenon
  <2>3. KeyOne(i, hs[i].rs)[1] = ECDH(i, hs[i].rs)
    BY KeyParts
  <2>. QED  BY <2>1, <2>2, <2>3, Zenon DEF TagOne
<1>3. ASSUME NEW r \in Responders, Answered(r, hs[r].re),
             a = [version |-> 0, key |-> r, tag |-> SealTwo(hs[r].re, hs[r].ls, r)]
      PROVE  TagTwo(a.tag, r)
  <2>. DEFINE i == hs[r].re
              R == hs[r].ls
  <2>1. a.tag = SealTwo(i, R, r)
    BY <1>3
  <2>2. a.tag.key = KeyTwo(i, R, r) /\ a.tag.nonce = 0 /\ Len(a.tag.key) = 2
    <3>1. /\ SealTwo(i, R, r).key = KeyTwo(i, R, r) /\ SealTwo(i, R, r).nonce = 0
          /\ Len(SealTwo(i, R, r).key) = 2
      BY SealTwoParts, TagLengths
    <3>. QED  BY <2>1, <3>1, Zenon
  <2>3. KeyTwo(i, R, r)[2] = ECDH(r, i)
    BY KeyParts
  <2>4. i \in Initiators
    BY <1>3, Zenon DEF Answered
  <2>. QED  BY <2>1, <2>2, <2>3, <2>4, Zenon DEF TagTwo
<1>. QED  BY <1>1, <1>2, <1>3 DEF Sent50

LEMMA SealedThree ==
    ASSUME IInv, NEW a \in net66
    PROVE  \E i \in Initiators :
             StaticOf(a.static, i) /\ (TagThree(a.tag, i) \/ NoTag(a.tag))
<1>1. PICK i \in Initiators : Statics(i, a.static) /\ (Odd(i, a) \/ Last(i, a))
  BY DEF IInv, Network, Sent66
<1>2. PICK R, r, L : R = hs[i].rs /\ r = hs[i].re /\ L = hs[i].ls
  OBVIOUS
<1>3. StaticOf(a.static, i)
  <2>1. a.static.key = KeyTwo(i, R, r)
    BY <1>1, <1>2, StaticKey
  <2>2. Len(KeyTwo(i, R, r)) = 2 /\ KeyTwo(i, R, r)[1] = ECDH(i, R)
    BY KeyParts, TupleLengths DEF KeyTwo
  <2>3. a.static.nonce # 0
    <3>1. ASSUME NEW n \in 1..(MaxOdd + 1)
          PROVE  n # 0
      BY BoundAssumption
    <3>. QED  BY <1>1, <3>1, Zenon DEF Statics
  <2>4. a.static = hs[i].h[5 + a.static.nonce]
    BY <1>1, Zenon DEF Statics
  <2>. QED  BY <1>2, <2>1, <2>2, <2>3, <2>4, Zenon DEF StaticOf
<1>4. CASE Odd(i, a)
  <2>1. NoTag(a.tag)
    BY <1>4, GarbageParts, TupleLengths, Zenon DEF Odd, NoTag
  <2>. QED  BY <1>3, <2>1
<1>5. CASE Last(i, a)
  <2>1. a.tag.key = KeyThree(i, R, r, L)
    BY <1>2, <1>5, LastTag, Zenon
  <2>2. Len(KeyThree(i, R, r, L)) = 3 /\ KeyThree(i, R, r, L)[1] = ECDH(i, R)
    BY KeyParts, TupleLengths DEF KeyThree
  <2>3. TagThree(a.tag, i)
    BY <1>2, <1>5, <2>1, <2>2, Zenon DEF Last, TagThree
  <2>. QED  BY <1>3, <2>3
<1>. QED  BY <1>1, <1>4, <1>5

\* The first or the second ECDH of a key names the handshake that sealed.
LEMMA SealerIsNamed ==
    ASSUME IInv
    PROVE  /\ \A i, j \in Initiators : ECDH(i, hs[i].rs) = ECDH(j, hs[j].rs) => i = j
           /\ \A r, s \in Responders :
                 /\ hs[r].re \in Initiators /\ hs[s].re \in Initiators
                 /\ ECDH(r, hs[r].re) = ECDH(s, hs[s].re)
                 => r = s
<1>1. ASSUME NEW i \in Initiators, NEW j \in Initiators, ECDH(i, hs[i].rs) = ECDH(j, hs[j].rs)
      PROVE  i = j
  <2>1. /\ i \in Handshakes /\ hs[i].rs \in Nodes
        /\ j \in Handshakes /\ hs[j].rs \in Nodes
    BY DEF IInv, Sessions, InitiatorState, Handshakes
  <2>. QED  BY <1>1, <2>1, ECDHApart
<1>2. ASSUME NEW r \in Responders, NEW s \in Responders,
             hs[r].re \in Initiators, hs[s].re \in Initiators,
             ECDH(r, hs[r].re) = ECDH(s, hs[s].re)
      PROVE  r = s
  BY <1>2, ECDHApart
<1>. QED  BY <1>1, <1>2

\* No two acts that GenActOne, GenActTwo and GenActThree have made, in all
\* handshakes together, those of foreign initiators included, hold ciphertexts of
\* the same key and nonce.
THEOREM NoncesAreFresh == Spec => []NoNonceReuse
<1>1. IInv => NoNonceReuse
  <2>. DEFINE all == {a.tag : a \in net50 \cup net66} \cup {a.static : a \in net66}
  <2>. SUFFICES ASSUME IInv, NEW c \in all, NEW d \in all, c.key = d.key, c.nonce = d.nonce
                PROVE  c = d
    BY DEF NoNonceReuse
  <2>1. ASSUME NEW e \in all
        PROVE  \/ \E i \in Initiators : TagOne(e, i) \/ StaticOf(e, i) \/ TagThree(e, i)
               \/ \E r \in Responders : TagTwo(e, r)
               \/ NoTag(e)
    <3>1. ASSUME NEW a \in net50, e = a.tag
          PROVE  \/ \E i \in Initiators : TagOne(e, i)
                 \/ \E r \in Responders : TagTwo(e, r)
      BY <3>1, SealedTags, Zenon
    <3>2. ASSUME NEW a \in net66, e = a.tag \/ e = a.static
          PROVE  NoTag(e) \/ \E i \in Initiators : StaticOf(e, i) \/ TagThree(e, i)
      BY <3>2, SealedThree, Zenon
    <3>. QED  BY <3>1, <3>2
  <2>. HIDE DEF all
  <2>2. 0 # 1 /\ 0 # 2 /\ 0 # 3 /\ 1 # 2 /\ 1 # 3 /\ 2 # 3
    OBVIOUS
  <2>3. ASSUME NEW i \in Initiators, TagOne(c, i)
        PROVE  c = d
    <3>1. PICK j \in Initiators : TagOne(d, j)
      BY <2>1, <2>2, <2>3, Zenon DEF TagOne, TagTwo, StaticOf, TagThree, NoTag
    <3>2. ECDH(i, hs[i].rs) = ECDH(j, hs[j].rs)
      BY <2>3, <3>1, Zenon DEF TagOne
    <3>. QED  BY <2>3, <3>1, <3>2, SealerIsNamed, Zenon DEF TagOne
  <2>4. ASSUME NEW r \in Responders, TagTwo(c, r)
        PROVE  c = d
    <3>1. PICK s \in Responders : TagTwo(d, s)
      BY <2>1, <2>2, <2>4, Zenon DEF TagOne, TagTwo, StaticOf, TagThree, NoTag
    <3>2. ECDH(r, hs[r].re) = ECDH(s, hs[s].re)
      BY <2>4, <3>1, Zenon DEF TagTwo
    <3>3. r = s
      BY <2>4, <3>1, <3>2, SealerIsNamed, Zenon DEF TagTwo
    <3>. QED  BY <2>4, <3>1, <3>3, Zenon DEF TagTwo
  <2>5. ASSUME NEW i \in Initiators, StaticOf(c, i)
        PROVE  c = d
    <3>1. PICK j \in Initiators : StaticOf(d, j)
      BY <2>1, <2>2, <2>5, Zenon DEF TagOne, TagTwo, StaticOf, TagThree, NoTag
    <3>2. ECDH(i, hs[i].rs) = ECDH(j, hs[j].rs)
      BY <2>5, <3>1, Zenon DEF StaticOf
    <3>3. i = j
      BY <3>2, SealerIsNamed, Zenon
    <3>. QED  BY <2>5, <3>1, <3>3, Zenon DEF StaticOf
  <2>6. ASSUME NEW i \in Initiators, TagThree(c, i)
        PROVE  c = d
    <3>1. PICK j \in Initiators : TagThree(d, j)
      BY <2>1, <2>2, <2>6, Zenon DEF TagOne, TagTwo, StaticOf, TagThree, NoTag
    <3>2. ECDH(i, hs[i].rs) = ECDH(j, hs[j].rs)
      BY <2>6, <3>1, Zenon DEF TagThree
    <3>3. i = j
      BY <3>2, SealerIsNamed, Zenon
    <3>. QED  BY <2>6, <3>1, <3>3, Zenon DEF TagThree
  <2>7. CASE NoTag(c)
    <3>1. NoTag(d)
      BY <2>1, <2>2, <2>7, Zenon DEF TagOne, TagTwo, StaticOf, TagThree, NoTag
    <3>. QED  BY <2>7, <3>1, Zenon DEF NoTag
  <2>. QED  BY <2>1, <2>3, <2>4, <2>5, <2>6, <2>7, Zenon
<1>. QED  BY <1>1, Invariance, PTL

\* The variables of Handshake have their types, and a handshake that refused no
\* tag after mixing has mixed what its phase says, with a ciphertext and a nonce
\* more for each static key it sealed or opened in vain.
THEOREM TypeCorrect == Spec => []TypeOK
<1>1. IInv => TypeOK
  <2>. SUFFICES ASSUME IInv PROVE TypeOK
    OBVIOUS
  <2>. DEFINE Typed(s) ==
         /\ hs[s].nonce \in 0..(MaxOdd + 1)
         /\ hs[s].re \in Handshakes \cup {None}
         /\ hs[s].rs \in Nodes \cup {None} /\ hs[s].ls \in Nodes
              Measures(next, hashed, keyed, nonce) ==
         CASE next \in {"genOne", "recvOne"} -> hashed = 1 /\ keyed = 0 /\ nonce = 0
           [] next \in {"recvTwo", "genTwo"}  -> hashed = 3 /\ keyed = 1 /\ nonce = 1
           [] next \in {"genThree", "recvThree"} -> hashed = 4 + nonce /\ keyed = 2 /\ nonce > 0
           [] next = "done" -> hashed \in 7..(7 + MaxOdd) /\ keyed = 3 /\ nonce = 1
              Measured(s) == Measures(phase[s], Len(hs[s].h), Len(hs[s].ck), hs[s].nonce)
              Sound(s) == Typed(s) /\ (s \notin poisoned => Measured(s))
  <2>0. /\ 0 \in 0..(MaxOdd + 1) /\ 1 \in 0..(MaxOdd + 1)
        /\ \A n \in 1..(MaxOdd + 1) : n \in 0..(MaxOdd + 1) /\ n > 0
    BY BoundAssumption
  <2>1. ASSUME NEW s, NEW h, NEW ck, NEW n \in 0..(MaxOdd + 1), NEW ls \in Nodes,
               NEW re \in Handshakes \cup {None}, NEW rs \in Nodes \cup {None},
               hs[s] = State(h, ck, n, ls, re, rs),
               \/ phase[s] \in {"genOne", "recvOne"} /\ Len(h) = 1 /\ Len(ck) = 0 /\ n = 0
               \/ phase[s] \in {"recvTwo", "genTwo"}  /\ Len(h) = 3 /\ Len(ck) = 1 /\ n = 1
               \/ phase[s] \in {"genThree", "recvThree"} /\ Len(h) = 4 + n /\ Len(ck) = 2 /\ n > 0
               \/ phase[s] = "done" /\ Len(h) \in 7..(7 + MaxOdd) /\ Len(ck) = 3 /\ n = 1
        PROVE  Sound(s)
    <3>1. /\ hs[s].h = h /\ hs[s].ck = ck /\ hs[s].nonce = n
          /\ hs[s].ls = ls /\ hs[s].re = re /\ hs[s].rs = rs
      BY <2>1, StateParts
    <3>2. Typed(s)
      BY <3>1
    <3>3. Measures(phase[s], Len(h), Len(ck), n)
      BY <2>1
    <3>. QED  BY <3>1, <3>2, <3>3, Zenon
  <2>. HIDE DEF Measures, Measured, Sound
  <2>2. ASSUME NEW i, NEW R, NEW r, NEW L
        PROVE  /\ Len(<<Pub(R)>>) = 1 /\ Len(<<>>) = 0
               /\ Len(HashOne(i, R)) = 3 /\ Len(KeyOne(i, R)) = 1
               /\ Len(KeyTwo(i, R, r)) = 2 /\ Len(KeyThree(i, R, r, L)) = 3
    BY DEF HashOne, KeyOne, KeyTwo, KeyThree
  <2>3. ASSUME NEW i \in Initiators
        PROVE  Sound(i)
    <3>1. PICK R, r, L, h, n :
             R = hs[i].rs /\ r = hs[i].re /\ L = hs[i].ls /\ h = hs[i].h /\ n = hs[i].nonce
      OBVIOUS
    <3>2. InitiatorState(i) /\ R \in Nodes /\ L \in Nodes /\ R \in Nodes \cup {None}
      BY <3>1 DEF IInv, Sessions, InitiatorState
    <3>3. None \in Handshakes \cup {None}
      OBVIOUS
    <3>4. CASE i \in poisoned
      <4>1. n = 0 /\ r \in Handshakes
        BY <3>1, <3>2, <3>4 DEF InitiatorState, Beyond, State
      <4>. QED  BY <2>0, <3>1, <3>2, <3>4, <4>1 DEF Sound
    <3>5. CASE phase[i] = "genOne" /\ i \notin poisoned
      <4>1. PICK hash, ck : hash = <<Pub(R)>> /\ ck = <<>>
        OBVIOUS
      <4>2. Len(hash) = 1 /\ Len(ck) = 0 /\ hs[i] = State(hash, ck, 0, L, None, R)
        BY <2>2, <3>1, <3>2, <3>5, <4>1 DEF InitiatorState
      <4>. QED  BY <2>0, <2>1, <3>2, <3>3, <3>5, <4>2
    <3>6. CASE phase[i] = "recvTwo" /\ i \notin poisoned
      <4>1. PICK hash, ck : hash = HashOne(i, R) /\ ck = KeyOne(i, R)
        OBVIOUS
      <4>2. Len(hash) = 3 /\ Len(ck) = 1 /\ hs[i] = State(hash, ck, 1, L, None, R)
        <5>1. hs[i] = State(HashOne(i, R), KeyOne(i, R), 1, L, None, R)
          BY <3>1, <3>2, <3>6 DEF InitiatorState
        <5>. QED  BY <2>2, <4>1, <5>1, Zenon
      <4>. QED  BY <2>0, <2>1, <3>2, <3>3, <3>6, <4>2
    <3>7. CASE phase[i] = "genThree"
      <4>1. PICK ck : ck = KeyTwo(i, R, r)
        OBVIOUS
      <4>2. /\ hs[i] = State(h, ck, n, L, r, R) /\ Len(ck) = 2
            /\ n \in 1..(MaxOdd + 1) /\ Len(h) = 4 + n
        <5>1. Going(i) /\ hs[i] = State(h, KeyTwo(i, R, r), n, L, r, R)
          BY <3>1, <3>2, <3>7 DEF InitiatorState
        <5>2. n \in 1..(MaxOdd + 1) /\ Len(h) = 4 + n
          BY <3>1, <5>1 DEF Going
        <5>. QED  BY <2>2, <4>1, <5>1, <5>2, Zenon
      <4>3. r \in Handshakes \cup {None}
        BY <3>1, <3>7, InitiatorKeys DEF Answered, Handshakes
      <4>. QED  BY <2>0, <2>1, <3>2, <3>7, <4>2, <4>3
    <3>8. CASE phase[i] = "done"
      <4>1. PICK ck : ck = KeyThree(i, R, r, L)
        OBVIOUS
      <4>2. /\ hs[i] = State(h, ck, 1, L, r, R) /\ Len(ck) = 3
            /\ Len(h) \in 7..(7 + MaxOdd)
        <5>1. Gone(i) /\ hs[i] = State(h, KeyThree(i, R, r, L), 1, L, r, R)
          BY <3>1, <3>2, <3>8 DEF InitiatorState
        <5>2. Len(h) \in 7..(7 + MaxOdd)
          BY <3>1, <5>1, Zenon DEF Gone
        <5>3. Len(KeyThree(i, R, r, L)) = 3
          BY <2>2
        <5>. QED  BY <4>1, <5>1, <5>2, <5>3, Zenon
      <4>3. r \in Handshakes \cup {None}
        BY <3>1, <3>8, InitiatorKeys DEF Answered, Handshakes
      <4>. QED  BY <2>0, <2>1, <3>2, <3>8, <4>2, <4>3
    <3>. QED  BY <3>2, <3>4, <3>5, <3>6, <3>7, <3>8 DEF InitiatorState
  <2>4. ASSUME NEW r \in Responders
        PROVE  Sound(r)
    <3>1. PICK R, i, L, h, n :
             R = hs[r].ls /\ i = hs[r].re /\ L = hs[r].rs /\ h = hs[r].h /\ n = hs[r].nonce
      OBVIOUS
    <3>2. /\ ResponderState(r) /\ R \in Nodes
          /\ phase[r] # "recvOne" => i \in Handshakes /\ i \in Handshakes \cup {None}
      BY <3>1 DEF IInv, Sessions, ResponderState, Handshakes
    <3>3. None \in Handshakes \cup {None} /\ None \in Nodes \cup {None}
      OBVIOUS
    <3>4. CASE r \in poisoned /\ phase[r] = "recvOne"
      <4>1. n = 0 /\ i \in Handshakes /\ L = None
        BY <3>1, <3>2, <3>4 DEF ResponderState, Beyond, State
      <4>. QED  BY <2>0, <3>1, <3>2, <3>4, <4>1 DEF Sound
    <3>5. CASE r \in poisoned /\ phase[r] = "recvThree"
      <4>1. L \in Nodes /\ hs[r] = State(h, KeyThree(i, R, r, L), 0, R, i, L)
        BY <3>1, <3>2, <3>5, Zenon DEF ResponderState
      <4>2. n = 0
        BY <3>1, <4>1, StateParts
      <4>. QED  BY <2>0, <3>1, <3>2, <3>5, <4>1, <4>2 DEF Sound
    <3>6. CASE phase[r] = "recvOne" /\ r \notin poisoned
      <4>1. PICK hash, ck : hash = <<Pub(R)>> /\ ck = <<>>
        OBVIOUS
      <4>2. Len(hash) = 1 /\ Len(ck) = 0 /\ hs[r] = State(hash, ck, 0, R, None, None)
        BY <2>2, <3>1, <3>2, <3>6, <4>1 DEF ResponderState
      <4>. QED  BY <2>0, <2>1, <3>2, <3>3, <3>6, <4>2
    <3>7. CASE phase[r] = "genTwo"
      <4>1. PICK hash, ck : hash = HashOne(i, R) /\ ck = KeyOne(i, R)
        OBVIOUS
      <4>2. Len(hash) = 3 /\ Len(ck) = 1 /\ hs[r] = State(hash, ck, 1, R, i, None)
        <5>1. hs[r] = State(HashOne(i, R), KeyOne(i, R), 1, R, i, None)
          BY <3>1, <3>2, <3>7 DEF ResponderState
        <5>. QED  BY <2>2, <4>1, <5>1, Zenon
      <4>. QED  BY <2>0, <2>1, <3>2, <3>3, <3>7, <4>2
    <3>8. CASE phase[r] = "recvThree" /\ r \notin poisoned
      <4>1. PICK ck : ck = KeyTwo(i, R, r)
        OBVIOUS
      <4>2. /\ hs[r] = State(h, ck, n, R, i, None) /\ Len(ck) = 2
            /\ n \in 1..(MaxOdd + 1) /\ Len(h) = 4 + n
        <5>1. Going(r) /\ hs[r] = State(h, KeyTwo(i, R, r), n, R, i, None)
          BY <3>1, <3>2, <3>8 DEF ResponderState
        <5>2. n \in 1..(MaxOdd + 1) /\ Len(h) = 4 + n
          BY <3>1, <5>1 DEF Going
        <5>. QED  BY <2>2, <4>1, <5>1, <5>2, Zenon
      <4>. QED  BY <2>0, <2>1, <3>2, <3>3, <3>8, <4>2
    <3>9. CASE phase[r] = "done"
      <4>1. PICK ck : ck = KeyThree(i, R, r, L)
        OBVIOUS
      <4>2. /\ Finished(i, r, L) /\ hs[i].h = h
            /\ hs[r] = State(h, ck, 1, R, i, L) /\ Len(ck) = 3
        <5>1. /\ Finished(i, r, L) /\ hs[i].h = h
              /\ hs[r] = State(h, KeyThree(i, R, r, L), 1, R, i, L)
          BY <3>1, <3>2, <3>9 DEF ResponderState
        <5>. QED  BY <2>2, <4>1, <5>1, Zenon
      <4>3. Len(h) \in 7..(7 + MaxOdd) /\ L \in Nodes /\ L \in Nodes \cup {None}
        <5>1. i \in Initiators /\ phase[i] = "done" /\ hs[i].ls = L /\ InitiatorState(i)
          BY <4>2 DEF Finished, IInv, Sessions
        <5>. QED  BY <4>2, <5>1 DEF InitiatorState, Gone
      <4>. QED  BY <2>0, <2>1, <3>2, <3>9, <4>2, <4>3
    <3>. QED  BY <3>2, <3>4, <3>5, <3>6, <3>7, <3>8, <3>9 DEF ResponderState
  <2>5. \A s \in Handshakes : Sound(s)
    BY <2>3, <2>4 DEF Handshakes
  <2>6. \A s \in Handshakes :
          /\ Typed(s)
          /\ s \notin poisoned =>
               LET hashed == Len(hs[s].h)
                   keyed  == Len(hs[s].ck)
                   nonce  == hs[s].nonce
               IN
               CASE phase[s] \in {"genOne", "recvOne"} -> hashed = 1 /\ keyed = 0 /\ nonce = 0
                 [] phase[s] \in {"recvTwo", "genTwo"}  -> hashed = 3 /\ keyed = 1 /\ nonce = 1
                 [] phase[s] \in {"genThree", "recvThree"} ->
                      hashed = 4 + nonce /\ keyed = 2 /\ nonce > 0
                 [] phase[s] = "done" -> hashed \in 7..(7 + MaxOdd) /\ keyed = 3 /\ nonce = 1
    BY <2>5, Zenon DEF Sound, Measured, Measures
  <2>. QED  BY <2>6, Zenon DEF IInv, Counted, TypeOK
<1>. QED  BY <1>1, Invariance, PTL
=============================================================================
