------------------------ MODULE PaymentRequestProofs ------------------------
(***************************************************************************)
(* Proofs about payment requests, for every set of values, hints, unknown  *)
(* types and default options, and for every bound.                         *)
(***************************************************************************)
EXTENDS PaymentRequest, SequenceFacts

\* What a field may hold, and what may stand in an invoice.
Hints == DOMAIN Encode["r"]
ValueOf(t) == DOMAIN Encode[t] \cup {Absent}
Tagged == UNION {[type : {t}, data : DataOf(t)] : t \in Types}

\* The types whose value is what was read last
Plain == Single \ (HashTypes \cup {"n"})

Requests ==
  [field  : {g \in [Single -> UNION {ValueOf(t) : t \in Single}] :
               /\ \A t \in Single : g[t] \in ValueOf(t)
               /\ g["n"] \in {Absent, ZeroKey}},
   hints  : Seq(Hints),
   listed : Seq(Types)]

\* What every order of options keeps: how often a type is listed, and that a
\* description and a hash of one exclude each other.
Count(listed, t) == Cardinality(Positions(listed, t))
Tidy(q) ==
  /\ q \in Requests
  /\ \A t \in Single : /\ Count(q.listed, t) <= 1
                       /\ q.field[t] # Absent => Count(q.listed, t) = 1
  /\ Count(q.listed, "r") = Len(q.hints)
Exclusive(q) ==
  /\ q.field["d"] = Absent \/ q.field["h"] = Absent
  /\ Count(q.listed, "d") = 0 \/ Count(q.listed, "h") = 0

\* r is q with v at t, which is listed n times.
Changed(r, q, t, v, n) ==
  /\ Tidy(r)
  /\ \A u \in Single : r.field[u] = IF u = t THEN v ELSE q.field[u]
  /\ \A u : Count(r.listed, u) = IF u = t THEN n ELSE Count(q.listed, u)

\* What the encoder finds for the i-th entry of the order: the hint whose turn
\* it is, or the value of the field; and what it makes of it.
Found(q, i) ==
  LET t == q.listed[i]
      n == Rank(Positions(q.listed, "r"), i)
  IN  IF t = "r" THEN (IF n <= Len(q.hints) THEN q.hints[n] ELSE Absent)
      ELSE IF t \in Single THEN q.field[t] ELSE Absent
Entry(q, i) == [type |-> q.listed[i], data |-> Encode[q.listed[i]][Found(q, i)]]
Entries(q) == [i \in DOMAIN q.listed |-> Entry(q, i)]

\* The entries up to the k-th that are written
Present(q, k) == {i \in 1 .. k : Found(q, i) # Absent}
Encoded(q, k, inv) ==
  /\ \A i \in 1 .. k : q.listed[i] \notin Unknown
  /\ inv = Subsequence(Entries(q), Present(q, k))
HintsUsed(q, k) == Cardinality({j \in Positions(q.listed, "r") : j <= k})

\* s after its first k elements
After(s, k) == SubSeq(s, k + 1, Len(s))

\* What the decoder makes of the first k fields of invoice s
OfType(s, k, t) == {i \in 1 .. k : s[i].type = t}
Readable(f) == Decode[f.type][f.data] # Skip
Reads(s, k, t) == {i \in OfType(s, k, t) : Readable(s[i])}
Lasts(s, k) == {i \in 1 .. k : \A j \in 1 .. k : j > i => s[j].type # s[i].type}
HintsRead(s) == [i \in DOMAIN s |-> Decode["r"][s[i].data]]
Kinds(s) == [i \in DOMAIN s |-> s[i].type]

\* The fields that have a b-th byte of hash t, and the bytes they leave
LongEnough(s, k, t, b) == {i \in OfType(s, k, t) : b <= Len(Decode[t][s[i].data])}
ByteRead(s, k, t, b) ==
  IF LongEnough(s, k, t, b) = {} THEN Zero
  ELSE Decode[t][s[Last(LongEnough(s, k, t, b))].data][b]
BytesRead(s, k, t) == [b \in 1 .. HashSize |-> ByteRead(s, k, t, b)]

Decoded(q, s, k) ==
  /\ \A i \in 1 .. k : ~Refused(s[i])
  /\ q.hints = Subsequence(HintsRead(s), OfType(s, k, "r"))
  /\ q.listed = Subsequence(Kinds(s), Lasts(s, k))
  /\ q.field["n"] = IF OfType(s, k, "n") = {} THEN Absent ELSE ZeroKey
  /\ \A t \in Plain :
       q.field[t] = IF Reads(s, k, t) = {} THEN Absent
                    ELSE Decode[t][s[Last(Reads(s, k, t))].data]
  /\ \A t \in HashTypes : /\ BytesRead(s, k, t) \in [1 .. HashSize -> Parts]
                          /\ q.field[t] = HashOf(BytesRead(s, k, t))

\* The invoice that is being read or was read is one this package wrote, or no
\* request was written yet.
Written(inv) == rounds = 0 \/ (validate(origin) /\ Encoded(origin, Len(origin.listed), inv))

Typed ==
  /\ stage \in Stages
  /\ pr \in Requests /\ origin \in Requests
  /\ invoice \in Seq(Tagged) /\ source \in Seq(Tagged)
  /\ options \in 0 .. MaxOptions /\ rounds \in 0 .. MaxRounds

Built ==
  stage = "building" =>
    Tidy(pr) /\ Exclusive(pr) /\ source = <<>> /\ rounds = 0

Encoding ==
  stage = "encoding" =>
    /\ pr = origin /\ validate(origin) /\ rounds > 0
    /\ (source # <<>> => Decoded(origin, source, Len(source)))
    /\ \E k \in 0 .. Len(origin.listed) :
         /\ todo = After(origin.listed, k)
         /\ hints = After(origin.hints, HintsUsed(origin, k))
         /\ Encoded(origin, k, invoice)

Finished ==
  stage = "written" =>
    /\ validate(origin) /\ rounds > 0
    /\ Encoded(origin, Len(origin.listed), invoice)
    /\ (source # <<>> => Decoded(origin, source, Len(source)))

Received == stage = "receiving" => rounds = 0

Decoding ==
  stage = "decoding" =>
    /\ Written(source)
    /\ \E k \in 0 .. Len(source) : todo = After(source, k) /\ Decoded(pr, source, k)

Held ==
  stage = "held" =>
    (source # <<>> => (Written(source) /\ Decoded(pr, source, Len(source))))

Undecodable ==
  stage = "undecodable" =>
    /\ Written(source)
    /\ \E k \in 0 .. Len(source) :
         /\ Decoded(pr, source, k)
         /\ \/ (k < Len(source) /\ Refused(source[k + 1]))
            \/ (k = Len(source) /\ ~validate(pr))

IInv == Typed /\ Built /\ Encoding /\ Finished /\ Received /\ Decoding /\ Held /\ Undecodable

-----------------------------------------------------------------------------
(* The order of the fields, by how often a type is listed *)

LEMMA CountFacts ==
  ASSUME NEW X, NEW s \in Seq(X), NEW t
  PROVE  /\ IsFiniteSet(Positions(s, t)) /\ Count(s, t) \in Nat
         /\ Positions(s, t) \in SUBSET (1 .. Len(s))
         /\ Count(s, t) = 0 <=> Positions(s, t) = {}
         /\ Count(s, t) = 1 <=> \E i \in DOMAIN s : Positions(s, t) = {i}
         /\ Count(s, t) <= 1 <=> \A i, j \in Positions(s, t) : i = j
<1>. DEFINE P == Positions(s, t)
<1>1. P \in SUBSET (1 .. Len(s)) /\ DOMAIN s = 1 .. Len(s) /\ Len(s) \in Nat
  BY DEF Positions
<1>2. IsFiniteSet(1 .. Len(s))
  BY <1>1, FS_Interval
<1>. HIDE DEF P
<1>3. IsFiniteSet(P)
  BY <1>1, <1>2, FS_Subset
<1>4. Cardinality(P) \in Nat
  BY <1>3, FS_CardinalityType
<1>5. Cardinality(P) = 0 <=> P = {}
  BY <1>3, FS_EmptySet
<1>6. Cardinality(P) = 1 <=> \E i : P = {i}
  BY <1>3, FS_Singleton
<1>7. (\E i : P = {i}) <=> \E i \in DOMAIN s : P = {i}
  BY <1>1
<1>8. (\A i, j \in P : i = j) <=> (P = {} \/ \E i : P = {i})
  <2>1. ASSUME \A i, j \in P : i = j, NEW i \in P PROVE P = {i}
    BY <2>1
  <2>. QED  BY <2>1
<1>9. Cardinality(P) <= 1 <=> Cardinality(P) = 0 \/ Cardinality(P) = 1
  BY <1>4
<1>. QED  BY <1>1, <1>3, <1>4, <1>5, <1>6, <1>7, <1>8, <1>9 DEF Count, P

LEMMA AppendCount ==
  ASSUME NEW X, NEW s \in Seq(X), NEW e \in X, NEW t
  PROVE  Count(Append(s, e), t) = IF t = e THEN Count(s, t) + 1 ELSE Count(s, t)
<1>. DEFINE a == Append(s, e)
<1>1. /\ Len(s) \in Nat /\ DOMAIN a = 1 .. Len(s) + 1 /\ DOMAIN s = 1 .. Len(s)
      /\ a[Len(s) + 1] = e /\ \A i \in 1 .. Len(s) : a[i] = s[i]
  BY AppendProperties
<1>2. /\ IsFiniteSet(Positions(s, t)) /\ Positions(s, t) \in SUBSET (1 .. Len(s))
  BY CountFacts
<1>. HIDE DEF a
<1>3. CASE t = e
  <2>1. Positions(a, t) = Positions(s, t) \cup {Len(s) + 1} /\ Len(s) + 1 \notin Positions(s, t)
    BY <1>1, <1>3 DEF Positions
  <2>2. Cardinality(Positions(s, t) \cup {Len(s) + 1}) = Cardinality(Positions(s, t)) + 1
    BY <1>2, <2>1, FS_AddElement
  <2>. QED  BY <1>3, <2>1, <2>2 DEF Count, a
<1>4. CASE t # e
  <2>1. Positions(a, t) = Positions(s, t)
    BY <1>1, <1>4 DEF Positions
  <2>. QED  BY <1>4, <2>1 DEF Count, a
<1>. QED  BY <1>3, <1>4

LEMMA RemoveSeq ==
  ASSUME NEW X, NEW s \in Seq(X), NEW t
  PROVE  /\ remove(s, t) \in Seq(X)
         /\ \A u : Count(remove(s, t), u) = IF u = t THEN 0 ELSE Count(s, u)
<1>. DEFINE S == {i \in DOMAIN s : s[i] # t}
            q == remove(s, t)
            n == Cardinality(S)
<1>1. S \in SUBSET (1 .. Len(s)) /\ DOMAIN s = 1 .. Len(s) /\ S \in SUBSET Nat
  OBVIOUS
<1>2. q = Subsequence(s, S)
  BY DEF remove
<1>. HIDE DEF q
<1>3. IsFiniteSet(S) /\ q \in Seq(X) /\ n \in Nat /\ Len(q) = n
  <2>. HIDE DEF S
  <2>. QED  BY <1>1, <1>2, SubsequenceSeq, Zenon
<1>. HIDE DEF n
<1>4. PICK f : Places(S, n, f) /\ q = Along(s, n, f)
  <2>. HIDE DEF S
  <2>. QED  BY <1>1, <1>2, <1>3, SubsequencePlaces, Zenon DEF n
<1>5. /\ f \in [1 .. n -> S]
      /\ \A i, j \in 1 .. n : i < j => f[i] < f[j]
      /\ \A i \in S : \E k \in 1 .. n : f[k] = i
  BY <1>4 DEF Places
<1>6. DOMAIN q = 1 .. n /\ \A k \in 1 .. n : q[k] = s[f[k]] /\ s[f[k]] # t
  BY <1>4, <1>5 DEF Along
<1>7. Count(q, t) = 0
  <2>1. Positions(q, t) = {}
    BY <1>6 DEF Positions
  <2>. QED  BY <2>1, FS_EmptySet DEF Count
<1>8. ASSUME NEW u, u # t PROVE Count(q, u) = Count(s, u)
  <2>. DEFINE A == Positions(q, u)
              B == Positions(s, u)
              g == [k \in A |-> f[k]]
  <2>1. A \in SUBSET (1 .. n) /\ \A k \in A : g[k] = f[k] /\ f[k] \in B
    BY <1>5, <1>6 DEF Positions
  <2>2. \A i \in B : \E k \in A : g[k] = i
    <3>. TAKE i \in B
    <3>1. i \in S
      BY <1>8 DEF Positions
    <3>2. PICK k \in 1 .. n : f[k] = i
      BY <1>5, <3>1
    <3>. QED  BY <1>6, <3>2 DEF Positions
  <2>3. \A a, b \in A : g[a] = g[b] => a = b
    <3>. TAKE a, b \in A
    <3>1. a \in 1 .. n /\ b \in 1 .. n /\ a \in Nat /\ b \in Nat
      BY <1>3, <2>1
    <3>2. f[a] \in Nat /\ f[b] \in Nat
      BY <1>5, <3>1
    <3>3. (a < b => f[a] < f[b]) /\ (b < a => f[b] < f[a])
      BY <1>5, <3>1
    <3>. QED  BY <2>1, <3>1, <3>2, <3>3
  <2>4. IsFiniteSet(A)
    BY <1>3, CountFacts
  <2>. HIDE DEF A, B
  <2>5. g \in [A -> B]
    BY <2>1
  <2>. HIDE DEF g
  <2>6. g \in Bijection(A, B)
    BY <2>2, <2>3, <2>5, Fun_IsBij
  <2>7. Cardinality(B) = Cardinality(A)
    BY <2>4, <2>6, FS_Bijection DEF ExistsBijection
  <2>. QED  BY <2>7 DEF Count, A, B
<1>. QED  BY <1>3, <1>7, <1>8 DEF q

-----------------------------------------------------------------------------
(* The options *)

LEMMA Constants ==
  /\ "r" \notin Single /\ Known = Single \cup {"r"} /\ Types = Known \cup Unknown
  /\ Known \cap Unknown = {}
  /\ "n" \in Single /\ "n" \notin HashTypes /\ HashTypes \subseteq Single
  /\ "d" \in Plain /\ "r" \notin HashTypes
  /\ Single = Plain \cup HashTypes \cup {"n"} /\ Plain \cap (HashTypes \cup {"n"}) = {}
BY TypesAssumption DEF Single, Types, Known, HashTypes, Plain

LEMMA Inputs ==
  /\ \A t \in Single : Values[t] \cup {Absent} \subseteq ValueOf(t)
  /\ Values["r"] \subseteq Hints
  /\ \A text \in LongTexts : Sha256[text] \in ValueOf("h")
  /\ \A t \in Known : DataOf(t) = DOMAIN Decode[t] /\ OtherData[t] \subseteq DataOf(t)
  /\ \A t \in Unknown : DataOf(t) = {Absent}
  /\ ZeroKey \in ValueOf("n") /\ Absent \notin Hints
BY TypesAssumption, ConversionsAssumption, InputsAssumption, Constants
   DEF ValueOf, Hints, DataOf, HashTypes

LEMMA RequestParts ==
  ASSUME NEW q \in Requests
  PROVE  /\ q = [field |-> q.field, hints |-> q.hints, listed |-> q.listed]
         /\ q.hints \in Seq(Hints) /\ q.listed \in Seq(Types)
         /\ q.field = [t \in Single |-> q.field[t]] /\ DOMAIN q.field = Single
         /\ \A t \in Single : q.field[t] \in ValueOf(t)
         /\ q.field["n"] \in {Absent, ZeroKey}
BY DEF Requests

LEMMA RequestMade ==
  ASSUME NEW g, NEW hs \in Seq(Hints), NEW l \in Seq(Types),
         g = [t \in Single |-> g[t]], \A t \in Single : g[t] \in ValueOf(t),
         g["n"] \in {Absent, ZeroKey}
  PROVE  [field |-> g, hints |-> hs, listed |-> l] \in Requests
<1>1. g \in [Single -> UNION {ValueOf(t) : t \in Single}]
  <2>1. \A t \in Single : g[t] \in UNION {ValueOf(u) : u \in Single}
    OBVIOUS
  <2>. QED  BY <2>1
<1>. QED  BY <1>1 DEF Requests

LEMMA TidyMeans ==
  ASSUME NEW q, Tidy(q), Exclusive(q)
  PROVE  /\ Listed(q)
         /\ q.field["d"] = Absent \/ q.field["h"] = Absent
         /\ Positions(q.listed, "d") = {} \/ Positions(q.listed, "h") = {}
<1>1. q \in Requests /\ q.listed \in Seq(Types)
  BY RequestParts DEF Tidy
<1>2. \A t : /\ Count(q.listed, t) = 0 <=> Positions(q.listed, t) = {}
             /\ Count(q.listed, t) = 1 <=> \E i \in DOMAIN q.listed : Positions(q.listed, t) = {i}
             /\ Count(q.listed, t) <= 1 <=> \A i, j \in Positions(q.listed, t) : i = j
  BY <1>1, CountFacts
<1>. QED  BY <1>2 DEF Tidy, Exclusive, Listed, Fields, Count

\* One and two parts of a request replaced
LEMMA PartReplaced ==
  ASSUME NEW a, NEW b, NEW c, NEW v
  PROVE  /\ [[field |-> a, hints |-> b, listed |-> c] EXCEPT !.listed = v]
              = [field |-> a, hints |-> b, listed |-> v]
         /\ [[field |-> a, hints |-> b, listed |-> c] EXCEPT !.hints = v]
              = [field |-> a, hints |-> v, listed |-> c]
         /\ [[field |-> a, hints |-> b, listed |-> c] EXCEPT !.field = v]
              = [field |-> v, hints |-> b, listed |-> c]
OBVIOUS

LEMMA PutShape ==
  ASSUME NEW q, q = [field |-> q.field, hints |-> q.hints, listed |-> q.listed],
         NEW t, NEW v
  PROVE  Put(q, t, v)
           = [field |-> [q.field EXCEPT ![t] = v], hints |-> q.hints, listed |-> appendOrMoveToEnd(q.listed, t)]
<1>. DEFINE g == [q.field EXCEPT ![t] = v]
            l == appendOrMoveToEnd(q.listed, t)
            p == [field |-> g, hints |-> q.hints, listed |-> q.listed]
<1>1. Put(q, t, v) = [[q EXCEPT !.field = g] EXCEPT !.listed = l]
  BY Zenon DEF Put
<1>. HIDE DEF g, l
<1>2. [q EXCEPT !.field = g] = p
  <2>1. [[field |-> q.field, hints |-> q.hints, listed |-> q.listed] EXCEPT !.field = g] = p
    BY PartReplaced
  <2>. QED  BY <2>1
<1>3. [p EXCEPT !.listed = l] = [field |-> g, hints |-> q.hints, listed |-> l]
  BY PartReplaced
<1>4. Put(q, t, v) = [field |-> g, hints |-> q.hints, listed |-> l]
  BY <1>1, <1>2, <1>3
<1>. QED  BY <1>4 DEF g, l

LEMMA DropShape ==
  ASSUME NEW q, q = [field |-> q.field, hints |-> q.hints, listed |-> q.listed],
         NEW t
  PROVE  Drop(q, t)
           = [field |-> [q.field EXCEPT ![t] = Absent], hints |-> q.hints, listed |-> remove(q.listed, t)]
<1>. DEFINE g == [q.field EXCEPT ![t] = Absent]
            l == remove(q.listed, t)
            p == [field |-> g, hints |-> q.hints, listed |-> q.listed]
<1>1. Drop(q, t) = [[q EXCEPT !.field = g] EXCEPT !.listed = l]
  BY Zenon DEF Drop
<1>. HIDE DEF g, l
<1>2. [q EXCEPT !.field = g] = p
  <2>1. [[field |-> q.field, hints |-> q.hints, listed |-> q.listed] EXCEPT !.field = g] = p
    BY PartReplaced
  <2>. QED  BY <2>1
<1>3. [p EXCEPT !.listed = l] = [field |-> g, hints |-> q.hints, listed |-> l]
  BY PartReplaced
<1>4. Drop(q, t) = [field |-> g, hints |-> q.hints, listed |-> l]
  BY <1>1, <1>2, <1>3
<1>. QED  BY <1>4 DEF g, l

LEMMA WithRoutingHintShape ==
  ASSUME NEW q, q = [field |-> q.field, hints |-> q.hints, listed |-> q.listed],
         NEW hint
  PROVE  WithRoutingHint(q, hint)
           = [field |-> q.field, hints |-> Append(q.hints, hint),
              listed |-> Append(q.listed, "r")]
<1>. DEFINE h == Append(q.hints, hint)
            l == Append(q.listed, "r")
            p == [field |-> q.field, hints |-> h, listed |-> q.listed]
<1>1. WithRoutingHint(q, hint) = [[q EXCEPT !.hints = h] EXCEPT !.listed = l]
  BY Zenon DEF WithRoutingHint
<1>. HIDE DEF h, l
<1>2. [q EXCEPT !.hints = h] = p
  <2>1. [[field |-> q.field, hints |-> q.hints, listed |-> q.listed] EXCEPT !.hints = h] = p
    BY PartReplaced
  <2>. QED  BY <2>1
<1>3. [p EXCEPT !.listed = l] = [field |-> q.field, hints |-> h, listed |-> l]
  BY PartReplaced
<1>4. WithRoutingHint(q, hint) = [field |-> q.field, hints |-> h, listed |-> l]
  BY <1>1, <1>2, <1>3
<1>. QED  BY <1>4 DEF h, l

\* Setting a value of a type that may be set
LEMMA PutTidy ==
  ASSUME NEW q, Tidy(q), NEW t \in Single \ {"n"}, NEW v \in ValueOf(t)
  PROVE  Changed(Put(q, t, v), q, t, v, 1)
<1>. DEFINE l == appendOrMoveToEnd(q.listed, t)
            g == [q.field EXCEPT ![t] = v]
            p == Put(q, t, v)
<1>1. /\ q \in Requests /\ q.hints \in Seq(Hints) /\ q.listed \in Seq(Types)
      /\ q.field = [u \in Single |-> q.field[u]] /\ DOMAIN q.field = Single
      /\ \A u \in Single : q.field[u] \in ValueOf(u)
      /\ q.field["n"] \in {Absent, ZeroKey}
      /\ q = [field |-> q.field, hints |-> q.hints, listed |-> q.listed]
  BY RequestParts DEF Tidy
<1>2. t \in Types /\ t # "r"
  BY Constants
<1>3. remove(q.listed, t) \in Seq(Types)
      /\ \A u : Count(remove(q.listed, t), u) = IF u = t THEN 0 ELSE Count(q.listed, u)
  BY <1>1, RemoveSeq
<1>4. l \in Seq(Types)
  BY <1>2, <1>3, AppendProperties DEF appendOrMoveToEnd
<1>5. \A u : Count(l, u) = IF u = t THEN 1 ELSE Count(q.listed, u)
  <2>. TAKE u
  <2>1. Count(l, u) = IF u = t THEN Count(remove(q.listed, t), u) + 1
                      ELSE Count(remove(q.listed, t), u)
    BY <1>2, <1>3, AppendCount DEF appendOrMoveToEnd
  <2>. QED  BY <1>3, <2>1
<1>6. /\ g = [u \in Single |-> g[u]]
      /\ \A u \in Single : g[u] = IF u = t THEN v ELSE q.field[u]
  BY <1>1
<1>. HIDE DEF l, g
<1>7. p = [field |-> g, hints |-> q.hints, listed |-> l]
  BY <1>1, PutShape DEF l, g
<1>8. /\ \A u \in Single : g[u] \in ValueOf(u)
      /\ g["n"] \in {Absent, ZeroKey}
  BY <1>1, <1>6 DEF Single
<1>9. p \in Requests
  BY <1>1, <1>4, <1>6, <1>7, <1>8, RequestMade
<1>10. p.field = g /\ p.hints = q.hints /\ p.listed = l
  BY <1>7
<1>. HIDE DEF p
<1>11. Tidy(p)
  BY <1>2, <1>5, <1>6, <1>9, <1>10 DEF Tidy
<1>. QED  BY <1>5, <1>6, <1>10, <1>11 DEF Changed, p

\* Clearing a value
LEMMA DropTidy ==
  ASSUME NEW q, Tidy(q), NEW t \in Single
  PROVE  Changed(Drop(q, t), q, t, Absent, 0)
<1>. DEFINE l == remove(q.listed, t)
            g == [q.field EXCEPT ![t] = Absent]
            p == Drop(q, t)
<1>1. /\ q \in Requests /\ q.hints \in Seq(Hints) /\ q.listed \in Seq(Types)
      /\ q.field = [u \in Single |-> q.field[u]] /\ DOMAIN q.field = Single
      /\ \A u \in Single : q.field[u] \in ValueOf(u)
      /\ q.field["n"] \in {Absent, ZeroKey}
      /\ q = [field |-> q.field, hints |-> q.hints, listed |-> q.listed]
  BY RequestParts DEF Tidy
<1>2. t # "r" /\ "n" \in Single /\ "d" \in Single /\ "h" \in Single
  BY Constants DEF Single
<1>3. /\ l \in Seq(Types)
      /\ \A u : Count(l, u) = IF u = t THEN 0 ELSE Count(q.listed, u)
  BY <1>1, RemoveSeq
<1>4. /\ g = [u \in Single |-> g[u]]
      /\ \A u \in Single : g[u] = IF u = t THEN Absent ELSE q.field[u]
  BY <1>1
<1>. HIDE DEF l, g
<1>5. p = [field |-> g, hints |-> q.hints, listed |-> l]
  BY <1>1, DropShape DEF l, g
<1>6. /\ \A u \in Single : g[u] \in ValueOf(u)
      /\ g["n"] \in {Absent, ZeroKey}
  BY <1>1, <1>2, <1>4 DEF ValueOf
<1>7. p \in Requests
  BY <1>1, <1>3, <1>4, <1>5, <1>6, RequestMade
<1>8. p.field = g /\ p.hints = q.hints /\ p.listed = l
  BY <1>5
<1>. HIDE DEF p
<1>9. Tidy(p)
  BY <1>2, <1>3, <1>4, <1>7, <1>8 DEF Tidy
<1>. QED  BY <1>3, <1>4, <1>8, <1>9 DEF Changed, p

LEMMA HintTidy ==
  ASSUME NEW q, Tidy(q), NEW hint \in Hints
  PROVE  /\ Tidy(WithRoutingHint(q, hint))
         /\ Exclusive(q) => Exclusive(WithRoutingHint(q, hint))
<1>. DEFINE l == Append(q.listed, "r")
            hs == Append(q.hints, hint)
            p == WithRoutingHint(q, hint)
<1>1. /\ q \in Requests /\ q.hints \in Seq(Hints) /\ q.listed \in Seq(Types)
      /\ q.field = [u \in Single |-> q.field[u]] /\ DOMAIN q.field = Single
      /\ \A u \in Single : q.field[u] \in ValueOf(u)
      /\ q.field["n"] \in {Absent, ZeroKey}
      /\ q = [field |-> q.field, hints |-> q.hints, listed |-> q.listed]
  BY RequestParts DEF Tidy
<1>2. "r" \in Types /\ "r" \notin Single /\ "d" \in Single /\ "h" \in Single
  BY Constants DEF Single
<1>3. /\ l \in Seq(Types) /\ hs \in Seq(Hints) /\ Len(hs) = Len(q.hints) + 1
      /\ \A u : Count(l, u) = IF u = "r" THEN Count(q.listed, u) + 1 ELSE Count(q.listed, u)
  BY <1>1, <1>2, AppendCount, AppendProperties
<1>. HIDE DEF l, hs
<1>5. p = [field |-> q.field, hints |-> hs, listed |-> l]
  BY <1>1, WithRoutingHintShape DEF l, hs
<1>7. p \in Requests
  BY <1>1, <1>3, <1>5, RequestMade
<1>8. p.field = q.field /\ p.hints = hs /\ p.listed = l
  BY <1>5
<1>. HIDE DEF p
<1>9. \A t \in Single : t # "r"
  BY <1>2
<1>10. Tidy(p)
  BY <1>2, <1>3, <1>7, <1>8, <1>9 DEF Tidy
<1>11. Exclusive(q) => Exclusive(p)
  BY <1>3, <1>8 DEF Exclusive
<1>. QED  BY <1>10, <1>11 DEF p

\* A description and a hash of one exclude each other.
LEMMA DescriptionTidy ==
  ASSUME NEW q, Tidy(q), Exclusive(q)
  PROVE  /\ \A text \in Values["d"] \cup LongTexts :
              Tidy(WithDescription(q, text)) /\ Exclusive(WithDescription(q, text))
         /\ \A hash \in Values["h"] \cup {Absent} :
              Tidy(WithDescriptionHash(q, hash)) /\ Exclusive(WithDescriptionHash(q, hash))
<1>1. /\ "d" \in Single \ {"n"} /\ "h" \in Single \ {"n"} /\ "d" # "h"
      /\ Values["d"] \subseteq ValueOf("d")
      /\ Values["h"] \cup {Absent} \subseteq ValueOf("h")
      /\ \A text \in LongTexts : Sha256[text] \in ValueOf("h")
  BY Inputs DEF Single
<1>2. ASSUME NEW t \in {"d", "h"}, NEW u \in {"d", "h"}, t # u, NEW v \in ValueOf(t)
      PROVE  Tidy(Drop(Put(q, t, v), u)) /\ Exclusive(Drop(Put(q, t, v), u))
  <2>. DEFINE p == Put(q, t, v)
              o == Drop(p, u)
  <2>1. Changed(p, q, t, v, 1) /\ t \in Single /\ u \in Single
    BY <1>1, PutTidy
  <2>. HIDE DEF p
  <2>2. Changed(o, p, u, Absent, 0)
    <3>1. Tidy(p)
      BY <2>1 DEF Changed
    <3>. QED  BY <2>1, <3>1, DropTidy
  <2>. HIDE DEF o
  <2>3. Tidy(o) /\ o.field[u] = Absent /\ Count(o.listed, u) = 0
    BY <2>1, <2>2 DEF Changed
  <2>4. Exclusive(o)
    BY <2>3, <1>2 DEF Exclusive
  <2>. QED  BY <2>3, <2>4 DEF o, p
<1>3. ASSUME NEW v \in ValueOf("h")
      PROVE  Tidy(Put(Drop(q, "d"), "h", v)) /\ Exclusive(Put(Drop(q, "d"), "h", v))
  <2>. DEFINE p == Drop(q, "d")
              o == Put(p, "h", v)
  <2>1. Changed(p, q, "d", Absent, 0)
    BY <1>1, DropTidy
  <2>. HIDE DEF p
  <2>2. Changed(o, p, "h", v, 1)
    <3>1. Tidy(p) /\ "h" \in Single \ {"n"}
      BY <1>1, <2>1 DEF Changed
    <3>. QED  BY <3>1, PutTidy
  <2>. HIDE DEF o
  <2>3. Tidy(o) /\ o.field["d"] = Absent /\ Count(o.listed, "d") = 0
    BY <1>1, <2>1, <2>2 DEF Changed
  <2>4. Exclusive(o)
    BY <2>3 DEF Exclusive
  <2>. QED  BY <2>3, <2>4 DEF o, p
<1>4. ASSUME NEW text \in Values["d"] \cup LongTexts
      PROVE  Tidy(WithDescription(q, text)) /\ Exclusive(WithDescription(q, text))
  <2>1. CASE text \in LongTexts
    BY <1>1, <1>2, <2>1 DEF WithDescription
  <2>2. CASE text \notin LongTexts
    BY <1>1, <1>2, <2>2 DEF WithDescription
  <2>. QED  BY <2>1, <2>2
<1>5. ASSUME NEW hash \in Values["h"] \cup {Absent}
      PROVE  Tidy(WithDescriptionHash(q, hash)) /\ Exclusive(WithDescriptionHash(q, hash))
  BY <1>1, <1>3 DEF WithDescriptionHash
<1>. QED  BY <1>4, <1>5

\* Every other option sets or clears one value and leaves the description.
LEMMA OtherOptionTidy ==
  ASSUME NEW q, Tidy(q), Exclusive(q), NEW t \in Single \ {"n", "d", "h"}
  PROVE  /\ \A v \in Values[t] \cup {Absent} : Tidy(Put(q, t, v)) /\ Exclusive(Put(q, t, v))
         /\ Tidy(Drop(q, t)) /\ Exclusive(Drop(q, t))
<1>1. ASSUME NEW v \in Values[t] \cup {Absent}
      PROVE  Tidy(Put(q, t, v)) /\ Exclusive(Put(q, t, v))
  <2>. DEFINE p == Put(q, t, v)
  <2>1. v \in ValueOf(t) /\ "d" \in Single /\ "h" \in Single /\ t # "d" /\ t # "h"
    BY Inputs DEF Single
  <2>2. Changed(p, q, t, v, 1)
    BY <2>1, PutTidy
  <2>. HIDE DEF p
  <2>3. /\ Tidy(p) /\ p.field["d"] = q.field["d"] /\ p.field["h"] = q.field["h"]
        /\ Count(p.listed, "d") = Count(q.listed, "d")
        /\ Count(p.listed, "h") = Count(q.listed, "h")
    BY <2>1, <2>2 DEF Changed
  <2>4. Exclusive(p)
    BY <2>3 DEF Exclusive
  <2>. QED  BY <2>3, <2>4 DEF p
<1>2. Tidy(Drop(q, t)) /\ Exclusive(Drop(q, t))
  <2>. DEFINE p == Drop(q, t)
  <2>1. "d" \in Single /\ "h" \in Single /\ t # "d" /\ t # "h"
    BY DEF Single
  <2>2. Changed(p, q, t, Absent, 0)
    BY DropTidy
  <2>. HIDE DEF p
  <2>3. /\ Tidy(p) /\ p.field["d"] = q.field["d"] /\ p.field["h"] = q.field["h"]
        /\ Count(p.listed, "d") = Count(q.listed, "d")
        /\ Count(p.listed, "h") = Count(q.listed, "h")
    BY <2>1, <2>2 DEF Changed
  <2>4. Exclusive(p)
    BY <2>3 DEF Exclusive
  <2>. QED  BY <2>3, <2>4 DEF p
<1>. QED  BY <1>1, <1>2

-----------------------------------------------------------------------------
(* Where a request and an invoice begin *)

LEMMA EmptyFacts ==
  /\ Empty \in Requests /\ Empty.hints = <<>> /\ Empty.listed = <<>>
  /\ \A t \in Single : Empty.field[t] = Absent
<1>. DEFINE g == [t \in Single |-> Absent]
            none == <<>>
<1>1. /\ none \in Seq(Hints) /\ none \in Seq(Types)
      /\ g = [t \in Single |-> g[t]] /\ \A t \in Single : g[t] = Absent
  OBVIOUS
<1>2. g["n"] = Absent /\ \A t \in Single : g[t] \in ValueOf(t)
  BY DEF Single, ValueOf
<1>3. Empty = [field |-> g, hints |-> none, listed |-> none]
  BY DEF Empty
<1>. HIDE DEF g, none
<1>4. Empty \in Requests
  BY <1>1, <1>2, <1>3, RequestMade
<1>5. Empty.hints = none /\ Empty.listed = none /\ Empty.field = g
  BY <1>3
<1>. QED  BY <1>1, <1>4, <1>5 DEF none

LEMMA DefaultFacts ==
  /\ DefaultRequest \in Requests /\ Tidy(DefaultRequest) /\ Exclusive(DefaultRequest)
<1>. DEFINE g == [t \in Single |-> IF t \in DOMAIN Defaults THEN Defaults[t] ELSE Absent]
            none == <<>>
            l == <<"s", "p", "x", "c", "d">>
            q == DefaultRequest
<1>1. none \in Seq(Hints) /\ Len(none) = 0
  OBVIOUS
<1>2. l \in Seq(Types) /\ Len(l) = 5
  BY DEF Types, Known, Single
<1>3. \A t \in Single : g[t] = IF t \in DOMAIN Defaults THEN Defaults[t] ELSE Absent
  OBVIOUS
<1>4. /\ DOMAIN Defaults = {"s", "p", "x", "c", "d"}
      /\ \A t \in DOMAIN Defaults : Defaults[t] \in Values[t] /\ t \in Single
  BY InputsAssumption DEF Single
<1>5. g = [t \in Single |-> g[t]]
  OBVIOUS
<1>6. q = [field |-> g, hints |-> none, listed |-> l]
  BY DEF DefaultRequest
<1>7. l[1] = "s" /\ l[2] = "p" /\ l[3] = "x" /\ l[4] = "c" /\ l[5] = "d" /\ DOMAIN l = 1 .. 5
  OBVIOUS
<1>. HIDE DEF g, none, l, q
<1>8. \A t \in Single : g[t] \in ValueOf(t)
  BY <1>3, <1>4, Inputs
<1>9. g["n"] = Absent /\ g["h"] = Absent
  BY <1>3, <1>4 DEF Single
<1>10. q \in Requests /\ q.field = g /\ q.hints = none /\ q.listed = l
  BY <1>1, <1>2, <1>5, <1>6, <1>8, <1>9, RequestMade
<1>11. \A t : \A i, j \in Positions(l, t) : i = j
  <2>1. \A i, j \in 1 .. 5 : l[i] = l[j] => i = j
    <3>1. \A i \in 1 .. 5 : i = 1 \/ i = 2 \/ i = 3 \/ i = 4 \/ i = 5
      OBVIOUS
    <3>. QED  BY <1>7, <3>1
  <2>. QED  BY <1>7, <2>1 DEF Positions
<1>12. \A t : Count(l, t) <= 1
  BY <1>2, <1>11, CountFacts
<1>13. \A t \in {"s", "p", "x", "c", "d"} : Positions(l, t) # {}
  BY <1>7 DEF Positions
<1>14. \A t \in {"s", "p", "x", "c", "d"} : Count(l, t) = 1
  <2>. TAKE t \in {"s", "p", "x", "c", "d"}
  <2>1. Count(l, t) \in Nat /\ (Count(l, t) = 0 <=> Positions(l, t) = {})
    BY <1>2, CountFacts
  <2>. QED  BY <1>12, <1>13, <2>1
<1>15. Count(l, "r") = 0 /\ Count(l, "h") = 0
  <2>1. Positions(l, "r") = {} /\ Positions(l, "h") = {}
    BY <1>7 DEF Positions
  <2>. QED  BY <1>2, <2>1, CountFacts
<1>16. \A t \in Single : g[t] # Absent => t \in {"s", "p", "x", "c", "d"}
  BY <1>3, <1>4
<1>17. Tidy(q)
  BY <1>1, <1>10, <1>12, <1>14, <1>15, <1>16 DEF Tidy
<1>18. Exclusive(q)
  BY <1>9, <1>10, <1>15 DEF Exclusive
<1>. QED  BY <1>10, <1>17, <1>18 DEF q

\* What is left of a sequence
LEMMA AfterFacts ==
  ASSUME NEW X, NEW s \in Seq(X), NEW k \in Nat
  PROVE  /\ After(s, k) \in Seq(X)
         /\ After(s, 0) = s
         /\ After(s, k) = <<>> <=> Len(s) <= k
<1>1. Len(s) \in Nat /\ \A i \in 1 .. Len(s) : s[i] \in X
  OBVIOUS
<1>2. /\ SubSeq(s, k + 1, Len(s)) \in Seq(X)
      /\ Len(SubSeq(s, k + 1, Len(s))) = IF k + 1 <= Len(s) THEN Len(s) - (k + 1) + 1 ELSE 0
  BY <1>1, SubSeqProperties
<1>3. After(s, 0) = s
  BY SubSeqFull DEF After
<1>4. After(s, k) = <<>> <=> Len(s) <= k
  <2>. DEFINE r == SubSeq(s, k + 1, Len(s))
  <2>1. Len(r) = 0 <=> Len(s) <= k
    BY <1>1, <1>2
  <2>2. r \in Seq(X)
    BY <1>2
  <2>. HIDE DEF r
  <2>3. r = <<>> <=> Len(r) = 0
    BY <2>2, EmptySeq
  <2>. QED  BY <2>1, <2>3 DEF After, r
<1>. QED  BY <1>2, <1>3, <1>4 DEF After

LEMMA AfterStep ==
  ASSUME NEW X, NEW s \in Seq(X), NEW k \in Nat, k < Len(s)
  PROVE  Head(After(s, k)) = s[k + 1] /\ Tail(After(s, k)) = After(s, k + 1)
<1>1. k + 1 \in 1 .. Len(s) /\ Len(s) \in k + 1 .. Len(s) /\ k + 1 + 1 = (k + 1) + 1
  OBVIOUS
<1>. QED  BY <1>1, HeadTailOfSubSeq DEF After

-----------------------------------------------------------------------------
(* The encoder's loop *)

\* How many hints are used grows with every `r'.
LEMMA HintsUsedGrows ==
  ASSUME NEW q \in Requests, NEW k \in 0 .. Len(q.listed)
  PROVE  /\ HintsUsed(q, k) \in Nat
         /\ k = 0 => HintsUsed(q, k) = 0
         /\ k < Len(q.listed) =>
              HintsUsed(q, k + 1) = IF q.listed[k + 1] = "r" THEN HintsUsed(q, k) + 1
                                                             ELSE HintsUsed(q, k)
<1>. DEFINE l == q.listed
            P == Positions(l, "r")
            U == {j \in P : j <= k}
            W == {j \in P : j <= k + 1}
<1>1. l \in Seq(Types) /\ k \in Nat /\ Len(l) \in Nat /\ DOMAIN l = 1 .. Len(l)
  <2>1. l \in Seq(Types)
    BY RequestParts, Zenon
  <2>. HIDE DEF l
  <2>2. Len(l) \in Nat /\ DOMAIN l = 1 .. Len(l)
    BY <2>1
  <2>. QED  BY <2>1, <2>2 DEF l
<1>2. IsFiniteSet(P) /\ P \in SUBSET (1 .. Len(l))
  BY <1>1, CountFacts
<1>3. P \in SUBSET Nat /\ U \in SUBSET P
  BY <1>2
<1>4. IsFiniteSet(U) /\ Cardinality(U) \in Nat
  BY <1>2, <1>3, FS_Subset, FS_CardinalityType
<1>5. k = 0 => Cardinality(U) = 0
  <2>1. k = 0 => U = {}
    BY <1>2
  <2>. QED  BY <2>1, FS_EmptySet
<1>6. ASSUME k < Len(l)
      PROVE  Cardinality(W) = IF l[k + 1] = "r" THEN Cardinality(U) + 1 ELSE Cardinality(U)
  <2>1. k + 1 \in P <=> l[k + 1] = "r"
    BY <1>1, <1>6 DEF Positions
  <2>2. \A j \in P : j <= k + 1 <=> j <= k \/ j = k + 1
    BY <1>1, <1>3
  <2>3. k + 1 \notin U
    BY <1>1
  <2>4. W = IF k + 1 \in P THEN U \cup {k + 1} ELSE U
    <3>. HIDE DEF P
    <3>. QED  BY <2>2, <1>1
  <2>5. Cardinality(U \cup {k + 1}) = Cardinality(U) + 1
    BY <1>4, <2>3, FS_AddElement
  <2>. HIDE DEF U, W, P
  <2>. QED  BY <2>1, <2>4, <2>5
<1>. QED  BY <1>4, <1>5, <1>6 DEF HintsUsed

\* The entry whose turn it is, as the iterator finds it
LEMMA EntryFacts ==
  ASSUME NEW q \in Requests, NEW k \in 0 .. Len(q.listed), k < Len(q.listed)
  PROVE  LET t  == q.listed[k + 1]
             hs == After(q.hints, HintsUsed(q, k))
         IN  /\ t \in Types
             /\ Found(q, k + 1) = IF t = "r" THEN (IF hs = <<>> THEN Absent ELSE Head(hs))
                                  ELSE IF t \in Single THEN q.field[t] ELSE Absent
             /\ Found(q, k + 1) # Absent =>
                  t \in Known /\ Found(q, k + 1) \in DOMAIN Encode[t]
             /\ After(q.hints, HintsUsed(q, k + 1)) = IF t = "r" /\ hs # <<>> THEN Tail(hs) ELSE hs
<1>. DEFINE t == q.listed[k + 1]
            n == HintsUsed(q, k)
            m == HintsUsed(q, k + 1)
            hs == After(q.hints, n)
            e == Found(q, k + 1)
<1>0. q.listed \in Seq(Types) /\ q.hints \in Seq(Hints)
  BY RequestParts, Zenon
<1>1. k \in Nat /\ Len(q.hints) \in Nat /\ k + 1 \in 1 .. Len(q.listed)
  <2>1. Len(q.listed) \in Nat /\ Len(q.hints) \in Nat
    BY <1>0
  <2>. QED  BY <2>1
<1>2. t \in Types
  BY <1>0, <1>1
<1>3. n \in Nat /\ m = IF t = "r" THEN n + 1 ELSE n
  BY HintsUsedGrows
<1>4. e = IF t = "r" THEN (IF m <= Len(q.hints) THEN q.hints[m] ELSE Absent)
          ELSE IF t \in Single THEN q.field[t] ELSE Absent
  BY DEF Found, Rank, HintsUsed
<1>5. /\ hs = <<>> <=> Len(q.hints) <= n
      /\ n < Len(q.hints) => Head(hs) = q.hints[n + 1] /\ Tail(hs) = After(q.hints, n + 1)
  <2>1. n \in Nat
    BY <1>3
  <2>. HIDE DEF n
  <2>2. hs = <<>> <=> Len(q.hints) <= n
    BY <1>0, <2>1, AfterFacts
  <2>3. n < Len(q.hints) => Head(hs) = q.hints[n + 1] /\ Tail(hs) = After(q.hints, n + 1)
    BY <1>0, <2>1, AfterStep
  <2>. QED  BY <2>2, <2>3
<1>6. Len(q.hints) <= n => After(q.hints, n + 1) = <<>>
  <2>1. n + 1 \in Nat /\ (Len(q.hints) <= n => Len(q.hints) <= n + 1)
    BY <1>1, <1>3
  <2>2. n + 1 \in Nat
    BY <1>3
  <2>. HIDE DEF n
  <2>. QED  BY <1>0, <2>1, <2>2, AfterFacts
<1>. HIDE DEF t, n, m, hs, e
<1>7. e = IF t = "r" THEN (IF hs = <<>> THEN Absent ELSE Head(hs))
          ELSE IF t \in Single THEN q.field[t] ELSE Absent
  BY <1>1, <1>3, <1>4, <1>5
<1>8. After(q.hints, m) = IF t = "r" /\ hs # <<>> THEN Tail(hs) ELSE hs
  <2>1. CASE t = "r" /\ n < Len(q.hints)
    <3>1. ~(Len(q.hints) <= n) /\ m = n + 1
      BY <1>1, <1>3, <2>1
    <3>. QED  BY <1>5, <2>1, <3>1
  <2>2. CASE t = "r" /\ ~(n < Len(q.hints))
    <3>1. Len(q.hints) <= n /\ m = n + 1
      BY <1>1, <1>3, <2>2
    <3>. QED  BY <1>5, <1>6, <3>1
  <2>3. CASE t # "r"
    BY <1>3, <2>3 DEF hs
  <2>. QED  BY <2>1, <2>2, <2>3
<1>9. e # Absent => t \in Known /\ e \in DOMAIN Encode[t]
  <2>1. CASE t = "r"
    <3>1. e # Absent => m \in 1 .. Len(q.hints) /\ e = q.hints[m]
      BY <1>1, <1>3, <1>4, <2>1
    <3>2. m \in 1 .. Len(q.hints) => q.hints[m] \in Hints
      BY <1>0
    <3>. QED  BY <2>1, <3>1, <3>2, Constants DEF Hints
  <2>2. CASE t \in Single
    <3>1. t # "r" /\ t \in Known /\ q.field[t] \in ValueOf(t)
      BY <2>2, Constants, RequestParts
    <3>. QED  BY <1>4, <2>2, <3>1 DEF ValueOf
  <2>3. CASE t # "r" /\ t \notin Single
    BY <1>4, <2>3
  <2>. QED  BY <2>1, <2>2, <2>3
<1>. QED  BY <1>2, <1>7, <1>8, <1>9 DEF t, n, m, hs, e

LEMMA EncodedNone == \A q : Encoded(q, 0, <<>>)
<1>. TAKE q
<1>1. Present(q, 0) = 1 .. 0
  BY DEF Present
<1>2. Subsequence(Entries(q), 1 .. 0) = [k \in 1 .. 0 |-> Entries(q)[k]]
  <2>1. 0 \in Nat
    OBVIOUS
  <2>. QED  BY <2>1, SubsequenceFirst, Zenon
<1>3. [k \in 1 .. 0 |-> Entries(q)[k]] = <<>>
  OBVIOUS
<1>4. \A i \in 1 .. 0 : q.listed[i] \notin Unknown
  OBVIOUS
<1>. QED  BY <1>1, <1>2, <1>3, <1>4 DEF Encoded

LEMMA EncodedGrows ==
  ASSUME NEW q \in Requests, NEW k \in 0 .. Len(q.listed), k < Len(q.listed), NEW inv,
         Encoded(q, k, inv), q.listed[k + 1] \notin Unknown
  PROVE  IF Found(q, k + 1) = Absent THEN Encoded(q, k + 1, inv)
                                          ELSE Encoded(q, k + 1, Append(inv, Entry(q, k + 1)))
<1>. DEFINE E == {Entry(q, i) : i \in DOMAIN q.listed}
            es == Entries(q)
            S == Present(q, k)
<1>0. q.listed \in Seq(Types)
  BY RequestParts, Zenon
<1>1. k \in Nat /\ Len(q.listed) \in Nat /\ DOMAIN q.listed = 1 .. Len(q.listed)
  BY <1>0
<1>2. k + 1 \in 1 .. Len(q.listed)
  BY <1>1
<1>3. es \in Seq(E) /\ Len(es) = Len(q.listed) /\ es[k + 1] = Entry(q, k + 1)
  BY <1>1, <1>2 DEF Entries
<1>4. S \in SUBSET (1 .. Len(q.listed)) /\ \A j \in S : j < k + 1
  BY <1>1 DEF Present
<1>5. Present(q, k + 1) = IF Found(q, k + 1) = Absent THEN S ELSE S \cup {k + 1}
  <2>1. 1 .. (k + 1) = (1 .. k) \cup {k + 1}
    BY <1>1
  <2>. QED  BY <2>1 DEF Present
<1>7. \A i \in 1 .. (k + 1) : q.listed[i] \notin Unknown
  <2>1. \A i \in 1 .. (k + 1) : i \in 1 .. k \/ i = k + 1
    BY <1>1
  <2>. QED  BY <2>1 DEF Encoded
<1>. HIDE DEF es, S, E
<1>6. Subsequence(es, S \cup {k + 1}) = Append(Subsequence(es, S), es[k + 1])
  BY <1>2, <1>3, <1>4, SubsequenceLast
<1>. QED  BY <1>3, <1>5, <1>6, <1>7 DEF Encoded, es, S

LEMMA Starts ==
  ASSUME IInv, EncodeBech32
  PROVE  IInv'
<1>1. /\ stage = "held" /\ rounds < MaxRounds
      /\ stage' = IF validate(pr) THEN "encoding" ELSE "unencodable"
      /\ todo' = pr.listed /\ hints' = pr.hints
      /\ invoice' = << >> /\ origin' = pr /\ rounds' = rounds + 1
      /\ pr' = pr /\ source' = source /\ options' = options
  BY DEF EncodeBech32
<1>2. Typed'
  BY <1>1, InputsAssumption DEF IInv, Typed, Stages
<1>3. source # <<>> => Decoded(pr, source, Len(source))
  BY <1>1 DEF IInv, Held
<1>4. stage' = "encoding" \/ stage' = "unencodable"
  BY <1>1
<1>5. Built' /\ Finished' /\ Received' /\ Decoding' /\ Held' /\ Undecodable'
  BY <1>4 DEF Built, Finished, Received, Decoding, Held, Undecodable
<1>6. Encoding'
  <2>1. SUFFICES ASSUME stage' = "encoding"
                 PROVE  /\ pr' = origin' /\ validate(origin') /\ rounds' > 0
                        /\ source' # <<>> => Decoded(origin', source', Len(source'))
                        /\ \E k \in 0 .. Len(origin'.listed) :
                              /\ todo' = After(origin'.listed, k)
                              /\ hints' = After(origin'.hints, HintsUsed(origin', k))
                              /\ Encoded(origin', k, invoice')
    BY DEF Encoding
  <2>2. pr \in Requests /\ pr.listed \in Seq(Types) /\ pr.hints \in Seq(Hints)
    BY RequestParts DEF IInv, Typed
  <2>3. validate(pr)
    BY <1>1, <2>1
  <2>4. rounds' > 0
    BY <1>1 DEF IInv, Typed
  <2>5. /\ 0 \in 0 .. Len(pr.listed)
        /\ HintsUsed(pr, 0) = 0
    <3>1. Len(pr.listed) \in Nat
      BY <2>2
    <3>2. 0 \in 0 .. Len(pr.listed)
      BY <3>1
    <3>. QED  BY <2>2, <3>2, HintsUsedGrows
  <2>6. After(pr.listed, 0) = pr.listed /\ After(pr.hints, 0) = pr.hints
    BY <2>2, AfterFacts
  <2>7. Encoded(pr, 0, <<>>)
    BY EncodedNone
  <2>. QED  BY <1>1, <1>3, <2>3, <2>4, <2>5, <2>6, <2>7
<1>. QED  BY <1>2, <1>5, <1>6 DEF IInv

LEMMA Writes ==
  ASSUME IInv, SkipField \/ WriteField
  PROVE  IInv'
<1>. DEFINE q == origin
<1>1. PICK t \in Types :
        /\ EncodeField(t)
        /\ \/ EncoderData(t) = Absent /\ invoice' = invoice
           \/ EncoderData(t) # Absent /\ invoice' = Append(invoice, [type |-> t, data |-> Encode[t][EncoderData(t)]])
  BY DEF SkipField, WriteField
<1>2. /\ stage = "encoding" /\ todo # << >> /\ t = Head(todo) /\ ~EncodeRefused(t)
      /\ todo' = Tail(todo)
      /\ hints' = IF t = "r" /\ hints # << >> THEN Tail(hints) ELSE hints
      /\ stage' = "encoding" /\ pr' = pr /\ origin' = origin /\ source' = source
      /\ options' = options /\ rounds' = rounds
  BY <1>1 DEF EncodeField
<1>3. /\ pr = origin /\ validate(origin) /\ rounds > 0
      /\ source # <<>> => Decoded(origin, source, Len(source))
      /\ \E k \in 0 .. Len(origin.listed) :
           /\ todo = After(origin.listed, k)
           /\ hints = After(origin.hints, HintsUsed(origin, k))
           /\ Encoded(origin, k, invoice)
  BY <1>2 DEF IInv, Encoding
<1>4. PICK k \in 0 .. Len(origin.listed) :
        /\ todo = After(origin.listed, k)
        /\ hints = After(origin.hints, HintsUsed(origin, k))
        /\ Encoded(origin, k, invoice)
  BY <1>3
<1>5. PICK o : o = origin
  OBVIOUS
<1>6. o \in Requests /\ invoice \in Seq(Tagged)
  BY <1>5 DEF IInv, Typed
<1>7. o.listed \in Seq(Types)
  BY <1>6, RequestParts, Zenon
<1>8. k \in 0 .. Len(o.listed) /\ k \in Nat /\ Len(o.listed) \in Nat
  BY <1>4, <1>5, <1>7
<1>9. k < Len(o.listed) /\ Head(todo) = o.listed[k + 1] /\ Tail(todo) = After(o.listed, k + 1)
  <2>1. After(o.listed, k) = <<>> <=> Len(o.listed) <= k
    BY <1>7, <1>8, AfterFacts
  <2>3. After(o.listed, k) # <<>>
    BY <1>2, <1>4, <1>5
  <2>4. k < Len(o.listed)
    BY <1>8, <2>1, <2>3
  <2>5. /\ Head(After(o.listed, k)) = o.listed[k + 1]
        /\ Tail(After(o.listed, k)) = After(o.listed, k + 1)
    BY <1>7, <1>8, <2>4, AfterStep
  <2>. QED  BY <1>4, <1>5, <2>4, <2>5
<1>10. /\ o.listed[k + 1] = t
       /\ Found(o, k + 1) = IF t = "r" THEN (IF hints = <<>> THEN Absent ELSE Head(hints))
                            ELSE IF t \in Single THEN o.field[t] ELSE Absent
       /\ Found(o, k + 1) # Absent => t \in Known /\ Found(o, k + 1) \in DOMAIN Encode[t]
       /\ After(o.hints, HintsUsed(o, k + 1)) = IF t = "r" /\ hints # <<>> THEN Tail(hints) ELSE hints
  BY <1>2, <1>4, <1>5, <1>6, <1>8, <1>9, EntryFacts
<1>11. t \in Known /\ t \notin Unknown /\ EncoderData(t) = Found(o, k + 1)
  <2>1. (t = "r" /\ t \notin Single) \/ (t # "r" /\ t \in Single)
    BY <1>2, Constants DEF EncodeRefused
  <2>2. EncoderData(t) = Found(o, k + 1)
    BY <1>3, <1>5, <1>10, <2>1 DEF EncoderData
  <2>. QED  BY <2>1, <2>2, Constants
<1>12. IF Found(o, k + 1) = Absent THEN Encoded(o, k + 1, invoice)
       ELSE Encoded(o, k + 1, Append(invoice, Entry(o, k + 1)))
  BY <1>4, <1>5, <1>6, <1>8, <1>9, <1>10, <1>11, EncodedGrows
<1>13. Entry(o, k + 1) = [type |-> t, data |-> Encode[t][EncoderData(t)]]
  BY <1>10, <1>11 DEF Entry
<1>14. Encoded(o, k + 1, invoice')
  BY <1>1, <1>11, <1>12, <1>13
<1>15. invoice' \in Seq(Tagged)
  <2>1. CASE EncoderData(t) = Absent
    BY <1>1, <1>6, <2>1
  <2>2. CASE EncoderData(t) # Absent
    <3>1. Encode[t][EncoderData(t)] \in DataOf(t)
      <4>1. Encode[t][EncoderData(t)] # Error
        BY <1>2, <1>11, <2>2 DEF EncodeRefused
      <4>2. EncoderData(t) \in DOMAIN Encode[t]
        BY <1>10, <1>11, <2>2
      <4>. QED  BY <1>11, <4>1, <4>2, ConversionsAssumption, Inputs
    <3>2. Entry(o, k + 1) \in Tagged
      BY <1>13, <3>1 DEF Tagged
    <3>. QED  BY <1>1, <1>6, <1>13, <2>2, <3>2, AppendProperties
  <2>. QED  BY <2>1, <2>2
<1>16. Typed'
  BY <1>2, <1>15 DEF IInv, Typed
<1>17. Built' /\ Finished' /\ Received' /\ Decoding' /\ Held' /\ Undecodable'
  BY <1>2 DEF Built, Finished, Received, Decoding, Held, Undecodable
<1>18. Encoding'
  <2>1. SUFFICES
          /\ pr' = origin' /\ validate(origin') /\ rounds' > 0
          /\ source' # <<>> => Decoded(origin', source', Len(source'))
          /\ \E n \in 0 .. Len(origin'.listed) :
               /\ todo' = After(origin'.listed, n)
               /\ hints' = After(origin'.hints, HintsUsed(origin', n))
               /\ Encoded(origin', n, invoice')
    BY DEF Encoding
  <2>2. k + 1 \in 0 .. Len(o.listed)
    BY <1>8, <1>9
  <2>3. todo' = After(o.listed, k + 1) /\ hints' = After(o.hints, HintsUsed(o, k + 1))
    BY <1>2, <1>9, <1>10
  <2>. QED  BY <1>2, <1>3, <1>5, <1>14, <2>2, <2>3
<1>. QED  BY <1>16, <1>17, <1>18 DEF IInv

LEMMA EncodingEnds ==
  ASSUME IInv, EncodeFails \/ EncodeDone
  PROVE  IInv'
<1>1. /\ stage = "encoding" /\ pr' = pr /\ origin' = origin /\ source' = source
      /\ invoice' = invoice /\ options' = options /\ rounds' = rounds
      /\ stage' = "unencodable" \/ (stage' = "written" /\ todo = <<>>)
  BY DEF EncodeFails, EncodeDone
<1>2. Typed'
  BY <1>1 DEF IInv, Typed, Stages
<1>3. Built' /\ Encoding' /\ Received' /\ Decoding' /\ Held' /\ Undecodable'
  BY <1>1 DEF Built, Encoding, Received, Decoding, Held, Undecodable
<1>4. Finished'
  <2>1. SUFFICES ASSUME stage' = "written"
                 PROVE  /\ validate(origin) /\ rounds > 0
                        /\ Encoded(origin, Len(origin.listed), invoice)
                        /\ source # <<>> => Decoded(origin, source, Len(source))
    BY <1>1 DEF Finished
  <2>2. /\ validate(origin) /\ rounds > 0
        /\ source # <<>> => Decoded(origin, source, Len(source))
        /\ \E k \in 0 .. Len(origin.listed) :
             todo = After(origin.listed, k) /\ Encoded(origin, k, invoice)
    BY <1>1 DEF IInv, Encoding
  <2>3. PICK k \in 0 .. Len(origin.listed) :
          todo = After(origin.listed, k) /\ Encoded(origin, k, invoice)
    BY <2>2
  <2>4. origin.listed \in Seq(Types)
    BY RequestParts DEF IInv, Typed
  <2>5. k \in Nat /\ Len(origin.listed) \in Nat
    BY <2>4
  <2>6. Len(origin.listed) <= k
    BY <1>1, <2>1, <2>3, <2>4, <2>5, AfterFacts
  <2>7. k = Len(origin.listed)
    BY <2>3, <2>5, <2>6
  <2>. QED  BY <2>2, <2>3, <2>7
<1>. QED  BY <1>2, <1>3, <1>4 DEF IInv

-----------------------------------------------------------------------------
(* The decoder's loop *)

\* The bytes of a hash and the hash of bytes
LEMMA HashFacts ==
  /\ NoBytes \in [1 .. HashSize -> Parts]
  /\ \A x \in [1 .. HashSize -> Parts] : /\ Bytes(HashOf(x)) = x
                                         /\ HashOf(x) \in Hashes \cup {Absent}
  /\ \A t \in HashTypes : ValueOf(t) = Hashes \cup {Absent}
  /\ \A hash \in Hashes \cup {Absent} : Bytes(hash) \in [1 .. HashSize -> Parts]
<1>1. NoBytes \in [1 .. HashSize -> Parts]
  BY TypesAssumption DEF NoBytes
<1>2. Absent \notin Hashes /\ \A t \in HashTypes : DOMAIN Encode[t] = Hashes
  BY ConversionsAssumption
<1>3. \A hash \in Hashes : hash \in [1 .. HashSize -> Parts] /\ hash # NoBytes /\ hash # Absent
  BY <1>2 DEF Hashes
<1>4. \A x \in [1 .. HashSize -> Parts] : x = NoBytes \/ x \in Hashes
  BY DEF Hashes
<1>5. \A x \in [1 .. HashSize -> Parts] : Bytes(HashOf(x)) = x /\ HashOf(x) \in Hashes \cup {Absent}
  BY <1>3, <1>4, Zenon DEF Bytes, HashOf
<1>6. \A hash \in Hashes \cup {Absent} : Bytes(hash) \in [1 .. HashSize -> Parts]
  BY <1>1, <1>3, Zenon DEF Bytes
<1>7. \A t \in HashTypes : ValueOf(t) = Hashes \cup {Absent}
  BY <1>2 DEF ValueOf
<1>. QED  BY <1>1, <1>5, <1>6, <1>7

LEMMA CopiedFacts ==
  ASSUME NEW old \in Hashes \cup {Absent}, NEW bytes \in Seq(Parts)
  PROVE  /\ Copied(old, bytes) \in Hashes \cup {Absent}
         /\ Copied(old, bytes) =
              HashOf([i \in 1 .. HashSize |-> IF i <= Len(bytes) THEN bytes[i] ELSE Bytes(old)[i]])
<1>. DEFINE x == [i \in 1 .. HashSize |-> IF i <= Len(bytes) THEN bytes[i] ELSE Bytes(old)[i]]
<1>1. HashSize \in Nat /\ Len(bytes) \in Nat
  BY TypesAssumption
<1>2. \A i \in 1 .. HashSize : i <= Len(bytes) => bytes[i] \in Parts
  BY <1>1
<1>3. \A i \in 1 .. HashSize : Bytes(old)[i] \in Parts
  <2>1. Bytes(old) \in [1 .. HashSize -> Parts]
    BY HashFacts
  <2>. QED  BY <2>1
<1>4. x \in [1 .. HashSize -> Parts]
  BY <1>2, <1>3
<1>5. Copied(old, bytes) = HashOf(x)
  BY Zenon DEF Copied
<1>. HIDE DEF x
<1>6. Copied(old, bytes) \in Hashes \cup {Absent}
  BY <1>4, <1>5, HashFacts
<1>. QED  BY <1>5, <1>6 DEF x

LEMMA DecodedNone == \A s : Decoded(Empty, s, 0)
<1>. TAKE s
<1>1. \A t : OfType(s, 0, t) = {} /\ Reads(s, 0, t) = {}
  BY DEF OfType, Reads
<1>2. Lasts(s, 0) = 1 .. 0 /\ OfType(s, 0, "r") = 1 .. 0 /\ 0 \in Nat
  BY DEF Lasts, OfType
<1>3. \A q : Subsequence(q, 1 .. 0) = <<>>
  <2>. TAKE q
  <2>1. Subsequence(q, 1 .. 0) = [k \in 1 .. 0 |-> q[k]]
    BY <1>2, SubsequenceFirst, Zenon
  <2>. QED  BY <2>1
<1>4. \A i \in 1 .. 0 : ~Refused(s[i])
  OBVIOUS
<1>5. "n" \in Single
  BY DEF Single
<1>6. \A t : /\ HashOf(BytesRead(s, 0, t)) = Absent
             /\ BytesRead(s, 0, t) \in [1 .. HashSize -> Parts]
  <2>. TAKE t
  <2>1. \A b : LongEnough(s, 0, t, b) = {}
    BY <1>1 DEF LongEnough
  <2>2. \A b : ByteRead(s, 0, t, b) = Zero
    BY <2>1 DEF ByteRead
  <2>3. BytesRead(s, 0, t) = NoBytes
    BY <2>2, Zenon DEF BytesRead, NoBytes
  <2>. QED  BY <2>3, HashFacts DEF HashOf
<1>7. PICK q : q = Empty
  OBVIOUS
<1>8. q.hints = <<>> /\ q.listed = <<>> /\ \A t \in Single : q.field[t] = Absent
  BY <1>7, EmptyFacts
<1>9. \A t \in Plain : t \in Single
  BY Constants
<1>10. \A t \in HashTypes : t \in Single
  BY Constants
<1>11. Decoded(q, s, 0)
  BY <1>1, <1>2, <1>3, <1>4, <1>5, <1>6, <1>8, <1>9, <1>10, Zenon DEF Decoded
<1>. QED  BY <1>7, <1>11

LEMMA LastAdded ==
  ASSUME NEW k \in Nat, NEW S \in SUBSET (1 .. k)
  PROVE  Last(S \cup {k + 1}) = k + 1
<1>1. \A j \in S \cup {k + 1} : j <= k + 1 /\ (j = k + 1 \/ ~(k + 1 <= j))
  OBVIOUS
<1>2. \A i \in S \cup {k + 1} :
        (\A j \in S \cup {k + 1} : j <= i) <=> i = k + 1
  BY <1>1
<1>. QED  BY <1>2 DEF Last

\* The places of the fields that count, after one more
LEMMA PlacesGrow ==
  ASSUME NEW s, NEW k \in Nat, NEW t, s[k + 1].type = t
  PROVE  /\ \A u : OfType(s, k + 1, u) = IF u = t THEN OfType(s, k, u) \cup {k + 1}
                                                  ELSE OfType(s, k, u)
         /\ \A u : Reads(s, k + 1, u) = IF u = t /\ Readable(s[k + 1]) THEN Reads(s, k, u) \cup {k + 1}
                                                                       ELSE Reads(s, k, u)
         /\ Lasts(s, k + 1) = {i \in Lasts(s, k) : s[i].type # t} \cup {k + 1}
<1>1. /\ 1 .. (k + 1) = (1 .. k) \cup {k + 1}
      /\ \A i \in 1 .. k : k + 1 > i
      /\ \A i \in 1 .. k : ~(i > k + 1)
      /\ ~(k + 1 > k + 1)
  OBVIOUS
<1>2. \A u : OfType(s, k + 1, u) = IF u = t THEN OfType(s, k, u) \cup {k + 1}
                                            ELSE OfType(s, k, u)
  BY <1>1 DEF OfType
<1>3. \A u : Reads(s, k + 1, u) = IF u = t /\ Readable(s[k + 1]) THEN Reads(s, k, u) \cup {k + 1}
                                                                 ELSE Reads(s, k, u)
  <2>. TAKE u
  <2>1. CASE u = t /\ Readable(s[k + 1])
    BY <1>2, <2>1 DEF Reads
  <2>2. CASE u = t /\ ~Readable(s[k + 1])
    BY <1>2, <2>2 DEF Reads
  <2>3. CASE u # t
    BY <1>2, <2>3 DEF Reads
  <2>. QED  BY <2>1, <2>2, <2>3
<1>4. Lasts(s, k + 1) = {i \in Lasts(s, k) : s[i].type # t} \cup {k + 1}
  BY <1>1 DEF Lasts
<1>. QED  BY <1>2, <1>3, <1>4

\* Fields that are read
LEMMA TaggedParts ==
  ASSUME NEW f \in Tagged
  PROVE  /\ f.type \in Types /\ f.data \in DataOf(f.type)
         /\ f.type \in Types \ Unknown => f.type \in Known /\ f.data \in DOMAIN Decode[f.type]
         /\ ~Refused(f) =>
              /\ f.type \in Plain /\ Readable(f) => Decode[f.type][f.data] \in ValueOf(f.type)
              /\ f.type = "d" => Decode[f.type][f.data] \in DOMAIN Encode["d"]
              /\ f.type \in HashTypes => Decode[f.type][f.data] \in Seq(Parts)
              /\ f.type = "r" => Decode[f.type][f.data] \in Hints
<1>1. f.type \in Types /\ f.data \in DataOf(f.type)
  BY DEF Tagged
<1>2. f.type \in Types \ Unknown => f.type \in Known /\ f.data \in DOMAIN Decode[f.type]
  BY <1>1, Constants, Inputs
<1>3. PICK t, v : t = f.type /\ v = Decode[f.type][f.data]
  OBVIOUS
<1>4. t \in Known => t \in Types \ Unknown
  BY Constants
<1>5. ~Refused(f) /\ t \in Known => v # Error
  BY <1>3, <1>4 DEF Refused
<1>6. /\ t \in Known \ HashTypes =>
           v \in DOMAIN Encode[t] \cup {Error}
                   \cup (IF t \in {"d", "9", "r"} THEN {} ELSE {Absent})
                   \cup (IF t = "f" THEN {Skip} ELSE {})
      /\ t \in HashTypes => (v # Error => v \in Seq(Parts))
  BY <1>2, <1>3, <1>4, Constants, ConversionsAssumption
<1>7. ~Refused(f) /\ t \in Plain /\ v # Skip => v \in ValueOf(t)
  BY <1>5, <1>6, Constants DEF ValueOf
<1>8. ~Refused(f) /\ t = "d" => v \in DOMAIN Encode["d"]
  <2>1. t = "d" => t \in Known \ HashTypes
    BY Constants
  <2>. QED  BY <1>5, <1>6, <2>1
<1>9. ~Refused(f) /\ t \in HashTypes => v \in Seq(Parts)
  BY <1>5, <1>6, Constants
<1>10. ~Refused(f) /\ t = "r" => v \in Hints
  <2>1. t = "r" => t \in Known \ HashTypes
    BY Constants
  <2>. QED  BY <1>5, <1>6, <2>1 DEF Hints
<1>. QED  BY <1>1, <1>2, <1>3, <1>7, <1>8, <1>9, <1>10 DEF Readable

\* A new list with type t at its end
LEMMA ListedGrows ==
  ASSUME NEW s \in Seq(Tagged), NEW k \in Nat, k < Len(s), NEW l \in Seq(Types),
         l = Subsequence(Kinds(s), Lasts(s, k))
  PROVE  appendOrMoveToEnd(l, s[k + 1].type) = Subsequence(Kinds(s), Lasts(s, k + 1))
<1>. DEFINE t == s[k + 1].type
            ks == Kinds(s)
            S == Lasts(s, k)
            P == Types \ {t}
            T == {i \in S : ks[i] \in P}
<1>1. k + 1 \in 1 .. Len(s) /\ DOMAIN s = 1 .. Len(s) /\ 1 .. k \subseteq 1 .. Len(s)
  OBVIOUS
<1>2. \A i \in 1 .. Len(s) : s[i].type \in Types
  BY TaggedParts
<1>3. ks \in Seq(Types) /\ Len(ks) = Len(s) /\ \A i \in 1 .. Len(s) : ks[i] = s[i].type
  BY <1>1, <1>2 DEF Kinds
<1>4. S \in SUBSET (1 .. k)
  BY DEF Lasts
<1>5. Lasts(s, k + 1) = T \cup {k + 1}
  <2>1. Lasts(s, k + 1) = {i \in S : s[i].type # t} \cup {k + 1}
    BY PlacesGrow
  <2>2. \A i \in S : s[i].type # t <=> ks[i] \in P
    BY <1>1, <1>2, <1>3, <1>4
  <2>. HIDE DEF S, ks, P, t
  <2>. QED  BY <2>1, <2>2
<1>6. {i \in DOMAIN l : l[i] # t} = {i \in 1 .. Len(l) : l[i] \in P}
  <2>1. \A i \in DOMAIN l : l[i] \in Types
    OBVIOUS
  <2>2. DOMAIN l = 1 .. Len(l)
    OBVIOUS
  <2>. HIDE DEF t
  <2>. QED  BY <2>1, <2>2
<1>7. S \in SUBSET (1 .. Len(ks))
  BY <1>1, <1>3, <1>4
<1>8. ks[k + 1] = t
  BY <1>1, <1>3
<1>. HIDE DEF ks, S, P, t
<1>9. Subsequence(l, {i \in 1 .. Len(l) : l[i] \in P}) = Subsequence(ks, T)
  <2>1. l = Subsequence(ks, S)
    BY DEF ks, S
  <2>2. T \in SUBSET S /\ \A i \in S : i \in T <=> ks[i] \in P
    OBVIOUS
  <2>. HIDE DEF T
  <2>3. PICK A : A = {i \in 1 .. Len(l) : l[i] \in P}
    OBVIOUS
  <2>4. /\ A \in SUBSET (1 .. Len(l))
        /\ \A i \in 1 .. Len(l), j \in S : l[i] = ks[j] => (i \in A <=> j \in T)
    BY <2>2, <2>3
  <2>5. Subsequence(l, A) = Subsequence(ks, T)
    <3>1. ks \in Seq(Types) /\ S \in SUBSET (1 .. Len(ks)) /\ T \in SUBSET S
      BY <1>3, <1>7, <2>2
    <3>. QED  BY <2>1, <2>4, <3>1, SubsequenceOfSubsequence
  <2>. QED  BY <2>3, <2>5
<1>10. remove(l, t) = Subsequence(ks, T)
  BY <1>6, <1>9 DEF remove
<1>11. T \in SUBSET (1 .. Len(ks)) /\ (\A j \in T : j < k + 1) /\ k + 1 \in 1 .. Len(ks)
  <2>1. T \in SUBSET S
    OBVIOUS
  <2>. HIDE DEF T
  <2>2. \A j \in 1 .. k : j < k + 1
    OBVIOUS
  <2>. QED  BY <1>1, <1>3, <1>4, <1>7, <2>1, <2>2
<1>. HIDE DEF T
<1>12. Subsequence(ks, T \cup {k + 1}) = Append(Subsequence(ks, T), ks[k + 1])
  BY <1>3, <1>11, SubsequenceLast
<1>. QED  BY <1>5, <1>8, <1>10, <1>12 DEF appendOrMoveToEnd, ks, t

\* What reading one field makes of the parts of a request
Shape(p, q, f, g, hs) ==
  /\ p = [field |-> g, hints |-> hs, listed |-> appendOrMoveToEnd(q.listed, f.type)]
  /\ g = [u \in Single |-> g[u]]
  /\ \A u \in Single : u # f.type => g[u] = q.field[u]
  /\ hs = IF f.type = "r" THEN Append(q.hints, Decode["r"][f.data]) ELSE q.hints
  /\ f.type = "n" => g["n"] = ZeroKey
  /\ f.type \in Plain =>
       g[f.type] = IF Readable(f) THEN Decode[f.type][f.data] ELSE q.field[f.type]
  /\ f.type \in HashTypes => g[f.type] = Copied(q.field[f.type], Decode[f.type][f.data])

LEMMA DecodeShape ==
  ASSUME NEW q \in Requests, NEW f \in Tagged
  PROVE  \E g, hs :
           Shape(DecodeBolt11([q EXCEPT !.listed = appendOrMoveToEnd(q.listed, f.type)], f.type, f.data),
                 q, f, g, hs)
<1>. DEFINE l == appendOrMoveToEnd(q.listed, f.type)
            p == [q EXCEPT !.listed = l]
            d == DecodeBolt11(p, f.type, f.data)
<1>1. /\ q = [field |-> q.field, hints |-> q.hints, listed |-> q.listed]
      /\ q.field = [u \in Single |-> q.field[u]]
  BY RequestParts
<1>2. PICK t, v, w : t = f.type /\ v = f.data /\ w = Decode[f.type][f.data]
  OBVIOUS
<1>3. t \in Plain \/ t \in HashTypes \/ t = "n" \/ t = "r" \/ t \in Unknown
  BY <1>2, TaggedParts, Constants
<1>4. /\ t \in Plain => t \in Single /\ t \notin HashTypes /\ t # "n"
      /\ t \in HashTypes => t \in Single /\ t \notin Plain /\ t # "n"
      /\ "n" \in Single /\ "n" \notin Plain /\ "n" \notin HashTypes
      /\ "r" \notin Single /\ "r" \notin Plain /\ "r" \notin HashTypes /\ "r" # "n"
      /\ \A u \in Unknown : u \notin Single /\ u \notin Plain /\ u \notin HashTypes /\ u # "n" /\ u # "r"
  BY Constants
<1>5. Readable(f) <=> w # Skip
  BY <1>2 DEF Readable
<1>. HIDE DEF l
<1>6. p = [field |-> q.field, hints |-> q.hints, listed |-> l]
  <2>1. [[field |-> q.field, hints |-> q.hints, listed |-> q.listed] EXCEPT !.listed = l]
          = [field |-> q.field, hints |-> q.hints, listed |-> l]
    BY PartReplaced
  <2>. QED  BY <1>1, <2>1
<1>7. p.field = q.field /\ p.hints = q.hints
  BY <1>6
<1>. HIDE DEF p
<1>8. ASSUME NEW x
      PROVE  [p EXCEPT !.field[t] = x]
               = [field |-> [q.field EXCEPT ![t] = x], hints |-> q.hints, listed |-> l]
  <2>. DEFINE g == [q.field EXCEPT ![t] = x]
  <2>1. [p EXCEPT !.field[t] = x] = [p EXCEPT !.field = g]
    BY <1>7, Zenon
  <2>. HIDE DEF g
  <2>2. [[field |-> q.field, hints |-> q.hints, listed |-> l] EXCEPT !.field = g]
          = [field |-> g, hints |-> q.hints, listed |-> l]
    BY PartReplaced
  <2>. QED  BY <1>6, <2>1, <2>2 DEF g
<1>9. [p EXCEPT !.hints = Append(p.hints, w)]
        = [field |-> q.field, hints |-> Append(q.hints, w), listed |-> l]
  <2>. DEFINE h == Append(q.hints, w)
  <2>1. [p EXCEPT !.hints = Append(p.hints, w)] = [p EXCEPT !.hints = h]
    BY <1>7, Zenon
  <2>. HIDE DEF h
  <2>2. [[field |-> q.field, hints |-> q.hints, listed |-> l] EXCEPT !.hints = h]
          = [field |-> q.field, hints |-> h, listed |-> l]
    BY PartReplaced
  <2>. QED  BY <1>6, <2>1, <2>2 DEF h
<1>10. ASSUME NEW x, t \in Single
       PROVE  /\ [q.field EXCEPT ![t] = x] = [u \in Single |-> [q.field EXCEPT ![t] = x][u]]
              /\ \A u \in Single : u # t => [q.field EXCEPT ![t] = x][u] = q.field[u]
              /\ [q.field EXCEPT ![t] = x][t] = x
  BY <1>1, <1>10
<1>11. PICK c : c = Copied(q.field[t], w)
  OBVIOUS
<1>12. /\ t \in Unknown => d = p
       /\ t = "n" => d = [p EXCEPT !.field[t] = ZeroKey]
       /\ t = "r" => d = [p EXCEPT !.hints = Append(p.hints, w)]
       /\ t \in HashTypes => d = [p EXCEPT !.field[t] = c]
       /\ t \in Plain => d = IF w = Skip THEN p ELSE [p EXCEPT !.field[t] = w]
  <2>1. Decode[t][v] = w
    BY <1>2
  <2>2. d = DecodeBolt11(p, t, v)
    BY <1>2
  <2>. HIDE DEF d
  <2>3. t \in Unknown => d = p
    BY <1>4, <2>2 DEF DecodeBolt11
  <2>4. t = "n" => d = [p EXCEPT !.field[t] = ZeroKey]
    BY <1>4, <2>2 DEF DecodeBolt11
  <2>5. t = "r" => d = [p EXCEPT !.hints = Append(p.hints, w)]
    BY <1>4, <2>1, <2>2 DEF DecodeBolt11
  <2>6. t \in HashTypes => d = [p EXCEPT !.field[t] = c]
    <3>1. t \in HashTypes => t \notin Unknown /\ t # "n" /\ t # "r" /\ t \notin Plain
      BY <1>4
    <3>. QED  BY <1>7, <1>11, <2>1, <2>2, <3>1, Zenon DEF DecodeBolt11, Plain
  <2>7. t \in Plain => d = IF w = Skip THEN p ELSE [p EXCEPT !.field[t] = w]
    <3>1. t \in Plain => t \notin Unknown /\ t # "n" /\ t # "r" /\ t \notin HashTypes
      BY <1>4
    <3>. QED  BY <2>1, <2>2, <3>1 DEF DecodeBolt11, Plain
  <2>. QED  BY <2>3, <2>4, <2>5, <2>6, <2>7
<1>. HIDE DEF d
<1>13. ASSUME NEW g, NEW hs,
              d = [field |-> g, hints |-> hs, listed |-> l], g = [u \in Single |-> g[u]],
              \A u \in Single : u # t => g[u] = q.field[u],
              hs = IF t = "r" THEN Append(q.hints, w) ELSE q.hints,
              t = "n" => g["n"] = ZeroKey,
              t \in Plain => g[t] = IF w # Skip THEN w ELSE q.field[t],
              t \in HashTypes => g[t] = c
       PROVE  Shape(d, q, f, g, hs)
  <2>1. hs = IF f.type = "r" THEN Append(q.hints, Decode["r"][f.data]) ELSE q.hints
    BY <1>2, <1>13
  <2>2. d = [field |-> g, hints |-> hs, listed |-> appendOrMoveToEnd(q.listed, f.type)]
    BY <1>13 DEF l
  <2>3. /\ f.type \in Plain => g[f.type] = IF Readable(f) THEN Decode[f.type][f.data] ELSE q.field[f.type]
        /\ f.type \in HashTypes => g[f.type] = Copied(q.field[f.type], Decode[f.type][f.data])
    BY <1>2, <1>5, <1>11, <1>13
  <2>4. /\ \A u \in Single : u # f.type => g[u] = q.field[u]
        /\ f.type = "n" => g["n"] = ZeroKey
    BY <1>2, <1>13
  <2>5. g = [u \in Single |-> g[u]]
    BY <1>13
  <2>. QED  BY <2>1, <2>2, <2>3, <2>4, <2>5, Zenon DEF Shape
<1>. SUFFICES \E g, hs : Shape(d, q, f, g, hs)
  BY DEF d, p, l
<1>14. ASSUME NEW x, t \in Single, d = [p EXCEPT !.field[t] = x],
              t = "n" => x = ZeroKey,
              t \in Plain => x = w /\ w # Skip,
              t \in HashTypes => x = c
       PROVE  \E g, hs : Shape(d, q, f, g, hs)
  <2>. DEFINE g == [q.field EXCEPT ![t] = x]
  <2>1. d = [field |-> g, hints |-> q.hints, listed |-> l]
    BY <1>8, <1>14
  <2>2. /\ g = [u \in Single |-> g[u]] /\ \A u \in Single : u # t => g[u] = q.field[u]
        /\ g[t] = x
    BY <1>10, <1>14
  <2>. HIDE DEF g
  <2>3. t # "r"
    BY <1>4, <1>14
  <2>4. Shape(d, q, f, g, q.hints)
    BY <1>13, <1>14, <2>1, <2>2, <2>3
  <2>. QED  BY <2>4
<1>15. ASSUME d = p, t # "n", t # "r", t \notin HashTypes, t \in Plain => w = Skip
       PROVE  \E g, hs : Shape(d, q, f, g, hs)
  <2>1. Shape(d, q, f, q.field, q.hints)
    BY <1>1, <1>6, <1>13, <1>15
  <2>. QED  BY <2>1
<1>16. CASE t = "r"
  <2>. DEFINE h == Append(q.hints, w)
  <2>1. d = [field |-> q.field, hints |-> h, listed |-> l]
    BY <1>9, <1>12, <1>16
  <2>2. h = IF t = "r" THEN Append(q.hints, w) ELSE q.hints
    BY <1>16
  <2>. HIDE DEF h
  <2>3. t # "n" /\ t \notin Plain /\ t \notin HashTypes
    BY <1>4, <1>16
  <2>4. Shape(d, q, f, q.field, h)
    BY <1>1, <1>13, <2>1, <2>2, <2>3
  <2>. QED  BY <2>4
<1>17. CASE t = "n"
  BY <1>4, <1>12, <1>14, <1>17
<1>18. CASE t \in Unknown
  BY <1>4, <1>12, <1>15, <1>18
<1>19. CASE t \in HashTypes
  BY <1>4, <1>12, <1>14, <1>19
<1>20. CASE t \in Plain /\ w # Skip
  BY <1>4, <1>12, <1>14, <1>20
<1>21. CASE t \in Plain /\ w = Skip
  BY <1>4, <1>12, <1>15, <1>21
<1>. QED  BY <1>3, <1>16, <1>17, <1>18, <1>19, <1>20, <1>21

\* The bytes of a hash after one more field of its type
LEMMA BytesGrow ==
  ASSUME NEW s, NEW k \in Nat, NEW t, s[k + 1].type = t, NEW w, w = Decode[t][s[k + 1].data]
  PROVE  \A b \in 1 .. HashSize :
           ByteRead(s, k + 1, t, b) = IF b <= Len(w) THEN w[b] ELSE ByteRead(s, k, t, b)
<1>. TAKE b \in 1 .. HashSize
<1>1. OfType(s, k + 1, t) = OfType(s, k, t) \cup {k + 1}
  <2>1. 1 .. (k + 1) = (1 .. k) \cup {k + 1}
    OBVIOUS
  <2>. QED  BY <2>1 DEF OfType
<1>2. LongEnough(s, k, t, b) \in SUBSET (1 .. k)
  BY DEF LongEnough, OfType
<1>3. CASE b <= Len(w)
  <2>1. LongEnough(s, k + 1, t, b) = LongEnough(s, k, t, b) \cup {k + 1}
    BY <1>1, <1>3 DEF LongEnough
  <2>2. Last(LongEnough(s, k, t, b) \cup {k + 1}) = k + 1
    BY <1>2, LastAdded
  <2>. QED  BY <1>3, <2>1, <2>2 DEF ByteRead
<1>4. CASE ~(b <= Len(w))
  <2>1. LongEnough(s, k + 1, t, b) = LongEnough(s, k, t, b)
    BY <1>1, <1>4 DEF LongEnough
  <2>. QED  BY <1>4, <2>1 DEF ByteRead
<1>. QED  BY <1>3, <1>4

LEMMA DecodedGrows ==
  ASSUME NEW s \in Seq(Tagged), NEW k \in Nat, k < Len(s), ~Refused(s[k + 1]),
         NEW q \in Requests, Decoded(q, s, k),
         NEW p, p = DecodeBolt11([q EXCEPT !.listed = appendOrMoveToEnd(q.listed, s[k + 1].type)],
                                 s[k + 1].type, s[k + 1].data)
  PROVE  p \in Requests /\ Decoded(p, s, k + 1)
<1>1. PICK f : f = s[k + 1]
  OBVIOUS
<1>. DEFINE t == f.type
            w == Decode[f.type][f.data]
            l == appendOrMoveToEnd(q.listed, t)
            ds == HintsRead(s)
<1>2. /\ k + 1 \in 1 .. Len(s) /\ DOMAIN s = 1 .. Len(s) /\ f \in Tagged
      /\ 1 .. k \subseteq 1 .. Len(s) /\ 1 .. (k + 1) = (1 .. k) \cup {k + 1}
  BY <1>1
<1>3. /\ t \in Types /\ (t \in Plain /\ Readable(f) => w \in ValueOf(t))
      /\ (t \in HashTypes => w \in Seq(Parts)) /\ (t = "r" => w \in Hints)
  BY <1>1, <1>2, TaggedParts
<1>4. /\ q.hints \in Seq(Hints) /\ q.listed \in Seq(Types)
      /\ \A u \in Single : q.field[u] \in ValueOf(u)
      /\ q.field["n"] \in {Absent, ZeroKey}
  BY RequestParts
<1>5. PICK g, hs : Shape(p, q, f, g, hs)
  <2>. DEFINE d == DecodeBolt11([q EXCEPT !.listed = appendOrMoveToEnd(q.listed, f.type)],
                                f.type, f.data)
  <2>1. p = d
    BY <1>1
  <2>2. \E g, hs : Shape(d, q, f, g, hs)
    BY <1>2, DecodeShape, Zenon
  <2>. HIDE DEF d
  <2>. QED  BY <2>1, <2>2
<1>21. /\ p = [field |-> g, hints |-> hs, listed |-> l]
       /\ g = [u \in Single |-> g[u]]
       /\ \A u \in Single : u # t => g[u] = q.field[u]
       /\ hs = IF t = "r" THEN Append(q.hints, w) ELSE q.hints
       /\ t = "n" => g["n"] = ZeroKey
       /\ t \in Plain => g[t] = IF Readable(f) THEN w ELSE q.field[t]
       /\ t \in HashTypes => g[t] = Copied(q.field[t], w)
  <2>1. t = "r" => w = Decode["r"][f.data]
    OBVIOUS
  <2>2. hs = IF t = "r" THEN Append(q.hints, Decode["r"][f.data]) ELSE q.hints
    BY <1>5, Zenon DEF Shape
  <2>3. hs = IF t = "r" THEN Append(q.hints, w) ELSE q.hints
    BY <2>1, <2>2
  <2>. QED  BY <1>5, <2>3, Zenon DEF Shape
<1>6. p.field = g /\ p.hints = hs /\ p.listed = l
  <2>1. p = [field |-> g, hints |-> hs, listed |-> l]
    BY <1>21, Zenon
  <2>. HIDE DEF l
  <2>. QED  BY <2>1
<1>7. l = Subsequence(Kinds(s), Lasts(s, k + 1))
  BY <1>1, <1>4, ListedGrows DEF Decoded
<1>8. /\ \A u : OfType(s, k + 1, u) = IF u = t THEN OfType(s, k, u) \cup {k + 1}
                                               ELSE OfType(s, k, u)
      /\ \A u : Reads(s, k + 1, u) = IF u = t /\ Readable(f) THEN Reads(s, k, u) \cup {k + 1}
                                                             ELSE Reads(s, k, u)
  <2>1. s[k + 1].type = t
    BY <1>1
  <2>. HIDE DEF t
  <2>2. \A u : OfType(s, k + 1, u) = IF u = t THEN OfType(s, k, u) \cup {k + 1}
                                               ELSE OfType(s, k, u)
    BY <1>2, <2>1 DEF OfType
  <2>3. \A u : Reads(s, k + 1, u) = IF u = t /\ Readable(s[k + 1]) THEN Reads(s, k, u) \cup {k + 1}
                                                                    ELSE Reads(s, k, u)
    BY <2>1, PlacesGrow, Zenon
  <2>4. \A u : Reads(s, k + 1, u) = IF u = t /\ Readable(f) THEN Reads(s, k, u) \cup {k + 1}
                                                             ELSE Reads(s, k, u)
    <3>1. Readable(s[k + 1]) <=> Readable(f)
      BY <1>1
    <3>. TAKE u
    <3>2. Reads(s, k + 1, u) = IF u = t /\ Readable(s[k + 1]) THEN Reads(s, k, u) \cup {k + 1}
                                                              ELSE Reads(s, k, u)
      BY <2>3, Zenon
    <3>. QED  BY <3>1, <3>2
  <2>. QED  BY <2>2, <2>4, Zenon
<1>9. l \in Seq(Types)
  <2>1. remove(q.listed, t) \in Seq(Types)
    BY <1>4, RemoveSeq
  <2>. QED  BY <1>3, <2>1, AppendProperties DEF appendOrMoveToEnd
<1>. HIDE DEF t, w, l, ds
<1>10. hs \in Seq(Hints)
  BY <1>3, <1>4, <1>21, AppendProperties
<1>11. /\ "n" \in Single /\ "n" \notin Plain /\ "n" \notin HashTypes
       /\ \A u \in Plain : u \in Single
       /\ \A u \in HashTypes : u \in Single /\ u \notin Plain
       /\ \A u \in Single : u \in Plain \/ u \in HashTypes \/ u = "n"
  BY Constants
<1>12. \A u \in Plain : g[u] = IF u = t /\ Readable(f) THEN w ELSE q.field[u]
  BY <1>11, <1>21
<1>13. g["n"] = IF t = "n" THEN ZeroKey ELSE q.field["n"]
  BY <1>11, <1>21
<1>22. \A u \in HashTypes : /\ g[u] = IF u = t THEN Copied(q.field[u], w) ELSE q.field[u]
                            /\ q.field[u] \in Hashes \cup {Absent}
  <2>1. \A u \in HashTypes : q.field[u] \in Hashes \cup {Absent}
    BY <1>4, <1>11, HashFacts
  <2>2. \A u \in HashTypes : g[u] = IF u = t THEN Copied(q.field[u], w) ELSE q.field[u]
    BY <1>11, <1>21
  <2>. QED  BY <2>1, <2>2
<1>14. /\ \A u \in Single : g[u] \in ValueOf(u)
       /\ g["n"] \in {Absent, ZeroKey}
  <2>1. \A u \in Plain : g[u] \in ValueOf(u)
    BY <1>3, <1>4, <1>11, <1>12
  <2>2. \A u \in HashTypes : g[u] \in ValueOf(u)
    <3>. TAKE u \in HashTypes
    <3>1. ValueOf(u) = Hashes \cup {Absent}
      BY HashFacts
    <3>2. u = t => Copied(q.field[u], w) \in Hashes \cup {Absent}
      BY <1>3, <1>22, CopiedFacts
    <3>. QED  BY <1>22, <3>1, <3>2
  <2>3. g["n"] \in {Absent, ZeroKey} /\ g["n"] \in ValueOf("n")
    BY <1>4, <1>11, <1>13, Inputs
  <2>. QED  BY <1>11, <2>1, <2>2, <2>3
<1>15. p \in Requests
  <2>1. p = [field |-> g, hints |-> hs, listed |-> l] /\ g = [u \in Single |-> g[u]]
    BY <1>21, Zenon
  <2>2. [field |-> g, hints |-> hs, listed |-> l] \in Requests
    BY <2>1, <1>9, <1>10, <1>14, RequestMade, Zenon
  <2>. QED  BY <2>1, <2>2, Zenon
<1>16. \A i \in 1 .. (k + 1) : ~Refused(s[i])
  BY <1>2 DEF Decoded
<1>17. hs = Subsequence(ds, OfType(s, k + 1, "r"))
  <2>. DEFINE X == {Decode["r"][s[i].data] : i \in DOMAIN s}
              S == OfType(s, k, "r")
  <2>1. ds \in Seq(X) /\ Len(ds) = Len(s) /\ ds[k + 1] = Decode["r"][f.data]
    BY <1>1, <1>2 DEF HintsRead, ds
  <2>2. S \in SUBSET (1 .. Len(s)) /\ \A j \in S : j < k + 1
    BY <1>2 DEF OfType
  <2>3. q.hints = Subsequence(ds, S)
    BY DEF Decoded, ds
  <2>. HIDE DEF X, S
  <2>4. Subsequence(ds, S \cup {k + 1}) = Append(Subsequence(ds, S), Decode["r"][f.data])
    <3>1. Subsequence(ds, S \cup {k + 1}) = Append(Subsequence(ds, S), ds[k + 1])
      BY <1>2, <2>1, <2>2, SubsequenceLast
    <3>. QED  BY <2>1, <3>1, Zenon
  <2>5. t = "r" => w = Decode["r"][f.data]
    BY DEF t, w
  <2>. QED  BY <1>21, <1>8, <2>3, <2>4, <2>5 DEF S
<1>18. g["n"] = IF OfType(s, k + 1, "n") = {} THEN Absent ELSE ZeroKey
  <2>1. q.field["n"] = IF OfType(s, k, "n") = {} THEN Absent ELSE ZeroKey
    BY DEF Decoded
  <2>. QED  BY <1>8, <1>13, <2>1
<1>19. ASSUME NEW u \in Plain
       PROVE  g[u] = IF Reads(s, k + 1, u) = {} THEN Absent
                     ELSE Decode[u][s[Last(Reads(s, k + 1, u))].data]
  <2>1. q.field[u] = IF Reads(s, k, u) = {} THEN Absent
                     ELSE Decode[u][s[Last(Reads(s, k, u))].data]
    BY DEF Decoded
  <2>2. CASE u = t /\ Readable(f)
    <3>1. Reads(s, k, u) \in SUBSET (1 .. k)
      BY DEF Reads, OfType
    <3>2. Last(Reads(s, k, u) \cup {k + 1}) = k + 1
      BY <3>1, LastAdded
    <3>3. Reads(s, k + 1, u) = Reads(s, k, u) \cup {k + 1}
      BY <1>8, <2>2
    <3>4. g[u] = Decode[u][s[k + 1].data]
      BY <1>1, <1>12, <2>2 DEF w, t
    <3>. QED  BY <3>2, <3>3, <3>4
  <2>3. CASE ~(u = t /\ Readable(f))
    <3>1. Reads(s, k + 1, u) = Reads(s, k, u)
      BY <1>8, <2>3, Zenon
    <3>2. g[u] = q.field[u]
      BY <1>12, <2>3
    <3>. QED  BY <2>1, <3>1, <3>2, Zenon
  <2>. QED  BY <2>2, <2>3
<1>23. ASSUME NEW u \in HashTypes
       PROVE  /\ BytesRead(s, k + 1, u) \in [1 .. HashSize -> Parts]
              /\ g[u] = HashOf(BytesRead(s, k + 1, u))
  <2>1. /\ BytesRead(s, k, u) \in [1 .. HashSize -> Parts]
        /\ q.field[u] = HashOf(BytesRead(s, k, u))
    BY DEF Decoded
  <2>2. CASE u # t
    <3>1. OfType(s, k + 1, u) = OfType(s, k, u)
      BY <1>8, <2>2
    <3>2. BytesRead(s, k + 1, u) = BytesRead(s, k, u)
      BY <3>1, Zenon DEF BytesRead, ByteRead, LongEnough
    <3>. QED  BY <1>22, <2>1, <2>2, <3>2
  <2>3. CASE u = t
    <3>1. s[k + 1].type = u /\ w = Decode[u][s[k + 1].data] /\ w \in Seq(Parts)
      BY <1>1, <1>3, <2>3 DEF w, t
    <3>2. \A b \in 1 .. HashSize :
            ByteRead(s, k + 1, u, b) = IF b <= Len(w) THEN w[b] ELSE ByteRead(s, k, u, b)
      BY <3>1, BytesGrow
    <3>. DEFINE x == [i \in 1 .. HashSize |-> IF i <= Len(w) THEN w[i] ELSE Bytes(q.field[u])[i]]
    <3>3. Bytes(q.field[u]) = BytesRead(s, k, u)
      BY <2>1, HashFacts
    <3>4. \A b \in 1 .. HashSize : BytesRead(s, k, u)[b] = ByteRead(s, k, u, b)
      BY Zenon DEF BytesRead
    <3>5. x = BytesRead(s, k + 1, u)
      <4>1. \A b \in 1 .. HashSize : x[b] = ByteRead(s, k + 1, u, b)
        BY <3>2, <3>3, <3>4
      <4>. QED  BY <4>1, Zenon DEF BytesRead
    <3>6. Copied(q.field[u], w) = HashOf(x)
      BY <1>22, <3>1, CopiedFacts
    <3>7. x \in [1 .. HashSize -> Parts]
      <4>1. HashSize \in Nat /\ Len(w) \in Nat /\ \A i \in 1 .. Len(w) : w[i] \in Parts
        BY <3>1, TypesAssumption
      <4>2. \A i \in 1 .. HashSize : i <= Len(w) => w[i] \in Parts
        BY <4>1
      <4>3. \A i \in 1 .. HashSize : Bytes(q.field[u])[i] \in Parts
        BY <2>1, <3>3
      <4>. QED  BY <4>2, <4>3
    <3>. HIDE DEF x
    <3>. QED  BY <1>22, <2>3, <3>5, <3>6, <3>7
  <2>. QED  BY <2>2, <2>3
<1>20. Decoded(p, s, k + 1)
  BY <1>6, <1>7, <1>16, <1>17, <1>18, <1>19, <1>23, Zenon DEF Decoded, ds
<1>. QED  BY <1>15, <1>20

-----------------------------------------------------------------------------
(* Every step preserves the invariant. *)

LEMMA Receives ==
  ASSUME IInv, OtherField
  PROVE  IInv'
<1>0. PICK t \in Types : \E v \in DataOf(t) :
        invoice' = Append(invoice, [type |-> t, data |-> v])
  BY Inputs, Constants DEF OtherField
<1>1. PICK data \in DataOf(t) :
        invoice' = Append(invoice, [type |-> t, data |-> data])
  BY <1>0
<1>2. /\ stage = "receiving" /\ stage' = stage /\ pr' = pr /\ origin' = origin
      /\ source' = source /\ options' = options /\ rounds' = rounds
  BY DEF OtherField
<1>3. [type |-> t, data |-> data] \in Tagged
  BY <1>1 DEF Tagged
<1>4. invoice' \in Seq(Tagged)
  BY <1>1, <1>3, AppendProperties DEF IInv, Typed
<1>5. Typed'
  BY <1>2, <1>4 DEF IInv, Typed
<1>6. /\ Built' /\ Encoding' /\ Finished' /\ Decoding' /\ Held' /\ Undecodable'
      /\ Received'
  BY <1>2 DEF IInv, Built, Encoding, Finished, Received, Decoding, Held, Undecodable
<1>. QED  BY <1>5, <1>6 DEF IInv

LEMMA DecodingStarts ==
  ASSUME IInv, DecodePaymentRequest
  PROVE  IInv'
<1>1. /\ stage \in {"written", "receiving"} /\ stage' = "decoding" /\ pr' = Empty
      /\ todo' = invoice /\ source' = invoice /\ invoice' = invoice /\ origin' = origin
      /\ options' = options /\ rounds' = rounds
  BY DEF DecodePaymentRequest
<1>2. Typed'
  BY <1>1, EmptyFacts DEF IInv, Typed, Stages
<1>3. Built' /\ Encoding' /\ Finished' /\ Received' /\ Held' /\ Undecodable'
  BY <1>1 DEF Built, Encoding, Finished, Received, Held, Undecodable
<1>4. rounds = 0 \/ (validate(origin) /\ Encoded(origin, Len(origin.listed), invoice))
  BY <1>1 DEF IInv, Finished, Received
<1>5. Decoding'
  <2>1. SUFFICES
          /\ rounds' = 0 \/ (validate(origin') /\ Encoded(origin', Len(origin'.listed), source'))
          /\ \E k \in 0 .. Len(source') : todo' = After(source', k) /\ Decoded(pr', source', k)
    BY DEF Decoding, Written
  <2>2. invoice \in Seq(Tagged)
    BY DEF IInv, Typed
  <2>3. 0 \in 0 .. Len(invoice) /\ After(invoice, 0) = invoice
    <3>1. Len(invoice) \in Nat
      BY <2>2
    <3>2. 0 \in Nat /\ 0 \in 0 .. Len(invoice)
      BY <3>1
    <3>3. After(invoice, 0) = invoice
      BY <2>2, <3>2, AfterFacts
    <3>. QED  BY <3>2, <3>3
  <2>4. Decoded(Empty, invoice, 0)
    BY DecodedNone
  <2>. QED  BY <1>1, <1>4, <2>3, <2>4
<1>. QED  BY <1>2, <1>3, <1>5 DEF IInv

LEMMA ReadsField ==
  ASSUME IInv, ReadField
  PROVE  IInv'
<1>1. PICK s, q : s = source /\ q = pr
  OBVIOUS
<1>2. /\ stage = "decoding" /\ todo # << >> /\ ~Refused(Head(todo))
      /\ pr' = DecodeBolt11([pr EXCEPT !.listed = appendOrMoveToEnd(pr.listed, Head(todo).type)],
                            Head(todo).type, Head(todo).data)
      /\ todo' = Tail(todo)
      /\ stage' = stage /\ invoice' = invoice /\ origin' = origin
      /\ source' = source /\ options' = options /\ rounds' = rounds
  BY DEF ReadField
<1>3. s \in Seq(Tagged) /\ q \in Requests
  BY <1>1 DEF IInv, Typed
<1>4. PICK k \in 0 .. Len(s) : todo = After(s, k) /\ Decoded(q, s, k)
  BY <1>1, <1>2 DEF IInv, Decoding
<1>5. k \in Nat /\ Len(s) \in Nat
  BY <1>3
<1>6. k < Len(s)
  <2>1. After(s, k) = <<>> <=> Len(s) <= k
    BY <1>3, <1>5, AfterFacts
  <2>. QED  BY <1>2, <1>4, <1>5, <2>1
<1>7. Head(todo) = s[k + 1] /\ Tail(todo) = After(s, k + 1)
  BY <1>3, <1>4, <1>5, <1>6, AfterStep
<1>8. PICK p : p = pr'
  OBVIOUS
<1>9. p \in Requests /\ Decoded(p, s, k + 1)
  <2>1. ~Refused(s[k + 1])
    BY <1>2, <1>7
  <2>2. p = DecodeBolt11([q EXCEPT !.listed = appendOrMoveToEnd(q.listed, s[k + 1].type)],
                         s[k + 1].type, s[k + 1].data)
    BY <1>1, <1>2, <1>7, <1>8, Zenon
  <2>. QED  BY <1>3, <1>4, <1>5, <1>6, <2>1, <2>2, DecodedGrows
<1>10. Typed'
  BY <1>2, <1>8, <1>9 DEF IInv, Typed
<1>11. Built' /\ Encoding' /\ Finished' /\ Received' /\ Held' /\ Undecodable'
  BY <1>2 DEF Built, Encoding, Finished, Received, Held, Undecodable
<1>12. Decoding'
  <2>1. SUFFICES
          /\ Written(source)
          /\ \E n \in 0 .. Len(source') : todo' = After(source', n) /\ Decoded(pr', source', n)
    BY <1>2 DEF Decoding, Written
  <2>2. Written(source)
    BY <1>2 DEF IInv, Decoding
  <2>3. k + 1 \in 0 .. Len(s)
    BY <1>5, <1>6
  <2>. QED  BY <1>1, <1>2, <1>7, <1>8, <1>9, <2>2, <2>3
<1>. QED  BY <1>10, <1>11, <1>12 DEF IInv

LEMMA DecodingEnds ==
  ASSUME IInv, DecodeFails \/ DecodeDone
  PROVE  IInv'
<1>1. /\ stage = "decoding" /\ pr' = pr /\ invoice' = invoice /\ origin' = origin
      /\ source' = source /\ options' = options /\ rounds' = rounds
      /\ \/ todo # <<>> /\ Refused(Head(todo)) /\ stage' = "undecodable"
         \/ todo = <<>> /\ stage' = IF validate(pr) THEN "held" ELSE "undecodable"
  BY DEF DecodeFails, DecodeDone
<1>2. Typed'
  BY <1>1 DEF IInv, Typed, Stages
<1>3. stage' = "held" \/ stage' = "undecodable"
  BY <1>1
<1>4. Built' /\ Encoding' /\ Finished' /\ Received' /\ Decoding'
  BY <1>3 DEF Built, Encoding, Finished, Received, Decoding
<1>5. Written(source) /\ \E k \in 0 .. Len(source) : todo = After(source, k) /\ Decoded(pr, source, k)
  BY <1>1 DEF IInv, Decoding
<1>6. PICK k \in 0 .. Len(source) : todo = After(source, k) /\ Decoded(pr, source, k)
  BY <1>5
<1>7. source \in Seq(Tagged) /\ k \in Nat /\ Len(source) \in Nat
  BY DEF IInv, Typed
<1>8. After(source, k) = <<>> <=> Len(source) <= k
  BY <1>7, AfterFacts
<1>9. CASE todo = <<>>
  <2>1. k = Len(source)
    BY <1>6, <1>7, <1>8, <1>9
  <2>2. Held'
    <3>1. SUFFICES Written(source) /\ Decoded(pr, source, Len(source))
      BY <1>1 DEF Held, Written
    <3>. QED  BY <1>5, <1>6, <2>1
  <2>3. Undecodable'
    <3>1. SUFFICES ASSUME stage' = "undecodable"
                   PROVE  /\ Written(source)
                          /\ \E n \in 0 .. Len(source) :
                               /\ Decoded(pr, source, n)
                               /\ \/ (n < Len(source) /\ Refused(source[n + 1]))
                                  \/ (n = Len(source) /\ ~validate(pr))
      BY <1>1 DEF Undecodable, Written
    <3>2. ~validate(pr)
      BY <1>1, <1>9, <3>1
    <3>. QED  BY <1>5, <1>6, <2>1, <3>2
  <2>. QED  BY <1>2, <1>4, <2>2, <2>3 DEF IInv
<1>10. CASE todo # <<>>
  <2>1. k < Len(source) /\ Head(todo) = source[k + 1]
    <3>1. k < Len(source)
      BY <1>6, <1>7, <1>8, <1>10
    <3>. QED  BY <1>6, <1>7, <3>1, AfterStep
  <2>2. Held'
    BY <1>1, <1>10 DEF Held
  <2>3. Undecodable'
    <3>1. SUFFICES
            /\ Written(source)
            /\ \E n \in 0 .. Len(source) :
                 /\ Decoded(pr, source, n)
                 /\ \/ (n < Len(source) /\ Refused(source[n + 1]))
                    \/ (n = Len(source) /\ ~validate(pr))
      BY <1>1 DEF Undecodable, Written
    <3>. QED  BY <1>1, <1>5, <1>6, <1>10, <2>1
  <2>. QED  BY <1>2, <1>4, <2>2, <2>3 DEF IInv
<1>. QED  BY <1>9, <1>10

LEMMA Builds ==
  ASSUME IInv, Building
  PROVE  IInv'
<1>1. stage = "building"
  BY DEF Building, ApplyPaymentHash, ApplyPaymentSecret, ApplyExpiry, ApplyFallbackAddress,
         ApplyMinFinalCLTVExpiryDelta, ApplyPaymentMetadata, ApplyFeatureBits, ApplyDescription,
         ApplyDescriptionHash, ApplyNoExpiry, ApplyNoMinFinalCLTVExpiryDelta, ApplyRoutingHint,
         NewPaymentRequest, SetOption, Option
<1>2. Tidy(pr) /\ Exclusive(pr) /\ source = <<>> /\ rounds = 0
  BY <1>1 DEF IInv, Built
<1>3. ASSUME NEW q, Option(q), Tidy(q), Exclusive(q)
      PROVE  IInv'
  <2>1. /\ stage' = "building" /\ pr' = q /\ options < MaxOptions /\ options' = options + 1
        /\ origin' = origin /\ source' = source /\ invoice' = invoice /\ rounds' = rounds
    BY <1>1, <1>3 DEF Option
  <2>2. q \in Requests
    BY <1>3 DEF Tidy
  <2>3. options' \in 0 .. MaxOptions
    BY <2>1, InputsAssumption DEF IInv, Typed
  <2>4. Typed'
    BY <2>1, <2>2, <2>3 DEF IInv, Typed, Stages
  <2>5. Built'
    <3>1. SUFFICES Tidy(pr') /\ Exclusive(pr') /\ source' = <<>> /\ rounds' = 0
      BY DEF Built
    <3>. QED  BY <1>2, <1>3, <2>1
  <2>6. Encoding' /\ Finished' /\ Received' /\ Decoding' /\ Held' /\ Undecodable'
    BY <2>1 DEF Encoding, Finished, Received, Decoding, Held, Undecodable
  <2>. QED  BY <2>4, <2>5, <2>6 DEF IInv
<1>4. ASSUME NEW t \in Single \ {"n", "d", "h"}, SetOption(t)
      PROVE  IInv'
  <2>1. PICK v \in Values[t] \cup {Absent} : Option(Put(pr, t, v))
    BY <1>4 DEF SetOption
  <2>2. Tidy(Put(pr, t, v)) /\ Exclusive(Put(pr, t, v))
    BY <1>2, OtherOptionTidy
  <2>. QED  BY <1>3, <2>1, <2>2
<1>5. {"p", "s", "x", "f", "c", "m", "9"} \subseteq Single \ {"n", "d", "h"}
  BY DEF Single
<1>6. CASE \/ ApplyPaymentHash \/ ApplyPaymentSecret \/ ApplyExpiry \/ ApplyFallbackAddress
           \/ ApplyMinFinalCLTVExpiryDelta \/ ApplyPaymentMetadata
  BY <1>4, <1>5, <1>6 DEF ApplyPaymentHash, ApplyPaymentSecret, ApplyExpiry,
       ApplyFallbackAddress, ApplyMinFinalCLTVExpiryDelta, ApplyPaymentMetadata
<1>7. CASE ApplyFeatureBits
  <2>1. PICK v \in Values["9"] : Option(Put(pr, "9", v))
    BY <1>7 DEF ApplyFeatureBits
  <2>2. Tidy(Put(pr, "9", v)) /\ Exclusive(Put(pr, "9", v))
    BY <1>2, <1>5, OtherOptionTidy
  <2>. QED  BY <1>3, <2>1, <2>2
<1>8. CASE ApplyDescription
  <2>1. PICK text \in Values["d"] \cup LongTexts : Option(WithDescription(pr, text))
    BY <1>8 DEF ApplyDescription
  <2>. QED  BY <1>2, <1>3, <2>1, DescriptionTidy
<1>9. CASE ApplyDescriptionHash
  <2>1. PICK hash \in Values["h"] \cup {Absent} : Option(WithDescriptionHash(pr, hash))
    BY <1>9 DEF ApplyDescriptionHash
  <2>. QED  BY <1>2, <1>3, <2>1, DescriptionTidy
<1>10. CASE ApplyNoExpiry
  BY <1>2, <1>3, <1>5, <1>10, OtherOptionTidy DEF ApplyNoExpiry, WithNoExpiry
<1>11. CASE ApplyNoMinFinalCLTVExpiryDelta
  BY <1>2, <1>3, <1>5, <1>11, OtherOptionTidy
     DEF ApplyNoMinFinalCLTVExpiryDelta, WithNoMinFinalCLTVExpiryDelta
<1>12. CASE ApplyRoutingHint
  <2>1. PICK hint \in Hints : Option(WithRoutingHint(pr, hint))
    BY <1>12, Inputs DEF ApplyRoutingHint
  <2>. QED  BY <1>2, <1>3, <2>1, HintTidy
<1>13. CASE NewPaymentRequest
  <2>1. /\ stage' = "held" \/ stage' = "invalid"
        /\ pr' = pr /\ origin' = origin /\ source' = source /\ invoice' = invoice
        /\ options' = options /\ rounds' = rounds
    BY <1>13 DEF NewPaymentRequest
  <2>2. Typed'
    BY <2>1 DEF IInv, Typed, Stages
  <2>3. Built' /\ Encoding' /\ Finished' /\ Received' /\ Decoding' /\ Held' /\ Undecodable'
    BY <1>2, <2>1 DEF Built, Encoding, Finished, Received, Decoding, Held, Undecodable
  <2>. QED  BY <2>2, <2>3 DEF IInv
<1>. QED  BY <1>6, <1>7, <1>8, <1>9, <1>10, <1>11, <1>12, <1>13 DEF Building

LEMMA Begins == Init => IInv
<1>. SUFFICES ASSUME Init PROVE IInv
  OBVIOUS
<1>1. /\ \/ stage = "building" /\ pr = DefaultRequest /\ invoice = <<>>
         \/ stage = "receiving" /\ pr = Empty /\ invoice = OtherInvoice
      /\ origin = Empty /\ source = <<>> /\ options = 0 /\ rounds = 0
  BY DEF Init
<1>2. OtherInvoice \in Seq(Tagged)
  <2>1. \A i \in DOMAIN OtherInvoice : OtherInvoice[i] \in Tagged
    BY InputsAssumption DEF Tagged
  <2>2. PICK X : X = {OtherInvoice[i] : i \in DOMAIN OtherInvoice}
    OBVIOUS
  <2>3. OtherInvoice \in Seq(X) /\ X \subseteq Tagged
    BY <2>1, <2>2, InputsAssumption
  <2>. QED  BY <2>3
<1>3. Typed
  <2>1. stage \in Stages
    BY <1>1 DEF Stages
  <2>2. pr \in Requests /\ origin \in Requests
    BY <1>1, EmptyFacts, DefaultFacts
  <2>3. invoice \in Seq(Tagged) /\ source \in Seq(Tagged)
    <3>1. source \in Seq(Tagged)
      BY <1>1
    <3>2. <<>> \in Seq(Tagged)
      OBVIOUS
    <3>. QED  BY <1>1, <1>2, <3>1, <3>2
  <2>4. options \in 0 .. MaxOptions /\ rounds \in 0 .. MaxRounds
    BY <1>1, InputsAssumption
  <2>. QED  BY <2>1, <2>2, <2>3, <2>4 DEF Typed
<1>4. Built
  BY <1>1, DefaultFacts DEF Built
<1>5. Encoding /\ Finished /\ Received /\ Decoding /\ Held /\ Undecodable
  BY <1>1 DEF Encoding, Finished, Received, Decoding, Held, Undecodable
<1>. QED  BY <1>3, <1>4, <1>5 DEF IInv

\* What NewPaymentRequest, EncodeBech32 and DecodePaymentRequest keep of the
\* order of the fields, of the part that was written and of the part that was
\* read, whatever the options and whoever wrote the invoice.
THEOREM Invariance == Spec => []IInv
<1>1. ASSUME IInv, [Next]_vars PROVE IInv'
  <2>1. CASE Building
    BY <1>1, <2>1, Builds
  <2>2. CASE EncodeBech32
    BY <1>1, <2>2, Starts
  <2>3. CASE SkipField \/ WriteField
    BY <1>1, <2>3, Writes
  <2>4. CASE EncodeFails \/ EncodeDone
    BY <1>1, <2>4, EncodingEnds
  <2>5. CASE OtherField
    BY <1>1, <2>5, Receives
  <2>6. CASE DecodePaymentRequest
    BY <1>1, <2>6, DecodingStarts
  <2>7. CASE ReadField
    BY <1>1, <2>7, ReadsField
  <2>8. CASE DecodeFails \/ DecodeDone
    BY <1>1, <2>8, DecodingEnds
  <2>9. CASE UNCHANGED vars
    BY <1>1, <2>9 DEF vars, IInv, Typed, Built, Encoding, Finished, Received, Decoding, Held,
                      Undecodable, Written
  <2>. QED  BY <1>1, <2>1, <2>2, <2>3, <2>4, <2>5, <2>6, <2>7, <2>8, <2>9
               DEF Next, Writing, Reading
<1>. QED  BY <1>1, Begins, PTL DEF Spec

-----------------------------------------------------------------------------
(* Encoding and decoding undo each other. *)

LEMMA LastOf ==
  ASSUME NEW S \in SUBSET Nat, IsFiniteSet(S), S # {}
  PROVE  Last(S) \in S /\ \A j \in S : j <= Last(S)
<1>. DEFINE n == Cardinality(S)
<1>1. n \in Nat /\ n # 0
  BY FS_CardinalityType, FS_EmptySet
<1>2. PICK f : Places(S, n, f)
  BY SubsequencePlaces, Zenon
<1>. HIDE DEF n
<1>3. /\ f \in [1 .. n -> S] /\ \A i, k \in 1 .. n : i < k => f[i] < f[k]
      /\ \A j \in S : \E k \in 1 .. n : f[k] = j
  BY <1>2 DEF Places
<1>4. f[n] \in S /\ n \in 1 .. n
  BY <1>1, <1>3
<1>5. \A j \in S : j <= f[n]
  <2>. TAKE j \in S
  <2>1. PICK k \in 1 .. n : f[k] = j
    BY <1>3
  <2>2. k = n \/ k < n
    BY <1>1
  <2>3. k < n => f[k] < f[n]
    BY <1>3, <1>4
  <2>4. j \in Nat /\ f[n] \in Nat
    BY <1>4
  <2>5. j = f[n] \/ j < f[n]
    BY <2>1, <2>2, <2>3
  <2>. HIDE DEF n
  <2>. QED  BY <2>4, <2>5
<1>. QED  BY <1>4, <1>5 DEF Last

LEMMA LastIs ==
  ASSUME NEW S \in SUBSET Nat, NEW i \in S, \A j \in S : j <= i
  PROVE  Last(S) = i
<1>1. \A k \in S : (\A j \in S : j <= k) => k = i
  OBVIOUS
<1>. QED  BY <1>1 DEF Last

LEMMA HintsTaken ==
  ASSUME NEW X, NEW s \in Seq(X), NEW S \in SUBSET (1 .. Len(s))
  PROVE  Subsequence(HintsRead(s), S) = HintsRead(Subsequence(s, S))
<1>. DEFINE n == Cardinality(S)
<1>1. IsFiniteSet(S) /\ S \in SUBSET Nat
  BY SubsequenceSeq
<1>2. PICK f : Places(S, n, f) /\ Subsequence(s, S) = Along(s, n, f)
  BY <1>1, SubsequencePlaces, Zenon
<1>3. Subsequence(HintsRead(s), S) = Along(HintsRead(s), n, f)
  BY <1>1, <1>2, SubsequenceBy, Zenon
<1>4. \A k \in 1 .. n : f[k] \in DOMAIN s
  <2>1. DOMAIN s = 1 .. Len(s) /\ f \in [1 .. n -> S]
    BY <1>2 DEF Places
  <2>. HIDE DEF n
  <2>. QED  BY <2>1
<1>. HIDE DEF n
<1>5. /\ DOMAIN Along(s, n, f) = 1 .. n
      /\ \A k \in 1 .. n : Decode["r"][Along(s, n, f)[k].data] = Along(HintsRead(s), n, f)[k]
  BY <1>4 DEF Along, HintsRead
<1>6. Along(HintsRead(s), n, f) = [k \in 1 .. n |-> Decode["r"][Along(s, n, f)[k].data]]
  BY <1>5 DEF Along, HintsRead
<1>. QED  BY <1>2, <1>3, <1>5, <1>6 DEF HintsRead

\* Where in an encoded invoice the entries of the order stand
LEMMA EncodedPlaces ==
  ASSUME NEW o \in Requests, NEW s \in Seq(Tagged), Encoded(o, Len(o.listed), s)
  PROVE  \E f :
           /\ \A j \in 1 .. Len(s) : /\ s[j] = Entry(o, f[j]) /\ f[j] \in 1 .. Len(o.listed)
                                     /\ s[j].type = o.listed[f[j]] /\ Found(o, f[j]) # Absent
           /\ \A i, j \in 1 .. Len(s) : f[i] = f[j] => i = j
           /\ \A i \in 1 .. Len(o.listed) :
                Found(o, i) # Absent => \E j \in 1 .. Len(s) : f[j] = i
<1>. DEFINE S == Present(o, Len(o.listed))
            es == Entries(o)
            n == Cardinality(S)
            E == {Entry(o, i) : i \in DOMAIN o.listed}
<1>1. o.listed \in Seq(Types)
  BY RequestParts, Zenon
<1>2. /\ Len(o.listed) \in Nat /\ DOMAIN o.listed = 1 .. Len(o.listed)
  BY <1>1
<1>3. es \in Seq(E) /\ Len(es) = Len(o.listed)
      /\ \A i \in 1 .. Len(o.listed) : es[i] = Entry(o, i)
  BY <1>2 DEF Entries
<1>4. /\ S \in SUBSET (1 .. Len(o.listed))
      /\ \A i \in 1 .. Len(o.listed) : i \in S <=> Found(o, i) # Absent
  BY DEF Present
<1>5. s = Subsequence(es, S)
  BY DEF Encoded
<1>. HIDE DEF es, S, E
<1>6. IsFiniteSet(S) /\ Len(s) = n /\ S \in SUBSET Nat
  BY <1>3, <1>4, <1>5, SubsequenceSeq
<1>7. PICK f : Places(S, n, f) /\ s = Along(es, n, f)
  BY <1>5, <1>6, SubsequencePlaces, Zenon
<1>. HIDE DEF n
<1>8. /\ n \in Nat /\ f \in [1 .. n -> S] /\ \A i, k \in 1 .. n : i < k => f[i] < f[k]
      /\ \A j \in S : \E k \in 1 .. n : f[k] = j
  BY <1>7 DEF Places
<1>9. \A j \in 1 .. n : s[j] = es[f[j]] /\ f[j] \in S /\ f[j] \in 1 .. Len(o.listed)
  BY <1>4, <1>7, <1>8 DEF Along
<1>10. \A j \in 1 .. n : s[j] = Entry(o, f[j]) /\ s[j].type = o.listed[f[j]] /\ Found(o, f[j]) # Absent
  <2>1. \A i : Entry(o, i).type = o.listed[i]
    BY DEF Entry
  <2>. QED  BY <1>3, <1>4, <1>9, <2>1
<1>11. \A i, j \in 1 .. n : f[i] = f[j] => i = j
  <2>. TAKE i, j \in 1 .. n
  <2>1. i \in Nat /\ j \in Nat
    BY <1>8
  <2>2. f[i] \in Nat /\ f[j] \in Nat
    BY <1>6, <1>9
  <2>3. /\ i < j => f[i] < f[j]
        /\ j < i => f[j] < f[i]
    BY <1>8
  <2>. QED  BY <2>1, <2>2, <2>3
<1>12. \A i \in 1 .. Len(o.listed) : Found(o, i) # Absent => \E j \in 1 .. n : f[j] = i
  BY <1>4, <1>8
<1>13. \A j \in 1 .. Len(s) : /\ s[j] = Entry(o, f[j]) /\ f[j] \in 1 .. Len(o.listed)
                               /\ s[j].type = o.listed[f[j]] /\ Found(o, f[j]) # Absent
  BY <1>6, <1>9, <1>10
<1>14. /\ \A i, j \in 1 .. Len(s) : f[i] = f[j] => i = j
       /\ \A i \in 1 .. Len(o.listed) :
            Found(o, i) # Absent => \E j \in 1 .. Len(s) : f[j] = i
  BY <1>6, <1>11, <1>12
<1>. WITNESS f
<1>. QED  BY <1>13, <1>14

\* In the invoice of a request that lists every value, a type of a single
\* value stands once if the value is set, and not at all otherwise.
LEMMA OnePlace ==
  ASSUME NEW o \in Requests, Listed(o), NEW s \in Seq(Tagged), Encoded(o, Len(o.listed), s),
         NEW t \in Single
  PROVE  /\ o.field[t] = Absent => OfType(s, Len(s), t) = {}
         /\ o.field[t] # Absent => \E j \in 1 .. Len(s) : OfType(s, Len(s), t) = {j}
         /\ \A j \in OfType(s, Len(s), t) :
              s[j].type = t /\ s[j].data = Encode[t][o.field[t]] /\ o.field[t] # Absent
<1>. DEFINE l == o.listed
<1>1. PICK f :
           /\ \A j \in 1 .. Len(s) : /\ s[j] = Entry(o, f[j]) /\ f[j] \in 1 .. Len(l)
                                     /\ s[j].type = l[f[j]] /\ Found(o, f[j]) # Absent
           /\ \A i, j \in 1 .. Len(s) : f[i] = f[j] => i = j
           /\ \A i \in 1 .. Len(l) :
                Found(o, i) # Absent => \E j \in 1 .. Len(s) : f[j] = i
  BY EncodedPlaces
<1>2. l \in Seq(Types)
  BY RequestParts, Zenon
<1>. HIDE DEF l
<1>3. DOMAIN l = 1 .. Len(l)
  BY <1>2
<1>4. \A i : l[i] = t => Found(o, i) = o.field[t] /\ Entry(o, i).data = Encode[t][o.field[t]]
  <2>1. t # "r"
    BY Constants
  <2>2. \A i : l[i] = t => Found(o, i) = o.field[t]
    BY <2>1 DEF Found, l
  <2>. QED  BY <2>2 DEF Entry, l
<1>5. \A j \in OfType(s, Len(s), t) :
        /\ j \in 1 .. Len(s) /\ f[j] \in Positions(l, t) /\ s[j].type = t
        /\ s[j].data = Encode[t][o.field[t]] /\ o.field[t] # Absent
  BY <1>1, <1>3, <1>4 DEF OfType, Positions
<1>6. ASSUME o.field[t] = Absent PROVE OfType(s, Len(s), t) = {}
  BY <1>1, <1>5, <1>6
<1>7. ASSUME o.field[t] # Absent PROVE \E j \in 1 .. Len(s) : OfType(s, Len(s), t) = {j}
  <2>1. PICK i \in 1 .. Len(l) : Positions(l, t) = {i}
    BY <1>3, <1>7 DEF Listed, Fields, l
  <2>2. l[i] = t
    BY <2>1 DEF Positions
  <2>3. PICK j \in 1 .. Len(s) : f[j] = i
    BY <1>1, <1>4, <1>7, <2>2
  <2>4. j \in OfType(s, Len(s), t)
    BY <1>1, <2>2, <2>3 DEF OfType
  <2>5. \A k \in OfType(s, Len(s), t) : k = j
    BY <1>1, <1>5, <2>1, <2>3
  <2>. QED  BY <2>4, <2>5
<1>. QED  BY <1>5, <1>6, <1>7

\* The hints stand in it in their order.
LEMMA HintsInOrder ==
  ASSUME NEW o \in Requests, Listed(o), NEW s \in Seq(Tagged), Encoded(o, Len(o.listed), s)
  PROVE  Subsequence(HintsRead(s), OfType(s, Len(s), "r"))
           = [i \in DOMAIN o.hints |-> ReadBack("r", o.hints[i])]
<1>. DEFINE l == o.listed
            S == Present(o, Len(l))
            P == Positions(l, "r")
            es == Entries(o)
            E == {Entry(o, i) : i \in DOMAIN l}
            T == OfType(s, Len(s), "r")
            m == Len(o.hints)
<1>1. l \in Seq(Types) /\ o.hints \in Seq(Hints)
  BY RequestParts, Zenon
<1>. HIDE DEF l
<1>2. Len(l) \in Nat /\ DOMAIN l = 1 .. Len(l) /\ m \in Nat
  BY <1>1
<1>3. es \in Seq(E) /\ Len(es) = Len(l) /\ \A i \in 1 .. Len(l) : es[i] = Entry(o, i)
  BY <1>2 DEF Entries, l
<1>4. IsFiniteSet(P) /\ P \in SUBSET (1 .. Len(l)) /\ P \in SUBSET Nat /\ Cardinality(P) = m
  <2>1. IsFiniteSet(P) /\ P \in SUBSET (1 .. Len(l))
    BY <1>1, CountFacts
  <2>2. Cardinality(P) = m
    BY DEF Listed, l
  <2>. QED  BY <2>1, <2>2
<1>5. \A i \in P : /\ Found(o, i) = o.hints[Rank(P, i)] /\ Rank(P, i) \in 1 .. m
                   /\ Decode["r"][Entry(o, i).data] = ReadBack("r", o.hints[Rank(P, i)])
  <2>. TAKE i \in P
  <2>1. Rank(P, i) \in 1 .. m
    BY <1>4, RankGrows
  <2>2. l[i] = "r"
    BY DEF Positions
  <2>. HIDE DEF m, P
  <2>3. Found(o, i) = IF l[i] = "r" THEN (IF Rank(P, i) <= m THEN o.hints[Rank(P, i)] ELSE Absent)
                      ELSE IF l[i] \in Single THEN o.field[l[i]] ELSE Absent
    BY DEF Found, l, P, m
  <2>4. Rank(P, i) <= m
    BY <1>2, <2>1
  <2>5. Found(o, i) = o.hints[Rank(P, i)]
    BY <2>2, <2>3, <2>4
  <2>6. Entry(o, i).data = Encode["r"][Found(o, i)]
    BY <2>2 DEF Entry, l
  <2>. QED  BY <2>1, <2>5, <2>6 DEF ReadBack
<1>6. Absent \notin Hints
  BY Inputs
<1>7. P \in SUBSET S /\ S \in SUBSET (1 .. Len(l))
  <2>1. \A i \in P : Found(o, i) \in Hints
    BY <1>1, <1>5
  <2>. QED  BY <1>4, <1>6, <2>1 DEF Present
<1>8. s = Subsequence(es, S)
  BY DEF Encoded, l
<1>9. T \in SUBSET (1 .. Len(s))
  BY DEF OfType
<1>10. \A k \in 1 .. Len(s), i \in S : s[k] = es[i] => (k \in T <=> i \in P)
  <2>1. \A i \in S : es[i].type = l[i]
    <3>1. \A i : Entry(o, i).type = l[i]
      BY DEF Entry, l
    <3>. HIDE DEF S, P, T, es, E
    <3>. QED  BY <1>3, <1>7, <3>1
  <2>2. \A i \in S : i \in P <=> l[i] = "r"
    BY <1>2, <1>7 DEF Positions
  <2>3. \A k \in 1 .. Len(s) : k \in T <=> s[k].type = "r"
    BY DEF OfType
  <2>. HIDE DEF S, P, T, es
  <2>. QED  BY <2>1, <2>2, <2>3
<1>. HIDE DEF S, P, T, es, E
<1>11. Subsequence(s, T) = Subsequence(es, P)
  BY <1>3, <1>7, <1>8, <1>9, <1>10, SubsequenceOfSubsequence
<1>12. Subsequence(HintsRead(s), T) = HintsRead(Subsequence(es, P))
  BY <1>9, <1>11, HintsTaken
<1>13. PICK g : Places(P, m, g) /\ Subsequence(es, P) = Along(es, m, g)
  BY <1>4, SubsequencePlaces
<1>. HIDE DEF m
<1>14. \A k \in 1 .. m : g[k] \in P /\ Rank(P, g[k]) = k
  <2>1. g \in [1 .. m -> P]
    BY <1>13 DEF Places
  <2>2. \A k \in 1 .. m : Rank(P, g[k]) = k
    BY <1>4, <1>13, RankOfPlace
  <2>. QED  BY <2>1, <2>2
<1>15. \A k \in 1 .. m : Decode["r"][es[g[k]].data] = ReadBack("r", o.hints[k])
  BY <1>3, <1>4, <1>5, <1>14
<1>16. HintsRead(Along(es, m, g)) = [k \in 1 .. m |-> ReadBack("r", o.hints[k])]
  BY <1>15 DEF HintsRead, Along
<1>17. DOMAIN o.hints = 1 .. m
  BY <1>1 DEF m
<1>. QED  BY <1>12, <1>13, <1>16, <1>17 DEF T

\* Whatever is read of an invoice that lists every value is what its own
\* conversions make of it.
LEMMA ReadAgain ==
  ASSUME NEW o \in Requests, Listed(o), NEW s \in Seq(Tagged), Encoded(o, Len(o.listed), s),
         NEW q, Decoded(q, s, Len(s))
  PROVE  /\ q.hints = [i \in DOMAIN o.hints |-> ReadBack("r", o.hints[i])]
         /\ \A t \in Single : q.field[t] = Kept(t, o.field[t])
         /\ \A t \in {"s", "p", "d", "h"} : q.field[t] = Absent <=> o.field[t] = Absent
<1>. DEFINE n == Len(s)
<1>1. n \in Nat /\ DOMAIN s = 1 .. n
  OBVIOUS
<1>2. /\ \A i \in 1 .. n : ~Refused(s[i])
      /\ q.hints = Subsequence(HintsRead(s), OfType(s, n, "r"))
      /\ q.field["n"] = IF OfType(s, n, "n") = {} THEN Absent ELSE ZeroKey
      /\ \A t \in Plain :
           q.field[t] = IF Reads(s, n, t) = {} THEN Absent
                        ELSE Decode[t][s[Last(Reads(s, n, t))].data]
      /\ \A t \in HashTypes : q.field[t] = HashOf(BytesRead(s, n, t))
  BY Zenon DEF Decoded
<1>3. q.hints = [i \in DOMAIN o.hints |-> ReadBack("r", o.hints[i])]
  BY <1>2, HintsInOrder
<1>4. \A t \in Single :
        /\ o.field[t] = Absent => OfType(s, n, t) = {}
        /\ o.field[t] # Absent => \E j \in 1 .. n : OfType(s, n, t) = {j}
        /\ \A j \in OfType(s, n, t) :
             s[j].type = t /\ s[j].data = Encode[t][o.field[t]] /\ o.field[t] # Absent
  BY OnePlace
<1>5. \A i \in 1 .. n : s[i] \in Tagged
  BY <1>1
<1>. HIDE DEF n
<1>6. /\ "n" \in Single /\ "n" \notin Unknown
      /\ \A t \in Plain : t \in Single
      /\ \A t \in HashTypes : t \in Single
      /\ \A t \in Single : t \in Plain \/ t \in HashTypes \/ t = "n"
  BY Constants
<1>7. \A t : Kept(t, Absent) = Absent
  BY DEF Kept
<1>8. ASSUME NEW t \in Single, o.field[t] # Absent
      PROVE  \E j \in 1 .. n : /\ OfType(s, n, t) = {j} /\ ~Refused(s[j]) /\ s[j] \in Tagged
                               /\ s[j].type = t
                               /\ Decode[t][s[j].data] = ReadBack(t, o.field[t])
  <2>1. PICK j \in 1 .. n : OfType(s, n, t) = {j}
    BY <1>4, <1>8
  <2>2. s[j].type = t /\ s[j].data = Encode[t][o.field[t]]
    BY <1>4, <2>1
  <2>. QED  BY <1>2, <1>5, <2>1, <2>2 DEF ReadBack
<1>9. q.field["n"] = Kept("n", o.field["n"])
  <2>1. o.field["n"] \in {Absent, ZeroKey}
    BY RequestParts
  <2>2. CASE o.field["n"] = Absent
    BY <1>2, <1>4, <1>6, <1>7, <2>2
  <2>3. CASE o.field["n"] = ZeroKey /\ ZeroKey # Absent
    <3>1. PICK j \in 1 .. n : /\ ~Refused(s[j]) /\ s[j].type = "n"
                              /\ Decode["n"][s[j].data] = ReadBack("n", ZeroKey)
      BY <1>6, <1>8, <2>3
    <3>2. ReadBack("n", ZeroKey) = Error
      BY ConversionsAssumption DEF ReadBack
    <3>. QED  BY <1>6, <3>1, <3>2 DEF Refused
  <2>. QED  BY <2>1, <2>2, <2>3
<1>10. ASSUME NEW t \in Plain
       PROVE  /\ q.field[t] = Kept(t, o.field[t])
              /\ t = "d" => (q.field[t] = Absent <=> o.field[t] = Absent)
  <2>1. CASE o.field[t] = Absent
    <3>1. Reads(s, n, t) = {}
      BY <1>4, <1>6, <2>1 DEF Reads
    <3>. QED  BY <1>2, <1>7, <2>1, <3>1
  <2>2. CASE o.field[t] # Absent
    <3>1. PICK j \in 1 .. n : /\ OfType(s, n, t) = {j} /\ ~Refused(s[j]) /\ s[j] \in Tagged
                              /\ s[j].type = t
                              /\ Decode[t][s[j].data] = ReadBack(t, o.field[t])
      BY <1>6, <1>8, <2>2
    <3>2. Readable(s[j]) <=> ReadBack(t, o.field[t]) # Skip
      BY <3>1 DEF Readable
    <3>3. CASE Readable(s[j])
      <4>1. Reads(s, n, t) = {j}
        BY <3>1, <3>3 DEF Reads
      <4>2. Last({j}) = j
        <5>1. j \in Nat
          BY <1>1
        <5>. QED  BY <5>1, LastIs
      <4>3. q.field[t] = ReadBack(t, o.field[t])
        BY <1>2, <3>1, <4>1, <4>2
      <4>4. t = "d" => q.field[t] # Absent
        <5>1. t = "d" => ReadBack(t, o.field[t]) \in DOMAIN Encode["d"]
          BY <3>1, TaggedParts
        <5>2. Absent \notin DOMAIN Encode["d"]
          BY Constants, TypesAssumption
        <5>. QED  BY <4>3, <5>1, <5>2
      <4>. QED  BY <2>2, <3>2, <3>3, <4>3, <4>4 DEF Kept
    <3>4. CASE ~Readable(s[j])
      <4>1. Reads(s, n, t) = {}
        BY <3>1, <3>4 DEF Reads
      <4>2. t # "d"
        <5>1. t = "d" => ReadBack(t, o.field[t]) \in DOMAIN Encode["d"]
          BY <3>1, TaggedParts
        <5>2. Skip \notin DOMAIN Encode["d"]
          BY Constants, TypesAssumption
        <5>. QED  BY <3>2, <3>4, <5>1, <5>2
      <4>. QED  BY <1>2, <3>2, <3>4, <4>1, <4>2 DEF Kept
    <3>. QED  BY <3>3, <3>4
  <2>. QED  BY <2>1, <2>2
<1>11. ASSUME NEW t \in HashTypes
       PROVE  q.field[t] = Kept(t, o.field[t]) /\ q.field[t] = o.field[t]
  <2>1. q.field[t] = HashOf(BytesRead(s, n, t))
    BY <1>2
  <2>2. CASE o.field[t] = Absent
    <3>1. OfType(s, n, t) = {}
      BY <1>4, <1>6, <2>2
    <3>2. \A b : LongEnough(s, n, t, b) = {}
      BY <3>1 DEF LongEnough
    <3>3. \A b : ByteRead(s, n, t, b) = Zero
      BY <3>2 DEF ByteRead
    <3>4. BytesRead(s, n, t) = NoBytes
      BY <3>3, Zenon DEF BytesRead, NoBytes
    <3>. QED  BY <1>7, <2>1, <2>2, <3>4 DEF HashOf
  <2>3. CASE o.field[t] # Absent
    <3>1. PICK h : h = o.field[t]
      OBVIOUS
    <3>2. h \in Hashes
      <4>1. o.field[t] \in ValueOf(t)
        BY <1>6, RequestParts
      <4>. QED  BY <2>3, <3>1, <4>1, HashFacts
    <3>3. h = [b \in 1 .. HashSize |-> h[b]] /\ h # NoBytes /\ HashSize \in Nat
          /\ h \in Seq(Parts) /\ Len(h) = HashSize
      <4>1. h \in [1 .. HashSize -> Parts] /\ h # NoBytes /\ HashSize \in Nat
        BY <3>2, TypesAssumption DEF Hashes
      <4>. QED  BY <4>1
    <3>4. ReadBack(t, h) = h
      BY <3>2, ConversionsAssumption DEF ReadBack
    <3>5. PICK j \in 1 .. n : /\ OfType(s, n, t) = {j}
                              /\ Decode[t][s[j].data] = h
      BY <1>6, <1>8, <2>3, <3>1, <3>4
    <3>6. Last({j}) = j
      <4>1. j \in Nat
        BY <1>1
      <4>. QED  BY <4>1, LastIs
    <3>7. \A b \in 1 .. HashSize : ByteRead(s, n, t, b) = h[b]
      <4>. TAKE b \in 1 .. HashSize
      <4>1. b <= Len(h)
        BY <3>3
      <4>2. LongEnough(s, n, t, b) = {j}
        BY <3>5, <4>1 DEF LongEnough
      <4>. QED  BY <3>5, <3>6, <4>2 DEF ByteRead
    <3>8. BytesRead(s, n, t) = h
      <4>1. BytesRead(s, n, t) = [b \in 1 .. HashSize |-> h[b]]
        BY <3>7, Zenon DEF BytesRead
      <4>. QED  BY <3>3, <4>1, Zenon
    <3>9. q.field[t] = h
      BY <2>1, <3>3, <3>8 DEF HashOf
    <3>10. h # Skip
      BY <3>3, ConversionsAssumption
    <3>. QED  BY <2>3, <3>1, <3>4, <3>9, <3>10 DEF Kept
  <2>. QED  BY <2>2, <2>3
<1>12. \A t \in Single : q.field[t] = Kept(t, o.field[t])
  BY <1>6, <1>9, <1>10, <1>11
<1>13. \A t \in {"s", "p", "d", "h"} : q.field[t] = Absent <=> o.field[t] = Absent
  <2>1. "s" \in HashTypes /\ "p" \in HashTypes /\ "h" \in HashTypes /\ "d" \in Plain
    BY Constants DEF HashTypes
  <2>. QED  BY <1>10, <1>11, <2>1
<1>. QED  BY <1>3, <1>12, <1>13

\* What the decoder refuses is a value its own decoder refuses.
LEMMA RefusedValue ==
  ASSUME NEW o \in Requests, NEW s \in Seq(Tagged), Encoded(o, Len(o.listed), s),
         NEW i \in 1 .. Len(s), Refused(s[i])
  PROVE  \/ \E t \in Single : NotReadBack(t, o.field[t])
         \/ \E j \in DOMAIN o.hints : NotReadBack("r", o.hints[j])
<1>1. PICK f :
           \A j \in 1 .. Len(s) : /\ s[j] = Entry(o, f[j]) /\ f[j] \in 1 .. Len(o.listed)
                                  /\ s[j].type = o.listed[f[j]] /\ Found(o, f[j]) # Absent
  BY EncodedPlaces
<1>2. PICK k : k = f[i]
  OBVIOUS
<1>3. s[i] = Entry(o, k) /\ k \in 1 .. Len(o.listed) /\ Found(o, k) # Absent
  BY <1>1, <1>2
<1>4. PICK t : t = o.listed[k]
  OBVIOUS
<1>5. s[i].type = t /\ s[i].data = Encode[t][Found(o, k)]
  BY <1>3, <1>4 DEF Entry
<1>6. NotReadBack(t, Found(o, k))
  BY <1>3, <1>5 DEF NotReadBack, ReadBack, Refused
<1>7. CASE t = "r"
  <2>. DEFINE P == Positions(o.listed, "r")
              m == Rank(P, k)
  <2>1. o.listed \in Seq(Types) /\ o.hints \in Seq(Hints)
    BY RequestParts, Zenon
  <2>2. IsFiniteSet(P) /\ P \in SUBSET (1 .. Len(o.listed)) /\ k \in P
    <3>1. k \in DOMAIN o.listed
      BY <1>3, <2>1
    <3>2. k \in P
      BY <1>4, <1>7, <3>1 DEF Positions
    <3>3. IsFiniteSet(P) /\ P \in SUBSET (1 .. Len(o.listed))
      BY <2>1, CountFacts, Zenon
    <3>. QED  BY <3>2, <3>3
  <2>3. P \in SUBSET Nat
    BY <2>2
  <2>4. m \in 1 .. Cardinality(P)
    <3>. HIDE DEF P
    <3>. QED  BY <2>2, <2>3, RankGrows
  <2>5. Cardinality(P) \in Nat
    BY <2>2, FS_CardinalityType
  <2>6. Found(o, k) = IF m <= Len(o.hints) THEN o.hints[m] ELSE Absent
    BY <1>4, <1>7 DEF Found
  <2>. HIDE DEF m, P
  <2>7. m \in DOMAIN o.hints /\ Found(o, k) = o.hints[m]
    BY <1>3, <2>1, <2>4, <2>5, <2>6
  <2>. QED  BY <1>6, <1>7, <2>7
<1>8. CASE t \in Single /\ t # "r"
  BY <1>4, <1>6, <1>8 DEF Found
<1>9. CASE t \notin Single /\ t # "r"
  BY <1>3, <1>4, <1>9 DEF Found
<1>. QED  BY <1>7, <1>8, <1>9

\* The places the decoder's order stands for are the last ones of every type.
LEMMA LastsAre ==
  ASSUME NEW X, NEW s \in Seq(X)
  PROVE  /\ Lasts(s, Len(s)) = {Last(Occurrences(s, s[i].type)) : i \in DOMAIN s}
         /\ \A i \in Lasts(s, Len(s)) : Last(Occurrences(s, s[i].type)) = i
<1>1. DOMAIN s = 1 .. Len(s) /\ Len(s) \in Nat
  OBVIOUS
<1>2. IsFiniteSet(1 .. Len(s))
  BY <1>1, FS_Interval
<1>3. \A t : Occurrences(s, t) \in SUBSET (1 .. Len(s)) /\ Occurrences(s, t) \in SUBSET Nat
  BY <1>1 DEF Occurrences
<1>4. ASSUME NEW i \in Lasts(s, Len(s)) PROVE Last(Occurrences(s, s[i].type)) = i
  <2>1. i \in 1 .. Len(s) /\ \A j \in 1 .. Len(s) : j > i => s[j].type # s[i].type
    BY DEF Lasts
  <2>2. i \in Occurrences(s, s[i].type)
    BY <1>1, <2>1 DEF Occurrences
  <2>3. \A j \in Occurrences(s, s[i].type) : j <= i
    <3>. TAKE j \in Occurrences(s, s[i].type)
    <3>1. j \in 1 .. Len(s) /\ s[j].type = s[i].type
      BY <1>1 DEF Occurrences
    <3>. QED  BY <2>1, <3>1
  <2>. QED  BY <1>3, <2>2, <2>3, LastIs
<1>5. ASSUME NEW i \in 1 .. Len(s) PROVE Last(Occurrences(s, s[i].type)) \in Lasts(s, Len(s))
  <2>. DEFINE S == Occurrences(s, s[i].type)
  <2>1. i \in S
    BY <1>1 DEF Occurrences
  <2>2. \A j \in S : j \in 1 .. Len(s) /\ s[j].type = s[i].type
    BY <1>1 DEF Occurrences
  <2>3. \A j \in 1 .. Len(s) : s[j].type = s[i].type => j \in S
    BY <1>1 DEF Occurrences
  <2>4. IsFiniteSet(S) /\ S \in SUBSET Nat
    <3>. HIDE DEF S
    <3>. QED  BY <1>2, <1>3, FS_Subset DEF S
  <2>. HIDE DEF S
  <2>5. PICK k : k = Last(S)
    OBVIOUS
  <2>6. k \in S /\ \A j \in S : j <= k
    BY <2>1, <2>4, <2>5, LastOf
  <2>7. k \in 1 .. Len(s) /\ s[k].type = s[i].type
    BY <2>2, <2>6
  <2>8. \A j \in 1 .. Len(s) : j > k => s[j].type # s[k].type
    <3>. TAKE j \in 1 .. Len(s)
    <3>1. j \in S => j <= k
      BY <2>6
    <3>. QED  BY <2>3, <2>7, <3>1
  <2>. QED  BY <2>5, <2>7, <2>8 DEF Lasts, S
<1>6. \A i \in Lasts(s, Len(s)) : i \in 1 .. Len(s)
  BY DEF Lasts
<1>7. Lasts(s, Len(s)) = {Last(Occurrences(s, s[i].type)) : i \in DOMAIN s}
  BY <1>1, <1>4, <1>5, <1>6
<1>. QED  BY <1>4, <1>7

\* What left a value is written where it was read last.
LEMMA OrderKept ==
  ASSUME NEW o \in Requests, NEW s \in Seq(Tagged), Decoded(o, s, Len(s)),
         \A i \in DOMAIN s : s[i].type \in Single => o.field[s[i].type] # Absent,
         \A i, j \in Occurrences(s, "r") : i = j,
         NEW inv, Encoded(o, Len(o.listed), inv)
  PROVE  LET last == Subsequence(s, Lasts(s, Len(s)))
         IN  /\ Len(inv) = Len(last)
             /\ \A k \in DOMAIN last :
                  /\ inv[k].type = last[k].type
                  /\ inv[k].data = Encode[last[k].type][IF last[k].type = "r" THEN Head(o.hints)
                                                        ELSE o.field[last[k].type]]
<1>. DEFINE n == Len(s)
            l == o.listed
            m == Len(l)
            Z == Lasts(s, n)
            es == Entries(o)
<1>1. l \in Seq(Types) /\ o.hints \in Seq(Hints)
  BY RequestParts, Zenon
<1>2. DOMAIN s = 1 .. n /\ n \in Nat /\ m \in Nat /\ DOMAIN l = 1 .. m
  <2>. HIDE DEF l
  <2>. QED  BY <1>1
<1>3. Z \in SUBSET (1 .. n) /\ Z \in SUBSET Nat
  BY <1>2 DEF Lasts
<1>4. IsFiniteSet(Z)
  <2>1. IsFiniteSet(1 .. n)
    BY <1>2, FS_Interval
  <2>. HIDE DEF Z
  <2>. QED  BY <1>3, <2>1, FS_Subset
<1>5. /\ l = Subsequence(Kinds(s), Z)
      /\ o.hints = Subsequence(HintsRead(s), OfType(s, n, "r"))
  BY DEF Decoded
<1>6. \A t : OfType(s, n, t) = Occurrences(s, t)
  BY <1>2 DEF OfType, Occurrences
<1>7. \A i \in Z : Last(Occurrences(s, s[i].type)) = i
  BY LastsAre
<1>. HIDE DEF Z, l, n
<1>8. PICK f : Places(Z, Cardinality(Z), f) /\ Subsequence(s, Z) = Along(s, Cardinality(Z), f)
  BY <1>3, <1>4, SubsequencePlaces, Zenon
<1>9. l = Along(Kinds(s), Cardinality(Z), f)
  BY <1>3, <1>5, <1>8, SubsequenceBy, Zenon
<1>10. Cardinality(Z) = m
  <2>1. Len(Along(Kinds(s), Cardinality(Z), f)) = Cardinality(Z)
    BY <1>4, FS_CardinalityType DEF Along
  <2>. QED  BY <1>9, <2>1
<1>. HIDE DEF m
<1>11. /\ f \in [1 .. m -> Z] /\ \A i, k \in 1 .. m : i < k => f[i] < f[k]
       /\ \A i \in Z : \E k \in 1 .. m : f[k] = i
  BY <1>8, <1>10 DEF Places
<1>12. \A k \in 1 .. m : f[k] \in Z /\ f[k] \in 1 .. n /\ l[k] = s[f[k]].type
  <2>1. \A k \in 1 .. m : f[k] \in Z /\ f[k] \in 1 .. n
    BY <1>3, <1>11
  <2>. QED  BY <1>2, <1>9, <1>10, <2>1 DEF Along, Kinds
<1>13. ASSUME NEW k \in 1 .. m
       PROVE  /\ Found(o, k) # Absent
              /\ Found(o, k) = IF l[k] = "r" THEN Head(o.hints) ELSE o.field[l[k]]
  <2>1. PICK i, t : i = f[k] /\ t = l[k]
    OBVIOUS
  <2>2. i \in Z /\ i \in 1 .. n /\ t = s[i].type
    BY <1>12, <2>1
  <2>3. t \in Types /\ t \notin Unknown
    <3>1. t \in Types
      BY <1>1, <1>2, <2>1
    <3>2. \A j \in 1 .. m : l[j] \notin Unknown
      BY DEF Encoded, m, l
    <3>. QED  BY <2>1, <3>1, <3>2
  <2>4. Found(o, k) = IF t = "r" THEN (IF Rank(Positions(l, "r"), k) <= Len(o.hints)
                                       THEN o.hints[Rank(Positions(l, "r"), k)] ELSE Absent)
                      ELSE IF t \in Single THEN o.field[t] ELSE Absent
    BY <2>1 DEF Found, l
  <2>7. CASE t \in Single
    <3>1. t # "r" /\ o.field[t] # Absent
      BY <1>2, <2>2, <2>7, Constants
    <3>. QED  BY <2>1, <2>4, <2>7, <3>1
  <2>8. CASE t = "r"
    <3>1. Occurrences(s, "r") = {i}
      <4>1. i \in Occurrences(s, "r")
        BY <1>2, <2>2, <2>8 DEF Occurrences
      <4>. QED  BY <4>1
    <3>2. Positions(l, "r") = {k}
      <4>1. k \in Positions(l, "r")
        BY <1>2, <2>1, <2>8 DEF Positions
      <4>2. ASSUME NEW j \in Positions(l, "r") PROVE j = k
        <5>1. j \in 1 .. m /\ l[j] = "r"
          BY <1>2 DEF Positions
        <5>2. f[j] \in Occurrences(s, "r")
          BY <1>2, <1>12, <5>1 DEF Occurrences
        <5>3. f[j] = f[k]
          BY <2>1, <3>1, <5>2
        <5>4. f[j] \in Nat /\ j \in Nat /\ k \in Nat
          BY <1>2, <1>3, <1>12, <5>1
        <5>. QED  BY <1>11, <5>1, <5>3, <5>4
      <4>. QED  BY <4>1, <4>2
    <3>3. Rank({k}, k) = 1
      <4>1. k \in Nat
        OBVIOUS
      <4>2. {j \in {k} : j <= k} = {k}
        BY <4>1
      <4>. QED  BY <4>2, FS_Singleton DEF Rank
    <3>4. o.hints = HintsRead(Subsequence(s, {i}))
      <4>1. {i} \in SUBSET (1 .. Len(s))
        BY <2>2 DEF n
      <4>. QED  BY <1>5, <1>6, <3>1, <4>1, HintsTaken
    <3>5. Len(o.hints) = 1
      <4>. DEFINE g == [j \in 1 .. 1 |-> i]
      <4>1. Places({i}, 1, g)
        BY <2>2 DEF Places
      <4>2. g[1] = i
        OBVIOUS
      <4>. HIDE DEF g
      <4>3. {i} \in SUBSET Nat
        BY <2>2
      <4>4. Subsequence(s, {i}) = Along(s, 1, g)
        BY <4>1, <4>3, SubsequenceBy, Zenon
      <4>5. HintsRead(Along(s, 1, g)) = [j \in 1 .. 1 |-> Decode["r"][s[g[j]].data]]
        BY DEF Along, HintsRead
      <4>. QED  BY <1>1, <3>4, <4>2, <4>4, <4>5
    <3>6. Rank(Positions(l, "r"), k) = 1
      BY <3>2, <3>3
    <3>7. Found(o, k) = o.hints[1] /\ o.hints[1] \in Hints /\ Head(o.hints) = o.hints[1]
      BY <1>1, <2>4, <2>8, <3>5, <3>6
    <3>. QED  BY <2>1, <2>8, <3>7, Inputs
  <2>. QED  BY <2>3, <2>7, <2>8, Constants
<1>14. Present(o, m) = 1 .. m
  BY <1>13 DEF Present
<1>15. inv = Subsequence(es, 1 .. m)
  BY <1>14 DEF Encoded, m, l
<1>16. Subsequence(es, 1 .. m) = [k \in 1 .. m |-> es[k]]
  <2>. HIDE DEF es
  <2>. QED  BY <1>2, SubsequenceFirst, Zenon
<1>17. inv = [k \in 1 .. m |-> Entry(o, k)]
  <2>1. \A k \in 1 .. m : es[k] = Entry(o, k)
    BY <1>2 DEF Entries, l
  <2>. HIDE DEF es
  <2>. QED  BY <1>15, <1>16, <2>1
<1>18. ASSUME NEW k \in 1 .. m
       PROVE  /\ inv[k].type = l[k]
              /\ inv[k].data = Encode[l[k]][IF l[k] = "r" THEN Head(o.hints) ELSE o.field[l[k]]]
  <2>1. inv[k] = Entry(o, k)
    BY <1>17
  <2>2. Entry(o, k) = [type |-> l[k], data |-> Encode[l[k]][Found(o, k)]]
    BY DEF Entry, l
  <2>. QED  BY <1>13, <2>1, <2>2
<1>. DEFINE last == Subsequence(s, Z)
<1>19. last = Along(s, m, f)
  BY <1>8, <1>10
<1>20. /\ Len(last) = m /\ DOMAIN last = 1 .. m
       /\ \A k \in 1 .. m : last[k].type = l[k]
  <2>1. \A k \in 1 .. m : Along(s, m, f)[k] = s[f[k]]
    BY DEF Along
  <2>2. Len(Along(s, m, f)) = m /\ DOMAIN Along(s, m, f) = 1 .. m
    BY <1>2 DEF Along
  <2>. HIDE DEF last
  <2>. QED  BY <1>12, <1>19, <2>1, <2>2
<1>21. Len(inv) = m
  BY <1>2, <1>17
<1>. HIDE DEF last
<1>22. /\ Len(inv) = Len(last)
       /\ \A k \in DOMAIN last :
            /\ inv[k].type = last[k].type
            /\ inv[k].data = Encode[last[k].type][IF last[k].type = "r" THEN Head(o.hints)
                                                  ELSE o.field[last[k].type]]
  BY <1>18, <1>20, <1>21
<1>. QED  BY <1>22 DEF last, Z, n

-----------------------------------------------------------------------------
(* What the invariant says. *)

\* The values, hints and fields are of their types, whatever is built, encoded
\* and read (types.go:28-61).
THEOREM TypeCorrect == Spec => []TypeOK
<1>1. ASSUME IInv PROVE TypeOK
  <2>1. ASSUME NEW q \in Requests
        PROVE  /\ DOMAIN q.field = Single /\ \A i \in Fields(q) : q.listed[i] \in Types
               /\ \A t \in Single : q.field[t] \in DOMAIN Encode[t] \cup {Absent}
               /\ \A i \in DOMAIN q.hints : q.hints[i] \in DOMAIN Encode["r"]
    <3>1. /\ q.hints \in Seq(Hints) /\ q.listed \in Seq(Types)
          /\ DOMAIN q.field = Single /\ \A t \in Single : q.field[t] \in ValueOf(t)
      BY RequestParts
    <3>2. /\ \A i \in DOMAIN q.hints : q.hints[i] \in Hints
          /\ \A i \in DOMAIN q.listed : q.listed[i] \in Types
      BY <3>1
    <3>. QED  BY <3>1, <3>2 DEF Fields, ValueOf, Hints
  <2>2. \A i \in DOMAIN invoice :
          invoice[i].type \in Types /\ invoice[i].data \in DataOf(invoice[i].type)
    <3>1. \A i \in DOMAIN invoice : invoice[i] \in Tagged
      BY <1>1 DEF IInv, Typed
    <3>. QED  BY <3>1, TaggedParts
  <2>. QED  BY <1>1, <2>1, <2>2 DEF IInv, Typed, TypeOK
<1>. QED  BY <1>1, Invariance, PTL

\* Nothing a caller sets is missing from the order of the fields, or in it
\* twice (options.go:25-174).
THEOREM BuilderLists == Spec => []EveryValueIsListed
<1>1. ASSUME IInv PROVE EveryValueIsListed
  BY <1>1, TidyMeans DEF IInv, Built, EveryValueIsListed
<1>. QED  BY <1>1, Invariance, PTL

\* No order of options leaves both a description and its hash
\* (options.go:56-91).
THEOREM BuilderExcludes == Spec => []OneDescription
<1>1. ASSUME IInv PROVE OneDescription
  BY <1>1, TidyMeans DEF IInv, Built, OneDescription
<1>. QED  BY <1>1, Invariance, PTL

\* What a request that was read holds: of every field the last occurrence that
\* is not skipped, of a hash byte by byte the last that is long enough, and all
\* hints in their order (encoding.go:614-713, hash.go:23-30).
THEOREM ReaderTakesTheLast == Spec => []LastOccurrenceCounts
<1>1. ASSUME IInv PROVE LastOccurrenceCounts
  <2>. SUFFICES ASSUME stage = "held", source # <<>>
                PROVE  /\ LET hs == Subsequence(source, Occurrences(source, "r")) IN
                            pr.hints = [i \in DOMAIN hs |-> Decode["r"][hs[i].data]]
                       /\ \A t \in Single \ (HashTypes \cup {"n"}) :
                            LET read == {i \in Occurrences(source, t) : Decode[t][source[i].data] # Skip} IN
                              pr.field[t] = IF read = {} THEN Absent
                                            ELSE Decode[t][source[Last(read)].data]
                       /\ \A t \in HashTypes : \A k \in 1 .. HashSize :
                            LET long == {i \in Occurrences(source, t) : k <= Len(Decode[t][source[i].data])} IN
                              Bytes(pr.field[t])[k] = IF long = {} THEN Zero
                                                      ELSE Decode[t][source[Last(long)].data][k]
    BY DEF LastOccurrenceCounts
  <2>1. Decoded(pr, source, Len(source)) /\ source \in Seq(Tagged)
    BY <1>1 DEF IInv, Held, Typed
  <2>2. \A t : OfType(source, Len(source), t) = Occurrences(source, t)
    BY <2>1 DEF OfType, Occurrences
  <2>3. ASSUME NEW t \in Single \ (HashTypes \cup {"n"})
        PROVE  LET read == {i \in Occurrences(source, t) : Decode[t][source[i].data] # Skip} IN
                 pr.field[t] = IF read = {} THEN Absent ELSE Decode[t][source[Last(read)].data]
    <3>1. \A i \in Occurrences(source, t) : Readable(source[i]) <=> Decode[t][source[i].data] # Skip
      BY DEF Occurrences, Readable
    <3>2. Reads(source, Len(source), t) =
            {i \in Occurrences(source, t) : Decode[t][source[i].data] # Skip}
      BY <2>2, <3>1 DEF Reads
    <3>3. t \in Plain
      BY DEF Plain
    <3>. QED  BY <2>1, <3>2, <3>3, Zenon DEF Decoded
  <2>4. LET hs == Subsequence(source, Occurrences(source, "r")) IN
          pr.hints = [i \in DOMAIN hs |-> Decode["r"][hs[i].data]]
    <3>1. Occurrences(source, "r") \in SUBSET (1 .. Len(source))
      BY <2>1 DEF Occurrences
    <3>2. pr.hints = HintsRead(Subsequence(source, Occurrences(source, "r")))
      BY <2>1, <2>2, <3>1, HintsTaken DEF Decoded
    <3>. QED  BY <3>2 DEF HintsRead
  <2>5. ASSUME NEW t \in HashTypes, NEW k \in 1 .. HashSize
        PROVE  LET long == {i \in Occurrences(source, t) : k <= Len(Decode[t][source[i].data])} IN
                 Bytes(pr.field[t])[k] = IF long = {} THEN Zero
                                         ELSE Decode[t][source[Last(long)].data][k]
    <3>1. /\ BytesRead(source, Len(source), t) \in [1 .. HashSize -> Parts]
          /\ pr.field[t] = HashOf(BytesRead(source, Len(source), t))
      BY <2>1 DEF Decoded
    <3>2. Bytes(pr.field[t]) = BytesRead(source, Len(source), t)
      BY <3>1, HashFacts
    <3>3. Bytes(pr.field[t])[k] = ByteRead(source, Len(source), t, k)
      BY <3>2 DEF BytesRead
    <3>4. LongEnough(source, Len(source), t, k) =
            {i \in Occurrences(source, t) : k <= Len(Decode[t][source[i].data])}
      BY <2>2, Zenon DEF LongEnough
    <3>. QED  BY <3>3, <3>4, Zenon DEF ByteRead
  <2>. QED  BY <2>3, <2>4, <2>5
<1>. QED  BY <1>1, Invariance, PTL

\* What was written and read back is in every field what the two conversions of
\* that field make of what was built (encoding.go:207-292, 614-713).
THEOREM RoundTripHolds == Spec => []RoundTrip
<1>1. ASSUME IInv PROVE RoundTrip
  <2>. SUFFICES ASSUME stage = "held", rounds > 0, source # <<>>, Listed(origin)
                PROVE  /\ pr.hints = [i \in DOMAIN origin.hints |-> ReadBack("r", origin.hints[i])]
                       /\ \A t \in Single : pr.field[t] = Kept(t, origin.field[t])
    BY DEF RoundTrip
  <2>1. Written(source) /\ Decoded(pr, source, Len(source))
    BY <1>1 DEF IInv, Held
  <2>2. origin \in Requests /\ source \in Seq(Tagged) /\ rounds # 0
    BY <1>1 DEF IInv, Typed
  <2>3. Encoded(origin, Len(origin.listed), source)
    BY <2>1, <2>2 DEF Written
  <2>. QED  BY <2>1, <2>2, <2>3, ReadAgain
<1>. QED  BY <1>1, Invariance, PTL

\* The decoder refuses an invoice the encoder completed only for a value that
\* its own decoder refuses: no combination, order or repetition of fields is
\* refused, and nothing that is skipped (encoding.go:614-713).
THEOREM OwnInvoiceAccepted == Spec => []OwnInvoiceIsAccepted
<1>1. ASSUME IInv PROVE OwnInvoiceIsAccepted
  <2>. SUFFICES ASSUME stage = "undecodable", rounds > 0, Listed(origin)
                PROVE  \/ \E t \in Single : NotReadBack(t, origin.field[t])
                       \/ \E i \in DOMAIN origin.hints : NotReadBack("r", origin.hints[i])
    BY DEF OwnInvoiceIsAccepted
  <2>1. Written(source)
    BY <1>1 DEF IInv, Undecodable
  <2>2. PICK k \in 0 .. Len(source) :
          /\ Decoded(pr, source, k)
          /\ \/ (k < Len(source) /\ Refused(source[k + 1]))
             \/ (k = Len(source) /\ ~validate(pr))
    BY <1>1 DEF IInv, Undecodable
  <2>3. origin \in Requests /\ source \in Seq(Tagged) /\ rounds # 0
    BY <1>1 DEF IInv, Typed
  <2>4. Encoded(origin, Len(origin.listed), source) /\ validate(origin)
    BY <2>1, <2>3 DEF Written
  <2>5. CASE k < Len(source) /\ Refused(source[k + 1])
    <3>1. k + 1 \in 1 .. Len(source)
      BY <2>3, <2>5
    <3>. QED  BY <2>3, <2>4, <2>5, <3>1, RefusedValue
  <2>6. CASE k = Len(source) /\ ~validate(pr)
    <3>1. Decoded(pr, source, Len(source)) /\ ~validate(pr)
      BY <2>2, <2>6
    <3>2. \A t \in {"s", "p", "d", "h"} : pr.field[t] = Absent <=> origin.field[t] = Absent
      BY <2>3, <2>4, <3>1, ReadAgain
    <3>. QED  BY <2>4, <3>1, <3>2 DEF validate
  <2>. QED  BY <2>2, <2>5, <2>6
<1>. QED  BY <1>1, Invariance, PTL

\* The fields of an invoice that was read are written in the order they had
\* (types.go:45-47, encoding.go:679).
THEOREM OrderSurvives == Spec => []FieldOrderSurvives
<1>1. ASSUME IInv PROVE FieldOrderSurvives
  <2>. DEFINE last == Subsequence(source, {Last(Occurrences(source, source[i].type)) :
                                             i \in DOMAIN source})
  <2>. SUFFICES ASSUME stage = "written", source # <<>>,
                       \A i \in DOMAIN source :
                         source[i].type \in Single => origin.field[source[i].type] # Absent,
                       \A i, j \in Occurrences(source, "r") : i = j
                PROVE  /\ Len(invoice) = Len(last)
                       /\ \A i \in DOMAIN last :
                            /\ invoice[i].type = last[i].type
                            /\ invoice[i].data = WrittenData(last[i].type)
    BY DEF FieldOrderSurvives
  <2>1. /\ Encoded(origin, Len(origin.listed), invoice)
        /\ Decoded(origin, source, Len(source))
    BY <1>1 DEF IInv, Finished
  <2>2. origin \in Requests /\ source \in Seq(Tagged)
    BY <1>1 DEF IInv, Typed
  <2>3. last = Subsequence(source, Lasts(source, Len(source)))
    BY <2>2, LastsAre
  <2>4. LET list == Subsequence(source, Lasts(source, Len(source)))
        IN  /\ Len(invoice) = Len(list)
            /\ \A k \in DOMAIN list :
                 /\ invoice[k].type = list[k].type
                 /\ invoice[k].data = Encode[list[k].type][IF list[k].type = "r" THEN Head(origin.hints)
                                                           ELSE origin.field[list[k].type]]
    BY <2>1, <2>2, OrderKept
  <2>. HIDE DEF last
  <2>. QED  BY <2>3, <2>4 DEF WrittenData
<1>. QED  BY <1>1, Invariance, PTL
=============================================================================
