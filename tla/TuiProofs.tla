----------------------------- MODULE TuiProofs -----------------------------
(***************************************************************************)
(* Proofs about the user interface, for every set of key presses, pastes,  *)
(* white space and valid texts, and for every limit of the text area.      *)
(***************************************************************************)
EXTENDS Tui, SequenceFacts

\* What can be entered, and what of it may stand in the text
Entered == UNION {ToSet(runes) : runes \in Typed \cup Pasted}
Textual == Entered \ (Spaces \cup {Null})

IInv == TypeOK /\ text \in Seq(Textual)

LEMMA ElementsOf ==
  ASSUME NEW A, NEW s \in Seq(A)
  PROVE  DOMAIN s = 1 .. Len(s) /\ Len(s) \in Nat /\ ToSet(s) \subseteq A
         /\ \A i \in 1 .. Len(s) : s[i] \in A /\ s[i] \in ToSet(s)
BY DEF ToSet

\* What a press consists of
LEMMA PressShape ==
  ASSUME NEW m \in KeyMsgs
  PROVE  /\ m = [name |-> m.name, runes |-> m.runes, paste |-> m.paste]
         /\ m.runes \in Seq(Entered) /\ Null \notin ToSet(m.runes)
         /\ m.paste \/ m.runes # <<>> => m.name \in {<<>>, Alt}
         /\ m.paste \in BOOLEAN
<1>1. CASE \E name : m = Named(name)
  <2>1. PICK name : m = [name |-> name, runes |-> <<>>, paste |-> FALSE]
    BY <1>1 DEF Named
  <2>2. <<>> \in Seq(Entered) /\ ToSet(<<>>) = {}
    BY DEF ToSet
  <2>. QED  BY <2>1, <2>2
<1>2. CASE \E runes \in Typed \cup Pasted : \E name \in {<<>>, Alt} : \E paste \in BOOLEAN :
             m = [name |-> name, runes |-> runes, paste |-> paste]
  <2>1. PICK runes \in Typed \cup Pasted, name \in {<<>>, Alt}, paste \in BOOLEAN :
             m = [name |-> name, runes |-> runes, paste |-> paste]
    BY <1>2
  <2>2. ToSet(runes) \subseteq Entered /\ runes \in Seq(ToSet(runes)) /\ Null \notin ToSet(runes)
    BY CharactersAssumption DEF Entered
  <2>3. runes \in Seq(Entered)
    BY <2>2, SeqMonotonic
  <2>. QED  BY <2>1, <2>2, <2>3
<1>. QED  BY <1>1, <1>2 DEF KeyMsgs

\* What is left without white space
LEMMA NoSpaceFacts ==
  ASSUME NEW A, NEW runes \in Seq(A)
  PROVE  /\ NoSpace(runes) \in Seq(A \ Spaces) /\ NoSpace(runes) \in Seq(A)
         /\ Len(NoSpace(runes)) \in Nat /\ Len(NoSpace(runes)) <= Len(runes)
         /\ ToSet(NoSpace(runes)) \subseteq ToSet(runes)
         /\ ToSet(runes) \cap Spaces = {} => NoSpace(runes) = runes
         /\ ToSet(runes) \cap Spaces # {} => Len(NoSpace(runes)) < Len(runes)
<1>. DEFINE S == {i \in DOMAIN runes : runes[i] \notin Spaces}
            q == Subsequence(runes, S)
<1>1. S \in SUBSET (1 .. Len(runes))
  OBVIOUS
<1>. HIDE DEF S
<1>2. /\ q \in Seq(A) /\ Len(q) = Cardinality(S) /\ Len(q) <= Len(runes)
      /\ \A k \in 1 .. Cardinality(S) : \E i \in S : q[k] = runes[i]
  <2>1. \A s \in Seq(A) : \A T \in SUBSET (1 .. Len(s)) :
           /\ Subsequence(s, T) \in Seq(A)
           /\ Len(Subsequence(s, T)) = Cardinality(T) /\ Cardinality(T) <= Len(s)
           /\ \A k \in 1 .. Cardinality(T) : \E i \in T : Subsequence(s, T)[k] = s[i]
    BY SubsequenceSeq
  <2>. QED  BY <1>1, <2>1
<1>. HIDE DEF q
<1>3. DOMAIN q = 1 .. Len(q) /\ Len(q) \in Nat
  BY <1>2
<1>4. \A k \in 1 .. Len(q) : q[k] \in A \ Spaces /\ q[k] \in ToSet(runes)
  BY <1>2, ElementsOf DEF S, ToSet
<1>5. q \in Seq(A \ Spaces)
  BY <1>2, <1>3, <1>4
<1>6. ToSet(q) \subseteq ToSet(runes)
  BY <1>3, <1>4 DEF ToSet
<1>7. NoSpace(runes) = q
  BY DEF NoSpace, q, S
<1>8. DOMAIN runes = 1 .. Len(runes) /\ Len(runes) \in Nat
  OBVIOUS
<1>9. ASSUME ToSet(runes) \cap Spaces = {} PROVE q = runes
  <2>1. S = 1 .. Len(runes)
    BY <1>8, <1>9 DEF S, ToSet
  <2>2. Subsequence(runes, 1 .. Len(runes)) = [k \in 1 .. Len(runes) |-> runes[k]]
    BY <1>8, SubsequenceFirst
  <2>3. runes = [k \in 1 .. Len(runes) |-> runes[k]]
    BY <1>8
  <2>. QED  BY <2>1, <2>2, <2>3 DEF q
<1>10. ASSUME ToSet(runes) \cap Spaces # {} PROVE Len(q) < Len(runes)
  <2>1. PICK i \in 1 .. Len(runes) : i \notin S
    BY <1>8, <1>10 DEF S, ToSet
  <2>2. S # 1 .. Len(runes)
    BY <2>1
  <2>3. IsFiniteSet(1 .. Len(runes)) /\ Cardinality(1 .. Len(runes)) = Len(runes)
    <3>1. PICK n \in Nat : n = Len(runes)
      BY <1>8
    <3>2. IsFiniteSet(1 .. n) /\ Cardinality(1 .. n) = IF 1 <= n THEN n - 1 + 1 ELSE 0
      BY FS_Interval
    <3>3. Cardinality(1 .. n) = n
      BY <3>2
    <3>. QED  BY <3>1, <3>2, <3>3
  <2>4. Cardinality(S) < Cardinality(1 .. Len(runes))
    <3>1. Cardinality(S) # Cardinality(1 .. Len(runes))
      BY <1>1, <2>2, <2>3, FS_Subset
    <3>. QED  BY <1>2, <1>3, <1>8, <2>3, <3>1
  <2>. QED  BY <1>2, <2>3, <2>4
<1>. QED  BY <1>2, <1>3, <1>5, <1>6, <1>7, <1>9, <1>10

\* The zeroes that removeWhitespace leaves behind are all the text area drops.
LEMMA ZeroesAreDropped ==
  ASSUME NEW A, NEW runes \in Seq(A), Null \notin ToSet(runes)
  PROVE  LET w == removeWhitespace(runes)
         IN  Subsequence(w, {i \in DOMAIN w : w[i] # Null}) = NoSpace(runes)
<1>. DEFINE kept == NoSpace(runes)
            n == Len(kept)
            w == removeWhitespace(runes)
<1>1. kept \in Seq(A) /\ n \in Nat /\ n <= Len(runes) /\ Null \notin ToSet(kept)
  BY NoSpaceFacts
<1>2. DOMAIN runes = 1 .. Len(runes) /\ Len(runes) \in Nat
  OBVIOUS
<1>3. \A i \in 1 .. n : kept[i] # Null
  BY <1>1, ElementsOf
<1>4. w = [i \in 1 .. Len(runes) |-> IF i <= n THEN kept[i] ELSE Null]
  BY <1>2 DEF removeWhitespace
<1>. HIDE DEF kept, w
<1>5. DOMAIN w = 1 .. Len(runes) /\ \A i \in 1 .. n : w[i] = kept[i]
  BY <1>1, <1>2, <1>4
<1>6. \A i \in 1 .. Len(runes) : w[i] # Null <=> i \in 1 .. n
  <2>. TAKE i \in 1 .. Len(runes)
  <2>1. w[i] = IF i <= n THEN kept[i] ELSE Null
    BY <1>4
  <2>2. i <= n <=> i \in 1 .. n
    BY <1>1, <1>2
  <2>. QED  BY <1>3, <2>1, <2>2
<1>7. {i \in DOMAIN w : w[i] # Null} = 1 .. n
  <2>1. \A i \in 1 .. n : i \in 1 .. Len(runes)
    BY <1>1, <1>2
  <2>. QED  BY <1>5, <1>6, <2>1
<1>8. Subsequence(w, 1 .. n) = [k \in 1 .. n |-> w[k]]
  BY <1>1, SubsequenceFirst
<1>9. kept = [k \in 1 .. n |-> kept[k]]
  BY <1>1
<1>10. [k \in 1 .. n |-> w[k]] = [k \in 1 .. n |-> kept[k]]
  BY <1>5
<1>. QED  BY <1>7, <1>8, <1>9, <1>10 DEF kept, w

\* What removeWhitespace leaves of a message that goes on to the text area
Rewritten(m) == [m EXCEPT !.runes = removeWhitespace(m.runes)]

\* The text area takes for a key what was not pasted, has no white space and reads
\* like one: behind white space there is a zero, and a paste begins with a bracket.
LEMMA KeysAreRead ==
  ASSUME NEW m \in KeyMsgs, NEW keys \in SUBSET KeyMap
  PROVE  String(Rewritten(m)) \in keys <=> Reads(m, keys)
<1>. DEFINE e == Rewritten(m)
            L == {"a", "l", "t", "+", "[", "]"}
            A == L \cup Entered \cup {Null}
<1>1. PICK r \in Seq(Entered) :
        /\ r = m.runes /\ m = [name |-> m.name, runes |-> r, paste |-> m.paste]
        /\ m.paste \/ r # <<>> => m.name \in {<<>>, Alt}
        /\ m.paste \in BOOLEAN
  BY PressShape
<1>2. PICK kept \in Seq(Entered) :
        /\ kept = NoSpace(r) /\ Len(kept) \in Nat /\ Len(kept) <= Len(r)
        /\ ToSet(r) \cap Spaces = {} => kept = r
        /\ ToSet(r) \cap Spaces # {} => Len(kept) < Len(r)
  BY NoSpaceFacts
<1>3. DOMAIN r = 1 .. Len(r) /\ Len(r) \in Nat
  OBVIOUS
<1>4. PICK w : /\ w = removeWhitespace(r)
               /\ w = [i \in 1 .. Len(r) |-> IF i <= Len(kept) THEN kept[i] ELSE Null]
  BY <1>2, <1>3 DEF removeWhitespace
<1>5. w \in Seq(A) /\ Len(w) = Len(r) /\ Len(w) \in Nat
  <2>1. \A i \in 1 .. Len(r) : i <= Len(kept) => kept[i] \in Entered
    BY <1>2
  <2>2. \A i \in 1 .. Len(r) : w[i] \in A
    BY <1>4, <2>1
  <2>. HIDE DEF A
  <2>. QED  BY <1>3, <1>4, <2>2
<1>6. /\ <<>> \in Seq(A) /\ Alt \in Seq(A) /\ <<"[">> \in Seq(A) /\ <<"]">> \in Seq(A)
      /\ Len(<<"[">>) = 1 /\ <<"[">>[1] = "["
  <2>1. /\ <<>> \in Seq(L) /\ <<"a", "l", "t", "+">> \in Seq(L)
        /\ <<"[">> \in Seq(L) /\ <<"]">> \in Seq(L)
    OBVIOUS
  <2>2. \A t \in Seq(L) : t \in Seq(A)
    <3>1. L \subseteq A
      OBVIOUS
    <3>. HIDE DEF L, A
    <3>. QED  BY <3>1, SeqMonotonic
  <2>3. Len(<<"[">>) = 1 /\ <<"[">>[1] = "["
    OBVIOUS
  <2>. HIDE DEF L, A
  <2>. QED  BY <2>1, <2>2, <2>3, Zenon DEF Alt
<1>. HIDE DEF A
<1>7. e.name = m.name /\ e.runes = w /\ e.paste = m.paste
  BY <1>1, <1>4 DEF Rewritten
<1>. HIDE DEF e
<1>8. CASE m.paste
  <2>1. PICK b \in Seq(A), c \in Seq(A) :
          b = <<"[">> /\ c = <<"]">> /\ Len(b) = 1 /\ b[1] = "["
    BY <1>6
  <2>2. String(e) = (b \o w) \o c
    BY <1>7, <1>8, <2>1 DEF String
  <2>3. b \o w \in Seq(A) /\ Len(b \o w) = 1 + Len(w) /\ (b \o w)[1] = "["
    BY <1>5, <2>1, ConcatProperties
  <2>4. ((b \o w) \o c)[1] = "["
    BY <1>5, <2>1, <2>3, ConcatProperties
  <2>5. String(e)[1] = "["
    BY <2>2, <2>4
  <2>. QED  BY <1>8, <2>5, KeysAssumption DEF Reads, e
<1>9. CASE ~m.paste /\ ToSet(r) \cap Spaces = {}
  <2>1. w = r
    <3>1. r = [i \in 1 .. Len(r) |-> r[i]]
      BY <1>3
    <3>2. w = [i \in 1 .. Len(r) |-> r[i]]
      BY <1>2, <1>4, <1>9
    <3>. QED  BY <3>1, <3>2
  <2>2. String(e) = String(m)
    BY <1>1, <1>7, <2>1 DEF String
  <2>. QED  BY <1>1, <1>9, <2>2 DEF Reads, e
<1>10. CASE ~m.paste /\ ToSet(r) \cap Spaces # {}
  <2>1. Len(w) >= 1 /\ w[Len(w)] = Null
    BY <1>2, <1>3, <1>4, <1>5, <1>10
  <2>2. PICK p \in Seq(A) : p = m.name
    <3>1. r # <<>>
      BY <1>2, <1>10
    <3>2. m.name \in {<<>>, Alt}
      BY <1>1, <1>10, <3>1
    <3>. QED  BY <1>6, <3>2
  <2>3. String(e) = p \o w
    BY <1>7, <1>10, <2>2 DEF String
  <2>4. PICK k \in Nat : k = Len(p)
    OBVIOUS
  <2>5. /\ Len(p \o w) = k + Len(w) /\ DOMAIN (p \o w) = 1 .. (k + Len(w))
        /\ (p \o w)[k + Len(w)] = w[Len(w)]
    <3>1. /\ p \o w \in Seq(A) /\ Len(p \o w) = Len(p) + Len(w)
          /\ \A i \in 1 .. Len(p) + Len(w) :
                (p \o w)[i] = IF i <= Len(p) THEN p[i] ELSE w[i - Len(p)]
      BY <1>5, ConcatProperties
    <3>2. k + Len(w) \in 1 .. k + Len(w) /\ ~(k + Len(w) <= k) /\ (k + Len(w)) - k = Len(w)
      BY <1>5, <2>1
    <3>3. (p \o w)[k + Len(w)] = w[Len(w)]
      BY <2>4, <3>1, <3>2
    <3>. QED  BY <2>4, <3>1, <3>3
  <2>6. Null \in ToSet(p \o w)
    <3>1. k + Len(w) \in DOMAIN (p \o w)
      BY <1>5, <2>1, <2>5
    <3>. QED  BY <2>1, <2>5, <3>1 DEF ToSet
  <2>7. String(e) \notin KeyMap
    BY <2>3, <2>6, KeysAssumption
  <2>. QED  BY <1>1, <1>10, <2>7 DEF Reads, e
<1>. QED  BY <1>1, <1>8, <1>9, <1>10

\* Putting something between the two ends of a text
LEMMA AroundFacts ==
  ASSUME NEW A, NEW s \in Seq(A), NEW t \in Seq(A),
         NEW i \in 0 .. Len(s), NEW j \in i .. Len(s)
  PROVE  /\ Around(s, i, t, j) \in Seq(A)
         /\ Len(Around(s, i, t, j)) = (i + Len(t)) + (Len(s) - j)
<1>. DEFINE b == SubSeq(s, 1, i)
            c == SubSeq(s, j + 1, Len(s))
<1>1. Len(s) \in Nat /\ Len(t) \in Nat /\ \A k \in 1 .. Len(s) : s[k] \in A
  OBVIOUS
<1>2. b \in Seq(A) /\ Len(b) = i
  <2>1. b \in Seq(A) /\ Len(b) = IF 1 <= i THEN i - 1 + 1 ELSE 0
    BY <1>1, SubSeqProperties
  <2>. QED  BY <2>1
<1>3. c \in Seq(A) /\ Len(c) = Len(s) - j
  <2>1. c \in Seq(A) /\ Len(c) = IF j + 1 <= Len(s) THEN Len(s) - (j + 1) + 1 ELSE 0
    BY <1>1, SubSeqProperties
  <2>. QED  BY <2>1, <1>1
<1>4. Around(s, i, t, j) = (b \o t) \o c
  BY DEF Around
<1>. HIDE DEF b, c
<1>5. b \o t \in Seq(A) /\ Len(b \o t) = i + Len(t)
  BY <1>2, ConcatProperties
<1>6. (b \o t) \o c \in Seq(A) /\ Len((b \o t) \o c) = Len(b \o t) + Len(c)
  BY <1>3, <1>5, ConcatProperties
<1>. QED  BY <1>3, <1>4, <1>5, <1>6

\* The text stays a text, and the cursor in it.
Fine(t, c) == t \in Seq(Textual) /\ Len(t) <= CharLimit /\ c \in 0 .. Len(t)

LEMMA DeleteFacts ==
  ASSUME Fine(text, cursor), NEW i \in 0 .. Len(text), NEW j \in i .. Len(text), Delete(i, j)
  PROVE  Fine(text', cursor')
<1>1. <<>> \in Seq(Textual) /\ Len(<<>>) = 0
  OBVIOUS
<1>2. /\ Around(text, i, <<>>, j) \in Seq(Textual)
      /\ Len(Around(text, i, <<>>, j)) = (i + Len(<<>>)) + (Len(text) - j)
  BY <1>1, AroundFacts DEF Fine
<1>3. text' = Around(text, i, <<>>, j) /\ cursor' = i
  BY DEF Delete
<1>4. Len(text') = i + (Len(text) - j) /\ Len(text) \in Nat
  BY <1>1, <1>2, <1>3 DEF Fine
<1>. QED  BY <1>2, <1>3, <1>4, CharactersAssumption DEF Fine

LEMMA InsertFacts ==
  ASSUME Fine(text, cursor), NEW m \in KeyMsgs, Insert(removeWhitespace(m.runes))
  PROVE  /\ Fine(text', cursor')
         /\ \E n \in 0 .. Len(NoSpace(m.runes)) :
              /\ ComesIn(NoSpace(m.runes), n)
              /\ n = Len(NoSpace(m.runes)) \/ Len(text') = CharLimit
<1>. DEFINE w == removeWhitespace(m.runes)
<1>1. m.runes \in Seq(Entered) /\ Null \notin ToSet(m.runes)
  BY PressShape
<1>2. PICK new : new = NoSpace(m.runes)
  OBVIOUS
<1>3. /\ new \in Seq(Entered \ Spaces) /\ Len(new) \in Nat
      /\ Null \notin ToSet(new)
  BY <1>1, <1>2, NoSpaceFacts
<1>4. new \in Seq(Textual)
  <2>1. \A i \in 1 .. Len(new) : new[i] \in Textual
    BY <1>3, ElementsOf DEF Textual
  <2>. QED  BY <1>3, <2>1
<1>5. Subsequence(w, {i \in DOMAIN w : w[i] # Null}) = new
  BY <1>1, <1>2, ZeroesAreDropped
<1>6. PICK space : space = CharLimit - Len(text)
  OBVIOUS
<1>7. PICK n : n = IF Len(new) < space THEN Len(new) ELSE space
  OBVIOUS
<1>8. text' = Around(text, cursor, SubSeq(new, 1, n), cursor) /\ cursor' = cursor + n
  <2>. HIDE DEF w
  <2>1. LET q == Subsequence(w, {i \in DOMAIN w : w[i] # Null})
            sp == CharLimit - Len(text)
            k == IF Len(q) < sp THEN Len(q) ELSE sp
        IN  text' = Around(text, cursor, SubSeq(q, 1, k), cursor) /\ cursor' = cursor + k
    BY DEF Insert, w
  <2>. QED  BY <1>5, <1>6, <1>7, <2>1
<1>9. Len(text) \in Nat /\ Len(text) <= CharLimit /\ text \in Seq(Textual)
      /\ cursor \in 0 .. Len(text) /\ CharLimit \in Nat
  BY CharactersAssumption DEF Fine
<1>10. n \in 0 .. Len(new) /\ n <= space /\ (n = Len(new) \/ n = space)
  BY <1>3, <1>6, <1>7, <1>9
<1>11. SubSeq(new, 1, n) \in Seq(Textual) /\ Len(SubSeq(new, 1, n)) = n
  <2>1. \A i \in 1 .. n : new[i] \in Textual
    BY <1>4, <1>10
  <2>2. SubSeq(new, 1, n) \in Seq(Textual)
        /\ Len(SubSeq(new, 1, n)) = IF 1 <= n THEN n - 1 + 1 ELSE 0
    BY <1>10, <2>1, SubSeqProperties
  <2>. QED  BY <1>10, <2>2
<1>12. text' \in Seq(Textual) /\ Len(text') = (cursor + n) + (Len(text) - cursor)
  <2>1. PICK t \in Seq(Textual) : t = SubSeq(new, 1, n) /\ Len(t) = n
    BY <1>11
  <2>2. cursor \in cursor .. Len(text)
    BY <1>9
  <2>3. /\ Around(text, cursor, t, cursor) \in Seq(Textual)
        /\ Len(Around(text, cursor, t, cursor)) = (cursor + Len(t)) + (Len(text) - cursor)
    BY <1>9, <2>1, <2>2, AroundFacts
  <2>. QED  BY <1>8, <2>1, <2>3
<1>13. Len(text') = Len(text) + n
  BY <1>9, <1>10, <1>12
<1>14. Fine(text', cursor')
  BY <1>6, <1>8, <1>9, <1>10, <1>12, <1>13 DEF Fine
<1>15. ComesIn(new, n)
  BY <1>8 DEF ComesIn
<1>16. n = Len(new) \/ Len(text') = CharLimit
  BY <1>6, <1>9, <1>10, <1>13
<1>. QED  BY <1>2, <1>10, <1>14, <1>15, <1>16

-----------------------------------------------------------------------------
LEMMA SidesAre == Len(Items) = 1 /\ -1 .. Len(Items) - 1 = {-1, 0}
BY DEF Items

LEMMA InitIInv == Init => IInv
<1>. SUFFICES ASSUME Init PROVE IInv
  OBVIOUS
<1>1. text = <<>> /\ text \in Seq(Textual) /\ Len(text) = 0 /\ ToSet(text) = {} /\ cursor = 0
  BY DEF Init, ToSet
<1>2. side \in {-1, 0} /\ main = side
  BY DEF Init
<1>3. shown.what = "nothing" /\ {pasting, quitting, ended} \subseteq BOOLEAN
  BY DEF Init, Nothing
<1>4. last \in KeyMsgs \cup {Named(<<>>)}
  BY DEF Init
<1>. QED  BY <1>1, <1>2, <1>3, <1>4, SidesAre, CharactersAssumption DEF IInv, TypeOK

\* What becomes of the text, in the words of the property
Entering(m) ==
  LET new == NoSpace(m.runes)
  IN  IF Reads(m, Deletes \cup {Backspace})
      THEN \E i, j \in 0 .. Len(text) :
             /\ i <= j /\ Loses(i, j)
             /\ Reads(m, {Backspace}) => j = cursor /\ cursor - i \in {0, 1}
      ELSE IF Reads(m, Moves \cup {CtrlV}) THEN text' = text
      ELSE \E n \in 0 .. Len(new) :
             ComesIn(new, n) /\ (n = Len(new) \/ Len(text') = CharLimit)

Showing == shown' = IF text' = <<>> THEN Nothing ELSE DecodePaymentRequest(text')

\* The text and what is shown after a press that the decoder's pane gets
LEMMA PaneStep ==
  ASSUME IInv, NEW m \in KeyMsgs, Bolt11OnMessage(m)
  PROVE  Fine(text', cursor') /\ Entering(m) /\ Showing /\ pasting' \in BOOLEAN
<1>. DEFINE e == Rewritten(m)
<1>1. Fine(text, cursor) /\ Len(text) \in Nat /\ cursor \in 0 .. Len(text)
  BY DEF IInv, TypeOK, Fine
<1>2. TextAreaUpdate(e) /\ Showing
  BY DEF Bolt11OnMessage, Rewritten, Showing
<1>3. e.runes = removeWhitespace(m.runes)
  <2>1. PICK w : w = removeWhitespace(m.runes)
    OBVIOUS
  <2>2. m = [name |-> m.name, runes |-> m.runes, paste |-> m.paste]
    BY PressShape
  <2>. QED  BY <2>1, <2>2 DEF Rewritten
<1>4. \A keys \in SUBSET KeyMap : String(e) \in keys <=> Reads(m, keys)
  BY KeysAreRead
<1>. HIDE DEF e
<1>5. /\ Reads(m, {Backspace}) <=> String(e) = Backspace
      /\ Reads(m, Deletes \cup {Backspace}) <=> String(e) \in Deletes \cup {Backspace}
      /\ Reads(m, Moves \cup {CtrlV}) <=> String(e) \in Moves \cup {CtrlV}
  <2>1. /\ {Backspace} \in SUBSET KeyMap /\ Deletes \cup {Backspace} \in SUBSET KeyMap
        /\ Moves \cup {CtrlV} \in SUBSET KeyMap
    BY DEF KeyMap
  <2>2. /\ String(e) \in {Backspace} <=> Reads(m, {Backspace})
        /\ String(e) \in Deletes \cup {Backspace} <=> Reads(m, Deletes \cup {Backspace})
        /\ String(e) \in Moves \cup {CtrlV} <=> Reads(m, Moves \cup {CtrlV})
    BY <1>4, <2>1, Zenon
  <2>. QED  BY <2>2
<1>6. pasting' \in BOOLEAN
  BY <1>2 DEF TextAreaUpdate
<1>7. CASE String(e) = Backspace /\ Delete(IF cursor > 0 THEN cursor - 1 ELSE 0, cursor)
  <2>1. PICK i \in 0 .. Len(text) :
          i = (IF cursor > 0 THEN cursor - 1 ELSE 0) /\ cursor - i \in {0, 1} /\ i <= cursor
    BY <1>1
  <2>2. Delete(i, cursor) /\ cursor \in i .. Len(text)
    BY <1>1, <1>7, <2>1
  <2>3. Fine(text', cursor')
    BY <1>1, <2>2, DeleteFacts
  <2>4. Loses(i, cursor)
    BY <2>2 DEF Loses, Delete
  <2>5. \E k, j \in 0 .. Len(text) :
          /\ k <= j /\ Loses(k, j)
          /\ Reads(m, {Backspace}) => j = cursor /\ cursor - k \in {0, 1}
    BY <1>1, <2>1, <2>4
  <2>6. Entering(m)
    BY <1>5, <1>7, <2>5 DEF Entering
  <2>. QED  BY <1>2, <1>6, <2>3, <2>6
<1>8. CASE /\ String(e) \in Deletes
           /\ \E i \in 0 .. cursor, j \in cursor .. Len(text) : cursor \in {i, j} /\ Delete(i, j)
  <2>1. PICK i \in 0 .. cursor, j \in cursor .. Len(text) : cursor \in {i, j} /\ Delete(i, j)
    BY <1>8
  <2>2. i \in 0 .. Len(text) /\ j \in i .. Len(text) /\ j \in 0 .. Len(text) /\ i <= j
    BY <1>1, <2>1
  <2>3. Fine(text', cursor')
    BY <1>1, <2>1, <2>2, DeleteFacts
  <2>4. Loses(i, j)
    BY <2>1 DEF Loses, Delete
  <2>5. ~Reads(m, {Backspace})
    BY <1>5, <1>8, KeysAssumption
  <2>6. \E k, l \in 0 .. Len(text) :
          /\ k <= l /\ Loses(k, l)
          /\ Reads(m, {Backspace}) => l = cursor /\ cursor - k \in {0, 1}
    BY <2>2, <2>4, <2>5
  <2>7. Entering(m)
    BY <1>5, <1>8, <2>6 DEF Entering
  <2>. QED  BY <1>2, <1>6, <2>3, <2>7
<1>9. CASE String(e) \in Moves \cup {CtrlV} /\ text' = text /\ cursor' \in 0 .. Len(text)
  <2>1. Fine(text', cursor')
    BY <1>1, <1>9 DEF Fine
  <2>2. String(e) \notin Deletes \cup {Backspace}
    <3>1. CtrlV # Backspace
      BY DEF CtrlV, Backspace
    <3>. QED  BY <1>9, <3>1, KeysAssumption
  <2>3. Entering(m)
    BY <1>5, <1>9, <2>2 DEF Entering
  <2>. QED  BY <1>2, <1>6, <2>1, <2>3
<1>10. CASE String(e) \notin KeyMap /\ Insert(e.runes)
  <2>1. Insert(removeWhitespace(m.runes))
    BY <1>3, <1>10
  <2>2. /\ Fine(text', cursor')
        /\ \E n \in 0 .. Len(NoSpace(m.runes)) :
             /\ ComesIn(NoSpace(m.runes), n)
             /\ n = Len(NoSpace(m.runes)) \/ Len(text') = CharLimit
    BY <1>1, <2>1, InsertFacts
  <2>3. ~Reads(m, Deletes \cup {Backspace}) /\ ~Reads(m, Moves \cup {CtrlV})
    BY <1>5, <1>10 DEF KeyMap
  <2>4. Entering(m)
    BY <2>2, <2>3 DEF Entering
  <2>. QED  BY <1>2, <1>6, <2>2, <2>4
<1>11. String(e) = CtrlV /\ UNCHANGED <<text, cursor>> =>
         text' = text /\ cursor' \in 0 .. Len(text)
  BY <1>1
<1>. QED  BY <1>2, <1>7, <1>8, <1>9, <1>10, <1>11 DEF TextAreaUpdate

LEMMA NextIInv == IInv /\ [Next]_vars => IInv'
<1>. SUFFICES ASSUME IInv, [Next]_vars PROVE IInv'
  OBVIOUS
<1>. USE DEF IInv, TypeOK
<1>1. ASSUME NEW m \in KeyMsgs, Update(m) PROVE IInv'
  <2>1. last' \in KeyMsgs \cup {Named(<<>>)} /\ ended' = ended
    BY <1>1 DEF Update
  <2>2. CASE Quit(m)
    BY <2>1, <2>2 DEF Quit
  <2>3. CASE Select(m)
    <3>1. side' \in {-1, 0}
      BY <2>3, SidesAre DEF Select, SideOnMessage
    <3>. QED  BY <2>1, <2>3, <3>1, SidesAre DEF Select
  <2>4. CASE Type(m)
    <3>1. main = 0 /\ side' = side /\ main' = side /\ quitting' = quitting
      BY <2>4, SidesAre DEF Type
    <3>2. Bolt11OnMessage(m)
      BY <2>4, <3>1 DEF Type, MainOnMessage
    <3>3. Fine(text', cursor') /\ Showing /\ pasting' \in BOOLEAN
      BY <3>2, PaneStep
    <3>4. ToSet(text') \cap (Spaces \cup {Null}) = {}
      BY <3>3, ElementsOf DEF Textual, Fine
    <3>5. shown'.what \in {"nothing", "invoice", "error"}
      BY <3>3 DEF Nothing, DecodePaymentRequest, Showing
    <3>. QED  BY <2>1, <3>1, <3>3, <3>4, <3>5 DEF Fine
  <2>. QED  BY <1>1, <2>2, <2>3, <2>4 DEF Update
<1>2. CASE PasteMsg
  BY <1>2 DEF PasteMsg
<1>3. CASE QuitMsg
  BY <1>3 DEF QuitMsg
<1>4. CASE UNCHANGED vars
  BY <1>4 DEF vars
<1>. QED  BY <1>1, <1>2, <1>3, <1>4 DEF Next

-----------------------------------------------------------------------------
\* Update and the pane behind it keep the types, and put nothing into the text
\* but characters that were entered and are no white space.
THEOREM Invariance == Spec => []IInv
BY InitIInv, NextIInv, PTL DEF Spec

\* The types, and that the text never holds white space or a zero or more than
\* the text area's limit: what removeWhitespace leaves in the message's array
\* never comes into the text (bolt11.go:54, 124-126).
THEOREM TypeCorrect == Spec => []TypeOK
<1>1. IInv => TypeOK
  BY DEF IInv
<1>. QED  BY <1>1, Invariance, PTL

\* What is typed or pasted comes in where the cursor is, in order and without white
\* space, unless it reads like a key of the text area; what such a key does adds
\* nothing; and what is shown is of the new text.
THEOREM EnteredIsShown == Spec => WhatIsEnteredIsShown
<1>1. ASSUME IInv, [Next]_vars
      PROVE  [Pressed /\ side >= 0 /\ String(last') \notin QuitKeys =>
                Entering(last') /\ Showing]_vars
  <2>1. CASE UNCHANGED vars
    BY <2>1
  <2>. SUFFICES ASSUME Pressed, side >= 0, String(last') \notin QuitKeys,
                       ~UNCHANGED vars
                PROVE  Entering(last') /\ Showing
    BY <2>1, Zenon
  <2>2. ~PasteMsg /\ ~QuitMsg
    BY DEF Pressed, PasteMsg, QuitMsg, IInv, TypeOK
  <2>3. PICK m \in KeyMsgs : Update(m)
    BY <1>1, <2>2 DEF Next
  <2>4. last' = m /\ Type(m)
    <3>1. last' = m /\ (Quit(m) \/ Select(m) \/ Type(m))
      BY <2>3 DEF Update
    <3>2. String(m) \notin QuitKeys /\ ~(side < 0)
      BY <1>1, <3>1, SidesAre DEF IInv, TypeOK
    <3>. QED  BY <3>1, <3>2 DEF Quit, Select
  <2>5. Bolt11OnMessage(m)
    BY <1>1, <2>4, SidesAre DEF Type, MainOnMessage, IInv, TypeOK
  <2>. QED  BY <1>1, <2>4, <2>5, PaneStep, Zenon
<1>. QED  BY <1>1, Invariance, PTL DEF Spec, WhatIsEnteredIsShown, Entering, Showing
=============================================================================
