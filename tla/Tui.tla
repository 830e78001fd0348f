-------------------------------- MODULE Tui --------------------------------
(***************************************************************************)
(* The user interface: src/tui/tui.go, which hands every key press to one  *)
(* of two panes, and src/tui/components: the side pane selects, the main   *)
(* pane shows the bolt11 decoder, where an invoice is typed or pasted.     *)
(*                                                                         *)
(* The event loop and the text area are libraries, modelled as external:   *)
(* messages are handled one after the other, the answer to a command comes *)
(* as a later message, and the text area knows its keys by the text of a   *)
(* press, whether a key was pressed or its name came in as characters.     *)
(***************************************************************************)
EXTENDS Integers, SequencesExt, Subsequences

CONSTANTS
  Typed,      \* runs of characters that arrive as one key press
  Moves,      \* keys that move the cursor
  Deletes,    \* keys that delete characters at the cursor, without Backspace
  Pasted,     \* texts of a bracketed paste
  Spaces,     \* white space
  Null,       \* the zero rune
  Valid,      \* texts that DecodePaymentRequest accepts
  CharLimit   \* the longest text of the text area

VARIABLES
  side,      \* SidePane.selected
  main,      \* MainPane.selected
  text,      \* the value of the text area
  cursor,    \* how much of the text is before the cursor
  shown,     \* invoice and invoiceErr of the bolt11 pane
  pasting,   \* the text area has asked for the clipboard
  quitting,  \* tea.Quit was returned
  ended,     \* the program has ended
  last       \* history: the key press handled last

vars == <<side, main, text, cursor, shown, pasting, quitting, ended, last>>

\* A press has a name, as keys that are no characters have, or runes; Alt adds
\* its own name to a rune.  Its text is what both spell, so the letters u and p in
\* one press read like the key "up"; a paste is put in brackets.
Named(name) == [name |-> name, runes |-> << >>, paste |-> FALSE]

String(m) == IF m.paste THEN <<"[">> \o m.runes \o <<"]">> ELSE m.name \o m.runes

Up == <<"u", "p">>
Down == <<"d", "o", "w", "n">>
Esc == <<"e", "s", "c">>
Alt == <<"a", "l", "t", "+">>
CtrlC == <<"c", "t", "r", "l", "+", "c">>
CtrlV == <<"c", "t", "r", "l", "+", "v">>
Backspace == <<"b", "a", "c", "k", "s", "p", "a", "c", "e">>

\* The keys of the text area
KeyMap == Moves \cup Deletes \cup {Backspace, CtrlV}

ASSUME CharactersAssumption ==
  /\ CharLimit \in Nat \ {0}
  /\ \A runes \in Typed \cup Pasted :
       runes \in Seq(ToSet(runes)) /\ Null \notin ToSet(runes)
  /\ \A runes \in Valid : ToSet(runes) \cap (Spaces \cup {Null}) = {}

ASSUME KeysAssumption ==
  /\ Moves \cap (Deletes \cup {Backspace, CtrlV}) = {}
  /\ Deletes \cap {Backspace, CtrlV} = {}
  /\ \A name \in KeyMap :
       name \in Seq(ToSet(name)) /\ Null \notin ToSet(name) /\ name[1] # "["

KeyMsgs ==
  {Named(name) : name \in KeyMap \cup {Up, Down, Esc, CtrlC}} \cup
  {[name |-> << >>, runes |-> runes, paste |-> FALSE] : runes \in Typed} \cup
  {[name |-> Alt, runes |-> runes, paste |-> FALSE] : runes \in {r \in Typed : Len(r) = 1}} \cup
  {[name |-> << >>, runes |-> runes, paste |-> TRUE] : runes \in Pasted}

Items == <<"bolt11">>
Nothing == [what |-> "nothing"]

Init ==
  /\ side = -1 /\ main = -1
  /\ text = << >> /\ cursor = 0 /\ shown = Nothing
  /\ pasting = FALSE /\ quitting = FALSE /\ ended = FALSE
  /\ last = Named(<< >>)

-----------------------------------------------------------------------------
(* The bolt11 pane *)

\* The characters that slices.DeleteFunc keeps.
NoSpace(runes) == Subsequence(runes, {i \in DOMAIN runes : runes[i] \notin Spaces})

\* Mutation: the message keeps its runes.
removeWhitespaceOfCopy(runes) == runes

\* They are moved to the front of the array and what is left is zeroed; the
\* message that goes on still has all of it.
removeWhitespace(runes) ==
  LET kept == NoSpace(runes)
  IN  [i \in DOMAIN runes |-> IF i <= Len(kept) THEN kept[i] ELSE Null]

\* s up to place i, other, and s after place j
Around(s, i, other, j) == SubSeq(s, 1, i) \o other \o SubSeq(s, j + 1, Len(s))

\* The text area drops control characters and what is beyond its limit.
Insert(runes) ==
  LET new   == Subsequence(runes, {i \in DOMAIN runes : runes[i] # Null})
      space == CharLimit - Len(text)
      n     == IF Len(new) < space THEN Len(new) ELSE space
  IN  text' = Around(text, cursor, SubSeq(new, 1, n), cursor) /\ cursor' = cursor + n

Delete(i, j) == text' = Around(text, i, << >>, j) /\ cursor' = i

\* Where a key moves the cursor to, and how far one deletes, is left open: it
\* depends on how lines wrap and on words.
TextAreaUpdate(m) ==
  /\ \/ String(m) = Backspace /\ Delete(IF cursor > 0 THEN cursor - 1 ELSE 0, cursor)
     \/ /\ String(m) \in Deletes
        /\ \E i \in 0 .. cursor, j \in cursor .. Len(text) :
              cursor \in {i, j} /\ Delete(i, j)
     \/ String(m) \in Moves /\ cursor' \in 0 .. Len(text) /\ UNCHANGED text
     \/ String(m) = CtrlV /\ UNCHANGED <<text, cursor>>
     \/ String(m) \notin KeyMap /\ Insert(m.runes)
  /\ pasting' = (pasting \/ String(m) = CtrlV)

DecodePaymentRequest(value) ==
  [what |-> IF value \in Valid THEN "invoice" ELSE "error", of |-> value]

\* Mutation: an emptied text leaves what was shown.
Bolt11OnMessageKeeps(m) ==
  /\ TextAreaUpdate([m EXCEPT !.runes = removeWhitespace(m.runes)])
  /\ shown' = IF text' = << >> THEN shown ELSE DecodePaymentRequest(text')

Bolt11OnMessage(m) ==
  /\ TextAreaUpdate([m EXCEPT !.runes = removeWhitespace(m.runes)])
  /\ shown' = IF text' = << >> THEN Nothing ELSE DecodePaymentRequest(text')

-----------------------------------------------------------------------------
(* The panes and the program *)

\* At -1 there is the splash pane, which ignores messages.
MainOnMessage(m) ==
  IF main = 0 THEN Bolt11OnMessage(m) ELSE UNCHANGED <<text, cursor, shown, pasting>>

SideOnMessage(m) ==
  side' = CASE String(m) \in {Up, <<"k">>} /\ side > 0 -> side - 1
            [] String(m) \in {Down, <<"j">>} /\ side < Len(Items) - 1 -> side + 1
            [] OTHER -> side

QuitKeys == {<<"q">>, Esc, CtrlC}

\* Mutation: the keys of the program count only where they are announced.
QuitFromSplash(m) ==
  /\ String(m) \in QuitKeys
  /\ quitting' = (quitting \/ side < 0)
  /\ UNCHANGED <<side, main, text, cursor, shown, pasting>>

Quit(m) ==
  /\ String(m) \in QuitKeys
  /\ quitting' = TRUE
  /\ UNCHANGED <<side, main, text, cursor, shown, pasting>>

Select(m) ==
  /\ String(m) \notin QuitKeys /\ side < 0
  /\ SideOnMessage(m)
  /\ main' = side'
  /\ UNCHANGED <<text, cursor, shown, pasting, quitting>>

Type(m) ==
  /\ String(m) \notin QuitKeys /\ side >= 0
  /\ MainOnMessage(m)
  /\ main' = side
  /\ UNCHANGED <<side, quitting>>

Update(m) == /\ ~ended /\ last' = m /\ UNCHANGED ended
             /\ Quit(m) \/ Select(m) \/ Type(m)

\* The clipboard's answer is no key press, and no pane gets it.
PasteMsg ==
  /\ ~ended /\ pasting
  /\ pasting' = FALSE /\ main' = side
  /\ UNCHANGED <<side, text, cursor, shown, quitting, ended, last>>

\* The event loop takes the quit message that the command has sent.
QuitMsg ==
  /\ ~ended /\ quitting
  /\ ended' = TRUE
  /\ UNCHANGED <<side, main, text, cursor, shown, pasting, quitting, last>>

Next == (\E m \in KeyMsgs : Update(m)) \/ PasteMsg \/ QuitMsg

Spec == Init /\ [][Next]_vars

\* The goroutine of a command delivers its message to the event loop, which
\* chooses among its channels at random.
FairSpec == Spec /\ WF_vars(QuitMsg)

-----------------------------------------------------------------------------
(* Properties *)

\* Types; the text is one line without white space that fits the text area, and
\* both panes are at the same item.
TypeOK ==
  /\ side \in -1 .. Len(Items) - 1 /\ main = side
  /\ Len(text) <= CharLimit /\ ToSet(text) \cap (Spaces \cup {Null}) = {}
  /\ cursor \in 0 .. Len(text)
  /\ shown.what \in {"nothing", "invoice", "error"}
  /\ {pasting, quitting, ended} \subseteq BOOLEAN
  /\ last \in KeyMsgs \cup {Named(<< >>)}

\* The step of a press: others change one of these.
Pressed == pasting' = pasting /\ ended' = ended

\* A press is one of these keys: it was not pasted, has no white space, and reads
\* like the key.
Reads(m, keys) == ~m.paste /\ ToSet(m.runes) \cap Spaces = {} /\ String(m) \in keys

\* The text loses characters next to the cursor: those after place i, up to j.
Loses(i, j) == cursor \in {i, j} /\ text' = Around(text, i, << >>, j) /\ cursor' = i

\* The first n of these characters have come in at the cursor.
ComesIn(new, n) ==
  text' = Around(text, cursor, SubSeq(new, 1, n), cursor) /\ cursor' = cursor + n

\* With the decoder selected, the characters of a press or a paste that are no
\* white space come in at the cursor, in order, until the text is full, and move
\* nothing else.  What reads like a key of the text area does what the key does: it
\* adds nothing, and only a key that deletes takes characters away.  White space
\* makes characters of what reads like a key, and a paste is never a key.  What is
\* shown belongs to the new text: its invoice, its error, or nothing.
WhatIsEnteredIsShown ==
  [][Pressed /\ side >= 0 /\ String(last') \notin QuitKeys =>
       LET new == NoSpace(last'.runes)
       IN  /\ IF Reads(last', Deletes \cup {Backspace})
              THEN \E i, j \in 0 .. Len(text) :
                     /\ i <= j /\ Loses(i, j)
                     /\ Reads(last', {Backspace}) => j = cursor /\ cursor - i \in {0, 1}
              ELSE IF Reads(last', Moves \cup {CtrlV}) THEN text' = text
              ELSE \E n \in 0 .. Len(new) :
                     ComesIn(new, n) /\ (n = Len(new) \/ Len(text') = CharLimit)
           /\ shown' = IF text' = << >> THEN Nothing ELSE DecodePaymentRequest(text')]_vars

\* A quit key ends the program, whatever is selected, typed or shown.
QuitKeyQuits == String(last) \in QuitKeys ~> ended
=============================================================================
