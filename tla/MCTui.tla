------------------------------- MODULE MCTui --------------------------------
EXTENDS Tui

Chars  == {"q", "j", "p"}
Blanks == {" ", "\n"}

\* Keys of the text area, pressed or spelled: ctrl+k cuts the text at the cursor,
\* and alt+b goes a word back.
MoveKeys   == {Up, Down, Alt \o <<"b">>}
DeleteKeys == {<<"c", "t", "r", "l", "+", "k">>}
Runs   == {<<c>> : c \in Chars \cup {" "}} \cup
          {<<"p", "q">>, <<"j", " ", "p">>, <<"u", "p", " ">>} \cup
          {Esc, Up, Down, Backspace, CtrlV} \cup DeleteKeys
Pastes == {<< >>, <<"q">>, Up, <<"p", "q", "j", "p">>, <<"\n", "p", " ", "q">>,
           <<" ", " ", "j", "\n", "p">>}
Invoices == {<<"p", "q", "p">>, <<"p">>, <<"u", "p">>}
=============================================================================
