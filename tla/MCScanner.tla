----------------------------- MODULE MCScanner -----------------------------
(***************************************************************************)
(* Instances of Scanner.  "l" is a letter; the words are l, ll, ... and the*)
(* instruction i; the registers are $r and $r4.                            *)
(***************************************************************************)
EXTENDS Scanner

Strings(chars, n) == UNION {[1..k -> chars] : k \in 0..n}

\* Every short text, and as many again between two statements.
ShortTexts  == Strings({"l", "i", " ", "\n", "\t", ",", ":", ";", "#"}, 4)
MiddleTexts == {<<"l">> \o m \o <<"i", "\n">> :
                  m \in Strings({"l", " ", "\n", ",", ":", ";", "#"}, 4)}

\* Every short token of register characters, as an operand.
OperandTexts == {<<"i", " ">> \o m \o <<"\n">> :
                   m \in Strings({"$", "r", "(", ")", "4"}, 5)}
                \cup {<<"i", " ", "(", "4", "5", "(", "$", "r", ")", ")">>,
                      <<"i", " ", "4", "5", "(", "$", "r", ")", "\n">>,
                      <<"i", " ", "(", "(", "$", "r", ")", ")", "\n">>}

\* Words longer than the buffer, constants, and a text as loadFile() leaves it.
OtherTexts ==
  {<<"l", "l", "l", "l", "l", "l", "l", "l", "l">> \o m \o <<"i", "\n">> :
     m \in Strings({"l", " ", "#", ":"}, 2)}
  \cup {<<".", "l", " ", "'", "l", "'", ",", "'", "l", "\n", "NUL">>,
        <<".", "l", " ", "\"", "l", "\"", "\n", "NUL">>,
        <<"i", " ", "4", "l", ",", "4", "4", "#", "l", "\n", "NUL">>}

AllTexts == ShortTexts \cup MiddleTexts \cup OperandTexts \cup OtherTexts

OneMnemonic == {<<"i">>}
TwoRegisters == {<<"$", "r">>, <<"$", "r", "4">>}
TwoDigits   == {"4", "5"}
=============================================================================
