--------------------------- MODULE MCTextCommand ---------------------------
EXTENDS TextCommand, TLC

Word == Name \cup Class \cup Value

\* Sentences: every form, with and without ports, blanks and arguments; the
\* first and the last part of a command with an open string.
Sentences ==
    LET arguments == {<<>>, <<"1">>, <<"quote", "a", "quote">>}
        blanks == {<<>>, <<"space">>}
    IN  {<<"a">>, <<"b">>}
        \cup {<<"a", "(">> \o s \o <<")">> : s \in arguments}
        \cup {<<"b">> \o w \o <<"=">> \o w \o <<"Metro", "(">> \o s \o <<")">>
                 : w \in blanks, s \in arguments}
        \cup {f \o w \o <<op>> \o w \o t : f \in {<<"a">>, <<"a", "~", "b">>},
                 t \in {<<"b">>, <<"b", "~", "a">>}, w \in blanks, op \in {"=>", "||"}}
        \cup {<<"a", "(", "quote", "b">>, <<"quote", ")">>, <<"#", "a">>}

\* Two words in a row would be one word, and so would two runs of blanks.
Readable(s) ==
    \A i \in 1..Len(s) - 1 : /\ ~(s[i] \in Word /\ s[i + 1] \in Word)
                             /\ ~(s[i] = "space" /\ s[i + 1] = "space")

\* A sentence, a beginning of it, or one with a token too many or too few.
MCLine ==
    {s \in Sentences \cup {<<>>}
          \cup UNION {{SubSeq(s, 1, k) : k \in 1..Len(s)} : s \in Sentences}
          \cup UNION {{RemoveAt(s, k) : k \in 1..Len(s)} : s \in Sentences}
          \cup UNION {{InsertAt(s, k, t) : k \in 1..Len(s) + 1,
                                           t \in Word \cup (Sign \ {"nl"})}
                      : s \in Sentences}
        : Readable(s)}
=============================================================================
