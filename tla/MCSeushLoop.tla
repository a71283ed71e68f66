---------------------------- MODULE MCSeushLoop ----------------------------
(* Directories, lines and batch files for model-checking SeushLoop. *)
EXTENDS SeushLoop

Abs(d) == [abs |-> TRUE, to |-> d]
Rel(n) == [abs |-> FALSE, to |-> n]

MCDirs == {<<>>, <<"a">>, <<"a", "a">>, <<"b">>, <<"long">>}
MCLocked == {<<"b">>}
MCTooLong == {Abs(<<"long">>)}
MCNames == [w \in {"/a", "/b", "/c", "/long", "a", "..", "c"} |->
              CASE w = "/a" -> Abs(<<"a">>) [] w = "/b" -> Abs(<<"b">>)
                [] w = "/c" -> Abs(<<"c">>) [] w = "/long" -> Abs(<<"long">>)
                [] OTHER -> Rel(w)]

Line1(w) == <<w, Newline>>
Line2(w, v) == <<w, Sp, v, Newline>>
MCTyped == {Line2("cd", w) : w \in DOMAIN MCNames}
           \cup {Line1("path"), Line2("path", "/a"), <<"path", Sp, "/a", Sp, Tab, "a", Sp, "/c">>}
           \cup {Line1(w) : w \in {"ls", "typo", "help", "exit"}}
ByHand == {<<>>}

\* ls is a file, path none; one cannot execute typo.
MCFiles == {<<"ls">>}

\* Batch files of up to four lines, with at most one command that cannot be
\* redirected or executed.
Bad == {Line1("typo"), <<"ls", "<", "path", Newline>>}
BatchLines == Bad \cup {Line1("ls"), <<Newline>>, Line1("exit"),
               <<"path", Sp, "/a", Sp, "/c", Newline>>}
OneBad == {b \in UNION {[1 .. n -> BatchLines] : n \in 1 .. 4} :
             Cardinality({i \in DOMAIN b : b[i] \in Bad}) <= 1}

\* Batch files of one line: all texts of up to five characters.
Word == {"ls", "path"}
Character == Word \cup Blanks \cup Signs
Short == {t \in UNION {[1 .. n -> Character] : n \in 1 .. 5} :
            \A k \in 2 .. Len(t) : ~(t[k - 1] \in Word /\ t[k] \in Word)}
OneLine == {<<t>> : t \in Short}

BatchOrTyped == OneBad \cup ByHand \cup OneLine
AllTexts == MCTyped \cup BatchLines \cup Short
=============================================================================
