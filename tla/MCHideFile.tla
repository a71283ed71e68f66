----------------------------- MODULE MCHideFile -----------------------------
(* Two readers share an open /proc/hidden_process, two an open /proc/hide.  *)
EXTENDS HideFile

CONSTANTS l1, l2, h1, h2, w1, w2

AllReaders == {l1, l2, h1, h2}
TwoFiles == [r \in AllReaders |-> IF r \in {l1, l2} THEN "list" ELSE "flag"]

\* One digit and two, a sign, leading zeros up to the full buffer and past
\* it, a number out of range, one without its newline, and no number at all.
Written == {<<0, Newline>>, <<1, Newline>>, <<1>>, <<Minus, 1, Newline>>,
            <<1, 2, Newline>>, <<0, 0, 1, Newline>>, <<0, 0, 0, 1, Newline>>,
            <<9, 9, Newline>>, <<Space, 1, Newline>>}
StackBytes == {<<>>} \cup [1 .. 1 -> {0, 1, Newline, Space}]
              \cup [1 .. 2 -> {0, 1, Newline}]
Tasks == <<7, 42, 5>>
Lowest == -20
Groups == {{l1, l2}, {h1, h2, w1}, {h1, w1, w2}}
=============================================================================
