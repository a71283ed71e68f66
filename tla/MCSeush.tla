------------------------------ MODULE MCSeush ------------------------------
(* Lines for model-checking Seush. *)
EXTENDS Seush

P(gen, reads, redir, infile, found) ==
    [gen |-> gen, reads |-> reads, redir |-> redir, infile |-> infile, found |-> found]
Ls == P(1, FALSE, FALSE, "none", TRUE)          \* writes one unit
Cat == P(0, TRUE, FALSE, "none", TRUE)          \* copies its input
Wc == P(1, TRUE, FALSE, "none", TRUE)           \* copies its input, adds one unit
Quiet == P(0, FALSE, FALSE, "none", TRUE)       \* neither reads nor writes
CatTo == P(0, TRUE, TRUE, "none", TRUE)         \* cat > f
WcFrom == P(1, TRUE, FALSE, "exists", TRUE)     \* wc < f
CatLost == P(0, TRUE, TRUE, "missing", TRUE)    \* cat < nofile > f
Typo == P(1, FALSE, FALSE, "none", FALSE)       \* a command that is not found
Cmd(s) == [stages |-> s, dangling |-> FALSE]
Bare(s) == [stages |-> s, dangling |-> TRUE]

\* ls | cat | wc
\* wc < f & ls | cat & ls
\* typo & ls | true
\* ls | cat > f & cat < nofile > f
\* ls | wc < f
\* ls | cat | & ls
SmallLines == { <<Cmd(<<Ls, Cat, Wc>>)>>,
                <<Cmd(<<WcFrom>>), Cmd(<<Ls, Cat>>), Cmd(<<Ls>>)>>,
                <<Cmd(<<Typo>>), Cmd(<<Ls, Quiet>>)>>,
                <<Cmd(<<Ls, CatTo>>), Cmd(<<CatLost>>)>>,
                <<Cmd(<<Ls, WcFrom>>)>>,
                <<Bare(<<Ls, Cat>>), Cmd(<<Ls>>)>> }
=============================================================================
