----------------------------- MODULE MCHideProc -----------------------------
(* Instances of HideProc for TLC. *)
EXTENDS HideProc

CONSTANTS c1, c2

\* Two names that comm can hold.
Sh == [head |-> 1, long |-> FALSE]
Cat == [head |-> 2, long |-> FALSE]
TwoNames == {Sh, Cat}

AllRoot == [c \in Caller |-> 0]
MayPtraceAll == [c \in Caller |-> Pid]
\* hidepid=2 keeps process 2 from the second caller.
AllButTwo == [c \in Caller |-> IF c = c1 THEN Pid ELSE Pid \ {2}]

Calls(first, second) == [c \in Caller |-> IF c = c1 THEN first ELSE second]

\* Lookups against hide and writes to /proc/hide, with forks and exits.
Looking == [boot |-> {1}, names |-> {Sh}, forked |-> {2},
            callers |-> AllRoot, ops |-> Calls({"lookup"}, {"hide", "flag"}),
            sys |-> {"fork", "thread", "reap", "shrink"}]

\* Listings of /proc and of the hidden against hide and writes to /proc/hide.
Listing == [boot |-> {1, 2}, names |-> {Sh}, forked |-> {},
            callers |-> AllRoot, ops |-> Calls({"readdir", "list"}, {"hide", "flag"}),
            sys |-> {"reap"}]

\* hide by name against recover, with processes coming and going...
Forking == [boot |-> {1, 2}, names |-> {Sh}, forked |-> {3},
            callers |-> AllRoot, ops |-> Calls({"hup"}, {"recover"}),
            sys |-> {"fork", "reap"}]

\* ... and with programs starting in them.
Running == [boot |-> {1, 2}, names |-> TwoNames, forked |-> {},
            callers |-> AllRoot, ops |-> Calls({"hup"}, {"recover"}),
            sys |-> {"exec", "reap"}]

\* A listing by a caller who may not see process 2.
Partial == [boot |-> {1, 2, 3}, names |-> {Sh}, forked |-> {},
            callers |-> AllRoot, ops |-> Calls({"hide"}, {"readdir"}),
            sys |-> {}]

\* The callers are not root.
Refused == [boot |-> {1}, names |-> {Sh}, forked |-> {},
            callers |-> [c \in Caller |-> 1000],
            ops |-> Calls({"hide", "hup", "flag"}, {"recover", "readdir"}),
            sys |-> {}]

AllWorkloads == {Looking, Listing, Forking, Running, Partial, Refused}

\* One caller, one call after the other.
OneByOne == {[boot |-> {1}, names |-> {Sh}, forked |-> {}, sys |-> {},
              callers |-> AllRoot, ops |-> [c \in Caller |-> {"lookup", "hide", "flag"}]]}
=============================================================================
