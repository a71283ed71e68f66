----------------------------- MODULE MCUnshare ------------------------------
(* An instance of Unshare for TLC. *)
EXTENDS Unshare, TLC

CONSTANTS t1, t2

Thread == {"THREAD", "SIGHAND", "VM", "FS", "FILES"}

\* Three tasks that share and unshare directories...
Directories == [tasks |-> {Boot, t1, t2}, requests |-> {{"FS"}},
                clones |-> {{"FS", "FILES"}, {"FILES"}}, exec |-> FALSE, readers |-> Reader]

\* ... and descriptors.
Descriptors == [tasks |-> {Boot, t1, t2}, requests |-> {{"FILES"}},
                clones |-> {{"FS", "FILES"}, {"FS"}}, exec |-> TRUE, readers |-> {}]

\* Two tasks, and everything unshare can be asked for.
Everything == [tasks |-> {Boot, t1},
               requests |-> {{"FS", "FILES"}, {"NEWNS", "SYSVSEM"}, {"NEWUSER", "NEWIPC"},
                             {"SIGHAND"}, {"VM"}, {"UNKNOWN"}},
               clones |-> {{"FS", "FILES"}, {"VM"}, {"VM", "SIGHAND"}, Thread},
               exec |-> FALSE, readers |-> {}]

AllWorkloads == {Directories, Descriptors, Everything}

\* Next does not tell tasks apart; Workloads is read by Init alone.
Alike == Permutations({t1, t2})
=============================================================================
