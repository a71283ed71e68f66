--------------------------- MODULE MCCopyProcess ---------------------------
(* System calls for model-checking CopyProcess. *)
EXTENDS CopyProcess

Plain == [by |-> "fork", flags |-> {}, sig |-> TRUE, stack |-> FALSE, size |-> FALSE,
          alias |-> FALSE, wellformed |-> TRUE]
By(name, f) == [Plain EXCEPT !.by = name, !.flags = f]
Pthread == {"VM", "FS", "FILES", "SIGHAND", "THREAD"}
WithPidfd == {"PIDFD", "FILES", "CLEAR_SIGHAND"}

\* Calls that make a child,
Good == {Plain, By("vfork", {}), By("clone", Pthread), By("clone3", WithPidfd)}

\* and calls that are refused.
Bad == {By("clone", {"VM", "THREAD"}), By("clone", {"SIGHAND", "THREAD"}),
        By("clone", {"PIDFD", "PARENT_SETTID"}),
        By("clone3", {"VM", "SIGHAND", "CLEAR_SIGHAND"}),
        By("clone3", Pthread), By("clone3", {"DETACHED"}),
        [By("clone3", {}) EXCEPT !.stack = TRUE],
        [By("clone3", {}) EXCEPT !.wellformed = FALSE]}

AllKinds == Good \cup Bad
=============================================================================
