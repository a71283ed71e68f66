----------------------------- MODULE MCTaskDir -----------------------------
(* Five threads for the listing, three or four for the other views. *)
EXTENDS TaskDir

MCViews == {[view |-> "list", tids |-> Tid], [view |-> "lookup", tids |-> 1 .. 4],
            [view |-> "io", tids |-> 1 .. 4], [view |-> "poll", tids |-> 1 .. 4]}
=============================================================================
