---------------------------- MODULE MCStackCache ----------------------------
(* An instance of StackCache for TLC. *)
EXTENDS StackCache, TLC

Alike == Permutations(Area) \cup Permutations(Cpu) \cup Permutations(Task \ {Boot})
=============================================================================
