------------------------------ MODULE MCOomAdj ------------------------------
(* Values of oom_adj for model-checking OomAdj. *)
EXTENDS OomAdj

\* Values that can be written, and one that cannot.
MCScore == {0, OOM_SCORE_ADJ_MIN, OOM_SCORE_ADJ_MAX + 1}
MCLegacy == {OOM_DISABLE}
=============================================================================
