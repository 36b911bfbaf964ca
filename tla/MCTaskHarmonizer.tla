-------------------------- MODULE MCTaskHarmonizer --------------------------
(* TaskHarmonizer for TLC: one task, which names a result file. *)
EXTENDS TaskHarmonizer, TLC

CONSTANT t1
=============================================================================
