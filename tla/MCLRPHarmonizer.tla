--------------------------- MODULE MCLRPHarmonizer ---------------------------
(* LRPHarmonizer for TLC: one instance here and one on another cell. *)
EXTENDS LRPHarmonizer, TLC

CONSTANTS i1, r1
=============================================================================
