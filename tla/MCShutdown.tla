----------------------------- MODULE MCShutdown -----------------------------
(* Shutdown for TLC. *)
EXTENDS Shutdown, TLC

CONSTANTS c1, c2

Symmetry == Permutations(Guid)
=============================================================================
