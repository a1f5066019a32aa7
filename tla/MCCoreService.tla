--------------------------- MODULE MCCoreService ---------------------------
(***************************************************************************)
(* The core with two threads that make any mixture of calls.               *)
(***************************************************************************)
EXTENDS CoreService, TLC

Symmetry == Permutations(Threads) \cup Permutations(Paths)
=============================================================================
