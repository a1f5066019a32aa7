--------------------------- MODULE MCConnection ---------------------------
(* Two calls at once over two profiles. *)
EXTENDS Connection, TLC

Symmetry == Permutations(Tasks) \cup Permutations(Profiles)
=============================================================================
