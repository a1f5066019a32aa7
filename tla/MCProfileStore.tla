-------------------------- MODULE MCProfileStore --------------------------
(* A short url and a longer one that contains it. *)
EXTENDS ProfileStore, TLC

CONSTANTS short, long

LikeTable == (short :> {short, long}) @@ (long :> {long})

Symmetry == Permutations(Tasks) \cup Permutations(Ids)
=============================================================================
