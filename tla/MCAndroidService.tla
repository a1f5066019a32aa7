-------------------------- MODULE MCAndroidService --------------------------
(***************************************************************************)
(* The Android service with two threads at work at once.                   *)
(***************************************************************************)
EXTENDS AndroidService, TLC

Symmetry == Permutations(Tasks)
=============================================================================
