--------------------------- MODULE MCReleaseOutput ---------------------------
(***************************************************************************)
(* A small instance of ReleaseOutput for TLC.                              *)
(***************************************************************************)
EXTENDS ReleaseOutput, TLC

Symmetry == Permutations(Runs)

=============================================================================
