------------------------ MODULE MCCommandTermination ------------------------
(***************************************************************************)
(* Values of the constants of CommandTermination for TLC.                  *)
(***************************************************************************)
EXTENDS CommandTermination, TLC

Symmetry == Permutations(Member)

=============================================================================
