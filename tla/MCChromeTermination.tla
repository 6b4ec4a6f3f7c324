------------------------- MODULE MCChromeTermination -------------------------
(***************************************************************************)
(* Values of the constants of ChromeTermination for TLC.                   *)
(***************************************************************************)
EXTENDS ChromeTermination, TLC

Symmetry == Permutations(Member)

=============================================================================
