-------------------------- MODULE MCManagedProfile --------------------------
(***************************************************************************)
(* Values of the constants of ManagedProfile for TLC.                      *)
(***************************************************************************)
EXTENDS ManagedProfileInv, TLC

OneScope == [s \in Session |-> "scope"]

Symmetry == Permutations(Session \ (Legacy \cup Conformance))
                \cup Permutations(Host) \cup Permutations(Pid)

=============================================================================
