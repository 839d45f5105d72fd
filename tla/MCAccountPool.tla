---------------------------- MODULE MCAccountPool ----------------------------
(***************************************************************************)
(* Instances of AccountPool for TLC.                                       *)
(***************************************************************************)
EXTENDS AccountPool, TLC

Symmetry == Permutations(Accounts) \union Permutations(Attempts)

=============================================================================
