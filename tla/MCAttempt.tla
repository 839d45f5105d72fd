------------------------------ MODULE MCAttempt ------------------------------
(***************************************************************************)
(* Instances of AttemptLifecycle for TLC.  The handlers are interchangeable  *)
(* and so are the environments and the background teardown callers.        *)
(***************************************************************************)
EXTENDS AttemptLifecycle, TLC

Symmetry == Permutations(Handlers) \union Permutations(Envs) \union Permutations(Reapers)

=============================================================================
