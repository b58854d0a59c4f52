----------------------- MODULE MCRuntimeCoordinator -------------------------
(***************************************************************************)
(* RuntimeCoordinator on a small instance, and its mutants.                *)
(***************************************************************************)
EXTENDS RuntimeCoordinator, TLC

\* Runs, sessions and work are interchangeable.
Symmetry == Permutations(SessionIds) \cup Permutations(RunIds) \cup Permutations(WorkIds)

=============================================================================
