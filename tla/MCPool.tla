------------------------------- MODULE MCPool -------------------------------
(***************************************************************************)
(* Small instances of the pool.                                            *)
(***************************************************************************)
EXTENDS PoolRefinement, TLC

CONSTANTS p1, p2, p3, TERM, INT

\* The processes are interchangeable; used by the runs of safety only.
Symmetry == Permutations(Pids)
=============================================================================
