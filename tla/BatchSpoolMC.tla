---------------------------- MODULE BatchSpoolMC ----------------------------
(***************************************************************************)
(* Model checking of BatchSpool: the spoolers, and the jobs, are alike.    *)
(***************************************************************************)
EXTENDS BatchSpool, TLC

Symmetry == Permutations(Procs) \cup Permutations(Jobs)
=============================================================================
