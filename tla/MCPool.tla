------------------------------- MODULE MCPool -------------------------------
(* Instances of PoolContract for TLC. *)
EXTENDS PoolContract, TLC

\* Goroutines and resources are interchangeable; used for safety runs only.
Symmetry ==
  Permutations(Clients) \cup Permutations(Admins) \cup Permutations(Resources)
=============================================================================
