------------------------------ MODULE MCLoader ------------------------------
(* Loader for TLC.  Of the five maps, two already have a first one, a last *)
(* one and a boundary between what a killed run has and has not done.      *)
EXTENDS Loader, TLC

OverlapFaults == FaultKinds \ {"get"}

OverlapSymmetry == Permutations(Objs) \cup Permutations(Loaders)
=============================================================================
