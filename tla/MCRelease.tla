------------------------------ MODULE MCRelease ------------------------------
(* Instance of Catalogue, and of the release it extends, for TLC.           *)
EXTENDS Catalogue, TLC
CONSTANTS a, b, s0, s1, s2
Symmetry == Permutations(Runs) \cup Permutations(Sources)
=============================================================================
