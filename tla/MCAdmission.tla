---------------------------- MODULE MCAdmission ----------------------------
(* Instance of Admission for TLC.  Senders and texts are interchangeable.   *)
EXTENDS Admission, TLC
Symmetry == Permutations(Senders) \cup Permutations(Texts)
=============================================================================
