----------------------------- MODULE MCMailbox -----------------------------
(* Instance of Mailbox for TLC.  Requests are interchangeable (safety runs). *)
EXTENDS Mailbox, TLC
Symmetry == Permutations(Requests)
=============================================================================
