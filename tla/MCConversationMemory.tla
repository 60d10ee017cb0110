------------------------ MODULE MCConversationMemory ------------------------
(* Instances of ConversationMemory for TLC.  Two senders share a lock, the  *)
(* third has its own; s1 fills the memory to MaxPairs, a pair of s2 fills   *)
(* the whole Budget, or its question is too long to be sent at all.         *)
EXTENDS ConversationMemory
CONSTANTS s1, s2, s3
Striped == [s \in Senders |-> IF s = s3 THEN 1 ELSE 0]
Questions == [s \in Senders |-> IF s = s1 THEN 3 ELSE 1]
Lengths == [s \in Senders |-> CASE s = s1 -> {1} [] s = s2 -> {3, 7} [] s = s3 -> {2}]
=============================================================================
