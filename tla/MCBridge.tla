------------------------------ MODULE MCBridge ------------------------------
(* Instance of Bridge for TLC.                                              *)
EXTENDS Bridge
=============================================================================
