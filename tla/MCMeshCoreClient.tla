-------------------------- MODULE MCMeshCoreClient --------------------------
(* Small instances of MeshCoreClient for TLC. *)
EXTENDS MeshCoreClient
=============================================================================
