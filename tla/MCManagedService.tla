-------------------------- MODULE MCManagedService --------------------------
(* An instance of ManagedService for TLC. *)
EXTENDS ManagedService
=============================================================================
