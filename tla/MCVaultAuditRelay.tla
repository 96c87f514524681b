-------------------------- MODULE MCVaultAuditRelay --------------------------
(* Model-checking instances of VaultAuditRelay. *)
EXTENDS VaultAuditRelay
=============================================================================
