--------------------------- MODULE MCVaultPlatform ---------------------------
(* Model-checking instances of VaultPlatform. *)
EXTENDS VaultPlatform
=============================================================================
