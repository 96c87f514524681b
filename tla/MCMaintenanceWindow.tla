------------------------- MODULE MCMaintenanceWindow -------------------------
(* Model-checking instances of MaintenanceWindow. *)
EXTENDS MaintenanceWindow, TLC

CeremonySymmetry == Permutations(Ceremonies)
=============================================================================
