--------------------------- MODULE MCHoodiRelease ---------------------------
(* Model-checking instances of HoodiRelease. *)
EXTENDS HoodiRelease
=============================================================================
