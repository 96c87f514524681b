--------------------- MODULE MCAttestationObservation -----------------------
(* A model-checking instance of AttestationObservation. *)
EXTENDS AttestationObservation

(* The first duty lies before the activation.                              *)
FirstEarly == {1}
(* One connection of the fence that lasts.                                 *)
Whole == {Epochs}
=============================================================================
