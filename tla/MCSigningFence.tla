--------------------------- MODULE MCSigningFence ---------------------------
(* Model-checking instances of SigningFence. *)
EXTENDS SigningFence, TLC

FenceSymmetry == Permutations(Fences)
(* Every client Pod is given the first one's IP. *)
SharedAddress == [s \in Clients |-> 1]
=============================================================================
