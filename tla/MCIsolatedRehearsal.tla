------------------------ MODULE MCIsolatedRehearsal ------------------------
(* Model-checking instances of IsolatedRehearsal. *)
EXTENDS IsolatedRehearsal, TLC

(* Runs are interchangeable.                                               *)
Symmetry == Permutations(Runs)
=============================================================================
