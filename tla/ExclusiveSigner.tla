--------------------------- MODULE ExclusiveSigner ---------------------------
(***************************************************************************)
(* What the signing fences promise to the signer: at most one of them      *)
(* carries traffic, and a different one starts only after it went silent.  *)
(***************************************************************************)
CONSTANT Fences

VARIABLE active     \* the fences that carry signing traffic

Init == active = {}

Activate(f) == active = {} /\ active' = {f}

(* Authority lapses, a connection ends, a process dies.                    *)
Silence == active' \in SUBSET active

Next == Silence \/ \E f \in Fences : Activate(f)

Spec == Init /\ [][Next]_active
=============================================================================
