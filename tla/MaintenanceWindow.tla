-------------------------- MODULE MaintenanceWindow --------------------------
(***************************************************************************)
(* The UC-5 ceremony and the activation script at work on one cluster.     *)
(* They share nothing but the cluster; the marker keeps them apart.        *)
(***************************************************************************)
EXTENDS Uc5Ceremony, ClientActivation

vars == <<clusterVars, cer, act>>

Init == ClusterInit /\ CeremonyInit /\ ActivationInit
Next ==
  \/ ClusterNext /\ UNCHANGED <<cer, act>>
  \/ \E c \in Ceremonies : CeremonyNext(c) /\ UNCHANGED act
  \/ \E a \in Activations : ActivationNext(a) /\ UNCHANGED cer
Spec == Init /\ [][Next]_vars

(* Every wait of the ceremony is bounded: it takes its next step or raises.*)
Fairness == \A c \in Ceremonies : WF_vars(CeremonyStep(c) /\ UNCHANGED act)
FairSpec == Spec /\ Fairness

-----------------------------------------------------------------------------
TypeOK == ClusterTypeOK /\ CeremonyTypeOK /\ ActivationTypeOK

(* Vault's runtime role is never missing without a maintenance marker that *)
(* says so, whatever fails, is interrupted or crashes: only then does      *)
(* activation stay refused until somebody has restored the role            *)
(* (uc5-ceremony.py:59-61 and 104-130).                                    *)
RoleAbsentUnderMarker == role = "absent" => marker # NoOne

(* While the role is missing the client and the fence are down, although   *)
(* an activation may have passed its marker check before the ceremony set  *)
(* the marker (uc5-live-actions.py:141-150, activate...:172-184).          *)
QuiescedWhileRoleAbsent == role = "absent" => Quiesced

Released(c) == marker = c /\ marker' = NoOne
Reports(c, what) == cer[c].result # what /\ cer'[c].result = what

(* A ceremony removes the marker only from a cluster that is safe to       *)
(* activate: the role is back, its own root token is revoked, and once it  *)
(* was through fresh_fence, client and fence are at zero; once it had      *)
(* begun it, a signer that was not verified is, too.  One that ends inside *)
(* fresh_fence has not yet excluded an activation from before the marker,  *)
(* whose PATCH may raise what its clean-up took down.                      *)
ReleasedIsSafe ==
  [][\A c \in Ceremonies : Released(c) =>
       /\ role # "absent" /\ tokens[c] = "revoked"
       /\ cer[c].reached > Preparing => replicas["client"] = 0 /\ replicas["fence"] = 0
       /\ cer[c].reached \in Preparing..(Complete - 1) => replicas["signer"] = 0]_vars

(* activation_allowed is reported only when the token is dead, the role    *)
(* exists and the ceremony's marker is gone.                               *)
ProbeCompleteIsTrue ==
  [][\A c \in Ceremonies : Reports(c, "PROBE_COMPLETE") =>
       tokens'[c] = "revoked" /\ role' # "absent" /\ marker' # c]_vars

(* A rollback that exits without CRITICAL has left client and fence at     *)
(* zero (activate...:187-202).                                             *)
RolledBackIsDown ==
  [][\A a \in Activations : act[a].phase = "verify" /\ act'[a].phase = "rolledback" =>
       replicas["client"] = 0 /\ replicas["fence"] = 0]_vars

(* A ceremony that is not killed reports an outcome, however often and     *)
(* wherever it fails.                                                      *)
CeremonyEnds == \A c \in Ceremonies : <>(~Active(c))

(* A request of c is carried out: while c waits for it, or late.           *)
Acts(c) == cer'[c] # cer[c] \/ \E r \in late \ late' : r.by = c

(* Of several ceremonies only the marker's owner changes replica counts or *)
(* the role, even when the answer to a marker's creation was lost and the  *)
(* marker appeared later.  Requests that Vault carries out late count too: *)
(* a late deletion or write of the role finds the token revoked before the *)
(* marker can pass to another ceremony (uc5-ceremony.py:126-139).          *)
OnlyHolderMutates ==
  [][\A c \in Ceremonies : Acts(c) /\ (replicas' # replicas \/ role' # role) => marker = c]_vars

=============================================================================
