--------------------------- MODULE RootCeremonies ---------------------------
(***************************************************************************)
(* The three administrator ceremonies on one Vault: the bootstrap, which   *)
(* may initialise it, the audit devices, and custody onboarding.  Each     *)
(* obtains a root token, works with it and revokes it on its way out.      *)
(***************************************************************************)
EXTENDS Naturals

CONSTANT CeremonyFaults \* what may go wrong: "error", "kill", "lost" (answer)

ASSUME CeremonyFaultsAssumption == CeremonyFaults \subseteq {"error", "kill", "lost"}

VARIABLES vault,   \* Vault: its state, its root generation, its live tokens
          record,  \* the files of the ceremonies in the work directory
          ceremony \* the process of each ceremony

ceremonyVars == <<vault, record, ceremony>>

Ceremonies == {"bootstrap", "audit", "custody"}
Done == [bootstrap |-> "configured", audit |-> "audited", custody |-> "onboarded"]
Receipt == [audit |-> "audit-receipt", custody |-> "custody-receipt"]
NoRun == [at |-> "idle", root |-> "none", ok |-> FALSE, began |-> FALSE]

CeremoniesInit ==
  /\ vault = [facts |-> {}, generating |-> "none", tokens |-> {}]
  /\ record = {}
  /\ ceremony = [c \in Ceremonies |-> NoRun]

At(c, at) == ceremony[c].at = at
Moves(c, at) == ceremony' = [ceremony EXCEPT ![c].at = at]
(* The EXIT trap: revocation first, and nothing is reported unless ok.     *)
Leaves(c, ok) == ceremony' = [ceremony EXCEPT ![c].at = "revoke", ![c].ok = ok]
Granted(c, root, at) == ceremony' = [ceremony EXCEPT ![c].at = at, ![c].root = root]

CeremonyBegin(c) ==
  /\ At(c, "idle")
  /\ ceremony' = [ceremony EXCEPT ![c] = [NoRun EXCEPT !.at = IF c = "bootstrap" THEN "open" ELSE "status"]]
  /\ UNCHANGED <<vault, record>>

-----------------------------------------------------------------------------
(* recover-and-bootstrap-hoodi-vault-v2.sh: which way it goes.  A response *)
(* is never overwritten; a checkpoint without it is never accepted.        *)

OpenFresh ==
  /\ At("bootstrap", "open") /\ "initialized" \notin vault.facts
  /\ IF "pending" \in record THEN Leaves("bootstrap", FALSE) ELSE Moves("bootstrap", "init")
  /\ UNCHANGED <<vault, record>>
OpenInitialized ==
  /\ At("bootstrap", "open") /\ "initialized" \in vault.facts
  /\ IF "pending" \in record /\ "response" \notin record
     THEN Leaves("bootstrap", FALSE) ELSE Moves("bootstrap", "status")
  /\ UNCHANGED <<vault, record>>

(* The response, with the shares and the initial root token, goes to a     *)
(* private file; if it is lost, Vault is initialised all the same.         *)
Initialize ==
  /\ At("bootstrap", "init")
  /\ vault' = [vault EXCEPT !.facts = @ \cup {"initialized"}, !.tokens = @ \cup {"initial"}]
  /\ record' = record \cup {"response", "shares"}
  /\ Granted("bootstrap", "initial", "shares")
InitializeLost ==
  /\ "lost" \in CeremonyFaults /\ At("bootstrap", "init")
  /\ vault' = [vault EXCEPT !.facts = @ \cup {"initialized"}, !.tokens = @ \cup {"initial"}]
  /\ Leaves("bootstrap", FALSE) /\ UNCHANGED record
WriteShares ==
  /\ At("bootstrap", "shares")
  /\ record' = record \cup {"pending"}
  /\ Moves("bootstrap", "backup") /\ UNCHANGED vault
BackedUp ==
  /\ At("bootstrap", "backup")
  /\ Moves("bootstrap", "work")
  /\ UNCHANGED <<vault, record>>

-----------------------------------------------------------------------------
(* Root generation: Vault runs one at a time, whoever began it.            *)

Generating(c) == vault' = [vault EXCEPT !.generating = c]

(* CANCEL (or EXIT) when one is pending; the audit ceremony refuses.       *)
CancelPending(c) ==
  /\ At(c, "status") /\ vault.generating # "none" /\ c # "audit"
  /\ Generating("none") /\ UNCHANGED <<record, ceremony>>
LeavePending(c) ==
  /\ At(c, "status") /\ vault.generating # "none" /\ c = "audit"
  /\ Leaves(c, FALSE) /\ UNCHANGED <<vault, record>>
Generate(c) ==
  /\ At(c, "status") /\ vault.generating = "none"
  /\ Generating(c)
  /\ ceremony' = [ceremony EXCEPT ![c].at = "quorum", ![c].began = TRUE]
  /\ UNCHANGED record
(* The last share completes the generation, under the nonce it began with. *)
QuorumOpen(c) == At(c, "quorum") /\ vault.generating = c /\ "shares" \in record
Quorum(c) ==
  /\ QuorumOpen(c)
  /\ vault' = [vault EXCEPT !.generating = "none", !.tokens = @ \cup {c}]
  /\ ceremony' = [ceremony EXCEPT ![c].at = "work", ![c].root = c, ![c].began = FALSE]
  /\ UNCHANGED record
(* The token exists, but its answer is lost or cannot be decoded.  The     *)
(* bootstrap, which may run again, then leaves a token no run knows.       *)
Unknown(c) == IF c = "bootstrap" THEN "lost" ELSE c
Forgotten(c) == IF ceremony[c].root = "bootstrap"
                THEN (vault.tokens \ {"bootstrap"}) \cup {"lost"} ELSE vault.tokens
QuorumLost(c) ==
  /\ "lost" \in CeremonyFaults /\ QuorumOpen(c)
  /\ vault' = [vault EXCEPT !.generating = "none", !.tokens = @ \cup {Unknown(c)}]
  /\ Leaves(c, FALSE) /\ UNCHANGED record
QuorumRefused(c) ==
  /\ At(c, "quorum") /\ ~QuorumOpen(c)
  /\ Leaves(c, FALSE) /\ UNCHANGED <<vault, record>>

(* Onboarding writes its records with a child token of its own.            *)
Work(c) ==
  /\ At(c, "work")
  /\ vault' = [vault EXCEPT !.facts = @ \cup {Done[c]},
                            !.tokens = IF c = "custody" THEN @ \cup {"child"} ELSE @]
  /\ Leaves(c, TRUE) /\ UNCHANGED record

-----------------------------------------------------------------------------
(* The way out.                                                            *)

Held(c) == {ceremony[c].root} \cup (IF c = "custody" THEN {"child"} ELSE {})
Revoke(c) ==
  /\ At(c, "revoke")
  /\ vault' = [vault EXCEPT !.tokens = IF ceremony[c].root = "none" THEN @ ELSE @ \ Held(c)]
  /\ ceremony' = [ceremony EXCEPT ![c].at = "cancel", ![c].root = "none"]
  /\ UNCHANGED record
(* A revocation that is not confirmed makes the ceremony fail.             *)
RevokeFails(c) ==
  /\ "error" \in CeremonyFaults /\ At(c, "revoke") /\ ceremony[c].root # "none"
  /\ ceremony' = [ceremony EXCEPT ![c].at = "cancel", ![c].ok = FALSE, ![c].root = "none"]
  /\ vault' = [vault EXCEPT !.tokens = Forgotten(c)]
  /\ UNCHANGED record
(* A generation it began and did not complete is cancelled, whoever owns   *)
(* the pending one by now; onboarding leaves it pending.                   *)
Cancel(c) ==
  /\ At(c, "cancel")
  /\ vault' = IF ceremony[c].began /\ c # "custody" THEN [vault EXCEPT !.generating = "none"] ELSE vault
  /\ Moves(c, IF ceremony[c].ok THEN "report" ELSE "failed")
  /\ UNCHANGED record
\* Mutant: the receipt is written before the revocation.
Report_Early(c) ==
  /\ ceremony[c].at \in {"revoke", "report"} /\ ceremony[c].ok /\ c # "bootstrap"
  /\ record' = record \cup {Receipt[c]}
  /\ Moves(c, IF At(c, "revoke") THEN "revoke" ELSE "ok") /\ UNCHANGED vault
Report(c) ==
  /\ At(c, "report") /\ c # "bootstrap"
  /\ record' = record \cup {Receipt[c]}
  /\ Moves(c, "ok") /\ UNCHANGED vault
(* The bootstrap removes the response and then marks its checkpoint.       *)
RemoveResponse ==
  /\ At("bootstrap", "report")
  /\ record' = IF "pending" \in record THEN record \ {"response"} ELSE record
  /\ Moves("bootstrap", "mark") /\ UNCHANGED vault
MarkConfigured ==
  /\ At("bootstrap", "mark")
  /\ record' = IF {"pending", "configured"} \cap record = {} THEN record
               ELSE (record \ {"pending"}) \cup {"configured"}
  /\ Moves("bootstrap", "ok") /\ UNCHANGED vault

(* A command fails, a share is wrong, the operator answers EXIT or not     *)
(* BACKED_UP, or INT, TERM or HUP arrives.                                 *)
CeremonyFails(c) ==
  /\ "error" \in CeremonyFaults
  /\ ceremony[c].at \in {"open", "init", "shares", "backup", "status", "quorum", "work"}
  /\ Leaves(c, FALSE) /\ UNCHANGED <<vault, record>>
CeremonyKilled(c) ==
  /\ "kill" \in CeremonyFaults /\ ceremony[c].at \notin {"idle", "ok", "failed"}
  /\ vault' = [vault EXCEPT !.tokens = Forgotten(c)]
  /\ Moves(c, "failed") /\ UNCHANGED record

CeremonyStep(c) ==
  \/ c = "bootstrap" /\ (OpenFresh \/ OpenInitialized \/ Initialize \/ WriteShares \/ BackedUp
                           \/ RemoveResponse \/ MarkConfigured)
  \/ CancelPending(c) \/ LeavePending(c) \/ Generate(c) \/ Quorum(c) \/ QuorumRefused(c)
  \/ Work(c) \/ Revoke(c) \/ Cancel(c) \/ Report(c)
CeremonyGoesWrong(c) ==
  \/ c = "bootstrap" /\ InitializeLost
  \/ QuorumLost(c) \/ RevokeFails(c) \/ CeremonyFails(c) \/ CeremonyKilled(c)

CeremoniesTypeOK ==
  /\ vault.facts \subseteq {"initialized", "configured", "audited", "onboarded"}
  /\ vault.generating \in Ceremonies \cup {"none"}
  /\ vault.tokens \subseteq Ceremonies \cup {"initial", "child", "lost"}
  /\ record \subseteq {"response", "shares", "pending", "configured", "audit-receipt", "custody-receipt"}
  /\ \A c \in Ceremonies :
       /\ ceremony[c].at \in {"idle", "open", "init", "shares", "backup", "status", "quorum",
                             "work", "revoke", "cancel", "report", "mark", "ok", "failed"}
       /\ ceremony[c].root \in Ceremonies \cup {"none", "initial"}
       /\ ceremony[c].ok \in BOOLEAN /\ ceremony[c].began \in BOOLEAN
=============================================================================
