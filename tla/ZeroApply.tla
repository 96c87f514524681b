------------------------------ MODULE ZeroApply ------------------------------
(***************************************************************************)
(* The zero-resource apply, a shell script that the installer runs as its  *)
(* child: Terraform makes the bucket that is to hold its own state, with   *)
(* the state in a local file; the state moves into the bucket; network and *)
(* baseline are then applied on the remote state.  The script may die      *)
(* between any two steps, and Terraform between a resource and its record. *)
(***************************************************************************)
EXTENDS Naturals

VARIABLES disk,    \* the files that exist in the state directory
          cloud,   \* what has happened in AWS
          flight,  \* other requests that have not taken effect
          tf,      \* the resources that the local and the remote state record
          zero     \* where the script is, and what its apply has not recorded

Module == <<"work", "module">>        \* bootstrap-state/, copied from the release
Disabled == <<"work", "disabled">>    \* its backend block set aside
LocalState == <<"work", "state">>     \* bootstrap-state/terraform.tfstate
Output == <<"work", "output">>        \* bootstrap-output.json
ZeroFiles == {Module, Disabled, LocalState, Output}

Named == {"bucket", "logs"}           \* bootstrap resources found by their names
Importable == Named \cup {"key"}      \* the key is found by its tags
Bootstrap == Importable \cup {"encryption"}
Network == {"vpc"}
Baseline == {"audit", "cluster"} \cup (IF cloud.recorder = "none" THEN {"recorder"} ELSE {})
Infrastructure == Bootstrap \cup Network \cup Baseline

Applying == {"bootstrap", "network", "baseline"}
Planned ==
  CASE zero.at = "bootstrap" -> Bootstrap
    [] zero.at = "network" -> Network
    [] OTHER -> Baseline
Needed(r) == IF r = "encryption" THEN {"bucket", "key"} ELSE {}
Recorded == IF zero.at = "bootstrap" THEN tf.local ELSE tf.remote
Migrated == "bucket" \in tf.remote
Untracked == cloud.made \ (tf.local \cup tf.remote)

ZeroInit == tf = [local |-> {}, remote |-> {}] /\ zero = [at |-> "none", fresh |-> {}]

(* A bucket whose default encryption is not bound to the one owned key is  *)
(* not adopted, whoever left it so.                                        *)
ReconcileRefused ==
  \/ cloud.keys > 1
  \/ {"bucket", "key"} \subseteq cloud.made /\ "encryption" \notin cloud.made
(* With the runner in it, the ordinary plan of the baseline would delete.  *)
(* What an earlier run made and did not record cannot be made again.       *)
ZeroRefused ==
  \/ zero.at = "reconcile" /\ (Disabled \notin disk \/ ReconcileRefused)
  \/ zero.at = "review" /\ (cloud.runner \/ "prepare" \in flight)
  \/ zero.at = "baseline" /\ (Baseline \cap Untracked) \ zero.fresh # {}
(* A recorder that the saved inputs call ours is taken only from a remote  *)
(* state that records it with the audit resources.                         *)
RecorderProven == Migrated /\ {"audit", "recorder"} \subseteq tf.remote
RecorderUnproven == "recorder" \in cloud.made /\ ~RecorderProven
(* Our own names are a collision unless a file of ours explains them.      *)
Collision == cloud.made \cap (Named \cup {"cluster"}) # {} /\ disk \cap {LocalState, Output} = {}

(* What no later run of the script can go on from.                         *)
ZeroStranded ==
  \/ Module \in disk /\ disk \cap {Disabled, Output} = {}
  \/ ReconcileRefused \/ RecorderUnproven \/ Collision
  \/ Untracked \cap Baseline # {}

-----------------------------------------------------------------------------
Reach(at) == zero' = [zero EXCEPT !.at = at]
Elsewhere == UNCHANGED <<cloud, flight>>

(* A bootstrap output from before means that the bootstrap was applied.    *)
ZeroOpen ==
  /\ zero.at = "open"
  /\ \/ Output \in disk /\ Reach("cached") /\ UNCHANGED disk
     \/ Output \notin disk /\ Module \in disk /\ Reach("reconcile") /\ UNCHANGED disk
     \/ {Output, Module} \cap disk = {} /\ Reach("copied") /\ disk' = disk \cup {Module}
  /\ Elsewhere /\ UNCHANGED tf
(* The bucket is yet to be made: the backend block is put aside.           *)
ZeroDisable ==
  /\ zero.at = "copied"
  /\ disk' = disk \cup {Disabled}
  /\ Reach("reconcile") /\ Elsewhere /\ UNCHANGED tf

(* What exists with our tags and is not in the state is imported before    *)
(* anything is planned.                                                    *)
ZeroImport ==
  /\ zero.at = "reconcile" /\ ~ZeroRefused
  /\ \E r \in (Importable \cap cloud.made) \ tf.local :
       tf' = [tf EXCEPT !.local = @ \cup {r}]
  /\ disk' = disk \cup {LocalState}
  /\ Elsewhere /\ UNCHANGED zero
\* Mutant: a state that does not exist yet is not reconciled.
ZeroPlan_Blind ==
  /\ zero.at = "reconcile" /\ ~ZeroRefused
  /\ Importable \cap cloud.made \subseteq tf.local \/ LocalState \notin disk
  /\ Reach("bootstrap") /\ Elsewhere /\ UNCHANGED <<disk, tf>>
ZeroPlan ==
  /\ zero.at = "reconcile" /\ ~ZeroRefused
  /\ Importable \cap cloud.made \subseteq tf.local
  /\ Reach("bootstrap") /\ Elsewhere /\ UNCHANGED <<disk, tf>>

(* Terraform makes a resource and then records it.                         *)
ZeroCreate ==
  /\ zero.at \in Applying /\ ~ZeroRefused
  /\ \E r \in Planned \ (Recorded \cup zero.fresh) :
       /\ Needed(r) \subseteq Recorded
       /\ zero' = [zero EXCEPT !.fresh = @ \cup {r}]
       /\ cloud' = [cloud EXCEPT !.made = @ \cup {r},
                      !.keys = IF r = "key" /\ @ < 2 THEN @ + 1 ELSE @]
  /\ UNCHANGED <<disk, flight, tf>>
ZeroRecord ==
  /\ zero.at \in Applying
  /\ \E r \in zero.fresh :
       /\ zero' = [zero EXCEPT !.fresh = @ \ {r}]
       /\ IF zero.at = "bootstrap"
          THEN tf' = [tf EXCEPT !.local = @ \cup {r}] /\ disk' = disk \cup {LocalState}
          ELSE tf' = [tf EXCEPT !.remote = @ \cup {r}] /\ UNCHANGED disk
  /\ Elsewhere
ZeroApplied ==
  /\ zero.at \in Applying /\ ~ZeroRefused
  /\ Planned \subseteq Recorded /\ zero.fresh = {}
  /\ Reach(CASE zero.at = "bootstrap" -> "output" [] zero.at = "network" -> "review" [] OTHER -> "done")
  /\ Elsewhere /\ UNCHANGED <<disk, tf>>
ZeroReview ==
  /\ zero.at = "review" /\ ~ZeroRefused
  /\ Reach("baseline") /\ Elsewhere /\ UNCHANGED <<disk, tf>>

\* Mutant: the output is there before the bootstrap is complete.
ZeroOutput_Early ==
  /\ zero.at = "output" \/ (zero.at = "bootstrap" /\ zero.fresh = {} /\ tf.local # {})
  /\ disk' = disk \cup {Output}
  /\ Reach("migrate") /\ Elsewhere /\ UNCHANGED tf
ZeroOutput ==
  /\ zero.at = "output"
  /\ disk' = disk \cup {Output}
  /\ Reach("migrate") /\ Elsewhere /\ UNCHANGED tf
(* With an output from before, the remote state is authoritative; if there *)
(* is none, the local one is migrated.                                     *)
ZeroCached ==
  /\ zero.at = "cached"
  /\ Reach(IF Migrated THEN "network" ELSE "migrate")
  /\ Elsewhere /\ UNCHANGED <<disk, tf>>
\* The backend block is put back, and Terraform copies the state.
ZeroMigrate ==
  /\ zero.at = "migrate"
  /\ disk' = disk \ {Disabled}
  /\ tf' = [tf EXCEPT !.remote = @ \cup tf.local]
  /\ Reach("erase") /\ Elsewhere
ZeroErase ==
  /\ zero.at = "erase"
  /\ tf' = [tf EXCEPT !.local = {}]
  /\ Reach("network") /\ Elsewhere /\ UNCHANGED disk

ZeroRefuse ==
  /\ ZeroRefused
  /\ zero' = [at |-> "failed", fresh |-> {}]
  /\ Elsewhere /\ UNCHANGED <<disk, tf>>

ZeroStep ==
  \/ ZeroOpen \/ ZeroDisable \/ ZeroImport \/ ZeroPlan
  \/ ZeroCreate \/ ZeroRecord \/ ZeroApplied \/ ZeroReview
  \/ ZeroOutput \/ ZeroCached \/ ZeroMigrate \/ ZeroErase
  \/ ZeroRefuse
=============================================================================
