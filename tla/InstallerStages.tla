--------------------------- MODULE InstallerStages ---------------------------
(***************************************************************************)
(* The installer's checkpoint and the stages before Vault: start or resume *)
(* under the lock, the checkpoint's atomic replacement, infrastructure by  *)
(* the script of ZeroApply, and SSM access.  What an invocation does once  *)
(* it has passed the gate of the Vault stage is the business of the module *)
(* that extends this one.                                                  *)
(***************************************************************************)
EXTENDS ZeroApply

CONSTANT Faults  \* what may go wrong: "error", "kill", "orphan"

ASSUME FaultsAssumption == Faults \subseteq {"error", "kill", "orphan"}

VARIABLES stages,   \* the status that checkpoint.json gives each stage
          run,      \* the invocation that holds the checkpoint lock
          outcome,  \* how the last invocation ended, if it was of the guided flow
          spoiled   \* an interruption left work that needs reconciliation

stageVars == <<disk, stages, cloud, flight, tf, zero, run, outcome, spoiled>>

Statuses == {"pending", "running", "complete", "failed", "awaiting_input"}
InfraCommands == {"prepare_infra", "apply_infra"}
FrontCommands == {"discover"} \cup InfraCommands
OpsCommands == {"prepare_ops", "plan_ops", "apply_ops", "verify_ops"}
VaultCommands == {"guided", "mirror", "plan", "apply"}
Commands == FrontCommands \cup OpsCommands \cup VaultCommands

Directory == <<"state", "directory">>
Checkpoint == <<"state", "checkpoint">>
Temp == <<"state", "temporary">>  \* .checkpoint.json.tmp
OpsPlan == <<"ops", "plan">>
Session == <<"ops", "session">>
StageFiles == {Directory, Checkpoint, Temp, OpsPlan, Session} \cup ZeroFiles

StageOf(cmd) ==
  CASE cmd \in InfraCommands -> "infrastructure"
    [] cmd \in OpsCommands -> "ops_access"
    [] OTHER -> "vault"
Interrupted == \E s \in DOMAIN stages : stages[s] = "running"

Idle == [cmd |-> "none", op |-> "none", ph |-> "none", at |-> "idle", turn |-> 0]

(* An account may have an AWS Config recorder; if not, ours is created.    *)
StagesInit ==
  /\ disk = {}
  /\ stages = [s \in {"infrastructure", "ops_access", "vault"} |-> "pending"]
  /\ \E recorder \in {"foreign", "none"} :
       cloud = [made |-> {}, keys |-> 0, recorder |-> recorder, host |-> FALSE,
                runner |-> FALSE, admin |-> FALSE, build |-> "none"]
  /\ flight = {}
  /\ ZeroInit
  /\ run = Idle
  /\ outcome = "none"
  /\ spoiled = FALSE

-----------------------------------------------------------------------------
At(op, at) == run.op = op /\ run.at = at
Go(at) == run' = [run EXCEPT !.at = at]
Outcome(cmd, result) == outcome' = IF cmd = "guided" THEN result ELSE "none"
Ends(result) == run' = Idle /\ Outcome(run.cmd, result)
Close(status) ==
  /\ stages' = [stages EXCEPT ![StageOf(run.cmd)] = status]
  /\ Ends("done")
Still == UNCHANGED <<cloud, flight, tf, zero, spoiled>>

(* The checkpoint is replaced through a temporary file, which must not be  *)
(* there: while one is, every write raises.                                *)
WritingPoints == {"create", "note", "await", "begin"}

GateRefused ==
  \/ stages["infrastructure"] # "complete"
  \/ run.cmd \in VaultCommands /\ stages["ops_access"] # "complete"
  \/ run.cmd \in OpsCommands \ {"verify_ops"} /\ stages["ops_access"] = "complete"
InfraRefused == Collision \/ RecorderUnproven
VerifyRefused == Session \notin disk \/ ~cloud.host
StageRefused ==
  \/ run.at \in WritingPoints /\ Temp \in disk
  \/ run.at = "gate" /\ GateRefused
  \/ run.cmd \in InfraCommands /\ run.at = "await" /\ RecorderUnproven
  \/ At("apply_infra", "open") /\ InfraRefused
  \/ At("apply_infra", "provisioning") /\ zero.at = "failed"
  \/ At("plan_ops", "open") /\ OpsPlan \in disk
  \/ At("apply_ops", "open") /\ (OpsPlan \notin disk \/ Session \in disk \/ cloud.host)
  \/ At("verify_ops", "open") /\ VerifyRefused

-----------------------------------------------------------------------------
(* A new invocation takes the lock: start makes the state directory, and   *)
(* resume needs a checkpoint without a running stage.                      *)
Takes(cmd, at) ==
  /\ run = Idle
  /\ run' = [Idle EXCEPT !.cmd = cmd, !.op = cmd, !.at = at,
                !.ph = IF cmd \in {"plan", "apply"} THEN "prepare" ELSE "none"]
  /\ outcome' = "none"
  /\ Still /\ UNCHANGED stages
Start(cmd) ==
  /\ Directory \notin disk /\ cmd \in FrontCommands
  /\ Takes(cmd, "create")
  /\ disk' = disk \cup {Directory}
Resume(cmd) ==
  /\ Checkpoint \in disk /\ ~Interrupted
  /\ Takes(cmd, IF cmd \in FrontCommands \cup {"mirror"} THEN "note" ELSE "gate")
  /\ UNCHANGED disk
Blocked(cmd) ==
  /\ run = Idle /\ Directory \in disk
  /\ Checkpoint \notin disk \/ Interrupted
  /\ Outcome(cmd, "error")
  /\ Still /\ UNCHANGED <<disk, stages, run>>

CreateCheckpoint ==
  /\ run.at = "create" /\ ~StageRefused
  /\ disk' = disk \cup {Checkpoint}
  /\ Go("note") /\ Still /\ UNCHANGED <<stages, outcome>>

(* Absent stages become pending, and preflight awaits input.               *)
Note ==
  /\ run.at = "note" /\ ~StageRefused
  /\ CASE run.cmd = "discover" -> Ends("done")
       [] run.cmd = "mirror" -> Go("gate") /\ UNCHANGED outcome
       [] OTHER -> Go("await") /\ UNCHANGED outcome
  /\ Still /\ UNCHANGED <<disk, stages>>

PassGate ==
  /\ run.at = "gate" /\ ~StageRefused
  /\ Go(CASE run.cmd = "guided" -> "choose" [] run.cmd = "mirror" -> "open"
          [] run.cmd = "prepare_ops" -> "await" [] OTHER -> "begin")
  /\ Still /\ UNCHANGED <<disk, stages, outcome>>

(* The inputs are prepared.  This takes a complete infrastructure back,    *)
(* also when the Vault runner forbids to apply it again.                   *)
InfraPrepared ==
  /\ run.cmd \in InfraCommands /\ run.at = "await" /\ ~StageRefused
  /\ stages' = [stages EXCEPT !["infrastructure"] = "awaiting_input"]
  /\ IF run.cmd = "apply_infra" THEN Go("begin") /\ UNCHANGED outcome ELSE Ends("done")
  /\ spoiled' = (spoiled \/ cloud.runner \/ "prepare" \in flight)
  /\ UNCHANGED <<disk, cloud, flight, tf, zero>>
OpsPrepared ==
  /\ run.cmd = "prepare_ops" /\ run.at = "await" /\ ~StageRefused
  /\ Close("awaiting_input") /\ Still /\ UNCHANGED disk

Begin ==
  /\ run.at = "begin" /\ ~StageRefused
  /\ stages' = [stages EXCEPT ![StageOf(run.cmd)] = "running"]
  /\ Go("open") /\ Still /\ UNCHANGED <<disk, outcome>>

-----------------------------------------------------------------------------
(* Infrastructure: the script, which a later run of it continues.          *)
InfraRequest ==
  /\ At("apply_infra", "open") /\ ~StageRefused
  /\ zero' = [at |-> "open", fresh |-> {}]
  /\ Go("provisioning") /\ UNCHANGED <<disk, stages, cloud, flight, tf, outcome, spoiled>>
InfraReturns ==
  /\ At("apply_infra", "provisioning") /\ zero.at = "done"
  /\ Close("complete") /\ Still /\ UNCHANGED disk

(* SSM access: a saved plan that is never overwritten, its apply, the      *)
(* session handoff, and the verification of the session.                   *)
OpsPlans ==
  /\ At("plan_ops", "open") /\ ~StageRefused
  /\ disk' = disk \cup {OpsPlan}
  /\ Go("planned") /\ Still /\ UNCHANGED <<stages, outcome>>
OpsPlanned ==
  /\ At("plan_ops", "planned")
  /\ Close("awaiting_input") /\ Still /\ UNCHANGED disk
OpsRequest ==
  /\ At("apply_ops", "open") /\ ~StageRefused
  /\ flight' = flight \cup {"ops"}
  /\ Go("creating") /\ UNCHANGED <<disk, stages, cloud, tf, zero, outcome, spoiled>>
OpsHandoff ==
  /\ At("apply_ops", "creating") /\ "ops" \notin flight
  /\ disk' = disk \cup {Session}
  /\ Go("handed") /\ Still /\ UNCHANGED <<stages, outcome>>
OpsApplied ==
  /\ At("apply_ops", "handed")
  /\ Close("awaiting_input") /\ Still /\ UNCHANGED disk
OpsVerified ==
  /\ At("verify_ops", "open") /\ ~StageRefused
  /\ Close("complete") /\ Still /\ UNCHANGED disk

StageStep ==
  \/ CreateCheckpoint \/ Note \/ PassGate \/ InfraPrepared \/ OpsPrepared \/ Begin
  \/ InfraRequest \/ InfraReturns
  \/ OpsPlans \/ OpsPlanned \/ OpsRequest \/ OpsHandoff \/ OpsApplied \/ OpsVerified

(* The script goes on by itself, and Terraform's effect comes when it comes. *)
ZeroRun == ZeroStep /\ UNCHANGED <<stages, run, outcome, spoiled>>
LandHost ==
  /\ "ops" \in flight
  /\ cloud' = [cloud EXCEPT !.host = TRUE]
  /\ flight' = flight \ {"ops"}
  /\ UNCHANGED <<disk, stages, tf, zero, run, outcome, spoiled>>

(* What the except clauses make of a running stage.                        *)
Aborted ==
  IF stages[StageOf(run.cmd)] = "running"
  THEN [stages EXCEPT ![StageOf(run.cmd)] =
          IF run.cmd \in {"apply_infra", "plan_ops", "apply_ops"} THEN "failed" ELSE "awaiting_input"]
  ELSE stages

(* The command with which an operator who wants Vault goes on.             *)
NextCommand ==
  CASE stages["infrastructure"] # "complete" -> "apply_infra"
    [] stages["infrastructure"] = "complete" /\ stages["ops_access"] = "complete" -> "guided"
    [] OTHER -> IF Session \in disk THEN "verify_ops"
                ELSE IF OpsPlan \in disk THEN "apply_ops" ELSE "plan_ops"
=============================================================================
