---------------------------- MODULE VaultPlatform ----------------------------
(***************************************************************************)
(* The installer's guided Vault platform flow: mirror the artifacts, plan  *)
(* and apply the runner, grant it cluster-admin, run one CodeBuild build,  *)
(* revoke the grant.  Every invocation may end anywhere; the files in the  *)
(* state directory are all that the next one knows.                        *)
(***************************************************************************)
EXTENDS InstallerStages

CONSTANT Turns  \* the guided continuation's bound on its actions

ASSUME TurnsAssumption == Turns \in Nat \ {0}

VARIABLE requests  \* how often each request was sent (counted up to 2)

vars == <<stageVars, requests>>

Phases == {"prepare", "grant", "revoke"}
Requests == Phases \cup {"build"}

Mirror(part) == <<"mirror", part>>      \* marker, manifest, receipt
Plan(ph) == <<"plan", ph>>
Attempt(ph) == <<"attempt", ph>>
Success(ph) == <<"success", ph>>        \* the success record exists ...
Written(ph) == <<"written", ph>>        \* ... and has its content
Platform(part) == <<"platform", part>>  \* intent, build, succeeded, failed
Work(ph, op) == <<"work", ph, op>>      \* a private Terraform workspace

MirrorFiles == {Mirror(p) : p \in {"marker", "manifest", "receipt"}}
\* Mutant: a recorded build ID counts as the build's end.
Verdicts_AnyBuild == {Platform(v) : v \in {"succeeded", "failed", "build"}}
Verdicts == {Platform(v) : v \in {"succeeded", "failed"}}
Files ==
  StageFiles \cup MirrorFiles \cup Verdicts \cup {Platform("intent"), Platform("build")}
    \cup {Plan(ph) : ph \in Phases} \cup {Attempt(ph) : ph \in Phases}
    \cup {Success(ph) : ph \in Phases} \cup {Written(ph) : ph \in Phases}
    \cup {Work(ph, op) : ph \in Phases, op \in {"plan", "apply", "reconcile"}}

Init == StagesInit /\ requests = [r \in Requests |-> 0]

-----------------------------------------------------------------------------
(* What the next step decides on.                                          *)

(* The composition that a phase starts from, and the one it must leave.    *)
Before(ph) == [runner |-> ph # "prepare", admin |-> ph = "revoke"]
After(ph) == [runner |-> TRUE, admin |-> ph = "grant"]
Clean(composition) ==
  cloud.runner = composition.runner /\ cloud.admin = composition.admin

Torn(ph) == Success(ph) \in disk /\ Written(ph) \notin disk
Settled(ph) == Plan(ph) \in disk /\ Written(ph) \in disk
Owed(ph) == IF Plan(ph) \in disk THEN <<"apply", ph>> ELSE <<"plan", ph>>

GuidedTask ==
  CASE Mirror("receipt") \notin disk -> <<"mirror", "none">>
    [] Mirror("receipt") \in disk /\ ~Settled("prepare") -> Owed("prepare")
    [] Mirror("receipt") \in disk /\ Settled("prepare") /\ ~Settled("grant") -> Owed("grant")
    [] OTHER -> <<"platform", IF disk \cap Verdicts = {} THEN "start" ELSE "verify">>

(* The step in hand finds what forbids it and raises.                      *)
(* Inputs written when no recorder was there no longer match an account    *)
(* that has ours.                                                          *)
InputsDiffer == "recorder" \in cloud.made
PlanRefused ==
  \/ InputsDiffer
  \/ Mirror("receipt") \notin disk \/ Plan(run.ph) \in disk
  \/ Work(run.ph, "plan") \in disk
ApplyRefused ==
  \/ InputsDiffer
  \/ Mirror("receipt") \notin disk \/ Plan(run.ph) \notin disk
  \/ Attempt(run.ph) \in disk \/ Success(run.ph) \in disk
  \/ Work(run.ph, "apply") \in disk
InspectRefused ==
  \/ Verdicts \subseteq disk
  \/ Platform("failed") \in disk /\ cloud.build # "failed"
  \/ disk \cap Verdicts = {} /\ (Platform("intent") \in disk) # (Platform("build") \in disk)
Expected ==
  CASE run.op = "platform" -> After("grant")
    [] run.at = "applying" -> After(run.ph)
    [] OTHER -> Before(run.ph)
StillRunning == cloud.build = "running"
Refused ==
  \/ StageRefused
  \/ run.at = "choose" /\ (Torn("prepare") \/ Torn("grant"))
  \/ At("mirror", "open") /\ disk \cap MirrorFiles # {}
  \/ At("plan", "open") /\ PlanRefused
  \/ At("apply", "open") /\ ApplyRefused
  \/ At("platform", "open") /\ Work("grant", "reconcile") \in disk
  \/ run.at = "reconcile" /\ ~Clean(Expected)
  \/ run.at = "applying" /\ run.ph \notin flight /\ run.ph # "prepare" /\ ~Clean(Expected)
  \/ run.at = "inspect" /\ InspectRefused
  \/ run.at = "poll" /\ StillRunning
  \/ run.at = "conclude" /\ Torn("revoke")

-----------------------------------------------------------------------------
(* How an invocation goes on and how it ends.                              *)

Do(task, at) == run' = [run EXCEPT !.op = task[1], !.ph = task[2], !.at = at]

(* What the finally clauses remove: the workspace of this invocation, until *)
(* an apply is attempted in it.                                            *)
Workspace == IF run.op = "platform" THEN Work("grant", "reconcile") ELSE Work(run.ph, run.op)
\* Mutant: a failed reconciliation leaves its workspace.
Leftover_KeepsReconcile ==
  IF run.at = "reconcile" /\ run.op # "platform" THEN {Workspace} ELSE {}
Leftover == IF run.at = "reconcile" THEN {Workspace} ELSE {}
Tidied == disk \ Leftover

(* A task is done with these files on disk: an expert command ends, the    *)
(* continuation takes its next turn unless the build failed.               *)
TaskDone(files) ==
  /\ disk' = files
  /\ stages' = IF run.cmd \in {"plan", "apply"} THEN [stages EXCEPT !["vault"] = "awaiting_input"] ELSE stages
  /\ UNCHANGED <<cloud, flight, tf, zero, requests, spoiled>>
  /\ \/ run.cmd # "guided" /\ Ends("done")
     \/ /\ run.cmd = "guided" /\ run.op = "platform" /\ run.ph = "verify"
        /\ Go("conclude") /\ UNCHANGED outcome
     \/ /\ run.cmd = "guided" /\ run.op = "platform" /\ run.ph = "start"
        /\ Platform("failed") \in files
        /\ Ends("platform_failed")
     \/ /\ run.cmd = "guided" /\ run.ph # "verify"
        /\ ~(run.op = "platform" /\ Platform("failed") \in files)
        /\ IF run.turn + 1 = Turns
           THEN Ends("limit")
           ELSE run' = [run EXCEPT !.at = "choose", !.turn = @ + 1] /\ UNCHANGED outcome

Send(request) ==
  /\ flight' = flight \cup {request}
  /\ requests' = [requests EXCEPT ![request] = IF @ = 2 THEN 2 ELSE @ + 1]
Quiet == UNCHANGED <<stages, cloud, flight, tf, zero, requests, spoiled>>

-----------------------------------------------------------------------------
Choose ==
  /\ run.at = "choose" /\ ~Refused
  /\ Do(GuidedTask, "open")
  /\ Quiet /\ UNCHANGED <<disk, outcome>>

(* With a verdict on disk and the build reconciled: revoke the authority.  *)
Conclude ==
  /\ run.at = "conclude" /\ ~Refused
  /\ IF Settled("revoke")
     THEN Ends("authority_revoked")
     ELSE Do(Owed("revoke"), "open") /\ UNCHANGED outcome
  /\ Quiet /\ UNCHANGED disk

MirrorBegin ==
  /\ At("mirror", "open") /\ ~Refused
  /\ disk' = disk \cup {Mirror("marker")}
  /\ Go("copied") /\ Quiet /\ UNCHANGED outcome
MirrorManifest ==
  /\ At("mirror", "copied")
  /\ disk' = disk \cup {Mirror("manifest")}
  /\ Go("listed") /\ Quiet /\ UNCHANGED outcome
MirrorReceipt ==
  /\ At("mirror", "listed")
  /\ TaskDone(disk \cup {Mirror("receipt")})

(* plan_vault_prepare keeps its workspace beside the published plan.       *)
PlanOpen ==
  /\ At("plan", "open") /\ ~Refused
  /\ disk' = disk \cup {Work(run.ph, "plan")}
  /\ Go("reconcile") /\ Quiet /\ UNCHANGED outcome
PlanPublish ==
  /\ At("plan", "reconcile") /\ ~Refused
  /\ TaskDone((IF run.ph = "prepare" THEN disk ELSE disk \ {Work(run.ph, "plan")})
                \cup {Plan(run.ph)})

ApplyOpen ==
  /\ At("apply", "open") /\ ~Refused
  /\ disk' = disk \cup {Work(run.ph, "apply")}
  /\ Go("reconcile") /\ Quiet /\ UNCHANGED outcome
(* The attempt marker is on disk before terraform apply starts.            *)
ApplyRequest ==
  /\ At("apply", "reconcile") /\ ~Refused
  /\ disk' = disk \cup {Attempt(run.ph)}
  /\ Send(run.ph)
  /\ Go("applying") /\ UNCHANGED <<stages, cloud, tf, zero, outcome, spoiled>>
\* Mutant: success is recorded without waiting for the child.
ApplyReturns_Early ==
  /\ At("apply", "applying") /\ ~Refused
  /\ disk' = disk \cup {Success(run.ph)}
  /\ Go("recording") /\ Quiet /\ UNCHANGED outcome
ApplyReturns ==
  /\ At("apply", "applying") /\ run.ph \notin flight /\ ~Refused
  /\ disk' = disk \cup {Success(run.ph)}
  /\ Go("recording") /\ Quiet /\ UNCHANGED outcome
ApplyRecorded ==
  /\ At("apply", "recording")
  /\ TaskDone(disk \cup {Written(run.ph)})

PlatformOpen ==
  /\ At("platform", "open") /\ ~Refused
  /\ disk' = disk \cup {Work("grant", "reconcile")}
  /\ Go("reconcile") /\ Quiet /\ UNCHANGED outcome
PlatformReconciled ==
  /\ At("platform", "reconcile") /\ ~Refused
  /\ disk' = disk \ {Work("grant", "reconcile")}
  /\ Go("inspect") /\ Quiet /\ UNCHANGED outcome
PlatformKnown ==
  /\ At("platform", "inspect") /\ ~Refused /\ disk \cap Verdicts # {}
  /\ TaskDone(disk)
PlatformResume ==
  /\ At("platform", "inspect") /\ ~Refused
  /\ disk \cap Verdicts = {} /\ Platform("build") \in disk
  /\ Go("poll") /\ Quiet /\ UNCHANGED <<disk, outcome>>
\* Mutant: the build is started without an intent on disk.
PlatformStart_NoIntent ==
  /\ At("platform", "inspect") /\ ~Refused
  /\ disk \cap (Verdicts \cup {Platform("intent")}) = {}
  /\ Send("build")
  /\ Go("starting") /\ UNCHANGED <<disk, stages, cloud, tf, zero, outcome, spoiled>>
PlatformStart ==
  /\ At("platform", "inspect") /\ ~Refused
  /\ disk \cap (Verdicts \cup {Platform("intent")}) = {}
  /\ disk' = disk \cup {Platform("intent")}
  /\ Send("build")
  /\ Go("starting") /\ UNCHANGED <<stages, cloud, tf, zero, outcome, spoiled>>
PlatformStarted ==
  /\ At("platform", "starting") /\ "build" \notin flight
  /\ disk' = disk \cup {Platform("build")}
  /\ Go("poll") /\ Quiet /\ UNCHANGED outcome
PlatformVerdict ==
  /\ At("platform", "poll") /\ ~Refused
  /\ TaskDone(disk \cup {Platform(cloud.build)})

Refuse ==
  /\ Refused
  /\ Ends("error") /\ disk' = Tidied /\ stages' = Aborted
  /\ UNCHANGED <<cloud, flight, tf, zero, requests, spoiled>>

(* A command fails or times out, a write fails, or consent is declined: an *)
(* exception, after which the child no longer runs.  Only the first write  *)
(* of the checkpoint, the mirror, an attempt of a Vault phase or build, an  *)
(* SSM apply that has had effects, and an infrastructure script that its   *)
(* own checks would strand cannot be tried again.                          *)
PointsOfNoReturn == {"create", "copied", "listed", "applying", "recording", "starting"}
Child ==
  CASE run.at = "applying" -> {run.ph} [] run.at = "starting" -> {"build"}
    [] run.at = "creating" -> {"ops"} [] OTHER -> {}
ScriptDies == zero' = IF run.at = "provisioning" THEN [at |-> "failed", fresh |-> {}] ELSE zero
Fail ==
  /\ "error" \in Faults /\ run # Idle
  /\ Ends("failed") /\ disk' = Tidied /\ stages' = Aborted
  /\ flight' = flight \ Child /\ ScriptDies
  /\ spoiled' = \/ spoiled \/ run.at \in PointsOfNoReturn
                \/ run.at = "creating" /\ cloud.host
                \/ run.at = "provisioning" /\ ZeroStranded
  /\ UNCHANGED <<cloud, tf, requests>>

(* The process is killed: nothing is tidied, and a write under way may     *)
(* leave its temporary file.  The child dies with it, or goes on as an     *)
(* orphan, without the lock, which is not inherited.  An interrupt, and a  *)
(* failure of the last write of a stage, leave no less behind.             *)
Kill ==
  /\ run # Idle
  /\ Ends("killed")
  /\ \/ "kill" \in Faults /\ flight' = flight \ Child /\ ScriptDies
     \/ "orphan" \in Faults /\ UNCHANGED <<flight, zero>>
  /\ \/ UNCHANGED disk
     \/ run.at \in WritingPoints /\ disk' = disk \cup {Temp}
  /\ spoiled' = \/ spoiled \/ Interrupted
                \/ run.at \in PointsOfNoReturn \cup {"reconcile"}
                \/ (Temp \in disk' /\ NextCommand # "guided")
  /\ UNCHANGED <<stages, cloud, tf, requests>>

Land(request) ==
  /\ request \in flight
  /\ flight' = flight \ {request}
  /\ cloud' = CASE request = "prepare" -> [cloud EXCEPT !.runner = TRUE]
                [] request = "build" -> [cloud EXCEPT !.build = "running"]
                [] OTHER -> [cloud EXCEPT !.admin = (request = "grant")]
  /\ UNCHANGED <<disk, stages, tf, zero, run, outcome, requests, spoiled>>
BuildEnds ==
  /\ cloud.build = "running"
  /\ \E result \in {"succeeded", "failed"} : cloud' = [cloud EXCEPT !.build = result]
  /\ UNCHANGED <<disk, stages, flight, tf, zero, run, outcome, requests, spoiled>>

Step ==
  \/ Choose \/ Conclude \/ Refuse
  \/ MirrorBegin \/ MirrorManifest \/ MirrorReceipt
  \/ PlanOpen \/ PlanPublish
  \/ ApplyOpen \/ ApplyRequest \/ ApplyReturns \/ ApplyRecorded
  \/ PlatformOpen \/ PlatformReconciled \/ PlatformKnown \/ PlatformResume
  \/ PlatformStart \/ PlatformStarted \/ PlatformVerdict
Invoke(cmd) == (Start(cmd) \/ Resume(cmd)) /\ UNCHANGED requests
Earlier == (StageStep \/ ZeroRun \/ LandHost) /\ UNCHANGED requests
Next ==
  \/ \E cmd \in Commands : Invoke(cmd) \/ (Blocked(cmd) /\ UNCHANGED requests)
  \/ Earlier \/ Step \/ Fail \/ Kill \/ BuildEnds
  \/ \E request \in Requests : Land(request)
Spec == Init /\ [][Next]_vars

(* The steps of an invocation and the requests it sent go on by            *)
(* themselves; the operator does not give up the command that comes next.  *)
Fairness ==
  /\ WF_vars(StageStep /\ UNCHANGED requests) /\ WF_vars(Step)
  /\ WF_vars(ZeroRun /\ UNCHANGED requests) /\ WF_vars(LandHost /\ UNCHANGED requests)
  /\ WF_vars(BuildEnds)
  /\ \A request \in Requests : WF_vars(Land(request))
  /\ \A cmd \in Commands : SF_vars(cmd = NextCommand /\ Invoke(cmd))
FairSpec == Spec /\ Fairness

-----------------------------------------------------------------------------
TypeOK ==
  /\ disk \subseteq Files
  /\ stages \in [{"infrastructure", "ops_access", "vault"} -> Statuses]
  /\ cloud \in [made : SUBSET Infrastructure, keys : 0..2, recorder : {"foreign", "none"},
                host : BOOLEAN, runner : BOOLEAN, admin : BOOLEAN,
                build : {"none", "running", "succeeded", "failed"}]
  /\ flight \subseteq Requests \cup {"ops"}
  /\ tf \in [local : SUBSET Bootstrap, remote : SUBSET Infrastructure]
  /\ zero.fresh \subseteq Infrastructure
  /\ run.cmd \in Commands \cup {"none"} /\ run.turn \in 0..(Turns - 1)
  /\ outcome \in {"none", "error", "failed", "killed", "limit", "platform_failed", "authority_revoked"}
  /\ requests \in [Requests -> 0..2]
  /\ spoiled \in BOOLEAN

(* While the platform build runs, the grant it works under is in place:    *)
(* however invocations end, an authority is not revoked before the build   *)
(* is known to have ended (interactive_deploy.py:138-160).                 *)
AuthorityCoversBuild == cloud.build = "running" => cloud.admin

(* No apply and no build is ever sent a second time, and no second key for *)
(* the state is made, although every record of the first may be missing    *)
(* (installer_vault_authority.py:195-197, installer_vault_platform.py:91-99, *)
(* node-operator-release.sh:489-492).                                      *)
NeverRepeated ==
  /\ \A r \in Requests : requests[r] <= 1
  /\ cloud.keys <= 1

(* A record claims only what has happened, and what has happened was       *)
(* announced on disk before it could.  A bootstrap output always has one   *)
(* complete state behind it, for a continuation looks at nothing else.     *)
EvidenceIsTrue ==
  /\ stages["infrastructure"] = "complete" =>
       Infrastructure \subseteq tf.remote /\ tf.remote \subseteq cloud.made
  /\ Output \in disk => Bootstrap \subseteq tf.local \/ Bootstrap \subseteq tf.remote
  /\ stages["ops_access"] = "complete" => cloud.host /\ Session \in disk
  /\ Success("prepare") \in disk => cloud.runner
  /\ Success("grant") \in disk => cloud.admin \/ Attempt("revoke") \in disk
  /\ Success("revoke") \in disk => ~cloud.admin
  /\ \A v \in {"succeeded", "failed"} : Platform(v) \in disk => cloud.build = v
  /\ cloud.runner => Attempt("prepare") \in disk
  /\ cloud.admin => Attempt("grant") \in disk
  /\ cloud.build # "none" => Platform("intent") \in disk

(* What fails before an attempt is recorded costs nothing: once failures   *)
(* cease, an operator who keeps resuming gets the authority revoked, and   *)
(* the bound on the actions of one continuation does not keep him from it. *)
Recovers ==
  (cloud.recorder = "foreign" /\ []~spoiled /\ <>[][Fail \/ Kill => Refuse]_vars)
    => <>(Written("revoke") \in disk /\ ~cloud.admin)
=============================================================================
