------------------------- MODULE VaultPlatform_proofs -------------------------
(***************************************************************************)
(* Proofs about VaultPlatform and the two modules below it, for any bound  *)
(* on the turns of a continuation and any faults.                          *)
(***************************************************************************)
EXTENDS VaultPlatform, TLAPS

-----------------------------------------------------------------------------
(* The inductive invariant.                                                *)

(* An invocation: the command, the operation in hand and where it is.      *)
Operations == Commands \cup {"platform", "none"}
Points ==
  {"idle", "create", "note", "gate", "await", "begin", "open", "provisioning", "planned",
   "creating", "handed", "choose", "conclude", "copied", "listed", "reconcile", "applying",
   "recording", "inspect", "poll", "starting"}
Opening == {"create", "note", "gate", "await", "begin"}
Vaulted == {"copied", "listed", "reconcile", "applying", "recording", "inspect", "poll",
            "starting", "choose", "conclude"}
RunInv ==
  /\ run \in [cmd : Commands \cup {"none"}, op : Operations,
              ph : Phases \cup {"none", "start", "verify"}, at : Points, turn : 0..(Turns - 1)]
  /\ run.cmd = "none" => run = Idle
  /\ run.cmd # "none" => run.at # "idle" /\ Directory \in disk
  /\ run.cmd \notin {"guided", "none"} => run.op = run.cmd
  /\ run.cmd = "guided" => run.op \in {"guided", "mirror", "plan", "apply", "platform"}
  /\ run.cmd \in {"plan", "apply"} => run.ph = "prepare"
  /\ run.cmd \notin {"plan", "apply", "guided"} => run.ph = "none"
  /\ run.at \in Opening => run.op = run.cmd /\ run.ph \in {"none", "prepare"}
  /\ run.op \in {"plan", "apply"} => run.ph \in Phases
  /\ run.op = "platform" => run.ph \in {"start", "verify"}
  /\ run.at \in Vaulted => run.cmd \in VaultCommands
  /\ run.at \in {"choose", "conclude"} => run.cmd = "guided"
  /\ run.at \in {"create", "note"} => run.cmd \in FrontCommands \cup {"mirror"}
  /\ run.at = "await" => run.cmd \in InfraCommands \cup {"prepare_ops"}
  /\ run.at = "gate" => run.cmd \notin FrontCommands
  /\ run.at = "begin" => run.cmd \notin {"guided", "mirror", "prepare_infra"}
  /\ run.at = "provisioning" => run.cmd = "apply_infra"
  /\ run.at = "reconcile" => run.op \in {"plan", "apply", "platform"}
  /\ run.at \in {"applying", "recording"} => run.op = "apply"
  /\ run.at \in {"inspect", "poll", "starting", "conclude"} => run.op = "platform"
  /\ run.at = "conclude" => run.ph = "verify"

(* The script of the first stage: it runs only for an invocation that      *)
(* waits for it, or after one that was killed and left its stage running.  *)
Resting == {"none", "done", "failed"}
Scripts ==
  {"open", "cached", "reconcile", "copied", "bootstrap", "output", "migrate", "erase",
   "network", "review", "baseline"} \cup Resting
ScriptInv ==
  /\ zero \in [at : Scripts, fresh : SUBSET Infrastructure]
  /\ zero.at \notin Resting => stages["infrastructure"] = "running" /\ run.at \in {"idle", "provisioning"}
  /\ stages["infrastructure"] # "pending" \/ Checkpoint \in disk => Directory \in disk
  /\ run.cmd # "none" =>
       (stages["infrastructure"] = "running" <=> run.cmd = "apply_infra" /\ run.at \in {"open", "provisioning"})
  /\ zero.at \notin Applying => zero.fresh = {}

(* Terraform's states record only what was made.  The remote one has all   *)
(* of the bootstrap or none of it; the local one has it all when the       *)
(* output is written, and everything importable when the apply starts.     *)
StateInv ==
  /\ tf.local \cup tf.remote \cup zero.fresh \subseteq cloud.made
  /\ "bucket" \in tf.remote => Bootstrap \subseteq tf.remote
  /\ zero.at \in {"output", "migrate"} => Bootstrap \subseteq tf.local
  /\ zero.at = "cached" => Output \in disk
  /\ zero.at = "bootstrap" =>
       zero.fresh \subseteq Bootstrap /\ Importable \cap cloud.made \subseteq tf.local \cup zero.fresh
  /\ zero.at \in {"erase", "network", "review", "baseline", "done"} => Bootstrap \subseteq tf.remote
  /\ zero.at \in {"review", "baseline", "done"} => Network \subseteq tf.remote
  /\ zero.at = "done" => Baseline \subseteq tf.remote
  /\ "key" \notin cloud.made => cloud.keys = 0
  /\ cloud.keys <= 1
  /\ stages["infrastructure"] = "complete" => Infrastructure \subseteq tf.remote
  /\ Output \in disk => Bootstrap \subseteq tf.local \/ Bootstrap \subseteq tf.remote
HostInv == stages["ops_access"] = "complete" => cloud.host /\ Session \in disk

(* What the files say of the Vault phases and of the build.                *)
Attempted == {ph \in Phases : Attempt(ph) \in disk}
Succeeded == {ph \in Phases : Success(ph) \in disk}
Attested == {ph \in Phases : Written(ph) \in disk}
Told == {part \in {"intent", "build", "succeeded", "failed"} : Platform(part) \in disk}
vaultFiles == <<Attempted, Succeeded, Attested, Told>>
Judged == Told \cap {"succeeded", "failed"} # {}

(* A request is announced before it is sent, and sent once.                *)
RequestInv ==
  /\ requests \in [Requests -> 0..1]
  /\ \A ph \in Phases : requests[ph] = 1 \/ ph \in flight => ph \in Attempted
  /\ requests["build"] = 1 \/ "build" \in flight \/ cloud.build # "none" => "intent" \in Told
  /\ At("apply", "reconcile") => run.ph \notin Attempted
  /\ "build" \in flight => cloud.build = "none"
  /\ "build" \in Told \/ At("platform", "poll") => cloud.build # "none"
  /\ At("platform", "starting") => "build" \in flight \/ cloud.build # "none"
  /\ \A v \in {"succeeded", "failed"} : v \in Told => cloud.build = v

(* A phase is applied when its request has taken effect.                   *)
ApplyInv ==
  /\ At("apply", "applying") => run.ph \in Attempted
  /\ At("apply", "applying") /\ run.ph = "prepare" => "prepare" \in flight \/ cloud.runner
  /\ At("apply", "recording") => run.ph \in Succeeded
  /\ Attested \subseteq Succeeded /\ Succeeded \subseteq Attempted /\ Succeeded \cap flight = {}
  /\ cloud.runner => "prepare" \in Attempted
  /\ "prepare" \in Succeeded => cloud.runner

(* The authority is taken back only after the build that it is for.        *)
AuthorityInv ==
  /\ run.op = "platform" => "grant" \in Attested
  /\ run.op = "platform" /\ run.ph = "verify" => Judged
  /\ run.ph = "revoke" \/ "revoke" \in Attempted => "grant" \in Attested /\ Judged
  /\ At("platform", "inspect") => cloud.admin \/ "revoke" \in Attempted
  /\ "build" \in flight \/ cloud.build = "running" => cloud.admin
  /\ cloud.admin => "grant" \in Attempted
  /\ "grant" \in Succeeded => cloud.admin \/ "revoke" \in Attempted
  /\ "revoke" \in Succeeded => ~cloud.admin

StageInv == ScriptInv /\ StateInv /\ HostInv
VaultInv == RequestInv /\ ApplyInv /\ AuthorityInv
IndInv == TypeOK /\ RunInv /\ StageInv /\ VaultInv

-----------------------------------------------------------------------------
(* The files.                                                              *)

Records ==
  {Attempt(ph) : ph \in Phases} \cup {Success(ph) : ph \in Phases} \cup {Written(ph) : ph \in Phases}
    \cup {Platform(part) : part \in {"intent", "build", "succeeded", "failed"}}
Workspaces == {Work(ph, op) : ph \in Phases, op \in {"plan", "apply", "reconcile"}}
Others == StageFiles \cup MirrorFiles \cup {Plan(ph) : ph \in Phases} \cup Workspaces

LEMMA WorkLonger ==
  ASSUME NEW a, NEW b, NEW c, NEW d
  PROVE  Work(a, b) # <<c, d>>
BY DEF Work

LEMMA RecordsApart == Records \cap Others = {}
<1> SUFFICES ASSUME NEW f \in Records, f \in Others PROVE FALSE
  OBVIOUS
<1>1. f \notin Workspaces
  BY WorkLonger DEF Records, Workspaces, Attempt, Success, Written, Platform
<1>2. f \in StageFiles \cup MirrorFiles \cup {Plan(ph) : ph \in Phases}
  BY <1>1 DEF Others
<1>3. f[1] \in {"attempt", "success", "written", "platform"}
  BY DEF Records, Attempt, Success, Written, Platform
<1>4. f[1] \in {"state", "ops", "work", "mirror", "plan"}
  BY <1>2 DEF StageFiles, ZeroFiles, MirrorFiles, Directory, Checkpoint, Temp, OpsPlan, Session,
     Module, Disabled, LocalState, Output, Mirror, Plan
<1> QED
  BY <1>3, <1>4

(* A file of another kind says nothing of the Vault phases.                *)
LEMMA FilesKept ==
  ASSUME NEW fs \in SUBSET Others, disk' = disk \cup fs \/ disk' = disk \ fs
  PROVE  UNCHANGED vaultFiles
<1>1. \A f \in Records : f \in disk' <=> f \in disk
  BY RecordsApart
<1>2. /\ \A ph \in Phases : Attempt(ph) \in Records /\ Success(ph) \in Records /\ Written(ph) \in Records
      /\ \A part \in {"intent", "build", "succeeded", "failed"} : Platform(part) \in Records
  BY DEF Records
<1> QED
  BY <1>1, <1>2 DEF vaultFiles, Attempted, Succeeded, Attested, Told

LEMMA FileAttempted ==
  ASSUME NEW p \in Phases, disk' = disk \cup {Attempt(p)}
  PROVE  Attempted' = Attempted \cup {p} /\ UNCHANGED <<Succeeded, Attested, Told>>
BY DEF Attempted, Succeeded, Attested, Told, Attempt, Success, Written, Platform
LEMMA FileSucceeded ==
  ASSUME NEW p \in Phases, disk' = disk \cup {Success(p)}
  PROVE  Succeeded' = Succeeded \cup {p} /\ UNCHANGED <<Attempted, Attested, Told>>
BY DEF Attempted, Succeeded, Attested, Told, Attempt, Success, Written, Platform
LEMMA FileAttested ==
  ASSUME NEW p \in Phases, disk' = disk \cup {Written(p)}
  PROVE  Attested' = Attested \cup {p} /\ UNCHANGED <<Attempted, Succeeded, Told>>
BY DEF Attempted, Succeeded, Attested, Told, Attempt, Success, Written, Platform
LEMMA FileTold ==
  ASSUME NEW p \in {"intent", "build", "succeeded", "failed"}, disk' = disk \cup {Platform(p)}
  PROVE  Told' = Told \cup {p} /\ UNCHANGED <<Attempted, Succeeded, Attested>>
BY DEF Attempted, Succeeded, Attested, Told, Attempt, Success, Written, Platform

(* What decides about a turn, in these terms.                              *)
LEMMA VerdictFiles == disk \cap Verdicts # {} <=> Judged
<1>1. Verdicts = {Platform("succeeded"), Platform("failed")}
  BY DEF Verdicts
<1> QED
  BY <1>1 DEF Judged, Told
LEMMA SettledFiles ==
  ASSUME NEW ph \in Phases
  PROVE  /\ Settled(ph) => ph \in Attested
         /\ Attempt(ph) \in disk <=> ph \in Attempted
         /\ Success(ph) \in disk <=> ph \in Succeeded
         /\ Written(ph) \in disk <=> ph \in Attested
BY DEF Settled, Attempted, Succeeded, Attested

(* The records are not files of the first stages.                          *)
Landmarks == {Directory, Output, Session}
LEMMA LandmarksApart ==
  /\ Landmarks \cap (Records \cup MirrorFiles \cup {Plan(ph) : ph \in Phases} \cup Workspaces) = {}
  /\ Landmarks \cap {Checkpoint, Temp, OpsPlan, Module, Disabled, LocalState} = {}
<1>1. Landmarks \cap Records = {}
  BY RecordsApart DEF Landmarks, Others, StageFiles, ZeroFiles
<1>2. Landmarks \cap Workspaces = {}
  BY WorkLonger DEF Landmarks, Workspaces, Directory, Output, Session
<1>3. Landmarks \cap (MirrorFiles \cup {Plan(ph) : ph \in Phases}) = {}
  <2> SUFFICES ASSUME NEW f \in Landmarks, f \in MirrorFiles \cup {Plan(ph) : ph \in Phases} PROVE FALSE
    OBVIOUS
  <2>1. f[1] \in {"mirror", "plan"}
    BY DEF MirrorFiles, Mirror, Plan
  <2>2. f[1] \in {"state", "work", "ops"}
    BY DEF Landmarks, Directory, Output, Session
  <2> QED
    BY <2>1, <2>2
<1>4. Landmarks \cap {Checkpoint, Temp, OpsPlan, Module, Disabled, LocalState} = {}
  BY DEF Landmarks, Directory, Output, Session, Checkpoint, Temp, OpsPlan, Module, Disabled, LocalState
<1> QED
  BY <1>1, <1>2, <1>3, <1>4

-----------------------------------------------------------------------------
(* Invocations.                                                            *)

LEMMA RunEnds ==
  ASSUME run' = Idle
  PROVE  RunInv'
BY TurnsAssumption DEF RunInv, Idle, Commands, Operations, Points, Opening, Vaulted, VaultCommands

LEMMA RunTakes ==
  ASSUME NEW cmd \in Commands, NEW at, Takes(cmd, at), Directory \in disk',
         at \in {"create", "note", "gate"},
         at = "create" => cmd \in FrontCommands,
         at = "gate" => cmd \notin FrontCommands,
         at = "note" => cmd \in FrontCommands \cup {"mirror"}
  PROVE  RunInv' /\ run'.cmd = cmd /\ run'.at \notin Vaulted
<1> DEFINE ph == IF cmd \in {"plan", "apply"} THEN "prepare" ELSE "none"
<1>1. run' = [cmd |-> cmd, op |-> cmd, ph |-> ph, at |-> at, turn |-> 0]
  BY DEF Takes, Idle
<1>2. /\ cmd \in Operations /\ cmd \notin {"none", "platform"}
      /\ ph \in Phases \cup {"none", "start", "verify"} /\ at \in Points /\ 0 \in 0..(Turns - 1)
  BY TurnsAssumption DEF Operations, Phases, Points, Commands, FrontCommands, InfraCommands, OpsCommands, VaultCommands
<1>3. cmd = "guided" => at = "gate"
  BY DEF FrontCommands, InfraCommands
<1> QED
  BY <1>1, <1>2, <1>3 DEF RunInv, Opening, Vaulted, Phases

LEMMA RunStarts ==
  ASSUME RunInv, NEW cmd \in Commands, Start(cmd) \/ (Resume(cmd) /\ Directory \in disk)
  PROVE  RunInv' /\ run'.cmd = cmd /\ run'.at \notin Vaulted
<1>1. CASE Start(cmd)
  BY <1>1, RunTakes DEF Start
<1>2. CASE Resume(cmd) /\ Directory \in disk
  BY <1>2, RunTakes DEF Resume
<1> QED
  BY <1>1, <1>2

(* An invocation that goes on to another point of the same operation.      *)
LEMMA RunGoes ==
  ASSUME RunInv, run.cmd # "none", Directory \in disk', NEW p \in Points \ {"idle"}, Go(p),
         p \in Opening => run.at \in Opening,
         p \in Vaulted => run.cmd \in VaultCommands,
         p \in {"choose", "conclude"} => run.cmd = "guided",
         p \in {"create", "note"} => run.cmd \in FrontCommands \cup {"mirror"},
         p = "await" => run.cmd \in InfraCommands \cup {"prepare_ops"},
         p = "gate" => run.cmd \notin FrontCommands,
         p = "begin" => run.cmd \notin {"guided", "mirror", "prepare_infra"},
         p = "provisioning" => run.cmd = "apply_infra",
         p = "reconcile" => run.op \in {"plan", "apply", "platform"},
         p \in {"applying", "recording"} => run.op = "apply",
         p \in {"inspect", "poll", "starting", "conclude"} => run.op = "platform",
         p = "conclude" => run.ph = "verify"
  PROVE  RunInv' /\ run'.cmd = run.cmd /\ run'.op = run.op /\ run'.ph = run.ph /\ run'.at = p
<1>1. /\ run' = [run EXCEPT !.at = p]
      /\ run' \in [cmd : Commands \cup {"none"}, op : Operations,
              ph : Phases \cup {"none", "start", "verify"}, at : Points, turn : 0..(Turns - 1)]
      /\ run'.cmd = run.cmd /\ run'.op = run.op /\ run'.ph = run.ph /\ run'.at = p
  BY DEF RunInv, Go
<1> QED
  BY <1>1 DEF RunInv

LEMMA RunOfStages ==
  ASSUME RunInv, StageStep, Directory \in disk'
  PROVE  RunInv' /\ (run'.at \in Vaulted => run'.at = "choose")
<1>1. run.at = "idle" => run.cmd = "none"
  BY DEF RunInv
<1>2. run.cmd = "none" => run.at = "idle" /\ run.op = "none"
  BY DEF RunInv, Idle
<1>3. run.cmd # "none"
  BY <1>2 DEF StageStep, CreateCheckpoint, Note, PassGate, InfraPrepared, OpsPrepared, Begin,
     InfraRequest, InfraReturns, OpsPlans, OpsPlanned, OpsRequest, OpsHandoff, OpsApplied,
     OpsVerified, At, InfraCommands
<1>4. CASE run' = Idle
  BY <1>4, RunEnds DEF Idle, Vaulted
<1>5. CASE CreateCheckpoint
  BY <1>3, <1>5, RunGoes DEF CreateCheckpoint, RunInv, Opening, Vaulted, Points
<1>6. CASE Note /\ run' # Idle
  <2>1. run.cmd \notin {"discover", "mirror"} => run.cmd \in InfraCommands
    BY <1>6 DEF Note, RunInv, FrontCommands
  <2>2. (Go("gate") /\ run.cmd = "mirror") \/ (Go("await") /\ run.cmd \in InfraCommands)
    <3>1. run.cmd # "discover"
      BY <1>6 DEF Note, Ends
    <3>2. CASE run.cmd = "mirror"
      BY <1>6, <3>2 DEF Note
    <3>3. CASE run.cmd # "mirror"
      <4>1. Go("await")
        BY <1>6, <3>1, <3>3 DEF Note
      <4> QED
        BY <2>1, <3>1, <3>3, <4>1
    <3> QED
      BY <3>2, <3>3
  <2>3. run.cmd = "mirror" => run.cmd \notin FrontCommands
    BY DEF FrontCommands, InfraCommands
  <2>4. run.cmd \in InfraCommands => run.cmd # "mirror"
    BY DEF InfraCommands
  <2> QED
    BY <1>3, <1>6, <2>2, <2>3, RunGoes DEF Note, Opening, Vaulted, Points
<1>7. CASE PassGate
  <2>1. /\ run.at = "gate" /\ (run.at \in Opening) /\ run.op = run.cmd
        /\ run.cmd # "prepare_infra"
    BY <1>7 DEF PassGate, Opening, RunInv, FrontCommands, InfraCommands
  <2>2. \/ run.cmd = "guided" /\ Go("choose")
        \/ run.cmd = "mirror" /\ Go("open")
        \/ run.cmd = "prepare_ops" /\ Go("await")
        \/ run.cmd \notin {"guided", "mirror"} /\ Go("begin")
    BY <1>7 DEF PassGate
  <2> QED
    BY <1>3, <2>1, <2>2, RunGoes DEF Opening, Vaulted, Points, VaultCommands
<1>8. CASE InfraPrepared /\ run' # Idle
  <2>1. Go("begin") /\ run.at = "await" /\ run.cmd = "apply_infra"
    BY <1>8 DEF InfraPrepared, Ends
  <2> QED
    BY <1>3, <2>1, RunGoes DEF Opening, Vaulted, Points, InfraCommands
<1>9. CASE Begin
  BY <1>3, <1>9, RunGoes DEF Begin, Opening, Vaulted, Points
<1>10. CASE InfraRequest
  <2>1. run.cmd = "apply_infra"
    BY <1>3, <1>10 DEF InfraRequest, At, RunInv
  <2> QED
    BY <1>3, <1>10, <2>1, RunGoes DEF InfraRequest, Opening, Vaulted, Points
<1>11. CASE OpsPlans \/ OpsRequest \/ OpsHandoff
  BY <1>3, <1>11, RunGoes DEF OpsPlans, OpsRequest, OpsHandoff, Opening, Vaulted, Points
<1>12. InfraReturns \/ OpsPrepared \/ OpsPlanned \/ OpsApplied \/ OpsVerified => run' = Idle
  BY DEF InfraReturns, OpsPrepared, OpsPlanned, OpsApplied, OpsVerified, Close, Ends
<1> QED
  BY <1>4, <1>5, <1>6, <1>7, <1>8, <1>9, <1>10, <1>11, <1>12 DEF StageStep

(* What the guided continuation may turn to.                               *)
Tasks ==
  {<<"mirror", "none">>} \cup {<<op, ph>> : op \in {"plan", "apply"}, ph \in {"prepare", "grant"}}
    \cup {<<"platform", "start">>, <<"platform", "verify">>}
LEMMA GuidedTasks ==
  /\ GuidedTask \in Tasks
  /\ GuidedTask[1] = "platform" => "grant" \in Attested
  /\ GuidedTask = <<"platform", "verify">> => Judged
<1>1. \A ph \in Phases : Owed(ph) = <<"apply", ph>> \/ Owed(ph) = <<"plan", ph>>
  BY DEF Owed
<1>2. CASE Mirror("receipt") \notin disk
  BY <1>2 DEF GuidedTask, Tasks
<1>3. CASE Mirror("receipt") \in disk /\ ~Settled("prepare")
  <2>1. GuidedTask = Owed("prepare")
    BY <1>3 DEF GuidedTask
  <2> QED
    BY <1>1, <2>1 DEF Tasks, Phases
<1>4. CASE Mirror("receipt") \in disk /\ Settled("prepare") /\ ~Settled("grant")
  <2>1. GuidedTask = Owed("grant")
    BY <1>4 DEF GuidedTask
  <2> QED
    BY <1>1, <2>1 DEF Tasks, Phases
<1>5. CASE Mirror("receipt") \in disk /\ Settled("prepare") /\ Settled("grant")
  <2>1. GuidedTask = <<"platform", IF disk \cap Verdicts = {} THEN "start" ELSE "verify">>
    BY <1>5 DEF GuidedTask
  <2>2. "grant" \in Attested
    BY <1>5, SettledFiles DEF Phases
  <2> QED
    BY <2>1, <2>2, VerdictFiles DEF Tasks
<1> QED
  BY <1>2, <1>3, <1>4, <1>5

(* The end of a task: of the invocation, of a turn, or of the flow.        *)
Onward ==
  \/ run' = Idle
  \/ run'.at \in {"choose", "conclude"} /\ run'.op = run.op /\ run'.ph = run.ph
LEMMA RunTaskDone ==
  ASSUME RunInv, NEW files, Directory \in files, TaskDone(files), run.cmd # "none", run.at \notin Opening,
         run.op \in {"mirror", "plan", "apply", "platform"}
  PROVE  /\ RunInv'
         /\ Onward
<1> USE DEF Onward
<1>1. CASE run' = Idle
  BY <1>1, RunEnds
<1>2. CASE run' # Idle
  <2>1. disk' = files /\ run.cmd = "guided"
    BY <1>2 DEF TaskDone, Ends
  <2>2. \/ run.op = "platform" /\ run.ph = "verify" /\ Go("conclude")
        \/ run.turn + 1 # Turns /\ run' = [run EXCEPT !.at = "choose", !.turn = run.turn + 1]
    BY <1>2, <2>1 DEF TaskDone, Ends
  <2>3. CASE run.op = "platform" /\ run.ph = "verify" /\ Go("conclude")
    BY <2>1, <2>3, RunGoes DEF Points, Opening, VaultCommands
  <2>4. CASE run.turn + 1 # Turns /\ run' = [run EXCEPT !.at = "choose", !.turn = run.turn + 1]
    <3>1. /\ run' \in [cmd : Commands \cup {"none"}, op : Operations,
              ph : Phases \cup {"none", "start", "verify"}, at : Points, turn : 0..(Turns - 1)]
          /\ run'.cmd = run.cmd /\ run'.op = run.op /\ run'.ph = run.ph /\ run'.at = "choose"
      <4>1. run.turn \in 0..(Turns - 1) => run.turn + 1 \in 0..(Turns - 1)
        BY <2>4, TurnsAssumption
      <4> QED
        BY <2>4, <4>1 DEF RunInv, Points
    <3> QED
      BY <2>1, <3>1 DEF RunInv, Opening, Vaulted, VaultCommands
  <2> QED
    BY <2>2, <2>3, <2>4
<1> QED
  BY <1>1, <1>2

-----------------------------------------------------------------------------
(* The Vault phases.                                                       *)

(* Where an invocation relies on nothing but what the files say.           *)
Relies ==
  \/ run.op = "apply" /\ run.at \in {"reconcile", "applying", "recording"}
  \/ run.op = "platform" /\ run.at \in {"inspect", "poll", "starting"}
Entitled ==
  /\ run.op = "platform" => "grant" \in Attested
  /\ run.op = "platform" /\ run.ph = "verify" => Judged
  /\ run.ph = "revoke" => "grant" \in Attested /\ Judged

(* A step that changes no record, sends nothing and has no effect, and     *)
(* whose child may die.                                                    *)
LEMMA VaultKept ==
  ASSUME VaultInv, UNCHANGED <<vaultFiles, requests>>, flight' \cap Requests \subseteq flight,
         UNCHANGED <<cloud.runner, cloud.admin, cloud.build>>,
         Entitled', Relies' => run' = run /\ flight' \cap Requests = flight \cap Requests
  PROVE  VaultInv'
<1>1. UNCHANGED <<Attempted, Succeeded, Attested, Told, Judged>>
  BY DEF vaultFiles, Judged
<1>2. \A ph \in Phases : ph \in Requests
  BY DEF Requests
<1>3. Attempted \subseteq Phases /\ Succeeded \subseteq Phases /\ "build" \in Requests
  BY DEF Attempted, Succeeded, Requests
<1>4. RequestInv'
  BY <1>1, <1>2, <1>3 DEF VaultInv, RequestInv, Relies, At
<1>5. ApplyInv'
  BY <1>1, <1>2, <1>3 DEF VaultInv, ApplyInv, Relies, At, Phases
<1>6. AuthorityInv'
  BY <1>1, <1>2, <1>3 DEF VaultInv, AuthorityInv, Relies, Entitled, At
<1> QED
  BY <1>4, <1>5, <1>6 DEF VaultInv

LEMMA VaultEntitled ==
  ASSUME VaultInv
  PROVE  Entitled
BY DEF VaultInv, AuthorityInv, Entitled

(* The records only grow.                                                  *)
LEMMA EntitledStays ==
  ASSUME Entitled, "grant" \in Attested => "grant" \in Attested', Judged => Judged',
         \/ run' = Idle
         \/ run'.op = run.op /\ run'.ph = run.ph
         \/ run'.op # "platform" /\ run'.ph # "revoke"
  PROVE  Entitled'
BY DEF Entitled, Idle

(* The steps that leave the records and the requests alone.                *)
LEMMA VaultChoose ==
  ASSUME RunInv, VaultInv, Choose
  PROVE  RunInv' /\ VaultInv'
<1>1. /\ run.cmd = "guided" /\ Directory \in disk /\ disk' = disk
      /\ run' = [run EXCEPT !.op = GuidedTask[1], !.ph = GuidedTask[2], !.at = "open"]
  BY DEF Choose, RunInv, Do
<1>2. /\ GuidedTask \in Tasks
      /\ GuidedTask[1] = "platform" => "grant" \in Attested
      /\ GuidedTask = <<"platform", "verify">> => Judged
  BY GuidedTasks
<1>3. PICK op, ph : GuidedTask = <<op, ph>> /\ GuidedTask[1] = op /\ GuidedTask[2] = ph
  BY <1>2 DEF Tasks
<1>4. \/ op = "mirror" /\ ph = "none"
      \/ op \in {"plan", "apply"} /\ ph \in {"prepare", "grant"}
      \/ op = "platform" /\ ph \in {"start", "verify"}
  BY <1>2, <1>3 DEF Tasks
<1>5. /\ run'.cmd = "guided" /\ run'.op = op /\ run'.ph = ph /\ run'.at = "open"
      /\ run' \in [cmd : Commands \cup {"none"}, op : Operations,
              ph : Phases \cup {"none", "start", "verify"}, at : Points, turn : 0..(Turns - 1)]
  <2>1. op \in Operations /\ ph \in Phases \cup {"none", "start", "verify"} /\ "open" \in Points
    BY <1>4 DEF Operations, Points, Phases, Commands, VaultCommands
  <2> QED
    BY <1>1, <1>3, <2>1 DEF RunInv
<1>6. RunInv'
  BY <1>1, <1>4, <1>5 DEF RunInv, Opening, Vaulted, Phases
<1>7. UNCHANGED vaultFiles
  BY <1>1 DEF vaultFiles, Attempted, Succeeded, Attested, Told
<1>8. Entitled'
  BY <1>2, <1>3, <1>4, <1>5, <1>7 DEF Entitled, vaultFiles, Judged
<1> QED
  BY <1>5, <1>6, <1>7, <1>8, VaultKept DEF Choose, Quiet, Relies

LEMMA VaultConclude ==
  ASSUME RunInv, VaultInv, Conclude
  PROVE  RunInv' /\ VaultInv'
<1>1. UNCHANGED vaultFiles
  BY DEF Conclude, vaultFiles, Attempted, Succeeded, Attested, Told
<1>2. CASE Ends("authority_revoked")
  BY <1>1, <1>2, RunEnds, VaultKept DEF Conclude, Quiet, Ends, Entitled, Relies, Idle
<1>3. CASE ~Settled("revoke")
  <2>1. /\ run.cmd = "guided" /\ Directory \in disk' /\ run.op = "platform" /\ run.ph = "verify"
        /\ run' = [run EXCEPT !.op = Owed("revoke")[1], !.ph = Owed("revoke")[2], !.at = "open"]
    BY <1>3 DEF Conclude, RunInv, Do
  <2>2. PICK op \in {"plan", "apply"} : Owed("revoke")[1] = op /\ Owed("revoke")[2] = "revoke"
    BY DEF Owed
  <2>3. /\ run'.cmd = "guided" /\ run'.op = op /\ run'.ph = "revoke" /\ run'.at = "open"
        /\ run' \in [cmd : Commands \cup {"none"}, op : Operations,
              ph : Phases \cup {"none", "start", "verify"}, at : Points, turn : 0..(Turns - 1)]
    BY <2>1, <2>2 DEF RunInv, Operations, Points, Phases, Commands, VaultCommands
  <2>4. RunInv'
    BY <2>1, <2>2, <2>3 DEF RunInv, Opening, Vaulted, Phases
  <2>5. Entitled'
    BY <1>1, <2>1, <2>2, <2>3, VaultEntitled DEF Entitled, vaultFiles, Judged
  <2> QED
    BY <1>1, <2>3, <2>4, <2>5, VaultKept DEF Conclude, Quiet, Relies
<1> QED
  BY <1>2, <1>3 DEF Conclude

(* The files that a step of the Vault phases adds or removes.              *)
LEMMA OtherFiles ==
  /\ \A p \in {"marker", "manifest", "receipt"} : {Mirror(p)} \subseteq Others
  /\ \A ph \in Phases : {Plan(ph)} \subseteq Others
  /\ \A ph \in Phases, op \in {"plan", "apply", "reconcile"} : {Work(ph, op)} \subseteq Others
  /\ {Temp} \subseteq Others /\ {} \subseteq Others
BY DEF Others, MirrorFiles, Workspaces, StageFiles

LEMMA VaultMirror ==
  ASSUME RunInv, VaultInv, MirrorBegin \/ MirrorManifest \/ MirrorReceipt
  PROVE  RunInv' /\ VaultInv'
<1>1. run.cmd # "none" /\ run.op = "mirror" /\ Directory \in disk /\ run.cmd \in VaultCommands
  BY DEF MirrorBegin, MirrorManifest, MirrorReceipt, At, RunInv, Idle, VaultCommands
<1>2. PICK p \in {"marker", "manifest", "receipt"} : disk' = disk \cup {Mirror(p)}
  BY DEF MirrorBegin, MirrorManifest, MirrorReceipt, TaskDone
<1>3. Directory \in disk' /\ UNCHANGED vaultFiles
  BY <1>1, <1>2, FilesKept, OtherFiles
<1>4. CASE MirrorReceipt
  <2>1. run.at = "listed" /\ TaskDone(disk \cup {Mirror("receipt")}) /\ Directory \in disk \cup {Mirror("receipt")}
    BY <1>1, <1>4 DEF MirrorReceipt, At
  <2>2. RunInv' /\ Onward
    BY <1>1, <2>1, RunTaskDone DEF Opening
  <2>3. Entitled'
    BY <1>3, <2>2, VaultEntitled, EntitledStays DEF vaultFiles, Judged, Onward
  <2> QED
    BY <1>3, <2>1, <2>2, <2>3, VaultKept DEF TaskDone, Relies, Idle, Onward
<1>5. CASE MirrorBegin \/ MirrorManifest
  <2>1. PICK q \in {"copied", "listed"} : Go(q)
    BY <1>5 DEF MirrorBegin, MirrorManifest
  <2>2. RunInv' /\ run'.op = run.op /\ run'.ph = run.ph /\ run'.at = q
    BY <1>1, <1>3, <2>1, RunGoes DEF Points, Opening, Vaulted
  <2>3. Entitled'
    BY <1>3, <2>2, VaultEntitled, EntitledStays DEF vaultFiles, Judged, Onward
  <2> QED
    BY <1>1, <1>3, <1>5, <2>2, <2>3, VaultKept DEF MirrorBegin, MirrorManifest, Quiet, Relies
<1> QED
  BY <1>4, <1>5

LEMMA VaultPlans ==
  ASSUME RunInv, VaultInv, PlanOpen \/ PlanPublish
  PROVE  RunInv' /\ VaultInv'
<1>1. /\ run.cmd # "none" /\ run.op = "plan" /\ Directory \in disk /\ run.cmd \in VaultCommands
      /\ run.ph \in Phases
  BY DEF PlanOpen, PlanPublish, At, RunInv, Idle, VaultCommands
<1>2. CASE PlanOpen
  <2>1. Directory \in disk' /\ UNCHANGED vaultFiles
    BY <1>1, <1>2, FilesKept, OtherFiles DEF PlanOpen
  <2>2. RunInv' /\ run'.op = run.op /\ run'.ph = run.ph /\ run'.at = "reconcile"
    BY <1>1, <1>2, <2>1, RunGoes DEF PlanOpen, Points, Opening, Vaulted
  <2>3. Entitled'
    BY <2>1, <2>2, VaultEntitled, EntitledStays DEF vaultFiles, Judged, Onward
  <2> QED
    BY <1>1, <1>2, <2>1, <2>2, <2>3, VaultKept DEF PlanOpen, Quiet, Relies
<1>3. CASE PlanPublish
  <2> DEFINE fs == (IF run.ph = "prepare" THEN disk ELSE disk \ {Work(run.ph, "plan")}) \cup {Plan(run.ph)}
  <2>1. run.at = "reconcile" /\ TaskDone(fs) /\ disk' = fs
    BY <1>3 DEF PlanPublish, TaskDone, At
  <2>2. Directory \in fs
    <3>1. Directory # Work(run.ph, "plan")
      BY WorkLonger DEF Directory
    <3> QED
      BY <1>1, <3>1
  <2>3. UNCHANGED vaultFiles
    <3>1. \A f \in Records : f \in disk' <=> f \in disk
      BY <1>1, <2>1, OtherFiles, RecordsApart
    <3>2. /\ \A ph \in Phases : Attempt(ph) \in Records /\ Success(ph) \in Records /\ Written(ph) \in Records
          /\ \A part \in {"intent", "build", "succeeded", "failed"} : Platform(part) \in Records
      BY DEF Records
    <3> QED
      BY <3>1, <3>2 DEF vaultFiles, Attempted, Succeeded, Attested, Told
  <2> HIDE DEF fs
  <2>4. RunInv' /\ Onward
    BY <1>1, <2>1, <2>2, RunTaskDone DEF Opening
  <2>5. Entitled'
    BY <2>3, <2>4, VaultEntitled, EntitledStays DEF vaultFiles, Judged, Onward
  <2> QED
    BY <2>1, <2>3, <2>4, <2>5, VaultKept DEF TaskDone, Relies, Idle, Onward
<1> QED
  BY <1>2, <1>3

LEMMA ApplyOp ==
  ASSUME RunInv, run.op = "apply", run.at \notin Opening
  PROVE  run.cmd # "none" /\ Directory \in disk /\ run.cmd \in VaultCommands /\ run.ph \in Phases
BY DEF RunInv, Idle, VaultCommands

LEMMA VaultApplyOpen ==
  ASSUME RunInv, VaultInv, ApplyOpen
  PROVE  RunInv' /\ VaultInv'
<1>1. /\ run.cmd # "none" /\ run.op = "apply" /\ Directory \in disk /\ run.cmd \in VaultCommands
      /\ run.ph \in Phases
  BY ApplyOp DEF ApplyOpen, At, Opening
<1>2. Directory \in disk' /\ UNCHANGED vaultFiles
  BY <1>1, FilesKept, OtherFiles DEF ApplyOpen
<1>3. RunInv' /\ run'.op = run.op /\ run'.ph = run.ph /\ run'.at = "reconcile"
  BY <1>1, <1>2, RunGoes DEF ApplyOpen, Points, Opening, Vaulted
<1>4. run.ph \notin Attempted
  BY <1>1, SettledFiles DEF ApplyOpen, Refused, ApplyRefused
<1>5. UNCHANGED <<flight, requests, cloud, Attempted, Succeeded, Attested, Told, Judged>>
  BY <1>2 DEF ApplyOpen, Quiet, vaultFiles, Judged
<1> QED
  BY <1>1, <1>3, <1>4, <1>5 DEF VaultInv, RequestInv, ApplyInv, AuthorityInv, At

(* The request of an apply: its marker is on disk, and was not before.     *)
LEMMA VaultApplyRequest ==
  ASSUME TypeOK, RunInv, VaultInv, ApplyRequest
  PROVE  RunInv' /\ VaultInv'
<1>1. /\ run.cmd # "none" /\ run.op = "apply" /\ Directory \in disk /\ run.cmd \in VaultCommands
      /\ run.ph \in Phases /\ run.at = "reconcile"
  BY ApplyOp DEF ApplyRequest, At, Opening
<1>2. /\ Directory \in disk' /\ Attempted' = Attempted \cup {run.ph}
      /\ UNCHANGED <<Succeeded, Attested, Told, Judged>>
  BY <1>1, FileAttempted DEF ApplyRequest, Judged
<1>3. RunInv' /\ run'.op = run.op /\ run'.ph = run.ph /\ run'.at = "applying"
  BY <1>1, <1>2, RunGoes DEF ApplyRequest, Points, Opening, Vaulted
<1>4. run.ph \notin Attempted /\ requests \in [Requests -> 0..1] /\ run.ph \in Requests
  BY <1>1 DEF VaultInv, RequestInv, At, Requests
<1>5. requests[run.ph] = 0 /\ run.ph # "build"
  BY <1>1, <1>4 DEF VaultInv, RequestInv, Phases
<1>6. /\ flight' = flight \cup {run.ph} /\ UNCHANGED cloud
      /\ requests' = [requests EXCEPT ![run.ph] = 1]
  BY <1>4, <1>5 DEF ApplyRequest, Send
<1>7. RequestInv'
  BY <1>1, <1>2, <1>3, <1>4, <1>5, <1>6 DEF VaultInv, RequestInv, At, Requests, Phases
<1>8. ApplyInv'
  BY <1>1, <1>2, <1>3, <1>4, <1>6 DEF VaultInv, ApplyInv, At
<1>9. AuthorityInv'
  BY <1>1, <1>2, <1>3, <1>5, <1>6 DEF VaultInv, AuthorityInv, At
<1> QED
  BY <1>3, <1>7, <1>8, <1>9 DEF VaultInv

(* The success of an apply is recorded when its request has taken effect,  *)
(* and a grant or revocation only on the composition it must leave.        *)
LEMMA VaultApplyReturns ==
  ASSUME TypeOK, RunInv, VaultInv, ApplyReturns
  PROVE  RunInv' /\ VaultInv'
<1>1. /\ run.cmd # "none" /\ run.op = "apply" /\ Directory \in disk /\ run.cmd \in VaultCommands
      /\ run.ph \in Phases /\ run.at = "applying" /\ run.ph \notin flight
  BY ApplyOp DEF ApplyReturns, At, Opening
<1>2. /\ Directory \in disk' /\ Succeeded' = Succeeded \cup {run.ph}
      /\ UNCHANGED <<Attempted, Attested, Told, Judged>>
  BY <1>1, FileSucceeded DEF ApplyReturns, Judged
<1>3. RunInv' /\ run'.op = run.op /\ run'.ph = run.ph /\ run'.at = "recording"
  BY <1>1, <1>2, RunGoes DEF ApplyReturns, Points, Opening, Vaulted
<1>4. run.ph # "prepare" => cloud.admin = (run.ph = "grant")
  BY <1>1 DEF ApplyReturns, Refused, Clean, Expected, After
<1>5. UNCHANGED <<flight, requests, cloud>> /\ run.ph \in Attempted
  BY <1>1 DEF ApplyReturns, Quiet, VaultInv, ApplyInv, At
<1>6. run.ph = "prepare" => cloud.runner
  BY <1>1 DEF VaultInv, ApplyInv, At
<1>7. RequestInv'
  BY <1>1, <1>2, <1>3, <1>5 DEF VaultInv, RequestInv, At
<1>8. ApplyInv'
  BY <1>1, <1>2, <1>3, <1>5, <1>6 DEF VaultInv, ApplyInv, At
<1>9. AuthorityInv'
  BY <1>1, <1>2, <1>3, <1>4, <1>5 DEF VaultInv, AuthorityInv, At
<1> QED
  BY <1>3, <1>7, <1>8, <1>9 DEF VaultInv

LEMMA VaultApplyRecorded ==
  ASSUME RunInv, VaultInv, ApplyRecorded
  PROVE  RunInv' /\ VaultInv'
<1>1. /\ run.cmd # "none" /\ run.op = "apply" /\ Directory \in disk \cup {Written(run.ph)}
      /\ run.ph \in Phases /\ run.at = "recording" /\ TaskDone(disk \cup {Written(run.ph)})
  BY ApplyOp DEF ApplyRecorded, At, Opening
<1>2. /\ Attested' = Attested \cup {run.ph} /\ UNCHANGED <<Attempted, Succeeded, Told, Judged>>
  BY <1>1, FileAttested DEF TaskDone, Judged
<1>3. RunInv' /\ Onward
  BY <1>1, RunTaskDone DEF Opening
<1>4. UNCHANGED <<flight, requests, cloud>> /\ run.ph \in Succeeded
  BY <1>1 DEF TaskDone, VaultInv, ApplyInv, At
<1>5. RequestInv'
  BY <1>1, <1>2, <1>3, <1>4 DEF VaultInv, RequestInv, At, Onward, Idle
<1>6. ApplyInv'
  BY <1>1, <1>2, <1>3, <1>4 DEF VaultInv, ApplyInv, At, Onward, Idle
<1>7. AuthorityInv'
  BY <1>1, <1>2, <1>3, <1>4 DEF VaultInv, AuthorityInv, At, Onward, Idle
<1> QED
  BY <1>3, <1>5, <1>6, <1>7 DEF VaultInv

LEMMA PlatformOp ==
  ASSUME RunInv, run.op = "platform", run.at \notin Opening
  PROVE  run.cmd # "none" /\ Directory \in disk /\ run.cmd \in VaultCommands /\ run.ph \in {"start", "verify"}
BY DEF RunInv, Idle, VaultCommands

(* A build is asked for only when the grant is found in place, and nothing *)
(* can take it back before the build has a verdict.                        *)
LEMMA VaultPlatformLooks ==
  ASSUME RunInv, VaultInv, PlatformOpen \/ PlatformReconciled
  PROVE  RunInv' /\ VaultInv'
<1>1. /\ run.cmd # "none" /\ run.op = "platform" /\ Directory \in disk /\ run.cmd \in VaultCommands
      /\ run.at \notin Opening
  BY PlatformOp DEF PlatformOpen, PlatformReconciled, At, Opening
<1>2. disk' = disk \cup {Work("grant", "reconcile")} \/ disk' = disk \ {Work("grant", "reconcile")}
  BY DEF PlatformOpen, PlatformReconciled
<1>3. Directory # Work("grant", "reconcile") /\ {Work("grant", "reconcile")} \subseteq Others
  BY WorkLonger, OtherFiles DEF Directory, Phases
<1>4. Directory \in disk' /\ UNCHANGED vaultFiles
  BY <1>1, <1>2, <1>3, FilesKept
<1>5. /\ RunInv' /\ run'.op = run.op /\ run'.ph = run.ph
      /\ PlatformOpen => run'.at = "reconcile"
      /\ PlatformReconciled => run'.at = "inspect"
  <2>1. CASE PlatformOpen
    BY <1>1, <1>4, <2>1, RunGoes DEF PlatformOpen, PlatformReconciled, At, Points, Opening, Vaulted
  <2>2. CASE PlatformReconciled
    BY <1>1, <1>4, <2>2, RunGoes DEF PlatformOpen, PlatformReconciled, At, Points, Opening, Vaulted
  <2> QED
    BY <2>1, <2>2
<1>6. PlatformReconciled => cloud.admin
  BY DEF PlatformReconciled, At, Refused, Clean, Expected, After
<1>7. UNCHANGED <<flight, requests, cloud, Attempted, Succeeded, Attested, Told, Judged>>
  BY <1>4 DEF PlatformOpen, PlatformReconciled, Quiet, vaultFiles, Judged
<1> QED
  BY <1>1, <1>5, <1>6, <1>7 DEF VaultInv, RequestInv, ApplyInv, AuthorityInv, At

LEMMA VaultPlatformKnown ==
  ASSUME RunInv, VaultInv, PlatformKnown \/ PlatformResume
  PROVE  RunInv' /\ VaultInv'
<1>1. /\ run.cmd # "none" /\ run.op = "platform" /\ Directory \in disk /\ run.cmd \in VaultCommands
      /\ run.at = "inspect" /\ disk' = disk
  BY PlatformOp DEF PlatformKnown, PlatformResume, TaskDone, At, Opening
<1>2. UNCHANGED vaultFiles
  BY <1>1 DEF vaultFiles, Attempted, Succeeded, Attested, Told
<1>3. CASE PlatformKnown
  <2>1. RunInv' /\ Onward
    BY <1>1, <1>3, RunTaskDone DEF PlatformKnown, Opening
  <2>2. Entitled'
    BY <1>2, <2>1, VaultEntitled, EntitledStays DEF vaultFiles, Judged, Onward
  <2> QED
    BY <1>2, <1>3, <2>1, <2>2, VaultKept DEF PlatformKnown, TaskDone, Relies, Idle, Onward
<1>4. CASE PlatformResume
  <2>1. RunInv' /\ run'.op = run.op /\ run'.ph = run.ph /\ run'.at = "poll"
    BY <1>1, <1>4, RunGoes DEF PlatformResume, Points, Opening, Vaulted
  <2>2. "build" \in Told
    BY <1>4 DEF PlatformResume, Told
  <2>3. UNCHANGED <<flight, requests, cloud, Attempted, Succeeded, Attested, Told, Judged>>
    BY <1>2, <1>4 DEF PlatformResume, Quiet, vaultFiles, Judged
  <2> QED
    BY <1>1, <2>1, <2>2, <2>3 DEF VaultInv, RequestInv, ApplyInv, AuthorityInv, At
<1> QED
  BY <1>3, <1>4

LEMMA VaultPlatformStart ==
  ASSUME TypeOK, RunInv, VaultInv, PlatformStart
  PROVE  RunInv' /\ VaultInv'
<1>1. /\ run.cmd # "none" /\ run.op = "platform" /\ Directory \in disk /\ run.cmd \in VaultCommands
      /\ run.at = "inspect"
  BY PlatformOp DEF PlatformStart, At, Opening
<1>2. "intent" \notin Told /\ ~Judged
  BY VerdictFiles DEF PlatformStart, Told
<1>3. /\ Directory \in disk' /\ Told' = Told \cup {"intent"}
      /\ UNCHANGED <<Attempted, Succeeded, Attested, Judged>>
  BY <1>1, FileTold DEF PlatformStart, Judged
<1>4. RunInv' /\ run'.op = run.op /\ run'.ph = run.ph /\ run'.at = "starting"
  BY <1>1, <1>3, RunGoes DEF PlatformStart, Points, Opening, Vaulted
<1>5. /\ requests \in [Requests -> 0..1] /\ "build" \in Requests
      /\ requests["build"] = 0 /\ cloud.build = "none" /\ cloud.admin
  BY <1>1, <1>2 DEF VaultInv, RequestInv, AuthorityInv, At, Requests
<1>6. /\ flight' = flight \cup {"build"} /\ UNCHANGED cloud
      /\ requests' = [requests EXCEPT !["build"] = 1]
  BY <1>5 DEF PlatformStart, Send
<1>7. RequestInv'
  BY <1>1, <1>2, <1>3, <1>4, <1>5, <1>6 DEF VaultInv, RequestInv, At, Requests, Phases
<1>8. ApplyInv'
  <2>1. "build" \notin Phases /\ Succeeded \subseteq Phases
    BY DEF Phases, Succeeded
  <2> QED
    BY <1>1, <1>3, <1>4, <1>6, <2>1 DEF VaultInv, ApplyInv, At
<1>9. AuthorityInv'
  BY <1>1, <1>3, <1>4, <1>5, <1>6 DEF VaultInv, AuthorityInv, At
<1> QED
  BY <1>4, <1>7, <1>8, <1>9 DEF VaultInv

LEMMA VaultPlatformStarted ==
  ASSUME RunInv, VaultInv, PlatformStarted
  PROVE  RunInv' /\ VaultInv'
<1>1. /\ run.cmd # "none" /\ run.op = "platform" /\ Directory \in disk /\ run.cmd \in VaultCommands
      /\ run.at = "starting"
  BY PlatformOp DEF PlatformStarted, At, Opening
<1>2. /\ Directory \in disk' /\ Told' = Told \cup {"build"}
      /\ UNCHANGED <<Attempted, Succeeded, Attested, Judged>>
  BY <1>1, FileTold DEF PlatformStarted, Judged
<1>3. RunInv' /\ run'.op = run.op /\ run'.ph = run.ph /\ run'.at = "poll"
  BY <1>1, <1>2, RunGoes DEF PlatformStarted, Points, Opening, Vaulted
<1>4. UNCHANGED <<flight, requests, cloud>> /\ cloud.build # "none"
  BY DEF PlatformStarted, Quiet, VaultInv, RequestInv, At
<1> QED
  BY <1>1, <1>2, <1>3, <1>4 DEF VaultInv, RequestInv, ApplyInv, AuthorityInv, At

LEMMA VaultPlatformVerdict ==
  ASSUME TypeOK, RunInv, VaultInv, PlatformVerdict
  PROVE  RunInv' /\ VaultInv'
<1>1. /\ run.cmd # "none" /\ run.op = "platform" /\ run.at = "poll" /\ Directory \in disk
      /\ TaskDone(disk \cup {Platform(cloud.build)})
  BY PlatformOp DEF PlatformVerdict, At, Opening
<1>2. cloud.build \in {"succeeded", "failed"}
  BY DEF TypeOK, PlatformVerdict, Refused, StillRunning, At, VaultInv, RequestInv
<1>3. /\ Told' = Told \cup {cloud.build} /\ UNCHANGED <<Attempted, Succeeded, Attested>>
  BY <1>1, <1>2, FileTold DEF TaskDone
<1>4. RunInv' /\ Onward
  BY <1>1, RunTaskDone DEF Opening
<1>5. UNCHANGED <<flight, requests, cloud>> /\ Judged'
  BY <1>1, <1>2, <1>3 DEF TaskDone, Judged
<1>6. RequestInv'
  BY <1>1, <1>2, <1>3, <1>4, <1>5 DEF VaultInv, RequestInv, At, Onward, Idle
<1>7. ApplyInv'
  BY <1>1, <1>3, <1>4, <1>5 DEF VaultInv, ApplyInv, At, Onward, Idle
<1>8. AuthorityInv'
  BY <1>1, <1>3, <1>4, <1>5 DEF VaultInv, AuthorityInv, At, Onward, Idle
<1> QED
  BY <1>4, <1>6, <1>7, <1>8 DEF VaultInv

(* An invocation that ends in the middle: an exception removes at most its *)
(* own workspace, a kill leaves at most the temporary file.                *)
LEMMA EndsFiles ==
  ASSUME RunInv, Refuse \/ Fail \/ Kill
  PROVE  /\ UNCHANGED vaultFiles /\ run' = Idle
         /\ \A f \in Landmarks : f \in disk' <=> f \in disk
<1>1. PICK fs \in SUBSET (Workspaces \cup {Temp}) : disk' = disk \ fs \/ disk' = disk \cup fs
  <2>1. Leftover \subseteq Workspaces
    <3>1. run.at = "reconcile" => run.op \in {"plan", "apply", "platform"} /\
            (run.op # "platform" => run.ph \in Phases)
      BY DEF RunInv
    <3> QED
      BY <3>1 DEF Leftover, Workspace, Workspaces, Phases
  <2>2. disk' = disk \ Leftover \/ disk' = disk \cup {} \/ disk' = disk \cup {Temp}
    BY DEF Refuse, Fail, Kill, Tidied
  <2> QED
    BY <2>1, <2>2
<1>2. UNCHANGED vaultFiles
  BY <1>1, FilesKept DEF Others, StageFiles
<1>3. run' = Idle
  BY DEF Refuse, Fail, Kill, Ends
<1> QED
  BY <1>1, <1>2, <1>3, LandmarksApart

LEMMA VaultEnds ==
  ASSUME RunInv, VaultInv, Refuse \/ Fail \/ Kill
  PROVE  RunInv' /\ VaultInv'
<1>1. UNCHANGED vaultFiles /\ run' = Idle
  BY EndsFiles
<1>2. UNCHANGED <<cloud, requests>> /\ flight' \subseteq flight
  BY DEF Refuse, Fail, Kill
<1> QED
  BY <1>1, <1>2, RunEnds, VaultKept DEF Idle, Entitled, Relies

(* A request takes effect once, and the grant is not taken back while a    *)
(* build needs it.                                                         *)
LEMMA VaultLands ==
  ASSUME TypeOK, RunInv, VaultInv, NEW r \in Requests, Land(r)
  PROVE  RunInv' /\ VaultInv'
<1>1. /\ r \in flight /\ flight' = flight \ {r} /\ run' = run /\ disk' = disk /\ requests' = requests
      /\ UNCHANGED <<Attempted, Succeeded, Attested, Told, Judged>>
  BY DEF Land, Attempted, Succeeded, Attested, Told, Judged
<1>2. /\ cloud'.runner = (cloud.runner \/ r = "prepare")
      /\ cloud'.build = IF r = "build" THEN "running" ELSE cloud.build
      /\ cloud'.admin = IF r = "grant" THEN TRUE ELSE IF r = "revoke" THEN FALSE ELSE cloud.admin
  BY DEF Land, TypeOK, Requests, Phases
<1>3. RunInv'
  BY <1>1 DEF RunInv
<1>4. r # "build" => r \in Phases /\ r \in Attempted /\ r \notin Succeeded
  BY <1>1 DEF Requests, VaultInv, RequestInv, ApplyInv
<1>5. r = "build" => cloud.build = "none" /\ "intent" \in Told /\ ~Judged
  BY <1>1 DEF VaultInv, RequestInv, Judged
<1>6. r = "revoke" => "build" \notin flight /\ cloud.build # "running"
  BY <1>4 DEF VaultInv, RequestInv, AuthorityInv, Judged
<1>7. RequestInv'
  BY <1>1, <1>2, <1>4, <1>5 DEF VaultInv, RequestInv, At, Judged
<1>8. ApplyInv'
  BY <1>1, <1>2, <1>4 DEF VaultInv, ApplyInv, At
<1>9. AuthorityInv'
  BY <1>1, <1>2, <1>4, <1>5, <1>6 DEF VaultInv, AuthorityInv, ApplyInv, At
<1> QED
  BY <1>3, <1>7, <1>8, <1>9 DEF VaultInv

LEMMA VaultBuildEnds ==
  ASSUME TypeOK, RunInv, VaultInv, BuildEnds
  PROVE  RunInv' /\ VaultInv'
<1>1. /\ UNCHANGED <<flight, run, disk, requests, Attempted, Succeeded, Attested, Told, Judged>>
      /\ cloud'.build \in {"succeeded", "failed"} /\ cloud.build = "running"
      /\ UNCHANGED <<cloud.runner, cloud.admin>>
  BY DEF BuildEnds, TypeOK, Attempted, Succeeded, Attested, Told, Judged
<1> QED
  BY <1>1 DEF RunInv, VaultInv, RequestInv, ApplyInv, AuthorityInv, At

LEMMA VaultStep ==
  ASSUME TypeOK, RunInv, VaultInv, Step
  PROVE  RunInv' /\ VaultInv'
BY VaultChoose, VaultConclude, VaultMirror, VaultPlans, VaultApplyOpen, VaultApplyRequest,
   VaultApplyReturns, VaultApplyRecorded, VaultPlatformLooks, VaultPlatformKnown, VaultPlatformStart,
   VaultPlatformStarted, VaultPlatformVerdict, VaultEnds DEF Step

(* The earlier stages touch neither the records nor the requests.          *)
LEMMA VaultEarlier ==
  ASSUME TypeOK, RunInv, VaultInv, Directory \in disk \/ run.cmd = "none",
         Earlier
  PROVE  RunInv' /\ VaultInv' /\ (Directory \in disk => Directory \in disk')
<1>1. PICK fs \in SUBSET (Others \ {Directory}) : disk' = disk \cup fs \/ disk' = disk \ fs
  <2>1. {Checkpoint, OpsPlan, Session, Module, Disabled, LocalState, Output} \subseteq Others \ {Directory}
    <3>1. Directory \notin {Checkpoint, OpsPlan, Session, Module, Disabled, LocalState, Output}
      BY DEF Directory, Checkpoint, OpsPlan, Session, Module, Disabled, LocalState, Output
    <3> QED
      BY <3>1 DEF Others, StageFiles, ZeroFiles
  <2>2. \/ disk' = disk \cup {} \/ disk' = disk \cup {Checkpoint} \/ disk' = disk \cup {OpsPlan}
        \/ disk' = disk \cup {Session} \/ disk' = disk \cup {Module} \/ disk' = disk \cup {Disabled}
        \/ disk' = disk \cup {LocalState} \/ disk' = disk \cup {Output} \/ disk' = disk \ {Disabled}
    BY DEF Earlier, StageStep, CreateCheckpoint, Note, PassGate, InfraPrepared, OpsPrepared, Begin,
       InfraRequest, InfraReturns, OpsPlans, OpsPlanned, OpsRequest, OpsHandoff, OpsApplied,
       OpsVerified, ZeroRun, ZeroStep, ZeroOpen, ZeroDisable, ZeroImport, ZeroPlan, ZeroCreate,
       ZeroRecord, ZeroApplied, ZeroReview, ZeroOutput, ZeroCached, ZeroMigrate, ZeroErase,
       ZeroRefuse, LandHost
  <2> QED
    BY <2>1, <2>2
<1>2. UNCHANGED vaultFiles /\ (Directory \in disk => Directory \in disk')
  BY <1>1, FilesKept
<1>3. /\ requests' = requests /\ flight' \cap Requests = flight \cap Requests
      /\ UNCHANGED <<cloud.runner, cloud.admin, cloud.build>>
  BY DEF Earlier, StageStep, CreateCheckpoint, Note, PassGate, InfraPrepared, OpsPrepared, Begin,
       InfraRequest, InfraReturns, OpsPlans, OpsPlanned, OpsRequest, OpsHandoff, OpsApplied,
       OpsVerified, Close, Still, ZeroRun, ZeroStep, ZeroOpen, ZeroDisable, ZeroImport, ZeroPlan, ZeroCreate,
       ZeroRecord, ZeroApplied, ZeroReview, ZeroOutput, ZeroCached, ZeroMigrate, ZeroErase,
       ZeroRefuse, Elsewhere, LandHost, Requests, Phases, TypeOK
<1>4. CASE ZeroRun \/ LandHost
  <2>1. run' = run
    BY <1>4 DEF ZeroRun, LandHost
  <2>2. RunInv'
    BY <1>2, <2>1 DEF RunInv
  <2>3. Entitled'
    BY <1>2, <2>1, VaultEntitled, EntitledStays DEF vaultFiles, Judged
  <2> QED
    BY <1>2, <1>3, <2>1, <2>2, <2>3, VaultKept
<1>5. CASE StageStep
  <2>1. run.cmd # "none" /\ run.op # "platform" /\ run.ph # "revoke"
    BY <1>5 DEF RunInv, Idle, StageStep, CreateCheckpoint, Note, PassGate, InfraPrepared, OpsPrepared, Begin,
       InfraRequest, InfraReturns, OpsPlans, OpsPlanned, OpsRequest, OpsHandoff, OpsApplied,
       OpsVerified, At, Opening
  <2>2. RunInv' /\ (run'.at \in Vaulted => run'.at = "choose")
    BY <1>2, <1>5, <2>1, RunOfStages DEF RunInv
  <2>3. run' = Idle \/ (run'.op = run.op /\ run'.ph = run.ph)
    BY <1>5 DEF RunInv, StageStep, CreateCheckpoint, Note, PassGate, InfraPrepared, OpsPrepared, Begin,
       InfraRequest, InfraReturns, OpsPlans, OpsPlanned, OpsRequest, OpsHandoff, OpsApplied,
       OpsVerified, Close, Ends, Go
  <2>4. Entitled'
    BY <1>2, <2>3, VaultEntitled, EntitledStays DEF vaultFiles, Judged
  <2> QED
    BY <1>2, <1>3, <2>2, <2>4, VaultKept DEF Relies, Vaulted
<1> QED
  BY <1>4, <1>5 DEF Earlier

LEMMA VaultInvoke ==
  ASSUME RunInv, VaultInv, Checkpoint \in disk => Directory \in disk,
         NEW cmd \in Commands, Invoke(cmd)
  PROVE  RunInv' /\ VaultInv'
<1>1. RunInv' /\ run'.cmd = cmd /\ run'.at \notin Vaulted
  BY RunStarts DEF Invoke, Resume
<1>2. disk' = disk \cup {Directory} \/ disk' = disk \cup {}
  BY DEF Invoke, Start, Resume
<1>3. UNCHANGED vaultFiles
  BY <1>2, FilesKept DEF Others, StageFiles
<1>4. run'.op = cmd /\ run'.ph # "revoke" /\ cmd # "platform"
  BY DEF Invoke, Start, Resume, Takes, Idle, Commands, FrontCommands, InfraCommands, OpsCommands, VaultCommands
<1>5. Entitled'
  BY <1>4 DEF Entitled
<1>6. UNCHANGED <<cloud, flight, requests>>
  BY DEF Invoke, Start, Resume, Takes, Still
<1> QED
  BY <1>1, <1>2, <1>3, <1>5, <1>6, VaultKept DEF Relies, Vaulted

LEMMA VaultBlocked ==
  ASSUME RunInv, VaultInv, \/ vars' = vars
                           \/ \E cmd \in Commands : Blocked(cmd) /\ UNCHANGED requests
  PROVE  RunInv' /\ VaultInv'
<1>1. UNCHANGED <<disk, run, cloud, flight, requests>>
  BY DEF vars, stageVars, Blocked, Still
<1>2. UNCHANGED <<Attempted, Succeeded, Attested, Told, Judged>>
  BY <1>1 DEF Attempted, Succeeded, Attested, Told, Judged
<1> QED
  BY <1>1, <1>2 DEF RunInv, VaultInv, RequestInv, ApplyInv, AuthorityInv, At

-----------------------------------------------------------------------------
(* The stages before Vault.                                                *)

LEMMA SameResources ==
  ASSUME cloud'.recorder = cloud.recorder
  PROVE  Infrastructure' = Infrastructure /\ Baseline' = Baseline
BY DEF Infrastructure, Baseline

(* A step that leaves script, states and what they are about alone.        *)
LEMMA StageKept ==
  ASSUME StageInv, UNCHANGED <<zero, tf>>,
         UNCHANGED <<cloud.made, cloud.keys, cloud.recorder>>, cloud.host => cloud'.host,
         stages'["infrastructure"] = stages["infrastructure"],
         stages'["ops_access"] = "complete" => stages["ops_access"] = "complete",
         Output \in disk' <=> Output \in disk, Session \in disk => Session \in disk',
         Directory \in disk => Directory \in disk', Checkpoint \in disk' => Directory \in disk',
         zero.at \notin Resting => run'.at \in {"idle", "provisioning"},
         run'.cmd # "none" =>
           (stages["infrastructure"] = "running"
              <=> run'.cmd = "apply_infra" /\ run'.at \in {"open", "provisioning"})
  PROVE  StageInv'
<1>1. Infrastructure' = Infrastructure /\ Baseline' = Baseline
  BY SameResources
<1>2. ScriptInv'
  BY <1>1 DEF StageInv, ScriptInv
<1>3. StateInv'
  BY <1>1 DEF StageInv, StateInv
<1>4. HostInv'
  BY DEF StageInv, HostInv
<1> QED
  BY <1>2, <1>3, <1>4 DEF StageInv

LEMMA NoLandmarks ==
  ASSUME NEW x, NEW y
  PROVE  {Mirror(x), Plan(x), Attempt(x), Success(x), Written(x), Platform(x), Work(x, y)}
           \cap (Landmarks \cup {Checkpoint}) = {}
<1>1. Work(x, y) \notin Landmarks \cup {Checkpoint}
  BY WorkLonger DEF Landmarks, Directory, Output, Session, Checkpoint
<1> QED
  BY <1>1 DEF Landmarks, Directory, Output, Session, Checkpoint, Mirror, Plan, Attempt, Success,
     Written, Platform

(* The steps of the Vault stage.                                           *)
LEMMA StepFrame ==
  ASSUME TypeOK, RunInv, Step, ~Refuse
  PROVE  /\ UNCHANGED <<zero, tf, cloud>> /\ run.cmd \in VaultCommands
         /\ stages'["infrastructure"] = stages["infrastructure"]
         /\ stages'["ops_access"] = stages["ops_access"]
         /\ run' = Idle \/ run'.cmd = run.cmd
         /\ \A f \in Landmarks \cup {Checkpoint} : f \in disk' <=> f \in disk
<1>1. \A x, y : \A f \in Landmarks \cup {Checkpoint} :
        f \notin {Mirror(x), Plan(x), Attempt(x), Success(x), Written(x), Platform(x), Work(x, y)}
  BY NoLandmarks
<1>2. run.cmd \in VaultCommands
  BY DEF Step, Choose, Conclude, MirrorBegin, MirrorManifest, MirrorReceipt, PlanOpen, PlanPublish,
     ApplyOpen, ApplyRequest, ApplyReturns, ApplyRecorded, PlatformOpen, PlatformReconciled,
     PlatformKnown, PlatformResume, PlatformStart, PlatformStarted, PlatformVerdict,
     At, RunInv, Vaulted, Idle, VaultCommands
<1>3. ASSUME NEW files, TaskDone(files)
      PROVE  /\ UNCHANGED <<zero, tf, cloud>> /\ disk' = files
             /\ stages' = stages \/ stages' = [stages EXCEPT !["vault"] = "awaiting_input"]
             /\ run' = Idle \/ run'.cmd = run.cmd
  BY <1>3 DEF TaskDone, Ends, Go, RunInv
<1>4. UNCHANGED <<zero, tf, cloud>> /\ (run' = Idle \/ run'.cmd = run.cmd)
  BY <1>3 DEF Step, Choose, Conclude, MirrorBegin, MirrorManifest, MirrorReceipt, PlanOpen, PlanPublish,
     ApplyOpen, ApplyRequest, ApplyReturns, ApplyRecorded, PlatformOpen, PlatformReconciled,
     PlatformKnown, PlatformResume, PlatformStart, PlatformStarted, PlatformVerdict,
     Quiet, Go, Do, Ends, RunInv
<1>5. stages' = stages \/ stages' = [stages EXCEPT !["vault"] = "awaiting_input"]
  BY <1>3 DEF Step, Choose, Conclude, MirrorBegin, MirrorManifest, MirrorReceipt, PlanOpen, PlanPublish,
     ApplyOpen, ApplyRequest, ApplyReturns, ApplyRecorded, PlatformOpen, PlatformReconciled,
     PlatformKnown, PlatformResume, PlatformStart, PlatformStarted, PlatformVerdict,
     Quiet
<1>6. \A f \in Landmarks \cup {Checkpoint} : f \in disk' <=> f \in disk
  <2> SUFFICES ASSUME NEW f \in Landmarks \cup {Checkpoint} PROVE f \in disk' <=> f \in disk
    OBVIOUS
  <2>1. \A x, y : f \notin {Mirror(x), Plan(x), Attempt(x), Success(x), Written(x), Platform(x), Work(x, y)}
    BY <1>1
  <2>2. CASE Choose \/ Conclude \/ PlatformKnown \/ PlatformResume
    BY <1>3, <2>2 DEF Choose, Conclude, PlatformKnown, PlatformResume
  <2>3. CASE MirrorBegin \/ MirrorManifest \/ MirrorReceipt
    BY <1>3, <2>1, <2>3 DEF MirrorBegin, MirrorManifest, MirrorReceipt
  <2>4. CASE PlanOpen \/ PlanPublish
    BY <1>3, <2>1, <2>4 DEF PlanOpen, PlanPublish
  <2>5. CASE ApplyOpen \/ ApplyRequest \/ ApplyReturns \/ ApplyRecorded
    BY <1>3, <2>1, <2>5 DEF ApplyOpen, ApplyRequest, ApplyReturns, ApplyRecorded
  <2>6. CASE PlatformOpen \/ PlatformReconciled \/ PlatformStart \/ PlatformStarted \/ PlatformVerdict
    BY <1>3, <2>1, <2>6 DEF PlatformOpen, PlatformReconciled, PlatformStart, PlatformStarted, PlatformVerdict
  <2> QED
    BY <2>2, <2>3, <2>4, <2>5, <2>6 DEF Step
<1>7. stages'["infrastructure"] = stages["infrastructure"] /\ stages'["ops_access"] = stages["ops_access"]
  BY <1>5 DEF TypeOK
<1> QED
  BY <1>2, <1>4, <1>6, <1>7

LEMMA StageOfStep ==
  ASSUME TypeOK, RunInv, StageInv, Step, ~Refuse
  PROVE  StageInv'
<1>1. /\ UNCHANGED <<zero, tf, cloud>> /\ run.cmd \in VaultCommands
      /\ stages'["infrastructure"] = stages["infrastructure"]
      /\ stages'["ops_access"] = stages["ops_access"]
      /\ run' = Idle \/ run'.cmd = run.cmd
      /\ \A f \in Landmarks \cup {Checkpoint} : f \in disk' <=> f \in disk
  BY StepFrame
<1>2. stages["infrastructure"] # "running"
  BY <1>1 DEF StageInv, ScriptInv, VaultCommands
<1>3. zero.at \in Resting
  BY <1>2 DEF StageInv, ScriptInv
<1>4. Checkpoint \in disk => Directory \in disk
  BY DEF StageInv, ScriptInv
<1> QED
  BY <1>1, <1>2, <1>3, <1>4, StageKept DEF Landmarks, Idle, VaultCommands

LEMMA StageOfLand ==
  ASSUME TypeOK, StageInv, (\E r \in Requests : Land(r)) \/ BuildEnds \/ LandHost
  PROVE  StageInv'
<1>1. /\ UNCHANGED <<zero, tf, disk, stages, run>>
      /\ UNCHANGED <<cloud.made, cloud.keys, cloud.recorder>> /\ (cloud.host => cloud'.host)
  BY DEF Land, BuildEnds, LandHost, TypeOK
<1> QED
  BY <1>1, StageKept DEF StageInv, ScriptInv

LEMMA StageOfInvoke ==
  ASSUME TypeOK, RunInv, StageInv, NEW cmd \in Commands, Invoke(cmd)
  PROVE  StageInv'
<1>1. /\ UNCHANGED <<zero, tf, cloud, stages>> /\ disk \subseteq disk' /\ disk' \subseteq disk \cup {Directory}
  BY DEF Invoke, Start, Resume, Takes, Still
<1>2. Directory \notin {Output, Session, Checkpoint} /\ {Output, Session} \cap {Directory} = {}
  BY DEF Directory, Output, Session, Checkpoint
<1>3. stages["infrastructure"] # "running"
  BY DEF Invoke, Start, Resume, Interrupted, StageInv, ScriptInv, TypeOK
<1>4. zero.at \in Resting /\ (Checkpoint \in disk => Directory \in disk)
  BY <1>3 DEF StageInv, ScriptInv
<1>5. run'.at \notin {"open", "provisioning"}
  BY DEF Invoke, Start, Resume, Takes, Idle
<1> QED
  BY <1>1, <1>2, <1>3, <1>4, <1>5, StageKept

LEMMA StageOfBlocked ==
  ASSUME StageInv, vars' = vars \/ \E cmd \in Commands : Blocked(cmd) /\ UNCHANGED requests
  PROVE  StageInv'
<1>1. UNCHANGED <<disk, run, cloud, stages, tf, zero>>
  BY DEF vars, stageVars, Blocked, Still
<1> QED
  BY <1>1, StageKept DEF StageInv, ScriptInv

(* An invocation that ends in the middle takes its script with it, or else *)
(* leaves its stage running, so that no other follows.                     *)
LEMMA StageOfEnds ==
  ASSUME TypeOK, RunInv, StageInv, Refuse \/ Fail \/ Kill
  PROVE  StageInv'
<1>1. /\ UNCHANGED <<cloud, tf>> /\ run' = Idle
      /\ \A f \in Landmarks : f \in disk' <=> f \in disk
  BY EndsFiles DEF Refuse, Fail, Kill
<1>2. Checkpoint \in disk' => Directory \in disk
  <2>1. Checkpoint \notin Workspaces /\ Checkpoint # Temp
    BY WorkLonger DEF Workspaces, Checkpoint, Temp
  <2>2. Checkpoint \in disk' => Checkpoint \in disk
    BY <2>1 DEF Refuse, Fail, Kill, Tidied
  <2> QED
    BY <2>2 DEF StageInv, ScriptInv
<1>3. /\ stages'["infrastructure"] = stages["infrastructure"]
           \/ (stages["infrastructure"] = "running" /\ stages'["infrastructure"] \in {"failed", "awaiting_input"})
      /\ stages'["ops_access"] = "complete" => stages["ops_access"] = "complete"
  BY DEF Refuse, Fail, Kill, Aborted, TypeOK
<1>4. zero' = zero \/ zero' = [at |-> "failed", fresh |-> {}]
  BY DEF Refuse, Fail, Kill, ScriptDies
<1>5. zero'.at \notin Resting => stages'["infrastructure"] = "running"
  <2>1. SUFFICES ASSUME zero'.at \notin Resting PROVE stages'["infrastructure"] = "running"
    OBVIOUS
  <2>2. zero' = zero
    BY <1>4, <2>1 DEF Resting
  <2>3. stages["infrastructure"] = "running" /\ run.at \in {"idle", "provisioning"}
    BY <2>1, <2>2 DEF StageInv, ScriptInv
  <2>4. CASE Kill
    BY <2>3, <2>4 DEF Kill
  <2>5. CASE Fail
    <3>1. run.at # "provisioning"
      BY <2>1, <2>2, <2>5 DEF Fail, ScriptDies, Resting
    <3> QED
      BY <2>3, <2>5, <3>1 DEF Fail, RunInv
  <2>6. CASE Refuse
    <3>1. run.cmd = "none"
      <4>1. run.at = "provisioning" /\ run.cmd # "none" => FALSE
        <5> SUFFICES ASSUME run.at = "provisioning" PROVE FALSE
          OBVIOUS
        <5>1. Refused => zero.at = "failed"
          BY DEF Refused, StageRefused, WritingPoints, At
        <5> QED
          BY <2>1, <2>2, <2>6, <5>1 DEF Refuse, Resting
      <4> QED
        BY <2>3, <4>1 DEF RunInv
    <3>2. ~Refused
      BY <3>1 DEF RunInv, Idle, Refused, StageRefused, WritingPoints, At, InfraCommands
    <3> QED
      BY <2>6, <3>2 DEF Refuse
  <2> QED
    BY <2>4, <2>5, <2>6
<1>6. ScriptInv'
  <2>1. Infrastructure' = Infrastructure
    BY <1>1, SameResources
  <2> QED
    BY <1>1, <1>2, <1>3, <1>4, <1>5, <2>1 DEF StageInv, ScriptInv, Idle, Landmarks, Scripts, Resting
<1>7. StateInv'
  <2>1. Infrastructure' = Infrastructure /\ Baseline' = Baseline
    BY <1>1, SameResources
  <2>2. Output \in disk' <=> Output \in disk
    BY <1>1 DEF Landmarks
  <2> QED
    BY <1>1, <1>3, <1>4, <2>1, <2>2 DEF StageInv, StateInv
<1>8. HostInv'
  BY <1>1, <1>3 DEF StageInv, HostInv, Landmarks
<1> QED
  BY <1>6, <1>7, <1>8 DEF StageInv

(* The steps of the first two stages.                                      *)
LEMMA CommandOf ==
  ASSUME RunInv, StageStep
  PROVE  /\ run.cmd # "none" /\ Directory \in disk
         /\ \A op \in FrontCommands \cup OpsCommands : run.op = op => run.cmd = op
BY DEF RunInv, Idle, StageStep, CreateCheckpoint, Note, PassGate, InfraPrepared, OpsPrepared, Begin,
   InfraRequest, InfraReturns, OpsPlans, OpsPlanned, OpsRequest, OpsHandoff, OpsApplied,
   OpsVerified, At, FrontCommands, InfraCommands, OpsCommands

LEMMA StageQuiet ==
  ASSUME TypeOK, RunInv, StageInv,
         CreateCheckpoint \/ Note \/ PassGate \/ OpsPrepared \/ OpsPlans \/ OpsPlanned
           \/ OpsRequest \/ OpsHandoff \/ OpsApplied
  PROVE  StageInv'
<1>1. /\ run.cmd # "none" /\ Directory \in disk
      /\ \A op \in FrontCommands \cup OpsCommands : run.op = op => run.cmd = op
  BY CommandOf DEF StageStep
<1>2. UNCHANGED <<zero, tf, cloud>>
  BY DEF CreateCheckpoint, Note, PassGate, OpsPrepared, OpsPlans, OpsPlanned, OpsRequest, OpsHandoff,
     OpsApplied, Still
<1>3. disk \subseteq disk' /\ disk' \subseteq disk \cup {Checkpoint, OpsPlan, Session}
  BY DEF CreateCheckpoint, Note, PassGate, OpsPrepared, OpsPlans, OpsPlanned, OpsRequest, OpsHandoff,
     OpsApplied, Still
<1>4. Output \notin {Checkpoint, OpsPlan, Session}
  BY DEF Output, Checkpoint, OpsPlan, Session
<1>5. CASE CreateCheckpoint \/ Note \/ PassGate \/ OpsPlans \/ OpsRequest \/ OpsHandoff
  <2>1. stages' = stages
    BY <1>5 DEF CreateCheckpoint, Note, PassGate, OpsPlans, OpsRequest, OpsHandoff, Still
  <2>2. run.at \notin {"idle", "provisioning"}
    BY <1>5 DEF CreateCheckpoint, Note, PassGate, OpsPlans, OpsRequest, OpsHandoff, At
  <2>3. zero.at \in Resting
    BY <2>2 DEF StageInv, ScriptInv
  <2>4. stages["infrastructure"] # "running"
    <3>1. stages["infrastructure"] = "running" => run.cmd = "apply_infra" /\ run.at = "open"
      BY <1>1, <2>2 DEF StageInv, ScriptInv
    <3>2. run.at = "open" => run.cmd = "plan_ops" \/ run.cmd = "apply_ops"
      BY <1>1, <1>5 DEF CreateCheckpoint, Note, PassGate, OpsPlans, OpsRequest, OpsHandoff, At, OpsCommands
    <3> QED
      BY <3>1, <3>2
  <2>5. ~(run'.cmd = "apply_infra" /\ run'.at \in {"open", "provisioning"})
    BY <1>1, <1>5 DEF CreateCheckpoint, Note, PassGate, OpsPlans, OpsRequest, OpsHandoff, At, Go, Ends,
       Idle, RunInv, FrontCommands, InfraCommands, OpsCommands
  <2> QED
    BY <1>1, <1>2, <1>3, <1>4, <2>1, <2>3, <2>4, <2>5, StageKept
<1>6. CASE OpsPrepared \/ OpsPlanned \/ OpsApplied
  <2>1. run' = Idle /\ run.cmd \in OpsCommands /\ Close("awaiting_input")
    BY <1>1, <1>6 DEF OpsPrepared, OpsPlanned, OpsApplied, Close, Ends, At, OpsCommands
  <2>2. run.at \notin {"idle", "provisioning"}
    BY <1>6 DEF OpsPrepared, OpsPlanned, OpsApplied, At
  <2>3. zero.at \in Resting
    BY <2>2 DEF StageInv, ScriptInv
  <2>4. stages' = [stages EXCEPT !["ops_access"] = "awaiting_input"]
    BY <2>1 DEF Close, StageOf, OpsCommands, InfraCommands
  <2>5. /\ stages'["infrastructure"] = stages["infrastructure"] /\ stages'["ops_access"] # "complete"
    BY <2>4 DEF TypeOK
  <2> QED
    BY <1>1, <1>2, <1>3, <1>4, <2>1, <2>3, <2>5, StageKept DEF Idle
<1> QED
  BY <1>5, <1>6

LEMMA StageOps ==
  ASSUME TypeOK, RunInv, StageInv, OpsVerified
  PROVE  StageInv'
<1>1. run.cmd = "verify_ops" /\ Directory \in disk
  BY CommandOf DEF StageStep, OpsVerified, At, OpsCommands
<1>2. cloud.host /\ Session \in disk
  BY DEF OpsVerified, StageRefused, VerifyRefused
<1>3. /\ stages' = [stages EXCEPT !["ops_access"] = "complete"] /\ run' = Idle
      /\ UNCHANGED <<zero, tf, cloud, disk>>
  BY <1>1 DEF OpsVerified, Close, Ends, StageOf, OpsCommands, InfraCommands, Still
<1>4. stages'["infrastructure"] = stages["infrastructure"]
  BY <1>3 DEF TypeOK
<1>5. Infrastructure' = Infrastructure /\ Baseline' = Baseline
  BY <1>3, SameResources
<1>6. ScriptInv'
  BY <1>3, <1>4, <1>5 DEF StageInv, ScriptInv, Idle
<1>7. StateInv'
  BY <1>3, <1>4, <1>5 DEF StageInv, StateInv
<1> QED
  BY <1>2, <1>3, <1>6, <1>7 DEF StageInv, HostInv

LEMMA StageInfra ==
  ASSUME TypeOK, RunInv, StageInv, InfraPrepared \/ Begin \/ InfraRequest \/ InfraReturns
  PROVE  StageInv'
<1>1. /\ run.cmd # "none" /\ Directory \in disk
      /\ \A op \in FrontCommands \cup OpsCommands : run.op = op => run.cmd = op
  BY CommandOf DEF StageStep
<1>2. UNCHANGED <<tf, cloud, disk>>
  BY DEF InfraPrepared, Begin, InfraRequest, InfraReturns, Still
<1>3. Infrastructure' = Infrastructure /\ Baseline' = Baseline
  BY <1>2, SameResources
<1>4. CASE InfraPrepared
  <2>1. /\ run.cmd \in InfraCommands /\ run.at = "await" /\ zero' = zero
        /\ stages' = [stages EXCEPT !["infrastructure"] = "awaiting_input"]
        /\ run' = Idle \/ run' = [run EXCEPT !.at = "begin"]
    BY <1>4 DEF InfraPrepared, Ends, Go
  <2>6. run'.at \in {"begin", "idle"}
    BY <2>1 DEF Idle, RunInv
  <2>2. zero.at \in Resting
    BY <2>1 DEF StageInv, ScriptInv
  <2>3. stages'["infrastructure"] = "awaiting_input" /\ stages'["ops_access"] = stages["ops_access"]
    BY <2>1 DEF TypeOK
  <2>4. ScriptInv'
    BY <1>1, <1>2, <1>3, <2>1, <2>2, <2>3, <2>6 DEF StageInv, ScriptInv
  <2>5. StateInv'
    BY <1>2, <1>3, <2>1, <2>3 DEF StageInv, StateInv
  <2> QED
    BY <1>2, <2>3, <2>4, <2>5 DEF StageInv, HostInv
<1>5. CASE Begin
  <2>1. run.at = "begin" /\ zero' = zero /\ run' = [run EXCEPT !.at = "open"]
        /\ stages' = [stages EXCEPT ![StageOf(run.cmd)] = "running"]
    BY <1>5 DEF Begin, Go, Still
  <2>2. zero.at \in Resting /\ stages["infrastructure"] # "running"
    BY <1>1, <2>1 DEF StageInv, ScriptInv
  <2>3. /\ stages'["ops_access"] = "complete" => stages["ops_access"] = "complete"
        /\ \/ (run.cmd \notin InfraCommands /\ stages'["infrastructure"] = stages["infrastructure"])
           \/ (run.cmd \in InfraCommands /\ stages'["infrastructure"] = "running")
    <3>1. /\ StageOf(run.cmd) \in {"infrastructure", "ops_access", "vault"}
          /\ StageOf(run.cmd) = "infrastructure" <=> run.cmd \in InfraCommands
      BY DEF StageOf, InfraCommands, OpsCommands
    <3> QED
      BY <2>1, <3>1 DEF TypeOK
  <2>4. run.cmd \in InfraCommands <=> run.cmd = "apply_infra"
    <3>1. run.cmd # "prepare_infra"
      BY <2>1, <1>5 DEF RunInv
    <3> QED
      BY <3>1 DEF InfraCommands
  <2>5. run'.cmd = run.cmd /\ run'.at = "open"
    BY <2>1 DEF RunInv
  <2>6. ScriptInv'
    BY <1>1, <1>2, <1>3, <2>1, <2>2, <2>3, <2>4, <2>5 DEF StageInv, ScriptInv
  <2>7. StateInv'
    BY <1>2, <1>3, <2>1, <2>3 DEF StageInv, StateInv
  <2> QED
    BY <1>2, <2>3, <2>6, <2>7 DEF StageInv, HostInv
<1>6. CASE InfraRequest
  <2>1. /\ run.at = "open" /\ zero' = [at |-> "open", fresh |-> {}] /\ run' = [run EXCEPT !.at = "provisioning"]
        /\ stages' = stages /\ run.cmd = "apply_infra"
    BY <1>1, <1>6 DEF InfraRequest, Go, At, FrontCommands, InfraCommands
  <2>2. stages["infrastructure"] = "running"
    BY <1>1, <2>1 DEF StageInv, ScriptInv
  <2>3. run'.cmd = run.cmd /\ run'.at = "provisioning"
    BY <2>1 DEF RunInv
  <2>4. ScriptInv'
    BY <1>1, <1>2, <1>3, <2>1, <2>2, <2>3 DEF StageInv, ScriptInv, Scripts, Applying
  <2>5. StateInv'
    BY <1>2, <1>3, <2>1 DEF StageInv, StateInv
  <2> QED
    BY <1>2, <2>1, <2>4, <2>5 DEF StageInv, HostInv
<1>7. CASE InfraReturns
  <2>1. /\ run.cmd = "apply_infra" /\ zero.at = "done" /\ zero' = zero /\ run' = Idle
        /\ stages' = [stages EXCEPT !["infrastructure"] = "complete"]
    <3>1. run.op = "apply_infra" /\ "apply_infra" \in FrontCommands
      BY <1>7 DEF InfraReturns, At, FrontCommands, InfraCommands
    <3>2. run.cmd = "apply_infra"
      BY <1>1, <3>1
    <3>3. StageOf(run.cmd) = "infrastructure"
      BY <3>2 DEF StageOf, InfraCommands, OpsCommands
    <3> QED
      BY <1>7, <3>2, <3>3 DEF InfraReturns, Close, Ends, Still
  <2>2. stages'["infrastructure"] = "complete" /\ stages'["ops_access"] = stages["ops_access"]
    BY <2>1 DEF TypeOK
  <2>3. Infrastructure \subseteq tf.remote
    BY <2>1 DEF StageInv, StateInv, Infrastructure
  <2>4. ScriptInv'
    BY <1>1, <1>2, <1>3, <2>1, <2>2 DEF StageInv, ScriptInv, Idle, Resting
  <2>5. StateInv'
    BY <1>2, <1>3, <2>1, <2>2, <2>3 DEF StageInv, StateInv
  <2> QED
    BY <1>2, <2>2, <2>4, <2>5 DEF StageInv, HostInv
<1> QED
  BY <1>4, <1>5, <1>6, <1>7

(* The script of the first stage.                                          *)
LEMMA ZeroFrame ==
  ASSUME TypeOK, ZeroRun
  PROVE  /\ zero.at \notin Resting
         /\ UNCHANGED <<stages, run, cloud.recorder, cloud.host>>
         /\ \A f \in {Directory, Session, Checkpoint} : f \in disk' <=> f \in disk
         /\ Output \in disk => Output \in disk'
         /\ ~ZeroOutput => (Output \in disk' <=> Output \in disk)
<1>1. zero.at \notin Resting /\ UNCHANGED <<stages, run>>
  BY DEF ZeroRun, ZeroStep, ZeroOpen, ZeroDisable, ZeroImport, ZeroPlan, ZeroCreate, ZeroRecord,
     ZeroApplied, ZeroReview, ZeroOutput, ZeroCached, ZeroMigrate, ZeroErase, ZeroRefuse, ZeroRefused,
     Resting, Applying
<1>2. UNCHANGED <<cloud.recorder, cloud.host>>
  BY DEF ZeroRun, ZeroStep, ZeroOpen, ZeroDisable, ZeroImport, ZeroPlan, ZeroCreate, ZeroRecord,
     ZeroApplied, ZeroReview, ZeroOutput, ZeroCached, ZeroMigrate, ZeroErase, ZeroRefuse, Elsewhere, TypeOK
<1>3. {Directory, Session, Checkpoint, Output} \cap {Module, Disabled, LocalState} = {}
      /\ Output \notin {Directory, Session, Checkpoint}
  BY DEF Directory, Session, Checkpoint, Output, Module, Disabled, LocalState
<1>4. \/ disk' = disk \/ disk' = disk \cup {Module} \/ disk' = disk \cup {Disabled}
      \/ disk' = disk \cup {LocalState} \/ disk' = disk \ {Disabled}
      \/ (ZeroOutput /\ disk' = disk \cup {Output})
  BY DEF ZeroRun, ZeroStep, ZeroOpen, ZeroDisable, ZeroImport, ZeroPlan, ZeroCreate, ZeroRecord,
     ZeroApplied, ZeroReview, ZeroOutput, ZeroCached, ZeroMigrate, ZeroErase, ZeroRefuse
<1> QED
  BY <1>1, <1>2, <1>3, <1>4

LEMMA PlannedThere ==
  /\ Planned \subseteq Infrastructure
  /\ zero.at = "bootstrap" => Planned = Bootstrap
  /\ zero.at = "network" => Planned = Network
  /\ zero.at = "baseline" => Planned = Baseline
BY DEF Planned, Infrastructure

(* What is made is recorded later, and only what is made is recorded.      *)
LEMMA ZeroOfTerraform ==
  ASSUME TypeOK, StageInv, ZeroRun, ZeroCreate \/ ZeroRecord
  PROVE  /\ zero' \in [at : Scripts, fresh : SUBSET Infrastructure] /\ zero'.at = zero.at
         /\ StateInv'
<1>1. /\ UNCHANGED <<stages, cloud.recorder>> /\ zero.at \in Applying
      /\ Output \in disk' <=> Output \in disk
  BY ZeroFrame DEF ZeroCreate, ZeroRecord, ZeroOutput, Applying
<1>2. stages["infrastructure"] = "running"
  BY <1>1 DEF StageInv, ScriptInv, Applying, Resting
<1>3. Infrastructure' = Infrastructure /\ Baseline' = Baseline
  BY <1>1, SameResources
<1>4. CASE ZeroCreate
  <2>1. PICK r \in Planned \ (Recorded \cup zero.fresh) :
          /\ zero' = [zero EXCEPT !.fresh = @ \cup {r}]
          /\ cloud' = [cloud EXCEPT !.made = @ \cup {r},
                         !.keys = IF r = "key" /\ @ < 2 THEN @ + 1 ELSE @]
    BY <1>4 DEF ZeroCreate
  <2>2. /\ zero'.at = zero.at /\ zero'.fresh = zero.fresh \cup {r} /\ tf' = tf
        /\ zero' \in [at : Scripts, fresh : SUBSET Infrastructure]
    BY <1>4, <2>1, PlannedThere DEF ZeroCreate, StageInv, ScriptInv
  <2>3. /\ cloud'.made = cloud.made \cup {r}
        /\ cloud'.keys = IF r = "key" /\ cloud.keys < 2 THEN cloud.keys + 1 ELSE cloud.keys
    BY <2>1 DEF TypeOK
  <2>4. r = "key" => cloud.keys = 0
    <3>1. r = "key" => zero.at = "bootstrap"
      BY <1>1, <2>1, PlannedThere DEF Applying, Network, Baseline
    <3>2. r = "key" => "key" \notin cloud.made
      BY <2>1, <3>1 DEF Recorded, StageInv, StateInv, Importable
    <3> QED
      BY <3>2 DEF StageInv, StateInv
  <2>5. zero.at = "bootstrap" => Importable \cap cloud'.made \subseteq tf.local \cup zero'.fresh
    BY <2>2, <2>3 DEF StageInv, StateInv
  <2>6. zero.at = "bootstrap" => zero'.fresh \subseteq Bootstrap
    BY <2>1, <2>2, PlannedThere DEF StageInv, StateInv
  <2> QED
    BY <1>1, <1>2, <1>3, <2>2, <2>3, <2>4, <2>5, <2>6 DEF StageInv, StateInv
<1>5. CASE ZeroRecord
  <2>1. PICK r \in zero.fresh :
          /\ zero' = [zero EXCEPT !.fresh = @ \ {r}]
          /\ IF zero.at = "bootstrap"
             THEN tf' = [tf EXCEPT !.local = @ \cup {r}]
             ELSE tf' = [tf EXCEPT !.remote = @ \cup {r}]
    BY <1>5 DEF ZeroRecord
  <2>2. /\ zero'.at = zero.at /\ zero'.fresh = zero.fresh \ {r} /\ UNCHANGED cloud
        /\ zero' \in [at : Scripts, fresh : SUBSET Infrastructure]
    BY <1>5, <2>1 DEF ZeroRecord, Elsewhere, StageInv, ScriptInv
  <2>3. \/ zero.at = "bootstrap" /\ tf'.local = tf.local \cup {r} /\ tf'.remote = tf.remote
        \/ zero.at \in {"network", "baseline"} /\ tf'.local = tf.local /\ tf'.remote = tf.remote \cup {r}
    BY <1>1, <2>1 DEF TypeOK, Applying
  <2> QED
    BY <1>1, <1>2, <1>3, <2>2, <2>3 DEF StageInv, StateInv
<1> QED
  BY <1>4, <1>5

LEMMA ZeroOfScript ==
  ASSUME TypeOK, StageInv, ZeroRun, ~ZeroCreate, ~ZeroRecord
  PROVE  /\ zero' \in [at : Scripts, fresh : SUBSET Infrastructure] /\ zero'.fresh = {}
         /\ StateInv'
<1>1. /\ UNCHANGED <<stages, cloud>> /\ zero.at \notin Resting
      /\ Output \in disk => Output \in disk'
      /\ ~ZeroOutput => (Output \in disk' <=> Output \in disk)
  BY ZeroFrame DEF ZeroRun, ZeroStep, ZeroOpen, ZeroDisable, ZeroImport, ZeroPlan,
     ZeroApplied, ZeroReview, ZeroOutput, ZeroCached, ZeroMigrate, ZeroErase, ZeroRefuse, Elsewhere
<1>2. stages["infrastructure"] = "running"
  BY <1>1 DEF StageInv, ScriptInv
<1>3. Infrastructure' = Infrastructure /\ Baseline' = Baseline
  BY <1>1, SameResources
<1>4. /\ zero \in [at : Scripts, fresh : SUBSET Infrastructure]
      /\ zero.at \notin Applying => zero.fresh = {}
  BY DEF StageInv, ScriptInv
<1>5. ASSUME zero.fresh = {}, NEW at \in Scripts, Reach(at)
      PROVE  zero' \in [at : Scripts, fresh : SUBSET Infrastructure] /\ zero'.fresh = {} /\ zero'.at = at
  BY <1>4, <1>5 DEF Reach
<1> USE DEF Scripts, Applying
<1>6. CASE ZeroOpen \/ ZeroDisable
  <2>1. /\ zero.at \in {"open", "copied"} /\ tf' = tf
        /\ \/ Reach("cached") /\ Output \in disk'
           \/ Reach("reconcile") \/ Reach("copied")
    BY <1>6 DEF ZeroOpen, ZeroDisable
  <2>2. zero' \in [at : Scripts, fresh : SUBSET Infrastructure] /\ zero'.fresh = {}
        /\ (zero'.at \in {"reconcile", "copied"} \/ (zero'.at = "cached" /\ Output \in disk'))
    BY <1>4, <1>5, <2>1
  <2>3. Output \in disk' <=> Output \in disk
    BY <1>1, <2>1 DEF ZeroOutput
  <2> QED
    BY <1>1, <1>2, <1>3, <2>1, <2>2, <2>3 DEF StageInv, StateInv
<1>7. CASE ZeroImport
  <2>1. PICK r \in Importable \cap cloud.made : tf' = [tf EXCEPT !.local = @ \cup {r}]
    BY <1>7 DEF ZeroImport
  <2>2. /\ zero.at = "reconcile" /\ zero' = zero /\ zero.fresh = {}
        /\ tf'.local = tf.local \cup {r} /\ tf'.remote = tf.remote
    BY <1>4, <1>7, <2>1 DEF ZeroImport, TypeOK
  <2>3. Output \in disk' <=> Output \in disk
    BY <1>1, <2>2 DEF ZeroOutput
  <2> QED
    BY <1>1, <1>2, <1>3, <1>4, <2>2, <2>3 DEF StageInv, StateInv
<1>8. CASE ZeroPlan
  <2>1. zero.at = "reconcile" /\ Importable \cap cloud.made \subseteq tf.local /\ tf' = tf /\ disk' = disk
    BY <1>8 DEF ZeroPlan
  <2>2. zero' \in [at : Scripts, fresh : SUBSET Infrastructure] /\ zero'.fresh = {} /\ zero'.at = "bootstrap"
    BY <1>4, <1>5, <1>8, <2>1 DEF ZeroPlan
  <2> QED
    BY <1>1, <1>2, <1>3, <2>1, <2>2 DEF StageInv, StateInv
<1>9. CASE ZeroApplied
  <2>1. /\ zero.at \in Applying /\ Planned \subseteq Recorded /\ zero.fresh = {} /\ tf' = tf /\ disk' = disk
        /\ \/ zero.at = "bootstrap" /\ Reach("output")
           \/ zero.at = "network" /\ Reach("review")
           \/ zero.at = "baseline" /\ Reach("done")
    BY <1>9 DEF ZeroApplied
  <2>2. /\ zero' \in [at : Scripts, fresh : SUBSET Infrastructure] /\ zero'.fresh = {}
        /\ \/ zero.at = "bootstrap" /\ zero'.at = "output" /\ Bootstrap \subseteq tf.local
           \/ zero.at = "network" /\ zero'.at = "review" /\ Network \subseteq tf.remote
           \/ zero.at = "baseline" /\ zero'.at = "done" /\ Baseline \subseteq tf.remote
    <3>1. \/ zero.at = "bootstrap" /\ Bootstrap \subseteq tf.local
          \/ zero.at = "network" /\ Network \subseteq tf.remote
          \/ zero.at = "baseline" /\ Baseline \subseteq tf.remote
      BY <2>1, PlannedThere DEF Recorded
    <3> QED
      BY <1>5, <2>1, <3>1 DEF Resting
  <2> QED
    BY <1>1, <1>2, <1>3, <2>1, <2>2 DEF StageInv, StateInv
<1>10. CASE ZeroReview
  <2>1. zero.at = "review" /\ tf' = tf /\ disk' = disk
    BY <1>10 DEF ZeroReview
  <2>2. zero' \in [at : Scripts, fresh : SUBSET Infrastructure] /\ zero'.fresh = {} /\ zero'.at = "baseline"
    BY <1>4, <1>5, <1>10, <2>1 DEF ZeroReview
  <2> QED
    BY <1>1, <1>2, <1>3, <2>1, <2>2 DEF StageInv, StateInv
<1>11. CASE ZeroOutput
  <2>1. zero.at = "output" /\ tf' = tf
    BY <1>11 DEF ZeroOutput
  <2>2. zero' \in [at : Scripts, fresh : SUBSET Infrastructure] /\ zero'.fresh = {} /\ zero'.at = "migrate"
    BY <1>4, <1>5, <1>11, <2>1 DEF ZeroOutput
  <2> QED
    BY <1>1, <1>2, <1>3, <2>1, <2>2 DEF StageInv, StateInv
<1>12. CASE ZeroCached
  <2>1. /\ zero.at = "cached" /\ tf' = tf /\ disk' = disk
        /\ (Migrated /\ Reach("network")) \/ (~Migrated /\ Reach("migrate"))
    BY <1>12 DEF ZeroCached
  <2>2. /\ zero' \in [at : Scripts, fresh : SUBSET Infrastructure] /\ zero'.fresh = {}
        /\ \/ zero'.at = "network" /\ Bootstrap \subseteq tf.remote
           \/ zero'.at = "migrate" /\ Bootstrap \subseteq tf.local
    <3>1. IF Migrated THEN Bootstrap \subseteq tf.remote ELSE Bootstrap \subseteq tf.local
      BY <2>1 DEF StageInv, StateInv, Migrated, Bootstrap, Importable, Named
    <3> QED
      BY <1>4, <1>5, <2>1, <3>1
  <2> QED
    BY <1>1, <1>2, <1>3, <2>1, <2>2 DEF StageInv, StateInv
<1>13. CASE ZeroMigrate
  <2>1. /\ zero.at = "migrate" /\ tf'.remote = tf.remote \cup tf.local /\ tf'.local = tf.local
    BY <1>13 DEF ZeroMigrate, TypeOK
  <2>2. zero' \in [at : Scripts, fresh : SUBSET Infrastructure] /\ zero'.fresh = {} /\ zero'.at = "erase"
    BY <1>4, <1>5, <1>13, <2>1 DEF ZeroMigrate
  <2>3. Output \in disk' <=> Output \in disk
    BY <1>1, <2>1 DEF ZeroOutput
  <2> QED
    BY <1>1, <1>2, <1>3, <2>1, <2>2, <2>3 DEF StageInv, StateInv
<1>14. CASE ZeroErase
  <2>1. /\ zero.at = "erase" /\ tf'.remote = tf.remote /\ tf'.local = {} /\ disk' = disk
    BY <1>14 DEF ZeroErase, TypeOK
  <2>2. zero' \in [at : Scripts, fresh : SUBSET Infrastructure] /\ zero'.fresh = {} /\ zero'.at = "network"
    BY <1>4, <1>5, <1>14, <2>1 DEF ZeroErase
  <2> QED
    BY <1>1, <1>2, <1>3, <2>1, <2>2 DEF StageInv, StateInv
<1>15. CASE ZeroRefuse
  <2>1. zero' = [at |-> "failed", fresh |-> {}] /\ tf' = tf /\ disk' = disk
    BY <1>15 DEF ZeroRefuse
  <2> QED
    BY <1>1, <1>2, <1>3, <2>1 DEF StageInv, StateInv, Resting
<1> QED
  BY <1>6, <1>7, <1>8, <1>9, <1>10, <1>11, <1>12, <1>13, <1>14, <1>15 DEF ZeroRun, ZeroStep

LEMMA StageOfZero ==
  ASSUME TypeOK, StageInv, ZeroRun
  PROVE  StageInv'
<1>1. /\ zero.at \notin Resting
      /\ UNCHANGED <<stages, run, cloud.recorder, cloud.host>>
      /\ \A f \in {Directory, Session, Checkpoint} : f \in disk' <=> f \in disk
  BY ZeroFrame
<1>2. Infrastructure' = Infrastructure
  BY <1>1, SameResources
<1>3. /\ zero' \in [at : Scripts, fresh : SUBSET Infrastructure]
      /\ zero'.at \notin Applying => zero'.fresh = {}
      /\ StateInv'
  <2>1. ZeroCreate \/ ZeroRecord => zero.at \in Applying
    BY DEF ZeroCreate, ZeroRecord
  <2> QED
    BY <2>1, ZeroOfTerraform, ZeroOfScript
<1>4. ScriptInv'
  BY <1>1, <1>2, <1>3 DEF StageInv, ScriptInv
<1>5. HostInv'
  BY <1>1 DEF StageInv, HostInv
<1> QED
  BY <1>3, <1>4, <1>5 DEF StageInv

-----------------------------------------------------------------------------
(* The types.  Those of the invocation, of the script and of the requests  *)
(* are parts of the invariant; the rest is Kinds.                          *)
Kinds ==
  /\ disk \subseteq Files
  /\ stages \in [{"infrastructure", "ops_access", "vault"} -> Statuses]
  /\ cloud \in [made : SUBSET Infrastructure, keys : 0..2, recorder : {"foreign", "none"},
                host : BOOLEAN, runner : BOOLEAN, admin : BOOLEAN,
                build : {"none", "running", "succeeded", "failed"}]
  /\ flight \subseteq Requests \cup {"ops"}
  /\ tf \in [local : SUBSET Bootstrap, remote : SUBSET Infrastructure]
  /\ outcome \in {"none", "error", "failed", "killed", "limit", "platform_failed", "authority_revoked"}
  /\ spoiled \in BOOLEAN

LEMMA TypeParts == Kinds /\ RunInv /\ StageInv /\ VaultInv => TypeOK
<1> SUFFICES ASSUME Kinds, RunInv, StageInv, VaultInv PROVE TypeOK
  OBVIOUS
<1>1. requests \in [Requests -> 0..2]
  BY DEF VaultInv, RequestInv
<1>2. zero.fresh \subseteq Infrastructure
  BY DEF StageInv, ScriptInv
<1>3. run.cmd \in Commands \cup {"none"} /\ run.turn \in 0..(Turns - 1)
  BY DEF RunInv
<1> QED
  BY <1>1, <1>2, <1>3 DEF Kinds, TypeOK

LEMMA AllFiles ==
  /\ {Directory, Checkpoint, Temp, OpsPlan, Session, Module, Disabled, LocalState, Output} \subseteq Files
  /\ \A p \in {"marker", "manifest", "receipt"} : Mirror(p) \in Files
  /\ \A ph \in Phases : {Plan(ph), Attempt(ph), Success(ph), Written(ph)} \subseteq Files
  /\ \A p \in {"intent", "build", "succeeded", "failed"} : Platform(p) \in Files
  /\ \A ph \in Phases, op \in {"plan", "apply", "reconcile"} : Work(ph, op) \in Files
BY DEF Files, StageFiles, ZeroFiles, MirrorFiles, Verdicts

LEMMA KindsOfStages ==
  ASSUME TypeOK, RunInv, StageStep
  PROVE  Kinds'
<1>1. UNCHANGED <<cloud, tf>> /\ flight' \subseteq flight \cup {"ops"}
  BY DEF StageStep, CreateCheckpoint, Note, PassGate, InfraPrepared, OpsPrepared, Begin, InfraRequest,
     InfraReturns, OpsPlans, OpsPlanned, OpsRequest, OpsHandoff, OpsApplied, OpsVerified, Still
<1>2. disk' \subseteq disk \cup {Checkpoint, OpsPlan, Session}
  BY DEF StageStep, CreateCheckpoint, Note, PassGate, InfraPrepared, OpsPrepared, Begin, InfraRequest,
     InfraReturns, OpsPlans, OpsPlanned, OpsRequest, OpsHandoff, OpsApplied, OpsVerified, Still
<1>3. \/ stages' = stages
      \/ stages' = [stages EXCEPT !["infrastructure"] = "awaiting_input"]
      \/ stages' = [stages EXCEPT ![StageOf(run.cmd)] = "running"]
      \/ stages' = [stages EXCEPT ![StageOf(run.cmd)] = "awaiting_input"]
      \/ stages' = [stages EXCEPT ![StageOf(run.cmd)] = "complete"]
  BY DEF StageStep, CreateCheckpoint, Note, PassGate, InfraPrepared, OpsPrepared, Begin, InfraRequest,
     InfraReturns, OpsPlans, OpsPlanned, OpsRequest, OpsHandoff, OpsApplied, OpsVerified, Close, Still
<1>4. outcome' = outcome \/ outcome' = "none"
  <2>1. run.cmd = "guided" => PassGate
    BY DEF StageStep, CreateCheckpoint, Note, PassGate, InfraPrepared, OpsPrepared, Begin, InfraRequest,
       InfraReturns, OpsPlans, OpsPlanned, OpsRequest, OpsHandoff, OpsApplied, OpsVerified, At, RunInv,
       FrontCommands, InfraCommands
  <2> QED
    BY <2>1 DEF StageStep, CreateCheckpoint, Note, PassGate, InfraPrepared, OpsPrepared, Begin, InfraRequest,
       InfraReturns, OpsPlans, OpsPlanned, OpsRequest, OpsHandoff, OpsApplied, OpsVerified, Close, Ends,
       Outcome
<1>5. spoiled' \in BOOLEAN
  BY DEF StageStep, CreateCheckpoint, Note, PassGate, InfraPrepared, OpsPrepared, Begin, InfraRequest,
     InfraReturns, OpsPlans, OpsPlanned, OpsRequest, OpsHandoff, OpsApplied, OpsVerified, Close, Still, TypeOK
<1>6. Infrastructure' = Infrastructure
  BY <1>1, SameResources
<1>7. stages' \in [{"infrastructure", "ops_access", "vault"} -> Statuses]
  BY <1>3 DEF TypeOK, Statuses
<1> QED
  BY <1>1, <1>2, <1>4, <1>5, <1>6, <1>7, AllFiles DEF Kinds, TypeOK

LEMMA KindsOfZero ==
  ASSUME TypeOK, StageInv, ZeroRun
  PROVE  Kinds'
<1>1. UNCHANGED <<stages, run, outcome, spoiled, flight, cloud.recorder>>
  BY ZeroFrame DEF ZeroRun, ZeroStep, ZeroOpen, ZeroDisable, ZeroImport, ZeroPlan, ZeroCreate, ZeroRecord,
     ZeroApplied, ZeroReview, ZeroOutput, ZeroCached, ZeroMigrate, ZeroErase, ZeroRefuse, Elsewhere
<1>2. Infrastructure' = Infrastructure
  BY <1>1, SameResources
<1>3. disk' \subseteq disk \cup {Module, Disabled, LocalState, Output}
  BY DEF ZeroRun, ZeroStep, ZeroOpen, ZeroDisable, ZeroImport, ZeroPlan, ZeroCreate, ZeroRecord,
     ZeroApplied, ZeroReview, ZeroOutput, ZeroCached, ZeroMigrate, ZeroErase, ZeroRefuse
<1>4. cloud' \in [made : SUBSET Infrastructure, keys : 0..2, recorder : {"foreign", "none"},
                  host : BOOLEAN, runner : BOOLEAN, admin : BOOLEAN,
                  build : {"none", "running", "succeeded", "failed"}]
  <2>1. CASE ZeroCreate
    <3>1. PICK r \in Infrastructure :
            cloud' = [cloud EXCEPT !.made = @ \cup {r},
                        !.keys = IF r = "key" /\ @ < 2 THEN @ + 1 ELSE @]
      BY <2>1, PlannedThere DEF ZeroCreate
    <3>2. cloud.made \cup {r} \in SUBSET Infrastructure
      BY DEF TypeOK
    <3>3. (IF r = "key" /\ cloud.keys < 2 THEN cloud.keys + 1 ELSE cloud.keys) \in 0..2
      BY DEF TypeOK
    <3> QED
      BY <3>1, <3>2, <3>3 DEF TypeOK
  <2>2. CASE ~ZeroCreate
    BY <2>2 DEF ZeroRun, ZeroStep, ZeroOpen, ZeroDisable, ZeroImport, ZeroPlan, ZeroRecord, ZeroApplied,
       ZeroReview, ZeroOutput, ZeroCached, ZeroMigrate, ZeroErase, ZeroRefuse, Elsewhere, TypeOK
  <2> QED
    BY <2>1, <2>2
<1>5. tf' \in [local : SUBSET Bootstrap, remote : SUBSET Infrastructure]
  <2>1. CASE ZeroImport \/ ZeroRecord
    <3>1. zero.at = "bootstrap" => zero.fresh \subseteq Bootstrap
      BY DEF StageInv, StateInv
    <3> QED
      BY <2>1, <3>1 DEF ZeroImport, ZeroRecord, TypeOK, Bootstrap, Infrastructure
  <2>2. CASE ~ZeroImport /\ ~ZeroRecord
    <3>1. \/ tf' = tf \/ tf' = [tf EXCEPT !.remote = @ \cup tf.local] \/ tf' = [tf EXCEPT !.local = {}]
      BY <2>2 DEF ZeroRun, ZeroStep, ZeroOpen, ZeroDisable, ZeroPlan, ZeroCreate, ZeroApplied,
         ZeroReview, ZeroOutput, ZeroCached, ZeroMigrate, ZeroErase, ZeroRefuse
    <3>2. tf.remote \cup tf.local \in SUBSET Infrastructure
      BY DEF TypeOK, Infrastructure
    <3> QED
      BY <3>1, <3>2 DEF TypeOK
  <2> QED
    BY <2>1, <2>2
<1> QED
  BY <1>1, <1>2, <1>3, <1>4, <1>5, AllFiles DEF Kinds, TypeOK

Outcomes == {"none", "error", "failed", "killed", "limit", "platform_failed", "authority_revoked"}
LEMMA OutcomeOf ==
  ASSUME NEW result \in Outcomes \cup {"done"}, Ends(result), run.cmd = "guided" => result # "done"
  PROVE  outcome' \in Outcomes
BY DEF Ends, Outcome, Outcomes

(* What ends a task is of the right kind when its files are.               *)
LEMMA KindsOfTask ==
  ASSUME TypeOK, NEW files \in SUBSET Files, TaskDone(files)
  PROVE  Kinds'
<1>1. /\ disk' = files /\ UNCHANGED <<cloud, flight, tf, spoiled>>
      /\ stages' = stages \/ stages' = [stages EXCEPT !["vault"] = "awaiting_input"]
  BY DEF TaskDone
<1>2. outcome' \in Outcomes
  <2>1. \/ outcome' = outcome \/ (run.cmd # "guided" /\ Ends("done"))
        \/ (run.cmd = "guided" /\ (Ends("platform_failed") \/ Ends("limit")))
    BY DEF TaskDone
  <2>2. outcome \in Outcomes
    BY DEF TypeOK, Outcomes
  <2> QED
    BY <2>1, <2>2, OutcomeOf DEF Outcomes
<1>3. Infrastructure' = Infrastructure
  BY <1>1, SameResources
<1>4. stages' \in [{"infrastructure", "ops_access", "vault"} -> Statuses]
  BY <1>1 DEF TypeOK, Statuses
<1> QED
  BY <1>1, <1>2, <1>3, <1>4 DEF Kinds, TypeOK, Outcomes

LEMMA KindsOfStep ==
  ASSUME TypeOK, RunInv, VaultInv, Step, ~Refuse
  PROVE  Kinds'
<1> DEFINE Finishes == MirrorReceipt \/ PlanPublish \/ ApplyRecorded \/ PlatformKnown \/ PlatformVerdict
<1>1. /\ PlanOpen \/ PlanPublish \/ ApplyOpen \/ ApplyRequest \/ ApplyReturns \/ ApplyRecorded =>
           run.ph \in Phases
      /\ disk \subseteq Files
  BY DEF PlanOpen, PlanPublish, ApplyOpen, ApplyRequest, ApplyReturns, ApplyRecorded, At, RunInv, TypeOK
<1>2. CASE Finishes
  <2>1. PlatformVerdict => cloud.build \in {"succeeded", "failed"}
    BY DEF TypeOK, PlatformVerdict, Refused, StillRunning, At, VaultInv, RequestInv
  <2>2. CASE MirrorReceipt
    BY <1>1, <2>2, AllFiles, KindsOfTask DEF MirrorReceipt
  <2>3. CASE PlanPublish
    <3>1. (IF run.ph = "prepare" THEN disk ELSE disk \ {Work(run.ph, "plan")}) \cup {Plan(run.ph)} \subseteq Files
      BY <1>1, <2>3, AllFiles
    <3> QED
      BY <2>3, <3>1, KindsOfTask DEF PlanPublish
  <2>4. CASE ApplyRecorded
    BY <1>1, <2>4, AllFiles, KindsOfTask DEF ApplyRecorded
  <2>5. CASE PlatformKnown
    BY <1>1, <2>5, AllFiles, KindsOfTask DEF PlatformKnown
  <2>6. CASE PlatformVerdict
    BY <1>1, <2>1, <2>6, AllFiles, KindsOfTask DEF PlatformVerdict
  <2> QED
    BY <1>2, <2>2, <2>3, <2>4, <2>5, <2>6
<1>3. CASE ~Finishes
  <2>1. UNCHANGED <<stages, cloud, tf, spoiled>>
    BY <1>3 DEF Step, Choose, Conclude, MirrorBegin, MirrorManifest, PlanOpen, ApplyOpen, ApplyRequest,
       ApplyReturns, PlatformOpen, PlatformReconciled, PlatformResume, PlatformStart, PlatformStarted, Quiet
  <2>2. outcome' = outcome \/ Ends("authority_revoked")
    BY <1>3 DEF Step, Choose, Conclude, MirrorBegin, MirrorManifest, PlanOpen, ApplyOpen, ApplyRequest,
       ApplyReturns, PlatformOpen, PlatformReconciled, PlatformResume, PlatformStart, PlatformStarted
  <2>3. outcome' \in Outcomes
    BY <2>2, OutcomeOf DEF TypeOK, Outcomes
  <2>4. flight' \subseteq Requests \cup {"ops"}
    BY <1>1, <1>3 DEF Step, Choose, Conclude, MirrorBegin, MirrorManifest, PlanOpen, ApplyOpen, ApplyRequest,
       ApplyReturns, PlatformOpen, PlatformReconciled, PlatformResume, PlatformStart, PlatformStarted, Quiet,
       Send, Requests, TypeOK
  <2>5. disk' \subseteq Files
    <3>1. CASE Choose \/ Conclude \/ PlatformResume
      BY <1>1, <3>1 DEF Choose, Conclude, PlatformResume
    <3>2. CASE MirrorBegin \/ MirrorManifest
      BY <1>1, <3>2, AllFiles DEF MirrorBegin, MirrorManifest
    <3>3. CASE PlanOpen \/ ApplyOpen \/ ApplyRequest \/ ApplyReturns
      BY <1>1, <3>3, AllFiles DEF PlanOpen, ApplyOpen, ApplyRequest, ApplyReturns
    <3>4. CASE PlatformOpen \/ PlatformReconciled \/ PlatformStart \/ PlatformStarted
      <4>1. Work("grant", "reconcile") \in Files
        BY AllFiles DEF Phases
      <4> QED
        BY <1>1, <3>4, <4>1, AllFiles DEF PlatformOpen, PlatformReconciled, PlatformStart, PlatformStarted
    <3> QED
      BY <1>3, <3>1, <3>2, <3>3, <3>4 DEF Step
  <2>6. Infrastructure' = Infrastructure
    BY <2>1, SameResources
  <2> QED
    BY <2>1, <2>3, <2>4, <2>5, <2>6 DEF Kinds, TypeOK, Outcomes
<1> QED
  BY <1>2, <1>3

LEMMA KindsOfEnds ==
  ASSUME TypeOK, Refuse \/ Fail \/ Kill
  PROVE  Kinds'
<1>1. UNCHANGED <<cloud, tf>> /\ flight' \subseteq flight /\ disk' \subseteq disk \cup {Temp}
  BY DEF Refuse, Fail, Kill, Tidied
<1>2. \/ stages' = stages
      \/ stages' = [stages EXCEPT ![StageOf(run.cmd)] = "failed"]
      \/ stages' = [stages EXCEPT ![StageOf(run.cmd)] = "awaiting_input"]
  BY DEF Refuse, Fail, Kill, Aborted
<1>3. stages' \in [{"infrastructure", "ops_access", "vault"} -> Statuses]
  BY <1>2 DEF TypeOK, Statuses
<1>4. outcome' \in Outcomes
  BY OutcomeOf DEF Refuse, Fail, Kill, Outcomes
<1>5. spoiled' \in BOOLEAN
  BY DEF Refuse, Fail, Kill, TypeOK
<1>6. Infrastructure' = Infrastructure
  BY <1>1, SameResources
<1> QED
  BY <1>1, <1>3, <1>4, <1>5, <1>6, AllFiles DEF Kinds, TypeOK, Outcomes

LEMMA KindsOfRest ==
  ASSUME TypeOK,
         \/ \E cmd \in Commands : Invoke(cmd) \/ (Blocked(cmd) /\ UNCHANGED requests)
         \/ LandHost \/ BuildEnds \/ (\E r \in Requests : Land(r))
         \/ vars' = vars
  PROVE  Kinds'
<1>1. /\ UNCHANGED <<stages, tf, spoiled>> /\ flight' \subseteq flight /\ disk' \subseteq disk \cup {Directory}
  BY DEF Invoke, Start, Resume, Takes, Still, Blocked, LandHost, BuildEnds, Land, vars, stageVars
<1>2. outcome' \in Outcomes
  BY DEF Invoke, Start, Resume, Takes, Still, Blocked, Outcome, LandHost, BuildEnds, Land, vars, stageVars,
     Outcomes, TypeOK
<1>3. /\ cloud' \in [made : SUBSET Infrastructure, keys : 0..2, recorder : {"foreign", "none"},
                host : BOOLEAN, runner : BOOLEAN, admin : BOOLEAN,
                build : {"none", "running", "succeeded", "failed"}]
      /\ cloud'.recorder = cloud.recorder
  <2>1. \/ cloud' = cloud \/ cloud' = [cloud EXCEPT !.host = TRUE]
        \/ (\E b \in {"running", "succeeded", "failed"} : cloud' = [cloud EXCEPT !.build = b])
        \/ cloud' = [cloud EXCEPT !.runner = TRUE]
        \/ (\E a \in BOOLEAN : cloud' = [cloud EXCEPT !.admin = a])
    BY DEF Invoke, Start, Resume, Takes, Still, Blocked, LandHost, BuildEnds, Land, vars, stageVars
  <2> QED
    BY <2>1 DEF TypeOK
<1>4. Infrastructure' = Infrastructure
  BY <1>3, SameResources
<1> QED
  BY <1>1, <1>2, <1>3, <1>4, AllFiles DEF Kinds, TypeOK, Outcomes

-----------------------------------------------------------------------------
(* The invariant, and what follows from it.                                *)

LEMMA InitInv == Init => IndInv
<1> SUFFICES ASSUME Init PROVE IndInv
  OBVIOUS
<1>1. /\ disk = {} /\ flight = {} /\ run = Idle /\ outcome = "none" /\ spoiled = FALSE
      /\ stages = [s \in {"infrastructure", "ops_access", "vault"} |-> "pending"]
      /\ tf = [local |-> {}, remote |-> {}] /\ zero = [at |-> "none", fresh |-> {}]
      /\ requests = [r \in Requests |-> 0]
  BY DEF Init, StagesInit, ZeroInit
<1>2. PICK recorder \in {"foreign", "none"} :
        cloud = [made |-> {}, keys |-> 0, recorder |-> recorder, host |-> FALSE,
                 runner |-> FALSE, admin |-> FALSE, build |-> "none"]
  BY DEF Init, StagesInit
<1>3. Kinds
  <2>1. cloud \in [made : SUBSET Infrastructure, keys : 0..2, recorder : {"foreign", "none"},
                  host : BOOLEAN, runner : BOOLEAN, admin : BOOLEAN,
                  build : {"none", "running", "succeeded", "failed"}]
    BY <1>2
  <2>2. tf \in [local : SUBSET Bootstrap, remote : SUBSET Infrastructure]
    BY <1>1
  <2>3. stages \in [{"infrastructure", "ops_access", "vault"} -> Statuses]
    BY <1>1 DEF Statuses
  <2> QED
    BY <1>1, <2>1, <2>2, <2>3 DEF Kinds
<1>4. RunInv
  BY <1>1, TurnsAssumption
  DEF RunInv, Idle, Commands, Operations, Points, Opening, Vaulted, VaultCommands
<1>5. StageInv
  BY <1>1, <1>2 DEF StageInv, ScriptInv, StateInv, HostInv, Idle, Scripts, Resting, Applying, Bootstrap,
     Importable, Named
<1>6. Attempted = {} /\ Succeeded = {} /\ Attested = {} /\ Told = {}
  BY <1>1 DEF Attempted, Succeeded, Attested, Told
<1>7. VaultInv
  BY <1>1, <1>2, <1>6 DEF VaultInv, RequestInv, ApplyInv, AuthorityInv, Idle, At, Requests, Phases, Judged
<1> QED
  BY <1>3, <1>4, <1>5, <1>7, TypeParts DEF IndInv

LEMMA TypePartsNext == (Kinds /\ RunInv /\ StageInv /\ VaultInv => TypeOK)'
<1>1. Kinds /\ RunInv /\ StageInv /\ VaultInv => TypeOK
  BY TypeParts
<1> QED
  BY <1>1, PTL

LEMMA NextInv == IndInv /\ [Next]_vars => IndInv'
<1> SUFFICES ASSUME TypeOK, RunInv, StageInv, VaultInv, [Next]_vars
             PROVE  Kinds' /\ RunInv' /\ StageInv' /\ VaultInv'
  BY TypePartsNext DEF IndInv
<1>1. /\ Checkpoint \in disk => Directory \in disk
      /\ Directory \in disk \/ run.cmd = "none"
  BY DEF StageInv, ScriptInv, RunInv
<1>2. ASSUME NEW cmd \in Commands, Invoke(cmd)
      PROVE  Kinds' /\ RunInv' /\ StageInv' /\ VaultInv'
  BY <1>1, <1>2, VaultInvoke, StageOfInvoke, KindsOfRest
<1>3. CASE vars' = vars \/ \E cmd \in Commands : Blocked(cmd) /\ UNCHANGED requests
  BY <1>3, VaultBlocked, StageOfBlocked, KindsOfRest
<1>4. CASE Earlier
  <2>1. RunInv' /\ VaultInv'
    BY <1>1, <1>4, VaultEarlier
  <2>2. CASE StageStep
    <3>1. Kinds'
      BY <2>2, KindsOfStages
    <3>2. StageInv'
      BY <2>2, StageQuiet, StageInfra, StageOps DEF StageStep
    <3> QED
      BY <2>1, <3>1, <3>2
  <2>3. CASE ZeroRun
    BY <2>1, <2>3, KindsOfZero, StageOfZero
  <2>4. CASE LandHost
    BY <2>1, <2>4, KindsOfRest, StageOfLand
  <2> QED
    BY <1>4, <2>2, <2>3, <2>4 DEF Earlier
<1>5. CASE Refuse \/ Fail \/ Kill
  BY <1>5, VaultEnds, StageOfEnds, KindsOfEnds
<1>6. CASE Step /\ ~Refuse
  BY <1>6, VaultStep, StageOfStep, KindsOfStep
<1>7. CASE BuildEnds
  BY <1>7, VaultBuildEnds, StageOfLand, KindsOfRest
<1>8. CASE \E r \in Requests : Land(r)
  BY <1>8, VaultLands, StageOfLand, KindsOfRest
<1> QED
  BY <1>2, <1>3, <1>4, <1>5, <1>6, <1>7, <1>8 DEF Next

(* The inductive invariant holds in every state of the specification,      *)
(* whatever faults occur and however long a continuation may go on.        *)
THEOREM Invariance == Spec => []IndInv
BY InitInv, NextInv, PTL DEF Spec

(* The files, the checkpoint, the account and the invocation only ever     *)
(* have the values that the code gives them.                               *)
THEOREM TypeCorrect == Spec => []TypeOK
<1>1. IndInv => TypeOK
  BY DEF IndInv
<1> QED
  BY <1>1, Invariance, PTL

(* While the platform build runs, the grant it works under is in place: the *)
(* continuation revokes it only with the build's verdict on disk           *)
(* (interactive_deploy.py:138-160).                                        *)
THEOREM AuthorityCovers == Spec => []AuthorityCoversBuild
<1>1. IndInv => AuthorityCoversBuild
  BY DEF IndInv, VaultInv, AuthorityInv, AuthorityCoversBuild
<1> QED
  BY <1>1, Invariance, PTL

(* No apply and no build is sent twice and no second key is made, for the  *)
(* attempt and intent files, and the import of what has the project's      *)
(* tags, come first (installer_vault_authority.py:195-197,                 *)
(* installer_vault_platform.py:91-99, node-operator-release.sh:489-492).   *)
THEOREM NothingRepeated == Spec => []NeverRepeated
<1>1. IndInv => NeverRepeated
  BY DEF IndInv, VaultInv, RequestInv, StageInv, StateInv, TypeOK, NeverRepeated
<1> QED
  BY <1>1, Invariance, PTL

(* Every record claims only what has happened in the account, and what has *)
(* happened there was announced on disk before it could.                   *)
THEOREM EvidenceTrue == Spec => []EvidenceIsTrue
<1>1. IndInv => EvidenceIsTrue
  <2> SUFFICES ASSUME TypeOK, RunInv, StageInv, VaultInv PROVE EvidenceIsTrue
    BY DEF IndInv
  <2>1. /\ stages["infrastructure"] = "complete" =>
             Infrastructure \subseteq tf.remote /\ tf.remote \subseteq cloud.made
        /\ Output \in disk => Bootstrap \subseteq tf.local \/ Bootstrap \subseteq tf.remote
        /\ stages["ops_access"] = "complete" => cloud.host /\ Session \in disk
    BY DEF StageInv, StateInv, HostInv
  <2>2. \A ph \in Phases : (Attempt(ph) \in disk <=> ph \in Attempted) /\ (Success(ph) \in disk <=> ph \in Succeeded)
    BY SettledFiles
  <2>3. \A p \in {"intent", "build", "succeeded", "failed"} : Platform(p) \in disk <=> p \in Told
    BY DEF Told
  <2>4. /\ Success("prepare") \in disk => cloud.runner
        /\ Success("grant") \in disk => cloud.admin \/ Attempt("revoke") \in disk
        /\ Success("revoke") \in disk => ~cloud.admin
        /\ cloud.runner => Attempt("prepare") \in disk
        /\ cloud.admin => Attempt("grant") \in disk
    BY <2>2 DEF VaultInv, ApplyInv, AuthorityInv, Phases
  <2>5. /\ \A v \in {"succeeded", "failed"} : Platform(v) \in disk => cloud.build = v
        /\ cloud.build # "none" => Platform("intent") \in disk
    BY <2>3 DEF VaultInv, RequestInv
  <2> QED
    BY <2>1, <2>4, <2>5 DEF EvidenceIsTrue
<1> QED
  BY <1>1, Invariance, PTL
=============================================================================
