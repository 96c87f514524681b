------------------------- MODULE PlatformBootstrap -------------------------
(***************************************************************************)
(* The platform bootstrap of an interactive release: six phases with a     *)
(* durable record each, run by one script under a lock that its children   *)
(* inherit.  Two phases are CodeBuild builds, followed by a monitor with   *)
(* its own lock and its own record; the last phase takes the temporary     *)
(* cluster-admin runners away.                                             *)
(***************************************************************************)
EXTENDS Naturals

CONSTANT PlatformFaults \* what may go wrong: "error", "kill", "build" (fails)

ASSUME PlatformFaultsAssumption == PlatformFaults \subseteq {"error", "kill", "build"}

VARIABLES replay,   \* checkpoint.json: the status of every phase
          handle,   \* the record of each build
          platform, \* the script: where it is, and in which phase
          monitor,  \* the follower of each build; "hand": a manual retry
          flight,   \* requests of a child that have not taken effect
          cluster   \* the runners that hold cluster-admin, and the builds

platformVars == <<replay, handle, platform, monitor, flight, cluster>>

Phases == {"argocd_apply", "argocd_build", "tls_ready",
           "vault_apply", "vault_build", "revoke_complete"}
Runners == {"argocd", "vault"}
Applies == {"argocd_apply", "vault_apply", "revoke_complete"} \* terraform
Order == [argocd_apply |-> 1, argocd_build |-> 2, tls_ready |-> 3,
          vault_apply |-> 4, vault_build |-> 5, revoke_complete |-> 6]
Runner == [argocd_apply |-> "argocd", argocd_build |-> "argocd",
           vault_apply |-> "vault", vault_build |-> "vault"]
StartOf == [argocd |-> "argocd_build", vault |-> "vault_build"] \* the request

PlatformInit ==
  /\ replay = [ph \in Phases |-> "absent"]
  /\ handle = [b \in Runners |-> "none"]
  /\ platform = [at |-> "idle", ph |-> "none"]
  /\ monitor = [b \in Runners |-> [at |-> "idle", hand |-> FALSE]]
  /\ flight = {}
  /\ cluster = [granted |-> {}, build |-> [b \in Runners |-> "none"]]

-----------------------------------------------------------------------------
(* The whole-platform lock is an flock on a descriptor that bash, python   *)
(* and terraform inherit: it is held as long as one of them lives.         *)
\* Mutant: the lock is the script's alone.
PlatformLocked_NotInherited == platform.at \notin {"idle", "ok", "failed"}
PlatformLocked ==
  \/ platform.at \notin {"idle", "ok", "failed"}
  \/ flight \cap Applies # {}
  \/ \E b \in Runners : monitor[b].at # "idle" /\ ~monitor[b].hand

PlatformAt(at) == platform' = [platform EXCEPT !.at = at]

(* The script goes on with the first phase that is not complete.           *)
OpenPhases(status) == {ph \in Phases : status[ph] # "complete"}
GoOn(status) ==
  platform' =
    IF status["revoke_complete"] = "complete"
    THEN [platform EXCEPT !.at = "ok"]
    ELSE [at |-> "phase",
          ph |-> CHOOSE ph \in OpenPhases(status) :
                   \A other \in OpenPhases(status) : Order[ph] <= Order[other]]

(* Started by the release script with PLATFORM-BOOTSTRAP confirmed.        *)
PlatformBegin ==
  /\ platform.at = "idle"
  /\ PlatformAt(IF PlatformLocked THEN "failed" ELSE "verify")
  /\ UNCHANGED <<replay, handle, monitor, flight, cluster>>
(* The checkpoint exists only once the images, the session and the inputs  *)
(* have been verified.                                                     *)
Initialized == replay["revoke_complete"] # "absent"
PlatformVerified ==
  /\ platform.at = "verify"
  /\ replay' = IF Initialized THEN replay ELSE [ph \in Phases |-> "new"]
  /\ GoOn(replay')
  /\ UNCHANGED <<handle, monitor, flight, cluster>>

PhaseIntent ==
  /\ platform.at = "phase"
  /\ replay' = [replay EXCEPT ![platform.ph] = "intent"]
  /\ PlatformAt("act")
  /\ UNCHANGED <<handle, monitor, flight, cluster>>

(* A plan of an earlier attempt is discarded and made anew.                *)
PhaseApply ==
  /\ platform.at = "act" /\ platform.ph \in Applies
  /\ flight' = flight \cup {platform.ph}
  /\ PlatformAt("applying")
  /\ UNCHANGED <<replay, handle, monitor, cluster>>
ApplyReturned ==
  /\ platform.at = "applying" /\ platform.ph \notin flight
  /\ PlatformAt("record")
  /\ UNCHANGED <<replay, handle, monitor, flight, cluster>>

PhaseTls ==
  /\ platform.at = "act" /\ platform.ph = "tls_ready"
  /\ PlatformAt("record")
  /\ UNCHANGED <<replay, handle, monitor, flight, cluster>>

(* The monitor's own lock keeps a second one out.                          *)
PhaseBuild ==
  /\ platform.at = "act" /\ platform.ph \in {"argocd_build", "vault_build"}
  /\ IF monitor[Runner[platform.ph]].at = "idle"
     THEN /\ monitor' = [monitor EXCEPT ![Runner[platform.ph]] = [at |-> "open", hand |-> FALSE]]
          /\ PlatformAt("building")
     ELSE PlatformAt("failed") /\ UNCHANGED monitor
  /\ UNCHANGED <<replay, handle, flight, cluster>>

PhaseComplete ==
  /\ platform.at = "record"
  /\ replay' = [replay EXCEPT ![platform.ph] = "complete"]
  /\ GoOn(replay')
  /\ UNCHANGED <<handle, monitor, flight, cluster>>

(* A command fails: the child has ended, its effect is there or not.       *)
PlatformFails ==
  /\ "error" \in PlatformFaults
  /\ platform.at \in {"verify", "phase", "act", "applying", "record"}
  /\ PlatformAt("failed")
  /\ flight' = flight \ ({platform.ph} \cap Applies)
  /\ UNCHANGED <<replay, handle, monitor, cluster>>
(* Only the script is killed: terraform or the monitor goes on without it. *)
PlatformKilled ==
  /\ "kill" \in PlatformFaults
  /\ platform.at \in {"verify", "phase", "act", "applying", "building", "record"}
  /\ PlatformAt("failed")
  /\ UNCHANGED <<replay, handle, monitor, flight, cluster>>

-----------------------------------------------------------------------------
(* platform_bootstrap_build.py                                             *)

Waits(b) == platform.at = "building" /\ Runner[platform.ph] = b
MonitorEnds(b, at) ==
  /\ monitor' = [monitor EXCEPT ![b] = [at |-> "idle", hand |-> FALSE]]
  /\ IF Waits(b) THEN PlatformAt(at) ELSE UNCHANGED platform
MonitorAt(b, at) == monitor' = [monitor EXCEPT ![b].at = at]

(* The intent is on disk before the request is sent.                       *)
\* Mutant: the start is requested first and recorded with its answer.
MonitorStart_NoIntent(b) ==
  /\ monitor[b].at = "open" /\ handle[b] = "none"
  /\ flight' = flight \cup {StartOf[b]}
  /\ MonitorAt(b, "starting")
  /\ UNCHANGED <<replay, handle, platform, cluster>>
MonitorStart(b) ==
  /\ monitor[b].at = "open" /\ handle[b] = "none"
  /\ handle' = [handle EXCEPT ![b] = "start-intent"]
  /\ flight' = flight \cup {StartOf[b]}
  /\ MonitorAt(b, "starting")
  /\ UNCHANGED <<replay, platform, cluster>>
(* An intent without a build ID: the outcome of the start is uncertain.    *)
MonitorRefuses(b) ==
  /\ monitor[b].at = "open" /\ handle[b] = "start-intent"
  /\ MonitorEnds(b, "failed")
  /\ UNCHANGED <<replay, handle, flight, cluster>>
MonitorResumes(b) ==
  /\ monitor[b].at = "open" /\ handle[b] \notin {"none", "start-intent"}
  /\ MonitorAt(b, "poll")
  /\ UNCHANGED <<replay, handle, platform, flight, cluster>>
\* Mutant: the start's success is taken for the build's.
MonitorStarted_Returns(b) ==
  /\ monitor[b].at = "starting" /\ StartOf[b] \notin flight
  /\ handle' = [handle EXCEPT ![b] = "running"]
  /\ MonitorEnds(b, "record")
  /\ UNCHANGED <<replay, flight, cluster>>
MonitorStarted(b) ==
  /\ monitor[b].at = "starting" /\ StartOf[b] \notin flight
  /\ handle' = [handle EXCEPT ![b] = "running"]
  /\ MonitorAt(b, "poll")
  /\ UNCHANGED <<replay, platform, flight, cluster>>
MonitorVerdict(b) ==
  /\ monitor[b].at = "poll" /\ cluster.build[b] \in {"succeeded", "failed"}
  /\ handle' = [handle EXCEPT ![b] = cluster.build[b]]
  /\ MonitorEnds(b, IF cluster.build[b] = "succeeded" THEN "record" ELSE "failed")
  /\ UNCHANGED <<replay, flight, cluster>>

(* --retry-terminal, by hand: the failed record is archived, an intent     *)
(* takes its place, the identity is checked again, the start is sent.      *)
RetryTerminal(b) ==
  /\ monitor[b].at = "idle" /\ handle[b] = "failed" /\ cluster.build[b] = "failed"
  /\ handle' = [handle EXCEPT ![b] = "start-intent"]
  /\ monitor' = [monitor EXCEPT ![b] = [at |-> "retry", hand |-> TRUE]]
  /\ UNCHANGED <<replay, platform, flight, cluster>>
RetrySend(b) ==
  /\ monitor[b].at = "retry"
  /\ flight' = flight \cup {StartOf[b]}
  /\ MonitorAt(b, "starting")
  /\ UNCHANGED <<replay, handle, platform, cluster>>

(* An aws call times out, the monitor stops waiting or is killed: its      *)
(* request is lost, or takes effect after the monitor is gone.             *)
MonitorFails(b) ==
  /\ "error" \in PlatformFaults /\ monitor[b].at # "idle"
  /\ MonitorEnds(b, "failed")
  /\ flight' \in {flight, flight \ {StartOf[b]}}
  /\ UNCHANGED <<replay, handle, cluster>>

-----------------------------------------------------------------------------
(* AWS and the cluster.                                                    *)

Land(request) ==
  /\ request \in flight
  /\ flight' = flight \ {request}
  /\ cluster' =
       CASE request = "revoke_complete" -> [cluster EXCEPT !.granted = {}]
         [] request \in Applies \ {"revoke_complete"} ->
              [cluster EXCEPT !.granted = @ \cup {Runner[request]}]
         [] OTHER -> [cluster EXCEPT !.build[Runner[request]] = "running"]
  /\ UNCHANGED <<replay, handle, platform, monitor>>
BuildSucceeds(b) ==
  /\ cluster.build[b] = "running"
  /\ cluster' = [cluster EXCEPT !.build[b] = "succeeded"]
  /\ UNCHANGED <<replay, handle, platform, monitor, flight>>
BuildFails(b) ==
  /\ "build" \in PlatformFaults /\ cluster.build[b] = "running"
  /\ cluster' = [cluster EXCEPT !.build[b] = "failed"]
  /\ UNCHANGED <<replay, handle, platform, monitor, flight>>

MonitorStep(b) ==
  \/ MonitorStart(b) \/ MonitorRefuses(b) \/ MonitorResumes(b)
  \/ MonitorStarted(b) \/ MonitorVerdict(b) \/ RetrySend(b)
PlatformScript ==
  \/ PlatformVerified \/ PhaseIntent \/ PhaseComplete
  \/ PhaseApply \/ ApplyReturned \/ PhaseTls \/ PhaseBuild
PlatformStep ==
  \/ PlatformScript
  \/ \E b \in Runners : MonitorStep(b)
PlatformEnvironment ==
  \/ \E request \in Phases : Land(request)
  \/ \E b \in Runners : BuildSucceeds(b)
PlatformGoesWrong ==
  \/ PlatformFails \/ PlatformKilled
  \/ \E b \in Runners : MonitorFails(b) \/ BuildFails(b)

PlatformTypeOK ==
  /\ replay \in [Phases -> {"absent", "new", "intent", "complete"}]
  /\ handle \in [Runners -> {"none", "start-intent", "running", "succeeded", "failed"}]
  /\ platform.ph \in Phases \cup {"none"}
  /\ platform.at \in {"idle", "verify", "phase", "act", "applying", "building", "record", "ok", "failed"}
  /\ \A b \in Runners :
       monitor[b].at \in {"idle", "open", "retry", "starting", "poll"}
  /\ flight \subseteq Phases \ {"tls_ready"}
  /\ cluster.granted \subseteq Runners
  /\ cluster.build \in [Runners -> {"none", "running", "succeeded", "failed"}]
=============================================================================
