-------------------------- MODULE ClientActivation --------------------------
(***************************************************************************)
(* scripts/ops/activate-hoodi-validator-client.sh: read-only checks, the   *)
(* typed confirmation, then the client and the fence are scaled to one in  *)
(* that order, and back to zero by the EXIT trap when anything fails.      *)
(***************************************************************************)
EXTENDS ValidatorCluster, Sequences

VARIABLE act     \* the activation scripts' local state

-----------------------------------------------------------------------------
Step(op, x, n) == <<[op |-> op, x |-> x, n |-> n]>>

(* cas_scale: no marker, GET, PATCH; a count that is already 1 is refused. *)
CasScale(x, n) ==
  Step("unmarked", x, n) \o Step("get", x, n) \o Step("patch", x, n) \o Step("answer", x, n)

Preflight ==
  Step("noPod", "client", 0) \o Step("count", "client", 0) \o Step("count", "fence", 0)
    \o Step("count", "signer", 1) \o Step("unmarked", "client", 0) \o Step("confirm", "client", 0)
Activate ==
  CasScale("client", 1) \o Step("running", "client", 1)
    \o CasScale("fence", 1) \o Step("running", "fence", 1)

(* The script's phases: before the trap is set, under it, and its handler, *)
(* in which every part runs whether or not the one before it failed.       *)
Phases == <<"preflight", "activate", "undoFence", "undoClient", "verify">>
Script == [preflight |-> Preflight, activate |-> Activate,
           undoFence |-> CasScale("fence", 0), undoClient |-> CasScale("client", 0),
           verify |-> Step("count", "fence", 0) \o Step("count", "client", 0)]

Ended == {"refused", "complete", "rolledback", "critical", "killed"}
ActivationStart == [phase |-> "preflight", ip |-> 1, rv |-> 0, failed |-> FALSE]
ActivationInit == act = [a \in Activations |-> ActivationStart]

Enters(r, phase) == [r EXCEPT !.phase = phase, !.ip = 1, !.rv = 0]
Finished(r) ==
  CASE r.phase = "preflight" -> Enters(r, "activate")
    [] r.phase = "activate" -> Enters(r, "complete")
    [] r.phase = "undoFence" -> Enters(r, "undoClient")
    [] r.phase = "undoClient" -> Enters(r, "verify")
    [] r.phase = "verify" -> Enters(r, IF r.failed THEN "critical" ELSE "rolledback")
Fails_Forgets(r) ==
  CASE r.phase = "preflight" -> Enters(r, "refused")
    [] r.phase = "activate" -> Enters(r, "undoFence")
    [] OTHER -> Finished(r)
(* exit 65 before the trap, the trap under it, cleanup_failed in it.       *)
Fails(r) ==
  CASE r.phase = "preflight" -> Enters(r, "refused")
    [] r.phase = "activate" -> Enters(r, "undoFence")
    [] OTHER -> Finished([r EXCEPT !.failed = TRUE])
Goes(r) == IF r.ip = Len(Script[r.phase]) THEN Finished(r) ELSE [r EXCEPT !.ip = @ + 1]

Works(a) == act[a].phase \notin Ended
Instr(a) == Script[act[a].phase][act[a].ip]

-----------------------------------------------------------------------------
Passes(o) ==
  CASE o.op = "unmarked" -> marker = NoOne
    [] o.op = "count" -> replicas[o.x] = o.n
    [] o.op = "noPod" -> pods[o.x] = "none"
    [] o.op = "running" -> Running(o.x)
    [] OTHER -> TRUE                                 \* confirm, answer
Check(a) ==
  /\ Instr(a).op \in {"unmarked", "count", "noPod", "running", "confirm", "answer"}
  /\ Passes(Instr(a))
  /\ act' = [act EXCEPT ![a] = Goes(@)]
  /\ UNCHANGED clusterVars
Get(a) ==
  /\ Instr(a).op = "get"
  /\ Instr(a).n = 1 => replicas[Instr(a).x] = 0
  /\ act' = [act EXCEPT ![a] = Goes([act[a] EXCEPT !.rv = version[Instr(a).x]])]
  /\ UNCHANGED clusterVars
ScalePatch(a) == Request("patch", a, Instr(a).x, Instr(a).n, act[a].rv)
Patch(a) ==
  /\ Instr(a).op = "patch"
  /\ \/ /\ Accepted(ScalePatch(a)) /\ Now(ScalePatch(a))
        /\ act' = [act EXCEPT ![a] = Goes(@)]
     \/ /\ PutOff(ScalePatch(a))
        /\ act' = [act EXCEPT ![a] = Fails(@)]

(* A command failed, a rollout or the Lease was not there in time, or the  *)
(* operator declined or interrupted.                                       *)
Error(a) ==
  /\ act' = [act EXCEPT ![a] = Fails(@)]
  /\ UNCHANGED clusterVars
Kill(a) ==
  /\ Works(a)
  /\ act' = [act EXCEPT ![a] = Enters(@, "killed")]
  /\ UNCHANGED clusterVars

ActivationNext(a) ==
  \/ Works(a) /\ (Check(a) \/ Get(a) \/ Patch(a) \/ Error(a))
  \/ Kill(a)

ActivationState ==
  [phase : {Phases[i] : i \in DOMAIN Phases} \cup Ended, ip : 1..16, rv : Nat, failed : BOOLEAN]
ActivationTypeOK == act \in [Activations -> ActivationState]
=============================================================================
