-------------------------- MODULE ValidatorCluster --------------------------
(***************************************************************************)
(* What the UC-5 ceremony and the activation script share: the maintenance *)
(* marker (a ConfigMap), the replica counts of the three controllers and   *)
(* their Pods, Vault's runtime role and the ceremonies' root tokens.       *)
(*                                                                         *)
(* A request is applied when the server processes it.  Its sender may be   *)
(* told, may miss the answer (the callers then fail at their next step) or *)
(* may give up while the request is still under way: that one is in `late' *)
(* and is applied at any later moment, or never.                           *)
(***************************************************************************)
EXTENDS Integers

CONSTANTS
  Ceremonies,   \* runs of the UC-5 ceremony, each with its id and root token
  Activations,  \* runs of the activation script
  NoOne,        \* no marker
  Delayable,    \* kinds of request that may be applied after their timeout
  MaxDrifts     \* bound on other administrators' writes of the role

Targets == {"client", "fence", "signer"}
Kinds == {"create", "patch", "delete", "write", "revoke", "unmark"}
ASSUME ClusterAssumption ==
  /\ NoOne \notin Ceremonies
  /\ Delayable \subseteq Kinds
  /\ MaxDrifts \in Nat

VARIABLES
  marker,    \* owner of ConfigMap uc5-hoodi-example-maintenance
  replicas,  \* spec.replicas of each controller
  version,   \* how often it was written (resourceVersion)
  pods,      \* its Pod: "none", "blocked" in its init container, or "up"
  role,      \* Vault's runtime role: the reviewed one, another one, or none
  drifts,    \* other administrators' writes so far
  tokens,    \* the ceremonies' root tokens
  late       \* requests that are still under way

clusterVars == <<marker, replicas, version, pods, role, drifts, tokens, late>>

-----------------------------------------------------------------------------
ClusterInit ==
  /\ marker = NoOne
  /\ \E n \in {0, 1} :        \* client and fence staged, or running
       /\ replicas = [x \in Targets |-> IF x = "signer" THEN 1 ELSE n]
       /\ pods = [x \in Targets |-> IF x = "signer" \/ n = 1 THEN "up" ELSE "none"]
  /\ version = [x \in Targets |-> 0]
  /\ role = "exact" /\ drifts = 0
  /\ tokens = [c \in Ceremonies |-> "live"]
  /\ late = {}

(* Quiescence as the probes read it: no replicas and no Pod left.          *)
Absent(x) == replicas[x] = 0 /\ pods[x] = "none"
Running(x) == replicas[x] = 1 /\ pods[x] = "up"
Quiesced == Absent("client") /\ Absent("fence")

Request(k, c, x, n, rv) == [kind |-> k, by |-> c, x |-> x, n |-> n, rv |-> rv]

Accepted_Overwrites(r) ==
  CASE r.kind = "create" -> TRUE
    [] r.kind = "unmark" -> marker = r.by
    [] r.kind = "patch" -> version[r.x] = r.rv
    [] OTHER -> tokens[r.by] = "live"
(* What the API server and Vault check: a PATCH tests the resource version *)
(* (and with it the old count), a creation needs a free name, a deletion   *)
(* of the marker its identity, and Vault a live token.                     *)
Accepted(r) ==
  CASE r.kind = "create" -> marker = NoOne
    [] r.kind = "unmark" -> marker = r.by
    [] r.kind = "patch" -> version[r.x] = r.rv
    [] OTHER -> tokens[r.by] = "live"

(* The effect of an accepted request; a write that changes nothing leaves  *)
(* the resource version alone.                                             *)
Apply(r) ==
  /\ replicas' = IF r.kind = "patch" THEN [replicas EXCEPT ![r.x] = r.n] ELSE replicas
  /\ version' = IF replicas' = replicas THEN version ELSE [version EXCEPT ![r.x] = @ + 1]
  /\ marker' = CASE r.kind = "create" -> r.by [] r.kind = "unmark" -> NoOne [] OTHER -> marker
  /\ role' = CASE r.kind = "delete" -> "absent" [] r.kind = "write" -> "exact" [] OTHER -> role
  /\ tokens' = IF r.kind = "revoke" THEN [tokens EXCEPT ![r.by] = "revoked"] ELSE tokens
  /\ UNCHANGED <<pods, drifts>>

(* The request is applied now, or it is put off and its sender gives up.   *)
Now(r) == Apply(r) /\ UNCHANGED late
PutOff(r) ==
  /\ r.kind \in Delayable
  /\ late' = late \cup {r}
  /\ UNCHANGED <<marker, replicas, version, pods, role, drifts, tokens>>

-----------------------------------------------------------------------------
(* The environment.                                                        *)

LateArrives(r) == Accepted(r) /\ Apply(r) /\ late' = late \ {r}

(* Controllers create and remove Pods some time after the count changed; a *)
(* signer Pod stays in its init container until Vault accepts its login.   *)
PodStarts(x) ==
  /\ replicas[x] = 1 /\ pods[x] = "none"
  /\ pods' = [pods EXCEPT ![x] = IF x = "signer" THEN "blocked" ELSE "up"]
  /\ UNCHANGED <<marker, replicas, version, role, drifts, tokens, late>>
SignerLogsIn ==
  /\ pods["signer"] = "blocked" /\ role # "absent"
  /\ pods' = [pods EXCEPT !["signer"] = "up"]
  /\ UNCHANGED <<marker, replicas, version, role, drifts, tokens, late>>
PodStops(x) ==
  /\ replicas[x] = 0 /\ pods[x] # "none"
  /\ pods' = [pods EXCEPT ![x] = "none"]
  /\ UNCHANGED <<marker, replicas, version, role, drifts, tokens, late>>

(* An administrator outside the ceremony writes another role.              *)
RoleDrifts ==
  /\ drifts < MaxDrifts
  /\ role' = "drifted" /\ drifts' = drifts + 1
  /\ UNCHANGED <<marker, replicas, version, pods, tokens, late>>

ClusterNext ==
  \/ \E r \in late : LateArrives(r)
  \/ \E x \in Targets : PodStarts(x) \/ PodStops(x)
  \/ SignerLogsIn \/ RoleDrifts

ClusterTypeOK ==
  /\ marker \in Ceremonies \cup {NoOne}
  /\ replicas \in [Targets -> {0, 1}]
  /\ version \in [Targets -> Nat]
  /\ pods \in [Targets -> {"none", "blocked", "up"}]
  /\ role \in {"exact", "drifted", "absent"}
  /\ drifts \in 0..MaxDrifts
  /\ tokens \in [Ceremonies -> {"live", "revoked"}]
  /\ late \subseteq [kind : Delayable, by : Ceremonies \cup Activations, x : Targets,
                     n : {0, 1}, rv : Nat]
=============================================================================
