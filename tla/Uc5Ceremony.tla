----------------------------- MODULE Uc5Ceremony -----------------------------
(***************************************************************************)
(* The UC-5 ceremony (scripts/ops/lib/uc5-ceremony.py with the actions of  *)
(* uc5-live-actions.py, uc5-kube-control.py, uc5-vault-adapter.py and      *)
(* uc5-runtime-role-state.py): delete Vault's runtime role, show that a    *)
(* new signer is refused, restore the role, and clean up after a failure   *)
(* at any point.                                                           *)
(*                                                                         *)
(* A stage is a sequence of operations, each one request or one read.      *)
(* Raise(c) is an exception or a Ctrl-C before the next operation, which   *)
(* is also what a request that was applied but not answered looks like.    *)
(***************************************************************************)
EXTENDS ValidatorCluster, Sequences

VARIABLE cer     \* the ceremonies' local state

-----------------------------------------------------------------------------
(* Operations and stages.                                                  *)

Do(op) == <<[op |-> op, x |-> "signer", n |-> 0]>>
On(op, x, n) == <<[op |-> op, x |-> x, n |-> n]>>

(* Control.set_replicas: assert the marker, GET, PATCH, read back.         *)
Scale(x, n) == Do("mine") \o On("get", x, n) \o On("patch", x, n) \o On("readback", x, n)

AcquireLock == Do("unmarked") \o Do("create") \o Do("mine")
Capture == Do("mine") \o Do("exact")
FreshFence_AnyBaseline ==
  Do("mine") \o Scale("fence", 0) \o Scale("client", 0) \o Do("quiesced") \o Do("mine") \o Do("quiesced")
(* ProbeService.fresh_fence: everything runs; then stop fence and client,  *)
(* and probe under the marker.                                             *)
FreshFence ==
  Do("mine") \o Do("running") \o Scale("fence", 0) \o Scale("client", 0)
    \o Do("quiesced") \o Do("mine") \o Do("quiesced")
Quiesce == Do("mine") \o Scale("fence", 0) \o Scale("client", 0) \o Do("podsGone")
StopSigner == Do("mine") \o Scale("signer", 0) \o Do("mine") \o Do("signerAbsent") \o Do("history")
Predelete == Do("mine") \o Do("allAbsent")
DeleteRole == Do("mine") \o Do("exact") \o Do("delete") \o Do("roleAbsent")
ProveDenied == Do("mine") \o Scale("signer", 1) \o Do("mine") \o Do("denied")
RestoreRole == Do("mine") \o Do("restorable") \o Do("write") \o Do("exact")
RecoverSigner == Do("mine") \o Scale("signer", 1) \o Do("mine") \o Do("recovered")
RevokeAdmin == Do("revoke") \o Do("rejected")
ReleaseLock == Do("owned") \o Do("unmark") \o Do("unmarked")

(* run's try block, in order.                                              *)
Main == <<Do("token"), AcquireLock, Capture, FreshFence, StopSigner, Predelete, DeleteRole,
          ProveDenied, StopSigner, RestoreRole, RecoverSigner, Do("evidence"), Quiesce>>
Acquiring == 2
Preparing == 4
Deleting == 7
Restoring == 10
Complete == Len(Main) + 1

(* run's finally block, in order.                                          *)
Cleanups == <<"reconcile", "quiesce", "stop", "restore", "revoke", "release", "end">>
Cleanup == [reconcile |-> Do("reconcile"), quiesce |-> Quiesce, stop |-> StopSigner,
            restore |-> RestoreRole, revoke |-> RevokeAdmin, release |-> ReleaseLock, end |-> <<>>]

Program(r) == IF r.stage = "main" THEN Main[r.reached] ELSE Cleanup[r.stage]
NextOp(c) == Program(cer[c])[cer[c].ip]      \* the operation to do next

-----------------------------------------------------------------------------
(* `reached' is the main stage the run is in or failed in; it determines   *)
(* run's flags maintenance_attempted, role_delete_attempted and so on.     *)
CeremonyStart ==
  [stage |-> "main", reached |-> 1, ip |-> 1, rv |-> 0, owned |-> FALSE, restored |-> FALSE,
   history |-> FALSE, unconfirmed |-> {}, result |-> "none"]
CeremonyInit == cer = [c \in Ceremonies |-> CeremonyStart]

Needed_KeepsRole(r, s) ==
  CASE s = "reconcile" -> r.reached >= Acquiring /\ ~r.owned
    [] s \in {"quiesce", "stop"} -> r.reached >= Preparing /\ r.reached # Complete
    [] s = "restore" -> r.reached > Deleting /\ ~r.restored
    [] s = "release" -> r.owned /\ r.unconfirmed = {}
    [] OTHER -> TRUE
Needed_Releases(r, s) ==
  CASE s = "reconcile" -> r.reached >= Acquiring /\ ~r.owned
    [] s \in {"quiesce", "stop"} -> r.reached >= Preparing /\ r.reached # Complete
    [] s = "restore" -> r.reached >= Deleting /\ ~r.restored
    [] s = "release" -> r.owned
    [] OTHER -> TRUE
(* Which parts of the finally block apply.                                 *)
Needed(r, s) ==
  CASE s = "reconcile" -> r.reached >= Acquiring /\ ~r.owned
    [] s \in {"quiesce", "stop"} -> r.reached >= Preparing /\ r.reached # Complete
    [] s = "restore" -> r.reached >= Deleting /\ ~r.restored
    [] s = "release" -> r.owned /\ r.unconfirmed = {}
    [] OTHER -> TRUE

Result_Unchecked(r) == IF r.reached = Complete THEN "PROBE_COMPLETE" ELSE "INCOMPLETE"
(* run's outcome: activation_allowed is PROBE_COMPLETE.                    *)
Result(r) ==
  IF r.reached = Complete /\ r.unconfirmed = {} THEN "PROBE_COMPLETE" ELSE "INCOMPLETE"

(* Enter the first applicable cleanup from Cleanups[i] on.                 *)
Enter(r, i) ==
  LET j == CHOOSE k \in i..Len(Cleanups) :
             Needed(r, Cleanups[k]) /\ \A m \in i..(k - 1) : ~Needed(r, Cleanups[m])
      s == Cleanups[j]
  IN  [r EXCEPT !.stage = s, !.ip = 1, !.rv = 0,
                !.result = IF s = "end" THEN Result(r) ELSE "none"]
Position(s) == CHOOSE i \in DOMAIN Cleanups : Cleanups[i] = s

(* The stage is over: what it returned True for is recorded.               *)
StageDone(r) ==
  LET done == [r EXCEPT
        !.owned = @ \/ (r.stage = "main" /\ r.reached = Acquiring),
        !.restored = @ \/ r.stage = "restore" \/ (r.stage = "main" /\ r.reached = Restoring)]
      next == [done EXCEPT !.reached = @ + 1, !.ip = 1, !.rv = 0]
  IN  IF r.stage # "main" THEN Enter(done, Position(r.stage) + 1)
      ELSE IF next.reached = Complete THEN Enter(next, 1)
      ELSE next

Advance(r, by) ==
  IF r.ip + by > Len(Program(r)) THEN StageDone(r) ELSE [r EXCEPT !.ip = @ + by]

Failed_Retries(r) ==
  IF r.stage = "main" THEN Enter(r, 1)
  ELSE [r EXCEPT !.ip = 1, !.rv = 0, !.unconfirmed = @ \cup {r.stage}]
(* An exception ends the try block; in the finally block it only marks     *)
(* that cleanup as unconfirmed.                                            *)
Failed(r) ==
  IF r.stage = "main" THEN Enter(r, 1)
  ELSE Enter([r EXCEPT !.unconfirmed = @ \cup {r.stage}], Position(r.stage) + 1)

Active(c) == cer[c].stage \notin {"end", "crashed"}

-----------------------------------------------------------------------------
(* Reads: the operation passes when the cluster is as it must be.  Those   *)
(* that poll wait for it; the others raise, which Raise covers.            *)
Reads == {"token", "unmarked", "mine", "exact", "running", "readback", "quiesced", "podsGone", "signerAbsent",
          "history", "allAbsent", "roleAbsent", "denied", "recovered", "evidence", "rejected"}
Holds(c, o) ==
  CASE o.op = "token" -> tokens[c] = "live"
    [] o.op = "unmarked" -> marker = NoOne
    [] o.op = "mine" -> marker = c
    [] o.op = "exact" -> role = "exact" /\ tokens[c] = "live"
    [] o.op = "running" -> \A x \in Targets : Running(x)
    [] o.op = "readback" -> replicas[o.x] = o.n
    [] o.op = "quiesced" -> Quiesced
    [] o.op = "podsGone" -> pods["client"] = "none" /\ pods["fence"] = "none"
    [] o.op = "signerAbsent" -> Absent("signer")
    [] o.op = "history" -> cer[c].history \/ Quiesced
    [] o.op = "allAbsent" -> \A x \in Targets : Absent(x)
    [] o.op = "roleAbsent" -> role = "absent" /\ tokens[c] = "live"
    [] o.op = "denied" -> replicas["signer"] = 1 /\ pods["signer"] = "blocked" /\ Quiesced
    [] o.op = "recovered" -> Running("signer") /\ Quiesced
    [] o.op = "rejected" -> tokens[c] = "revoked"
    [] OTHER -> TRUE
ReadPasses(c) ==
  LET o == NextOp(c) IN
  /\ o.op \in Reads /\ Holds(c, o)
  /\ cer' = [cer EXCEPT ![c] = Advance([cer[c] EXCEPT !.history = @ \/ o.op = "history"], 1)]
  /\ UNCHANGED clusterVars

(* set_replicas: an equal count needs no PATCH and no readback.            *)
GetController(c) ==
  LET o == NextOp(c) IN
  /\ o.op = "get"
  /\ cer' = [cer EXCEPT ![c] = IF replicas[o.x] = o.n THEN Advance(cer[c], 3)
                               ELSE Advance([cer[c] EXCEPT !.rv = version[o.x]], 1)]
  /\ UNCHANGED clusterVars

(* reconcile_maintenance_lock: the marker carries this ceremony's id.      *)
Reconciles(c) == marker = c
ReconcileLock(c) ==
  /\ NextOp(c).op = "reconcile"
  /\ marker = NoOne \/ Reconciles(c)
  /\ cer' = [cer EXCEPT ![c] = Advance([cer[c] EXCEPT !.owned = Reconciles(c)], 1)]
  /\ UNCHANGED clusterVars

(* restore: a role that is already exact is not written, another one is    *)
(* refused; release: a marker that is gone needs no deletion.              *)
NothingToDo(c) ==
  /\ \/ NextOp(c).op = "restorable" /\ role = "exact" /\ tokens[c] = "live"
     \/ NextOp(c).op = "owned" /\ marker = NoOne
  /\ cer' = [cer EXCEPT ![c] = StageDone(@)]
  /\ UNCHANGED clusterVars
SomethingToDo(c) ==
  /\ \/ NextOp(c).op = "restorable" /\ role = "absent" /\ tokens[c] = "live"
     \/ NextOp(c).op = "owned" /\ marker = c
  /\ cer' = [cer EXCEPT ![c] = Advance(@, 1)]
  /\ UNCHANGED clusterVars

(* A mutating request: it is accepted, or it is put off and times out.     *)
(* The callers take a rejected one (a failed JSON patch test, an existing  *)
(* marker, a revoked token) as an exception.                               *)
Asked(c) ==
  LET o == NextOp(c) IN Request(o.op, c, o.x, o.n, cer[c].rv)
Mutate(c) ==
  /\ NextOp(c).op \in Kinds
  /\ \/ /\ Accepted(Asked(c)) /\ Now(Asked(c))
        /\ cer' = [cer EXCEPT ![c] = Advance(@, 1)]
     \/ /\ PutOff(Asked(c))
        /\ cer' = [cer EXCEPT ![c] = Failed(@)]

Raise(c) ==
  /\ cer' = [cer EXCEPT ![c] = Failed(@)]
  /\ UNCHANGED clusterVars

(* SIGKILL or a lost workstation.  The wrapper's EXIT trap may still       *)
(* revoke the token it obtained (cleanup-root).                            *)
Crash(c) ==
  /\ Active(c)
  /\ cer' = [cer EXCEPT ![c].stage = "crashed", ![c].ip = 1, ![c].rv = 0]
  /\ UNCHANGED clusterVars
WrapperRevokes(c) ==
  /\ ~Active(c) /\ tokens[c] = "live"
  /\ tokens' = [tokens EXCEPT ![c] = "revoked"]
  /\ UNCHANGED <<marker, replicas, version, pods, role, drifts, late, cer>>

CeremonyStep(c) ==
  /\ Active(c)
  /\ \/ ReadPasses(c) \/ GetController(c) \/ ReconcileLock(c) \/ NothingToDo(c)
     \/ SomethingToDo(c) \/ Mutate(c) \/ Raise(c)
CeremonyNext(c) == CeremonyStep(c) \/ Crash(c) \/ WrapperRevokes(c)

CleanupStages == {Cleanups[i] : i \in DOMAIN Cleanups}
CeremonyState ==
  [stage : {"main", "crashed"} \cup CleanupStages, reached : 1..Complete, ip : 1..20, rv : Nat,
   owned : BOOLEAN, restored : BOOLEAN, history : BOOLEAN, unconfirmed : SUBSET CleanupStages,
   result : {"none", "PROBE_COMPLETE", "INCOMPLETE"}]
CeremonyTypeOK == cer \in [Ceremonies -> CeremonyState]
=============================================================================
