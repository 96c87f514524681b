----------------------- MODULE MaintenanceWindow_proofs -----------------------
(***************************************************************************)
(* What MaintenanceWindow promises, for any number of ceremonies.          *)
(***************************************************************************)
EXTENDS MaintenanceWindow, TLAPS

-----------------------------------------------------------------------------
(* The stages as the operations they are made of.                          *)

LEMMA CleanupNames ==
  /\ DOMAIN Cleanups = 1..7 /\ Len(Cleanups) = 7
  /\ Cleanups[1] = "reconcile" /\ Cleanups[2] = "quiesce" /\ Cleanups[3] = "stop"
  /\ Cleanups[4] = "restore" /\ Cleanups[5] = "revoke" /\ Cleanups[6] = "release"
  /\ Cleanups[7] = "end"
  /\ CleanupStages = {"reconcile", "quiesce", "stop", "restore", "revoke", "release", "end"}
<1>1. DOMAIN Cleanups = 1..7
  BY DEF Cleanups
<1> QED
  BY <1>1 DEF Cleanups, CleanupStages

LEMMA Positions ==
  /\ Position("reconcile") = 1 /\ Position("quiesce") = 2 /\ Position("stop") = 3
  /\ Position("restore") = 4 /\ Position("revoke") = 5 /\ Position("release") = 6
BY CleanupNames DEF Position

LEMMA MainStages ==
  /\ Len(Main) = 13 /\ Complete = 14
  /\ Main[1] = Do("token") /\ Main[2] = AcquireLock /\ Main[3] = Capture
  /\ Main[4] = FreshFence /\ Main[5] = StopSigner /\ Main[6] = Predelete
  /\ Main[7] = DeleteRole /\ Main[8] = ProveDenied /\ Main[9] = StopSigner
  /\ Main[10] = RestoreRole /\ Main[11] = RecoverSigner /\ Main[12] = Do("evidence")
  /\ Main[13] = Quiesce
BY DEF Main, Complete

LEMMA CleanupPrograms ==
  /\ Cleanup["reconcile"] = Do("reconcile") /\ Cleanup["quiesce"] = Quiesce
  /\ Cleanup["stop"] = StopSigner /\ Cleanup["restore"] = RestoreRole
  /\ Cleanup["revoke"] = RevokeAdmin /\ Cleanup["release"] = ReleaseLock
BY DEF Cleanup

(* What a stage's operation can be, and where in the stage the ones stand  *)
(* that the invariants turn on.                                            *)
Ops == Reads \cup Kinds \cup {"get", "reconcile", "restorable", "owned"}
Plain(o) == o \in [op : Ops, x : Targets, n : {0, 1}]
Calm(p) ==
  /\ Len(p) \in 1..13
  /\ \A i \in 1..Len(p) :
       /\ Plain(p[i])
       /\ p[i].op \notin {"create", "delete", "unmark", "running", "reconcile", "restorable", "owned"}
       /\ p[i].op = "get" => i + 3 <= Len(p)

LEMMA TokenOps == Len(Do("token")) = 1 /\ Do("token")[1] = [op |-> "token", x |-> "signer", n |-> 0]
BY DEF Do
LEMMA AcquireOps ==
  /\ Len(AcquireLock) = 3 /\ AcquireLock[1] = [op |-> "unmarked", x |-> "signer", n |-> 0]
  /\ AcquireLock[2] = [op |-> "create", x |-> "signer", n |-> 0]
  /\ AcquireLock[3] = [op |-> "mine", x |-> "signer", n |-> 0]
BY DEF AcquireLock, Do
LEMMA CaptureOps ==
  /\ Len(Capture) = 2 /\ Capture[1] = [op |-> "mine", x |-> "signer", n |-> 0]
  /\ Capture[2] = [op |-> "exact", x |-> "signer", n |-> 0]
BY DEF Capture, Do
LEMMA FreshOps ==
  /\ Len(FreshFence) = 13
  /\ FreshFence[1] = [op |-> "mine", x |-> "signer", n |-> 0]
  /\ FreshFence[2] = [op |-> "running", x |-> "signer", n |-> 0]
  /\ FreshFence[3] = [op |-> "mine", x |-> "signer", n |-> 0]
  /\ FreshFence[4] = [op |-> "get", x |-> "fence", n |-> 0]
  /\ FreshFence[5] = [op |-> "patch", x |-> "fence", n |-> 0]
  /\ FreshFence[6] = [op |-> "readback", x |-> "fence", n |-> 0]
  /\ FreshFence[7] = [op |-> "mine", x |-> "signer", n |-> 0]
  /\ FreshFence[8] = [op |-> "get", x |-> "client", n |-> 0]
  /\ FreshFence[9] = [op |-> "patch", x |-> "client", n |-> 0]
  /\ FreshFence[10] = [op |-> "readback", x |-> "client", n |-> 0]
  /\ FreshFence[11] = [op |-> "quiesced", x |-> "signer", n |-> 0]
  /\ FreshFence[12] = [op |-> "mine", x |-> "signer", n |-> 0]
  /\ FreshFence[13] = [op |-> "quiesced", x |-> "signer", n |-> 0]
BY DEF FreshFence, Do, On, Scale
LEMMA QuiesceOps ==
  /\ Len(Quiesce) = 10
  /\ Quiesce[1] = [op |-> "mine", x |-> "signer", n |-> 0]
  /\ Quiesce[2] = [op |-> "mine", x |-> "signer", n |-> 0]
  /\ Quiesce[3] = [op |-> "get", x |-> "fence", n |-> 0]
  /\ Quiesce[4] = [op |-> "patch", x |-> "fence", n |-> 0]
  /\ Quiesce[5] = [op |-> "readback", x |-> "fence", n |-> 0]
  /\ Quiesce[6] = [op |-> "mine", x |-> "signer", n |-> 0]
  /\ Quiesce[7] = [op |-> "get", x |-> "client", n |-> 0]
  /\ Quiesce[8] = [op |-> "patch", x |-> "client", n |-> 0]
  /\ Quiesce[9] = [op |-> "readback", x |-> "client", n |-> 0]
  /\ Quiesce[10] = [op |-> "podsGone", x |-> "signer", n |-> 0]
BY DEF Quiesce, Do, On, Scale
LEMMA StopOps ==
  /\ Len(StopSigner) = 8
  /\ StopSigner[1] = [op |-> "mine", x |-> "signer", n |-> 0]
  /\ StopSigner[2] = [op |-> "mine", x |-> "signer", n |-> 0]
  /\ StopSigner[3] = [op |-> "get", x |-> "signer", n |-> 0]
  /\ StopSigner[4] = [op |-> "patch", x |-> "signer", n |-> 0]
  /\ StopSigner[5] = [op |-> "readback", x |-> "signer", n |-> 0]
  /\ StopSigner[6] = [op |-> "mine", x |-> "signer", n |-> 0]
  /\ StopSigner[7] = [op |-> "signerAbsent", x |-> "signer", n |-> 0]
  /\ StopSigner[8] = [op |-> "history", x |-> "signer", n |-> 0]
BY DEF StopSigner, Do, On, Scale
LEMMA PredeleteOps ==
  /\ Len(Predelete) = 2 /\ Predelete[1] = [op |-> "mine", x |-> "signer", n |-> 0]
  /\ Predelete[2] = [op |-> "allAbsent", x |-> "signer", n |-> 0]
BY DEF Predelete, Do
LEMMA DeleteOps ==
  /\ Len(DeleteRole) = 4
  /\ DeleteRole[1] = [op |-> "mine", x |-> "signer", n |-> 0]
  /\ DeleteRole[2] = [op |-> "exact", x |-> "signer", n |-> 0]
  /\ DeleteRole[3] = [op |-> "delete", x |-> "signer", n |-> 0]
  /\ DeleteRole[4] = [op |-> "roleAbsent", x |-> "signer", n |-> 0]
BY DEF DeleteRole, Do
LEMMA DeniedOps ==
  /\ Len(ProveDenied) = 7
  /\ ProveDenied[1] = [op |-> "mine", x |-> "signer", n |-> 0]
  /\ ProveDenied[2] = [op |-> "mine", x |-> "signer", n |-> 0]
  /\ ProveDenied[3] = [op |-> "get", x |-> "signer", n |-> 1]
  /\ ProveDenied[4] = [op |-> "patch", x |-> "signer", n |-> 1]
  /\ ProveDenied[5] = [op |-> "readback", x |-> "signer", n |-> 1]
  /\ ProveDenied[6] = [op |-> "mine", x |-> "signer", n |-> 0]
  /\ ProveDenied[7] = [op |-> "denied", x |-> "signer", n |-> 0]
BY DEF ProveDenied, Do, On, Scale
LEMMA RestoreOps ==
  /\ Len(RestoreRole) = 4
  /\ RestoreRole[1] = [op |-> "mine", x |-> "signer", n |-> 0]
  /\ RestoreRole[2] = [op |-> "restorable", x |-> "signer", n |-> 0]
  /\ RestoreRole[3] = [op |-> "write", x |-> "signer", n |-> 0]
  /\ RestoreRole[4] = [op |-> "exact", x |-> "signer", n |-> 0]
BY DEF RestoreRole, Do
LEMMA RecoverOps ==
  /\ Len(RecoverSigner) = 7
  /\ RecoverSigner[1] = [op |-> "mine", x |-> "signer", n |-> 0]
  /\ RecoverSigner[2] = [op |-> "mine", x |-> "signer", n |-> 0]
  /\ RecoverSigner[3] = [op |-> "get", x |-> "signer", n |-> 1]
  /\ RecoverSigner[4] = [op |-> "patch", x |-> "signer", n |-> 1]
  /\ RecoverSigner[5] = [op |-> "readback", x |-> "signer", n |-> 1]
  /\ RecoverSigner[6] = [op |-> "mine", x |-> "signer", n |-> 0]
  /\ RecoverSigner[7] = [op |-> "recovered", x |-> "signer", n |-> 0]
BY DEF RecoverSigner, Do, On, Scale
LEMMA EvidenceOps ==
  Len(Do("evidence")) = 1 /\ Do("evidence")[1] = [op |-> "evidence", x |-> "signer", n |-> 0]
BY DEF Do
LEMMA ReconcileOps ==
  Len(Do("reconcile")) = 1 /\ Do("reconcile")[1] = [op |-> "reconcile", x |-> "signer", n |-> 0]
BY DEF Do
LEMMA RevokeOps ==
  /\ Len(RevokeAdmin) = 2 /\ RevokeAdmin[1] = [op |-> "revoke", x |-> "signer", n |-> 0]
  /\ RevokeAdmin[2] = [op |-> "rejected", x |-> "signer", n |-> 0]
BY DEF RevokeAdmin, Do
LEMMA ReleaseOps ==
  /\ Len(ReleaseLock) = 3 /\ ReleaseLock[1] = [op |-> "owned", x |-> "signer", n |-> 0]
  /\ ReleaseLock[2] = [op |-> "unmark", x |-> "signer", n |-> 0]
  /\ ReleaseLock[3] = [op |-> "unmarked", x |-> "signer", n |-> 0]
BY DEF ReleaseLock, Do

Scales(p) == \A i \in 1..Len(p) : p[i].op = "patch" => p[i].n = 0 \/ p[i].x = "signer"
Drains(p) == \A i \in 1..Len(p) : p[i].op = "patch" => p[i].n = 0
LEMMA ScalingStages ==
  /\ Scales(StopSigner) /\ Scales(Quiesce) /\ Scales(ProveDenied) /\ Scales(RecoverSigner)
  /\ Drains(StopSigner) /\ Drains(Quiesce)
<1>1. Drains(StopSigner) /\ Drains(Quiesce)
  BY StopOps, QuiesceOps DEF Drains
<1>2. Scales(ProveDenied) /\ Scales(RecoverSigner)
  BY DeniedOps, RecoverOps DEF Scales
<1> QED
  BY <1>1, <1>2 DEF Drains, Scales

LEMMA CalmStages ==
  /\ Calm(Do("token")) /\ Calm(Capture) /\ Calm(StopSigner) /\ Calm(Predelete) /\ Calm(Quiesce)
  /\ Calm(ProveDenied) /\ Calm(RecoverSigner) /\ Calm(Do("evidence")) /\ Calm(RevokeAdmin)
<1>1. Calm(Do("token")) /\ Calm(Do("evidence"))
  BY TokenOps, EvidenceOps DEF Calm, Plain, Ops, Reads, Kinds, Targets
<1>2. Calm(Capture) /\ Calm(Predelete) /\ Calm(RevokeAdmin)
  BY CaptureOps, PredeleteOps, RevokeOps DEF Calm, Plain, Ops, Reads, Kinds, Targets
<1>3. Calm(StopSigner)
  BY StopOps DEF Calm, Plain, Ops, Reads, Kinds, Targets
<1>4. Calm(Quiesce)
  BY QuiesceOps DEF Calm, Plain, Ops, Reads, Kinds, Targets
<1>5. Calm(ProveDenied)
  BY DeniedOps DEF Calm, Plain, Ops, Reads, Kinds, Targets
<1>6. Calm(RecoverSigner)
  BY RecoverOps DEF Calm, Plain, Ops, Reads, Kinds, Targets
<1> QED
  BY <1>1, <1>2, <1>3, <1>4, <1>5, <1>6

-----------------------------------------------------------------------------
(* What holds of one ceremony's own record, whatever the cluster does.     *)

Cleared(r) == r.reached < Deleting \/ r.restored
Ongoing(r) == r.stage \notin {"end", "crashed"}
Restores(r) == r.stage = "restore" \/ (r.stage = "main" /\ r.reached = Restoring)
Sound(r) ==
  /\ Ongoing(r) => r.ip \in 1..Len(Program(r)) /\ r.result = "none"
  /\ r.stage = "main" =>
       /\ r.reached < Complete /\ r.unconfirmed = {}
       /\ r.owned <=> r.reached > Acquiring
       /\ r.restored <=> r.reached > Restoring
  /\ r.reached > Acquiring => r.owned
  /\ r.reached < Acquiring => ~r.owned
  /\ r.stage = "reconcile" => r.reached = Acquiring
  /\ r.stage \in {"quiesce", "stop"} => r.reached \in Preparing..(Complete - 1)
  /\ r.stage = "restore" => ~Cleared(r)
  /\ r.stage \in {"revoke", "release"} => Cleared(r) \/ "restore" \in r.unconfirmed
  /\ r.stage = "release" => r.owned /\ r.unconfirmed = {}
  /\ r.reached = Complete => r.restored

LEMMA Numbers ==
  /\ Acquiring = 2 /\ Preparing = 4 /\ Deleting = 7 /\ Restoring = 10 /\ Complete = 14
BY MainStages DEF Acquiring, Preparing, Deleting, Restoring

(* The operation at i of a program p that a ceremony r is in.              *)
OpIs(r, p, i) ==
  /\ Len(p) \in 1..13 /\ Plain(p[i])
  /\ p[i].op = "create" => r.stage = "main" /\ r.reached = Acquiring /\ i = 2
  /\ p[i].op = "delete" => r.stage = "main" /\ r.reached = Deleting
  /\ p[i].op = "unmark" => r.stage = "release"
  /\ p[i].op \in {"patch", "delete", "write"} => r.owned /\ r.stage # "release"
  /\ p[i].op = "patch" /\ p[i].n = 1 => p[i].x = "signer" /\ r.stage = "main"
  /\ p[i].op = "get" => i + 3 <= Len(p)
  /\ p[i].op = "reconcile" => r.stage = "reconcile"
  /\ p[i].op = "restorable" => Restores(r)
  /\ p[i].op = "owned" => r.stage = "release"
(* What a ceremony has just done when a stage that matters is over.        *)
LastIs(r, p, i) ==
  /\ r.stage = "main" /\ r.reached = Preparing => Len(p) = 13
  /\ r.stage = "main" /\ r.reached = Preparing /\ i = 2 => p[i].op = "running"
  /\ r.stage = "main" /\ r.reached = Preparing /\ p[i].op = "get" => i > 2
  /\ r.stage = "stop" => Len(p) = 8
  /\ r.stage = "stop" /\ i = 7 => p[i].op = "signerAbsent"
  /\ r.stage = "stop" /\ p[i].op = "get" => i = 3
  /\ i = Len(p) =>
       /\ r.stage = "main" /\ r.reached = Acquiring => p[i].op = "mine"
       /\ r.stage = "main" /\ r.reached = Preparing => p[i].op = "quiesced"
       /\ Restores(r) => p[i].op = "exact"
       /\ r.stage = "revoke" => p[i].op = "rejected"
       /\ r.stage = "release" => p[i].op = "unmarked"

LEMMA OpFacts ==
  ASSUME NEW r \in CeremonyState, Sound(r), Ongoing(r), NEW i \in 1..Len(Program(r))
  PROVE  OpIs(r, Program(r), i) /\ LastIs(r, Program(r), i)
<1> DEFINE p == Program(r)
<1>1. r.reached \in 1..14
  BY Numbers DEF CeremonyState
<1>2. r.reached > 2 => r.owned
  BY Numbers DEF Sound
<1>3. CASE r.stage = "main"
  <2>1. r.reached \in 1..13 /\ p = Main[r.reached]
    BY <1>1, <1>3, Numbers DEF Sound, Program
  <2>2. CASE r.reached = 1
    <3>1. p = Do("token")
      BY <2>1, <2>2, MainStages
    <3> HIDE DEF p
    <3>2. i \in 1..Len(Do("token"))
      BY <3>1 DEF p
    <3>3. OpIs(r, Do("token"), i)
      BY <3>2, <1>2, <1>3, <2>2, TokenOps, Numbers DEF Plain, Ops, Reads, Kinds, Targets, OpIs, LastIs, Restores
    <3>4. LastIs(r, Do("token"), i)
      BY <3>2, <1>3, <2>2, TokenOps, Numbers DEF Plain, Ops, Reads, Kinds, Targets, OpIs, LastIs, Restores
    <3> QED
      BY <3>1, <3>3, <3>4 DEF p
  <2>3. CASE r.reached = 2
    <3>1. p = AcquireLock
      BY <2>1, <2>3, MainStages
    <3> HIDE DEF p
    <3>2. i \in 1..Len(AcquireLock)
      BY <3>1 DEF p
    <3>3. OpIs(r, AcquireLock, i)
      BY <3>2, <1>2, <1>3, <2>3, AcquireOps, Numbers DEF Plain, Ops, Reads, Kinds, Targets, OpIs, LastIs, Restores
    <3>4. LastIs(r, AcquireLock, i)
      BY <3>2, <1>3, <2>3, AcquireOps, Numbers DEF Plain, Ops, Reads, Kinds, Targets, OpIs, LastIs, Restores
    <3> QED
      BY <3>1, <3>3, <3>4 DEF p
  <2>4. CASE r.reached = 3
    <3>1. p = Capture
      BY <2>1, <2>4, MainStages
    <3> HIDE DEF p
    <3>2. i \in 1..Len(Capture)
      BY <3>1 DEF p
    <3>3. OpIs(r, Capture, i)
      BY <3>2, <1>2, <1>3, <2>4, CaptureOps, Numbers DEF Plain, Ops, Reads, Kinds, Targets, OpIs, LastIs, Restores
    <3>4. LastIs(r, Capture, i)
      BY <3>2, <1>3, <2>4, CaptureOps, Numbers DEF Plain, Ops, Reads, Kinds, Targets, OpIs, LastIs, Restores
    <3> QED
      BY <3>1, <3>3, <3>4 DEF p
  <2>5. CASE r.reached = 4
    <3>1. p = FreshFence
      BY <2>1, <2>5, MainStages
    <3> HIDE DEF p
    <3>2. i \in 1..Len(FreshFence)
      BY <3>1 DEF p
    <3>3. OpIs(r, FreshFence, i)
      BY <3>2, <1>2, <1>3, <2>5, FreshOps, Numbers DEF Plain, Ops, Reads, Kinds, Targets, OpIs, LastIs, Restores
    <3>4. LastIs(r, FreshFence, i)
      BY <3>2, <1>3, <2>5, FreshOps, Numbers DEF Plain, Ops, Reads, Kinds, Targets, OpIs, LastIs, Restores
    <3> QED
      BY <3>1, <3>3, <3>4 DEF p
  <2>6. CASE r.reached = 5
    <3>1. p = StopSigner
      BY <2>1, <2>6, MainStages
    <3> HIDE DEF p
    <3>2. i \in 1..Len(StopSigner)
      BY <3>1 DEF p
    <3>3. OpIs(r, StopSigner, i)
      BY <3>2, <1>2, <1>3, <2>6, CalmStages, ScalingStages, Numbers DEF Calm, Scales, Drains, OpIs
    <3>4. LastIs(r, StopSigner, i)
      BY <3>2, <1>3, <2>6, StopOps, Numbers DEF Plain, Ops, Reads, Kinds, Targets, OpIs, LastIs, Restores
    <3> QED
      BY <3>1, <3>3, <3>4 DEF p
  <2>7. CASE r.reached = 6
    <3>1. p = Predelete
      BY <2>1, <2>7, MainStages
    <3> HIDE DEF p
    <3>2. i \in 1..Len(Predelete)
      BY <3>1 DEF p
    <3>3. OpIs(r, Predelete, i)
      BY <3>2, <1>2, <1>3, <2>7, PredeleteOps, Numbers DEF Plain, Ops, Reads, Kinds, Targets, OpIs, LastIs, Restores
    <3>4. LastIs(r, Predelete, i)
      BY <3>2, <1>3, <2>7, PredeleteOps, Numbers DEF Plain, Ops, Reads, Kinds, Targets, OpIs, LastIs, Restores
    <3> QED
      BY <3>1, <3>3, <3>4 DEF p
  <2>8. CASE r.reached = 7
    <3>1. p = DeleteRole
      BY <2>1, <2>8, MainStages
    <3> HIDE DEF p
    <3>2. i \in 1..Len(DeleteRole)
      BY <3>1 DEF p
    <3>3. OpIs(r, DeleteRole, i)
      BY <3>2, <1>2, <1>3, <2>8, DeleteOps, Numbers DEF Plain, Ops, Reads, Kinds, Targets, OpIs, LastIs, Restores
    <3>4. LastIs(r, DeleteRole, i)
      BY <3>2, <1>3, <2>8, DeleteOps, Numbers DEF Plain, Ops, Reads, Kinds, Targets, OpIs, LastIs, Restores
    <3> QED
      BY <3>1, <3>3, <3>4 DEF p
  <2>9. CASE r.reached = 8
    <3>1. p = ProveDenied
      BY <2>1, <2>9, MainStages
    <3> HIDE DEF p
    <3>2. i \in 1..Len(ProveDenied)
      BY <3>1 DEF p
    <3>3. OpIs(r, ProveDenied, i)
      BY <3>2, <1>2, <1>3, <2>9, CalmStages, ScalingStages, Numbers DEF Calm, Scales, Drains, OpIs
    <3>4. LastIs(r, ProveDenied, i)
      BY <3>2, <1>3, <2>9, DeniedOps, Numbers DEF Plain, Ops, Reads, Kinds, Targets, OpIs, LastIs, Restores
    <3> QED
      BY <3>1, <3>3, <3>4 DEF p
  <2>10. CASE r.reached = 9
    <3>1. p = StopSigner
      BY <2>1, <2>10, MainStages
    <3> HIDE DEF p
    <3>2. i \in 1..Len(StopSigner)
      BY <3>1 DEF p
    <3>3. OpIs(r, StopSigner, i)
      BY <3>2, <1>2, <1>3, <2>10, CalmStages, ScalingStages, Numbers DEF Calm, Scales, Drains, OpIs
    <3>4. LastIs(r, StopSigner, i)
      BY <3>2, <1>3, <2>10, StopOps, Numbers DEF Plain, Ops, Reads, Kinds, Targets, OpIs, LastIs, Restores
    <3> QED
      BY <3>1, <3>3, <3>4 DEF p
  <2>11. CASE r.reached = 10
    <3>1. p = RestoreRole
      BY <2>1, <2>11, MainStages
    <3> HIDE DEF p
    <3>2. i \in 1..Len(RestoreRole)
      BY <3>1 DEF p
    <3>3. OpIs(r, RestoreRole, i)
      BY <3>2, <1>2, <1>3, <2>11, RestoreOps, Numbers DEF Plain, Ops, Reads, Kinds, Targets, OpIs, LastIs, Restores
    <3>4. LastIs(r, RestoreRole, i)
      BY <3>2, <1>3, <2>11, RestoreOps, Numbers DEF Plain, Ops, Reads, Kinds, Targets, OpIs, LastIs, Restores
    <3> QED
      BY <3>1, <3>3, <3>4 DEF p
  <2>12. CASE r.reached = 11
    <3>1. p = RecoverSigner
      BY <2>1, <2>12, MainStages
    <3> HIDE DEF p
    <3>2. i \in 1..Len(RecoverSigner)
      BY <3>1 DEF p
    <3>3. OpIs(r, RecoverSigner, i)
      BY <3>2, <1>2, <1>3, <2>12, CalmStages, ScalingStages, Numbers DEF Calm, Scales, Drains, OpIs
    <3>4. LastIs(r, RecoverSigner, i)
      BY <3>2, <1>3, <2>12, RecoverOps, Numbers DEF Plain, Ops, Reads, Kinds, Targets, OpIs, LastIs, Restores
    <3> QED
      BY <3>1, <3>3, <3>4 DEF p
  <2>13. CASE r.reached = 12
    <3>1. p = Do("evidence")
      BY <2>1, <2>13, MainStages
    <3> HIDE DEF p
    <3>2. i \in 1..Len(Do("evidence"))
      BY <3>1 DEF p
    <3>3. OpIs(r, Do("evidence"), i)
      BY <3>2, <1>2, <1>3, <2>13, EvidenceOps, Numbers DEF Plain, Ops, Reads, Kinds, Targets, OpIs, LastIs, Restores
    <3>4. LastIs(r, Do("evidence"), i)
      BY <3>2, <1>3, <2>13, EvidenceOps, Numbers DEF Plain, Ops, Reads, Kinds, Targets, OpIs, LastIs, Restores
    <3> QED
      BY <3>1, <3>3, <3>4 DEF p
  <2>14. CASE r.reached = 13
    <3>1. p = Quiesce
      BY <2>1, <2>14, MainStages
    <3> HIDE DEF p
    <3>2. i \in 1..Len(Quiesce)
      BY <3>1 DEF p
    <3>3. OpIs(r, Quiesce, i)
      BY <3>2, <1>2, <1>3, <2>14, CalmStages, ScalingStages, Numbers DEF Calm, Scales, Drains, OpIs
    <3>4. LastIs(r, Quiesce, i)
      BY <3>2, <1>3, <2>14, QuiesceOps, Numbers DEF Plain, Ops, Reads, Kinds, Targets, OpIs, LastIs, Restores
    <3> QED
      BY <3>1, <3>3, <3>4 DEF p
  <2> QED
    BY <2>1, <2>2, <2>3, <2>4, <2>5, <2>6, <2>7, <2>8, <2>9, <2>10, <2>11, <2>12, <2>13, <2>14
<1>4. CASE r.stage # "main"
  <2>1. r.stage \in {"reconcile", "quiesce", "stop", "restore", "revoke", "release"}
    BY <1>4, CleanupNames DEF CeremonyState, Ongoing
  <2>2. p = Cleanup[r.stage]
    BY <1>4 DEF Program
  <2>3. CASE r.stage = "reconcile"
    <3>1. p = Do("reconcile")
      BY <2>2, <2>3, CleanupPrograms
    <3> HIDE DEF p
    <3>2. i \in 1..Len(Do("reconcile"))
      BY <3>1 DEF p
    <3>3. r.stage \in {"quiesce", "stop", "restore"} => r.owned
      BY <1>1, Numbers DEF Sound, Cleared
    <3>4. OpIs(r, Do("reconcile"), i)
      BY <3>2, <3>3, <2>3, ReconcileOps, Numbers DEF Plain, Ops, Reads, Kinds, Targets, OpIs, LastIs, Restores
    <3>5. LastIs(r, Do("reconcile"), i)
      BY <3>2, <2>3, ReconcileOps, Numbers DEF Plain, Ops, Reads, Kinds, Targets, OpIs, LastIs, Restores
    <3> QED
      BY <3>1, <3>4, <3>5 DEF p
  <2>4. CASE r.stage = "quiesce"
    <3>1. p = Quiesce
      BY <2>2, <2>4, CleanupPrograms
    <3> HIDE DEF p
    <3>2. i \in 1..Len(Quiesce)
      BY <3>1 DEF p
    <3>3. r.stage \in {"quiesce", "stop", "restore"} => r.owned
      BY <1>1, Numbers DEF Sound, Cleared
    <3>4. OpIs(r, Quiesce, i)
      BY <3>2, <3>3, <2>4, CalmStages, ScalingStages, Numbers DEF Calm, Scales, Drains, OpIs
    <3>5. LastIs(r, Quiesce, i)
      BY <3>2, <2>4, QuiesceOps, Numbers DEF Plain, Ops, Reads, Kinds, Targets, OpIs, LastIs, Restores
    <3> QED
      BY <3>1, <3>4, <3>5 DEF p
  <2>5. CASE r.stage = "stop"
    <3>1. p = StopSigner
      BY <2>2, <2>5, CleanupPrograms
    <3> HIDE DEF p
    <3>2. i \in 1..Len(StopSigner)
      BY <3>1 DEF p
    <3>3. r.stage \in {"quiesce", "stop", "restore"} => r.owned
      BY <1>1, Numbers DEF Sound, Cleared
    <3>4. OpIs(r, StopSigner, i)
      BY <3>2, <3>3, <2>5, CalmStages, ScalingStages, Numbers DEF Calm, Scales, Drains, OpIs
    <3>5. LastIs(r, StopSigner, i)
      BY <3>2, <2>5, StopOps, Numbers DEF Plain, Ops, Reads, Kinds, Targets, OpIs, LastIs, Restores
    <3> QED
      BY <3>1, <3>4, <3>5 DEF p
  <2>6. CASE r.stage = "restore"
    <3>1. p = RestoreRole
      BY <2>2, <2>6, CleanupPrograms
    <3> HIDE DEF p
    <3>2. i \in 1..Len(RestoreRole)
      BY <3>1 DEF p
    <3>3. r.stage \in {"quiesce", "stop", "restore"} => r.owned
      BY <1>1, Numbers DEF Sound, Cleared
    <3>4. OpIs(r, RestoreRole, i)
      BY <3>2, <3>3, <2>6, RestoreOps, Numbers DEF Plain, Ops, Reads, Kinds, Targets, OpIs, LastIs, Restores
    <3>5. LastIs(r, RestoreRole, i)
      BY <3>2, <2>6, RestoreOps, Numbers DEF Plain, Ops, Reads, Kinds, Targets, OpIs, LastIs, Restores
    <3> QED
      BY <3>1, <3>4, <3>5 DEF p
  <2>7. CASE r.stage = "revoke"
    <3>1. p = RevokeAdmin
      BY <2>2, <2>7, CleanupPrograms
    <3> HIDE DEF p
    <3>2. i \in 1..Len(RevokeAdmin)
      BY <3>1 DEF p
    <3>3. r.stage \in {"quiesce", "stop", "restore"} => r.owned
      BY <1>1, Numbers DEF Sound, Cleared
    <3>4. OpIs(r, RevokeAdmin, i)
      BY <3>2, <3>3, <2>7, RevokeOps, Numbers DEF Plain, Ops, Reads, Kinds, Targets, OpIs, LastIs, Restores
    <3>5. LastIs(r, RevokeAdmin, i)
      BY <3>2, <2>7, RevokeOps, Numbers DEF Plain, Ops, Reads, Kinds, Targets, OpIs, LastIs, Restores
    <3> QED
      BY <3>1, <3>4, <3>5 DEF p
  <2>8. CASE r.stage = "release"
    <3>1. p = ReleaseLock
      BY <2>2, <2>8, CleanupPrograms
    <3> HIDE DEF p
    <3>2. i \in 1..Len(ReleaseLock)
      BY <3>1 DEF p
    <3>3. r.stage \in {"quiesce", "stop", "restore"} => r.owned
      BY <1>1, Numbers DEF Sound, Cleared
    <3>4. OpIs(r, ReleaseLock, i)
      BY <3>2, <3>3, <2>8, ReleaseOps, Numbers DEF Plain, Ops, Reads, Kinds, Targets, OpIs, LastIs, Restores
    <3>5. LastIs(r, ReleaseLock, i)
      BY <3>2, <2>8, ReleaseOps, Numbers DEF Plain, Ops, Reads, Kinds, Targets, OpIs, LastIs, Restores
    <3> QED
      BY <3>1, <3>4, <3>5 DEF p
  <2> QED
    BY <2>1, <2>3, <2>4, <2>5, <2>6, <2>7, <2>8
<1> QED
  BY <1>3, <1>4

-----------------------------------------------------------------------------
(* How a ceremony goes on: to the next operation, to the next stage, or    *)
(* into its clean-ups.                                                     *)

(* The first applicable clean-up from the i-th on exists, for the last one *)
(* always applies.                                                         *)
LEMMA FirstNeeded ==
  ASSUME NEW r, NEW i \in 1..7
  PROVE  \E j \in i..7 : /\ Needed(r, Cleanups[j])
                         /\ \A m \in i..(j - 1) : ~Needed(r, Cleanups[m])
<1> DEFINE N(k) == Needed(r, Cleanups[k])
           First(j) == N(j) /\ \A m \in i..(j - 1) : ~N(m)
<1>1. N(7)
  BY CleanupNames DEF Needed
<1> HIDE DEF N
<1>2. \E j \in i..7 : First(j)
  <2>1. CASE \E j \in i..7 : N(j) /\ j = i
    BY <2>1
  <2>2. CASE ~N(i) /\ i + 1 <= 7 /\ N(i + 1)
    <3>1. First(i + 1) /\ i + 1 \in i..7
      BY <2>2
    <3> QED
      BY <3>1
  <2>3. CASE ~N(i) /\ i + 2 <= 7 /\ ~N(i + 1) /\ N(i + 2)
    <3>1. First(i + 2) /\ i + 2 \in i..7
      BY <2>3
    <3> QED
      BY <3>1
  <2>4. CASE ~N(i) /\ i + 3 <= 7 /\ ~N(i + 1) /\ ~N(i + 2) /\ N(i + 3)
    <3>1. First(i + 3) /\ i + 3 \in i..7
      BY <2>4
    <3> QED
      BY <3>1
  <2>5. CASE ~N(i) /\ i + 4 <= 7 /\ ~N(i + 1) /\ ~N(i + 2) /\ ~N(i + 3) /\ N(i + 4)
    <3>1. First(i + 4) /\ i + 4 \in i..7
      BY <2>5
    <3> QED
      BY <3>1
  <2>6. CASE /\ ~N(i) /\ i + 5 <= 7 /\ ~N(i + 1) /\ ~N(i + 2) /\ ~N(i + 3) /\ ~N(i + 4)
             /\ N(i + 5)
    <3>1. First(i + 5) /\ i + 5 \in i..7
      BY <2>6
    <3> QED
      BY <3>1
  <2>7. CASE /\ ~N(i) /\ i + 6 <= 7 /\ ~N(i + 1) /\ ~N(i + 2) /\ ~N(i + 3) /\ ~N(i + 4)
             /\ ~N(i + 5)
    <3>1. First(i + 6) /\ i + 6 \in i..7
      BY <2>7, <1>1
    <3> QED
      BY <3>1
  <2> QED
    BY <1>1, <2>1, <2>2, <2>3, <2>4, <2>5, <2>6, <2>7
<1> QED
  BY <1>2 DEF N

Same(r, e) ==
  /\ e.reached = r.reached /\ e.owned = r.owned /\ e.restored = r.restored
  /\ e.history = r.history /\ e.unconfirmed = r.unconfirmed
CleansUp(r, i, e) ==
  /\ e \in CeremonyState /\ e.ip = 1 /\ Same(r, e)
  /\ e.stage \in CleanupStages /\ Needed(r, e.stage)
  /\ e.result = IF e.stage = "end" THEN Result(r) ELSE "none"
  /\ i >= 2 => e.stage # "reconcile"
  /\ i >= 3 => e.stage # "quiesce"
  /\ i >= 4 => e.stage # "stop"
  /\ i >= 5 => e.stage # "restore"
  /\ i >= 6 => e.stage # "revoke"
  /\ i = 7 => e.stage = "end"
  /\ i <= 3 /\ e.stage \in {"restore", "revoke", "release", "end"} => ~Needed(r, "stop")
  /\ i <= 4 /\ e.stage \in {"revoke", "release", "end"} => ~Needed(r, "restore")
  /\ i <= 5 => e.stage \notin {"release", "end"}
  /\ i <= 6 /\ e.stage = "end" => ~Needed(r, "release")

LEMMA EnterEffect ==
  ASSUME NEW r \in CeremonyState, NEW i \in 1..7
  PROVE  CleansUp(r, i, Enter(r, i))
<1> DEFINE First(j) == Needed(r, Cleanups[j]) /\ \A m \in i..(j - 1) : ~Needed(r, Cleanups[m])
           j == CHOOSE k \in i..Len(Cleanups) : First(k)
           s == Cleanups[j]
           e == Enter(r, i)
<1>1. j \in i..7 /\ First(j)
  BY FirstNeeded, CleanupNames
<1>2. e = [r EXCEPT !.stage = s, !.ip = 1, !.rv = 0,
                    !.result = IF s = "end" THEN Result(r) ELSE "none"]
  BY DEF Enter
<1>3. Needed(r, s) /\ \A m \in i..(j - 1) : ~Needed(r, Cleanups[m])
  BY <1>1
<1> HIDE DEF j, e
<1>4. s \in CleanupStages /\ Result(r) \in {"PROBE_COMPLETE", "INCOMPLETE"}
  BY <1>1, CleanupNames DEF Result
<1>5. /\ e \in CeremonyState /\ e.ip = 1 /\ Same(r, e) /\ e.stage = s
      /\ e.result = IF s = "end" THEN Result(r) ELSE "none"
  <2> DEFINE out == IF s = "end" THEN Result(r) ELSE "none"
  <2>1. out \in {"none", "PROBE_COMPLETE", "INCOMPLETE"}
    BY <1>4
  <2>2. e = [r EXCEPT !.stage = s, !.ip = 1, !.rv = 0, !.result = out]
    BY <1>2
  <2> HIDE DEF s, out
  <2>3. e = [stage |-> s, reached |-> r.reached, ip |-> 1, rv |-> 0, owned |-> r.owned,
             restored |-> r.restored, history |-> r.history, unconfirmed |-> r.unconfirmed,
             result |-> out]
    BY <2>2 DEF CeremonyState
  <2>4. e \in CeremonyState
    BY <2>1, <2>3, <1>4, Numbers DEF CeremonyState
  <2>5. e.ip = 1 /\ Same(r, e) /\ e.stage = s /\ e.result = out
    BY <2>3 DEF Same
  <2> QED
    BY <2>4, <2>5 DEF out
<1>6. Needed(r, "revoke")
  BY DEF Needed
<1>7. /\ j = 1 => s = "reconcile"
      /\ j = 2 => s = "quiesce"
      /\ j = 3 => s = "stop"
      /\ j = 4 => s = "restore"
      /\ j = 5 => s = "revoke"
      /\ j = 6 => s = "release"
      /\ j = 7 => s = "end"
  BY CleanupNames
<1>8. /\ i <= 3 /\ j > 3 => ~Needed(r, "stop")
      /\ i <= 4 /\ j > 4 => ~Needed(r, "restore")
      /\ i <= 5 /\ j > 5 => ~Needed(r, "revoke")
      /\ i <= 6 /\ j > 6 => ~Needed(r, "release")
  BY <1>1, <1>3, CleanupNames
<1> HIDE DEF s
<1>9. j \in 1..7 /\ j >= i
  BY <1>1
<1> QED
  BY <1>3, <1>4, <1>5, <1>6, <1>7, <1>8, <1>9 DEF CleansUp, e

(* The stage of r is over, and e is what follows.                          *)
Follows(r, e) ==
  /\ e \in CeremonyState /\ Sound(e) /\ e.ip = 1
  /\ r.stage = "main" => e.reached = r.reached + 1
  /\ r.stage # "main" => e.reached = r.reached
  /\ r.owned => e.owned
  /\ e.owned => r.owned \/ (r.stage = "main" /\ r.reached = Acquiring)
  /\ r.restored \/ Restores(r) => e.restored
  /\ e.restored => r.restored \/ Restores(r)
  /\ e.unconfirmed = r.unconfirmed
  /\ r.stage # "main" => e.stage # "main"
  /\ e.stage # "crashed"
  /\ e.stage \in {"release", "end"} => r.stage \in {"revoke", "release"}
  /\ e.stage = "release" => r.stage = "revoke"
  /\ r.stage = "release" => e.stage = "end"
  /\ r.stage = "revoke" /\ e.stage = "end" => ~(e.owned /\ e.unconfirmed = {})
  /\ e.stage \in {"restore", "revoke", "release"} /\ e.reached \in Preparing..(Complete - 1)
       => r.stage \in {"stop", "restore", "revoke"}
  /\ e.stage = "end" => e.result = Result(e)
  /\ e.stage # "end" => e.result = "none"

LEMMA Started == ASSUME NEW p, Len(p) \in 1..13 PROVE 1 \in 1..Len(p)
<1> DEFINE n == Len(p)
<1>1. n \in 1..13
  OBVIOUS
<1> HIDE DEF n
<1>2. 1 \in 1..n
  BY <1>1
<1> QED
  BY <1>2 DEF n

LEMMA SoundMain ==
  ASSUME NEW e, e.stage = "main", e.reached \in 1..13, e.ip = 1, e.result = "none",
         Len(Program(e)) \in 1..13, e.unconfirmed = {},
         e.owned <=> e.reached > 2, e.restored <=> e.reached > 10
  PROVE  Sound(e)
<1>1. e.ip \in 1..Len(Program(e))
  BY Started
<1> QED
  BY <1>1, Numbers DEF Sound

LEMMA StageDoneEffect ==
  ASSUME NEW r \in CeremonyState, Sound(r), Ongoing(r)
  PROVE  Follows(r, StageDone(r))
<1> DEFINE own == r.owned \/ (r.stage = "main" /\ r.reached = Acquiring)
           res == r.restored \/ r.stage = "restore" \/ (r.stage = "main" /\ r.reached = Restoring)
           done == [r EXCEPT
             !.owned = @ \/ (r.stage = "main" /\ r.reached = Acquiring),
             !.restored = @ \/ r.stage = "restore" \/ (r.stage = "main" /\ r.reached = Restoring)]
           next == [done EXCEPT !.reached = @ + 1, !.ip = 1, !.rv = 0]
           e == StageDone(r)
<1>1. own \in BOOLEAN /\ res \in BOOLEAN
  BY DEF CeremonyState
<1>2. done = [stage |-> r.stage, reached |-> r.reached, ip |-> r.ip, rv |-> r.rv, owned |-> own,
              restored |-> res, history |-> r.history, unconfirmed |-> r.unconfirmed,
              result |-> r.result]
  <2>1. done = [r EXCEPT !.owned = own, !.restored = res]
    OBVIOUS
  <2> HIDE DEF own, res, done
  <2> QED
    BY <2>1 DEF CeremonyState
<1>3. next = [stage |-> r.stage, reached |-> r.reached + 1, ip |-> 1, rv |-> 0, owned |-> own,
              restored |-> res, history |-> r.history, unconfirmed |-> r.unconfirmed,
              result |-> r.result]
  <2>1. next = [done EXCEPT !.reached = done.reached + 1, !.ip = 1, !.rv = 0]
    OBVIOUS
  <2> HIDE DEF own, res, done, next
  <2> QED
    BY <1>2, <2>1
<1>4. e = IF r.stage # "main" THEN Enter(done, Position(r.stage) + 1)
          ELSE IF next.reached = Complete THEN Enter(next, 1)
          ELSE next
  BY DEF StageDone
<1>5. /\ own <=> r.owned \/ (r.stage = "main" /\ r.reached = Acquiring)
      /\ res <=> r.restored \/ Restores(r)
  BY DEF Restores
<1>6. r.reached \in 1..14 /\ (r.stage = "main" => r.reached \in 1..13)
  BY Numbers DEF CeremonyState, Sound
<1> HIDE DEF own, res, done, next, e
<1>7. done \in CeremonyState /\ (r.stage = "main" => next \in CeremonyState)
  BY <1>1, <1>2, <1>3, <1>6, Numbers DEF CeremonyState
<1>8. CASE r.stage = "main" /\ r.reached < 13
  <2>1. e = next
    BY <1>3, <1>4, <1>6, <1>8, Numbers
  <2>2. Program(e) = Main[r.reached + 1]
    BY <1>3, <1>8, <2>1 DEF Program
  <2>3. Len(Main[r.reached + 1]) \in 1..13
    <3>1. r.reached + 1 \in 2..13
      BY <1>6, <1>8
    <3> QED
      BY <3>1, MainStages, AcquireOps, CaptureOps, FreshOps, StopOps, PredeleteOps, DeleteOps,
         DeniedOps, RestoreOps, RecoverOps, EvidenceOps, QuiesceOps
  <2>4. (own <=> r.reached + 1 > 2) /\ (res <=> r.reached + 1 > 10)
    BY <1>5, <1>6, <1>8, Numbers DEF Sound, Restores
  <2>5. /\ e.stage = "main" /\ e.reached = r.reached + 1 /\ e.ip = 1 /\ e.owned = own
        /\ e.restored = res /\ e.unconfirmed = {} /\ e.result = "none"
        /\ e.unconfirmed = r.unconfirmed
    BY <1>3, <1>8, <2>1 DEF Sound, Ongoing
  <2>6. Len(Program(e)) \in 1..13
    BY <2>2, <2>3
  <2>7. Sound(e)
    <3>1. (e.owned <=> e.reached > 2) /\ (e.restored <=> e.reached > 10)
      BY <2>4, <2>5
    <3>2. e.reached \in 1..13
      BY <1>6, <1>8, <2>5
    <3> QED
      BY <2>5, <2>6, <3>1, <3>2, SoundMain
  <2>8. /\ r.owned => e.owned
        /\ e.owned => r.owned \/ (r.stage = "main" /\ r.reached = Acquiring)
        /\ r.restored \/ Restores(r) <=> e.restored
    BY <1>5, <2>5
  <2> QED
    <3>1. e \in CeremonyState /\ e.ip = 1
      BY <1>7, <1>8, <2>1, <2>5
    <3>2. /\ e.stage \notin {"release", "end", "crashed", "restore", "revoke"} /\ e.result = "none"
          /\ e.reached = r.reached + 1 /\ e.unconfirmed = r.unconfirmed
      BY <2>5
    <3> QED
      BY <1>8, <2>7, <2>8, <3>1, <3>2 DEF Follows, e
<1>9. CASE r.stage = "main" /\ r.reached = 13
  <2>1. e = Enter(next, 1) /\ CleansUp(next, 1, e)
    BY <1>3, <1>4, <1>7, <1>9, Numbers, EnterEffect
  <2>2. own /\ res
    BY <1>5, <1>9, Numbers DEF Sound
  <2>3. e.stage = "revoke"
    BY <1>3, <1>9, <2>1, <2>2, Numbers, CleanupNames DEF CleansUp, Needed
  <2>4. Len(Program(e)) = 2
    BY <2>3, CleanupPrograms, RevokeOps DEF Program
  <2>5. /\ e \in CeremonyState /\ e.reached = 14 /\ e.ip = 1 /\ e.owned /\ e.restored
        /\ e.unconfirmed = r.unconfirmed /\ e.result = "none"
    <3>1. e \in CeremonyState /\ e.ip = 1 /\ Same(next, e) /\ e.result = "none"
      BY <2>1, <2>3 DEF CleansUp
    <3>2. e.owned = own /\ e.restored = res /\ e.reached = 14 /\ e.unconfirmed = r.unconfirmed
      BY <1>3, <1>9, <3>1 DEF Same
    <3> QED
      BY <2>2, <3>1, <3>2
  <2>6. Sound(e)
    BY <2>3, <2>4, <2>5, Numbers DEF Sound, Ongoing, Cleared
  <2>7. Restores(r) => e.restored
    BY <2>5
  <2> QED
    <3>1. e.owned => r.owned \/ (r.stage = "main" /\ r.reached = Acquiring)
      BY <1>5, <2>2
    <3>2. r.restored \/ Restores(r)
      BY <1>5, <2>2
    <3>3. e.reached = r.reached + 1 /\ e.reached \notin Preparing..(Complete - 1)
      BY <1>9, <2>5, Numbers
    <3> QED
      BY <1>9, <2>3, <2>5, <2>6, <3>1, <3>2, <3>3 DEF Follows, e
<1>10. CASE r.stage # "main"
  <2> DEFINE i == Position(r.stage) + 1
  <2>1. r.stage \in {"reconcile", "quiesce", "stop", "restore", "revoke", "release"}
    BY <1>10, CleanupNames DEF CeremonyState, Ongoing
  <2>2. /\ i \in 2..7
        /\ r.stage = "reconcile" => i = 2
        /\ r.stage = "quiesce" => i = 3
        /\ r.stage = "stop" => i = 4
        /\ r.stage = "restore" => i = 5
        /\ r.stage = "revoke" => i = 6
        /\ r.stage = "release" => i = 7
    BY <2>1, Positions
  <2>3. e = Enter(done, i)
    BY <1>4, <1>10
  <2> HIDE DEF i
  <2>4. CleansUp(done, i, e)
    BY <1>7, <2>2, <2>3, EnterEffect
  <2>5. /\ e.stage \notin {"main", "crashed"} /\ e.reached = r.reached
        /\ e.owned = r.owned /\ e.unconfirmed = r.unconfirmed
        /\ e.restored <=> r.restored \/ r.stage = "restore"
        /\ e \in CeremonyState /\ e.ip = 1
    <3>1. own <=> r.owned
      BY <1>5, <1>10
    <3>2. e.stage \notin {"main", "crashed"} /\ e \in CeremonyState /\ e.ip = 1 /\ Same(done, e)
      BY <2>4, CleanupNames DEF CleansUp
    <3>3. /\ e.reached = r.reached /\ e.owned = own /\ e.restored = res
          /\ e.unconfirmed = r.unconfirmed
      BY <1>2, <3>2 DEF Same
    <3>4. own = r.owned
      BY <1>1, <3>1 DEF CeremonyState
    <3> QED
      BY <1>5, <1>10, <3>2, <3>3, <3>4 DEF Restores
  <2>6. Ongoing(e) => Len(Program(e)) \in 1..13
    BY <2>4, <2>5, CleanupNames, CleanupPrograms, ReconcileOps, QuiesceOps, StopOps, RestoreOps,
       RevokeOps, ReleaseOps DEF CleansUp, Program, Ongoing
  <2>7. (e.stage = "end" => e.result = Result(e)) /\ (e.stage # "end" => e.result = "none")
    BY <1>2, <2>4, <2>5 DEF CleansUp, Result
  <2>8. Needed(e, e.stage)
    BY <1>2, <2>4 DEF CleansUp, Same, Needed
  <2>9. /\ e.stage \in {"revoke", "release", "end"} /\ i <= 4 => ~Needed(e, "restore")
        /\ e.stage \in {"restore", "revoke", "release", "end"} /\ i <= 3 => ~Needed(e, "stop")
        /\ e.stage = "end" /\ i <= 6 => ~Needed(e, "release")
    BY <1>2, <2>4 DEF CleansUp, Same, Needed
  <2>10. Sound(e)
    <3>1. e.stage # "reconcile"
      BY <2>2, <2>4 DEF CleansUp
    <3>2. e.stage \in {"revoke", "release"} => Cleared(e) \/ "restore" \in e.unconfirmed
      <4>1. CASE i <= 4
        BY <1>6, <2>5, <2>9, <4>1, Numbers DEF Needed, Cleared
      <4>2. CASE i = 5
        BY <2>1, <2>2, <2>5, <4>2 DEF Cleared
      <4>3. CASE i > 5
        BY <1>6, <2>1, <2>2, <2>5, <4>3, Numbers DEF Sound, Cleared
      <4> QED
        BY <2>2, <4>1, <4>2, <4>3
    <3>3. e.stage = "restore" => ~Cleared(e)
      BY <1>6, <2>5, <2>8, Numbers DEF Needed, Cleared
    <3>4. /\ e.stage \in {"quiesce", "stop"} => e.reached \in 4..13
          /\ e.stage = "release" => e.owned /\ e.unconfirmed = {}
      BY <1>6, <2>5, <2>8, Numbers DEF Needed
    <3>5. /\ e.reached > 2 => e.owned
          /\ e.reached < 2 => ~e.owned
          /\ e.reached = 14 => e.restored
      BY <1>10, <2>5, Numbers DEF Sound
    <3>6. Ongoing(e) => e.ip \in 1..Len(Program(e)) /\ e.result = "none"
      <4>1. Ongoing(e) => e.ip \in 1..Len(Program(e))
        BY <2>5, <2>6, Started
      <4>2. Ongoing(e) => e.result = "none"
        BY <2>7 DEF Ongoing
      <4> QED
        BY <4>1, <4>2
    <3> QED
      BY <2>5, <3>1, <3>2, <3>3, <3>4, <3>5, <3>6, Numbers DEF Sound
  <2>11. /\ e.stage \in {"release", "end"} => r.stage \in {"revoke", "release"}
         /\ e.stage = "release" => r.stage = "revoke"
         /\ r.stage = "release" => e.stage = "end"
    BY <2>1, <2>2, <2>4 DEF CleansUp
  <2>12. r.stage = "revoke" /\ e.stage = "end" => ~(e.owned /\ e.unconfirmed = {})
    BY <2>2, <2>9 DEF Needed
  <2>13. e.stage \in {"restore", "revoke", "release"} /\ e.reached \in 4..13
           => r.stage \in {"stop", "restore", "revoke"}
    <3>1. e.reached \in 4..13 => Needed(e, "stop")
      BY Numbers DEF Needed
    <3>2. r.stage = "release" => e.stage = "end"
      BY <2>2, <2>4 DEF CleansUp
    <3> QED
      BY <2>1, <2>2, <2>9, <3>1, <3>2
  <2>14. r.restored \/ Restores(r) <=> e.restored
    BY <1>10, <2>5 DEF Restores
  <2> QED
    <3>1. e.stage \in {"restore", "revoke", "release"} /\ e.reached \in Preparing..(Complete - 1)
            => r.stage \in {"stop", "restore", "revoke"}
      BY <2>13, Numbers
    <3> QED
      BY <1>10, <2>5, <2>7, <2>10, <2>11, <2>12, <2>14, <3>1 DEF Follows, e
<1> QED
  BY <1>6, <1>8, <1>9, <1>10 DEF e

(* The operation of r failed, and e is the clean-up it goes on with.       *)
Breaks(r, e) ==
  /\ e \in CeremonyState /\ Sound(e)
  /\ e.reached = r.reached /\ e.owned = r.owned /\ e.restored = r.restored
  /\ e.stage \notin {"main", "crashed", "release"} /\ e.result # "PROBE_COMPLETE"
  /\ e.stage = "end" => r.stage \in {"revoke", "release"}
  /\ r.stage = "release" => e.stage = "end"
  /\ e.ip = 1
  /\ e.stage \in {"restore", "revoke"} /\ e.reached \in Preparing..(Complete - 1)
       => \/ r.stage \in {"restore", "revoke", "release"}
          \/ r.stage = "stop" /\ "stop" \in e.unconfirmed
  /\ r.unconfirmed \subseteq e.unconfirmed
  /\ "stop" \in e.unconfirmed => "stop" \in r.unconfirmed \/ r.stage = "stop"

LEMMA FailedEffect ==
  ASSUME NEW r \in CeremonyState, Sound(r), Ongoing(r)
  PROVE  Breaks(r, Failed(r))
<1> DEFINE d == [r EXCEPT !.unconfirmed = @ \cup {r.stage}]
           e == Failed(r)
<1>1. r.reached \in 1..14 /\ (r.stage = "main" => r.reached \in 1..13)
  BY Numbers DEF CeremonyState, Sound
<1>2. e = IF r.stage = "main" THEN Enter(r, 1) ELSE Enter(d, Position(r.stage) + 1)
  BY DEF Failed
<1> HIDE DEF d, e
<1>3. ASSUME NEW x \in CeremonyState, NEW i \in 1..7, CleansUp(x, i, e)
      PROVE  /\ e.stage \notin {"main", "crashed"} /\ e.ip = 1 /\ Same(x, e) /\ e \in CeremonyState
             /\ Ongoing(e) => e.ip \in 1..Len(Program(e)) /\ e.result = "none"
             /\ Needed(e, e.stage)
             /\ e.stage \in {"restore", "revoke", "release", "end"} /\ i <= 3 => ~Needed(e, "stop")
             /\ e.stage \in {"revoke", "release", "end"} /\ i <= 4 => ~Needed(e, "restore")
  <2>1. e.stage \notin {"main", "crashed"} /\ e \in CeremonyState /\ e.ip = 1 /\ Same(x, e)
    BY <1>3, CleanupNames DEF CleansUp
  <2>2. Ongoing(e) => e.result = "none"
    BY <1>3 DEF CleansUp, Ongoing
  <2>3. Ongoing(e) => Len(Program(e)) \in 1..13
    BY <1>3, <2>1, CleanupNames, CleanupPrograms, ReconcileOps, QuiesceOps, StopOps, RestoreOps,
       RevokeOps, ReleaseOps DEF CleansUp, Program, Ongoing
  <2>4. /\ Needed(e, e.stage)
        /\ e.stage \in {"restore", "revoke", "release", "end"} /\ i <= 3 => ~Needed(e, "stop")
        /\ e.stage \in {"revoke", "release", "end"} /\ i <= 4 => ~Needed(e, "restore")
    BY <1>3, <2>1 DEF CleansUp, Same, Needed
  <2> QED
    BY <2>1, <2>2, <2>3, <2>4, Started
<1>4. CASE r.stage = "main"
  <2>1. CleansUp(r, 1, e)
    BY <1>2, <1>4, EnterEffect
  <2>2. e.stage \in {"reconcile", "quiesce", "stop", "restore", "revoke"}
    BY <2>1, CleanupNames DEF CleansUp
  <2>3. /\ e.ip = 1 /\ Same(r, e) /\ e \in CeremonyState
        /\ Ongoing(e) => e.ip \in 1..Len(Program(e)) /\ e.result = "none"
        /\ Needed(e, e.stage)
        /\ e.stage \in {"restore", "revoke", "release", "end"} => ~Needed(e, "stop")
        /\ e.stage \in {"revoke", "release", "end"} => ~Needed(e, "restore")
    BY <2>1, <1>3
  <2>4. /\ e.reached = r.reached /\ e.owned = r.owned /\ e.restored = r.restored
        /\ e.unconfirmed = r.unconfirmed
    BY <2>3 DEF Same
  <2>5. e.stage = "reconcile" => e.reached = 2
    BY <1>1, <1>4, <2>3, <2>4, Numbers DEF Sound, Needed
  <2>6. /\ e.stage \in {"quiesce", "stop"} => e.reached \in 4..13
        /\ e.stage = "restore" => ~Cleared(e)
        /\ e.stage = "revoke" => Cleared(e)
    BY <1>1, <2>3, <2>4, Numbers DEF Needed, Cleared
  <2>7. Sound(e)
    BY <1>1, <1>4, <2>2, <2>3, <2>4, <2>5, <2>6, Numbers DEF Sound
  <2>8. e.stage \in {"restore", "revoke"} => e.reached \notin Preparing..(Complete - 1)
    BY <2>3, Numbers DEF Needed
  <2>9. e.result = "none"
    BY <2>2, <2>3 DEF Ongoing
  <2> QED
    BY <1>4, <2>2, <2>3, <2>4, <2>7, <2>8, <2>9 DEF Breaks, e
<1>5. CASE r.stage # "main"
  <2> DEFINE i == Position(r.stage) + 1
  <2>1. r.stage \in {"reconcile", "quiesce", "stop", "restore", "revoke", "release"}
    BY <1>5, CleanupNames DEF CeremonyState, Ongoing
  <2>2. /\ i \in 2..7
        /\ r.stage = "reconcile" => i = 2
        /\ r.stage = "quiesce" => i = 3
        /\ r.stage = "stop" => i = 4
        /\ r.stage = "restore" => i = 5
        /\ r.stage = "revoke" => i = 6
        /\ r.stage = "release" => i = 7
    BY <2>1, Positions
  <2>3. e = Enter(d, i)
    BY <1>2, <1>5
  <2> HIDE DEF i
  <2>4. d \in CeremonyState /\ d.unconfirmed = r.unconfirmed \cup {r.stage}
        /\ d.reached = r.reached /\ d.owned = r.owned /\ d.restored = r.restored
    BY <2>1, CleanupNames DEF CeremonyState, d
  <2>5. CleansUp(d, i, e)
    BY <2>2, <2>3, <2>4, EnterEffect
  <2>6. /\ e.ip = 1 /\ Same(d, e) /\ e \in CeremonyState /\ e.stage \notin {"main", "crashed"}
        /\ Ongoing(e) => e.ip \in 1..Len(Program(e)) /\ e.result = "none"
        /\ Needed(e, e.stage)
        /\ e.stage \in {"restore", "revoke", "release", "end"} /\ i <= 3 => ~Needed(e, "stop")
        /\ e.stage \in {"revoke", "release", "end"} /\ i <= 4 => ~Needed(e, "restore")
    BY <1>3, <2>2, <2>4, <2>5
  <2>7. /\ e.reached = r.reached /\ e.owned = r.owned /\ e.restored = r.restored
        /\ e.unconfirmed = r.unconfirmed \cup {r.stage}
    BY <2>4, <2>6 DEF Same
  <2>8. e.stage \notin {"reconcile", "release"}
    BY <2>2, <2>5, <2>6, <2>7 DEF CleansUp, Needed
  <2>9. /\ e.stage \in {"quiesce", "stop"} => e.reached \in 4..13
        /\ e.stage = "restore" => ~Cleared(e)
    BY <1>1, <2>6, <2>7, Numbers DEF Needed, Cleared
  <2>10. e.stage = "revoke" => Cleared(e) \/ "restore" \in e.unconfirmed
    <3>1. CASE i <= 4
      BY <1>1, <2>6, <2>7, <3>1, Numbers DEF Needed, Cleared
    <3>2. CASE i = 5
      BY <2>1, <2>2, <2>7, <3>2
    <3>3. CASE i > 5
      BY <2>2, <2>5, <3>3 DEF CleansUp
    <3> QED
      BY <2>2, <3>1, <3>2, <3>3
  <2>11. Sound(e)
    <3>1. /\ e.reached > 2 => e.owned
          /\ e.reached < 2 => ~e.owned
          /\ e.reached = 14 => e.restored
      BY <2>7, Numbers DEF Sound
    <3> QED
      BY <2>6, <2>8, <2>9, <2>10, <3>1, Numbers DEF Sound
  <2>12. /\ e.stage = "end" => r.stage \in {"revoke", "release"}
         /\ r.stage = "release" => e.stage = "end"
    BY <2>1, <2>2, <2>5 DEF CleansUp
  <2>13. e.result # "PROBE_COMPLETE"
    BY <2>4, <2>5 DEF CleansUp, Result
  <2>14. e.stage \in {"restore", "revoke"} /\ e.reached \in Preparing..(Complete - 1)
       => \/ r.stage \in {"restore", "revoke", "release"}
          \/ r.stage = "stop" /\ "stop" \in e.unconfirmed
    <3>1. e.reached \in Preparing..(Complete - 1) => Needed(e, "stop")
      BY Numbers DEF Needed
    <3> QED
      BY <2>1, <2>2, <2>6, <2>7, <3>1
  <2> QED
    BY <2>6, <2>7, <2>8, <2>11, <2>12, <2>13, <2>14 DEF Breaks, e
<1> QED
  BY <1>4, <1>5

(* The operation of r, or the three operations of a change that is not     *)
(* needed, are done, and e is what follows: the next one, or the stage is  *)
(* over.                                                                   *)
Steps(r, by, e) ==
  \/ /\ r.ip + by <= Len(Program(r))
     /\ e = [r EXCEPT !.ip = r.ip + by]
     /\ e \in CeremonyState /\ Sound(e)
  \/ r.ip + by > Len(Program(r)) /\ Follows(r, e)

LEMMA AdvanceEffect ==
  ASSUME NEW r \in CeremonyState, Sound(r), Ongoing(r), NEW by \in {1, 3}
  PROVE  Steps(r, by, Advance(r, by))
<1> DEFINE n == Len(Program(r))
           e == Advance(r, by)
<1>1. r.ip \in 1..n
  BY DEF Sound
<1>2. n \in 1..13
  BY <1>1, OpFacts DEF OpIs
<1>3. e = IF r.ip + by > n THEN StageDone(r) ELSE [r EXCEPT !.ip = r.ip + by]
  BY DEF Advance
<1> HIDE DEF n, e
<1>4. CASE r.ip + by > n
  BY <1>3, <1>4, StageDoneEffect DEF Steps, n, e
<1>5. CASE r.ip + by <= n
  <2>1. e = [r EXCEPT !.ip = r.ip + by]
    BY <1>1, <1>2, <1>3, <1>5
  <2>2. r.ip + by \in 1..n /\ r.ip + by \in 1..20
    BY <1>1, <1>2, <1>5
  <2>3. e \in CeremonyState
    BY <2>1, <2>2 DEF CeremonyState
  <2>4. /\ e.stage = r.stage /\ e.reached = r.reached /\ e.owned = r.owned
        /\ e.restored = r.restored /\ e.unconfirmed = r.unconfirmed /\ e.result = r.result
        /\ e.ip = r.ip + by
    BY <2>1 DEF CeremonyState
  <2>5. Program(e) = Program(r)
    BY <2>4 DEF Program
  <2>6. Sound(e)
    BY <2>2, <2>4, <2>5 DEF Sound, Ongoing, Cleared, n
  <2> QED
    BY <1>5, <2>1, <2>3, <2>6 DEF Steps, n, e
<1> QED
  BY <1>1, <1>2, <1>4, <1>5

-----------------------------------------------------------------------------
(* A step of one ceremony, as far as the invariants tell steps apart.      *)

(* It saw client, fence and signer run and began to stop them.             *)
Tested(r) == r.reached > Preparing \/ (r.stage = "main" /\ r.reached = Preparing /\ r.ip > 2)
(* Its clean-up saw the signer stopped.                                    *)
Stopped(r) ==
  /\ r.reached \in Preparing..(Complete - 1) /\ "stop" \notin r.unconfirmed
  /\ r.stage \in {"restore", "revoke", "release", "end"} \/ (r.stage = "stop" /\ r.ip > 7)
Reported(e) ==
  e.stage = "end" /\ e.reached = Complete /\ e.unconfirmed = {}

(* What a step from r to e shows to have been seen: the answer `o'.        *)
Shows(r, o, e) ==
  /\ e \in CeremonyState /\ Sound(e)
  /\ e.reached = r.reached \/ (r.stage = "main" /\ e.reached = r.reached + 1)
  /\ r.restored => e.restored
  /\ e.owned => r.owned \/ o = "mine"
  /\ e.restored => r.restored \/ o \in {"exact", "kept"}
  /\ e.stage = "main" => r.stage = "main"
  /\ e.stage # "crashed"
  /\ e.stage \in {"release", "end"} => r.stage \in {"revoke", "release"}
  /\ r.stage = "release" => e.stage \in {"release", "end"}
  /\ e.stage = "release" => r.stage = "release" \/ o = "rejected"
  /\ Tested(e) => Tested(r) \/ o = "running"
  /\ e.reached > Preparing => r.reached > Preparing \/ o = "quiesced"
  /\ Stopped(e) => Stopped(r) \/ o = "signerAbsent"
  /\ e.result = "PROBE_COMPLETE" => Reported(e) /\ r.stage = "release" /\ o \in {"unmarked", "gone"}

LEMMA NextShows ==
  ASSUME NEW r \in CeremonyState, Sound(r), Ongoing(r), NEW by \in {1, 3}, NEW e, Steps(r, by, e),
         by = 3 => Program(r)[r.ip].op = "get"
  PROVE  Shows(r, Program(r)[r.ip].op, e)
<1> DEFINE o == Program(r)[r.ip].op
           n == Len(Program(r))
<1>1. r.ip \in 1..n /\ r.result = "none"
  BY DEF Sound
<1>2. OpIs(r, Program(r), r.ip) /\ LastIs(r, Program(r), r.ip)
  BY <1>1, OpFacts
<1>3. n \in 1..13 /\ r.reached \in 1..14
  BY <1>2, Numbers DEF OpIs, CeremonyState
<1>4. CASE /\ r.ip + by <= n /\ e = [r EXCEPT !.ip = r.ip + by]
           /\ e \in CeremonyState /\ Sound(e)
  <2>1. /\ e.stage = r.stage /\ e.reached = r.reached /\ e.owned = r.owned
        /\ e.restored = r.restored /\ e.unconfirmed = r.unconfirmed /\ e.result = r.result
        /\ e.ip = r.ip + by
    BY <1>4 DEF CeremonyState
  <2>2. Tested(e) => Tested(r) \/ o = "running"
    <3>1. CASE by = 1
      BY <1>1, <1>2, <2>1, <3>1 DEF Tested, LastIs
    <3>2. CASE by = 3
      BY <1>1, <1>2, <2>1, <3>2 DEF Tested, LastIs
    <3> QED
      BY <3>1, <3>2
  <2>3. Stopped(e) => Stopped(r) \/ o = "signerAbsent"
    <3>1. CASE by = 1
      BY <1>1, <1>2, <1>3, <2>1, <3>1 DEF Stopped, LastIs
    <3>2. CASE by = 3
      BY <1>1, <1>2, <1>3, <2>1, <3>2 DEF Stopped, LastIs
    <3> QED
      BY <3>1, <3>2
  <2>4. e.stage \notin {"end", "crashed"} /\ e.result # "PROBE_COMPLETE"
    BY <1>1, <2>1 DEF Ongoing
  <2>5. e.stage = "release" => r.stage = "release"
    BY <2>1
  <2> HIDE DEF o
  <2> QED
    BY <1>4, <2>1, <2>2, <2>3, <2>4, <2>5 DEF Shows, o
<1>5. CASE r.ip + by > n /\ Follows(r, e)
  <2>1. by = 1 /\ r.ip = n
    BY <1>1, <1>2, <1>3, <1>5 DEF OpIs
  <2>2. /\ r.stage = "main" /\ r.reached = Acquiring => o = "mine"
        /\ r.stage = "main" /\ r.reached = Preparing => o = "quiesced"
        /\ Restores(r) => o = "exact"
        /\ r.stage = "revoke" => o = "rejected"
        /\ r.stage = "release" => o = "unmarked"
    BY <1>2, <2>1 DEF LastIs
  <2>3. r.stage = "stop" => r.ip > 7
    <3>1. r.stage = "stop" => n = 8
      BY <1>2 DEF LastIs
    <3> HIDE DEF n
    <3> QED
      BY <2>1, <3>1
  <2>4. r.stage = "main" /\ r.reached = Preparing => r.ip > 2
    <3>1. r.stage = "main" /\ r.reached = Preparing => n = 13
      BY <1>2 DEF LastIs
    <3> HIDE DEF n
    <3> QED
      BY <2>1, <3>1
  <2> HIDE DEF o
  <2>5. Tested(e) => Tested(r)
    BY <1>3, <1>5, <2>4, Numbers DEF Follows, Tested
  <2>6. e.reached > Preparing => r.reached > Preparing \/ o = "quiesced"
    BY <1>3, <1>5, <2>2, Numbers DEF Follows
  <2>7. Stopped(e) => Stopped(r)
    <3>1. e.stage = "stop" => e.ip = 1
      BY <1>5 DEF Follows
    <3>2. e.stage = "release" => r.stage = "revoke"
      BY <1>5 DEF Follows
    <3>3. e.stage \in {"restore", "revoke", "release"} /\ e.reached \in Preparing..(Complete - 1)
            => r.stage \in {"stop", "restore", "revoke"}
      BY <1>5 DEF Follows
    <3>5. e.stage = "end" => r.stage \in {"revoke", "release"}
      BY <1>5 DEF Follows
    <3>4. e.unconfirmed = r.unconfirmed /\ (r.stage # "main" => e.reached = r.reached)
      BY <1>5 DEF Follows
    <3> QED
      BY <2>3, <3>1, <3>2, <3>3, <3>4, <3>5 DEF Stopped
  <2>8. e.result = "PROBE_COMPLETE" => Reported(e) /\ r.stage = "release"
    <3> SUFFICES ASSUME e.result = "PROBE_COMPLETE" PROVE Reported(e) /\ r.stage = "release"
      OBVIOUS
    <3>1. e.stage = "end" /\ Result(e) = "PROBE_COMPLETE"
      BY <1>5 DEF Follows
    <3>2. Reported(e)
      BY <3>1 DEF Result, Reported
    <3>3. e.owned
      BY <1>5, <3>2, Numbers DEF Follows, Reported, Sound
    <3> QED
      BY <1>5, <3>1, <3>2, <3>3 DEF Follows, Reported
  <2>9. e.stage = "release" => r.stage = "release" \/ o = "rejected"
    BY <1>5, <2>2 DEF Follows
  <2>10. e.reached = r.reached \/ (r.stage = "main" /\ e.reached = r.reached + 1)
    BY <1>5 DEF Follows
  <2>11. /\ e.owned => r.owned \/ o = "mine"
         /\ e.restored => r.restored \/ o \in {"exact", "kept"}
    BY <1>5, <2>2 DEF Follows
  <2> QED
    BY <1>5, <2>2, <2>5, <2>6, <2>7, <2>8, <2>9, <2>10, <2>11 DEF Follows, Shows, o
<1> QED
  BY <1>4, <1>5 DEF Steps

LEMMA BreakShows ==
  ASSUME NEW r \in CeremonyState, Sound(r), Ongoing(r), NEW e, Breaks(r, e)
  PROVE  Shows(r, "none", e)
<1>1. r.reached \in 1..14 /\ e.reached = r.reached /\ e.stage \notin {"main", "crashed", "release"}
  BY Numbers DEF CeremonyState, Breaks
<1>2. Tested(e) => Tested(r)
  BY <1>1 DEF Tested
<1>3. Stopped(e) => Stopped(r)
  BY <1>1, Numbers DEF Breaks, Stopped
<1> QED
  BY <1>1, <1>2, <1>3 DEF Breaks, Shows

(* A restoration that finds the reviewed role, a release that finds no     *)
(* marker.                                                                 *)
LEMMA DoneShows ==
  ASSUME NEW r \in CeremonyState, Sound(r), Ongoing(r), NEW e, Follows(r, e),
         NEW o, (o = "kept" /\ Restores(r)) \/ (o = "gone" /\ r.stage = "release")
  PROVE  Shows(r, o, e)
<1>1. r.reached \in 1..14 /\ (r.stage = "main" => r.reached = 10)
  BY Numbers DEF CeremonyState, Restores
<1>2. Tested(e) => Tested(r)
  BY <1>1, Numbers DEF Follows, Tested
<1>3. Stopped(e) => Stopped(r)
  <2>1. r.stage \in {"main", "restore", "release"}
    BY DEF Restores
  <2>2. /\ e.stage = "stop" => e.ip = 1
        /\ e.stage = "release" => r.stage = "revoke"
        /\ e.stage \in {"restore", "revoke", "release"} /\ e.reached \in Preparing..(Complete - 1)
            => r.stage \in {"stop", "restore", "revoke"}
        /\ e.stage = "end" => r.stage \in {"revoke", "release"}
        /\ e.unconfirmed = r.unconfirmed /\ (r.stage # "main" => e.reached = r.reached)
    BY DEF Follows
  <2> QED
    BY <2>1, <2>2 DEF Stopped
<1>4. e.result = "PROBE_COMPLETE" => Reported(e) /\ r.stage = "release"
  <2> SUFFICES ASSUME e.result = "PROBE_COMPLETE" PROVE Reported(e) /\ r.stage = "release"
    OBVIOUS
  <2>1. e.stage = "end" /\ Result(e) = "PROBE_COMPLETE" /\ r.stage \in {"revoke", "release"}
    BY DEF Follows
  <2>2. Reported(e)
    BY <2>1 DEF Result, Reported
  <2> QED
    BY <2>1, <2>2 DEF Restores
<1>5. /\ e.owned => r.owned
      /\ e.restored => r.restored \/ o = "kept"
      /\ e.stage # "release"
  BY <1>1, Numbers DEF Follows, Restores
<1>6. e.result = "PROBE_COMPLETE" => o = "gone"
  BY <1>4 DEF Restores
<1>7. e.reached > Preparing => r.reached > Preparing
  BY <1>1, Numbers DEF Follows
<1> QED
  BY <1>2, <1>3, <1>4, <1>5, <1>6, <1>7 DEF Follows, Shows

-----------------------------------------------------------------------------
(* The actions of a ceremony.                                              *)

SoundInv == \A c \in Ceremonies : Sound(cer[c])

Answers == Ops \cup {"kept", "gone", "none"}
(* What the cluster is like when a ceremony gets this answer.              *)
Answered(c, o) ==
  /\ o = "mine" => marker = c
  /\ o \in {"exact", "kept"} => role = "exact"
  /\ o = "rejected" => tokens[c] = "revoked"
  /\ o = "running" => \A x \in Targets : Running(x)
  /\ o = "quiesced" => Quiesced
  /\ o = "signerAbsent" => Absent("signer")
  /\ o \in {"unmarked", "gone"} => marker = NoOne
(* What a ceremony may ask for in its state r.                             *)
Requests == [kind : Kinds, by : Ceremonies \cup Activations, x : Targets, n : {0, 1}, rv : Nat]
MayAsk(c, r, q) ==
  /\ q \in Requests /\ q.by = c
  /\ q.kind = "create" => r.stage = "main" /\ r.reached = Acquiring
  /\ q.kind = "delete" => r.stage = "main" /\ r.reached = Deleting
  /\ q.kind = "unmark" => r.stage = "release"
  /\ q.kind \in {"patch", "delete", "write"} => r.owned /\ r.stage # "release"
  /\ q.kind = "patch" /\ q.n = 1 => q.x = "signer" /\ r.stage = "main"
(* A step of ceremony c that takes it to e.                                *)
Does(c, e) ==
  /\ cer' = [cer EXCEPT ![c] = e]
  /\ Ongoing(cer[c])
  /\ \E o \in Answers : /\ Answered(c, o) /\ Shows(cer[c], o, e)
                        /\ UNCHANGED clusterVars \/ o \in Kinds \cup {"none"}
  /\ \/ UNCHANGED clusterVars
     \/ \E q : MayAsk(c, cer[c], q) /\ Accepted(q) /\ Now(q)
     \/ \E q : MayAsk(c, cer[c], q) /\ PutOff(q) /\ Breaks(cer[c], e)

LEMMA Typed ==
  ASSUME TypeOK
  PROVE  /\ marker \in Ceremonies \cup {NoOne}
         /\ replicas \in [Targets -> {0, 1}] /\ version \in [Targets -> Nat]
         /\ pods \in [Targets -> {"none", "blocked", "up"}]
         /\ role \in {"exact", "drifted", "absent"} /\ drifts \in 0..MaxDrifts
         /\ tokens \in [Ceremonies -> {"live", "revoked"}]
         /\ late \subseteq Requests
         /\ \A q \in late : q.kind \in Delayable
         /\ cer \in [Ceremonies -> CeremonyState] /\ act \in [Activations -> ActivationState]
BY ClusterAssumption DEF TypeOK, ClusterTypeOK, CeremonyTypeOK, ActivationTypeOK, Requests

LEMMA CeremonyDoes ==
  ASSUME TypeOK, SoundInv, NEW c \in Ceremonies, CeremonyStep(c)
  PROVE  \E e \in CeremonyState : Does(c, e)
<1> DEFINE r == cer[c]
           p == Program(cer[c])[cer[c].ip]
<1>1. r \in CeremonyState /\ Sound(r) /\ Ongoing(r) /\ r.ip \in 1..Len(Program(r))
  BY Typed DEF SoundInv, CeremonyStep, Active, Ongoing, Sound
<1>2. OpIs(r, Program(r), r.ip) /\ p.op \in Ops /\ p \in [op : Ops, x : Targets, n : {0, 1}]
  BY <1>1, OpFacts DEF OpIs, Plain
<1>3. NextOp(c) = p
  BY DEF NextOp
<1> HIDE DEF p
<1>4. ASSUME NEW e, Shows(r, p.op, e), cer' = [cer EXCEPT ![c] = e], UNCHANGED clusterVars,
             Answered(c, p.op)
      PROVE  \E x \in CeremonyState : Does(c, x)
  <2>1. p.op \in Answers /\ e \in CeremonyState
    BY <1>2, <1>4 DEF Answers, Shows
  <2>2. Does(c, e)
    BY <1>1, <1>4, <2>1 DEF Does
  <2> QED
    BY <2>1, <2>2
<1>5. ASSUME NEW o \in {"kept", "gone"}, NEW e, Shows(r, o, e), cer' = [cer EXCEPT ![c] = e],
             UNCHANGED clusterVars, Answered(c, o)
      PROVE  \E x \in CeremonyState : Does(c, x)
  <2>1. o \in Answers /\ e \in CeremonyState
    BY <1>5 DEF Answers, Shows
  <2>2. Does(c, e)
    BY <1>1, <1>5, <2>1 DEF Does
  <2> QED
    BY <2>1, <2>2
<1>6. CASE ReadPasses(c)
  <2> DEFINE y == [cer[c] EXCEPT !.history = @ \/ p.op = "history"]
             e == Advance(y, 1)
  <2>1. cer' = [cer EXCEPT ![c] = e] /\ UNCHANGED clusterVars /\ p.op \in Reads /\ Holds(c, p)
    BY <1>3, <1>6 DEF ReadPasses
  <2>2. /\ y \in CeremonyState /\ y.stage = r.stage /\ y.reached = r.reached /\ y.ip = r.ip
        /\ y.owned = r.owned /\ y.restored = r.restored /\ y.unconfirmed = r.unconfirmed
        /\ y.result = r.result
    <3> DEFINE h == r.history \/ p.op = "history"
    <3>1. h \in BOOLEAN /\ y = [r EXCEPT !.history = h]
      BY <1>1 DEF CeremonyState
    <3> HIDE DEF h, y, r
    <3> QED
      BY <1>1, <3>1 DEF CeremonyState
  <2> HIDE DEF y, e
  <2>3. Program(y) = Program(r)
    BY <2>2 DEF Program
  <2>4. Sound(y) /\ Ongoing(y)
    BY <1>1, <2>2, <2>3 DEF Sound, Ongoing, Cleared
  <2>5. Shows(y, p.op, e)
    BY <2>2, <2>3, <2>4, AdvanceEffect, NextShows DEF e, p
  <2>6. Shows(r, p.op, e)
    BY <2>2, <2>5 DEF Shows, Tested, Stopped
  <2>7. Answered(c, p.op)
    BY <2>1 DEF Holds, Answered, Reads
  <2> QED
    BY <1>4, <2>1, <2>6, <2>7
<1>7. CASE GetController(c)
  <2>1. p.op = "get" /\ UNCHANGED clusterVars
    BY <1>3, <1>7 DEF GetController
  <2>2. Answered(c, p.op)
    BY <2>1 DEF Answered
  <2>3. CASE replicas[p.x] = p.n
    <3>1. cer' = [cer EXCEPT ![c] = Advance(cer[c], 3)]
      BY <1>3, <1>7, <2>3 DEF GetController
    <3>2. Shows(r, p.op, Advance(r, 3))
      BY <1>1, <2>1, AdvanceEffect, NextShows DEF p
    <3> QED
      BY <1>4, <2>1, <2>2, <3>1, <3>2
  <2>4. CASE replicas[p.x] # p.n
    <3> DEFINE y == [cer[c] EXCEPT !.rv = version[p.x]]
               e == Advance(y, 1)
    <3>1. cer' = [cer EXCEPT ![c] = e]
      BY <1>3, <1>7, <2>4 DEF GetController
    <3>2. /\ y \in CeremonyState /\ y.stage = r.stage /\ y.reached = r.reached /\ y.ip = r.ip
          /\ y.owned = r.owned /\ y.restored = r.restored /\ y.unconfirmed = r.unconfirmed
          /\ y.result = r.result
      BY <1>1, <1>2, Typed DEF CeremonyState
    <3> HIDE DEF y, e
    <3>3. Program(y) = Program(r)
      BY <3>2 DEF Program
    <3>4. Sound(y) /\ Ongoing(y)
      BY <1>1, <3>2, <3>3 DEF Sound, Ongoing, Cleared
    <3>5. Shows(y, p.op, e)
      BY <3>2, <3>3, <3>4, AdvanceEffect, NextShows DEF e, p
    <3>6. Shows(r, p.op, e)
      BY <3>2, <3>5 DEF Shows, Tested, Stopped
    <3> QED
      BY <1>4, <2>1, <2>2, <3>1, <3>6
  <2> QED
    BY <2>3, <2>4
<1>8. CASE ReconcileLock(c)
  <2> DEFINE y == [cer[c] EXCEPT !.owned = Reconciles(c)]
             e == Advance(y, 1)
  <2>1. cer' = [cer EXCEPT ![c] = e] /\ UNCHANGED clusterVars /\ p.op = "reconcile"
    BY <1>3, <1>8 DEF ReconcileLock
  <2>2. r.stage = "reconcile" /\ r.reached = 2
    BY <1>1, <1>2, <2>1, Numbers DEF OpIs, Sound, p
  <2>3. /\ y \in CeremonyState /\ y.stage = r.stage /\ y.reached = r.reached /\ y.ip = r.ip
        /\ y.owned <=> marker = c
        /\ y.restored = r.restored /\ y.unconfirmed = r.unconfirmed
        /\ y.result = r.result
    <3> DEFINE h == Reconciles(c)
    <3>1. h \in BOOLEAN /\ (h <=> marker = c)
      BY DEF Reconciles
    <3>2. y = [r EXCEPT !.owned = h]
      OBVIOUS
    <3> HIDE DEF h, y, r
    <3>3. /\ y \in CeremonyState /\ y.stage = r.stage /\ y.reached = r.reached /\ y.ip = r.ip
          /\ y.owned = h
          /\ y.restored = r.restored /\ y.unconfirmed = r.unconfirmed
          /\ y.result = r.result
      BY <1>1, <3>1, <3>2 DEF CeremonyState
    <3> QED
      BY <3>1, <3>3
  <2> HIDE DEF y, e
  <2>4. Program(y) = Program(r)
    BY <2>3 DEF Program
  <2>5. Sound(y) /\ Ongoing(y)
    BY <1>1, <2>2, <2>3, <2>4, Numbers DEF Sound, Ongoing, Cleared
  <2>6. Shows(y, p.op, e)
    BY <2>3, <2>4, <2>5, AdvanceEffect, NextShows DEF e, p
  <2>7. CASE marker = c
    <3>1. Shows(r, "mine", e) /\ Answered(c, "mine")
      BY <2>1, <2>3, <2>6, <2>7 DEF Shows, Tested, Stopped, Answered
    <3>2. "mine" \in Answers /\ e \in CeremonyState
      BY <3>1 DEF Answers, Ops, Reads, Shows
    <3>3. Does(c, e)
      BY <1>1, <2>1, <3>1, <3>2 DEF Does
    <3> QED
      BY <3>2, <3>3
  <2>8. CASE marker # c
    <3>1. Shows(r, p.op, e) /\ Answered(c, p.op)
      BY <2>1, <2>3, <2>6, <2>8 DEF Shows, Tested, Stopped, Answered
    <3> QED
      BY <1>4, <2>1, <3>1
  <2> QED
    BY <2>7, <2>8
<1>9. CASE NothingToDo(c)
  <2> DEFINE o == IF p.op = "restorable" THEN "kept" ELSE "gone"
  <2>1. cer' = [cer EXCEPT ![c] = StageDone(r)] /\ UNCHANGED clusterVars
    BY <1>9 DEF NothingToDo
  <2>2. \/ p.op = "restorable" /\ role = "exact"
        \/ p.op = "owned" /\ marker = NoOne
    BY <1>3, <1>9 DEF NothingToDo
  <2>3. (o = "kept" /\ Restores(r)) \/ (o = "gone" /\ r.stage = "release")
    BY <1>2, <2>2 DEF OpIs, p
  <2>4. Answered(c, o) /\ o \in {"kept", "gone"}
    BY <2>2 DEF Answered
  <2>5. Shows(r, o, StageDone(r))
    BY <1>1, <2>3, StageDoneEffect, DoneShows
  <2> QED
    BY <1>5, <2>1, <2>4, <2>5
<1>10. CASE SomethingToDo(c)
  <2>1. cer' = [cer EXCEPT ![c] = Advance(r, 1)] /\ UNCHANGED clusterVars
    BY <1>10 DEF SomethingToDo
  <2>2. p.op \in {"restorable", "owned"}
    BY <1>3, <1>10 DEF SomethingToDo
  <2>3. Shows(r, p.op, Advance(r, 1))
    BY <1>1, AdvanceEffect, NextShows DEF p
  <2> QED
    BY <1>4, <2>1, <2>2, <2>3 DEF Answered
<1>11. CASE Mutate(c)
  <2> DEFINE q == Asked(c)
  <2>1. p.op \in Kinds
    BY <1>3, <1>11 DEF Mutate
  <2>2. q = [kind |-> p.op, by |-> c, x |-> p.x, n |-> p.n, rv |-> r.rv]
    BY <1>3 DEF Asked, Request
  <2> HIDE DEF q
  <2>3. q \in Requests
    BY <1>1, <1>2, <2>1, <2>2 DEF Requests, CeremonyState
  <2>4. MayAsk(c, r, q)
    BY <1>2, <2>2, <2>3 DEF MayAsk, OpIs, p
  <2>5. CASE Accepted(q) /\ Now(q) /\ cer' = [cer EXCEPT ![c] = Advance(r, 1)]
    <3>1. Shows(r, p.op, Advance(r, 1))
      BY <1>1, AdvanceEffect, NextShows DEF p
    <3>2. Answered(c, p.op) /\ p.op \in Answers
      BY <1>2, <2>1 DEF Answered, Answers, Kinds
    <3>3. Advance(r, 1) \in CeremonyState
      BY <3>1 DEF Shows
    <3> QED
      BY <1>1, <2>1, <2>4, <2>5, <3>1, <3>2, <3>3 DEF Does
  <2>6. CASE PutOff(q) /\ cer' = [cer EXCEPT ![c] = Failed(r)]
    <3>1. Breaks(r, Failed(r)) /\ Shows(r, "none", Failed(r))
      BY <1>1, FailedEffect, BreakShows
    <3>2. Answered(c, "none") /\ Failed(r) \in CeremonyState
      BY <3>1 DEF Answered, Breaks
    <3>3. "none" \in Answers
      BY DEF Answers
    <3>4. Does(c, Failed(r))
      BY <1>1, <2>4, <2>6, <3>1, <3>2, <3>3 DEF Does
    <3> QED
      BY <3>2, <3>4
  <2> QED
    BY <1>11, <2>5, <2>6 DEF Mutate, q
<1>12. CASE Raise(c)
  <2>1. cer' = [cer EXCEPT ![c] = Failed(r)] /\ UNCHANGED clusterVars
    BY <1>12 DEF Raise
  <2>2. Shows(r, "none", Failed(r)) /\ Answered(c, "none")
    BY <1>1, FailedEffect, BreakShows DEF Answered
  <2>3. Failed(r) \in CeremonyState
    BY <2>2 DEF Shows
  <2>4. "none" \in Answers
    BY DEF Answers
  <2>5. Does(c, Failed(r))
    BY <1>1, <2>1, <2>2, <2>4 DEF Does
  <2> QED
    BY <2>3, <2>5
<1> QED
  BY <1>6, <1>7, <1>8, <1>9, <1>10, <1>11, <1>12 DEF CeremonyStep

-----------------------------------------------------------------------------
(* The invariants about the marker, the role and the tokens.               *)

MarkerInv ==
  \A c \in Ceremonies :
    cer[c].owned /\ cer[c].stage \notin {"release", "end", "crashed"} => marker = c
LateInv ==
  \A q \in late :
    /\ q.kind # "patch" => q.by \in Ceremonies
    /\ q.kind = "create" => cer[q.by].reached = Acquiring /\ cer[q.by].stage # "main"
    /\ q.kind = "unmark" =>
         /\ cer[q.by].stage = "end" /\ Cleared(cer[q.by]) /\ tokens[q.by] = "revoked"
         /\ "stop" \notin cer[q.by].unconfirmed
TokenInv == \A c \in Ceremonies : cer[c].stage = "release" => tokens[c] = "revoked"
(* An activation script is at one of its instructions.                     *)
InScript(r) == r.phase \notin Ended => r.ip \in 1..Len(Script[r.phase])
ScriptInv == \A a \in Activations : InScript(act[a])
BaseInv == TypeOK /\ SoundInv /\ ScriptInv /\ MarkerInv /\ LateInv /\ TokenInv
RoleInv == role = "absent" => marker \in Ceremonies /\ ~Cleared(cer[marker])

LEMMA ApplyEffect ==
  ASSUME TypeOK, NEW q \in Requests, Accepted(q), Apply(q), q.kind # "patch" => q.by \in Ceremonies
  PROVE  /\ \/ marker' = marker
            \/ q.kind = "create" /\ marker = NoOne /\ marker' = q.by
            \/ q.kind = "unmark" /\ marker = q.by /\ marker' = NoOne
         /\ role' = role \/ role' = "exact" \/ (q.kind = "delete" /\ role' = "absent")
         /\ \A c \in Ceremonies : tokens[c] = "revoked" => tokens'[c] = "revoked"
         /\ marker' \in Ceremonies \cup {NoOne} /\ role' \in {"exact", "drifted", "absent"}
         /\ replicas' \in [Targets -> {0, 1}] /\ version' \in [Targets -> Nat]
         /\ pods' = pods /\ drifts' = drifts
         /\ tokens' \in [Ceremonies -> {"live", "revoked"}]
<1>1. q.kind \in Kinds /\ q.x \in Targets /\ q.n \in {0, 1}
  BY DEF Requests
<1>2. /\ \/ marker' = marker
         \/ q.kind = "create" /\ marker = NoOne /\ marker' = q.by
         \/ q.kind = "unmark" /\ marker = q.by /\ marker' = NoOne
      /\ marker' \in Ceremonies \cup {NoOne}
  BY <1>1, Typed DEF Apply, Accepted
<1>3. /\ role' = role \/ role' = "exact" \/ (q.kind = "delete" /\ role' = "absent")
      /\ role' \in {"exact", "drifted", "absent"}
  BY <1>1, Typed DEF Apply
<1>4. /\ \A c \in Ceremonies : tokens[c] = "revoked" => tokens'[c] = "revoked"
      /\ tokens' \in [Ceremonies -> {"live", "revoked"}]
  BY <1>1, Typed DEF Apply
<1>5. replicas' \in [Targets -> {0, 1}]
  BY <1>1, Typed DEF Apply
<1>6. version' \in [Targets -> Nat]
  BY <1>1, Typed DEF Apply
<1> QED
  BY <1>2, <1>3, <1>4, <1>5, <1>6 DEF Apply

(* A step of an active ceremony.                                           *)
LEMMA DoesBase ==
  ASSUME BaseInv, NEW c \in Ceremonies, NEW e \in CeremonyState, Does(c, e), UNCHANGED act
  PROVE  BaseInv' /\ (RoleInv => RoleInv')
<1> DEFINE r == cer[c]
<1>1. PICK o \in Answers : /\ Answered(c, o) /\ Shows(r, o, e)
                           /\ UNCHANGED clusterVars \/ o \in Kinds \cup {"none"}
  BY DEF Does
<1>2. /\ cer' = [cer EXCEPT ![c] = e] /\ Ongoing(r) /\ Sound(r) /\ Sound(e) /\ r \in CeremonyState
      /\ cer'[c] = e /\ \A d \in Ceremonies \ {c} : cer'[d] = cer[d]
  BY <1>1, Typed DEF BaseInv, SoundInv, Does, Shows
<1>3. TypeOK
  BY DEF BaseInv
<1>4. ASSUME NEW q, MayAsk(c, r, q), Accepted(q), Now(q)
      PROVE  /\ \/ marker' = marker
                \/ q.kind = "create" /\ marker = NoOne /\ marker' = c
                \/ q.kind = "unmark" /\ marker = c /\ marker' = NoOne
             /\ role' = role \/ role' = "exact" \/ (q.kind = "delete" /\ role' = "absent")
             /\ \A d \in Ceremonies : tokens[d] = "revoked" => tokens'[d] = "revoked"
             /\ TypeOK' /\ late' = late
  <2>1. q \in Requests /\ q.by = c
    BY <1>4 DEF MayAsk
  <2>2. /\ \/ marker' = marker
           \/ q.kind = "create" /\ marker = NoOne /\ marker' = c
           \/ q.kind = "unmark" /\ marker = c /\ marker' = NoOne
        /\ role' = role \/ role' = "exact" \/ (q.kind = "delete" /\ role' = "absent")
        /\ \A d \in Ceremonies : tokens[d] = "revoked" => tokens'[d] = "revoked"
        /\ marker' \in Ceremonies \cup {NoOne} /\ role' \in {"exact", "drifted", "absent"}
        /\ replicas' \in [Targets -> {0, 1}] /\ version' \in [Targets -> Nat]
        /\ pods' = pods /\ drifts' = drifts
        /\ tokens' \in [Ceremonies -> {"live", "revoked"}] /\ late' = late
    BY <1>3, <1>4, <2>1, ApplyEffect DEF Now
  <2>3. ClusterTypeOK'
    BY <1>3, <2>2 DEF TypeOK, ClusterTypeOK
  <2>4. CeremonyTypeOK' /\ ActivationTypeOK'
    BY <1>2, <1>3 DEF TypeOK, CeremonyTypeOK, ActivationTypeOK
  <2> QED
    BY <2>2, <2>3, <2>4 DEF TypeOK
<1>5. TypeOK'
  <2>1. CASE UNCHANGED clusterVars
    BY <1>2, <1>3, <2>1 DEF TypeOK, ClusterTypeOK, CeremonyTypeOK, ActivationTypeOK, clusterVars
  <2>2. ASSUME NEW q, MayAsk(c, r, q), PutOff(q)
        PROVE  TypeOK'
    <3>1. q \in [kind : Delayable, by : Ceremonies \cup Activations, x : Targets, n : {0, 1},
                 rv : Nat]
      BY <2>2 DEF MayAsk, Requests, PutOff
    <3> QED
      BY <1>2, <1>3, <2>2, <3>1
      DEF TypeOK, ClusterTypeOK, CeremonyTypeOK, ActivationTypeOK, PutOff
  <2> QED
    BY <1>4, <2>1, <2>2 DEF Does
<1>6. \A d \in Ceremonies : tokens[d] = "revoked" => tokens'[d] = "revoked"
  BY <1>4 DEF Does, PutOff, clusterVars
<1>7. \/ marker' = marker
      \/ marker = NoOne /\ marker' = c
      \/ marker = c /\ marker' = NoOne /\ r.stage = "release"
  BY <1>4 DEF Does, PutOff, clusterVars, MayAsk
<1>8. SoundInv'
  BY <1>2 DEF BaseInv, SoundInv
<1>9. MarkerInv'
  <2> SUFFICES ASSUME NEW d \in Ceremonies, cer'[d].owned,
                      cer'[d].stage \notin {"release", "end", "crashed"}
               PROVE  marker' = d
    BY DEF MarkerInv
  <2>1. CASE d # c
    BY <1>2, <1>7, <2>1, ClusterAssumption DEF BaseInv, MarkerInv
  <2>2. CASE d = c
    <3>1. e.owned /\ e.stage \notin {"release", "end", "crashed"} /\ r.stage # "release"
      BY <1>1, <1>2, <2>2 DEF Shows
    <3>2. marker = c
      BY <1>1, <1>2, <3>1 DEF Shows, Answered, BaseInv, MarkerInv, Ongoing
    <3> QED
      BY <1>7, <2>2, <3>1, <3>2, ClusterAssumption
  <2> QED
    BY <2>1, <2>2
<1>10. TokenInv'
  BY <1>1, <1>2, <1>6 DEF BaseInv, TokenInv, Shows, Answered
<1>11. LateInv'
  <2> SUFFICES ASSUME NEW q \in late'
               PROVE  /\ q.kind # "patch" => q.by \in Ceremonies
                      /\ q.kind = "create" => /\ cer'[q.by].reached = Acquiring
                                              /\ cer'[q.by].stage # "main"
                      /\ q.kind = "unmark" => /\ cer'[q.by].stage = "end" /\ Cleared(cer'[q.by])
                                              /\ tokens'[q.by] = "revoked"
                                              /\ "stop" \notin cer'[q.by].unconfirmed
    BY DEF LateInv
  <2>1. CASE q \in late
    <3>1. /\ q.kind # "patch" => q.by \in Ceremonies
          /\ q.kind = "create" => cer[q.by].reached = Acquiring /\ cer[q.by].stage # "main"
          /\ q.kind = "unmark" =>
               /\ cer[q.by].stage = "end" /\ Cleared(cer[q.by]) /\ tokens[q.by] = "revoked"
               /\ "stop" \notin cer[q.by].unconfirmed
      BY <2>1 DEF BaseInv, LateInv
    <3>2. CASE q.by = c
      BY <1>1, <1>2, <1>6, <3>1, <3>2 DEF Shows, Ongoing
    <3>3. CASE q.by # c
      BY <1>2, <1>6, <3>1, <3>3
    <3> QED
      BY <3>2, <3>3
  <2>2. CASE q \notin late
    <3>1. MayAsk(c, r, q) /\ PutOff(q) /\ Breaks(r, e)
      BY <1>4, <2>2 DEF Does, PutOff, clusterVars
    <3>2. q.by = c /\ e.reached = r.reached /\ e.restored = r.restored
      BY <3>1 DEF MayAsk, Breaks
    <3>3. q.kind = "create" => e.reached = Acquiring /\ e.stage # "main"
      BY <3>1, <3>2 DEF MayAsk, Breaks
    <3>4. q.kind = "unmark" =>
            r.stage = "release" /\ e.stage = "end" /\ "stop" \notin e.unconfirmed
      BY <1>2, <3>1 DEF MayAsk, Breaks, Sound
    <3>5. r.stage = "release" => Cleared(r) /\ tokens[c] = "revoked"
      BY <1>2 DEF Sound, BaseInv, TokenInv
    <3>6. Cleared(r) => Cleared(e)
      BY <3>2 DEF Cleared
    <3> QED
      BY <1>2, <1>6, <3>2, <3>3, <3>4, <3>5, <3>6
  <2> QED
    BY <2>1, <2>2
<1>12. RoleInv => RoleInv'
  <2> SUFFICES ASSUME RoleInv, role' = "absent"
               PROVE  marker' \in Ceremonies /\ ~Cleared(cer'[marker'])
    BY DEF RoleInv
  <2>1. CASE role = "absent"
    <3>1. marker \in Ceremonies /\ ~Cleared(cer[marker])
      BY <2>1 DEF RoleInv
    <3>2. r.stage = "release" => Cleared(r)
      BY <1>2 DEF Sound
    <3>3. marker' = marker
      BY <1>7, <3>1, <3>2, ClusterAssumption
    <3>4. ~Cleared(r) => ~Cleared(e)
      <4>1. r.reached \in 1..14
        BY <1>2, Numbers DEF CeremonyState
      <4>2. e.restored => r.restored
        BY <1>1, <2>1 DEF Shows, Answered
      <4> QED
        BY <1>1, <4>1, <4>2, Numbers DEF Shows, Cleared
    <3> QED
      BY <1>2, <3>1, <3>3, <3>4
  <2>2. CASE role # "absent"
    <3>1. PICK q : MayAsk(c, r, q) /\ Accepted(q) /\ Now(q) /\ q.kind = "delete"
      BY <1>4, <2>2 DEF Does, PutOff, clusterVars
    <3>2. r.stage = "main" /\ r.reached = 7 /\ r.owned
      BY <3>1, Numbers DEF MayAsk
    <3>3. marker = c /\ marker' = c
      BY <1>7, <3>2, ClusterAssumption DEF BaseInv, MarkerInv
    <3>4. o \notin {"exact", "kept"}
      BY <1>1, <2>2 DEF Kinds, clusterVars
    <3>5. ~r.restored
      BY <1>2, <3>2, Numbers DEF Sound
    <3>6. ~e.restored /\ e.reached \in {7, 8}
      BY <1>1, <3>2, <3>4, <3>5 DEF Shows
    <3> QED
      BY <1>2, <3>3, <3>6, Numbers DEF Cleared
  <2> QED
    BY <2>1, <2>2
<1>13. ScriptInv'
  BY DEF BaseInv, ScriptInv
<1> QED
  BY <1>5, <1>8, <1>9, <1>10, <1>11, <1>12, <1>13 DEF BaseInv

(* A killed ceremony, or its wrapper's trap.                               *)
LEMMA CrashEffect ==
  ASSUME TypeOK, SoundInv, NEW c \in Ceremonies, Crash(c)
  PROVE  \E e \in CeremonyState :
           /\ cer' = [cer EXCEPT ![c] = e] /\ UNCHANGED clusterVars /\ Ongoing(cer[c])
           /\ Sound(e) /\ e.stage = "crashed" /\ e.reached = cer[c].reached
           /\ e.restored = cer[c].restored /\ e.unconfirmed = cer[c].unconfirmed
           /\ e.result = "none"
<1> DEFINE r == cer[c]
           e == [[[r EXCEPT !.stage = "crashed"] EXCEPT !.ip = 1] EXCEPT !.rv = 0]
<1>1. r \in CeremonyState /\ Sound(r) /\ Ongoing(r)
  BY Typed DEF SoundInv, Crash, Active, Ongoing
<1>2. cer' = [cer EXCEPT ![c] = e] /\ UNCHANGED clusterVars
  BY Typed DEF Crash
<1>3. /\ e \in CeremonyState /\ e.stage = "crashed" /\ e.reached = r.reached /\ e.owned = r.owned
      /\ e.restored = r.restored /\ e.unconfirmed = r.unconfirmed /\ e.result = r.result
  <2>1. e = [stage |-> "crashed", reached |-> r.reached, ip |-> 1, rv |-> 0, owned |-> r.owned,
             restored |-> r.restored, history |-> r.history, unconfirmed |-> r.unconfirmed,
             result |-> r.result]
    <3> DEFINE y == [r EXCEPT !.stage = "crashed"]
               z == [y EXCEPT !.ip = 1]
    <3>1. y = [stage |-> "crashed", reached |-> r.reached, ip |-> r.ip, rv |-> r.rv,
               owned |-> r.owned, restored |-> r.restored, history |-> r.history,
               unconfirmed |-> r.unconfirmed, result |-> r.result]
      BY <1>1 DEF CeremonyState
    <3> HIDE DEF y
    <3>2. z = [stage |-> "crashed", reached |-> r.reached, ip |-> 1, rv |-> r.rv,
               owned |-> r.owned, restored |-> r.restored, history |-> r.history,
               unconfirmed |-> r.unconfirmed, result |-> r.result]
      BY <3>1
    <3>3. e = [z EXCEPT !.rv = 0]
      BY DEF y
    <3> HIDE DEF z
    <3> QED
      BY <3>2, <3>3
  <2> HIDE DEF e, r
  <2>2. e \in CeremonyState
    BY <1>1, <2>1 DEF CeremonyState
  <2> QED
    BY <2>1, <2>2
<1>4. Sound(e) /\ e.result = "none"
  BY <1>1, <1>3 DEF Sound, Ongoing
<1> QED
  BY <1>1, <1>2, <1>3, <1>4

LEMMA CrashBase ==
  ASSUME BaseInv, NEW c \in Ceremonies, Crash(c), UNCHANGED act
  PROVE  BaseInv' /\ (RoleInv => RoleInv')
<1>1. PICK e \in CeremonyState :
           /\ cer' = [cer EXCEPT ![c] = e] /\ UNCHANGED clusterVars /\ Ongoing(cer[c])
           /\ Sound(e) /\ e.stage = "crashed" /\ e.reached = cer[c].reached
           /\ e.restored = cer[c].restored
  BY CrashEffect DEF BaseInv
<1>2. /\ cer \in [Ceremonies -> CeremonyState]
      /\ cer'[c] = e /\ \A d \in Ceremonies \ {c} : cer'[d] = cer[d]
  BY <1>1, Typed DEF BaseInv
<1>3. TypeOK' /\ ScriptInv'
  BY <1>1, <1>2
  DEF BaseInv, TypeOK, ClusterTypeOK, CeremonyTypeOK, ActivationTypeOK, ScriptInv, clusterVars
<1>4. SoundInv' /\ MarkerInv' /\ TokenInv'
  BY <1>1, <1>2 DEF BaseInv, SoundInv, MarkerInv, TokenInv, clusterVars
<1>5. LateInv'
  BY <1>1, <1>2 DEF BaseInv, LateInv, clusterVars, Cleared, Ongoing
<1>6. RoleInv => RoleInv'
  BY <1>1, <1>2 DEF RoleInv, clusterVars, Cleared
<1> QED
  BY <1>3, <1>4, <1>5, <1>6 DEF BaseInv

LEMMA WrapperBase ==
  ASSUME BaseInv, NEW c \in Ceremonies, WrapperRevokes(c), UNCHANGED act
  PROVE  BaseInv' /\ (RoleInv => RoleInv')
<1>1. /\ tokens' = [tokens EXCEPT ![c] = "revoked"] /\ tokens \in [Ceremonies -> {"live", "revoked"}]
      /\ UNCHANGED <<marker, replicas, version, pods, role, drifts, late, cer, act>>
  BY Typed DEF WrapperRevokes, BaseInv
<1>2. TypeOK' /\ ScriptInv' /\ SoundInv' /\ MarkerInv'
  BY <1>1 DEF BaseInv, TypeOK, ClusterTypeOK, CeremonyTypeOK, ActivationTypeOK, ScriptInv, SoundInv,
              MarkerInv
<1>3. TokenInv' /\ LateInv'
  BY <1>1 DEF BaseInv, TokenInv, LateInv
<1>4. RoleInv => RoleInv'
  BY <1>1 DEF RoleInv
<1> QED
  BY <1>2, <1>3, <1>4 DEF BaseInv

(* The cluster's own steps.                                                *)
LEMMA LateBase ==
  ASSUME BaseInv, NEW q \in late, LateArrives(q), UNCHANGED <<cer, act>>
  PROVE  BaseInv' /\ ("delete" \notin Delayable /\ RoleInv => RoleInv')
<1>1. /\ q \in Requests /\ q.kind \in Delayable
      /\ q.kind # "patch" => q.by \in Ceremonies
      /\ q.kind = "unmark" =>
           /\ cer[q.by].stage = "end" /\ Cleared(cer[q.by]) /\ tokens[q.by] = "revoked"
           /\ "stop" \notin cer[q.by].unconfirmed
  BY Typed DEF BaseInv, LateInv
<1>2. /\ \/ marker' = marker
         \/ marker = NoOne
         \/ q.kind = "unmark" /\ marker = q.by /\ marker' = NoOne
      /\ role' = role \/ role' = "exact" \/ (q.kind = "delete" /\ role' = "absent")
      /\ \A c \in Ceremonies : tokens[c] = "revoked" => tokens'[c] = "revoked"
      /\ marker' \in Ceremonies \cup {NoOne} /\ role' \in {"exact", "drifted", "absent"}
      /\ replicas' \in [Targets -> {0, 1}] /\ version' \in [Targets -> Nat]
      /\ pods' = pods /\ drifts' = drifts
      /\ tokens' \in [Ceremonies -> {"live", "revoked"}] /\ late' = late \ {q}
  BY <1>1, ApplyEffect DEF LateArrives, BaseInv
<1>3. TypeOK' /\ ScriptInv' /\ SoundInv'
  BY <1>2 DEF BaseInv, TypeOK, ClusterTypeOK, CeremonyTypeOK, ActivationTypeOK, ScriptInv, SoundInv
<1>4. MarkerInv'
  BY <1>1, <1>2, ClusterAssumption DEF BaseInv, MarkerInv
<1>5. TokenInv' /\ LateInv'
  BY <1>2 DEF BaseInv, TokenInv, LateInv
<1>6. ASSUME "delete" \notin Delayable, RoleInv PROVE RoleInv'
  BY <1>1, <1>2, <1>6, ClusterAssumption DEF RoleInv
<1> QED
  BY <1>3, <1>4, <1>5, <1>6 DEF BaseInv

LEMMA ClusterBase ==
  ASSUME BaseInv, ClusterNext, UNCHANGED <<cer, act>>
  PROVE  BaseInv' /\ ("delete" \notin Delayable /\ RoleInv => RoleInv')
<1>1. CASE \E q \in late : LateArrives(q)
  BY <1>1, LateBase
<1>2. ASSUME /\ UNCHANGED <<marker, replicas, version, tokens, late>>
             /\ pods' \in [Targets -> {"none", "blocked", "up"}] /\ drifts' \in 0..MaxDrifts
             /\ role' = role \/ role' = "drifted"
      PROVE  BaseInv' /\ (RoleInv => RoleInv')
  <2>1. TypeOK' /\ ScriptInv' /\ SoundInv' /\ MarkerInv'
    BY <1>2 DEF BaseInv, TypeOK, ClusterTypeOK, CeremonyTypeOK, ActivationTypeOK, ScriptInv, SoundInv,
                MarkerInv
  <2>2. TokenInv' /\ LateInv'
    BY <1>2 DEF BaseInv, TokenInv, LateInv
  <2>3. RoleInv => RoleInv'
    BY <1>2 DEF RoleInv
  <2> QED
    BY <2>1, <2>2, <2>3 DEF BaseInv
<1>3. CASE \E x \in Targets : PodStarts(x) \/ PodStops(x)
  <2>1. PICK x \in Targets : PodStarts(x) \/ PodStops(x)
    BY <1>3
  <2>2. pods' \in [Targets -> {"none", "blocked", "up"}]
    BY <2>1, Typed DEF PodStarts, PodStops, BaseInv
  <2> QED
    BY <1>2, <2>1, <2>2, Typed DEF PodStarts, PodStops, BaseInv
<1>4. CASE SignerLogsIn
  BY <1>2, <1>4, Typed DEF SignerLogsIn, BaseInv
<1>5. CASE RoleDrifts
  <2>1. drifts' \in 0..MaxDrifts
    BY <1>5, Typed, ClusterAssumption DEF RoleDrifts, BaseInv
  <2> QED
    BY <1>2, <1>5, <2>1, Typed DEF RoleDrifts, BaseInv
<1> QED
  BY <1>1, <1>3, <1>4, <1>5 DEF ClusterNext

-----------------------------------------------------------------------------
(* The activation script.                                                  *)

LEMMA ScaleScript ==
  ASSUME NEW x, NEW n
  PROVE  /\ Len(CasScale(x, n)) = 4
         /\ CasScale(x, n)[1] = [op |-> "unmarked", x |-> x, n |-> n]
         /\ CasScale(x, n)[2] = [op |-> "get", x |-> x, n |-> n]
         /\ CasScale(x, n)[3] = [op |-> "patch", x |-> x, n |-> n]
         /\ CasScale(x, n)[4] = [op |-> "answer", x |-> x, n |-> n]
  BY DEF CasScale, Step
LEMMA PreflightScript ==
  /\ Len(Preflight) = 6
  /\ Preflight[1] = [op |-> "noPod", x |-> "client", n |-> 0]
  /\ Preflight[2] = [op |-> "count", x |-> "client", n |-> 0]
  /\ Preflight[3] = [op |-> "count", x |-> "fence", n |-> 0]
  /\ Preflight[4] = [op |-> "count", x |-> "signer", n |-> 1]
  /\ Preflight[5] = [op |-> "unmarked", x |-> "client", n |-> 0]
  /\ Preflight[6] = [op |-> "confirm", x |-> "client", n |-> 0]
BY DEF Preflight, Step
LEMMA ActivateScript ==
  /\ Len(Activate) = 10
  /\ Activate[1] = [op |-> "unmarked", x |-> "client", n |-> 1]
  /\ Activate[2] = [op |-> "get", x |-> "client", n |-> 1]
  /\ Activate[3] = [op |-> "patch", x |-> "client", n |-> 1]
  /\ Activate[4] = [op |-> "answer", x |-> "client", n |-> 1]
  /\ Activate[5] = [op |-> "running", x |-> "client", n |-> 1]
  /\ Activate[6] = [op |-> "unmarked", x |-> "fence", n |-> 1]
  /\ Activate[7] = [op |-> "get", x |-> "fence", n |-> 1]
  /\ Activate[8] = [op |-> "patch", x |-> "fence", n |-> 1]
  /\ Activate[9] = [op |-> "answer", x |-> "fence", n |-> 1]
  /\ Activate[10] = [op |-> "running", x |-> "fence", n |-> 1]
BY DEF Activate, CasScale, Step
LEMMA VerifyScript ==
  /\ Len(Script["verify"]) = 2
  /\ Script["verify"][1] = [op |-> "count", x |-> "fence", n |-> 0]
  /\ Script["verify"][2] = [op |-> "count", x |-> "client", n |-> 0]
BY DEF Script, Step
LEMMA Scripts ==
  /\ Script["preflight"] = Preflight /\ Script["activate"] = Activate
  /\ Script["undoFence"] = CasScale("fence", 0) /\ Script["undoClient"] = CasScale("client", 0)
BY DEF Script
LEMMA UndoScripts ==
  \A x \in {"client", "fence"} :
    /\ Len(CasScale(x, 0)) = 4
    /\ CasScale(x, 0)[1] = [op |-> "unmarked", x |-> x, n |-> 0]
    /\ CasScale(x, 0)[2] = [op |-> "get", x |-> x, n |-> 0]
    /\ CasScale(x, 0)[3] = [op |-> "patch", x |-> x, n |-> 0]
    /\ CasScale(x, 0)[4] = [op |-> "answer", x |-> x, n |-> 0]
BY ScaleScript
LEMMA PhaseNames ==
  {Phases[i] : i \in DOMAIN Phases} = {"preflight", "activate", "undoFence", "undoClient", "verify"}
<1>1. /\ DOMAIN Phases = 1..5 /\ Phases[1] = "preflight" /\ Phases[2] = "activate"
      /\ Phases[3] = "undoFence" /\ Phases[4] = "undoClient" /\ Phases[5] = "verify"
  BY DEF Phases
<1> QED
  BY <1>1

(* What the i-th instruction o of phase ph can be.                         *)
InstrIs(ph, i, o) ==
  /\ o.x \in Targets /\ o.n \in {0, 1}
  /\ o.op \in {"unmarked", "get", "patch", "answer", "running", "noPod", "count", "confirm"}
  /\ o.op \in {"get", "patch"} /\ o.n = 1 =>
       /\ ph = "activate"
       /\ o.op = "get" => (o.x = "client" /\ i = 2) \/ (o.x = "fence" /\ i = 7)
       /\ o.op = "patch" => (o.x = "client" /\ i = 3) \/ (o.x = "fence" /\ i = 8)
  /\ ph = "preflight" /\ i = 2 => o = [op |-> "count", x |-> "client", n |-> 0]
  /\ ph = "preflight" /\ i = 3 => o = [op |-> "count", x |-> "fence", n |-> 0]
  /\ ph = "activate" /\ i \in {1, 6} => o.op = "unmarked"
  /\ ph = "activate" /\ i \in {2, 7} => o.op = "get"
  /\ ph = "activate" /\ i \in {2, 3} => o.x = "client" /\ o.n = 1
  /\ ph = "activate" /\ i \in {7, 8} => o.x = "fence" /\ o.n = 1
  /\ ph = "activate" /\ i \in {3, 8} => o.op = "patch"
  /\ ph = "verify" => o.op = "count" /\ o.n = 0
  /\ ph = "verify" /\ i = 1 => o.x = "fence"
  /\ ph = "verify" /\ i = 2 => o.x = "client"

LEMMA InstrFacts ==
  ASSUME NEW r \in ActivationState, r.phase \notin Ended, InScript(r)
  PROVE  /\ r.phase \in {"preflight", "activate", "undoFence", "undoClient", "verify"}
         /\ r.ip \in 1..Len(Script[r.phase]) /\ Len(Script[r.phase]) \in {2, 4, 6, 10}
         /\ r.phase = "preflight" => Len(Script[r.phase]) = 6
         /\ r.phase = "activate" => Len(Script[r.phase]) = 10
         /\ r.phase = "verify" => Len(Script[r.phase]) = 2
         /\ InstrIs(r.phase, r.ip, Script[r.phase][r.ip])
<1>1. r.phase \in {"preflight", "activate", "undoFence", "undoClient", "verify"}
  BY PhaseNames DEF ActivationState
<1>2. r.ip \in 1..Len(Script[r.phase])
  BY DEF InScript
<1>3. CASE r.phase = "preflight"
  <2>1. r.ip \in 1..6
    BY <1>2, <1>3, Scripts, PreflightScript
  <2>2. InstrIs("preflight", r.ip, Preflight[r.ip])
    BY <2>1, PreflightScript DEF InstrIs, Targets
  <2> QED
    BY <1>2, <1>3, <2>2, Scripts, PreflightScript
<1>4. CASE r.phase = "activate"
  <2>1. r.ip \in 1..10
    BY <1>2, <1>4, Scripts, ActivateScript
  <2>2. InstrIs("activate", r.ip, Activate[r.ip])
    BY <2>1, ActivateScript DEF InstrIs, Targets
  <2> QED
    BY <1>2, <1>4, <2>2, Scripts, ActivateScript
<1>5. CASE r.phase = "undoFence"
  <2>1. r.ip \in 1..4
    BY <1>2, <1>5, Scripts, UndoScripts
  <2>2. InstrIs("undoFence", r.ip, CasScale("fence", 0)[r.ip])
    BY <2>1, UndoScripts DEF InstrIs, Targets
  <2> QED
    BY <1>2, <1>5, <2>2, Scripts, UndoScripts
<1>6. CASE r.phase = "undoClient"
  <2>1. r.ip \in 1..4
    BY <1>2, <1>6, Scripts, UndoScripts
  <2>2. InstrIs("undoClient", r.ip, CasScale("client", 0)[r.ip])
    BY <2>1, UndoScripts DEF InstrIs, Targets
  <2> QED
    BY <1>2, <1>6, <2>2, Scripts, UndoScripts
<1>7. CASE r.phase = "verify"
  <2>1. r.ip \in 1..2
    BY <1>2, <1>7, VerifyScript
  <2>2. InstrIs("verify", r.ip, Script["verify"][r.ip])
    BY <2>1, VerifyScript DEF InstrIs, Targets
  <2> QED
    BY <1>2, <1>7, <2>2, VerifyScript
<1> QED
  BY <1>1, <1>3, <1>4, <1>5, <1>6, <1>7

(* A step of a script from r to e, and what the script has seen by then.   *)
Front == {"preflight", "activate"}
Learns(r, e) ==
  /\ e \in ActivationState /\ InScript(e)
  /\ e.phase = "preflight" => r.phase = "preflight" /\ e.ip = r.ip + 1
  /\ e.phase = "activate" => \/ r.phase = "activate" /\ e.ip = r.ip + 1
                             \/ r.phase = "preflight" /\ r.ip = 6 /\ e.ip = 1
  /\ e.phase = "preflight" /\ e.ip = 3 => replicas["client"] = 0
  /\ e.phase = "preflight" /\ e.ip = 4 => replicas["fence"] = 0
  /\ e.phase = "activate" /\ e.ip \in {2, 7} => marker = NoOne
  /\ e.phase = "activate" /\ e.ip = 3 => e.rv = version["client"]
  /\ e.phase = "activate" /\ e.ip = 8 => e.rv = version["fence"]
  /\ e.phase = "verify" /\ e.ip = 2 =>
       r.phase = "verify" /\ (~e.failed => replicas["fence"] = 0)
  /\ e.phase = "rolledback" =>
       r.phase = "verify" /\ r.ip = 2 /\ ~r.failed /\ replicas["client"] = 0
(* The request that a script may make in its state r.                      *)
MayScale(a, r, q) ==
  /\ q \in Requests /\ q.kind = "patch" /\ q.by = a /\ q.rv = r.rv
  /\ q.n = 1 => /\ r.phase = "activate"
                /\ (q.x = "client" /\ r.ip = 3) \/ (q.x = "fence" /\ r.ip = 8)
ScriptDoes(a, e) ==
  /\ act' = [act EXCEPT ![a] = e] /\ act[a].phase \notin Ended /\ Learns(act[a], e)
  /\ \/ UNCHANGED clusterVars
     \/ \E q : MayScale(a, act[a], q) /\ Accepted(q) /\ Now(q)
     \/ \E q : MayScale(a, act[a], q) /\ PutOff(q) /\ e.phase \notin Front

LEMMA EntersEffect ==
  ASSUME NEW r \in ActivationState,
         NEW ph \in {"preflight", "activate", "undoFence", "undoClient", "verify"} \cup Ended
  PROVE  /\ Enters(r, ph) \in ActivationState /\ Enters(r, ph).ip = 1
         /\ Enters(r, ph).phase = ph /\ InScript(Enters(r, ph))
<1>1. Enters(r, ph) = [phase |-> ph, ip |-> 1, rv |-> 0, failed |-> r.failed]
  <2> DEFINE S == {Phases[i] : i \in DOMAIN Phases} \cup Ended
             e == Enters(r, ph)
  <2>1. r \in [phase : S, ip : 1..16, rv : Nat, failed : BOOLEAN]
    BY DEF ActivationState
  <2>2. e = [r EXCEPT !.phase = ph, !.ip = 1, !.rv = 0]
    BY DEF Enters
  <2> HIDE DEF S, e
  <2>3. e = [phase |-> ph, ip |-> 1, rv |-> 0, failed |-> r.failed]
    BY <2>1, <2>2
  <2> QED
    BY <2>3 DEF e
<1>2. Enters(r, ph) \in ActivationState
  BY <1>1, PhaseNames DEF ActivationState
<1>3. ph \notin Ended => Len(Script[ph]) \in {2, 4, 6, 10}
  <2>1. Len(Script["undoFence"]) = 4 /\ Len(Script["undoClient"]) = 4
    BY Scripts, UndoScripts
  <2> QED
    BY <2>1, Scripts, PreflightScript, ActivateScript, VerifyScript
<1>4. ph \notin Ended => 1 \in 1..Len(Script[ph])
  <2> DEFINE n == Len(Script[ph])
  <2>1. ph \notin Ended => n \in {2, 4, 6, 10}
    BY <1>3
  <2> HIDE DEF n
  <2>2. ph \notin Ended => 1 \in 1..n
    BY <2>1
  <2> QED
    BY <2>2 DEF n
<1> QED
  BY <1>1, <1>2, <1>4 DEF InScript

LEMMA FinishedEffect ==
  ASSUME NEW r \in ActivationState, r.phase \notin Ended
  PROVE  /\ Finished(r) \in ActivationState /\ InScript(Finished(r)) /\ Finished(r).ip = 1
         /\ r.phase = "preflight" => Finished(r).phase = "activate"
         /\ r.phase = "activate" => Finished(r).phase = "complete"
         /\ r.phase = "undoFence" => Finished(r).phase = "undoClient"
         /\ r.phase = "undoClient" => Finished(r).phase = "verify"
         /\ r.phase = "verify" =>
              Finished(r).phase \in Ended /\ (Finished(r).phase = "rolledback" <=> ~r.failed)
<1>1. r.phase \in {"preflight", "activate", "undoFence", "undoClient", "verify"}
  BY PhaseNames DEF ActivationState
<1>2. ASSUME NEW ph \in {"preflight", "activate", "undoFence", "undoClient", "verify"} \cup Ended
      PROVE  /\ Enters(r, ph) \in ActivationState /\ Enters(r, ph).ip = 1
             /\ Enters(r, ph).phase = ph /\ InScript(Enters(r, ph))
  BY EntersEffect
<1>3. CASE r.phase = "preflight"
  <2>1. Finished(r) = Enters(r, "activate")
    BY <1>3 DEF Finished
  <2> QED
    BY <1>2, <1>3, <2>1
<1>4. CASE r.phase = "activate"
  <2>1. Finished(r) = Enters(r, "complete") /\ "complete" \in Ended
    BY <1>4 DEF Finished, Ended
  <2> QED
    BY <1>2, <1>4, <2>1
<1>5. CASE r.phase = "undoFence"
  <2>1. Finished(r) = Enters(r, "undoClient")
    BY <1>5 DEF Finished
  <2> QED
    BY <1>2, <1>5, <2>1
<1>6. CASE r.phase = "undoClient"
  <2>1. Finished(r) = Enters(r, "verify")
    BY <1>6 DEF Finished
  <2> QED
    BY <1>2, <1>6, <2>1
<1>7. CASE r.phase = "verify"
  <2> DEFINE ph == IF r.failed THEN "critical" ELSE "rolledback"
  <2>1. Finished(r) = Enters(r, ph)
    BY <1>7 DEF Finished
  <2>2. ph \in Ended /\ (ph = "rolledback" <=> ~r.failed)
    BY DEF Ended
  <2> HIDE DEF ph
  <2> QED
    BY <1>2, <1>7, <2>1, <2>2
<1> QED
  BY <1>1, <1>3, <1>4, <1>5, <1>6, <1>7

LEMMA FailsEffect ==
  ASSUME NEW r \in ActivationState, r.phase \notin Ended
  PROVE  Learns(r, Fails(r)) /\ Fails(r).phase \notin Front
<1> DEFINE e == Fails(r)
           y == [r EXCEPT !.failed = TRUE]
<1>1. r.phase \in {"preflight", "activate", "undoFence", "undoClient", "verify"}
  BY PhaseNames DEF ActivationState
<1>2. y \in ActivationState /\ y.phase = r.phase /\ y.failed
  BY DEF ActivationState
<1>3. /\ r.phase = "preflight" => e = Enters(r, "refused")
      /\ r.phase = "activate" => e = Enters(r, "undoFence")
      /\ r.phase \notin Front => e = Finished(y)
  BY <1>1 DEF Fails, Front
<1> HIDE DEF e, y
<1>4. CASE r.phase \in Front
  <2>1. "refused" \in Ended
    BY DEF Ended
  <2>2. e.phase \in {"refused", "undoFence"}
    BY <1>3, <1>4, <2>1, EntersEffect DEF Front
  <2>3. e \in ActivationState /\ InScript(e)
    BY <1>3, <1>4, <2>1, EntersEffect DEF Front
  <2> QED
    BY <2>2, <2>3 DEF Learns, Front, e
<1>5. CASE r.phase \notin Front
  <2>1. e = Finished(y) /\ e \in ActivationState /\ InScript(e) /\ e.ip = 1
    BY <1>2, <1>3, <1>5, FinishedEffect
  <2>2. r.phase \in {"undoFence", "undoClient", "verify"}
    BY <1>1, <1>5 DEF Front
  <2>3. e.phase \notin {"preflight", "activate", "rolledback"}
    BY <1>2, <2>1, <2>2, FinishedEffect DEF Ended
  <2> QED
    BY <2>1, <2>3 DEF Learns, Front, e
<1> QED
  BY <1>4, <1>5

LEMMA GoesEffect ==
  ASSUME NEW r \in ActivationState, r.phase \notin Ended, InScript(r)
  PROVE  \/ /\ r.ip < Len(Script[r.phase])
            /\ Goes(r) \in ActivationState /\ InScript(Goes(r)) /\ Goes(r).phase = r.phase
            /\ Goes(r).ip = r.ip + 1 /\ Goes(r).rv = r.rv /\ Goes(r).failed = r.failed
         \/ r.ip = Len(Script[r.phase]) /\ Goes(r) = Finished(r)
<1> DEFINE n == Len(Script[r.phase])
           e == Goes(r)
<1>1. n \in {2, 4, 6, 10} /\ r.ip \in 1..n
  BY InstrFacts
<1>2. e = IF r.ip = n THEN Finished(r) ELSE [r EXCEPT !.ip = r.ip + 1]
  BY DEF Goes
<1> HIDE DEF n, e
<1>3. CASE r.ip = n
  BY <1>2, <1>3 DEF n, e
<1>4. CASE r.ip < n
  <2> DEFINE S == {Phases[i] : i \in DOMAIN Phases} \cup Ended
  <2>1. r \in [phase : S, ip : 1..16, rv : Nat, failed : BOOLEAN]
    BY DEF ActivationState
  <2>2. e = [r EXCEPT !.ip = r.ip + 1] /\ r.ip + 1 \in 1..16 /\ r.ip + 1 \in 1..n
    BY <1>1, <1>2, <1>4
  <2> HIDE DEF S
  <2>3. /\ e \in [phase : S, ip : 1..16, rv : Nat, failed : BOOLEAN]
        /\ e.phase = r.phase /\ e.ip = r.ip + 1 /\ e.rv = r.rv /\ e.failed = r.failed
    BY <2>1, <2>2
  <2>4. e \in ActivationState
    BY <2>3 DEF ActivationState, S
  <2>5. InScript(e)
    BY <2>2, <2>3 DEF InScript, n
  <2> QED
    BY <1>4, <2>3, <2>4, <2>5 DEF n, e
<1> QED
  BY <1>1, <1>3, <1>4

LEMMA ActivationDoes ==
  ASSUME TypeOK, ScriptInv, NEW a \in Activations, Works(a),
         Check(a) \/ Get(a) \/ Patch(a) \/ Error(a)
  PROVE  \E e \in ActivationState : ScriptDoes(a, e)
<1> DEFINE r == act[a]
           p == Script[act[a].phase][act[a].ip]
<1>1. r \in ActivationState /\ r.phase \notin Ended /\ InScript(r)
  BY Typed DEF ScriptInv, Works
<1>2. /\ r.phase \in {"preflight", "activate", "undoFence", "undoClient", "verify"}
      /\ r.ip \in 1..Len(Script[r.phase]) /\ Len(Script[r.phase]) \in {2, 4, 6, 10}
      /\ r.phase = "preflight" => Len(Script[r.phase]) = 6
      /\ r.phase = "activate" => Len(Script[r.phase]) = 10
      /\ r.phase = "verify" => Len(Script[r.phase]) = 2
      /\ InstrIs(r.phase, r.ip, p)
  BY <1>1, InstrFacts
<1>3. Instr(a) = p
  BY DEF Instr
<1> HIDE DEF p
<1>4. ASSUME NEW y \in ActivationState, y.phase = r.phase, y.ip = r.ip, y.failed = r.failed,
             InScript(y), Passes(p),
             p.op = "get" /\ p.n = 1 => y.rv = version[p.x]
      PROVE  Learns(r, Goes(y))
  <2> DEFINE e == Goes(y)
             n == Len(Script[r.phase])
  <2>1. \/ /\ r.ip < n /\ e \in ActivationState /\ InScript(e) /\ e.phase = r.phase
           /\ e.ip = r.ip + 1 /\ e.rv = y.rv /\ e.failed = r.failed
        \/ r.ip = n /\ e = Finished(y)
    BY <1>1, <1>4, GoesEffect
  <2>2. /\ n \in {2, 4, 6, 10} /\ r.ip \in 1..n
        /\ r.phase = "preflight" => n = 6
        /\ r.phase = "activate" => n = 10
        /\ r.phase = "verify" => n = 2
    BY <1>2
  <2> HIDE DEF e, n
  <2>3. CASE /\ r.ip < n /\ e \in ActivationState /\ InScript(e) /\ e.phase = r.phase
             /\ e.ip = r.ip + 1 /\ e.rv = y.rv /\ e.failed = r.failed
    <3>1. e.phase = "preflight" /\ e.ip = 3 => replicas["client"] = 0
      <4>1. e.phase = "preflight" /\ e.ip = 3 => p = [op |-> "count", x |-> "client", n |-> 0]
        BY <1>2, <2>2, <2>3 DEF InstrIs
      <4> QED
        BY <1>4, <4>1 DEF Passes
    <3>2. e.phase = "preflight" /\ e.ip = 4 => replicas["fence"] = 0
      <4>1. e.phase = "preflight" /\ e.ip = 4 => p = [op |-> "count", x |-> "fence", n |-> 0]
        BY <1>2, <2>2, <2>3 DEF InstrIs
      <4> QED
        BY <1>4, <4>1 DEF Passes
    <3>3. e.phase = "activate" /\ e.ip \in {2, 7} => marker = NoOne
      <4>1. e.phase = "activate" /\ e.ip \in {2, 7} => p.op = "unmarked"
        BY <1>2, <2>2, <2>3 DEF InstrIs
      <4> QED
        BY <1>4, <4>1 DEF Passes
    <3>4. /\ e.phase = "activate" /\ e.ip = 3 => e.rv = version["client"]
          /\ e.phase = "activate" /\ e.ip = 8 => e.rv = version["fence"]
      <4>1. /\ e.phase = "activate" /\ e.ip = 3 => p.op = "get" /\ p.n = 1 /\ p.x = "client"
            /\ e.phase = "activate" /\ e.ip = 8 => p.op = "get" /\ p.n = 1 /\ p.x = "fence"
        BY <1>2, <2>2, <2>3 DEF InstrIs
      <4> QED
        BY <1>4, <2>3, <4>1
    <3>5. e.phase = "verify" /\ e.ip = 2 => replicas["fence"] = 0
      <4>1. e.phase = "verify" /\ e.ip = 2 => p.op = "count" /\ p.n = 0 /\ p.x = "fence"
        BY <1>2, <2>2, <2>3 DEF InstrIs
      <4> QED
        BY <1>4, <4>1 DEF Passes
    <3>6. e.phase # "rolledback"
      BY <1>1, <2>3 DEF Ended
    <3> QED
      BY <2>3, <3>1, <3>2, <3>3, <3>4, <3>5, <3>6 DEF Learns, e
  <2>4. CASE r.ip = n /\ e = Finished(y)
    <3>1. /\ e \in ActivationState /\ InScript(e) /\ e.ip = 1
          /\ r.phase = "preflight" => e.phase = "activate"
          /\ r.phase = "activate" => e.phase = "complete"
          /\ r.phase = "undoFence" => e.phase = "undoClient"
          /\ r.phase = "undoClient" => e.phase = "verify"
          /\ r.phase = "verify" => e.phase \in Ended /\ (e.phase = "rolledback" <=> ~r.failed)
      BY <1>1, <1>4, <2>4, FinishedEffect
    <3>2. e.phase # "preflight" /\ (e.phase = "activate" => r.phase = "preflight" /\ r.ip = 6)
      BY <1>2, <2>2, <2>4, <3>1 DEF Ended
    <3>3. e.phase = "rolledback" => r.phase = "verify" /\ r.ip = 2 /\ ~r.failed
      BY <1>2, <2>2, <2>4, <3>1
    <3>4. e.phase = "rolledback" => replicas["client"] = 0
      <4>1. e.phase = "rolledback" => p.op = "count" /\ p.n = 0 /\ p.x = "client"
        BY <1>2, <3>3 DEF InstrIs
      <4> QED
        BY <1>4, <4>1 DEF Passes
    <3> QED
      BY <3>1, <3>2, <3>3, <3>4 DEF Learns, e
  <2> QED
    BY <2>1, <2>3, <2>4
<1>5. CASE Check(a)
  <2>1. act' = [act EXCEPT ![a] = Goes(r)] /\ UNCHANGED clusterVars /\ Passes(p) /\ p.op # "get"
    BY <1>3, <1>5 DEF Check
  <2>2. Learns(r, Goes(r))
    BY <1>1, <1>4, <2>1
  <2> QED
    BY <1>1, <2>1, <2>2 DEF ScriptDoes, Learns
<1>6. CASE Get(a)
  <2> DEFINE y == [act[a] EXCEPT !.rv = version[p.x]]
  <2>1. act' = [act EXCEPT ![a] = Goes(y)] /\ UNCHANGED clusterVars /\ p.op = "get"
    BY <1>3, <1>6 DEF Get
  <2>2. version[p.x] \in Nat
    BY <1>2, Typed DEF InstrIs
  <2>3. /\ y \in ActivationState /\ y.phase = r.phase /\ y.ip = r.ip /\ y.failed = r.failed
        /\ y.rv = version[p.x]
    <3> DEFINE S == {Phases[i] : i \in DOMAIN Phases} \cup Ended
    <3>1. r \in [phase : S, ip : 1..16, rv : Nat, failed : BOOLEAN]
      BY <1>1 DEF ActivationState
    <3> HIDE DEF S, r
    <3>2. /\ y \in [phase : S, ip : 1..16, rv : Nat, failed : BOOLEAN]
          /\ y.phase = r.phase /\ y.ip = r.ip /\ y.failed = r.failed /\ y.rv = version[p.x]
      BY <2>2, <3>1 DEF r
    <3> QED
      BY <3>2 DEF ActivationState, S
  <2> HIDE DEF y
  <2>4. InScript(y)
    BY <1>1, <2>3 DEF InScript
  <2>5. Passes(p)
    BY <2>1 DEF Passes
  <2>6. Learns(r, Goes(y))
    BY <1>4, <2>3, <2>4, <2>5
  <2> QED
    BY <1>1, <2>1, <2>6 DEF ScriptDoes, Learns
<1>7. CASE Patch(a)
  <2> DEFINE q == ScalePatch(a)
  <2>1. p.op = "patch"
    BY <1>3, <1>7 DEF Patch
  <2>2. q = [kind |-> "patch", by |-> a, x |-> p.x, n |-> p.n, rv |-> r.rv]
    BY <1>3 DEF ScalePatch, Request
  <2> HIDE DEF q
  <2>3. r.rv \in Nat
    BY <1>1 DEF ActivationState
  <2>4. q \in Requests /\ q.kind = "patch" /\ q.by = a /\ q.rv = r.rv /\ q.n = p.n /\ q.x = p.x
    BY <1>2, <2>2, <2>3 DEF Requests, InstrIs, Kinds
  <2>5. MayScale(a, r, q)
    BY <1>2, <2>1, <2>4 DEF MayScale, InstrIs
  <2>6. Passes(p)
    BY <2>1 DEF Passes
  <2>7. CASE Accepted(q) /\ Now(q) /\ act' = [act EXCEPT ![a] = Goes(r)]
    <3>1. Learns(r, Goes(r))
      BY <1>1, <1>4, <2>1, <2>6
    <3> QED
      BY <1>1, <2>5, <2>7, <3>1 DEF ScriptDoes, Learns
  <2>8. CASE PutOff(q) /\ act' = [act EXCEPT ![a] = Fails(r)]
    <3>1. Learns(r, Fails(r)) /\ Fails(r).phase \notin Front
      BY <1>1, FailsEffect
    <3> QED
      BY <1>1, <2>5, <2>8, <3>1 DEF ScriptDoes, Learns
  <2> QED
    BY <1>7, <2>7, <2>8 DEF Patch, q
<1>8. CASE Error(a)
  <2>1. act' = [act EXCEPT ![a] = Fails(r)] /\ UNCHANGED clusterVars
    BY <1>8 DEF Error
  <2>2. Learns(r, Fails(r))
    BY <1>1, FailsEffect
  <2> QED
    BY <1>1, <2>1, <2>2 DEF ScriptDoes, Learns
<1> QED
  BY <1>5, <1>6, <1>7, <1>8

LEMMA KillEffect ==
  ASSUME TypeOK, NEW a \in Activations, Kill(a)
  PROVE  \E e \in ActivationState :
           /\ act' = [act EXCEPT ![a] = e] /\ UNCHANGED clusterVars /\ act[a].phase \notin Ended
           /\ e.phase = "killed" /\ Learns(act[a], e)
<1> DEFINE e == Enters(act[a], "killed")
<1>1. act[a] \in ActivationState /\ "killed" \in Ended
  BY Typed DEF Ended
<1>2. e \in ActivationState /\ InScript(e) /\ e.phase = "killed"
  BY <1>1, EntersEffect
<1>3. act' = [act EXCEPT ![a] = e] /\ UNCHANGED clusterVars /\ act[a].phase \notin Ended
  BY DEF Kill, Works
<1> HIDE DEF e
<1> QED
  BY <1>2, <1>3 DEF Learns

LEMMA AnyScriptStep ==
  ASSUME BaseInv, NEW a \in Activations, ActivationNext(a)
  PROVE  \E e \in ActivationState : ScriptDoes(a, e)
<1>1. CASE Kill(a)
  BY <1>1, KillEffect DEF BaseInv, ScriptDoes
<1> QED
  BY <1>1, ActivationDoes DEF ActivationNext, BaseInv

LEMMA ScriptBase ==
  ASSUME BaseInv, NEW a \in Activations, NEW e \in ActivationState, ScriptDoes(a, e), UNCHANGED cer
  PROVE  BaseInv' /\ (RoleInv => RoleInv')
<1>1. /\ act \in [Activations -> ActivationState] /\ act' = [act EXCEPT ![a] = e] /\ InScript(e)
      /\ TypeOK
  BY Typed DEF BaseInv, ScriptDoes, Learns
<1>2. /\ UNCHANGED <<marker, role, tokens, pods, drifts>>
      /\ replicas' \in [Targets -> {0, 1}] /\ version' \in [Targets -> Nat]
      /\ \A q \in late' : q \in late \/ (q \in Requests /\ q.kind = "patch" /\ q.kind \in Delayable)
  <2>1. CASE UNCHANGED clusterVars
    BY <1>1, <2>1, Typed DEF clusterVars
  <2>2. ASSUME NEW q, MayScale(a, act[a], q), Accepted(q), Now(q)
        PROVE  /\ UNCHANGED <<marker, role, tokens, pods, drifts, late>>
               /\ replicas' \in [Targets -> {0, 1}] /\ version' \in [Targets -> Nat]
    BY <1>1, <2>2, ApplyEffect DEF MayScale, Now, Apply
  <2>3. ASSUME NEW q, MayScale(a, act[a], q), PutOff(q)
        PROVE  /\ UNCHANGED <<marker, role, tokens, pods, drifts, replicas, version>>
               /\ late' = late \cup {q} /\ q \in Requests /\ q.kind = "patch"
               /\ q.kind \in Delayable
    BY <2>3 DEF MayScale, PutOff
  <2> QED
    BY <1>1, <2>1, <2>2, <2>3, Typed DEF ScriptDoes
<1>3. TypeOK' /\ ScriptInv'
  <2>1. late' \subseteq [kind : Delayable, by : Ceremonies \cup Activations, x : Targets,
                         n : {0, 1}, rv : Nat]
    BY <1>1, <1>2 DEF TypeOK, ClusterTypeOK, Requests
  <2>2. ClusterTypeOK'
    BY <1>1, <1>2, <2>1 DEF TypeOK, ClusterTypeOK
  <2> QED
    BY <1>1, <2>2 DEF TypeOK, CeremonyTypeOK, ActivationTypeOK, BaseInv, ScriptInv
<1>4. SoundInv' /\ MarkerInv' /\ TokenInv'
  BY <1>2 DEF BaseInv, SoundInv, MarkerInv, TokenInv
<1>5. LateInv'
  BY <1>2 DEF BaseInv, LateInv
<1>6. RoleInv => RoleInv'
  BY <1>2 DEF RoleInv
<1> QED
  BY <1>3, <1>4, <1>5, <1>6 DEF BaseInv

-----------------------------------------------------------------------------
LEMMA InitBase == Init => BaseInv /\ RoleInv
<1> SUFFICES ASSUME Init PROVE BaseInv /\ RoleInv
  OBVIOUS
<1>1. /\ marker = NoOne /\ role = "exact" /\ drifts = 0 /\ late = {}
      /\ version = [x \in Targets |-> 0] /\ tokens = [c \in Ceremonies |-> "live"]
      /\ cer = [c \in Ceremonies |-> CeremonyStart] /\ act = [a \in Activations |-> ActivationStart]
  BY DEF Init, ClusterInit, CeremonyInit, ActivationInit
<1>2. replicas \in [Targets -> {0, 1}] /\ pods \in [Targets -> {"none", "blocked", "up"}]
  BY DEF Init, ClusterInit
<1>3. /\ CeremonyStart \in CeremonyState /\ CeremonyStart.stage = "main"
      /\ CeremonyStart.reached = 1 /\ CeremonyStart.ip = 1 /\ ~CeremonyStart.owned
      /\ ~CeremonyStart.restored /\ CeremonyStart.unconfirmed = {} /\ CeremonyStart.result = "none"
  BY Numbers DEF CeremonyStart, CeremonyState
<1>4. Sound(CeremonyStart)
  <2>1. Program(CeremonyStart) = Do("token")
    BY <1>3, MainStages DEF Program
  <2> QED
    BY <1>3, <2>1, TokenOps, SoundMain
<1>5. ActivationStart \in ActivationState /\ InScript(ActivationStart)
  <2> DEFINE S == {Phases[i] : i \in DOMAIN Phases} \cup Ended
             n == Len(Script["preflight"])
             r == ActivationStart
  <2>1. "preflight" \in S
    BY PhaseNames
  <2>2. r = [phase |-> "preflight", ip |-> 1, rv |-> 0, failed |-> FALSE]
    BY DEF ActivationStart
  <2>3. n = 6
    BY Scripts, PreflightScript
  <2> HIDE DEF S, n, r
  <2>4. r \in [phase : S, ip : 1..16, rv : Nat, failed : BOOLEAN]
    BY <2>1, <2>2
  <2>5. r.phase = "preflight" /\ r.ip \in 1..n
    BY <2>2, <2>3
  <2> QED
    BY <2>4, <2>5 DEF ActivationState, InScript, S, n, r
<1>6. TypeOK
  BY <1>1, <1>2, <1>3, <1>5, ClusterAssumption
  DEF TypeOK, ClusterTypeOK, CeremonyTypeOK, ActivationTypeOK
<1>7. SoundInv /\ ScriptInv
  BY <1>1, <1>4, <1>5 DEF SoundInv, ScriptInv
<1>8. MarkerInv /\ LateInv /\ TokenInv /\ RoleInv
  BY <1>1, <1>3 DEF MarkerInv, LateInv, TokenInv, RoleInv
<1> QED
  BY <1>6, <1>7, <1>8 DEF BaseInv

LEMMA StepBase ==
  ASSUME BaseInv, [Next]_vars
  PROVE  BaseInv' /\ ("delete" \notin Delayable /\ RoleInv => RoleInv')
<1>1. CASE UNCHANGED vars
  BY <1>1 DEF vars, clusterVars, BaseInv, TypeOK, ClusterTypeOK, CeremonyTypeOK, ActivationTypeOK,
              SoundInv, ScriptInv, MarkerInv, LateInv, TokenInv, RoleInv
<1>2. CASE ClusterNext /\ UNCHANGED <<cer, act>>
  BY <1>2, ClusterBase
<1>3. ASSUME NEW c \in Ceremonies, CeremonyNext(c), UNCHANGED act
      PROVE  BaseInv' /\ (RoleInv => RoleInv')
  <2>1. CASE CeremonyStep(c)
    BY <1>3, <2>1, CeremonyDoes, DoesBase DEF BaseInv
  <2>2. CASE Crash(c)
    BY <1>3, <2>2, CrashBase
  <2>3. CASE WrapperRevokes(c)
    BY <1>3, <2>3, WrapperBase
  <2> QED
    BY <1>3, <2>1, <2>2, <2>3 DEF CeremonyNext
<1>4. ASSUME NEW a \in Activations, ActivationNext(a), UNCHANGED cer
      PROVE  BaseInv' /\ (RoleInv => RoleInv')
  BY <1>4, AnyScriptStep, ScriptBase
<1> QED
  BY <1>1, <1>2, <1>3, <1>4 DEF Next

(* The invariant that everything else rests on, whatever may be delayed.   *)
THEOREM WindowInvariance == Spec => []BaseInv
<1>1. Init => BaseInv
  BY InitBase
<1>2. BaseInv /\ [Next]_vars => BaseInv'
  BY StepBase
<1> QED
  BY <1>1, <1>2, PTL DEF Spec

(* Every variable of the cluster, the ceremonies and the scripts stays in  *)
(* its range.                                                              *)
THEOREM TypeCorrect == Spec => []TypeOK
<1>1. BaseInv => TypeOK
  BY DEF BaseInv
<1> QED
  BY <1>1, WindowInvariance, PTL

(* With any number of ceremonies and scripts, and with every other request *)
(* late, Vault's runtime role is missing only under a maintenance marker,  *)
(* as long as Vault does not carry out a deletion whose sender had given   *)
(* up (uc5-ceremony.py:59-61 and 104-130).                                 *)
THEOREM RoleUnderMarker ==
  ASSUME "delete" \notin Delayable
  PROVE  Spec => []RoleAbsentUnderMarker
<1>1. Init => BaseInv /\ RoleInv
  BY InitBase
<1>2. BaseInv /\ RoleInv /\ [Next]_vars => (BaseInv /\ RoleInv)'
  BY StepBase
<1>3. BaseInv /\ RoleInv => RoleAbsentUnderMarker
  BY ClusterAssumption DEF RoleInv, RoleAbsentUnderMarker
<1> QED
  BY <1>1, <1>2, <1>3, PTL DEF Spec

-----------------------------------------------------------------------------
(* The client and the fence, against one activation script.                *)

Workloads == {"client", "fence"}
Raises(q) == q.kind = "patch" /\ q.n = 1 /\ q.x \in Workloads
(* It has passed the marker check that precedes a scale to one.            *)
Raising(r) == r.phase = "activate" /\ r.ip \in {2, 3, 7, 8}

(* What a script has seen is still so, as it alone raises the counts.      *)
FrontInv ==
  \A a \in Activations :
    /\ act[a].phase = "preflight" /\ act[a].ip > 2 => replicas["client"] = 0
    /\ act[a].phase = "preflight" /\ act[a].ip > 3 => replicas["fence"] = 0
    /\ act[a].phase = "activate" /\ act[a].ip <= 3 => replicas["client"] = 0
    /\ act[a].phase = "activate" /\ act[a].ip <= 8 => replicas["fence"] = 0
    /\ act[a].phase = "activate" /\ act[a].ip = 3 => act[a].rv <= version["client"]
    /\ act[a].phase = "activate" /\ act[a].ip = 8 => act[a].rv <= version["fence"]
(* A scale to one that is still under way belongs to a script that gave up,*)
(* and applies only to a count that has stayed at zero.                    *)
PendingInv ==
  \A q \in late : Raises(q) =>
    /\ \A a \in Activations : act[a].phase \notin Front
    /\ q.rv <= version[q.x]
    /\ q.rv = version[q.x] => replicas[q.x] = 0
Calmed ==
  /\ \A a \in Activations : ~Raising(act[a])
  /\ \A q \in late : Raises(q) => q.rv < version[q.x]
(* Once the marker's owner has seen client and fence run, nothing that was *)
(* begun before the marker can raise them again.                           *)
QuietInv ==
  \A c \in Ceremonies : marker = c /\ Tested(cer[c]) =>
    Calmed /\ (cer[c].reached > Preparing => Quiesced)
CalmInv == FrontInv /\ PendingInv /\ QuietInv

(* The counts of client and fence are kept or lowered.                     *)
Lowers ==
  \A x \in Workloads :
    \/ replicas'[x] = replicas[x] /\ version'[x] = version[x]
    \/ replicas'[x] = 0 /\ version'[x] > version[x]
PodsFollow == \A x \in Targets : Absent(x) => pods'[x] = "none"

LEMMA PatchEffect ==
  ASSUME TypeOK, NEW q \in Requests, Accepted(q), Apply(q), NEW x \in Targets
  PROVE  \/ replicas'[x] = replicas[x] /\ version'[x] = version[x]
         \/ /\ q.kind = "patch" /\ q.x = x /\ replicas[x] # q.n /\ replicas'[x] = q.n
            /\ version[x] = q.rv /\ version'[x] = version[x] + 1
<1>1. /\ replicas \in [Targets -> {0, 1}] /\ version \in [Targets -> Nat]
      /\ q.x \in Targets /\ q.n \in {0, 1}
  BY Typed DEF Requests
<1>2. CASE q.kind # "patch"
  BY <1>2 DEF Apply
<1>3. CASE q.kind = "patch" /\ replicas[q.x] = q.n
  <2>1. replicas' = replicas
    BY <1>1, <1>3 DEF Apply
  <2> QED
    BY <2>1 DEF Apply
<1>4. CASE q.kind = "patch" /\ replicas[q.x] # q.n
  <2>1. replicas' = [replicas EXCEPT ![q.x] = q.n]
    BY <1>4 DEF Apply
  <2>2. replicas' # replicas
    BY <1>1, <1>4, <2>1
  <2>3. version' = [version EXCEPT ![q.x] = version[q.x] + 1]
    BY <2>2 DEF Apply
  <2>4. version[q.x] = q.rv
    BY <1>4 DEF Accepted
  <2> QED
    BY <1>1, <1>4, <2>1, <2>3, <2>4
<1> QED
  BY <1>2, <1>3, <1>4

(* A request that raises neither lowers, whoever makes it.                 *)
LEMMA OthersLower ==
  ASSUME TypeOK, NEW q \in Requests, Accepted(q), Apply(q), ~Raises(q)
  PROVE  Lowers /\ PodsFollow
<1>1. ASSUME NEW x \in Workloads
      PROVE  \/ replicas'[x] = replicas[x] /\ version'[x] = version[x]
             \/ replicas'[x] = 0 /\ version'[x] > version[x]
  <2>1. x \in Targets /\ version[x] \in Nat /\ q.n \in {0, 1}
    BY <1>1, Typed DEF Workloads, Targets, Requests
  <2> QED
    BY <1>1, <2>1, PatchEffect DEF Raises
<1>2. PodsFollow
  BY DEF PodsFollow, Apply, Absent
<1> QED
  BY <1>1, <1>2 DEF Lowers

LEMMA LoweringKeeps ==
  ASSUME TypeOK, TypeOK', Lowers, PodsFollow, UNCHANGED act, \A q \in late' : Raises(q) => q \in late
  PROVE  /\ FrontInv => FrontInv'
         /\ PendingInv => PendingInv'
         /\ Calmed => Calmed'
         /\ Quiesced => Quiesced'
<1>1. /\ version \in [Targets -> Nat] /\ version' \in [Targets -> Nat]
      /\ act \in [Activations -> ActivationState] /\ Workloads \subseteq Targets
  BY Typed DEF TypeOK, ClusterTypeOK, Workloads, Targets
<1>2. /\ \A a \in Activations : act[a].rv \in Nat
      /\ \A q \in late : q.rv \in Nat
  BY <1>1, Typed DEF ActivationState, Requests
<1>3. \A x \in Workloads :
        /\ version[x] \in Nat /\ version'[x] \in Nat /\ version'[x] >= version[x]
        /\ replicas[x] = 0 => replicas'[x] = 0
        /\ version'[x] = version[x] => replicas'[x] = replicas[x]
  BY <1>1 DEF Lowers
<1>4. FrontInv => FrontInv'
  <2> SUFFICES ASSUME FrontInv, NEW a \in Activations
               PROVE  /\ act[a].phase = "preflight" /\ act[a].ip > 2 => replicas'["client"] = 0
                      /\ act[a].phase = "preflight" /\ act[a].ip > 3 => replicas'["fence"] = 0
                      /\ act[a].phase = "activate" /\ act[a].ip <= 3 => replicas'["client"] = 0
                      /\ act[a].phase = "activate" /\ act[a].ip <= 8 => replicas'["fence"] = 0
                      /\ act[a].phase = "activate" /\ act[a].ip = 3 => act[a].rv <= version'["client"]
                      /\ act[a].phase = "activate" /\ act[a].ip = 8 => act[a].rv <= version'["fence"]
    BY DEF FrontInv
  <2>1. /\ replicas["client"] = 0 => replicas'["client"] = 0
        /\ replicas["fence"] = 0 => replicas'["fence"] = 0
        /\ act[a].rv <= version["client"] => act[a].rv <= version'["client"]
        /\ act[a].rv <= version["fence"] => act[a].rv <= version'["fence"]
    BY <1>2, <1>3 DEF Workloads
  <2> QED
    BY <2>1 DEF FrontInv
<1>5. PendingInv => PendingInv'
  <2> SUFFICES ASSUME PendingInv, NEW q \in late', Raises(q)
               PROVE  /\ \A a \in Activations : act[a].phase \notin Front
                      /\ q.rv <= version'[q.x]
                      /\ q.rv = version'[q.x] => replicas'[q.x] = 0
    BY DEF PendingInv
  <2>1. q \in late /\ q.x \in Workloads
    BY DEF Raises
  <2> QED
    BY <1>2, <1>3, <2>1 DEF PendingInv
<1>6. Calmed => Calmed'
  <2> SUFFICES ASSUME Calmed, NEW q \in late', Raises(q) PROVE q.rv < version'[q.x]
    BY DEF Calmed, Raising
  <2>1. q \in late /\ q.x \in Workloads
    BY DEF Raises
  <2> QED
    BY <1>2, <1>3, <2>1 DEF Calmed
<1>7. Quiesced => Quiesced'
  BY <1>3 DEF Quiesced, Absent, PodsFollow, Workloads, Targets
<1> QED
  BY <1>4, <1>5, <1>6, <1>7

(* A step of a ceremony never raises client or fence.                      *)
LEMMA DoesLower ==
  ASSUME TypeOK, NEW c \in Ceremonies, NEW e \in CeremonyState, Does(c, e)
  PROVE  /\ Lowers /\ PodsFollow /\ \A q \in late' : Raises(q) => q \in late
         /\ UNCHANGED marker \/ (cer[c].stage = "main" /\ cer[c].reached = Acquiring)
            \/ (marker = c /\ marker' = NoOne)
<1>1. CASE UNCHANGED clusterVars
  BY <1>1 DEF clusterVars, Lowers, PodsFollow, Absent
<1>2. ASSUME NEW q, MayAsk(c, cer[c], q), Accepted(q), Now(q)
      PROVE  /\ Lowers /\ PodsFollow /\ late' = late
             /\ UNCHANGED marker \/ (cer[c].stage = "main" /\ cer[c].reached = Acquiring)
                \/ (marker = c /\ marker' = NoOne)
  <2>1. q \in Requests /\ ~Raises(q) /\ Apply(q) /\ q.by = c
    BY <1>2 DEF MayAsk, Raises, Workloads, Now
  <2>2. UNCHANGED marker \/ q.kind = "create" \/ (marker = c /\ marker' = NoOne)
    BY <1>2, <2>1, ApplyEffect
  <2> QED
    BY <1>2, <2>1, <2>2, OthersLower DEF MayAsk, Now
<1>3. ASSUME NEW q, MayAsk(c, cer[c], q), PutOff(q)
      PROVE  /\ Lowers /\ PodsFollow /\ UNCHANGED marker
             /\ \A p \in late' : Raises(p) => p \in late
  <2>1. ~Raises(q)
    BY <1>3 DEF MayAsk, Raises, Workloads
  <2> QED
    BY <1>3, <2>1 DEF PutOff, Lowers, PodsFollow, Absent
<1> QED
  BY <1>1, <1>2, <1>3 DEF Does

LEMMA DoesCalm ==
  ASSUME BaseInv, BaseInv', CalmInv, NEW c \in Ceremonies, NEW e \in CeremonyState, Does(c, e),
         UNCHANGED act
  PROVE  CalmInv'
<1> DEFINE r == cer[c]
<1>1. PICK o \in Answers : /\ Answered(c, o) /\ Shows(r, o, e)
                           /\ UNCHANGED clusterVars \/ o \in Kinds \cup {"none"}
  BY DEF Does
<1>2. /\ r \in CeremonyState /\ cer'[c] = e /\ \A d \in Ceremonies \ {c} : cer'[d] = cer[d]
  BY Typed DEF BaseInv, Does
<1>3. /\ Lowers /\ PodsFollow /\ \A q \in late' : Raises(q) => q \in late
      /\ UNCHANGED marker \/ (r.stage = "main" /\ r.reached = Acquiring)
         \/ (marker = c /\ marker' = NoOne)
  BY DoesLower DEF BaseInv
<1>4. /\ FrontInv' /\ PendingInv'
      /\ Calmed => Calmed'
      /\ Quiesced => Quiesced'
  BY <1>3, LoweringKeeps DEF BaseInv, CalmInv
<1>5. o \in {"running", "quiesced"} => UNCHANGED clusterVars
  BY <1>1 DEF Kinds
<1>6. ASSUME NEW d \in Ceremonies, marker' = d, Tested(cer'[d])
      PROVE  Calmed' /\ (cer'[d].reached > Preparing => Quiesced')
  <2>1. CASE marker # d
    <3>1. r.stage = "main" /\ r.reached = 2 /\ marker' # marker
      BY <1>3, <1>6, <2>1, ClusterAssumption, Numbers
    <3>2. d = c
      BY <1>2, <1>6, <2>1, <3>1, ApplyEffect DEF Does, clusterVars, MayAsk, PutOff, Now, BaseInv
    <3>3. o # "running" /\ ~Tested(r)
      BY <1>5, <3>1, Numbers DEF clusterVars, Tested
    <3> QED
      BY <1>1, <1>2, <1>6, <3>2, <3>3 DEF Shows
  <2>2. CASE marker = d /\ Tested(cer[d])
    <3>1. Calmed /\ (cer[d].reached > Preparing => Quiesced)
      BY <2>2 DEF CalmInv, QuietInv
    <3>2. CASE d # c
      BY <1>2, <1>4, <3>1, <3>2
    <3>3. CASE d = c
      BY <1>1, <1>2, <1>4, <3>1, <3>3 DEF Shows, Answered
    <3> QED
      BY <3>2, <3>3
  <2>3. CASE marker = d /\ ~Tested(cer[d])
    <3>1. d = c /\ Tested(e)
      BY <1>2, <1>6, <2>3
    <3>2. o = "running"
      BY <1>1, <2>3, <3>1 DEF Shows
    <3>3. replicas["client"] = 1 /\ replicas["fence"] = 1
      BY <1>1, <3>2 DEF Answered, Running, Targets
    <3>4. Calmed
      <4>1. ASSUME NEW a \in Activations, Raising(act[a]) PROVE FALSE
        <5>1. act[a].phase = "activate" /\ (act[a].ip <= 3 \/ act[a].ip <= 8)
          BY <4>1 DEF Raising
        <5>2. act[a].ip \in {2, 3} \/ act[a].ip \in {7, 8}
          BY <4>1 DEF Raising
        <5> QED
          BY <3>3, <5>1, <5>2 DEF CalmInv, FrontInv
      <4>2. ASSUME NEW q \in late, Raises(q) PROVE q.rv < version[q.x]
        <5>1. q.rv <= version[q.x] /\ q.rv # version[q.x]
          BY <3>3, <4>2 DEF CalmInv, PendingInv, Raises, Workloads
        <5>2. q.rv \in Nat /\ version[q.x] \in Nat
          BY Typed DEF BaseInv, Requests
        <5> QED
          BY <5>1, <5>2
      <4> QED
        BY <4>1, <4>2 DEF Calmed
    <3>5. e.reached <= Preparing
      <4>1. r.reached \in 1..14 /\ ~(r.reached > Preparing) /\ e.reached \in 1..14
        BY <1>2, <2>3, <3>1, Numbers DEF CeremonyState, Tested
      <4> QED
        BY <1>1, <3>2, <4>1, Numbers DEF Shows
    <3>6. ~(e.reached > Preparing)
      <4>1. e.reached \in 1..14
        BY Numbers DEF CeremonyState
      <4> QED
        BY <3>5, <4>1, Numbers
    <3> QED
      BY <1>2, <1>4, <3>1, <3>4, <3>6
  <2> QED
    BY <2>1, <2>2, <2>3
<1> QED
  BY <1>4, <1>6 DEF CalmInv, QuietInv

(* Steps that leave the cluster's requests and counts alone.               *)
LEMMA IdleCalm ==
  ASSUME BaseInv, BaseInv', CalmInv, Lowers, PodsFollow, UNCHANGED <<marker, act>>,
         \A q \in late' : Raises(q) => q \in late,
         \A c \in Ceremonies : /\ Tested(cer'[c]) => Tested(cer[c])
                               /\ cer'[c].reached = cer[c].reached
  PROVE  CalmInv'
<1>1. /\ FrontInv' /\ PendingInv'
      /\ Calmed => Calmed'
      /\ Quiesced => Quiesced'
  BY LoweringKeeps DEF BaseInv, CalmInv
<1>2. QuietInv'
  BY <1>1 DEF CalmInv, QuietInv
<1> QED
  BY <1>1, <1>2 DEF CalmInv

LEMMA CrashCalm ==
  ASSUME BaseInv, BaseInv', CalmInv, NEW c \in Ceremonies, Crash(c) \/ WrapperRevokes(c),
         UNCHANGED act
  PROVE  CalmInv'
<1>1. Lowers /\ PodsFollow /\ UNCHANGED <<marker, act, late>>
  BY DEF Crash, WrapperRevokes, clusterVars, Lowers, PodsFollow, Absent
<1>2. CASE WrapperRevokes(c)
  BY <1>1, <1>2, IdleCalm DEF WrapperRevokes
<1>3. CASE Crash(c)
  <2>1. PICK e \in CeremonyState :
             /\ cer' = [cer EXCEPT ![c] = e] /\ e.stage = "crashed" /\ e.reached = cer[c].reached
    BY <1>3, CrashEffect DEF BaseInv
  <2>2. \A d \in Ceremonies : cer'[d] = IF d = c THEN e ELSE cer[d]
    BY <2>1, Typed DEF BaseInv
  <2>3. \A d \in Ceremonies : /\ Tested(cer'[d]) => Tested(cer[d])
                              /\ cer'[d].reached = cer[d].reached
    BY <2>1, <2>2 DEF Tested
  <2> QED
    BY <1>1, <2>3, IdleCalm
<1> QED
  BY <1>2, <1>3

LEMMA LateCalm ==
  ASSUME BaseInv, BaseInv', CalmInv, NEW q \in late, LateArrives(q), UNCHANGED <<cer, act>>
  PROVE  CalmInv'
<1>1. /\ q \in Requests /\ Accepted(q) /\ Apply(q) /\ late' = late \ {q}
      /\ q.kind = "create" => q.by \in Ceremonies /\ cer[q.by].reached = Acquiring
      /\ q.kind # "patch" => q.by \in Ceremonies
  BY Typed DEF BaseInv, LateInv, LateArrives
<1>2. CASE ~Raises(q)
  <2>1. Lowers /\ PodsFollow
    BY <1>1, <1>2, OthersLower DEF BaseInv
  <2>2. /\ FrontInv' /\ PendingInv'
        /\ Calmed => Calmed'
        /\ Quiesced => Quiesced'
    BY <1>1, <2>1, LoweringKeeps DEF BaseInv, CalmInv
  <2>3. ASSUME NEW c \in Ceremonies, marker' = c, Tested(cer[c])
        PROVE  marker = c
    <3>1. \/ marker' = marker
          \/ q.kind = "create" /\ marker' = q.by
          \/ marker' = NoOne
      BY <1>1, ApplyEffect DEF BaseInv
    <3>2. q.kind = "create" => ~Tested(cer[q.by])
      BY <1>1, Numbers DEF Tested
    <3> QED
      BY <2>3, <3>1, <3>2, ClusterAssumption
  <2>4. QuietInv'
    BY <2>2, <2>3 DEF CalmInv, QuietInv
  <2> QED
    BY <2>2, <2>4 DEF CalmInv
<1>3. CASE Raises(q)
  <2>1. /\ q.x \in Workloads /\ q.rv = version[q.x] /\ UNCHANGED marker
        /\ \A a \in Activations : act[a].phase \notin Front
        /\ replicas[q.x] = 0 /\ q.n = 1 /\ q.kind = "patch"
    BY <1>1, <1>3 DEF Raises, Accepted, Apply, CalmInv, PendingInv
  <2>2. \A c \in Ceremonies : marker = c => ~Tested(cer[c])
    <3>1. ~(q.rv < version[q.x])
      BY <2>1, Typed DEF BaseInv, Workloads, Targets
    <3> QED
      BY <1>3, <3>1 DEF CalmInv, QuietInv, Calmed
  <2>3. FrontInv' /\ QuietInv'
    BY <2>1, <2>2 DEF FrontInv, QuietInv, Front
  <2>4. PendingInv'
    <3> SUFFICES ASSUME NEW p \in late, Raises(p)
                 PROVE  /\ p.rv <= version'[p.x]
                        /\ p.rv = version'[p.x] => replicas'[p.x] = 0
      BY <1>1, <2>1 DEF PendingInv
    <3>1. /\ p.rv \in Nat /\ version[p.x] \in Nat /\ p.x \in Targets
          /\ p.rv <= version[p.x] /\ (p.rv = version[p.x] => replicas[p.x] = 0)
      BY Typed DEF BaseInv, Requests, CalmInv, PendingInv
    <3>2. \/ replicas'[p.x] = replicas[p.x] /\ version'[p.x] = version[p.x]
          \/ version'[p.x] = version[p.x] + 1
      BY <1>1, <3>1, PatchEffect DEF BaseInv
    <3> QED
      BY <3>1, <3>2
  <2> QED
    BY <2>3, <2>4 DEF CalmInv
<1> QED
  BY <1>2, <1>3

LEMMA ClusterCalm ==
  ASSUME BaseInv, BaseInv', CalmInv, ClusterNext, UNCHANGED <<cer, act>>
  PROVE  CalmInv'
<1>1. CASE \E q \in late : LateArrives(q)
  BY <1>1, LateCalm
<1>2. CASE (\E x \in Targets : PodStarts(x) \/ PodStops(x)) \/ SignerLogsIn \/ RoleDrifts
  <2>1. UNCHANGED <<marker, replicas, version, late>>
    BY <1>2 DEF PodStarts, PodStops, SignerLogsIn, RoleDrifts
  <2>2. PodsFollow
    BY <1>2, Typed DEF PodStarts, PodStops, SignerLogsIn, RoleDrifts, PodsFollow, Absent, BaseInv
  <2> QED
    BY <2>1, <2>2, IdleCalm DEF Lowers
<1> QED
  BY <1>1, <1>2 DEF ClusterNext

LEMMA ScriptCalm ==
  ASSUME BaseInv, BaseInv', CalmInv, \A a, b \in Activations : a = b,
         NEW a \in Activations, NEW e \in ActivationState, ScriptDoes(a, e), UNCHANGED cer
  PROVE  CalmInv'
<1> DEFINE r == act[a]
<1>1. /\ r \in ActivationState /\ act' = [act EXCEPT ![a] = e] /\ act'[a] = e
      /\ r.phase \notin Ended /\ Learns(r, e) /\ r.rv \in Nat /\ e.rv \in Nat
      /\ \A b \in Activations : b = a
      /\ version \in [Targets -> Nat] /\ version' \in [Targets -> Nat]
  BY Typed DEF BaseInv, ScriptDoes, ActivationState, TypeOK, ClusterTypeOK
<1>2. InScript(r) /\ r.ip \in 1..10 /\ e.ip \in 1..16
  <2>1. InScript(r)
    BY DEF BaseInv, ScriptInv
  <2> DEFINE n == Len(Script[r.phase])
  <2>2. r.ip \in 1..n /\ n \in {2, 4, 6, 10}
    BY <1>1, <2>1, InstrFacts
  <2> HIDE DEF n
  <2>3. e.ip \in 1..16
    BY DEF ActivationState
  <2> QED
    BY <2>1, <2>2, <2>3
(* What the script sees, it sees before its own request.                   *)
<1>3. /\ e.phase = "preflight" /\ e.ip > 2 => replicas["client"] = 0
      /\ e.phase = "preflight" /\ e.ip > 3 => replicas["fence"] = 0
      /\ e.phase = "activate" /\ e.ip <= 3 => replicas["client"] = 0
      /\ e.phase = "activate" /\ e.ip <= 8 => replicas["fence"] = 0
      /\ e.phase = "activate" /\ e.ip = 3 => e.rv <= version["client"]
      /\ e.phase = "activate" /\ e.ip = 8 => e.rv <= version["fence"]
  <2>1. /\ r.phase = "preflight" /\ r.ip > 2 => replicas["client"] = 0
        /\ r.phase = "preflight" /\ r.ip > 3 => replicas["fence"] = 0
        /\ r.phase = "activate" /\ r.ip <= 3 => replicas["client"] = 0
        /\ r.phase = "activate" /\ r.ip <= 8 => replicas["fence"] = 0
    BY DEF CalmInv, FrontInv
  <2>2. /\ e.phase = "preflight" => r.phase = "preflight" /\ e.ip = r.ip + 1
        /\ e.phase = "activate" => \/ r.phase = "activate" /\ e.ip = r.ip + 1
                                   \/ r.phase = "preflight" /\ r.ip = 6 /\ e.ip = 1
        /\ e.phase = "preflight" /\ e.ip = 3 => replicas["client"] = 0
        /\ e.phase = "preflight" /\ e.ip = 4 => replicas["fence"] = 0
        /\ e.phase = "activate" /\ e.ip = 3 => e.rv = version["client"]
        /\ e.phase = "activate" /\ e.ip = 8 => e.rv = version["fence"]
    BY <1>1 DEF Learns
  <2>3. version["client"] \in Nat /\ version["fence"] \in Nat
    BY <1>1 DEF Targets
  <2> QED
    BY <1>2, <2>1, <2>2, <2>3
<1>4. /\ e.phase \in Front => r.phase \in Front
      /\ Raising(e) => marker = NoOne \/ Raising(r)
  BY <1>1, <1>2 DEF Learns, Front, Raising
(* The marker's owner, if it is past its test, is undisturbed.             *)
<1>5. ASSUME NEW c \in Ceremonies, marker = c, Tested(cer[c])
      PROVE  ~Raising(e) /\ ~Raising(r) /\ Calmed /\ (cer[c].reached > Preparing => Quiesced)
  BY <1>4, <1>5, ClusterAssumption DEF CalmInv, QuietInv, Calmed
<1>6. ASSUME Lowers, PodsFollow, UNCHANGED marker, \A q \in late' : Raises(q) => q \in late
      PROVE  CalmInv'
  <2>1. /\ \A x \in Workloads : replicas[x] = 0 => replicas'[x] = 0
        /\ \A x \in Workloads : version[x] <= version'[x]
        /\ \A x \in Workloads : version'[x] = version[x] => replicas'[x] = replicas[x]
        /\ version["client"] \in Nat /\ version["fence"] \in Nat
        /\ version'["client"] \in Nat /\ version'["fence"] \in Nat
    BY <1>1, <1>6 DEF Lowers, Workloads, Targets
  <2>2. FrontInv'
    <3>1. /\ replicas["client"] = 0 => replicas'["client"] = 0
          /\ replicas["fence"] = 0 => replicas'["fence"] = 0
          /\ e.rv <= version["client"] => e.rv <= version'["client"]
          /\ e.rv <= version["fence"] => e.rv <= version'["fence"]
      BY <1>1, <2>1 DEF Workloads
    <3> QED
      BY <1>1, <1>3, <3>1 DEF FrontInv
  <2>3. ASSUME NEW q \in late', Raises(q)
        PROVE  /\ q \in late /\ q.rv \in Nat /\ q.x \in Workloads /\ e.phase \notin Front
               /\ q.rv <= version[q.x] /\ (q.rv = version[q.x] => replicas[q.x] = 0)
    BY <1>4, <1>6, <2>3, Typed DEF BaseInv, Requests, CalmInv, PendingInv, Raises
  <2>4. PendingInv'
    <3> SUFFICES ASSUME NEW q \in late', Raises(q)
                 PROVE  /\ \A b \in Activations : act'[b].phase \notin Front
                        /\ q.rv <= version'[q.x]
                        /\ q.rv = version'[q.x] => replicas'[q.x] = 0
      BY DEF PendingInv
    <3>1. version[q.x] \in Nat /\ version'[q.x] \in Nat
      BY <1>1, <2>3 DEF Workloads, Targets
    <3> QED
      BY <1>1, <2>1, <2>3, <3>1
  <2>5. ASSUME NEW c \in Ceremonies, marker = c, Tested(cer[c])
        PROVE  Calmed' /\ (cer[c].reached > Preparing => Quiesced')
    <3>1. ~Raising(e) /\ Calmed /\ (cer[c].reached > Preparing => Quiesced)
      BY <1>5, <2>5
    <3>2. ASSUME NEW q \in late', Raises(q) PROVE q.rv < version'[q.x]
      <4>1. q \in late /\ q.rv \in Nat /\ q.x \in Workloads /\ q.rv < version[q.x]
        BY <2>3, <3>1, <3>2 DEF Calmed
      <4>2. version[q.x] \in Nat /\ version'[q.x] \in Nat
        BY <1>1, <4>1 DEF Workloads, Targets
      <4> QED
        BY <2>1, <4>1, <4>2
    <3>3. Quiesced => Quiesced'
      BY <1>6, <2>1 DEF Quiesced, Absent, PodsFollow, Workloads, Targets
    <3> QED
      BY <1>1, <3>1, <3>2, <3>3 DEF Calmed
  <2>6. QuietInv'
    BY <1>6, <2>5 DEF QuietInv
  <2> QED
    BY <2>2, <2>4, <2>6 DEF CalmInv
<1>7. CASE UNCHANGED clusterVars
  BY <1>6, <1>7 DEF clusterVars, Lowers, PodsFollow, Absent
<1>8. ASSUME NEW q, MayScale(a, r, q), Accepted(q), Now(q)
      PROVE  CalmInv'
  <2>1. q \in Requests /\ Apply(q) /\ q.kind = "patch" /\ q.n \in {0, 1} /\ late' = late
    BY <1>8 DEF MayScale, Now, Requests
  <2>2. marker' = marker
    BY <2>1 DEF Apply
  <2>3. CASE ~Raises(q)
    BY <1>6, <1>8, <2>1, <2>2, <2>3, OthersLower DEF BaseInv
  <2>4. CASE Raises(q)
    <3>1. /\ r.phase = "activate" /\ ((q.x = "client" /\ r.ip = 3) \/ (q.x = "fence" /\ r.ip = 8))
          /\ Raising(r)
      BY <1>8, <2>4 DEF MayScale, Raises, Raising
    <3>2. \A c \in Ceremonies : marker = c => ~Tested(cer[c])
      BY <1>5, <3>1
    <3>3. PendingInv'
      BY <2>1, <3>1 DEF CalmInv, PendingInv, Front
    <3>4. q.x = "client" => replicas'["fence"] = replicas["fence"]
      BY <1>8, <2>1, PatchEffect DEF BaseInv, Targets
    <3>5. e.phase # "preflight" /\ (e.phase = "activate" => e.ip = r.ip + 1)
      BY <1>1, <3>1 DEF Learns
    <3>6. FrontInv'
      BY <1>1, <1>3, <3>1, <3>4, <3>5 DEF FrontInv
    <3>7. QuietInv'
      BY <2>2, <3>2 DEF QuietInv
    <3> QED
      BY <3>3, <3>6, <3>7 DEF CalmInv
  <2> QED
    BY <2>3, <2>4
<1>9. ASSUME NEW q, MayScale(a, r, q), PutOff(q), e.phase \notin Front
      PROVE  CalmInv'
  <2>1. UNCHANGED <<marker, replicas, version, pods>> /\ late' = late \cup {q}
    BY <1>9 DEF PutOff
  <2>2. CASE ~Raises(q)
    BY <1>6, <2>1, <2>2 DEF Lowers, PodsFollow, Absent
  <2>3. CASE Raises(q)
    <3>1. /\ r.phase = "activate" /\ ((q.x = "client" /\ r.ip = 3) \/ (q.x = "fence" /\ r.ip = 8))
          /\ Raising(r) /\ q.rv = r.rv
      BY <1>9, <2>3 DEF MayScale, Raises, Raising
    <3>2. \A c \in Ceremonies : marker = c => ~Tested(cer[c])
      BY <1>5, <3>1
    <3>3. q.rv <= version[q.x] /\ replicas[q.x] = 0
      BY <3>1 DEF CalmInv, FrontInv
    <3>4. PendingInv'
      BY <1>1, <1>9, <2>1, <3>3 DEF CalmInv, PendingInv
    <3>5. FrontInv'
      BY <1>1, <1>9 DEF FrontInv, Front
    <3>6. QuietInv'
      BY <2>1, <3>2 DEF QuietInv
    <3> QED
      BY <3>4, <3>5, <3>6 DEF CalmInv
  <2> QED
    BY <2>2, <2>3
<1> QED
  BY <1>7, <1>8, <1>9 DEF ScriptDoes

LEMMA StepCalm ==
  ASSUME \A a, b \in Activations : a = b, BaseInv, BaseInv', CalmInv, [Next]_vars
  PROVE  CalmInv'
<1>1. CASE UNCHANGED vars
  BY <1>1, IdleCalm DEF vars, clusterVars, Lowers, PodsFollow, Absent
<1>2. CASE ClusterNext /\ UNCHANGED <<cer, act>>
  BY <1>2, ClusterCalm
<1>3. ASSUME NEW c \in Ceremonies, CeremonyNext(c), UNCHANGED act
      PROVE  CalmInv'
  BY <1>3, CeremonyDoes, DoesCalm, CrashCalm DEF CeremonyNext, BaseInv
<1>4. ASSUME NEW a \in Activations, ActivationNext(a), UNCHANGED cer
      PROVE  CalmInv'
  BY <1>4, AnyScriptStep, ScriptCalm
<1> QED
  BY <1>1, <1>2, <1>3, <1>4 DEF Next

LEMMA InitCalm == Init => CalmInv
<1> SUFFICES ASSUME Init PROVE CalmInv
  OBVIOUS
<1>1. /\ late = {} /\ marker = NoOne
      /\ act = [a \in Activations |-> ActivationStart]
  BY DEF Init, ClusterInit, ActivationInit
<1>2. \A a \in Activations : act[a].phase = "preflight" /\ act[a].ip = 1
  BY <1>1 DEF ActivationStart
<1> QED
  BY <1>1, <1>2, ClusterAssumption DEF CalmInv, FrontInv, PendingInv, QuietInv

(* With one activation script, nothing that was begun before the marker    *)
(* raises client or fence under it: CalmInv holds, whichever requests are  *)
(* late (activate-hoodi-validator-client.sh:172-184).                      *)
THEOREM WindowCalm ==
  ASSUME \A a, b \in Activations : a = b
  PROVE  Spec => [](BaseInv /\ CalmInv)
<1>1. Init => BaseInv /\ CalmInv
  BY InitBase, InitCalm
<1>2. BaseInv /\ CalmInv /\ [Next]_vars => (BaseInv /\ CalmInv)'
  BY StepBase, StepCalm
<1> QED
  BY <1>1, <1>2, PTL DEF Spec

(* While the role is missing client and fence are down and without a Pod:  *)
(* also if an activation had passed its marker check before the ceremony   *)
(* set the marker, and if its PATCH arrives long after it gave up; as long *)
(* as no second activation runs and no deletion of the role arrives late   *)
(* (uc5-live-actions.py:141-150, activate...:172-184).                     *)
THEOREM QuiescedWithoutRole ==
  ASSUME \A a, b \in Activations : a = b, "delete" \notin Delayable
  PROVE  Spec => []QuiescedWhileRoleAbsent
<1>1. Init => BaseInv /\ RoleInv
  BY InitBase
<1>2. BaseInv /\ RoleInv /\ [Next]_vars => (BaseInv /\ RoleInv)'
  BY StepBase
<1>3. BaseInv /\ RoleInv /\ CalmInv => QuiescedWhileRoleAbsent
  <2> SUFFICES ASSUME BaseInv, RoleInv, CalmInv, role = "absent" PROVE Quiesced
    BY DEF QuiescedWhileRoleAbsent
  <2>1. marker \in Ceremonies /\ ~Cleared(cer[marker])
    BY DEF RoleInv
  <2>2. cer[marker].reached > Preparing
    <3>1. cer[marker].reached \in 1..14
      BY <2>1, Typed, Numbers DEF BaseInv, CeremonyState
    <3> QED
      BY <2>1, <3>1, Numbers DEF Cleared
  <2> QED
    BY <2>1, <2>2 DEF CalmInv, QuietInv, Tested
<1>4. Spec => [](BaseInv /\ CalmInv)
  BY WindowCalm
<1> QED
  BY <1>1, <1>2, <1>3, <1>4, PTL DEF Spec

-----------------------------------------------------------------------------
(* The signer, and the moment when the marker goes.                        *)

(* A signer that a ceremony has stopped and not verified stays down until  *)
(* its marker is gone.                                                     *)
SignerInv == \A c \in Ceremonies : marker = c /\ Stopped(cer[c]) => replicas["signer"] = 0

(* A step that neither starts the signer nor gives the marker away.        *)
LEMMA SignerKept ==
  ASSUME SignerInv, UNCHANGED cer, replicas["signer"] = 0 => replicas'["signer"] = 0,
         marker' = marker \/ \A c \in Ceremonies : marker' = c => cer[c].reached = Acquiring
  PROVE  SignerInv'
<1> SUFFICES ASSUME NEW c \in Ceremonies, marker' = c, Stopped(cer[c])
             PROVE  replicas'["signer"] = 0
  BY DEF SignerInv
<1>1. cer[c].reached # Acquiring
  BY Numbers DEF Stopped
<1> QED
  BY <1>1 DEF SignerInv

LEMMA DoesSigner ==
  ASSUME BaseInv, SignerInv, NEW c \in Ceremonies, NEW e \in CeremonyState, Does(c, e)
  PROVE  SignerInv'
<1> DEFINE r == cer[c]
<1>1. PICK o \in Answers : /\ Answered(c, o) /\ Shows(r, o, e)
                           /\ UNCHANGED clusterVars \/ o \in Kinds \cup {"none"}
  BY DEF Does
<1>2. /\ r \in CeremonyState /\ cer'[c] = e /\ Ongoing(r)
      /\ \A d \in Ceremonies \ {c} : cer'[d] = cer[d]
  BY Typed DEF BaseInv, Does
<1>3. /\ replicas'["signer"] = replicas["signer"] \/ replicas'["signer"] = 0
         \/ (marker = c /\ r.stage = "main")
      /\ marker' = marker \/ marker' = NoOne
         \/ (marker' = c /\ r.stage = "main" /\ r.reached = Acquiring)
  <2>1. ASSUME NEW q, MayAsk(c, r, q), Accepted(q), Now(q)
        PROVE  /\ replicas'["signer"] = replicas["signer"] \/ replicas'["signer"] = 0
                  \/ (marker = c /\ r.stage = "main")
               /\ marker' = marker \/ marker' = NoOne
                  \/ (marker' = c /\ r.stage = "main" /\ r.reached = Acquiring)
    <3>1. q \in Requests /\ q.by = c /\ Apply(q) /\ q.n \in {0, 1}
      BY <2>1 DEF MayAsk, Now, Requests
    <3>2. marker' = marker \/ marker' = NoOne \/ (q.kind = "create" /\ marker' = c)
      BY <2>1, <3>1, ApplyEffect DEF BaseInv
    <3>3. \/ replicas'["signer"] = replicas["signer"]
          \/ q.kind = "patch" /\ replicas'["signer"] = q.n
      BY <2>1, <3>1, PatchEffect DEF BaseInv, Targets
    <3>4. q.kind = "patch" /\ q.n = 1 => r.owned /\ r.stage = "main"
      BY <2>1 DEF MayAsk
    <3>5. r.owned /\ r.stage = "main" => marker = c
      BY DEF BaseInv, MarkerInv
    <3> QED
      BY <2>1, <3>1, <3>2, <3>3, <3>4, <3>5 DEF MayAsk
  <2> QED
    BY <2>1 DEF Does, clusterVars, PutOff
<1>4. o = "signerAbsent" => UNCHANGED clusterVars /\ replicas["signer"] = 0
  BY <1>1 DEF Answered, Absent, Kinds
<1> SUFFICES ASSUME NEW d \in Ceremonies, marker' = d, Stopped(cer'[d])
             PROVE  replicas'["signer"] = 0
  BY DEF SignerInv
<1>5. CASE d # c
  BY <1>2, <1>3, <1>5, ClusterAssumption DEF SignerInv
<1>6. CASE d = c
  <2>1. CASE Stopped(r)
    <3>1. r.stage # "main" /\ r.reached # Acquiring
      BY <2>1, Numbers DEF Stopped
    <3> QED
      BY <1>3, <1>6, <2>1, <3>1, ClusterAssumption DEF SignerInv
  <2>2. CASE ~Stopped(r)
    BY <1>1, <1>2, <1>4, <1>6, <2>2 DEF Shows, clusterVars
  <2> QED
    BY <2>1, <2>2
<1> QED
  BY <1>5, <1>6

LEMMA StepSigner ==
  ASSUME "patch" \notin Delayable, BaseInv, SignerInv, [Next]_vars
  PROVE  SignerInv'
<1>1. CASE UNCHANGED vars
  BY <1>1 DEF vars, clusterVars, SignerInv
<1>2. CASE ClusterNext /\ UNCHANGED <<cer, act>>
  <2>1. CASE \E q \in late : LateArrives(q)
    <3>1. PICK q \in late : Accepted(q) /\ Apply(q)
      BY <2>1 DEF LateArrives
    <3>2. /\ q \in Requests /\ q.kind # "patch" /\ q.by \in Ceremonies
          /\ q.kind = "create" => cer[q.by].reached = Acquiring
      BY Typed DEF BaseInv, LateInv
    <3>3. replicas' = replicas
      BY <3>1, <3>2 DEF Apply
    <3>4. marker' = marker \/ marker' = NoOne \/ (q.kind = "create" /\ marker' = q.by)
      BY <3>1, <3>2, ApplyEffect DEF BaseInv
    <3> QED
      BY <1>2, <3>2, <3>3, <3>4, SignerKept, ClusterAssumption
  <2>2. CASE (\E x \in Targets : PodStarts(x) \/ PodStops(x)) \/ SignerLogsIn \/ RoleDrifts
    BY <1>2, <2>2, SignerKept DEF PodStarts, PodStops, SignerLogsIn, RoleDrifts
  <2> QED
    BY <1>2, <2>1, <2>2 DEF ClusterNext
<1>3. ASSUME NEW c \in Ceremonies, CeremonyNext(c), UNCHANGED act
      PROVE  SignerInv'
  <2>1. CASE CeremonyStep(c)
    BY <2>1, CeremonyDoes, DoesSigner DEF BaseInv
  <2>2. CASE Crash(c)
    <3>1. PICK e \in CeremonyState : /\ cer' = [cer EXCEPT ![c] = e] /\ UNCHANGED clusterVars
                                     /\ e.stage = "crashed"
      BY <2>2, CrashEffect DEF BaseInv
    <3>2. \A d \in Ceremonies : cer'[d] = IF d = c THEN e ELSE cer[d]
      BY <3>1, Typed DEF BaseInv
    <3> QED
      BY <3>1, <3>2 DEF SignerInv, Stopped, clusterVars
  <2>3. CASE WrapperRevokes(c)
    BY <2>3, SignerKept DEF WrapperRevokes
  <2> QED
    BY <1>3, <2>1, <2>2, <2>3 DEF CeremonyNext
<1>4. ASSUME NEW a \in Activations, ActivationNext(a), UNCHANGED cer
      PROVE  SignerInv'
  <2>1. PICK e \in ActivationState : ScriptDoes(a, e)
    BY <1>4, AnyScriptStep
  <2>2. ASSUME NEW q, MayScale(a, act[a], q), Accepted(q), Now(q)
        PROVE  marker' = marker /\ (replicas["signer"] = 0 => replicas'["signer"] = 0)
    <3>1. q \in Requests /\ Apply(q) /\ q.kind = "patch" /\ q.n \in {0, 1}
          /\ (q.n = 1 => q.x # "signer")
      BY <2>2 DEF MayScale, Now, Requests
    <3>2. marker' = marker
      BY <3>1 DEF Apply
    <3> QED
      BY <2>2, <3>1, <3>2, PatchEffect DEF BaseInv, Targets
  <2>3. marker' = marker /\ (replicas["signer"] = 0 => replicas'["signer"] = 0)
    BY <2>1, <2>2 DEF ScriptDoes, clusterVars, PutOff
  <2> QED
    BY <1>4, <2>3, SignerKept
<1> QED
  BY <1>1, <1>2, <1>3, <1>4 DEF Next

(* Who removes the marker, and in which state.                             *)
LEMMA ReleaseEffect ==
  ASSUME BaseInv, [Next]_vars, NEW c \in Ceremonies, Released(c)
  PROVE  /\ tokens[c] = "revoked" /\ Cleared(cer[c])
         /\ cer[c].stage \in {"release", "end"} /\ "stop" \notin cer[c].unconfirmed
<1>1. marker = c /\ marker' # marker
  BY ClusterAssumption DEF Released
<1>2. CASE \E q \in late : LateArrives(q)
  <2>1. PICK q \in late : Accepted(q) /\ Apply(q)
    BY <1>2 DEF LateArrives
  <2>2. /\ q \in Requests /\ q.kind # "patch" => q.by \in Ceremonies
        /\ q.kind = "unmark" =>
             /\ cer[q.by].stage = "end" /\ Cleared(cer[q.by]) /\ tokens[q.by] = "revoked"
             /\ "stop" \notin cer[q.by].unconfirmed
    BY Typed DEF BaseInv, LateInv
  <2>3. q.kind = "unmark" /\ marker = q.by
    BY <1>1, <2>1, ClusterAssumption DEF Apply, Accepted
  <2> QED
    BY <1>1, <2>2, <2>3
<1>3. CASE \E d \in Ceremonies : CeremonyStep(d)
  <2>1. PICK d \in Ceremonies : \E e \in CeremonyState : Does(d, e)
    BY <1>3, CeremonyDoes DEF BaseInv
  <2>2. PICK q : MayAsk(d, cer[d], q) /\ Accepted(q) /\ Apply(q)
    BY <1>1, <2>1 DEF Does, clusterVars, PutOff, Now
  <2>3. q.kind = "unmark" /\ d = c
    BY <1>1, <2>2, ClusterAssumption DEF Apply, Accepted, MayAsk
  <2>4. cer[c].stage = "release"
    BY <2>2, <2>3 DEF MayAsk
  <2> QED
    BY <2>4 DEF BaseInv, SoundInv, Sound, TokenInv
<1>4. ASSUME NEW a \in Activations, ActivationNext(a) PROVE FALSE
  <2>1. PICK e \in ActivationState : ScriptDoes(a, e)
    BY <1>4, AnyScriptStep
  <2> QED
    BY <1>1, <2>1 DEF ScriptDoes, clusterVars, PutOff, Now, Apply, MayScale
<1> QED
  BY <1>1, <1>2, <1>3, <1>4 DEF Next, ClusterNext, CeremonyNext, vars, clusterVars, PodStarts, PodStops,
                                SignerLogsIn, RoleDrifts, Crash, WrapperRevokes

(* A deletion or a write of the role that its sender gave up finds the     *)
(* token revoked, or the marker still there.                               *)
HeldInv == \A q \in late : q.kind \in {"delete", "write"} => tokens[q.by] = "revoked" \/ marker = q.by

LEMMA TokensStay ==
  ASSUME BaseInv, [Next]_vars, NEW c \in Ceremonies, tokens[c] = "revoked"
  PROVE  tokens'[c] = "revoked"
<1>1. ASSUME NEW q \in Requests, Apply(q) PROVE tokens'[c] = "revoked"
  BY <1>1, Typed DEF Apply, BaseInv
<1>2. CASE \E q \in late : LateArrives(q)
  BY <1>1, <1>2, Typed DEF LateArrives, BaseInv
<1>3. CASE \E d \in Ceremonies : CeremonyStep(d)
  <2>1. PICK d \in Ceremonies : \E e \in CeremonyState : Does(d, e)
    BY <1>3, CeremonyDoes DEF BaseInv
  <2> QED
    BY <1>1, <2>1 DEF Does, clusterVars, PutOff, Now, MayAsk
<1>4. ASSUME NEW d \in Ceremonies, Crash(d) \/ WrapperRevokes(d) PROVE tokens'[c] = "revoked"
  BY <1>4, Typed DEF Crash, WrapperRevokes, clusterVars, BaseInv
<1>5. ASSUME NEW a \in Activations, ActivationNext(a) PROVE tokens'[c] = "revoked"
  <2>1. PICK e \in ActivationState : ScriptDoes(a, e)
    BY <1>5, AnyScriptStep
  <2> QED
    BY <1>1, <2>1 DEF ScriptDoes, clusterVars, PutOff, Now, MayScale
<1> QED
  BY <1>2, <1>3, <1>4, <1>5 DEF Next, ClusterNext, CeremonyNext, vars, clusterVars, PodStarts, PodStops,
                                SignerLogsIn, RoleDrifts

(* A marker goes from one ceremony to another only by being removed.       *)
LEMMA MarkerMoves ==
  ASSUME BaseInv, [Next]_vars, marker # NoOne, marker' # marker
  PROVE  marker \in Ceremonies /\ Released(marker)
<1>1. marker \in Ceremonies
  BY Typed DEF BaseInv
<1>2. ASSUME NEW q, Accepted(q), Apply(q) PROVE marker' = NoOne
  BY <1>2 DEF Apply, Accepted
<1>3. CASE \E q \in late : LateArrives(q)
  BY <1>1, <1>2, <1>3 DEF LateArrives, Released
<1>4. CASE \E d \in Ceremonies : CeremonyStep(d)
  <2>1. PICK d \in Ceremonies : \E e \in CeremonyState : Does(d, e)
    BY <1>4, CeremonyDoes DEF BaseInv
  <2> QED
    BY <1>1, <1>2, <2>1 DEF Does, clusterVars, PutOff, Now, Released
<1>5. ASSUME NEW a \in Activations, ActivationNext(a) PROVE marker' = NoOne
  <2>1. PICK e \in ActivationState : ScriptDoes(a, e)
    BY <1>5, AnyScriptStep
  <2> QED
    BY <1>2, <2>1 DEF ScriptDoes, clusterVars, PutOff, Now
<1> QED
  BY <1>1, <1>3, <1>4, <1>5 DEF Next, ClusterNext, CeremonyNext, vars, clusterVars, PodStarts, PodStops,
                                SignerLogsIn, RoleDrifts, Crash, WrapperRevokes, Released

LEMMA StepHeld ==
  ASSUME BaseInv, HeldInv, [Next]_vars
  PROVE  HeldInv'
<1> SUFFICES ASSUME NEW q \in late', q.kind \in {"delete", "write"}
             PROVE  tokens'[q.by] = "revoked" \/ marker' = q.by
  BY DEF HeldInv
<1>1. CASE q \in late
  <2>1. q.by \in Ceremonies /\ (tokens[q.by] = "revoked" \/ marker = q.by)
    BY <1>1 DEF HeldInv, BaseInv, LateInv
  <2>2. CASE tokens[q.by] = "revoked"
    BY <2>1, <2>2, TokensStay
  <2>3. CASE marker = q.by /\ marker' # marker
    <3>1. Released(q.by)
      BY <2>1, <2>3, MarkerMoves, ClusterAssumption
    <3> QED
      BY <2>1, <3>1, ReleaseEffect, TokensStay
  <2> QED
    BY <2>1, <2>2, <2>3
<1>2. CASE q \notin late
  <2>1. PICK d \in Ceremonies : CeremonyStep(d)
    <3>1. ASSUME NEW a \in Activations, ActivationNext(a) PROVE FALSE
      <4>1. PICK e \in ActivationState : ScriptDoes(a, e)
        BY <3>1, AnyScriptStep
      <4> QED
        BY <1>2, <4>1 DEF ScriptDoes, clusterVars, PutOff, Now, MayScale
    <3> QED
      BY <1>2, <3>1 DEF Next, ClusterNext, CeremonyNext, LateArrives, vars, clusterVars, PodStarts,
                        PodStops, SignerLogsIn, RoleDrifts, Crash, WrapperRevokes
  <2>2. PICK e \in CeremonyState : Does(d, e)
    BY <2>1, CeremonyDoes DEF BaseInv
  <2>3. MayAsk(d, cer[d], q) /\ PutOff(q) /\ Ongoing(cer[d])
    BY <1>2, <2>2 DEF Does, clusterVars, PutOff, Now
  <2>4. q.by = d /\ cer[d].owned /\ cer[d].stage \notin {"release", "end", "crashed"}
    BY <2>3 DEF MayAsk, Ongoing
  <2> QED
    BY <2>3, <2>4 DEF PutOff, BaseInv, MarkerInv
<1> QED
  BY <1>1, <1>2

(* Of any number of ceremonies only the marker's owner changes replica     *)
(* counts or the role, also by a request that is carried out after its     *)
(* sender gave up, whichever those are, except a PATCH                     *)
(* (uc5-ceremony.py:126-139).                                              *)
THEOREM HolderMutates ==
  ASSUME "patch" \notin Delayable
  PROVE  Spec => OnlyHolderMutates
<1>1. Init => BaseInv /\ HeldInv
  BY InitBase DEF Init, ClusterInit, HeldInv
<1>2. BaseInv /\ HeldInv /\ [Next]_vars => (BaseInv /\ HeldInv)'
  BY StepBase, StepHeld
<1>3. ASSUME BaseInv, HeldInv, [Next]_vars, NEW c \in Ceremonies, Acts(c),
             replicas' # replicas \/ role' # role
      PROVE  marker = c
  <2>1. CASE \E q \in late : LateArrives(q) /\ UNCHANGED cer
    <3>1. PICK q \in late : Accepted(q) /\ Apply(q) /\ late' = late \ {q} /\ UNCHANGED cer
      BY <2>1 DEF LateArrives
    <3>2. q.by = c /\ q.kind \in Delayable
      BY <1>3, <3>1, Typed DEF Acts, BaseInv
    <3>3. q.kind \in {"delete", "write"} /\ tokens[c] = "live"
      BY <1>3, <3>1, <3>2, Typed DEF Apply, Accepted, BaseInv
    <3> QED
      BY <1>3, <3>1, <3>2, <3>3 DEF HeldInv
  <2>2. CASE \E d \in Ceremonies : CeremonyStep(d)
    <3>1. PICK d \in Ceremonies, e \in CeremonyState : Does(d, e)
      BY <1>3, <2>2, CeremonyDoes DEF BaseInv
    <3>2. PICK q : MayAsk(d, cer[d], q) /\ Accepted(q) /\ Now(q)
      BY <1>3, <3>1 DEF Does, clusterVars, PutOff
    <3>3. c = d
      BY <1>3, <3>1, <3>2, Typed DEF Does, Acts, Now, BaseInv
    <3>4. q.kind \in {"patch", "delete", "write"}
      BY <1>3, <3>2 DEF Now, Apply
    <3>5. cer[c].owned /\ cer[c].stage # "release" /\ Ongoing(cer[c])
      BY <3>1, <3>2, <3>3, <3>4 DEF MayAsk, Does
    <3> QED
      BY <1>3, <3>5 DEF BaseInv, MarkerInv, Ongoing
  <2>3. CASE \E d \in Ceremonies : Crash(d) \/ WrapperRevokes(d)
    BY <1>3, <2>3 DEF Crash, WrapperRevokes, clusterVars
  <2>4. ASSUME late' = late, cer' = cer PROVE FALSE
    BY <1>3, <2>4 DEF Acts
  <2>5. ASSUME NEW a \in Activations, ActivationNext(a), cer' = cer PROVE FALSE
    <3>1. PICK e \in ActivationState : ScriptDoes(a, e)
      BY <1>3, <2>5, AnyScriptStep
    <3> QED
      BY <1>3, <2>4, <2>5, <3>1 DEF ScriptDoes, clusterVars, PutOff, Now
  <2> QED
    BY <1>3, <2>1, <2>2, <2>3, <2>4, <2>5
    DEF Next, ClusterNext, CeremonyNext, vars, clusterVars, PodStarts, PodStops, SignerLogsIn, RoleDrifts
<1>4. BaseInv /\ HeldInv /\ [Next]_vars =>
        [\A c \in Ceremonies : Acts(c) /\ (replicas' # replicas \/ role' # role) => marker = c]_vars
  BY <1>3
<1> QED
  BY <1>1, <1>2, <1>4, PTL DEF Spec, OnlyHolderMutates

(* A ceremony removes the marker only from a cluster that is safe to       *)
(* activate: the role is back, its own root token is revoked, client and   *)
(* fence are at zero if it was through fresh_fence, and so is a signer     *)
(* that was not verified; also if the removal itself arrives late.         *)
(* No second activation runs, and no PATCH and no deletion of the role     *)
(* arrives after its sender gave up (uc5-ceremony.py:104-139).             *)
THEOREM ReleaseSafe ==
  ASSUME \A a, b \in Activations : a = b, "delete" \notin Delayable, "patch" \notin Delayable
  PROVE  Spec => ReleasedIsSafe
<1> DEFINE I == BaseInv /\ RoleInv /\ CalmInv /\ SignerInv
<1>1. Init => I
  <2>1. Init => SignerInv
    BY Numbers, MainStages DEF Init, CeremonyInit, CeremonyStart, SignerInv, Stopped
  <2> QED
    BY <2>1, InitBase, InitCalm
<1>2. I /\ [Next]_vars => I'
  BY StepBase, StepCalm, StepSigner
<1>3. ASSUME I, [Next]_vars, NEW c \in Ceremonies, Released(c)
      PROVE  /\ role # "absent" /\ tokens[c] = "revoked"
             /\ cer[c].reached > Preparing => replicas["client"] = 0 /\ replicas["fence"] = 0
             /\ cer[c].reached \in Preparing..(Complete - 1) => replicas["signer"] = 0
  <2>1. /\ marker = c /\ tokens[c] = "revoked" /\ Cleared(cer[c])
        /\ cer[c].stage \in {"release", "end"} /\ "stop" \notin cer[c].unconfirmed
    BY <1>3, ReleaseEffect DEF Released
  <2>2. role # "absent"
    BY <1>3, <2>1 DEF RoleInv
  <2>3. cer[c].reached > Preparing => replicas["client"] = 0 /\ replicas["fence"] = 0
    BY <1>3, <2>1 DEF CalmInv, QuietInv, Tested, Quiesced, Absent
  <2>4. cer[c].reached \in Preparing..(Complete - 1) => replicas["signer"] = 0
    BY <1>3, <2>1 DEF SignerInv, Stopped
  <2> QED
    BY <2>1, <2>2, <2>3, <2>4
<1>4. I /\ [Next]_vars =>
        [\A c \in Ceremonies : Released(c) =>
           /\ role # "absent" /\ tokens[c] = "revoked"
           /\ cer[c].reached > Preparing => replicas["client"] = 0 /\ replicas["fence"] = 0
           /\ cer[c].reached \in Preparing..(Complete - 1) => replicas["signer"] = 0]_vars
  BY <1>3
<1> QED
  BY <1>1, <1>2, <1>4, PTL DEF Spec, ReleasedIsSafe

(* activation_allowed is reported only when the token is dead, the role    *)
(* exists and the ceremony's marker is gone, whichever other requests are  *)
(* late (uc5-ceremony.py:141-152).                                         *)
THEOREM ProbeTruth ==
  ASSUME "delete" \notin Delayable
  PROVE  Spec => ProbeCompleteIsTrue
<1> DEFINE I == BaseInv /\ RoleInv
<1>1. Init => I
  BY InitBase
<1>2. I /\ [Next]_vars => I'
  BY StepBase
<1>3. ASSUME I, [Next]_vars, NEW c \in Ceremonies, Reports(c, "PROBE_COMPLETE")
      PROVE  tokens'[c] = "revoked" /\ role' # "absent" /\ marker' # c
  <2>1. cer' # cer /\ cer'[c].result = "PROBE_COMPLETE" /\ cer[c].result # "PROBE_COMPLETE"
    BY <1>3 DEF Reports
  <2>2. PICK d \in Ceremonies : CeremonyNext(d) /\ UNCHANGED act
    BY <1>3, <2>1 DEF Next, vars
  <2>3. CASE CeremonyStep(d)
    <3>1. PICK e \in CeremonyState : Does(d, e)
      BY <1>3, <2>3, CeremonyDoes DEF BaseInv
    <3>2. d = c /\ e.result = "PROBE_COMPLETE"
      BY <1>3, <2>1, <3>1, Typed DEF Does, BaseInv
    <3>3. PICK o \in Answers : /\ Answered(c, o) /\ Shows(cer[c], o, e)
                               /\ UNCHANGED clusterVars \/ o \in Kinds \cup {"none"}
      BY <3>1, <3>2 DEF Does
    <3>4. cer[c].stage = "release" /\ o \in {"unmarked", "gone"} /\ UNCHANGED clusterVars
      BY <3>2, <3>3 DEF Shows, Kinds
    <3>5. marker = NoOne /\ tokens[c] = "revoked" /\ role # "absent"
      BY <1>3, <3>3, <3>4, ClusterAssumption DEF Answered, BaseInv, TokenInv, RoleInv
    <3> QED
      BY <3>4, <3>5, ClusterAssumption DEF clusterVars
  <2>4. CASE Crash(d)
    <3>1. cer' = [cer EXCEPT ![d].stage = "crashed", ![d].ip = 1, ![d].rv = 0]
      BY <2>4 DEF Crash
    <3>2. cer \in [Ceremonies -> CeremonyState]
      BY <1>3, Typed DEF BaseInv
    <3>3. cer'[c].result = cer[c].result
      BY <3>1, <3>2 DEF CeremonyState
    <3> QED
      BY <2>1, <3>3
  <2>5. CASE WrapperRevokes(d)
    BY <2>1, <2>5 DEF WrapperRevokes
  <2> QED
    BY <2>2, <2>3, <2>4, <2>5 DEF CeremonyNext
<1>4. I /\ [Next]_vars =>
        [\A c \in Ceremonies : Reports(c, "PROBE_COMPLETE") =>
           tokens'[c] = "revoked" /\ role' # "absent" /\ marker' # c]_vars
  BY <1>3
<1> QED
  BY <1>1, <1>2, <1>4, PTL DEF Spec, ProbeCompleteIsTrue

(* What the rollback's first verifying count has seen stays so.            *)
VerifyInv ==
  \A a \in Activations :
    act[a].phase = "verify" /\ act[a].ip = 2 /\ ~act[a].failed => replicas["fence"] = 0

LEMMA StepVerify ==
  ASSUME \A a, b \in Activations : a = b, "patch" \notin Delayable, BaseInv, VerifyInv,
         [Next]_vars
  PROVE  VerifyInv'
<1>1. ASSUME UNCHANGED act, replicas["fence"] = 0 => replicas'["fence"] = 0
      PROVE  VerifyInv'
  BY <1>1 DEF VerifyInv
<1>2. CASE UNCHANGED vars
  BY <1>1, <1>2 DEF vars, clusterVars
<1>3. CASE ClusterNext /\ UNCHANGED <<cer, act>>
  <2>1. CASE \E q \in late : LateArrives(q)
    <3>1. PICK q \in late : Apply(q)
      BY <2>1 DEF LateArrives
    <3>2. q.kind # "patch"
      BY Typed DEF BaseInv
    <3> QED
      BY <1>1, <1>3, <3>1, <3>2 DEF Apply
  <2> QED
    BY <1>1, <1>3, <2>1 DEF ClusterNext, PodStarts, PodStops, SignerLogsIn, RoleDrifts
<1>4. ASSUME NEW c \in Ceremonies, CeremonyNext(c), UNCHANGED act
      PROVE  VerifyInv'
  <2>1. CASE CeremonyStep(c)
    <3>1. Lowers
      BY <2>1, CeremonyDoes, DoesLower DEF BaseInv
    <3> QED
      BY <1>1, <1>4, <3>1 DEF Lowers, Workloads
  <2> QED
    BY <1>1, <1>4, <2>1 DEF CeremonyNext, Crash, WrapperRevokes, clusterVars
<1>5. ASSUME NEW a \in Activations, ActivationNext(a), UNCHANGED cer
      PROVE  VerifyInv'
  <2>1. PICK e \in ActivationState : ScriptDoes(a, e)
    BY <1>5, AnyScriptStep
  <2>2. /\ act' = [act EXCEPT ![a] = e] /\ Learns(act[a], e)
        /\ \A b \in Activations : b = a /\ act'[b] = e
    BY <2>1, Typed DEF ScriptDoes, BaseInv
  <2> SUFFICES ASSUME e.phase = "verify", e.ip = 2, ~e.failed PROVE replicas'["fence"] = 0
    BY <2>2 DEF VerifyInv
  <2>3. act[a].phase = "verify" /\ replicas["fence"] = 0
    BY <2>2 DEF Learns
  <2>4. ASSUME NEW q, MayScale(a, act[a], q), Accepted(q), Now(q)
        PROVE  replicas'["fence"] = 0
    <3>1. q \in Requests /\ Apply(q) /\ q.n = 0
      BY <2>3, <2>4 DEF MayScale, Now, Requests
    <3> QED
      BY <2>3, <2>4, <3>1, PatchEffect DEF BaseInv, Targets
  <2> QED
    BY <2>1, <2>3, <2>4 DEF ScriptDoes, clusterVars, PutOff
<1> QED
  BY <1>2, <1>3, <1>4, <1>5 DEF Next

(* A rollback that exits without CRITICAL has left client and fence at     *)
(* zero, if no second activation runs and no PATCH arrives after its       *)
(* sender gave up (activate...:187-202).                                   *)
THEOREM RollbackDown ==
  ASSUME \A a, b \in Activations : a = b, "patch" \notin Delayable
  PROVE  Spec => RolledBackIsDown
<1> DEFINE I == BaseInv /\ VerifyInv
<1>1. Init => I
  <2>1. Init => VerifyInv
    BY DEF Init, ActivationInit, ActivationStart, VerifyInv
  <2> QED
    BY <2>1, InitBase
<1>2. I /\ [Next]_vars => I'
  BY StepBase, StepVerify
<1>3. ASSUME I, [Next]_vars, NEW a \in Activations,
             act[a].phase = "verify", act'[a].phase = "rolledback"
      PROVE  replicas["client"] = 0 /\ replicas["fence"] = 0
  <2>1. PICK b \in Activations : ActivationNext(b)
    BY <1>3 DEF Next, vars
  <2>2. PICK e \in ActivationState : ScriptDoes(b, e)
    BY <1>3, <2>1, AnyScriptStep
  <2>3. Learns(act[a], e) /\ e.phase = "rolledback"
    BY <1>3, <2>2, Typed DEF ScriptDoes, BaseInv
  <2>4. act[a].ip = 2 /\ ~act[a].failed /\ replicas["client"] = 0
    BY <2>3 DEF Learns
  <2> QED
    BY <1>3, <2>4 DEF VerifyInv
<1>4. I /\ [Next]_vars =>
        [\A a \in Activations : act[a].phase = "verify" /\ act'[a].phase = "rolledback" =>
           replicas["client"] = 0 /\ replicas["fence"] = 0]_vars
  BY <1>3
<1> QED
  BY <1>1, <1>2, <1>4, PTL DEF Spec, RolledBackIsDown
=============================================================================
