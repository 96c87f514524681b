------------------------ MODULE HoodiRelease_proofs ------------------------
(***************************************************************************)
(* Proofs about HoodiRelease and the two modules it is composed of, for    *)
(* any runs that resume, any faults and any number of them.                *)
(***************************************************************************)
EXTENDS HoodiRelease, TLAPS

-----------------------------------------------------------------------------
(* The platform bootstrap.                                                 *)

PlatformType ==
  /\ replay \in [Phases -> {"absent", "new", "intent", "complete"}]
  /\ handle \in [Runners -> {"none", "start-intent", "running", "succeeded", "failed"}]
  /\ platform \in [at : {"idle", "verify", "phase", "act", "applying", "building", "record",
                         "ok", "failed"}, ph : Phases \cup {"none"}]
  /\ monitor \in [Runners -> [at : {"idle", "open", "retry", "starting", "poll"}, hand : BOOLEAN]]
  /\ flight \subseteq Phases \ {"tls_ready"}
  /\ cluster \in [granted : SUBSET Runners,
                  build : [Runners -> {"none", "running", "succeeded", "failed"}]]

(* The phases are completed in their order, and the script works on the    *)
(* first one that is not complete.                                         *)
Complete(ph) == replay[ph] = "complete"
EarlierDone(ph) == \A p \in Phases : Order[p] < Order[ph] => Complete(p)
Bare == (\A ph \in Phases : replay[ph] = "absent") \/ (\A ph \in Phases : replay[ph] # "absent")
PrefixInv == \A ph \in Phases : Complete(ph) => EarlierDone(ph)
ScriptInv ==
  /\ platform.at \in {"phase", "act", "applying", "building", "record"} =>
       /\ platform.ph \in Phases /\ EarlierDone(platform.ph)
       /\ replay[platform.ph] \in {"new", "intent"}
  /\ platform.at \in {"act", "applying", "building", "record"} => replay[platform.ph] = "intent"
  /\ platform.at = "applying" => platform.ph \in Applies
  /\ platform.at = "building" => platform.ph \in {"argocd_build", "vault_build"}
  /\ platform.at = "ok" => Complete("revoke_complete")
OrderInv == Bare /\ PrefixInv /\ ScriptInv

(* A terraform run under way, its script's or one that outlived it, is at  *)
(* the first phase that is not complete, and no script runs beside it.     *)
ApplyInv ==
  /\ \A f \in flight \cap Applies : replay[f] = "intent" /\ EarlierDone(f)
  /\ platform.at \in {"verify", "phase", "act", "building", "record", "ok"} => flight \cap Applies = {}
  /\ platform.at = "applying" => flight \cap Applies \subseteq {platform.ph}

(* A phase is recorded as complete only with its effect, and the runners   *)
(* keep their authority until the last build has succeeded.                *)
Owed(ph) ==
  \/ Complete(ph)
  \/ platform.ph = ph /\ platform.at = "record"
  \/ platform.ph = ph /\ platform.at = "applying" /\ ph \notin flight
Effect(ph) ==
  /\ ph = "argocd_apply" => Complete("vault_build") \/ "argocd" \in cluster.granted
  /\ ph = "vault_apply" => Complete("vault_build") \/ "vault" \in cluster.granted
  /\ ph = "argocd_build" => handle["argocd"] = "succeeded"
  /\ ph = "vault_build" => handle["vault"] = "succeeded"
  /\ ph = "revoke_complete" => cluster.granted = {}
EffectInv == \A ph \in Phases : Owed(ph) => Effect(ph)

(* A build is started only after its apply, at most once for each intent,  *)
(* and not again unless it has failed.                                     *)
ApplyOf == [argocd |-> "argocd_apply", vault |-> "vault_apply"]
AfterApply(b) == handle[b] # "none" \/ monitor[b].at # "idle" => Complete(ApplyOf[b])
HandleInv(b) ==
  /\ handle[b] = "none" => cluster.build[b] = "none" /\ monitor[b].at \in {"idle", "open"}
  /\ StartOf[b] \in flight => handle[b] = "start-intent" /\ cluster.build[b] \in {"none", "failed"}
  /\ monitor[b].at = "starting" => handle[b] = "start-intent"
  /\ monitor[b].at = "retry" =>
       handle[b] = "start-intent" /\ cluster.build[b] = "failed" /\ StartOf[b] \notin flight
  /\ monitor[b].at = "poll" => handle[b] \notin {"none", "start-intent"}
  /\ handle[b] = "succeeded" => cluster.build[b] = "succeeded"
BuildInv == \A b \in Runners : AfterApply(b) /\ HandleInv(b)
PlatformInv == PlatformType /\ OrderInv /\ ApplyInv /\ EffectInv /\ BuildInv

(* Every way in which the platform's state changes.                        *)
PlatformLeft ==
  /\ platform.at \in {"ok", "failed"}
  /\ platform' = [at |-> "idle", ph |-> "none"]
  /\ UNCHANGED <<replay, handle, monitor, flight, cluster>>
PlatformOn ==
  \/ PlatformLeft \/ PlatformStep \/ PlatformEnvironment \/ PlatformGoesWrong
  \/ \E b \in Runners : RetryTerminal(b)
PlatformMove == PlatformBegin \/ PlatformOn

(* One disjunct for each action.                                           *)
LEMMA PlatformCases ==
  ASSUME PlatformMove
  PROVE  \/ PlatformBegin \/ PlatformLeft \/ PlatformVerified \/ PhaseIntent \/ PhaseComplete
         \/ PhaseApply \/ ApplyReturned \/ PhaseTls \/ PhaseBuild \/ PlatformFails \/ PlatformKilled
         \/ \E b \in Runners : \/ MonitorStart(b) \/ MonitorRefuses(b) \/ MonitorResumes(b)
                               \/ MonitorStarted(b) \/ MonitorVerdict(b) \/ RetrySend(b)
                               \/ RetryTerminal(b) \/ MonitorFails(b)
                               \/ BuildSucceeds(b) \/ BuildFails(b)
         \/ \E request \in Phases : Land(request)
BY DEF PlatformMove, PlatformOn, PlatformStep, PlatformScript, MonitorStep, PlatformEnvironment,
       PlatformGoesWrong

LEMMA OrderIsNat == \A ph \in Phases : Order[ph] \in Nat
BY DEF Order, Phases

(* Of some phases, one comes first.                                        *)
LEMMA FirstPhase ==
  ASSUME NEW S \in SUBSET Phases, S # {}
  PROVE  \E ph \in S : \A other \in S : Order[ph] <= Order[other]
<1>1. /\ Order["argocd_apply"] = 1 /\ Order["argocd_build"] = 2 /\ Order["tls_ready"] = 3
      /\ Order["vault_apply"] = 4 /\ Order["vault_build"] = 5 /\ Order["revoke_complete"] = 6
  BY DEF Order
<1>2. \A ph \in S : ph \in {"argocd_apply", "argocd_build", "tls_ready",
                           "vault_apply", "vault_build", "revoke_complete"}
  BY DEF Phases
<1>3. CASE "argocd_apply" \in S
  BY <1>1, <1>2, <1>3
<1>4. CASE "argocd_apply" \notin S /\ "argocd_build" \in S
  BY <1>1, <1>2, <1>4
<1>5. CASE {"argocd_apply", "argocd_build"} \cap S = {} /\ "tls_ready" \in S
  BY <1>1, <1>2, <1>5
<1>6. CASE {"argocd_apply", "argocd_build", "tls_ready"} \cap S = {} /\ "vault_apply" \in S
  BY <1>1, <1>2, <1>6
<1>7. CASE {"argocd_apply", "argocd_build", "tls_ready", "vault_apply"} \cap S = {}
  BY <1>1, <1>2, <1>7
<1> QED
  BY <1>3, <1>4, <1>5, <1>6, <1>7

(* The phase that the script goes on with.                                 *)
LEMMA GoOnFirst ==
  ASSUME NEW status \in [Phases -> {"absent", "new", "intent", "complete"}], GoOn(status),
         platform \in [at : {"idle", "verify", "phase", "act", "applying", "building", "record",
                         "ok", "failed"}, ph : Phases \cup {"none"}]
  PROVE  \/ /\ status["revoke_complete"] = "complete"
            /\ platform' = [platform EXCEPT !.at = "ok"]
            /\ platform'.at = "ok" /\ platform'.ph = platform.ph
         \/ \E first \in Phases :
              /\ status[first] # "complete"
              /\ \A p \in Phases : Order[p] < Order[first] => status[p] = "complete"
              /\ platform' = [at |-> "phase", ph |-> first]
<1>1. CASE status["revoke_complete"] = "complete"
  BY <1>1 DEF GoOn
<1>2. CASE status["revoke_complete"] # "complete"
  <2> DEFINE first == CHOOSE ph \in OpenPhases(status) :
                        \A other \in OpenPhases(status) : Order[ph] <= Order[other]
  <2>1. OpenPhases(status) \in SUBSET Phases /\ OpenPhases(status) # {}
    BY <1>2 DEF OpenPhases, Phases
  <2>2. \E ph \in OpenPhases(status) : \A other \in OpenPhases(status) : Order[ph] <= Order[other]
    BY <2>1, FirstPhase
  <2>3. first \in OpenPhases(status) /\ \A other \in OpenPhases(status) : Order[first] <= Order[other]
    BY <2>2
  <2>4. platform' = [at |-> "phase", ph |-> first]
    BY <1>2 DEF GoOn
  <2>5. first \in Phases /\ status[first] # "complete"
    BY <2>3 DEF OpenPhases
  <2>6. ASSUME NEW p \in Phases, Order[p] < Order[first] PROVE status[p] = "complete"
    BY <2>3, <2>5, <2>6, OrderIsNat DEF OpenPhases
  <2> QED
    BY <2>4, <2>5, <2>6
<1> QED
  BY <1>1, <1>2
LEMMA StartIsBuild ==
  /\ \A b \in Runners : StartOf[b] \in Phases \ (Applies \cup {"tls_ready"}) /\ Runner[StartOf[b]] = b
  /\ \A b, c \in Runners : StartOf[b] = StartOf[c] => b = c
BY DEF StartOf, Runner, Runners, Phases, Applies

LEMMA PlatformTypeStep ==
  ASSUME PlatformType, PlatformMove
  PROVE  PlatformType'
<1>1. CASE PlatformBegin
  BY <1>1 DEF PlatformBegin, PlatformAt, PlatformType
<1>2. CASE PlatformLeft
  BY <1>2 DEF PlatformLeft, PlatformType
<1>3. CASE PlatformVerified
  BY <1>3, GoOnFirst DEF PlatformVerified, PlatformType
<1>4. CASE PhaseIntent
  BY <1>4 DEF PhaseIntent, PlatformAt, PlatformType
<1>5. CASE PhaseComplete
  <2>1. replay' \in [Phases -> {"absent", "new", "intent", "complete"}]
    BY <1>5 DEF PhaseComplete, PlatformType
  <2>2. GoOn(replay')
    BY <1>5 DEF PhaseComplete
  <2>3. platform' \in [at : {"idle", "verify", "phase", "act", "applying", "building", "record",
                             "ok", "failed"}, ph : Phases \cup {"none"}]
    BY <2>1, <2>2, GoOnFirst DEF PlatformType
  <2> QED
    BY <1>5, <2>1, <2>3 DEF PhaseComplete, PlatformType
<1>6. CASE PhaseApply
  BY <1>6 DEF PhaseApply, PlatformAt, PlatformType, Applies, Phases
<1>7. CASE ApplyReturned
  BY <1>7 DEF ApplyReturned, PlatformAt, PlatformType
<1>8. CASE PhaseTls
  BY <1>8 DEF PhaseTls, PlatformAt, PlatformType
<1>9. CASE PhaseBuild
  <2>1. Runner[platform.ph] \in Runners
    BY <1>9 DEF PhaseBuild, Runner, Runners
  <2>2. monitor' \in [Runners -> [at : {"idle", "open", "retry", "starting", "poll"}, hand : BOOLEAN]]
    <3>1. \/ monitor' = [monitor EXCEPT ![Runner[platform.ph]] = [at |-> "open", hand |-> FALSE]]
          \/ monitor' = monitor
      BY <1>9 DEF PhaseBuild
    <3> DEFINE M == [at : {"idle", "open", "retry", "starting", "poll"}, hand : BOOLEAN]
    <3>2. [at |-> "open", hand |-> FALSE] \in M /\ monitor \in [Runners -> M]
      BY DEF PlatformType
    <3> HIDE DEF M
    <3>3. monitor' \in [Runners -> M]
      BY <2>1, <3>1, <3>2
    <3> QED
      BY <3>3 DEF M
  <2> QED
    BY <1>9, <2>2 DEF PhaseBuild, PlatformAt, PlatformType
<1>10. CASE PlatformFails
  BY <1>10 DEF PlatformFails, PlatformAt, PlatformType
<1>11. CASE PlatformKilled
  BY <1>11 DEF PlatformKilled, PlatformAt, PlatformType
<1>12. ASSUME NEW b \in Runners, \/ MonitorStart(b) \/ MonitorRefuses(b) \/ MonitorResumes(b)
                                  \/ MonitorStarted(b) \/ MonitorVerdict(b) \/ RetrySend(b)
                                  \/ RetryTerminal(b) \/ MonitorFails(b)
                                  \/ BuildSucceeds(b) \/ BuildFails(b)
        PROVE  PlatformType'
  <2>1. CASE MonitorStart(b)
    BY <2>1, StartIsBuild DEF MonitorStart, MonitorAt, PlatformType
  <2>2. CASE MonitorRefuses(b)
    BY <2>2 DEF MonitorRefuses, MonitorEnds, PlatformAt, Waits, PlatformType
  <2>3. CASE MonitorResumes(b)
    BY <2>3 DEF MonitorResumes, MonitorAt, PlatformType
  <2>4. CASE MonitorStarted(b)
    BY <2>4 DEF MonitorStarted, MonitorAt, PlatformType
  <2>5. CASE MonitorVerdict(b)
    BY <2>5 DEF MonitorVerdict, MonitorEnds, PlatformAt, Waits, PlatformType
  <2>6. CASE RetrySend(b)
    BY <2>6, StartIsBuild DEF RetrySend, MonitorAt, PlatformType
  <2>7. CASE RetryTerminal(b)
    BY <2>7 DEF RetryTerminal, PlatformType
  <2>8. CASE MonitorFails(b)
    BY <2>8 DEF MonitorFails, MonitorEnds, PlatformAt, Waits, PlatformType
  <2>9. CASE BuildSucceeds(b)
    BY <2>9 DEF BuildSucceeds, PlatformType
  <2>10. CASE BuildFails(b)
    BY <2>10 DEF BuildFails, PlatformType
  <2> QED
    BY <1>12, <2>1, <2>2, <2>3, <2>4, <2>5, <2>6, <2>7, <2>8, <2>9, <2>10
<1>13. ASSUME NEW request \in Phases, Land(request) PROVE PlatformType'
  <2>1. request \in {"argocd_apply", "argocd_build", "vault_apply", "vault_build", "revoke_complete"}
    BY <1>13 DEF Land, PlatformType, Phases
  <2>2. \/ cluster' = [cluster EXCEPT !.granted = {}]
        \/ cluster' = [cluster EXCEPT !.granted = @ \cup {Runner[request]}]
        \/ cluster' = [cluster EXCEPT !.build[Runner[request]] = "running"]
    BY <1>13 DEF Land
  <2>3. Runner[request] \in Runners \/ cluster' = [cluster EXCEPT !.granted = {}]
    BY <1>13, <2>1 DEF Land, Runner, Runners
  <2>4. cluster' \in [granted : SUBSET Runners,
                      build : [Runners -> {"none", "running", "succeeded", "failed"}]]
    BY <2>2, <2>3 DEF PlatformType
  <2> QED
    BY <1>13, <2>4 DEF Land, PlatformType
<1> QED
  BY PlatformCases, <1>1, <1>2, <1>3, <1>4, <1>5, <1>6, <1>7, <1>8, <1>9, <1>10, <1>11, <1>12, <1>13


(* The script is at the first phase that is not complete, or ready.        *)
LEMMA ScriptAfterGoOn ==
  ASSUME PlatformType, GoOn(replay'), \A ph \in Phases : replay'[ph] # "absent",
         replay' \in [Phases -> {"absent", "new", "intent", "complete"}]
  PROVE  ScriptInv'
<1>1. \/ /\ replay'["revoke_complete"] = "complete" /\ platform'.at = "ok"
      \/ \E first \in Phases :
           /\ replay'[first] # "complete"
           /\ \A p \in Phases : Order[p] < Order[first] => replay'[p] = "complete"
           /\ platform' = [at |-> "phase", ph |-> first]
  BY GoOnFirst DEF PlatformType
<1> QED
  BY <1>1 DEF ScriptInv, Complete, EarlierDone

LEMMA OrderStep ==
  ASSUME PlatformType, OrderInv, PlatformMove
  PROVE  OrderInv'
<1>1. CASE PlatformBegin
  BY <1>1 DEF PlatformBegin, PlatformAt, PlatformType, OrderInv, Bare, PrefixInv, ScriptInv, Complete, EarlierDone, Applies
<1>2. CASE PlatformLeft
  BY <1>2 DEF PlatformLeft, PlatformType, OrderInv, Bare, PrefixInv, ScriptInv, Complete, EarlierDone, Applies
<1>3. CASE PlatformVerified
  <2>1. replay' \in [Phases -> {"absent", "new", "intent", "complete"}] /\ GoOn(replay')
    BY <1>3 DEF PlatformVerified, PlatformType
  <2>2. \A ph \in Phases : replay'[ph] # "absent"
    BY <1>3 DEF PlatformVerified, Initialized, OrderInv, Bare, Phases
  <2>3. PrefixInv'
    BY <1>3, OrderIsNat DEF PlatformVerified, PlatformType, OrderInv, PrefixInv, Complete, EarlierDone
  <2> QED
    BY <2>1, <2>2, <2>3, ScriptAfterGoOn DEF OrderInv, Bare
<1>4. CASE PhaseIntent
  BY <1>4, OrderIsNat DEF PhaseIntent, PlatformAt, PlatformType, OrderInv, Bare, PrefixInv, ScriptInv, Complete, EarlierDone, Applies
<1>5. CASE PhaseComplete
  <2>1. replay' \in [Phases -> {"absent", "new", "intent", "complete"}] /\ GoOn(replay')
    BY <1>5 DEF PhaseComplete, PlatformType
  <2>2. platform.ph \in Phases /\ EarlierDone(platform.ph) /\ replay[platform.ph] = "intent"
    BY <1>5 DEF PhaseComplete, OrderInv, ScriptInv
  <2>3. replay' = [replay EXCEPT ![platform.ph] = "complete"]
    BY <1>5 DEF PhaseComplete
  <2>4. \A ph \in Phases : replay'[ph] # "absent"
    BY <2>2, <2>3 DEF OrderInv, Bare, PlatformType
  <2>5. PrefixInv'
    BY <2>2, <2>3, OrderIsNat DEF PlatformType, OrderInv, PrefixInv, Complete, EarlierDone
  <2> QED
    BY <2>1, <2>4, <2>5, ScriptAfterGoOn DEF OrderInv, Bare
<1>6. CASE PhaseApply
  BY <1>6 DEF PhaseApply, PlatformAt, PlatformType, OrderInv, Bare, PrefixInv, ScriptInv, Complete, EarlierDone, Applies
<1>7. CASE ApplyReturned
  BY <1>7 DEF ApplyReturned, PlatformAt, PlatformType, OrderInv, Bare, PrefixInv, ScriptInv, Complete, EarlierDone, Applies
<1>8. CASE PhaseTls
  BY <1>8 DEF PhaseTls, PlatformAt, PlatformType, OrderInv, Bare, PrefixInv, ScriptInv, Complete, EarlierDone, Applies
<1>9. CASE PhaseBuild
  BY <1>9 DEF PhaseBuild, PlatformAt, PlatformType, OrderInv, Bare, PrefixInv, ScriptInv, Complete, EarlierDone, Applies
<1>10. CASE PlatformFails
  BY <1>10 DEF PlatformFails, PlatformAt, PlatformType, OrderInv, Bare, PrefixInv, ScriptInv, Complete, EarlierDone, Applies
<1>11. CASE PlatformKilled
  BY <1>11 DEF PlatformKilled, PlatformAt, PlatformType, OrderInv, Bare, PrefixInv, ScriptInv, Complete, EarlierDone, Applies
<1>12. ASSUME NEW b \in Runners, \/ MonitorStart(b) \/ MonitorRefuses(b) \/ MonitorResumes(b)
                                  \/ MonitorStarted(b) \/ MonitorVerdict(b) \/ RetrySend(b)
                                  \/ RetryTerminal(b) \/ MonitorFails(b)
                                  \/ BuildSucceeds(b) \/ BuildFails(b)
        PROVE  OrderInv'
  <2>1. CASE MonitorStart(b)
    BY <2>1 DEF MonitorStart, MonitorAt, PlatformType, OrderInv, Bare, PrefixInv, ScriptInv, Complete, EarlierDone, Applies
  <2>2. CASE MonitorRefuses(b)
    BY <2>2 DEF MonitorRefuses, MonitorEnds, PlatformAt, Waits, PlatformType, OrderInv, Bare, PrefixInv, ScriptInv, Complete, EarlierDone, Applies
  <2>3. CASE MonitorResumes(b)
    BY <2>3 DEF MonitorResumes, MonitorAt, PlatformType, OrderInv, Bare, PrefixInv, ScriptInv, Complete, EarlierDone, Applies
  <2>4. CASE MonitorStarted(b)
    BY <2>4 DEF MonitorStarted, MonitorAt, PlatformType, OrderInv, Bare, PrefixInv, ScriptInv, Complete, EarlierDone, Applies
  <2>5. CASE MonitorVerdict(b)
    BY <2>5 DEF MonitorVerdict, MonitorEnds, PlatformAt, Waits, PlatformType, OrderInv, Bare, PrefixInv, ScriptInv, Complete, EarlierDone, Applies
  <2>6. CASE RetrySend(b)
    BY <2>6 DEF RetrySend, MonitorAt, PlatformType, OrderInv, Bare, PrefixInv, ScriptInv, Complete, EarlierDone, Applies
  <2>7. CASE RetryTerminal(b)
    BY <2>7 DEF RetryTerminal, PlatformType, OrderInv, Bare, PrefixInv, ScriptInv, Complete, EarlierDone, Applies
  <2>8. CASE MonitorFails(b)
    BY <2>8 DEF MonitorFails, MonitorEnds, PlatformAt, Waits, PlatformType, OrderInv, Bare, PrefixInv, ScriptInv, Complete, EarlierDone, Applies
  <2>9. CASE BuildSucceeds(b)
    BY <2>9 DEF BuildSucceeds, PlatformType, OrderInv, Bare, PrefixInv, ScriptInv, Complete, EarlierDone, Applies
  <2>10. CASE BuildFails(b)
    BY <2>10 DEF BuildFails, PlatformType, OrderInv, Bare, PrefixInv, ScriptInv, Complete, EarlierDone, Applies
  <2> QED
    BY <1>12, <2>1, <2>2, <2>3, <2>4, <2>5, <2>6, <2>7, <2>8, <2>9, <2>10
<1>13. ASSUME NEW request \in Phases, Land(request) PROVE OrderInv'
  BY <1>13 DEF Land, PlatformType, OrderInv, Bare, PrefixInv, ScriptInv, Complete, EarlierDone, Applies
<1> QED
  BY PlatformCases, <1>1, <1>2, <1>3, <1>4, <1>5, <1>6, <1>7, <1>8, <1>9, <1>10, <1>11, <1>12, <1>13


(* What the script does when a record is complete or made.                 *)
LEMMA GoesOn ==
  ASSUME PlatformType, PlatformVerified \/ PhaseComplete
  PROVE  /\ platform'.at \in {"phase", "ok"}
         /\ UNCHANGED <<handle, monitor, flight, cluster>>
<1>1. replay' \in [Phases -> {"absent", "new", "intent", "complete"}] /\ GoOn(replay')
  BY DEF PlatformVerified, PhaseComplete, PlatformType
<1>2. platform'.at \in {"phase", "ok"}
  BY <1>1, GoOnFirst DEF PlatformType
<1> QED
  BY <1>2 DEF PlatformVerified, PhaseComplete, PlatformType

LEMMA ApplyStep ==
  ASSUME PlatformType, OrderInv, ApplyInv, PlatformMove
  PROVE  ApplyInv'
<1>1. CASE PlatformBegin
  BY <1>1 DEF PlatformBegin, PlatformAt, PlatformType, PlatformLocked, ApplyInv, EarlierDone, Complete
<1>2. CASE PlatformLeft
  BY <1>2 DEF PlatformLeft, PlatformType, OrderInv, Bare, PrefixInv, ScriptInv, Complete, EarlierDone, ApplyInv, Applies
<1>3. CASE PlatformVerified
  BY <1>3, GoesOn DEF PlatformVerified, PlatformType, OrderInv, Bare, PrefixInv, ScriptInv, Complete, EarlierDone, ApplyInv, Applies
<1>4. CASE PhaseIntent
  BY <1>4, OrderIsNat DEF PhaseIntent, PlatformAt, PlatformType, OrderInv, Bare, PrefixInv, ScriptInv, Complete, EarlierDone, ApplyInv, Applies
<1>5. CASE PhaseComplete
  BY <1>5, GoesOn DEF PhaseComplete, PlatformType, OrderInv, Bare, PrefixInv, ScriptInv, Complete, EarlierDone, ApplyInv, Applies
<1>6. CASE PhaseApply
  BY <1>6 DEF PhaseApply, PlatformAt, PlatformType, OrderInv, Bare, PrefixInv, ScriptInv, Complete, EarlierDone, ApplyInv, Applies
<1>7. CASE ApplyReturned
  BY <1>7 DEF ApplyReturned, PlatformAt, PlatformType, OrderInv, Bare, PrefixInv, ScriptInv, Complete, EarlierDone, ApplyInv, Applies
<1>8. CASE PhaseTls
  BY <1>8 DEF PhaseTls, PlatformAt, PlatformType, OrderInv, Bare, PrefixInv, ScriptInv, Complete, EarlierDone, ApplyInv, Applies
<1>9. CASE PhaseBuild
  BY <1>9 DEF PhaseBuild, PlatformAt, PlatformType, OrderInv, Bare, PrefixInv, ScriptInv, Complete, EarlierDone, ApplyInv, Applies
<1>10. CASE PlatformFails
  BY <1>10 DEF PlatformFails, PlatformAt, PlatformType, OrderInv, Bare, PrefixInv, ScriptInv, Complete, EarlierDone, ApplyInv, Applies
<1>11. CASE PlatformKilled
  BY <1>11 DEF PlatformKilled, PlatformAt, PlatformType, OrderInv, Bare, PrefixInv, ScriptInv, Complete, EarlierDone, ApplyInv, Applies
<1>12. ASSUME NEW b \in Runners, \/ MonitorStart(b) \/ MonitorRefuses(b) \/ MonitorResumes(b)
                                  \/ MonitorStarted(b) \/ MonitorVerdict(b) \/ RetrySend(b)
                                  \/ RetryTerminal(b) \/ MonitorFails(b)
                                  \/ BuildSucceeds(b) \/ BuildFails(b)
        PROVE  ApplyInv'
  <2>1. CASE MonitorStart(b)
    BY <2>1, StartIsBuild DEF MonitorStart, MonitorAt, PlatformType, OrderInv, Bare, PrefixInv, ScriptInv, Complete, EarlierDone, ApplyInv, Applies
  <2>2. CASE MonitorRefuses(b)
    BY <2>2 DEF MonitorRefuses, MonitorEnds, PlatformAt, Waits, PlatformType, OrderInv, Bare, PrefixInv, ScriptInv, Complete, EarlierDone, ApplyInv, Applies
  <2>3. CASE MonitorResumes(b)
    BY <2>3 DEF MonitorResumes, MonitorAt, PlatformType, OrderInv, Bare, PrefixInv, ScriptInv, Complete, EarlierDone, ApplyInv, Applies
  <2>4. CASE MonitorStarted(b)
    BY <2>4 DEF MonitorStarted, MonitorAt, PlatformType, OrderInv, Bare, PrefixInv, ScriptInv, Complete, EarlierDone, ApplyInv, Applies
  <2>5. CASE MonitorVerdict(b)
    BY <2>5 DEF MonitorVerdict, MonitorEnds, PlatformAt, Waits, PlatformType, OrderInv, Bare, PrefixInv, ScriptInv, Complete, EarlierDone, ApplyInv, Applies
  <2>6. CASE RetrySend(b)
    BY <2>6, StartIsBuild DEF RetrySend, MonitorAt, PlatformType, OrderInv, Bare, PrefixInv, ScriptInv, Complete, EarlierDone, ApplyInv, Applies
  <2>7. CASE RetryTerminal(b)
    BY <2>7 DEF RetryTerminal, PlatformType, OrderInv, Bare, PrefixInv, ScriptInv, Complete, EarlierDone, ApplyInv, Applies
  <2>8. CASE MonitorFails(b)
    BY <2>8 DEF MonitorFails, MonitorEnds, PlatformAt, Waits, PlatformType, OrderInv, Bare, PrefixInv, ScriptInv, Complete, EarlierDone, ApplyInv, Applies
  <2>9. CASE BuildSucceeds(b)
    BY <2>9 DEF BuildSucceeds, PlatformType, OrderInv, Bare, PrefixInv, ScriptInv, Complete, EarlierDone, ApplyInv, Applies
  <2>10. CASE BuildFails(b)
    BY <2>10 DEF BuildFails, PlatformType, OrderInv, Bare, PrefixInv, ScriptInv, Complete, EarlierDone, ApplyInv, Applies
  <2> QED
    BY <1>12, <2>1, <2>2, <2>3, <2>4, <2>5, <2>6, <2>7, <2>8, <2>9, <2>10
<1>13. ASSUME NEW request \in Phases, Land(request) PROVE ApplyInv'
  BY <1>13 DEF Land, PlatformType, OrderInv, Bare, PrefixInv, ScriptInv, Complete, EarlierDone, ApplyInv, Applies
<1> QED
  BY PlatformCases, <1>1, <1>2, <1>3, <1>4, <1>5, <1>6, <1>7, <1>8, <1>9, <1>10, <1>11, <1>12, <1>13


(* What is recorded as complete stays so.                                  *)
LEMMA CompleteKept ==
  ASSUME PlatformType, OrderInv, PlatformMove, NEW ph \in Phases, Complete(ph)
  PROVE  Complete(ph)'
<1>1. CASE PlatformBegin
  BY <1>1 DEF PlatformBegin, PlatformAt, Complete
<1>2. CASE PlatformLeft
  BY <1>2 DEF PlatformLeft, Complete
<1>3. CASE PlatformVerified
  BY <1>3 DEF PlatformVerified, Complete, Initialized, OrderInv, Bare, Phases
<1>4. CASE PhaseIntent
  BY <1>4 DEF PhaseIntent, PlatformAt, Complete, OrderInv, ScriptInv, PlatformType
<1>5. CASE PhaseComplete
  BY <1>5 DEF PhaseComplete, Complete
<1>6. CASE PhaseApply
  BY <1>6 DEF PhaseApply, PlatformAt, Complete
<1>7. CASE ApplyReturned
  BY <1>7 DEF ApplyReturned, PlatformAt, Complete
<1>8. CASE PhaseTls
  BY <1>8 DEF PhaseTls, PlatformAt, Complete
<1>9. CASE PhaseBuild
  BY <1>9 DEF PhaseBuild, PlatformAt, Complete
<1>10. CASE PlatformFails
  BY <1>10 DEF PlatformFails, PlatformAt, Complete
<1>11. CASE PlatformKilled
  BY <1>11 DEF PlatformKilled, PlatformAt, Complete
<1>12. ASSUME NEW b \in Runners, \/ MonitorStart(b) \/ MonitorRefuses(b) \/ MonitorResumes(b)
                                  \/ MonitorStarted(b) \/ MonitorVerdict(b) \/ RetrySend(b)
                                  \/ RetryTerminal(b) \/ MonitorFails(b)
                                  \/ BuildSucceeds(b) \/ BuildFails(b)
        PROVE  Complete(ph)'
  <2>1. CASE MonitorStart(b)
    BY <2>1 DEF MonitorStart, MonitorAt, Complete
  <2>2. CASE MonitorRefuses(b)
    BY <2>2 DEF MonitorRefuses, MonitorEnds, PlatformAt, Waits, Complete
  <2>3. CASE MonitorResumes(b)
    BY <2>3 DEF MonitorResumes, MonitorAt, Complete
  <2>4. CASE MonitorStarted(b)
    BY <2>4 DEF MonitorStarted, MonitorAt, Complete
  <2>5. CASE MonitorVerdict(b)
    BY <2>5 DEF MonitorVerdict, MonitorEnds, PlatformAt, Waits, Complete
  <2>6. CASE RetrySend(b)
    BY <2>6 DEF RetrySend, MonitorAt, Complete
  <2>7. CASE RetryTerminal(b)
    BY <2>7 DEF RetryTerminal, Complete
  <2>8. CASE MonitorFails(b)
    BY <2>8 DEF MonitorFails, MonitorEnds, PlatformAt, Waits, Complete
  <2>9. CASE BuildSucceeds(b)
    BY <2>9 DEF BuildSucceeds, Complete
  <2>10. CASE BuildFails(b)
    BY <2>10 DEF BuildFails, Complete
  <2> QED
    BY <1>12, <2>1, <2>2, <2>3, <2>4, <2>5, <2>6, <2>7, <2>8, <2>9, <2>10
<1>13. ASSUME NEW request \in Phases, Land(request) PROVE Complete(ph)'
  BY <1>13 DEF Land, Complete
<1> QED
  BY PlatformCases, <1>1, <1>2, <1>3, <1>4, <1>5, <1>6, <1>7, <1>8, <1>9, <1>10, <1>11, <1>12, <1>13


LEMMA HandleStep ==
  ASSUME PlatformType, NEW r \in Runners, HandleInv(r), PlatformMove
  PROVE  HandleInv(r)'
<1>1. CASE PlatformBegin
  BY <1>1 DEF PlatformBegin, PlatformAt, PlatformType, HandleInv
<1>2. CASE PlatformLeft
  BY <1>2 DEF PlatformLeft, PlatformType, HandleInv
<1>3. CASE PlatformVerified
  BY <1>3 DEF PlatformVerified, PlatformType, HandleInv
<1>4. CASE PhaseIntent
  BY <1>4 DEF PhaseIntent, PlatformAt, PlatformType, HandleInv
<1>5. CASE PhaseComplete
  BY <1>5 DEF PhaseComplete, PlatformType, HandleInv
<1>6. CASE PhaseApply
  BY <1>6, StartIsBuild DEF PhaseApply, PlatformAt, PlatformType, HandleInv
<1>7. CASE ApplyReturned
  BY <1>7 DEF ApplyReturned, PlatformAt, PlatformType, HandleInv
<1>8. CASE PhaseTls
  BY <1>8 DEF PhaseTls, PlatformAt, PlatformType, HandleInv
<1>9. CASE PhaseBuild
  BY <1>9 DEF PhaseBuild, PlatformAt, PlatformType, HandleInv
<1>10. CASE PlatformFails
  BY <1>10 DEF PlatformFails, PlatformAt, PlatformType, HandleInv
<1>11. CASE PlatformKilled
  BY <1>11 DEF PlatformKilled, PlatformAt, PlatformType, HandleInv
<1>12. ASSUME NEW b \in Runners, \/ MonitorStart(b) \/ MonitorRefuses(b) \/ MonitorResumes(b)
                                  \/ MonitorStarted(b) \/ MonitorVerdict(b) \/ RetrySend(b)
                                  \/ RetryTerminal(b) \/ MonitorFails(b)
                                  \/ BuildSucceeds(b) \/ BuildFails(b)
        PROVE  HandleInv(r)'
  <2>1. CASE MonitorStart(b)
    BY <2>1, StartIsBuild DEF MonitorStart, MonitorAt, PlatformType, HandleInv
  <2>2. CASE MonitorRefuses(b)
    BY <2>2 DEF MonitorRefuses, MonitorEnds, PlatformAt, Waits, PlatformType, HandleInv
  <2>3. CASE MonitorResumes(b)
    BY <2>3 DEF MonitorResumes, MonitorAt, PlatformType, HandleInv
  <2>4. CASE MonitorStarted(b)
    BY <2>4 DEF MonitorStarted, MonitorAt, PlatformType, HandleInv
  <2>5. CASE MonitorVerdict(b)
    BY <2>5 DEF MonitorVerdict, MonitorEnds, PlatformAt, Waits, PlatformType, HandleInv
  <2>6. CASE RetrySend(b)
    BY <2>6, StartIsBuild DEF RetrySend, MonitorAt, PlatformType, HandleInv
  <2>7. CASE RetryTerminal(b)
    BY <2>7 DEF RetryTerminal, PlatformType, HandleInv
  <2>8. CASE MonitorFails(b)
    BY <2>8 DEF MonitorFails, MonitorEnds, PlatformAt, Waits, PlatformType, HandleInv
  <2>9. CASE BuildSucceeds(b)
    BY <2>9 DEF BuildSucceeds, PlatformType, HandleInv
  <2>10. CASE BuildFails(b)
    BY <2>10 DEF BuildFails, PlatformType, HandleInv
  <2> QED
    BY <1>12, <2>1, <2>2, <2>3, <2>4, <2>5, <2>6, <2>7, <2>8, <2>9, <2>10
<1>13. ASSUME NEW request \in Phases, Land(request) PROVE HandleInv(r)'
  <2>1. CASE request = StartOf[r]
    <3>1. cluster' = [cluster EXCEPT !.build[r] = "running"] /\ flight' = flight \ {StartOf[r]}
      BY <1>13, <2>1, StartIsBuild DEF Land, Applies
    <3>2. handle[r] = "start-intent" /\ cluster.build[r] \in {"none", "failed"} /\ StartOf[r] \in flight
      BY <1>13, <2>1 DEF Land, HandleInv
    <3>3. cluster'.build[r] = "running"
      BY <3>1 DEF PlatformType
    <3> QED
      BY <1>13, <3>1, <3>2, <3>3 DEF Land, HandleInv
  <2>2. CASE request # StartOf[r]
    <3>1. cluster'.build[r] = cluster.build[r]
      <4>1. CASE request \in Applies
        BY <1>13, <4>1 DEF Land, PlatformType
      <4>2. CASE request \notin Applies
        <5>1. request \in {"argocd_build", "vault_build"}
          BY <1>13, <4>2 DEF Land, PlatformType, Phases, Applies
        <5>2. Runner[request] \in Runners /\ Runner[request] # r
          BY <2>2, <5>1 DEF Runner, Runners, StartOf
        <5>3. cluster' = [cluster EXCEPT !.build[Runner[request]] = "running"]
          BY <1>13, <4>2 DEF Land, Applies
        <5> QED
          BY <5>2, <5>3 DEF PlatformType
      <4> QED
        BY <4>1, <4>2
    <3> QED
      BY <1>13, <3>1 DEF Land, HandleInv
  <2> QED
    BY <2>1, <2>2
<1> QED
  BY PlatformCases, <1>1, <1>2, <1>3, <1>4, <1>5, <1>6, <1>7, <1>8, <1>9, <1>10, <1>11, <1>12, <1>13

(* A build is taken up only by the script, in its phase.                   *)
Touched(r) ==
  handle'[r] # "none" \/ monitor'[r].at # "idle" =>
    handle[r] # "none" \/ monitor[r].at # "idle" \/ (platform.at = "act" /\ platform.ph = StartOf[r])
LEMMA Touches ==
  ASSUME PlatformType, OrderInv, NEW r \in Runners, PlatformMove
  PROVE  Touched(r)
<1>1. CASE PlatformBegin
  BY <1>1 DEF PlatformBegin, PlatformAt, PlatformType, Touched
<1>2. CASE PlatformLeft
  BY <1>2 DEF PlatformLeft, PlatformType, Touched
<1>3. CASE PlatformVerified
  BY <1>3 DEF PlatformVerified, PlatformType, Touched
<1>4. CASE PhaseIntent
  BY <1>4 DEF PhaseIntent, PlatformAt, PlatformType, Touched
<1>5. CASE PhaseComplete
  BY <1>5 DEF PhaseComplete, PlatformType, Touched
<1>6. CASE PhaseApply
  BY <1>6 DEF PhaseApply, PlatformAt, PlatformType, Touched
<1>7. CASE ApplyReturned
  BY <1>7 DEF ApplyReturned, PlatformAt, PlatformType, Touched
<1>8. CASE PhaseTls
  BY <1>8 DEF PhaseTls, PlatformAt, PlatformType, Touched
<1>9. CASE PhaseBuild
  <2>1. Runner[platform.ph] = r => platform.ph = StartOf[r]
    BY <1>9 DEF PhaseBuild, Runner, StartOf
  <2>2. UNCHANGED handle /\ (monitor'[r] = monitor[r] \/ Runner[platform.ph] = r)
    BY <1>9 DEF PhaseBuild, PlatformType
  <2> QED
    BY <1>9, <2>1, <2>2 DEF PhaseBuild, Touched
<1>10. CASE PlatformFails
  BY <1>10 DEF PlatformFails, PlatformAt, PlatformType, Touched
<1>11. CASE PlatformKilled
  BY <1>11 DEF PlatformKilled, PlatformAt, PlatformType, Touched
<1>12. ASSUME NEW b \in Runners, \/ MonitorStart(b) \/ MonitorRefuses(b) \/ MonitorResumes(b)
                                  \/ MonitorStarted(b) \/ MonitorVerdict(b) \/ RetrySend(b)
                                  \/ RetryTerminal(b) \/ MonitorFails(b)
                                  \/ BuildSucceeds(b) \/ BuildFails(b)
        PROVE  Touched(r)
  <2>1. CASE MonitorStart(b)
    BY <2>1 DEF MonitorStart, MonitorAt, PlatformType, Touched
  <2>2. CASE MonitorRefuses(b)
    BY <2>2 DEF MonitorRefuses, MonitorEnds, PlatformAt, Waits, PlatformType, Touched
  <2>3. CASE MonitorResumes(b)
    BY <2>3 DEF MonitorResumes, MonitorAt, PlatformType, Touched
  <2>4. CASE MonitorStarted(b)
    BY <2>4 DEF MonitorStarted, MonitorAt, PlatformType, Touched
  <2>5. CASE MonitorVerdict(b)
    BY <2>5 DEF MonitorVerdict, MonitorEnds, PlatformAt, Waits, PlatformType, Touched
  <2>6. CASE RetrySend(b)
    BY <2>6 DEF RetrySend, MonitorAt, PlatformType, Touched
  <2>7. CASE RetryTerminal(b)
    BY <2>7 DEF RetryTerminal, PlatformType, Touched
  <2>8. CASE MonitorFails(b)
    BY <2>8 DEF MonitorFails, MonitorEnds, PlatformAt, Waits, PlatformType, Touched
  <2>9. CASE BuildSucceeds(b)
    BY <2>9 DEF BuildSucceeds, PlatformType, Touched
  <2>10. CASE BuildFails(b)
    BY <2>10 DEF BuildFails, PlatformType, Touched
  <2> QED
    BY <1>12, <2>1, <2>2, <2>3, <2>4, <2>5, <2>6, <2>7, <2>8, <2>9, <2>10
<1>13. ASSUME NEW request \in Phases, Land(request) PROVE Touched(r)
  BY <1>13 DEF Land, PlatformType, Touched
<1> QED
  BY PlatformCases, <1>1, <1>2, <1>3, <1>4, <1>5, <1>6, <1>7, <1>8, <1>9, <1>10, <1>11, <1>12, <1>13

LEMMA AfterApplyStep ==
  ASSUME PlatformType, OrderInv, NEW r \in Runners, AfterApply(r), PlatformMove
  PROVE  AfterApply(r)'
<1>1. ApplyOf[r] \in Phases /\ Order[ApplyOf[r]] < Order[StartOf[r]]
  BY DEF ApplyOf, StartOf, Runners, Phases, Order
<1>2. Complete(ApplyOf[r]) => Complete(ApplyOf[r])'
  BY <1>1, CompleteKept
<1>3. platform.at = "act" /\ platform.ph = StartOf[r] => Complete(ApplyOf[r])
  BY <1>1 DEF OrderInv, ScriptInv, EarlierDone
<1> QED
  BY <1>2, <1>3, Touches DEF AfterApply, Touched

(* The checkpoint's first write records nothing as complete.               *)
LEMMA FirstRecord ==
  ASSUME PlatformVerified, OrderInv, NEW ph \in Phases, Complete(ph)'
  PROVE  Complete(ph)
BY DEF PlatformVerified, Complete, Initialized, OrderInv, Bare, Phases

(* A build that has succeeded is never started anew.                       *)
LEMMA HandleKept ==
  ASSUME PlatformType, BuildInv, NEW r \in Runners, handle[r] = "succeeded", PlatformMove
  PROVE  handle'[r] = "succeeded"
<1>1. CASE PlatformBegin
  BY <1>1 DEF PlatformBegin, PlatformAt, PlatformType, BuildInv, HandleInv
<1>2. CASE PlatformLeft
  BY <1>2 DEF PlatformLeft, PlatformType, BuildInv, HandleInv
<1>3. CASE PlatformVerified
  BY <1>3 DEF PlatformVerified, PlatformType, BuildInv, HandleInv
<1>4. CASE PhaseIntent
  BY <1>4 DEF PhaseIntent, PlatformAt, PlatformType, BuildInv, HandleInv
<1>5. CASE PhaseComplete
  BY <1>5 DEF PhaseComplete, PlatformType, BuildInv, HandleInv
<1>6. CASE PhaseApply
  BY <1>6 DEF PhaseApply, PlatformAt, PlatformType, BuildInv, HandleInv
<1>7. CASE ApplyReturned
  BY <1>7 DEF ApplyReturned, PlatformAt, PlatformType, BuildInv, HandleInv
<1>8. CASE PhaseTls
  BY <1>8 DEF PhaseTls, PlatformAt, PlatformType, BuildInv, HandleInv
<1>9. CASE PhaseBuild
  BY <1>9 DEF PhaseBuild, PlatformAt, PlatformType, BuildInv, HandleInv
<1>10. CASE PlatformFails
  BY <1>10 DEF PlatformFails, PlatformAt, PlatformType, BuildInv, HandleInv
<1>11. CASE PlatformKilled
  BY <1>11 DEF PlatformKilled, PlatformAt, PlatformType, BuildInv, HandleInv
<1>12. ASSUME NEW b \in Runners, \/ MonitorStart(b) \/ MonitorRefuses(b) \/ MonitorResumes(b)
                                  \/ MonitorStarted(b) \/ MonitorVerdict(b) \/ RetrySend(b)
                                  \/ RetryTerminal(b) \/ MonitorFails(b)
                                  \/ BuildSucceeds(b) \/ BuildFails(b)
        PROVE  handle'[r] = "succeeded"
  <2>1. CASE MonitorStart(b)
    BY <2>1 DEF MonitorStart, MonitorAt, PlatformType, BuildInv, HandleInv
  <2>2. CASE MonitorRefuses(b)
    BY <2>2 DEF MonitorRefuses, MonitorEnds, PlatformAt, Waits, PlatformType, BuildInv, HandleInv
  <2>3. CASE MonitorResumes(b)
    BY <2>3 DEF MonitorResumes, MonitorAt, PlatformType, BuildInv, HandleInv
  <2>4. CASE MonitorStarted(b)
    BY <2>4 DEF MonitorStarted, MonitorAt, PlatformType, BuildInv, HandleInv
  <2>5. CASE MonitorVerdict(b)
    BY <2>5 DEF MonitorVerdict, MonitorEnds, PlatformAt, Waits, PlatformType, BuildInv, HandleInv
  <2>6. CASE RetrySend(b)
    BY <2>6 DEF RetrySend, MonitorAt, PlatformType, BuildInv, HandleInv
  <2>7. CASE RetryTerminal(b)
    BY <2>7 DEF RetryTerminal, PlatformType, BuildInv, HandleInv
  <2>8. CASE MonitorFails(b)
    BY <2>8 DEF MonitorFails, MonitorEnds, PlatformAt, Waits, PlatformType, BuildInv, HandleInv
  <2>9. CASE BuildSucceeds(b)
    BY <2>9 DEF BuildSucceeds, PlatformType, BuildInv, HandleInv
  <2>10. CASE BuildFails(b)
    BY <2>10 DEF BuildFails, PlatformType, BuildInv, HandleInv
  <2> QED
    BY <1>12, <2>1, <2>2, <2>3, <2>4, <2>5, <2>6, <2>7, <2>8, <2>9, <2>10
<1>13. ASSUME NEW request \in Phases, Land(request) PROVE handle'[r] = "succeeded"
  BY <1>13 DEF Land, PlatformType, BuildInv, HandleInv
<1> QED
  BY PlatformCases, <1>1, <1>2, <1>3, <1>4, <1>5, <1>6, <1>7, <1>8, <1>9, <1>10, <1>11, <1>12, <1>13


LEMMA GrantChange ==
  ASSUME PlatformType, PlatformMove
  PROVE  cluster'.granted = cluster.granted \/ \E f \in flight \cap Applies : Land(f)
<1>1. CASE PlatformBegin
  BY <1>1 DEF PlatformBegin, PlatformAt, PlatformType
<1>2. CASE PlatformLeft
  BY <1>2 DEF PlatformLeft, PlatformType
<1>3. CASE PlatformVerified
  BY <1>3 DEF PlatformVerified, PlatformType
<1>4. CASE PhaseIntent
  BY <1>4 DEF PhaseIntent, PlatformAt, PlatformType
<1>5. CASE PhaseComplete
  BY <1>5 DEF PhaseComplete, PlatformType
<1>6. CASE PhaseApply
  BY <1>6 DEF PhaseApply, PlatformAt, PlatformType
<1>7. CASE ApplyReturned
  BY <1>7 DEF ApplyReturned, PlatformAt, PlatformType
<1>8. CASE PhaseTls
  BY <1>8 DEF PhaseTls, PlatformAt, PlatformType
<1>9. CASE PhaseBuild
  BY <1>9 DEF PhaseBuild, PlatformAt, PlatformType
<1>10. CASE PlatformFails
  BY <1>10 DEF PlatformFails, PlatformAt, PlatformType
<1>11. CASE PlatformKilled
  BY <1>11 DEF PlatformKilled, PlatformAt, PlatformType
<1>12. ASSUME NEW b \in Runners, \/ MonitorStart(b) \/ MonitorRefuses(b) \/ MonitorResumes(b)
                                  \/ MonitorStarted(b) \/ MonitorVerdict(b) \/ RetrySend(b)
                                  \/ RetryTerminal(b) \/ MonitorFails(b)
                                  \/ BuildSucceeds(b) \/ BuildFails(b)
        PROVE  cluster'.granted = cluster.granted \/ \E f \in flight \cap Applies : Land(f)
  <2>1. CASE MonitorStart(b)
    BY <2>1 DEF MonitorStart, MonitorAt, PlatformType
  <2>2. CASE MonitorRefuses(b)
    BY <2>2 DEF MonitorRefuses, MonitorEnds, PlatformAt, Waits, PlatformType
  <2>3. CASE MonitorResumes(b)
    BY <2>3 DEF MonitorResumes, MonitorAt, PlatformType
  <2>4. CASE MonitorStarted(b)
    BY <2>4 DEF MonitorStarted, MonitorAt, PlatformType
  <2>5. CASE MonitorVerdict(b)
    BY <2>5 DEF MonitorVerdict, MonitorEnds, PlatformAt, Waits, PlatformType
  <2>6. CASE RetrySend(b)
    BY <2>6 DEF RetrySend, MonitorAt, PlatformType
  <2>7. CASE RetryTerminal(b)
    BY <2>7 DEF RetryTerminal, PlatformType
  <2>8. CASE MonitorFails(b)
    BY <2>8 DEF MonitorFails, MonitorEnds, PlatformAt, Waits, PlatformType
  <2>9. CASE BuildSucceeds(b)
    BY <2>9 DEF BuildSucceeds, PlatformType
  <2>10. CASE BuildFails(b)
    BY <2>10 DEF BuildFails, PlatformType
  <2> QED
    BY <1>12, <2>1, <2>2, <2>3, <2>4, <2>5, <2>6, <2>7, <2>8, <2>9, <2>10
<1>13. ASSUME NEW request \in Phases, Land(request) PROVE cluster'.granted = cluster.granted \/ \E f \in flight \cap Applies : Land(f)
  <2>1. CASE request \notin Applies
    <3>1. cluster' = [cluster EXCEPT !.build[Runner[request]] = "running"]
      BY <1>13, <2>1 DEF Land, Applies
    <3> QED
      BY <3>1 DEF PlatformType
  <2>2. CASE request \in Applies
    BY <1>13, <2>2 DEF Land
  <2> QED
    BY <2>1, <2>2
<1> QED
  BY PlatformCases, <1>1, <1>2, <1>3, <1>4, <1>5, <1>6, <1>7, <1>8, <1>9, <1>10, <1>11, <1>12, <1>13


(* An effect that a phase relies on stays.                                 *)
LEMMA EffectKept ==
  ASSUME PlatformType, OrderInv, ApplyInv, BuildInv, PlatformMove,
         NEW ph \in Phases, EarlierDone(ph), Effect(ph)
  PROVE  Effect(ph)'
<1>1. "vault_build" \in Phases /\ "argocd" \in Runners /\ "vault" \in Runners
  BY DEF Phases, Runners
<1>2. Complete("vault_build") => Complete("vault_build")'
  BY <1>1, CompleteKept
<1>3. \A r \in Runners : handle[r] = "succeeded" => handle'[r] = "succeeded"
  BY HandleKept
<1>4. CASE cluster'.granted = cluster.granted
  BY <1>1, <1>2, <1>3, <1>4 DEF Effect
<1>5. CASE \E f \in flight \cap Applies : Land(f)
  <2>1. PICK f \in flight \cap Applies : Land(f)
    BY <1>5
  <2>2. f \in Phases /\ EarlierDone(f) /\ ~Complete(f)
    BY <2>1 DEF ApplyInv, Applies, Phases, Complete
  <2>3. CASE f = "revoke_complete"
    <3>1. cluster'.granted = {}
      BY <2>1, <2>3 DEF Land, PlatformType
    <3>2. Complete("vault_build")
      BY <2>2, <2>3, <1>1 DEF EarlierDone, Order
    <3> QED
      BY <1>1, <1>2, <1>3, <3>1, <3>2 DEF Effect
  <2>4. CASE f # "revoke_complete"
    <3>1. cluster.granted \subseteq cluster'.granted
      BY <2>1, <2>4 DEF Land, PlatformType
    <3>2. Order[f] < Order["revoke_complete"]
      BY <2>1, <2>4 DEF Applies, Order
    <3>3. ph # "revoke_complete"
      BY <2>2, <3>2 DEF EarlierDone
    <3> QED
      BY <1>1, <1>2, <1>3, <3>1, <3>3 DEF Effect
  <2> QED
    BY <2>3, <2>4
<1> QED
  BY <1>4, <1>5, GrantChange

(* A phase comes to rely on an effect only when it is there.               *)
LEMMA EffectGained ==
  ASSUME PlatformType, OrderInv, EffectInv, NEW ph \in Phases, Owed(ph)', PlatformMove
  PROVE  Owed(ph) \/ Effect(ph)'
<1>1. CASE PlatformBegin
  BY <1>1 DEF PlatformBegin, PlatformAt, PlatformType, Owed, Complete
<1>2. CASE PlatformLeft
  BY <1>2 DEF PlatformLeft, PlatformType, Owed, Complete
<1>3. CASE PlatformVerified
  BY <1>3, GoesOn, FirstRecord DEF Owed
<1>4. CASE PhaseIntent
  BY <1>4 DEF PhaseIntent, PlatformAt, PlatformType, Owed, Complete
<1>5. CASE PhaseComplete
  <2>1. platform'.at \in {"phase", "ok"} /\ UNCHANGED <<handle, flight, cluster>>
    BY <1>5, GoesOn
  <2>2. Complete(ph)'
    BY <2>1 DEF Owed
  <2>3. CASE ph = platform.ph
    BY <1>5, <2>3 DEF PhaseComplete, Owed
  <2>4. CASE ph # platform.ph
    BY <1>5, <2>2, <2>4 DEF PhaseComplete, Owed, Complete, PlatformType
  <2> QED
    BY <2>3, <2>4
<1>6. CASE PhaseApply
  BY <1>6 DEF PhaseApply, PlatformAt, PlatformType, Owed, Complete
<1>7. CASE ApplyReturned
  BY <1>7 DEF ApplyReturned, PlatformAt, PlatformType, Owed, Complete
<1>8. CASE PhaseTls
  BY <1>8 DEF PhaseTls, PlatformAt, PlatformType, Owed, Complete, Effect
<1>9. CASE PhaseBuild
  BY <1>9 DEF PhaseBuild, PlatformAt, PlatformType, Owed, Complete
<1>10. CASE PlatformFails
  BY <1>10 DEF PlatformFails, PlatformAt, PlatformType, Owed, Complete
<1>11. CASE PlatformKilled
  BY <1>11 DEF PlatformKilled, PlatformAt, PlatformType, Owed, Complete
<1>12. ASSUME NEW b \in Runners, \/ MonitorStart(b) \/ MonitorRefuses(b) \/ MonitorResumes(b)
                                  \/ MonitorStarted(b) \/ MonitorVerdict(b) \/ RetrySend(b)
                                  \/ RetryTerminal(b) \/ MonitorFails(b)
                                  \/ BuildSucceeds(b) \/ BuildFails(b)
        PROVE  Owed(ph) \/ Effect(ph)'
  <2>1. CASE MonitorStart(b)
    BY <2>1 DEF MonitorStart, MonitorAt, PlatformType, Owed, Complete
  <2>2. CASE MonitorRefuses(b)
    BY <2>2 DEF MonitorRefuses, MonitorEnds, PlatformAt, Waits, PlatformType, Owed, Complete
  <2>3. CASE MonitorResumes(b)
    BY <2>3 DEF MonitorResumes, MonitorAt, PlatformType, Owed, Complete
  <2>4. CASE MonitorStarted(b)
    BY <2>4 DEF MonitorStarted, MonitorAt, PlatformType, Owed, Complete
  <2>5. CASE MonitorVerdict(b)
    <3>1. CASE Waits(b) /\ cluster.build[b] = "succeeded" /\ ph = platform.ph
      <4>1. ph \in {"argocd_build", "vault_build"} /\ handle'[b] = "succeeded"
        BY <2>5, <3>1 DEF MonitorVerdict, Waits, OrderInv, ScriptInv, PlatformType
      <4> QED
        BY <3>1, <4>1 DEF Effect, Waits, Runner
    <3>2. CASE ~(Waits(b) /\ cluster.build[b] = "succeeded" /\ ph = platform.ph)
      BY <2>5, <3>2 DEF MonitorVerdict, MonitorEnds, PlatformAt, PlatformType, Owed, Complete
    <3> QED
      BY <3>1, <3>2
  <2>6. CASE RetrySend(b)
    BY <2>6 DEF RetrySend, MonitorAt, PlatformType, Owed, Complete
  <2>7. CASE RetryTerminal(b)
    BY <2>7 DEF RetryTerminal, PlatformType, Owed, Complete
  <2>8. CASE MonitorFails(b)
    <3>1. \A f \in Applies : f \in flight' <=> f \in flight
      BY <2>8, StartIsBuild DEF MonitorFails
    <3>2. platform'.ph = platform.ph /\ (platform'.at = platform.at \/ platform'.at = "failed")
      BY <2>8 DEF MonitorFails, MonitorEnds, PlatformAt, PlatformType
    <3>3. platform.at = "applying" => platform.ph \in Applies
      BY DEF OrderInv, ScriptInv
    <3> QED
      BY <2>8, <3>1, <3>2, <3>3 DEF MonitorFails, Owed, Complete
  <2>9. CASE BuildSucceeds(b)
    BY <2>9 DEF BuildSucceeds, PlatformType, Owed, Complete
  <2>10. CASE BuildFails(b)
    BY <2>10 DEF BuildFails, PlatformType, Owed, Complete
  <2> QED
    BY <1>12, <2>1, <2>2, <2>3, <2>4, <2>5, <2>6, <2>7, <2>8, <2>9, <2>10
<1>13. ASSUME NEW request \in Phases, Land(request) PROVE Owed(ph) \/ Effect(ph)'
  <2>1. CASE ph = request /\ platform.ph = ph /\ platform.at = "applying"
    <3>1. ph \in Applies
      BY <2>1 DEF OrderInv, ScriptInv
    <3>2. \/ ph = "revoke_complete" /\ cluster'.granted = {}
          \/ ph \in {"argocd_apply", "vault_apply"} /\ Runner[ph] \in cluster'.granted
      BY <1>13, <2>1, <3>1 DEF Land, Applies, PlatformType
    <3> QED
      BY <3>2 DEF Effect, Runner
  <2>2. CASE ~(ph = request /\ platform.ph = ph /\ platform.at = "applying")
    BY <1>13, <2>2 DEF Land, PlatformType, Owed, Complete
  <2> QED
    BY <2>1, <2>2
<1> QED
  BY PlatformCases, <1>1, <1>2, <1>3, <1>4, <1>5, <1>6, <1>7, <1>8, <1>9, <1>10, <1>11, <1>12, <1>13


LEMMA EffectStep ==
  ASSUME PlatformType, OrderInv, ApplyInv, EffectInv, BuildInv, PlatformMove
  PROVE  EffectInv'
<1> SUFFICES ASSUME NEW ph \in Phases, Owed(ph)' PROVE Effect(ph)'
  BY DEF EffectInv
<1>1. CASE Owed(ph)
  <2>1. EarlierDone(ph)
    BY <1>1 DEF Owed, OrderInv, PrefixInv, ScriptInv
  <2> QED
    BY <1>1, <2>1, EffectKept DEF EffectInv
<1> QED
  BY <1>1, EffectGained

-----------------------------------------------------------------------------
(* What follows from the platform's invariant.                             *)

LEMMA PlatformInitInv == PlatformInit => PlatformInv
<1> SUFFICES ASSUME PlatformInit PROVE PlatformInv
  OBVIOUS
<1>1. PlatformType
  BY DEF PlatformInit, PlatformType, Phases, Runners
<1>2. OrderInv
  BY DEF PlatformInit, OrderInv, Bare, PrefixInv, ScriptInv, Complete
<1>3. ApplyInv
  BY DEF PlatformInit, ApplyInv
<1>4. EffectInv
  BY DEF PlatformInit, EffectInv, Owed, Complete
<1>5. BuildInv
  BY DEF PlatformInit, BuildInv, AfterApply, HandleInv
<1> QED
  BY <1>1, <1>2, <1>3, <1>4, <1>5 DEF PlatformInv

LEMMA PlatformInvStep == PlatformInv /\ PlatformMove => PlatformInv'
<1> SUFFICES ASSUME PlatformInv, PlatformMove PROVE PlatformInv'
  OBVIOUS
<1> USE DEF PlatformInv
<1>1. PlatformType'
  BY PlatformTypeStep
<1>2. OrderInv'
  BY OrderStep
<1>3. ApplyInv'
  BY ApplyStep
<1>4. EffectInv'
  BY EffectStep
<1>5. BuildInv'
  BY HandleStep, AfterApplyStep DEF BuildInv
<1> QED
  BY <1>1, <1>2, <1>3, <1>4, <1>5

(* The invariant is about the platform's variables only.                   *)
LEMMA PlatformInvStutter == PlatformInv /\ UNCHANGED platformVars => PlatformInv'
BY DEF platformVars, PlatformInv, PlatformType, OrderInv, Bare, PrefixInv, ScriptInv, ApplyInv,
       EffectInv, Owed, Effect, BuildInv, AfterApply, HandleInv, Complete, EarlierDone

LEMMA PhaseFacts ==
  /\ Phases = {"argocd_apply", "argocd_build", "tls_ready", "vault_apply", "vault_build",
               "revoke_complete"}
  /\ Order["argocd_apply"] < Order["vault_build"] /\ Order["argocd_build"] < Order["vault_build"]
  /\ \A ph \in Phases : Order[ph] < Order["revoke_complete"] \/ ph = "revoke_complete"
BY DEF Phases, Order

(* A build that can still start, or runs, finds its runner's authority.    *)
LEMMA CoverageOfPlatform == PlatformInv => RunnerCoversBuild
<1> SUFFICES ASSUME PlatformInv, NEW b \in Runners,
                    StartOf[b] \in flight \/ cluster.build[b] = "running"
             PROVE  b \in cluster.granted
  BY DEF RunnerCoversBuild
<1>1. handle[b] \notin {"none", "succeeded"} /\ Complete(ApplyOf[b])
  BY DEF PlatformInv, BuildInv, HandleInv, AfterApply
<1>2. ~Complete("vault_build")
  <2>1. b = "argocd" => ~Complete("argocd_build")
    BY <1>1, PhaseFacts DEF PlatformInv, EffectInv, Owed, Effect
  <2>2. b = "vault" => ~Complete("vault_build")
    BY <1>1, PhaseFacts DEF PlatformInv, EffectInv, Owed, Effect
  <2> QED
    BY <2>1, <2>2, PhaseFacts DEF Runners, PlatformInv, OrderInv, PrefixInv, EarlierDone
<1>3. Effect(ApplyOf[b])
  BY <1>1, PhaseFacts DEF ApplyOf, Runners, PlatformInv, EffectInv, Owed
<1> QED
  BY <1>2, <1>3 DEF ApplyOf, Runners, Effect

(* Once the authority is recorded as revoked, nothing of the platform is   *)
(* under way.                                                              *)
LEMMA PlatformTrue ==
  ASSUME PlatformInv, Complete("revoke_complete")
  PROVE  /\ \A b \in Runners : cluster.build[b] = "succeeded"
         /\ cluster.granted = {} /\ flight = {}
<1>1. \A ph \in Phases : Complete(ph) /\ Effect(ph)
  BY PhaseFacts DEF PlatformInv, OrderInv, PrefixInv, EarlierDone, EffectInv, Owed
<1>2. \A b \in Runners : handle[b] = "succeeded"
  BY <1>1, PhaseFacts DEF Effect, Runners
<1>3. \A b \in Runners : cluster.build[b] = "succeeded" /\ StartOf[b] \notin flight
  BY <1>2 DEF PlatformInv, BuildInv, HandleInv
<1>4. flight \cap Applies = {}
  BY <1>1 DEF PlatformInv, ApplyInv, Complete, Applies, Phases
<1>5. flight = {}
  BY <1>3, <1>4 DEF PlatformInv, PlatformType, Phases, Applies, StartOf, Runners
<1> QED
  BY <1>1, <1>3, <1>5, PhaseFacts DEF Effect

LEMMA OneBuildOneApply ==
  PlatformInv => /\ \A b \in Runners : StartOf[b] \in flight => cluster.build[b] \in {"none", "failed"}
                 /\ PhaseApply => flight \cap Applies = {}
BY DEF PlatformInv, BuildInv, HandleInv, ApplyInv, PhaseApply
-----------------------------------------------------------------------------
(* The administrator ceremonies.                                           *)

Processes ==
  [at : {"idle", "open", "init", "shares", "backup", "status", "quorum",
         "work", "revoke", "cancel", "report", "mark", "ok", "failed"},
   root : Ceremonies \cup {"none", "initial"}, ok : BOOLEAN, began : BOOLEAN]
Facts == {"initialized", "configured", "audited", "onboarded"}
Tokens == Ceremonies \cup {"initial", "child", "lost"}
Vaults == [facts : SUBSET Facts, generating : Ceremonies \cup {"none"}, tokens : SUBSET Tokens]
CeremonyType ==
  /\ vault \in Vaults
  /\ record \subseteq {"response", "shares", "pending", "configured", "audit-receipt", "custody-receipt"}
  /\ ceremony \in [Ceremonies -> Processes]

(* The ceremony's work is done, and it is on its way to say so.            *)
Worked(c) ==
  \/ ceremony[c].at \in {"report", "mark", "ok"}
  \/ ceremony[c].at \in {"revoke", "cancel"} /\ ceremony[c].ok
WorkedInv(c) == Worked(c) => Done[c] \in vault.facts
SealInv ==
  /\ "configured" \in record => "configured" \in vault.facts
  /\ "configured" \in vault.facts => "initialized" \in vault.facts
  /\ ceremony["bootstrap"].at \in {"shares", "backup", "status", "quorum", "work"} =>
       "initialized" \in vault.facts
  /\ \A c \in {"audit", "custody"} :
       ceremony[c].at \notin {"open", "init", "shares", "backup", "mark"}

(* A pending root generation is not that of a ceremony that is over.       *)
GenInv(c) ==
  Worked(c) \/ ceremony[c].at \in {"init", "shares", "backup", "work"} => vault.generating # c
UnsealedInv == vault.generating = "bootstrap" => "initialized" \in vault.facts

(* What a ceremony has revoked before it writes its receipt stays revoked, *)
(* as long as the ceremony is not begun again.                             *)
TokensOf == [audit |-> {"audit"}, custody |-> {"custody", "child"}]
Dead(c) == TokensOf[c] \cap vault.tokens = {}
TokenInv(c) ==
  /\ ceremony[c].at = "work" \/ (ceremony[c].at = "revoke" /\ ceremony[c].ok) => ceremony[c].root = c
  /\ ceremony[c].at \in {"report", "ok"} \/ (ceremony[c].at = "cancel" /\ ceremony[c].ok) => Dead(c)
  /\ Receipt[c] \in record =>
       ceremony[c].at \in {"ok", "idle"} /\ Done[c] \in vault.facts /\ vault.generating # c /\ Dead(c)
  /\ ceremony[c].at = "ok" => Receipt[c] \in record
ConfiguredInv ==
  "configured" \in record => ceremony["bootstrap"].at \in {"ok", "idle"} /\ vault.generating # "bootstrap"

(* The bootstrap's files, as far as it relies on them.                     *)
BootWorked == ceremony["bootstrap"].at = "report" \/ (ceremony["bootstrap"].at \in {"revoke", "cancel"} /\ ceremony["bootstrap"].ok)
FilesInv ==
  /\ At("bootstrap", "init") => "initialized" \notin vault.facts
  /\ At("bootstrap", "shares") => {"response", "shares"} \subseteq record
  /\ At("bootstrap", "backup") => {"pending", "response", "shares"} \subseteq record
  /\ ceremony["bootstrap"].at \in {"status", "quorum", "work"} \/ BootWorked =>
       ("pending" \in record => "response" \in record)
  /\ ceremony["bootstrap"].at = "work" \/ BootWorked => "shares" \in record
CeremonyInv ==
  /\ CeremonyType /\ SealInv /\ UnsealedInv /\ ConfiguredInv /\ FilesInv
  /\ \A c \in Ceremonies : WorkedInv(c) /\ GenInv(c)
  /\ \A c \in {"audit", "custody"} : TokenInv(c)

(* Every way in which the ceremonies' state changes: none that has a       *)
(* receipt or a checkpoint is begun again.                                 *)
CeremonyFirst(c) ==
  /\ CeremonyBegin(c)
  /\ IF c = "bootstrap" THEN "configured" \notin record ELSE Receipt[c] \notin record
CeremonyLeft(c) ==
  /\ ceremony[c].at \in {"ok", "failed"}
  /\ ceremony' = [ceremony EXCEPT ![c] = NoRun]
  /\ UNCHANGED <<vault, record>>
CeremonyMove(c) == CeremonyFirst(c) \/ CeremonyLeft(c) \/ CeremonyStep(c) \/ CeremonyGoesWrong(c)

(* One disjunct for each action.                                           *)
LEMMA CeremonyCases ==
  ASSUME NEW c \in Ceremonies, CeremonyMove(c)
  PROVE  \/ OpenFresh \/ OpenInitialized \/ Initialize \/ WriteShares \/ BackedUp
         \/ RemoveResponse \/ MarkConfigured \/ InitializeLost
         \/ CeremonyFirst(c) \/ CeremonyLeft(c) \/ CancelPending(c) \/ LeavePending(c)
         \/ Generate(c) \/ Quorum(c) \/ QuorumRefused(c) \/ Work(c) \/ Revoke(c) \/ Cancel(c)
         \/ Report(c) \/ QuorumLost(c) \/ RevokeFails(c) \/ CeremonyFails(c) \/ CeremonyKilled(c)
BY DEF CeremonyMove, CeremonyStep, CeremonyGoesWrong

LEMMA CeremonyNames ==
  /\ Ceremonies = {"bootstrap", "audit", "custody"}
  /\ Done["bootstrap"] = "configured" /\ Done["audit"] = "audited" /\ Done["custody"] = "onboarded"
  /\ Receipt["audit"] = "audit-receipt" /\ Receipt["custody"] = "custody-receipt"
  /\ TokensOf["audit"] = {"audit"} /\ TokensOf["custody"] = {"custody", "child"}
BY DEF Ceremonies, Done, Receipt, TokensOf

(* How the steps change the record of their ceremony.                      *)
Becomes(c, k) ==
  /\ k \in Processes /\ ceremony'[c] = k /\ ceremony' \in [Ceremonies -> Processes]
  /\ \A d \in Ceremonies : d # c => ceremony'[d] = ceremony[d]
LEMMA ProcessUpdate ==
  ASSUME CeremonyType, NEW c \in Ceremonies, NEW k \in Processes,
         ceremony' = [ceremony EXCEPT ![c] = k]
  PROVE  Becomes(c, k)
BY DEF CeremonyType, Becomes

Changes(c, at, root, ok, began) ==
  /\ ceremony' \in [Ceremonies -> Processes]
  /\ ceremony'[c].at = at /\ ceremony'[c].root = root
  /\ (ceremony'[c].ok <=> ok) /\ (ceremony'[c].began <=> began)
  /\ \A d \in Ceremonies : d # c => ceremony'[d] = ceremony[d]

LEMMA MovesEffect ==
  ASSUME CeremonyType, NEW c \in Ceremonies, NEW at, Moves(c, at),
         at \in {"idle", "open", "init", "shares", "backup", "status", "quorum",
                 "work", "revoke", "cancel", "report", "mark", "ok", "failed"}
  PROVE  Changes(c, at, ceremony[c].root, ceremony[c].ok, ceremony[c].began)
BY DEF CeremonyType, Moves, Changes, Processes

LEMMA LeavesEffect ==
  ASSUME CeremonyType, NEW c \in Ceremonies, NEW ok \in BOOLEAN, Leaves(c, ok)
  PROVE  Changes(c, "revoke", ceremony[c].root, ok, ceremony[c].began)
<1> DEFINE k == [ceremony[c] EXCEPT !.at = "revoke", !.ok = ok]
<1>1. ceremony[c] \in Processes
  BY DEF CeremonyType
<1>2. k \in Processes /\ k.at = "revoke" /\ k.ok = ok /\ k.root = ceremony[c].root /\ k.began = ceremony[c].began
  BY <1>1 DEF Processes
<1>3. ceremony' = [ceremony EXCEPT ![c] = k]
  BY DEF Leaves, CeremonyType
<1> QED
  BY <1>2, <1>3, ProcessUpdate DEF Becomes, Changes

(* How they change Vault.                                                  *)
Holds(facts, generating, tokens) ==
  /\ vault' \in Vaults
  /\ vault'.facts = facts /\ vault'.generating = generating /\ vault'.tokens = tokens

LEMMA FactsUpdate ==
  ASSUME CeremonyType, NEW F \in SUBSET Facts, NEW T \in SUBSET Tokens,
         vault' = [vault EXCEPT !.facts = F, !.tokens = T]
  PROVE  Holds(F, vault.generating, T)
BY DEF CeremonyType, Vaults, Holds

LEMMA GeneratingUpdate ==
  ASSUME CeremonyType, NEW g \in Ceremonies \cup {"none"}, NEW T \in SUBSET Tokens,
         vault' = [vault EXCEPT !.generating = g, !.tokens = T]
  PROVE  Holds(vault.facts, g, T)
BY DEF CeremonyType, Vaults, Holds

LEMMA TokensUpdate ==
  ASSUME CeremonyType, NEW T \in SUBSET Tokens, vault' = [vault EXCEPT !.tokens = T]
  PROVE  Holds(vault.facts, vault.generating, T)
BY DEF CeremonyType, Vaults, Holds

LEMMA PendingUpdate ==
  ASSUME CeremonyType, NEW g \in Ceremonies \cup {"none"}, vault' = [vault EXCEPT !.generating = g]
  PROVE  Holds(vault.facts, g, vault.tokens)
BY DEF CeremonyType, Vaults, Holds

LEMMA VaultSame ==
  ASSUME CeremonyType, vault' = vault
  PROVE  Holds(vault.facts, vault.generating, vault.tokens)
BY DEF CeremonyType, Vaults, Holds

(* What each step does, field by field.                                    *)
LEMMA FirstEffect ==
  ASSUME CeremonyType, NEW c \in Ceremonies, CeremonyFirst(c)
  PROVE  /\ ceremony[c].at = "idle"
         /\ IF c = "bootstrap" THEN "configured" \notin record ELSE Receipt[c] \notin record
         /\ UNCHANGED <<vault, record>>
         /\ Changes(c, IF c = "bootstrap" THEN "open" ELSE "status", "none", FALSE, FALSE)
<1> DEFINE k == [NoRun EXCEPT !.at = IF c = "bootstrap" THEN "open" ELSE "status"]
<1>1. /\ k \in Processes /\ k.at = IF c = "bootstrap" THEN "open" ELSE "status"
      /\ k.root = "none" /\ k.ok = FALSE /\ k.began = FALSE
  BY DEF Processes, NoRun
<1>2. ceremony' = [ceremony EXCEPT ![c] = k]
  BY DEF CeremonyFirst, CeremonyBegin
<1> HIDE DEF k
<1>3. Becomes(c, k)
  BY <1>1, <1>2, ProcessUpdate
<1> QED
  BY <1>1, <1>3 DEF CeremonyFirst, CeremonyBegin, At, Becomes, Changes

LEMMA LeftEffect ==
  ASSUME CeremonyType, NEW c \in Ceremonies, CeremonyLeft(c)
  PROVE  /\ ceremony[c].at \in {"ok", "failed"} /\ UNCHANGED <<vault, record>>
         /\ Changes(c, "idle", "none", FALSE, FALSE)
<1>1. /\ NoRun \in Processes /\ NoRun.at = "idle"
      /\ NoRun.root = "none" /\ NoRun.ok = FALSE /\ NoRun.began = FALSE
  BY DEF Processes, NoRun
<1>2. Becomes(c, NoRun)
  BY <1>1, ProcessUpdate DEF CeremonyLeft
<1> QED
  BY <1>1, <1>2 DEF CeremonyLeft, Becomes, Changes

LEMMA GrantedEffect ==
  ASSUME CeremonyType, NEW c \in Ceremonies, NEW root \in Ceremonies \cup {"none", "initial"},
         NEW at, Granted(c, root, at), at \in {"shares", "cancel"}
  PROVE  Changes(c, at, root, ceremony[c].ok, ceremony[c].began)
<1> DEFINE k == [ceremony[c] EXCEPT !.at = at, !.root = root]
<1>1. ceremony[c] \in Processes
  BY DEF CeremonyType
<1>2. k \in Processes /\ k.at = at /\ k.ok = ceremony[c].ok /\ k.root = root /\ k.began = ceremony[c].began
  BY <1>1 DEF Processes
<1>3. ceremony' = [ceremony EXCEPT ![c] = k]
  BY DEF Granted, CeremonyType
<1> QED
  BY <1>2, <1>3, ProcessUpdate DEF Becomes, Changes

LEMMA GenerateEffect ==
  ASSUME CeremonyType, NEW c \in Ceremonies, Generate(c)
  PROVE  /\ ceremony[c].at = "status" /\ vault.generating = "none"
         /\ Holds(vault.facts, c, vault.tokens) /\ UNCHANGED record
         /\ Changes(c, "quorum", ceremony[c].root, ceremony[c].ok, TRUE)
<1> DEFINE k == [ceremony[c] EXCEPT !.at = "quorum", !.began = TRUE]
<1>1. ceremony[c] \in Processes
  BY DEF CeremonyType
<1>2. k \in Processes /\ k.at = "quorum" /\ k.ok = ceremony[c].ok /\ k.root = ceremony[c].root /\ k.began = TRUE
  BY <1>1 DEF Processes
<1>3. ceremony' = [ceremony EXCEPT ![c] = k]
  BY DEF Generate, CeremonyType
<1>4. Changes(c, "quorum", ceremony[c].root, ceremony[c].ok, TRUE)
  BY <1>2, <1>3, ProcessUpdate DEF Becomes, Changes
<1>5. Holds(vault.facts, c, vault.tokens)
  BY PendingUpdate DEF Generate, Generating
<1> QED
  BY <1>4, <1>5 DEF Generate, At

LEMMA QuorumEffect ==
  ASSUME CeremonyType, NEW c \in Ceremonies, Quorum(c)
  PROVE  /\ ceremony[c].at = "quorum" /\ vault.generating = c /\ "shares" \in record
         /\ Holds(vault.facts, "none", vault.tokens \cup {c}) /\ UNCHANGED record
         /\ Changes(c, "work", c, ceremony[c].ok, FALSE)
<1> DEFINE k == [ceremony[c] EXCEPT !.at = "work", !.root = c, !.began = FALSE]
<1>1. ceremony[c] \in Processes
  BY DEF CeremonyType
<1>2. k \in Processes /\ k.at = "work" /\ k.ok = ceremony[c].ok /\ k.root = c /\ k.began = FALSE
  BY <1>1 DEF Processes
<1>3. ceremony' = [ceremony EXCEPT ![c] = k]
  BY DEF Quorum, CeremonyType
<1>4. Changes(c, "work", c, ceremony[c].ok, FALSE)
  BY <1>2, <1>3, ProcessUpdate DEF Becomes, Changes
<1>5. Holds(vault.facts, "none", vault.tokens \cup {c})
  <2>1. vault.tokens \cup {c} \in SUBSET Tokens
    BY DEF CeremonyType, Vaults, Tokens
  <2> QED
    BY <2>1, GeneratingUpdate DEF Quorum
<1> QED
  BY <1>4, <1>5 DEF Quorum, QuorumOpen, At

LEMMA QuorumLostEffect ==
  ASSUME CeremonyType, NEW c \in Ceremonies, QuorumLost(c)
  PROVE  /\ ceremony[c].at = "quorum" /\ UNCHANGED record
         /\ Holds(vault.facts, "none", vault.tokens \cup {Unknown(c)})
         /\ Changes(c, "revoke", ceremony[c].root, FALSE, ceremony[c].began)
<1>1. vault.tokens \cup {Unknown(c)} \in SUBSET Tokens
  BY DEF CeremonyType, Vaults, Tokens, Unknown
<1>2. Holds(vault.facts, "none", vault.tokens \cup {Unknown(c)})
  BY <1>1, GeneratingUpdate DEF QuorumLost
<1> QED
  BY <1>2, LeavesEffect DEF QuorumLost, QuorumOpen, At

LEMMA WorkEffect ==
  ASSUME CeremonyType, NEW c \in Ceremonies, Work(c)
  PROVE  /\ ceremony[c].at = "work" /\ UNCHANGED record
         /\ Holds(vault.facts \cup {Done[c]}, vault.generating,
                  IF c = "custody" THEN vault.tokens \cup {"child"} ELSE vault.tokens)
         /\ Changes(c, "revoke", ceremony[c].root, TRUE, ceremony[c].began)
<1> DEFINE F == vault.facts \cup {Done[c]}
           T == IF c = "custody" THEN vault.tokens \cup {"child"} ELSE vault.tokens
<1>1. F \in SUBSET Facts /\ T \in SUBSET Tokens
  BY CeremonyNames DEF CeremonyType, Vaults, Tokens, Facts
<1>2. vault' = [vault EXCEPT !.facts = F, !.tokens = T]
  BY DEF Work
<1> HIDE DEF F, T
<1>3. Holds(F, vault.generating, T)
  BY <1>1, <1>2, FactsUpdate
<1> QED
  BY <1>3, LeavesEffect DEF Work, At, F, T

LEMMA RevokeEffect ==
  ASSUME CeremonyType, NEW c \in Ceremonies, Revoke(c)
  PROVE  /\ ceremony[c].at = "revoke" /\ UNCHANGED record
         /\ Holds(vault.facts, vault.generating,
                  IF ceremony[c].root = "none" THEN vault.tokens ELSE vault.tokens \ Held(c))
         /\ Changes(c, "cancel", "none", ceremony[c].ok, ceremony[c].began)
<1> DEFINE T == IF ceremony[c].root = "none" THEN vault.tokens ELSE vault.tokens \ Held(c)
<1>1. T \in SUBSET Tokens /\ vault' = [vault EXCEPT !.tokens = T]
  BY DEF CeremonyType, Vaults, Tokens, Revoke
<1> HIDE DEF T
<1>2. Holds(vault.facts, vault.generating, T)
  BY <1>1, TokensUpdate
<1>3. Granted(c, "none", "cancel")
  BY DEF Revoke, Granted
<1> QED
  BY <1>2, <1>3, GrantedEffect DEF Revoke, At, T

LEMMA ForgottenIsTokens ==
  ASSUME CeremonyType, NEW c \in Ceremonies
  PROVE  /\ Forgotten(c) \in SUBSET Tokens
         /\ Forgotten(c) \subseteq vault.tokens \cup {"lost"}
BY DEF CeremonyType, Vaults, Tokens, Forgotten

LEMMA RevokeFailsEffect ==
  ASSUME CeremonyType, NEW c \in Ceremonies, RevokeFails(c)
  PROVE  /\ ceremony[c].at = "revoke" /\ UNCHANGED record
         /\ Holds(vault.facts, vault.generating, Forgotten(c))
         /\ Changes(c, "cancel", "none", FALSE, ceremony[c].began)
<1> DEFINE k == [ceremony[c] EXCEPT !.at = "cancel", !.ok = FALSE, !.root = "none"]
<1>1. ceremony[c] \in Processes
  BY DEF CeremonyType
<1>2. k \in Processes /\ k.at = "cancel" /\ k.ok = FALSE /\ k.root = "none" /\ k.began = ceremony[c].began
  BY <1>1 DEF Processes
<1>3. ceremony' = [ceremony EXCEPT ![c] = k]
  BY DEF RevokeFails, CeremonyType
<1>4. Changes(c, "cancel", "none", FALSE, ceremony[c].began)
  BY <1>2, <1>3, ProcessUpdate DEF Becomes, Changes
<1>5. Holds(vault.facts, vault.generating, Forgotten(c))
  BY ForgottenIsTokens, TokensUpdate DEF RevokeFails
<1> QED
  BY <1>4, <1>5 DEF RevokeFails, At

LEMMA KilledEffect ==
  ASSUME CeremonyType, NEW c \in Ceremonies, CeremonyKilled(c)
  PROVE  /\ ceremony[c].at \notin {"idle", "ok", "failed"} /\ UNCHANGED record
         /\ Holds(vault.facts, vault.generating, Forgotten(c))
         /\ Changes(c, "failed", ceremony[c].root, ceremony[c].ok, ceremony[c].began)
<1>1. Holds(vault.facts, vault.generating, Forgotten(c))
  BY ForgottenIsTokens, TokensUpdate DEF CeremonyKilled
<1> QED
  BY <1>1, MovesEffect DEF CeremonyKilled

LEMMA CancelEffect ==
  ASSUME CeremonyType, NEW c \in Ceremonies, Cancel(c)
  PROVE  /\ ceremony[c].at = "cancel" /\ UNCHANGED record
         /\ \/ Holds(vault.facts, vault.generating, vault.tokens)
            \/ Holds(vault.facts, "none", vault.tokens)
         /\ Changes(c, IF ceremony[c].ok THEN "report" ELSE "failed",
                    ceremony[c].root, ceremony[c].ok, ceremony[c].began)
<1>1. Holds(vault.facts, vault.generating, vault.tokens) \/ Holds(vault.facts, "none", vault.tokens)
  BY VaultSame, PendingUpdate DEF Cancel
<1> QED
  BY <1>1, MovesEffect DEF Cancel, At

LEMMA CancelPendingEffect ==
  ASSUME CeremonyType, NEW c \in Ceremonies, CancelPending(c)
  PROVE  /\ Holds(vault.facts, "none", vault.tokens) /\ UNCHANGED <<record, ceremony>>
BY PendingUpdate DEF CancelPending, Generating

LEMMA InitializeEffect ==
  ASSUME CeremonyType, Initialize \/ InitializeLost
  PROVE  /\ ceremony["bootstrap"].at = "init"
         /\ Holds(vault.facts \cup {"initialized"}, vault.generating, vault.tokens \cup {"initial"})
         /\ \/ /\ record' = record \cup {"response", "shares"}
               /\ Changes("bootstrap", "shares", "initial", ceremony["bootstrap"].ok, ceremony["bootstrap"].began)
            \/ /\ record' = record
               /\ Changes("bootstrap", "revoke", ceremony["bootstrap"].root, FALSE, ceremony["bootstrap"].began)
<1> DEFINE F == vault.facts \cup {"initialized"}
           T == vault.tokens \cup {"initial"}
<1>1. F \in SUBSET Facts /\ T \in SUBSET Tokens
  BY DEF CeremonyType, Vaults, Tokens, Facts
<1>2. vault' = [vault EXCEPT !.facts = F, !.tokens = T]
  BY DEF Initialize, InitializeLost
<1> HIDE DEF F, T
<1>3. Holds(F, vault.generating, T)
  BY <1>1, <1>2, FactsUpdate
<1> QED
  BY <1>3, LeavesEffect, GrantedEffect, CeremonyNames DEF Initialize, InitializeLost, At, F, T

LEMMA OpenEffect ==
  ASSUME CeremonyType, OpenFresh \/ OpenInitialized
  PROVE  /\ ceremony["bootstrap"].at = "open" /\ UNCHANGED <<vault, record>>
         /\ \/ Changes("bootstrap", "revoke", ceremony["bootstrap"].root, FALSE, ceremony["bootstrap"].began)
            \/ /\ "initialized" \notin vault.facts
               /\ Changes("bootstrap", "init", ceremony["bootstrap"].root, ceremony["bootstrap"].ok,
                          ceremony["bootstrap"].began)
            \/ /\ "initialized" \in vault.facts /\ ("pending" \in record => "response" \in record)
               /\ Changes("bootstrap", "status", ceremony["bootstrap"].root, ceremony["bootstrap"].ok,
                          ceremony["bootstrap"].began)
<1>1. CASE OpenFresh
  <2>1. Leaves("bootstrap", FALSE) \/ Moves("bootstrap", "init")
    BY <1>1 DEF OpenFresh
  <2>2. ceremony["bootstrap"].at = "open" /\ UNCHANGED <<vault, record>> /\ "initialized" \notin vault.facts
    BY <1>1 DEF OpenFresh, At
  <2>3. CASE Leaves("bootstrap", FALSE)
    BY <2>2, <2>3, LeavesEffect, CeremonyNames
  <2>4. CASE Moves("bootstrap", "init")
    BY <2>2, <2>4, MovesEffect, CeremonyNames
  <2> QED
    BY <2>1, <2>3, <2>4
<1>2. CASE OpenInitialized
  <2>1. Leaves("bootstrap", FALSE) \/ (Moves("bootstrap", "status") /\ ("pending" \in record => "response" \in record))
    BY <1>2 DEF OpenInitialized
  <2>2. ceremony["bootstrap"].at = "open" /\ UNCHANGED <<vault, record>> /\ "initialized" \in vault.facts
    BY <1>2 DEF OpenInitialized, At
  <2>3. CASE Leaves("bootstrap", FALSE)
    BY <2>2, <2>3, LeavesEffect, CeremonyNames
  <2>4. CASE Moves("bootstrap", "status")
    BY <2>1, <2>2, <2>4, MovesEffect, CeremonyNames, LeavesEffect
  <2> QED
    BY <2>1, <2>3, <2>4
<1> QED
  BY <1>1, <1>2

(* The bootstrap's own steps that leave Vault alone.                       *)
FileStep(from, at, files) ==
  /\ ceremony["bootstrap"].at = from /\ UNCHANGED vault /\ record' = files
  /\ Changes("bootstrap", at, ceremony["bootstrap"].root, ceremony["bootstrap"].ok,
             ceremony["bootstrap"].began)
LEMMA FileEffects ==
  ASSUME CeremonyType
  PROVE  /\ WriteShares => FileStep("shares", "backup", record \cup {"pending"})
         /\ BackedUp => FileStep("backup", "work", record)
         /\ RemoveResponse =>
              FileStep("report", "mark", IF "pending" \in record THEN record \ {"response"} ELSE record)
         /\ MarkConfigured =>
              FileStep("mark", "ok", IF {"pending", "configured"} \cap record = {} THEN record
                                     ELSE (record \ {"pending"}) \cup {"configured"})
BY MovesEffect, CeremonyNames DEF WriteShares, BackedUp, RemoveResponse, MarkConfigured, At, FileStep

LEMMA ReportEffect ==
  ASSUME CeremonyType, NEW c \in Ceremonies, Report(c)
  PROVE  /\ ceremony[c].at = "report" /\ c \in {"audit", "custody"} /\ UNCHANGED vault
         /\ record' = record \cup {Receipt[c]}
         /\ Changes(c, "ok", ceremony[c].root, ceremony[c].ok, ceremony[c].began)
BY MovesEffect, CeremonyNames DEF Report, At

(* A ceremony that goes no further is on its way out.                      *)
LEMMA GivesUpEffect ==
  ASSUME CeremonyType, NEW c \in Ceremonies, LeavePending(c) \/ QuorumRefused(c) \/ CeremonyFails(c)
  PROVE  /\ ceremony[c].at \in {"open", "init", "shares", "backup", "status", "quorum", "work"}
         /\ UNCHANGED <<vault, record>>
         /\ Changes(c, "revoke", ceremony[c].root, FALSE, ceremony[c].began)
BY LeavesEffect DEF LeavePending, QuorumRefused, CeremonyFails, At


LEMMA CeremonyTypeStep ==
  ASSUME CeremonyType, NEW c \in Ceremonies, CeremonyMove(c)
  PROVE  CeremonyType'
<1>1. CASE OpenFresh \/ OpenInitialized
    BY <1>1, OpenEffect, VaultSame, CeremonyNames DEF CeremonyType, Holds, Changes
<1>2. CASE Initialize \/ InitializeLost
    BY <1>2, InitializeEffect, CeremonyNames DEF CeremonyType, Holds, Changes
<1>3. CASE WriteShares
    BY <1>3, FileEffects, VaultSame, CeremonyNames DEF FileStep, CeremonyType, Holds, Changes
<1>4. CASE BackedUp
    BY <1>4, FileEffects, VaultSame, CeremonyNames DEF FileStep, CeremonyType, Holds, Changes
<1>5. CASE RemoveResponse
    BY <1>5, FileEffects, VaultSame, CeremonyNames DEF FileStep, CeremonyType, Holds, Changes
<1>6. CASE MarkConfigured
    BY <1>6, FileEffects, VaultSame, CeremonyNames DEF FileStep, CeremonyType, Holds, Changes
<1>7. CASE CeremonyFirst(c)
    BY <1>7, FirstEffect, VaultSame, CeremonyNames DEF CeremonyType, Holds, Changes
<1>8. CASE CeremonyLeft(c)
    BY <1>8, LeftEffect, VaultSame, CeremonyNames DEF CeremonyType, Holds, Changes
<1>9. CASE CancelPending(c)
    BY <1>9, CancelPendingEffect, CeremonyNames DEF CeremonyType, Holds, Changes
<1>10. CASE Generate(c)
    BY <1>10, GenerateEffect, CeremonyNames DEF CeremonyType, Holds, Changes
<1>11. CASE Quorum(c)
    BY <1>11, QuorumEffect, CeremonyNames DEF CeremonyType, Holds, Changes
<1>12. CASE QuorumLost(c)
    BY <1>12, QuorumLostEffect, CeremonyNames DEF CeremonyType, Holds, Changes
<1>13. CASE LeavePending(c) \/ QuorumRefused(c) \/ CeremonyFails(c)
    BY <1>13, GivesUpEffect, VaultSame, CeremonyNames DEF CeremonyType, Holds, Changes
<1>14. CASE Work(c)
    BY <1>14, WorkEffect, CeremonyNames DEF CeremonyType, Holds, Changes
<1>15. CASE Revoke(c)
    BY <1>15, RevokeEffect, CeremonyNames DEF CeremonyType, Holds, Changes
<1>16. CASE RevokeFails(c)
    BY <1>16, RevokeFailsEffect, CeremonyNames DEF CeremonyType, Holds, Changes
<1>17. CASE Cancel(c)
    BY <1>17, CancelEffect, CeremonyNames DEF CeremonyType, Holds, Changes
<1>18. CASE Report(c)
  <2>1. Receipt[c] \in {"audit-receipt", "custody-receipt"}
    BY <1>18, ReportEffect, CeremonyNames
  <2>2. record' \subseteq {"response", "shares", "pending", "configured", "audit-receipt", "custody-receipt"}
    BY <1>18, <2>1, ReportEffect DEF CeremonyType
  <2>3. vault' \in Vaults /\ ceremony' \in [Ceremonies -> Processes]
    BY <1>18, ReportEffect DEF CeremonyType, Changes
  <2> QED
    BY <2>2, <2>3 DEF CeremonyType
<1>19. CASE CeremonyKilled(c)
    BY <1>19, KilledEffect, CeremonyNames DEF CeremonyType, Holds, Changes
<1> QED
  BY CeremonyCases, <1>1, <1>2, <1>3, <1>4, <1>5, <1>6, <1>7, <1>8, <1>9, <1>10, <1>11, <1>12, <1>13, <1>14, <1>15, <1>16, <1>17, <1>18, <1>19

LEMMA SealStep ==
  ASSUME CeremonyType, NEW c \in Ceremonies, CeremonyMove(c), SealInv, WorkedInv("bootstrap")
  PROVE  SealInv'
<1>1. CASE OpenFresh \/ OpenInitialized
    BY <1>1, OpenEffect, VaultSame, CeremonyNames DEF SealInv, Holds, Changes
<1>2. CASE Initialize \/ InitializeLost
    BY <1>2, InitializeEffect, CeremonyNames DEF SealInv, Holds, Changes
<1>3. CASE WriteShares
    BY <1>3, FileEffects, VaultSame, CeremonyNames DEF FileStep, SealInv, Holds, Changes
<1>4. CASE BackedUp
    BY <1>4, FileEffects, VaultSame, CeremonyNames DEF FileStep, SealInv, Holds, Changes
<1>5. CASE RemoveResponse
    BY <1>5, FileEffects, VaultSame, CeremonyNames DEF FileStep, SealInv, Holds, Changes
<1>6. CASE MarkConfigured
  BY <1>6, FileEffects, VaultSame, CeremonyNames DEF FileStep, SealInv, WorkedInv, Worked, Holds,
     Changes
<1>7. CASE CeremonyFirst(c)
    BY <1>7, FirstEffect, VaultSame, CeremonyNames DEF SealInv, Holds, Changes
<1>8. CASE CeremonyLeft(c)
    BY <1>8, LeftEffect, VaultSame, CeremonyNames DEF SealInv, Holds, Changes
<1>9. CASE CancelPending(c)
    BY <1>9, CancelPendingEffect, CeremonyNames DEF SealInv, Holds, Changes
<1>10. CASE Generate(c)
    BY <1>10, GenerateEffect, CeremonyNames DEF SealInv, Holds, Changes
<1>11. CASE Quorum(c)
    BY <1>11, QuorumEffect, CeremonyNames DEF SealInv, Holds, Changes
<1>12. CASE QuorumLost(c)
    BY <1>12, QuorumLostEffect, CeremonyNames DEF SealInv, Holds, Changes
<1>13. CASE LeavePending(c) \/ QuorumRefused(c) \/ CeremonyFails(c)
    BY <1>13, GivesUpEffect, VaultSame, CeremonyNames DEF SealInv, Holds, Changes
<1>14. CASE Work(c)
    BY <1>14, WorkEffect, CeremonyNames DEF SealInv, Holds, Changes
<1>15. CASE Revoke(c)
    BY <1>15, RevokeEffect, CeremonyNames DEF SealInv, Holds, Changes
<1>16. CASE RevokeFails(c)
    BY <1>16, RevokeFailsEffect, CeremonyNames DEF SealInv, Holds, Changes
<1>17. CASE Cancel(c)
    BY <1>17, CancelEffect, CeremonyNames DEF SealInv, Holds, Changes
<1>18. CASE Report(c)
    BY <1>18, ReportEffect, VaultSame, CeremonyNames DEF SealInv, Holds, Changes
<1>19. CASE CeremonyKilled(c)
    BY <1>19, KilledEffect, CeremonyNames DEF SealInv, Holds, Changes
<1> QED
  BY CeremonyCases, <1>1, <1>2, <1>3, <1>4, <1>5, <1>6, <1>7, <1>8, <1>9, <1>10, <1>11, <1>12, <1>13, <1>14, <1>15, <1>16, <1>17, <1>18, <1>19

LEMMA WorkedStep ==
  ASSUME CeremonyType, NEW c \in Ceremonies, CeremonyMove(c), NEW d \in Ceremonies, WorkedInv(d)
  PROVE  WorkedInv(d)'
<1>1. CASE OpenFresh \/ OpenInitialized
    BY <1>1, OpenEffect, VaultSame DEF WorkedInv, Worked, Holds, Changes
<1>2. CASE Initialize \/ InitializeLost
    BY <1>2, InitializeEffect DEF WorkedInv, Worked, Holds, Changes
<1>3. CASE WriteShares
    BY <1>3, FileEffects, VaultSame DEF FileStep, WorkedInv, Worked, Holds, Changes
<1>4. CASE BackedUp
    BY <1>4, FileEffects, VaultSame DEF FileStep, WorkedInv, Worked, Holds, Changes
<1>5. CASE RemoveResponse
    BY <1>5, FileEffects, VaultSame DEF FileStep, WorkedInv, Worked, Holds, Changes
<1>6. CASE MarkConfigured
    BY <1>6, FileEffects, VaultSame DEF FileStep, WorkedInv, Worked, Holds, Changes
<1>7. CASE CeremonyFirst(c)
    BY <1>7, FirstEffect, VaultSame DEF WorkedInv, Worked, Holds, Changes
<1>8. CASE CeremonyLeft(c)
    BY <1>8, LeftEffect, VaultSame DEF WorkedInv, Worked, Holds, Changes
<1>9. CASE CancelPending(c)
    BY <1>9, CancelPendingEffect DEF WorkedInv, Worked, Holds, Changes
<1>10. CASE Generate(c)
    BY <1>10, GenerateEffect DEF WorkedInv, Worked, Holds, Changes
<1>11. CASE Quorum(c)
    BY <1>11, QuorumEffect DEF WorkedInv, Worked, Holds, Changes
<1>12. CASE QuorumLost(c)
    BY <1>12, QuorumLostEffect DEF WorkedInv, Worked, Holds, Changes
<1>13. CASE LeavePending(c) \/ QuorumRefused(c) \/ CeremonyFails(c)
    BY <1>13, GivesUpEffect, VaultSame DEF WorkedInv, Worked, Holds, Changes
<1>14. CASE Work(c)
    BY <1>14, WorkEffect DEF WorkedInv, Worked, Holds, Changes
<1>15. CASE Revoke(c)
    BY <1>15, RevokeEffect DEF WorkedInv, Worked, Holds, Changes
<1>16. CASE RevokeFails(c)
    BY <1>16, RevokeFailsEffect DEF WorkedInv, Worked, Holds, Changes
<1>17. CASE Cancel(c)
    BY <1>17, CancelEffect DEF WorkedInv, Worked, Holds, Changes
<1>18. CASE Report(c)
    BY <1>18, ReportEffect, VaultSame DEF WorkedInv, Worked, Holds, Changes
<1>19. CASE CeremonyKilled(c)
    BY <1>19, KilledEffect DEF WorkedInv, Worked, Holds, Changes
<1> QED
  BY CeremonyCases, <1>1, <1>2, <1>3, <1>4, <1>5, <1>6, <1>7, <1>8, <1>9, <1>10, <1>11, <1>12, <1>13, <1>14, <1>15, <1>16, <1>17, <1>18, <1>19

LEMMA UnsealedStep ==
  ASSUME CeremonyType, NEW c \in Ceremonies, CeremonyMove(c), SealInv, UnsealedInv
  PROVE  UnsealedInv'
<1>1. CASE OpenFresh \/ OpenInitialized
    BY <1>1, OpenEffect, VaultSame, CeremonyNames DEF SealInv, UnsealedInv, Holds, Changes
<1>2. CASE Initialize \/ InitializeLost
    BY <1>2, InitializeEffect, CeremonyNames DEF SealInv, UnsealedInv, Holds, Changes
<1>3. CASE WriteShares
    BY <1>3, FileEffects, VaultSame, CeremonyNames DEF FileStep, SealInv, UnsealedInv, Holds,
     Changes
<1>4. CASE BackedUp
    BY <1>4, FileEffects, VaultSame, CeremonyNames DEF FileStep, SealInv, UnsealedInv, Holds,
     Changes
<1>5. CASE RemoveResponse
    BY <1>5, FileEffects, VaultSame, CeremonyNames DEF FileStep, SealInv, UnsealedInv, Holds,
     Changes
<1>6. CASE MarkConfigured
    BY <1>6, FileEffects, VaultSame, CeremonyNames DEF FileStep, SealInv, UnsealedInv, Holds,
     Changes
<1>7. CASE CeremonyFirst(c)
    BY <1>7, FirstEffect, VaultSame, CeremonyNames DEF SealInv, UnsealedInv, Holds, Changes
<1>8. CASE CeremonyLeft(c)
    BY <1>8, LeftEffect, VaultSame, CeremonyNames DEF SealInv, UnsealedInv, Holds, Changes
<1>9. CASE CancelPending(c)
    BY <1>9, CancelPendingEffect, CeremonyNames DEF SealInv, UnsealedInv, Holds, Changes
<1>10. CASE Generate(c)
    BY <1>10, GenerateEffect, CeremonyNames DEF SealInv, UnsealedInv, Holds, Changes
<1>11. CASE Quorum(c)
    BY <1>11, QuorumEffect, CeremonyNames DEF SealInv, UnsealedInv, Holds, Changes
<1>12. CASE QuorumLost(c)
    BY <1>12, QuorumLostEffect, CeremonyNames DEF SealInv, UnsealedInv, Holds, Changes
<1>13. CASE LeavePending(c) \/ QuorumRefused(c) \/ CeremonyFails(c)
    BY <1>13, GivesUpEffect, VaultSame, CeremonyNames DEF SealInv, UnsealedInv, Holds, Changes
<1>14. CASE Work(c)
    BY <1>14, WorkEffect, CeremonyNames DEF SealInv, UnsealedInv, Holds, Changes
<1>15. CASE Revoke(c)
    BY <1>15, RevokeEffect, CeremonyNames DEF SealInv, UnsealedInv, Holds, Changes
<1>16. CASE RevokeFails(c)
    BY <1>16, RevokeFailsEffect, CeremonyNames DEF SealInv, UnsealedInv, Holds, Changes
<1>17. CASE Cancel(c)
    BY <1>17, CancelEffect, CeremonyNames DEF SealInv, UnsealedInv, Holds, Changes
<1>18. CASE Report(c)
    BY <1>18, ReportEffect, VaultSame, CeremonyNames DEF SealInv, UnsealedInv, Holds, Changes
<1>19. CASE CeremonyKilled(c)
    BY <1>19, KilledEffect, CeremonyNames DEF SealInv, UnsealedInv, Holds, Changes
<1> QED
  BY CeremonyCases, <1>1, <1>2, <1>3, <1>4, <1>5, <1>6, <1>7, <1>8, <1>9, <1>10, <1>11, <1>12, <1>13, <1>14, <1>15, <1>16, <1>17, <1>18, <1>19

LEMMA GenStep ==
  ASSUME CeremonyType, NEW c \in Ceremonies, CeremonyMove(c), UnsealedInv, FilesInv, NEW d \in Ceremonies, GenInv(d)
  PROVE  GenInv(d)'
<1>1. CASE OpenFresh \/ OpenInitialized
    BY <1>1, OpenEffect, VaultSame, CeremonyNames DEF GenInv, Worked, UnsealedInv, Holds,
     Changes
<1>2. CASE Initialize \/ InitializeLost
    BY <1>2, InitializeEffect, CeremonyNames DEF GenInv, Worked, UnsealedInv, Holds, Changes
<1>3. CASE WriteShares
    BY <1>3, FileEffects, VaultSame, CeremonyNames DEF FileStep, GenInv, Worked, UnsealedInv,
     Holds, Changes
<1>4. CASE BackedUp
    BY <1>4, FileEffects, VaultSame, CeremonyNames DEF FileStep, GenInv, Worked, UnsealedInv,
     Holds, Changes
<1>5. CASE RemoveResponse
    BY <1>5, FileEffects, VaultSame, CeremonyNames DEF FileStep, GenInv, Worked, UnsealedInv,
     Holds, Changes
<1>6. CASE MarkConfigured
    BY <1>6, FileEffects, VaultSame, CeremonyNames DEF FileStep, GenInv, Worked, UnsealedInv,
     Holds, Changes
<1>7. CASE CeremonyFirst(c)
    BY <1>7, FirstEffect, VaultSame, CeremonyNames DEF GenInv, Worked, UnsealedInv, Holds,
     Changes
<1>8. CASE CeremonyLeft(c)
    BY <1>8, LeftEffect, VaultSame, CeremonyNames DEF GenInv, Worked, UnsealedInv, Holds,
     Changes
<1>9. CASE CancelPending(c)
    BY <1>9, CancelPendingEffect, CeremonyNames DEF GenInv, Worked, UnsealedInv, Holds, Changes
<1>10. CASE Generate(c)
    BY <1>10, GenerateEffect, CeremonyNames DEF GenInv, Worked, UnsealedInv, Holds, Changes
<1>11. CASE Quorum(c)
    BY <1>11, QuorumEffect, CeremonyNames DEF GenInv, Worked, UnsealedInv, Holds, Changes
<1>12. CASE QuorumLost(c)
    BY <1>12, QuorumLostEffect, CeremonyNames DEF GenInv, Worked, UnsealedInv, Holds, Changes
<1>13. CASE LeavePending(c) \/ QuorumRefused(c) \/ CeremonyFails(c)
    BY <1>13, GivesUpEffect, VaultSame, CeremonyNames DEF GenInv, Worked, UnsealedInv, Holds,
     Changes
<1>14. CASE Work(c)
    BY <1>14, WorkEffect, CeremonyNames DEF GenInv, Worked, UnsealedInv, Holds, Changes
<1>15. CASE Revoke(c)
    BY <1>15, RevokeEffect, CeremonyNames DEF GenInv, Worked, UnsealedInv, Holds, Changes
<1>16. CASE RevokeFails(c)
    BY <1>16, RevokeFailsEffect, CeremonyNames DEF GenInv, Worked, UnsealedInv, Holds, Changes
<1>17. CASE Cancel(c)
    BY <1>17, CancelEffect, CeremonyNames DEF GenInv, Worked, UnsealedInv, Holds, Changes
<1>18. CASE Report(c)
    BY <1>18, ReportEffect, VaultSame, CeremonyNames DEF GenInv, Worked, UnsealedInv, Holds,
     Changes
<1>19. CASE CeremonyKilled(c)
    BY <1>19, KilledEffect, CeremonyNames DEF GenInv, Worked, UnsealedInv, Holds, Changes
<1> QED
  BY CeremonyCases, <1>1, <1>2, <1>3, <1>4, <1>5, <1>6, <1>7, <1>8, <1>9, <1>10, <1>11, <1>12, <1>13, <1>14, <1>15, <1>16, <1>17, <1>18, <1>19

LEMMA ConfiguredStep ==
  ASSUME CeremonyType, NEW c \in Ceremonies, CeremonyMove(c), SealInv, ConfiguredInv, GenInv("bootstrap")
  PROVE  ConfiguredInv'
<1>1. CASE OpenFresh \/ OpenInitialized
    BY <1>1, OpenEffect, VaultSame, CeremonyNames DEF ConfiguredInv, GenInv, Worked, Holds,
     Changes
<1>2. CASE Initialize \/ InitializeLost
    BY <1>2, InitializeEffect, CeremonyNames DEF ConfiguredInv, GenInv, Worked, Holds, Changes
<1>3. CASE WriteShares
    BY <1>3, FileEffects, VaultSame, CeremonyNames DEF FileStep, ConfiguredInv, GenInv, Worked,
     Holds, Changes
<1>4. CASE BackedUp
    BY <1>4, FileEffects, VaultSame, CeremonyNames DEF FileStep, ConfiguredInv, GenInv, Worked,
     Holds, Changes
<1>5. CASE RemoveResponse
    BY <1>5, FileEffects, VaultSame, CeremonyNames DEF FileStep, ConfiguredInv, GenInv, Worked,
     Holds, Changes
<1>6. CASE MarkConfigured
    BY <1>6, FileEffects, VaultSame, CeremonyNames DEF FileStep, ConfiguredInv, GenInv, Worked,
     Holds, Changes
<1>7. CASE CeremonyFirst(c)
    BY <1>7, FirstEffect, VaultSame, CeremonyNames DEF ConfiguredInv, GenInv, Worked, Holds,
     Changes
<1>8. CASE CeremonyLeft(c)
    BY <1>8, LeftEffect, VaultSame, CeremonyNames DEF ConfiguredInv, GenInv, Worked, Holds,
     Changes
<1>9. CASE CancelPending(c)
    BY <1>9, CancelPendingEffect, CeremonyNames DEF ConfiguredInv, GenInv, Worked, Holds,
     Changes
<1>10. CASE Generate(c)
    BY <1>10, GenerateEffect, CeremonyNames DEF ConfiguredInv, GenInv, Worked, Holds, Changes
<1>11. CASE Quorum(c)
    BY <1>11, QuorumEffect, CeremonyNames DEF ConfiguredInv, GenInv, Worked, Holds, Changes
<1>12. CASE QuorumLost(c)
    BY <1>12, QuorumLostEffect, CeremonyNames DEF ConfiguredInv, GenInv, Worked, Holds, Changes
<1>13. CASE LeavePending(c) \/ QuorumRefused(c) \/ CeremonyFails(c)
    BY <1>13, GivesUpEffect, VaultSame, CeremonyNames DEF ConfiguredInv, GenInv, Worked, Holds,
     Changes
<1>14. CASE Work(c)
    BY <1>14, WorkEffect, CeremonyNames DEF ConfiguredInv, GenInv, Worked, Holds, Changes
<1>15. CASE Revoke(c)
    BY <1>15, RevokeEffect, CeremonyNames DEF ConfiguredInv, GenInv, Worked, Holds, Changes
<1>16. CASE RevokeFails(c)
    BY <1>16, RevokeFailsEffect, CeremonyNames DEF ConfiguredInv, GenInv, Worked, Holds, Changes
<1>17. CASE Cancel(c)
    BY <1>17, CancelEffect, CeremonyNames DEF ConfiguredInv, GenInv, Worked, Holds, Changes
<1>18. CASE Report(c)
    BY <1>18, ReportEffect, VaultSame, CeremonyNames DEF ConfiguredInv, GenInv, Worked, Holds,
     Changes
<1>19. CASE CeremonyKilled(c)
    BY <1>19, KilledEffect, CeremonyNames DEF ConfiguredInv, GenInv, Worked, Holds, Changes
<1> QED
  BY CeremonyCases, <1>1, <1>2, <1>3, <1>4, <1>5, <1>6, <1>7, <1>8, <1>9, <1>10, <1>11, <1>12, <1>13, <1>14, <1>15, <1>16, <1>17, <1>18, <1>19

LEMMA FilesStep ==
  ASSUME CeremonyType, NEW c \in Ceremonies, CeremonyMove(c), SealInv, FilesInv
  PROVE  FilesInv'
<1>1. CASE OpenFresh \/ OpenInitialized
    BY <1>1, OpenEffect, VaultSame, CeremonyNames DEF FilesInv, SealInv, BootWorked, At, Holds,
     Changes
<1>2. CASE Initialize \/ InitializeLost
    BY <1>2, InitializeEffect, CeremonyNames DEF FilesInv, SealInv, BootWorked, At, Holds,
     Changes
<1>3. CASE WriteShares
    BY <1>3, FileEffects, VaultSame, CeremonyNames DEF FileStep, FilesInv, SealInv, BootWorked,
     At, Holds, Changes
<1>4. CASE BackedUp
    BY <1>4, FileEffects, VaultSame, CeremonyNames DEF FileStep, FilesInv, SealInv, BootWorked,
     At, Holds, Changes
<1>5. CASE RemoveResponse
    BY <1>5, FileEffects, VaultSame, CeremonyNames DEF FileStep, FilesInv, SealInv, BootWorked,
     At, Holds, Changes
<1>6. CASE MarkConfigured
    BY <1>6, FileEffects, VaultSame, CeremonyNames DEF FileStep, FilesInv, SealInv, BootWorked,
     At, Holds, Changes
<1>7. CASE CeremonyFirst(c)
    BY <1>7, FirstEffect, VaultSame, CeremonyNames DEF FilesInv, SealInv, BootWorked, At, Holds,
     Changes
<1>8. CASE CeremonyLeft(c)
    BY <1>8, LeftEffect, VaultSame, CeremonyNames DEF FilesInv, SealInv, BootWorked, At, Holds,
     Changes
<1>9. CASE CancelPending(c)
    BY <1>9, CancelPendingEffect, CeremonyNames DEF FilesInv, SealInv, BootWorked, At, Holds,
     Changes
<1>10. CASE Generate(c)
    BY <1>10, GenerateEffect, CeremonyNames DEF FilesInv, SealInv, BootWorked, At, Holds,
     Changes
<1>11. CASE Quorum(c)
    BY <1>11, QuorumEffect, CeremonyNames DEF FilesInv, SealInv, BootWorked, At, Holds, Changes
<1>12. CASE QuorumLost(c)
    BY <1>12, QuorumLostEffect, CeremonyNames DEF FilesInv, SealInv, BootWorked, At, Holds,
     Changes
<1>13. CASE LeavePending(c) \/ QuorumRefused(c) \/ CeremonyFails(c)
    BY <1>13, GivesUpEffect, VaultSame, CeremonyNames DEF FilesInv, SealInv, BootWorked, At,
     Holds, Changes
<1>14. CASE Work(c)
    BY <1>14, WorkEffect, CeremonyNames DEF FilesInv, SealInv, BootWorked, At, Holds, Changes
<1>15. CASE Revoke(c)
    BY <1>15, RevokeEffect, CeremonyNames DEF FilesInv, SealInv, BootWorked, At, Holds, Changes
<1>16. CASE RevokeFails(c)
    BY <1>16, RevokeFailsEffect, CeremonyNames DEF FilesInv, SealInv, BootWorked, At, Holds,
     Changes
<1>17. CASE Cancel(c)
    BY <1>17, CancelEffect, CeremonyNames DEF FilesInv, SealInv, BootWorked, At, Holds, Changes
<1>18. CASE Report(c)
    BY <1>18, ReportEffect, VaultSame, CeremonyNames DEF FilesInv, SealInv, BootWorked, At,
     Holds, Changes
<1>19. CASE CeremonyKilled(c)
    BY <1>19, KilledEffect, CeremonyNames DEF FilesInv, SealInv, BootWorked, At, Holds, Changes
<1> QED
  BY CeremonyCases, <1>1, <1>2, <1>3, <1>4, <1>5, <1>6, <1>7, <1>8, <1>9, <1>10, <1>11, <1>12, <1>13, <1>14, <1>15, <1>16, <1>17, <1>18, <1>19

LEMMA TokenStep ==
  ASSUME CeremonyType, NEW c \in Ceremonies, CeremonyMove(c), SealInv, NEW d \in {"audit", "custody"}, TokenInv(d), WorkedInv(d), GenInv(d)
  PROVE  TokenInv(d)'
<1>1. CASE OpenFresh \/ OpenInitialized
    BY <1>1, OpenEffect, VaultSame, CeremonyNames DEF TokenInv, Dead, WorkedInv, Worked, GenInv,
     Holds, Changes
<1>2. CASE Initialize \/ InitializeLost
    BY <1>2, InitializeEffect, CeremonyNames DEF TokenInv, Dead, WorkedInv, Worked, GenInv,
     Holds, Changes
<1>3. CASE WriteShares
    BY <1>3, FileEffects, VaultSame, CeremonyNames DEF FileStep, TokenInv, Dead, WorkedInv,
     Worked, GenInv, Holds, Changes
<1>4. CASE BackedUp
    BY <1>4, FileEffects, VaultSame, CeremonyNames DEF FileStep, TokenInv, Dead, WorkedInv,
     Worked, GenInv, Holds, Changes
<1>5. CASE RemoveResponse
    BY <1>5, FileEffects, VaultSame, CeremonyNames DEF FileStep, TokenInv, Dead, WorkedInv,
     Worked, GenInv, Holds, Changes
<1>6. CASE MarkConfigured
    BY <1>6, FileEffects, VaultSame, CeremonyNames DEF FileStep, TokenInv, Dead, WorkedInv,
     Worked, GenInv, Holds, Changes
<1>7. CASE CeremonyFirst(c)
    BY <1>7, FirstEffect, VaultSame, CeremonyNames DEF TokenInv, Dead, WorkedInv, Worked,
     GenInv, Holds, Changes
<1>8. CASE CeremonyLeft(c)
    BY <1>8, LeftEffect, VaultSame, CeremonyNames DEF TokenInv, Dead, WorkedInv, Worked, GenInv,
     Holds, Changes
<1>9. CASE CancelPending(c)
    BY <1>9, CancelPendingEffect, CeremonyNames DEF TokenInv, Dead, WorkedInv, Worked, GenInv,
     Holds, Changes
<1>10. CASE Generate(c)
    BY <1>10, GenerateEffect, CeremonyNames DEF TokenInv, Dead, WorkedInv, Worked, GenInv,
     Holds, Changes
<1>11. CASE Quorum(c)
    BY <1>11, QuorumEffect, CeremonyNames DEF TokenInv, Dead, WorkedInv, Worked, GenInv, Holds,
     Changes
<1>12. CASE QuorumLost(c)
    BY <1>12, QuorumLostEffect, CeremonyNames DEF TokenInv, Dead, WorkedInv, Worked, GenInv,
     Holds, Changes, Unknown
<1>13. CASE LeavePending(c) \/ QuorumRefused(c) \/ CeremonyFails(c)
    BY <1>13, GivesUpEffect, VaultSame, CeremonyNames DEF TokenInv, Dead, WorkedInv, Worked,
     GenInv, Holds, Changes
<1>14. CASE Work(c)
    BY <1>14, WorkEffect, CeremonyNames DEF TokenInv, Dead, WorkedInv, Worked, GenInv, Holds,
     Changes
<1>15. CASE Revoke(c)
    BY <1>15, RevokeEffect, CeremonyNames DEF TokenInv, Dead, WorkedInv, Worked, GenInv, Holds,
     Changes, Held
<1>16. CASE RevokeFails(c)
    BY <1>16, RevokeFailsEffect, CeremonyNames, ForgottenIsTokens DEF TokenInv, Dead, WorkedInv,
     Worked, GenInv, Holds, Changes
<1>17. CASE Cancel(c)
    BY <1>17, CancelEffect, CeremonyNames DEF TokenInv, Dead, WorkedInv, Worked, GenInv, Holds,
     Changes
<1>18. CASE Report(c)
    BY <1>18, ReportEffect, VaultSame, CeremonyNames DEF TokenInv, Dead, WorkedInv, Worked,
     GenInv, Holds, Changes
<1>19. CASE CeremonyKilled(c)
    BY <1>19, KilledEffect, CeremonyNames, ForgottenIsTokens DEF TokenInv, Dead, WorkedInv,
     Worked, GenInv, Holds, Changes
<1> QED
  BY CeremonyCases, <1>1, <1>2, <1>3, <1>4, <1>5, <1>6, <1>7, <1>8, <1>9, <1>10, <1>11, <1>12, <1>13, <1>14, <1>15, <1>16, <1>17, <1>18, <1>19

-----------------------------------------------------------------------------
(* What follows from the ceremonies' invariant.                            *)

LEMMA CeremonyInitInv == CeremoniesInit => CeremonyInv
<1> SUFFICES ASSUME CeremoniesInit PROVE CeremonyInv
  OBVIOUS
<1>1. \A c \in Ceremonies : ceremony[c] = NoRun
  BY DEF CeremoniesInit
<1>2. vault = [facts |-> {}, generating |-> "none", tokens |-> {}] /\ record = {}
  BY DEF CeremoniesInit
<1>3. CeremonyType
  BY <1>2, CeremonyNames DEF CeremoniesInit, CeremonyType, Vaults, Processes, NoRun
<1>4. SealInv /\ UnsealedInv /\ ConfiguredInv /\ FilesInv
  BY <1>1, <1>2, CeremonyNames
     DEF SealInv, UnsealedInv, ConfiguredInv, FilesInv, BootWorked, At, NoRun
<1>5. \A c \in Ceremonies : WorkedInv(c) /\ GenInv(c)
  BY <1>1, <1>2, CeremonyNames DEF WorkedInv, GenInv, Worked, NoRun
<1>6. \A c \in {"audit", "custody"} : TokenInv(c)
  BY <1>1, <1>2, CeremonyNames DEF TokenInv, NoRun
<1> QED
  BY <1>3, <1>4, <1>5, <1>6 DEF CeremonyInv

LEMMA CeremonyInvStep ==
  ASSUME CeremonyInv, NEW c \in Ceremonies, CeremonyMove(c)
  PROVE  CeremonyInv'
<1> USE DEF CeremonyInv
<1>1. CeremonyType'
  BY CeremonyTypeStep
<1>2. SealInv' /\ UnsealedInv' /\ ConfiguredInv' /\ FilesInv'
  BY SealStep, UnsealedStep, ConfiguredStep, FilesStep, CeremonyNames
<1>3. \A d \in Ceremonies : WorkedInv(d)' /\ GenInv(d)'
  BY WorkedStep, GenStep
<1>4. \A d \in {"audit", "custody"} : TokenInv(d)'
  BY TokenStep, CeremonyNames
<1> QED
  BY <1>1, <1>2, <1>3, <1>4

(* The invariant is about the ceremonies' variables only.                  *)
LEMMA CeremonyInvStutter == CeremonyInv /\ UNCHANGED ceremonyVars => CeremonyInv'
BY DEF ceremonyVars, CeremonyInv, CeremonyType, SealInv, UnsealedInv, ConfiguredInv, FilesInv,
       BootWorked, At, WorkedInv, GenInv, Worked, TokenInv, Dead

LEMMA ReceiptOfCeremonies == CeremonyInv => ReceiptIsTrue
BY CeremonyNames DEF CeremonyInv, TokenInv, Dead, ReceiptIsTrue

-----------------------------------------------------------------------------
(* The phases of a release.                                                *)

PhaseNames == {Lifecycle[i] : i \in DOMAIN Lifecycle}

LEMMA NamesOf ==
  PhaseNames = {"infrastructure", "infrastructure-complete", "platform-started",
    "platform-complete", "vault-started", "vault-complete", "collector-complete",
    "audit-started", "audit-complete", "custody-started", "custody-complete",
    "runtime-complete", "activation-pending", "activation-started", "activated",
    "observing", "complete"}
BY DEF PhaseNames, Lifecycle

LEMMA IndexOf ==
  /\ Index("infrastructure") = 1 /\ Index("infrastructure-complete") = 2
  /\ Index("platform-started") = 3 /\ Index("platform-complete") = 4
  /\ Index("vault-started") = 5 /\ Index("vault-complete") = 6
  /\ Index("collector-complete") = 7 /\ Index("audit-started") = 8
  /\ Index("audit-complete") = 9 /\ Index("custody-started") = 10
  /\ Index("custody-complete") = 11 /\ Index("runtime-complete") = 12
  /\ Index("activation-pending") = 13 /\ Index("activation-started") = 14
  /\ Index("activated") = 15 /\ Index("observing") = 16 /\ Index("complete") = 17
<1>1. Len(Lifecycle) = 17
  BY DEF Lifecycle
<1>2. ASSUME NEW k \in 1..17 PROVE Index(Lifecycle[k]) = k
  <2>1. \A i, j \in 1..17 : Lifecycle[i] = Lifecycle[j] => i = j
    BY DEF Lifecycle
  <2> QED
    BY <1>1, <2>1 DEF Index
<1>3. /\ Lifecycle[1] = "infrastructure" /\ Lifecycle[2] = "infrastructure-complete"
      /\ Lifecycle[3] = "platform-started" /\ Lifecycle[4] = "platform-complete"
      /\ Lifecycle[5] = "vault-started" /\ Lifecycle[6] = "vault-complete"
      /\ Lifecycle[7] = "collector-complete" /\ Lifecycle[8] = "audit-started"
      /\ Lifecycle[9] = "audit-complete" /\ Lifecycle[10] = "custody-started"
      /\ Lifecycle[11] = "custody-complete" /\ Lifecycle[12] = "runtime-complete"
      /\ Lifecycle[13] = "activation-pending" /\ Lifecycle[14] = "activation-started"
      /\ Lifecycle[15] = "activated" /\ Lifecycle[16] = "observing" /\ Lifecycle[17] = "complete"
  BY DEF Lifecycle
<1> QED
  BY <1>2, <1>3

LEMMA FollowingOf ==
  /\ Following("infrastructure") = "infrastructure-complete"
  /\ Following("infrastructure-complete") = "platform-started"
  /\ Following("platform-started") = "platform-complete"
  /\ Following("platform-complete") = "vault-started"
  /\ Following("vault-started") = "vault-complete"
  /\ Following("vault-complete") = "collector-complete"
  /\ Following("collector-complete") = "audit-started"
  /\ Following("audit-started") = "audit-complete"
  /\ Following("audit-complete") = "custody-started"
  /\ Following("custody-started") = "custody-complete"
  /\ Following("custody-complete") = "runtime-complete"
  /\ Following("runtime-complete") = "activation-pending"
  /\ Following("activation-pending") = "activation-started"
  /\ Following("activation-started") = "activated"
  /\ Following("activated") = "observing"
  /\ Following("observing") = "complete"
BY IndexOf DEF Following, Lifecycle

(* The next phase is reached, and none but it.                             *)
LEMMA ReachedNext ==
  ASSUME receipt.phase \in PhaseNames, receipt.phase # "complete",
         receipt'.phase = Following(receipt.phase), NEW ph \in PhaseNames
  PROVE  Reached(ph)' <=> Reached(ph) \/ ph = receipt'.phase
BY NamesOf, IndexOf, FollowingOf DEF Reached

LEMMA ReachedSame ==
  ASSUME receipt'.phase = receipt.phase, NEW ph
  PROVE  Reached(ph)' <=> Reached(ph)
BY DEF Reached

LEMMA ReachedHere ==
  ASSUME receipt.phase \in PhaseNames
  PROVE  /\ Reached(receipt.phase)
         /\ receipt.phase # "complete" => ~Reached(Following(receipt.phase))
BY NamesOf, IndexOf, FollowingOf DEF Reached

-----------------------------------------------------------------------------
(* The runs.                                                               *)

Places == {"none", "confirm", "reread", "choose", "work", "prepare", "advance", "commit",
           "bind", "begin", "await", "reconcile", "verify"}
Receipts == [phase : PhaseNames \cup {"none"}, bound : BOOLEAN, prepared : SUBSET BoundPhases]
Shells == [at : Places, phase : PhaseNames \cup {"none"}, copy : Receipts \cup {"none"}]
ReleaseType ==
  /\ receipt \in Receipts /\ lock \in BOOLEAN
  /\ shell \in [Runs -> Shells]
  /\ orphans \subseteq WorkPhases /\ effects \subseteq WorkPhases
  /\ begun \in [OncePhases -> 0..2]
  /\ mishaps \in 0..MaxMishaps

(* At most one run is at work: the first one, or one that has the lock.    *)
Active(s) == shell[s].at \notin {"none", "confirm", "reread"}
LockInv ==
  /\ receipt.phase = "none" => receipt = NoReceipt /\ \A s \in Runs : RunAt(s, "none")
  /\ shell["first"].at \notin {"confirm", "reread"}
  /\ ~RunAt("first", "none") => \A s \in Resumes : RunAt(s, "none")
  /\ \A s \in Resumes : Locked(s) => lock
  /\ \A s, t \in Resumes : Locked(s) /\ Locked(t) => s = t

(* What it knows of the receipt is still true, and it is where its phase   *)
(* leads it.                                                               *)
Fits(s, at, ph) ==
  /\ at = "work" => ph \in WorkPhases
  /\ at = "prepare" => ph \in PreparePhases
  /\ at = "bind" => s = "first" /\ ph = "platform-complete"
  /\ at = "begin" => ph \in StartedPhases
  /\ at = "await" => ph \in StartedPhases \ {"activation-started"}
  /\ at = "reconcile" => ph \in BoundPhases
  /\ at = "verify" => ph = "vault-started"
ViewInv(s) ==
  /\ Active(s) => Here(s) = receipt.phase
  /\ RunAt(s, "commit") => shell[s].copy = receipt /\ Admits(Following(Here(s)))
  /\ Fits(s, shell[s].at, Here(s))

(* A work that is about to begin has not begun before.                     *)
Begins(ph) == \E s \in Runs : RunAt(s, "begin") /\ Here(s) = ph
BegunInv(ph) == begun[ph] # 0 => begun[ph] = 1 /\ Reached(ph) /\ ~Begins(ph)

(* An announced ceremony that is yet to begin has left no trace, and while *)
(* the flow awaits the bootstrap it is the first one.                      *)
FreshInv ==
  /\ ~Reached("vault-started") \/ Begins("vault-started") =>
       /\ ceremony["bootstrap"].at = "idle" /\ "configured" \notin record
       /\ "initialized" \notin vault.facts
  /\ begun["audit-started"] = 0 => ceremony["audit"].at = "idle" /\ "audit-receipt" \notin record
  /\ begun["custody-started"] = 0 => ceremony["custody"].at = "idle" /\ "custody-receipt" \notin record
FirstBootstrap ==
  /\ At("bootstrap", "open") => "initialized" \notin vault.facts
  /\ ceremony["bootstrap"].at \notin {"status", "quorum"}
  /\ ceremony["bootstrap"].at \in {"work", "mark"} \/ BootWorked => "pending" \in record
  /\ At("bootstrap", "ok") => "configured" \in record
AwaitInv == Awaited("vault-started") => FirstBootstrap

(* A run that is about to record the next phase has what it will claim.    *)
Claim(ph) ==
  /\ ph \in WorkPhases \ BoundPhases => ph \in effects
  /\ ph = "platform-started" => Complete("revoke_complete")
  /\ ph = "vault-started" => "configured" \in record
ClaimInv == \A s \in Runs : shell[s].at \in {"advance", "commit"} => Claim(Here(s))

(* What the receipt says has been done, by the records it was read from.   *)
Truth(ph) ==
  /\ ph = "infrastructure-complete" => "infrastructure" \in effects
  /\ ph = "platform-complete" => Complete("revoke_complete")
  /\ ph = "vault-complete" => "configured" \in record
  /\ ph = "collector-complete" => "vault-complete" \in effects
  /\ ph = "audit-complete" => "audit-receipt" \in record
  /\ ph = "custody-complete" => "custody-receipt" \in record
  /\ ph = "activated" => "activation-started" \in effects
TruthInv == \A ph \in PhaseNames : Reached(ph) => Truth(ph)

ReleaseInv ==
  /\ ReleaseType /\ LockInv /\ FreshInv /\ AwaitInv /\ ClaimInv /\ TruthInv
  /\ \A s \in Runs : ViewInv(s)
  /\ \A ph \in OncePhases : BegunInv(ph)
IndInv == PlatformInv /\ CeremonyInv /\ ReleaseInv

-----------------------------------------------------------------------------
(* How a step changes the run it is of.                                    *)
Goes(s, at, ph) ==
  /\ shell' \in [Runs -> Shells]
  /\ shell'[s].at = at /\ shell'[s].phase = ph
  /\ \A t \in Runs : t # s => shell'[t] = shell[t]
Stops(s) == Goes(s, "none", "none") /\ lock' = (IF Locked(s) THEN FALSE ELSE lock)

LEMMA ShellUpdate ==
  ASSUME ReleaseType, NEW s \in Runs, NEW k \in Shells, shell' = [shell EXCEPT ![s] = k]
  PROVE  Goes(s, k.at, k.phase) /\ shell'[s] = k
BY DEF ReleaseType, Goes

LEMMA PutEffect ==
  ASSUME ReleaseType, NEW s \in Runs, NEW at \in Places, Put(s, at)
  PROVE  Goes(s, at, Here(s))
BY DEF ReleaseType, Put, Goes, Shells, Here

LEMMA PutAtEffect ==
  ASSUME ReleaseType, NEW s \in Runs, NEW at \in Places, NEW ph \in PhaseNames, PutAt(s, ph, at)
  PROVE  Goes(s, at, ph)
<1> DEFINE k == [Idle EXCEPT !.at = at, !.phase = ph]
<1>1. k \in Shells /\ k.at = at /\ k.phase = ph
  BY DEF Shells, Idle
<1>2. shell' = [shell EXCEPT ![s] = k]
  BY DEF PutAt
<1> HIDE DEF k
<1> QED
  BY <1>1, <1>2, ShellUpdate

LEMMA IdleEffect ==
  ASSUME ReleaseType, NEW s \in Runs, shell' = [shell EXCEPT ![s] = Idle]
  PROVE  Goes(s, "none", "none")
<1>1. Idle \in Shells /\ Idle.at = "none" /\ Idle.phase = "none"
  BY DEF Shells, Idle, Places
<1> QED
  BY <1>1, ShellUpdate

LEMMA EndsEffect ==
  ASSUME ReleaseType, NEW s \in Runs, Ends(s)
  PROVE  Stops(s)
BY IdleEffect DEF Ends, Stops

(* What each step does, variable by variable.                              *)
Apart == UNCHANGED <<platformVars, ceremonyVars>>

LEMMA RecordEffect ==
  ASSUME ReleaseType, Record
  PROVE  /\ RunAt("first", "none") /\ receipt = NoReceipt
         /\ receipt' \in Receipts /\ receipt'.phase = "infrastructure"
         /\ Goes("first", "choose", "infrastructure")
         /\ Apart /\ UNCHANGED <<lock, orphans, effects, begun>>
<1>1. receipt' \in Receipts /\ receipt'.phase = "infrastructure"
  BY NamesOf DEF Record, NoReceipt, Receipts
<1>2. "first" \in Runs /\ "choose" \in Places /\ "infrastructure" \in PhaseNames
  BY NamesOf DEF Runs, Places
<1> QED
  BY <1>1, <1>2, PutAtEffect DEF Record, Apart, Others

LEMMA ResumeReadEffect ==
  ASSUME ReleaseType, NEW s \in Resumes, ResumeRead(s), LockInv
  PROVE  /\ RunAt(s, "none") /\ RunAt("first", "none") /\ receipt # NoReceipt
         /\ Goes(s, "confirm", receipt.phase)
         /\ Apart /\ UNCHANGED <<receipt, lock, orphans, effects, begun>>
<1>1. receipt.phase \in PhaseNames
  BY DEF ResumeRead, LockInv, ReleaseType, Receipts
<1>2. s \in Runs /\ "confirm" \in Places
  BY DEF Runs, Places
<1> QED
  BY <1>1, <1>2, PutAtEffect DEF ResumeRead, Apart, Others

LEMMA ResumeLockEffect ==
  ASSUME ReleaseType, NEW s \in Runs, ResumeLock(s)
  PROVE  /\ RunAt(s, "confirm")
         /\ \/ lock /\ Goes(s, "none", "none") /\ UNCHANGED lock
            \/ ~lock /\ Goes(s, "reread", Here(s)) /\ lock' = TRUE
         /\ Apart /\ UNCHANGED <<receipt, orphans, effects, begun>>
<1>1. "reread" \in Places
  BY DEF Places
<1> QED
  BY <1>1, IdleEffect, PutEffect DEF ResumeLock, Apart, Others

LEMMA ResumeRereadEffect ==
  ASSUME ReleaseType, NEW s \in Runs, ResumeReread(s)
  PROVE  /\ RunAt(s, "reread")
         /\ \/ Stops(s)
            \/ /\ receipt.phase = Here(s) /\ UNCHANGED lock
               /\ \/ Here(s) = "platform-started" /\ Initialized /\ Goes(s, "begin", Here(s))
                  \/ Here(s) # "platform-started" /\ Goes(s, "choose", Here(s))
         /\ Apart /\ UNCHANGED <<receipt, orphans, effects, begun>>
<1>1. "begin" \in Places /\ "choose" \in Places
  BY DEF Places
<1> QED
  BY <1>1, EndsEffect, PutEffect DEF ResumeReread, Apart, Others

LEMMA ChooseEffect ==
  ASSUME ReleaseType, NEW s \in Runs, Choose(s)
  PROVE  /\ RunAt(s, "choose")
         /\ \/ Here(s) \in WorkPhases \ BoundPhases /\ Goes(s, "work", Here(s))
            \/ Here(s) \in PreparePhases /\ Goes(s, "prepare", Here(s))
            \/ Here(s) \in PassPhases /\ Goes(s, "advance", Here(s))
            \/ Here(s) \in BoundPhases /\ Goes(s, "reconcile", Here(s))
            \/ Here(s) = "vault-started" /\ Goes(s, "verify", Here(s))
         /\ Apart /\ UNCHANGED <<receipt, lock, orphans, effects, begun>>
<1>1. {"work", "prepare", "advance", "reconcile", "verify"} \subseteq Places
  BY DEF Places
<1> QED
  BY <1>1, PutEffect DEF Choose, Apart, Others

LEMMA WorkDoneEffect ==
  ASSUME ReleaseType, NEW s \in Runs, WorkDone(s)
  PROVE  /\ RunAt(s, "work") /\ effects' = effects \cup {Here(s)}
         /\ \/ Stops(s)
            \/ Here(s) = "activation-started" /\ Goes(s, "reconcile", Here(s)) /\ UNCHANGED lock
            \/ Here(s) # "activation-started" /\ Goes(s, "advance", Here(s)) /\ UNCHANGED lock
         /\ Apart /\ UNCHANGED <<receipt, orphans, begun>>
<1>1. {"advance", "reconcile"} \subseteq Places
  BY DEF Places
<1> QED
  BY <1>1, PutEffect, EndsEffect DEF WorkDone, Apart, Others

LEMMA WorkRefusedEffect ==
  ASSUME ReleaseType, NEW s \in Runs, WorkRefused(s)
  PROVE  /\ RunAt(s, "work") /\ Stops(s)
         /\ Apart /\ UNCHANGED <<receipt, orphans, effects, begun>>
BY EndsEffect DEF WorkRefused, Apart, Others

LEMMA PrepareEffect ==
  ASSUME ReleaseType, NEW s \in Runs, Prepare(s), ViewInv(s)
  PROVE  /\ RunAt(s, "prepare")
         /\ \/ Stops(s) /\ UNCHANGED receipt
            \/ /\ Goes(s, "advance", Here(s)) /\ UNCHANGED lock
               /\ receipt' \in Receipts /\ receipt'.phase = receipt.phase
               /\ receipt.phase = Here(s)
         /\ Apart /\ UNCHANGED <<orphans, effects, begun>>
<1>1. "advance" \in Places
  BY DEF Places
<1>2. CASE receipt.phase = Here(s) /\ receipt.bound /\ ~Proof(Following(Here(s)))
  <2> DEFINE P == receipt.prepared \cup {Following(Here(s))}
  <2>1. Following(Here(s)) \in BoundPhases
    BY FollowingOf DEF ViewInv, Fits, Prepare, RunAt, PreparePhases, BoundPhases
  <2>2. P \in SUBSET BoundPhases /\ receipt' = [receipt EXCEPT !.prepared = P]
    BY <1>2, <2>1 DEF Prepare, ReleaseType, Receipts
  <2> HIDE DEF P
  <2>3. receipt' \in Receipts /\ receipt'.phase = receipt.phase
    BY <2>2 DEF ReleaseType, Receipts
  <2> QED
    BY <1>1, <1>2, <2>3, PutEffect DEF Prepare, Apart, Others
<1>3. CASE ~(receipt.phase = Here(s) /\ receipt.bound /\ ~Proof(Following(Here(s))))
  BY <1>3, EndsEffect DEF Prepare, Apart, Others
<1> QED
  BY <1>2, <1>3

LEMMA AdvanceReadEffect ==
  ASSUME ReleaseType, NEW s \in Runs, AdvanceRead(s)
  PROVE  /\ RunAt(s, "advance")
         /\ \/ Stops(s)
            \/ /\ Goes(s, "commit", Here(s)) /\ shell'[s].copy = receipt /\ UNCHANGED lock
               /\ Admits(Following(Here(s)))
         /\ Apart /\ UNCHANGED <<receipt, orphans, effects, begun>>
<1>1. CASE receipt.phase # "none" /\ Admits(Following(Here(s)))
  <2> DEFINE k == [shell[s] EXCEPT !.at = "commit", !.copy = receipt]
  <2>1. shell[s] \in Shells /\ receipt \in Receipts
    BY DEF ReleaseType
  <2>2. k \in Shells /\ k.at = "commit" /\ k.phase = Here(s) /\ k.copy = receipt
    BY <2>1 DEF Shells, Places, Here
  <2>3. shell' = [shell EXCEPT ![s] = k]
    BY <1>1 DEF AdvanceRead, ReleaseType
  <2> HIDE DEF k
  <2>4. Goes(s, "commit", Here(s)) /\ shell'[s].copy = receipt
    BY <2>2, <2>3, ShellUpdate
  <2> QED
    BY <1>1, <2>4 DEF AdvanceRead, Apart, Others
<1>2. CASE ~(receipt.phase # "none" /\ Admits(Following(Here(s))))
  BY <1>2, EndsEffect DEF AdvanceRead, Apart, Others
<1> QED
  BY <1>1, <1>2

LEMMA AdvanceCommitEffect ==
  ASSUME ReleaseType, NEW s \in Runs, AdvanceCommit(s), ViewInv(s)
  PROVE  LET next == Following(Here(s)) IN
         /\ RunAt(s, "commit") /\ Here(s) = receipt.phase /\ receipt.phase \in PhaseNames
         /\ receipt.phase # "complete" /\ next \in PhaseNames
         /\ next \notin {"audit-complete", "custody-complete", "activated"}
         /\ receipt' \in Receipts /\ receipt'.phase = next
         /\ \/ next \in StartedPhases /\ Goes(s, "begin", next) /\ UNCHANGED lock
            \/ next = "platform-complete" /\ s = "first" /\ Goes(s, "bind", next) /\ UNCHANGED lock
            \/ Stops(s)
            \/ next \notin StartedPhases /\ Goes(s, "choose", next) /\ UNCHANGED lock
         /\ Apart /\ UNCHANGED <<orphans, effects, begun>>
<1> DEFINE next == Following(Here(s))
<1>1. RunAt(s, "commit") /\ Here(s) = receipt.phase /\ shell[s].copy = receipt /\ Admits(next)
  BY DEF AdvanceCommit, ViewInv, Active, RunAt
<1>2. receipt.phase \in PhaseNames /\ receipt.phase # "complete"
  BY <1>1 DEF Admits, ReleaseType, Receipts
<1>3. next \in PhaseNames /\ next \notin {"audit-complete", "custody-complete", "activated"}
  BY <1>1, <1>2, NamesOf, FollowingOf DEF Admits
<1>4. receipt' = [receipt EXCEPT !.phase = next]
  BY <1>1 DEF AdvanceCommit
<1>5. {"begin", "bind", "choose"} \subseteq Places
  BY DEF Places
<1> HIDE DEF next
<1>6. receipt' \in Receipts /\ receipt'.phase = next
  BY <1>3, <1>4 DEF ReleaseType, Receipts
<1>7. \/ next \in StartedPhases /\ PutAt(s, next, "begin") /\ UNCHANGED lock
      \/ next = "platform-complete" /\ s = "first" /\ PutAt(s, next, "bind") /\ UNCHANGED lock
      \/ Ends(s)
      \/ next \notin StartedPhases /\ PutAt(s, next, "choose") /\ UNCHANGED lock
  BY DEF AdvanceCommit, next
<1>8. \/ next \in StartedPhases /\ Goes(s, "begin", next) /\ UNCHANGED lock
      \/ next = "platform-complete" /\ s = "first" /\ Goes(s, "bind", next) /\ UNCHANGED lock
      \/ Stops(s)
      \/ next \notin StartedPhases /\ Goes(s, "choose", next) /\ UNCHANGED lock
  BY <1>3, <1>5, <1>7, PutAtEffect, EndsEffect
<1>9. Apart /\ UNCHANGED <<orphans, effects, begun>>
  BY DEF AdvanceCommit, Apart, Others
<1> QED
  BY <1>1, <1>2, <1>3, <1>6, <1>8, <1>9 DEF next

LEMMA BindEffect ==
  ASSUME ReleaseType, Bind
  PROVE  /\ RunAt("first", "bind")
         /\ receipt' \in Receipts /\ receipt'.phase = receipt.phase
         /\ Goes("first", "choose", Here("first"))
         /\ Apart /\ UNCHANGED <<lock, orphans, effects, begun>>
<1>1. receipt' \in Receipts /\ receipt'.phase = receipt.phase
  BY DEF Bind, ReleaseType, Receipts
<1>2. "first" \in Runs /\ "choose" \in Places
  BY DEF Runs, Places
<1> QED
  BY <1>1, <1>2, PutEffect DEF Bind, Apart, Others

LEMMA ReconcileEffect ==
  ASSUME ReleaseType, NEW s \in Runs, Reconcile(s), ViewInv(s)
  PROVE  /\ RunAt(s, "reconcile") /\ Here(s) = receipt.phase
         /\ \/ Stops(s) /\ UNCHANGED receipt
            \/ /\ Here(s) \in BoundPhases /\ Proof(Here(s))
               /\ receipt' \in Receipts /\ receipt'.phase = Following(receipt.phase)
               /\ Goes(s, "choose", Following(receipt.phase)) /\ UNCHANGED lock
         /\ Apart /\ UNCHANGED <<orphans, effects, begun>>
<1>1. Here(s) = receipt.phase
  BY DEF Reconcile, ViewInv, Active, RunAt
<1>2. CASE Reconciles(Here(s))
  <2> DEFINE next == Following(Here(s))
  <2>1. next \in PhaseNames
    BY <1>2, NamesOf, FollowingOf DEF Reconciles, BoundPhases
  <2>2. receipt' = [receipt EXCEPT !.phase = next] /\ PutAt(s, next, "choose")
    BY <1>2 DEF Reconcile
  <2> HIDE DEF next
  <2>3. receipt' \in Receipts /\ receipt'.phase = next
    BY <2>1, <2>2 DEF ReleaseType, Receipts
  <2>4. Goes(s, "choose", next)
    BY <2>1, <2>2, PutAtEffect DEF Places
  <2> QED
    BY <1>1, <1>2, <2>3, <2>4 DEF Reconcile, Reconciles, Apart, Others, next
<1>3. CASE ~Reconciles(Here(s))
  BY <1>1, <1>3, EndsEffect DEF Reconcile, Apart, Others
<1> QED
  BY <1>2, <1>3

LEMMA VerifyEffect ==
  ASSUME ReleaseType, NEW s \in Runs, Verify(s)
  PROVE  /\ RunAt(s, "verify")
         /\ Stops(s) \/ (Verified /\ Goes(s, "advance", Here(s)) /\ UNCHANGED lock)
         /\ Apart /\ UNCHANGED <<receipt, orphans, effects, begun>>
BY PutEffect, EndsEffect DEF Verify, Apart, Others, Places

LEMMA RunFailsEffect ==
  ASSUME ReleaseType, NEW s \in Runs, RunFails(s)
  PROVE  /\ shell[s].at \in {"confirm", "choose", "work", "prepare", "begin", "bind", "verify"}
         /\ Stops(s)
         /\ effects' = effects \/ (RunAt(s, "work") /\ effects' = effects \cup {Here(s)})
         /\ Apart /\ UNCHANGED <<receipt, orphans, begun>>
BY EndsEffect DEF RunFails, Apart, Others

LEMMA RunDiesEffect ==
  ASSUME ReleaseType, NEW s \in Runs, RunDies(s)
  PROVE  /\ ~RunAt(s, "none")
         /\ Stops(s) \/ (Goes(s, "none", "none") /\ UNCHANGED lock)
         /\ orphans' = orphans \/ (RunAt(s, "work") /\ orphans' = orphans \cup {Here(s)})
         /\ Apart /\ UNCHANGED <<receipt, effects, begun>>
BY EndsEffect, IdleEffect DEF RunDies, Apart, Others

LEMMA BeginEffect ==
  ASSUME ReleaseType, NEW s \in Runs, Begin(s)
  PROVE  /\ RunAt(s, "begin")
         /\ begun' \in [OncePhases -> 0..2]
         /\ \A ph \in OncePhases :
              begun'[ph] = IF ph = Here(s) /\ begun[ph] < 2 THEN begun[ph] + 1 ELSE begun[ph]
         /\ \/ /\ Here(s) = "platform-started" /\ PlatformBegin
               /\ Goes(s, "await", Here(s)) /\ UNCHANGED <<ceremonyVars, lock>>
            \/ Here(s) = "platform-started" /\ Stops(s) /\ Apart
            \/ /\ CeremonyOf(Here(s)) # "none" /\ CeremonyBegin(CeremonyOf(Here(s)))
               /\ Goes(s, "await", Here(s)) /\ UNCHANGED <<platformVars, lock>>
            \/ Here(s) = "activation-started" /\ Goes(s, "work", Here(s)) /\ Apart /\ UNCHANGED lock
         /\ UNCHANGED <<receipt, orphans, effects>>
<1>1. begun' \in [OncePhases -> 0..2]
  BY DEF Begin, ReleaseType
<1>2. {"await", "work"} \subseteq Places
  BY DEF Places
<1> QED
  BY <1>1, <1>2, PutEffect, EndsEffect DEF Begin, Apart, Others, RunAt

LEMMA AwaitPlatformEffect ==
  ASSUME ReleaseType, NEW s \in Runs, AwaitPlatform(s)
  PROVE  /\ RunAt(s, "await") /\ Here(s) = "platform-started" /\ PlatformLeft
         /\ Stops(s) \/ (platform.at = "ok" /\ Goes(s, "advance", Here(s)) /\ UNCHANGED lock)
         /\ UNCHANGED <<ceremonyVars, receipt, orphans, effects, begun>>
BY PutEffect, EndsEffect DEF AwaitPlatform, PlatformLeft, Places

LEMMA AwaitCeremonyEffect ==
  ASSUME ReleaseType, NEW s \in Runs, AwaitCeremony(s)
  PROVE  LET c == CeremonyOf(Here(s)) IN
         /\ RunAt(s, "await") /\ Here(s) # "platform-started" /\ CeremonyLeft(c)
         /\ \/ Stops(s)
            \/ /\ ceremony[c].at = "ok" /\ c = "bootstrap" /\ UNCHANGED lock
               /\ Goes(s, "advance", Here(s))
            \/ /\ ceremony[c].at = "ok" /\ c # "bootstrap" /\ UNCHANGED lock
               /\ Goes(s, "reconcile", Here(s))
         /\ UNCHANGED <<platformVars, receipt, orphans, effects, begun>>
<1>1. {"advance", "reconcile"} \subseteq Places
  BY DEF Places
<1> QED
  BY <1>1, PutEffect, EndsEffect DEF AwaitCeremony, CeremonyLeft

-----------------------------------------------------------------------------
(* The invariant of the release, part by part.                             *)

RunMove(s) == RunStep(s) \/ RunFails(s) \/ RunDies(s)
ReleaseStep ==
  \/ Record \/ Bind \/ ClearLock
  \/ \E s \in Resumes : ResumeRead(s)
  \/ \E s \in Runs : RunMove(s)
  \/ \E work \in WorkPhases : OrphanEnds(work)
ReleaseMove == ReleaseStep \/ UNCHANGED releaseVars

(* One disjunct for each action.                                           *)
LEMMA ReleaseCases ==
  ASSUME ReleaseMove
  PROVE  \/ Record \/ Bind \/ ClearLock \/ UNCHANGED releaseVars
         \/ \E s \in Resumes : ResumeRead(s)
         \/ \E s \in Runs : \/ ResumeLock(s) \/ ResumeReread(s) \/ Choose(s) \/ WorkDone(s)
                            \/ WorkRefused(s) \/ Prepare(s) \/ AdvanceRead(s) \/ AdvanceCommit(s)
                            \/ Reconcile(s) \/ Verify(s) \/ RunFails(s) \/ RunDies(s)
                            \/ Begin(s) \/ AwaitPlatform(s) \/ AwaitCeremony(s)
         \/ \E work \in WorkPhases : OrphanEnds(work)
BY DEF ReleaseMove, ReleaseStep, RunMove, RunStep

LEMMA RunNames ==
  /\ "first" \in Runs /\ Resumes \subseteq Runs /\ "first" \notin Resumes
  /\ \A s \in Runs : s # "first" => s \in Resumes
BY ResumesAssumption DEF Runs

LEMMA NoneIsNoPhase == "none" \notin PhaseNames
BY NamesOf

(* One run is at work at a time.                                           *)
LEMMA OneActive ==
  ASSUME LockInv, NEW s \in Runs, NEW t \in Runs, Active(s), Active(t)
  PROVE  s = t
BY RunNames DEF LockInv, Active, Locked, RunAt

LEMMA RunHasReceipt ==
  ASSUME LockInv, NEW s \in Runs, shell[s].at # "none"
  PROVE  receipt.phase # "none"
BY DEF LockInv, RunAt

(* A run that goes on keeps what it has; one that stops gives it back, or  *)
(* leaves it behind.                                                       *)
LEMMA LockGoes ==
  ASSUME ReleaseType, LockInv, NEW s \in Runs, shell[s].at \notin {"none", "confirm"},
         NEW at, NEW ph, Goes(s, at, ph), at \notin {"none", "confirm", "reread"},
         UNCHANGED lock, receipt'.phase # "none"
  PROVE  LockInv'
<1>1. \A t \in Resumes : Locked(t)' => Locked(t)
  BY RunNames DEF Locked, Goes
<1>2. RunAt("first", "none")' => RunAt("first", "none")
  BY RunNames DEF RunAt, Goes
<1>3. ~RunAt("first", "none")' => \A t \in Resumes : RunAt(t, "none")'
  <2>1. CASE s = "first"
    BY <2>1, RunNames DEF LockInv, RunAt, Goes
  <2>2. CASE s # "first"
    BY <2>2, RunNames DEF LockInv, RunAt, Goes
  <2> QED
    BY <2>1, <2>2
<1> QED
  BY <1>1, <1>3, RunNames DEF LockInv, Goes

LEMMA LockStops ==
  ASSUME ReleaseType, LockInv, NEW s \in Runs, shell[s].at # "none",
         Stops(s) \/ (Goes(s, "none", "none") /\ UNCHANGED lock), receipt'.phase # "none"
  PROVE  LockInv'
<1>1. Goes(s, "none", "none")
  BY DEF Stops
<1>2. \A t \in Resumes : Locked(t)' => Locked(t) /\ t # s
  BY <1>1, RunNames DEF Locked, Goes
<1>3. ASSUME NEW t \in Resumes, Locked(t)' PROVE lock'
  <2>1. Locked(t) /\ t # s /\ lock
    BY <1>2, <1>3 DEF LockInv
  <2>2. ~Locked(s)
    BY <2>1, RunNames DEF LockInv, Locked
  <2> QED
    BY <2>1, <2>2 DEF Stops
<1>4. ~RunAt("first", "none")' => \A t \in Resumes : RunAt(t, "none")'
  BY <1>1, RunNames DEF LockInv, RunAt, Goes
<1>5. shell'["first"].at \notin {"confirm", "reread"}
  BY <1>1, RunNames DEF LockInv, Goes
<1> QED
  BY <1>2, <1>3, <1>4, <1>5 DEF LockInv

(* The view of the runs after a step of one of them.                       *)
LEMMA ViewGoes ==
  ASSUME ReleaseType, LockInv, \A r \in Runs : ViewInv(r), NEW s \in Runs,
         NEW at, NEW ph, Goes(s, at, ph), at # "commit", Fits(s, at, ph),
         at \in {"none", "confirm", "reread"} \/ ph = receipt'.phase,
         receipt' = receipt \/ Active(s), NEW t \in Runs
  PROVE  ViewInv(t)'
<1>1. CASE t = s
  BY <1>1 DEF ViewInv, Goes, Active, RunAt, Here
<1>2. CASE t # s /\ receipt' = receipt
  BY <1>2 DEF ViewInv, Goes, Active, RunAt, Here, Admits
<1>3. CASE t # s /\ Active(s)
  <2>1. ~Active(t)
    BY <1>3, OneActive
  <2> QED
    BY <1>3, <2>1 DEF ViewInv, Goes, Active, RunAt, Here, Fits
<1> QED
  BY <1>1, <1>2, <1>3

LEMMA ViewStops ==
  ASSUME ReleaseType, LockInv, \A r \in Runs : ViewInv(r), NEW s \in Runs,
         Goes(s, "none", "none"), receipt' = receipt \/ Active(s), NEW t \in Runs
  PROVE  ViewInv(t)'
<1>1. Fits(s, "none", "none")
  BY DEF Fits
<1> QED
  BY <1>1, ViewGoes

(* A run at work sees the receipt as it is.                                *)
LEMMA ViewHere ==
  ASSUME ReleaseType, NEW s \in Runs, ViewInv(s), Active(s)
  PROVE  Here(s) = receipt.phase /\ Fits(s, shell[s].at, receipt.phase)
BY DEF ViewInv

LEMMA ReleaseTypeStep ==
  ASSUME ReleaseType, LockInv, \A s \in Runs : ViewInv(s), ReleaseMove,
         mishaps' \in 0..MaxMishaps
  PROVE  ReleaseType'
<1>1. CASE Record
  BY <1>1, RecordEffect, RunNames DEF ReleaseType, Goes, Stops
<1>2. ASSUME NEW s \in Resumes, ResumeRead(s) PROVE ReleaseType'
  BY <1>2, ResumeReadEffect, RunNames DEF ReleaseType, Goes, Stops
<1>3. ASSUME NEW s \in Runs, ResumeLock(s) PROVE ReleaseType'
  BY <1>3, ResumeLockEffect, RunNames DEF ReleaseType, Goes, Stops
<1>4. ASSUME NEW s \in Runs, ResumeReread(s) PROVE ReleaseType'
  BY <1>4, ResumeRereadEffect, RunNames DEF ReleaseType, Goes, Stops
<1>5. ASSUME NEW s \in Runs, Choose(s) PROVE ReleaseType'
  BY <1>5, ChooseEffect, RunNames DEF ReleaseType, Goes, Stops
<1>6. ASSUME NEW s \in Runs, WorkDone(s) PROVE ReleaseType'
  <2>1. Here(s) \in WorkPhases
    BY <1>6, WorkDoneEffect DEF ViewInv, Fits, RunAt
  <2> QED
    BY <1>6, <2>1, WorkDoneEffect DEF ReleaseType, Goes, Stops
<1>7. ASSUME NEW s \in Runs, WorkRefused(s) PROVE ReleaseType'
  BY <1>7, WorkRefusedEffect, RunNames DEF ReleaseType, Goes, Stops
<1>8. ASSUME NEW s \in Runs, Prepare(s) PROVE ReleaseType'
  BY <1>8, PrepareEffect, RunNames DEF ReleaseType, Goes, Stops
<1>9. ASSUME NEW s \in Runs, AdvanceRead(s) PROVE ReleaseType'
  BY <1>9, AdvanceReadEffect, RunNames DEF ReleaseType, Goes, Stops
<1>10. ASSUME NEW s \in Runs, AdvanceCommit(s) PROVE ReleaseType'
  BY <1>10, AdvanceCommitEffect, RunNames DEF ReleaseType, Goes, Stops
<1>11. ASSUME NEW s \in Runs, Reconcile(s) PROVE ReleaseType'
  BY <1>11, ReconcileEffect, RunNames DEF ReleaseType, Goes, Stops
<1>12. ASSUME NEW s \in Runs, Verify(s) PROVE ReleaseType'
  BY <1>12, VerifyEffect, RunNames DEF ReleaseType, Goes, Stops
<1>13. ASSUME NEW s \in Runs, RunFails(s) PROVE ReleaseType'
  <2>1. RunAt(s, "work") => Here(s) \in WorkPhases
    BY DEF ViewInv, Fits, RunAt
  <2>2. effects' \subseteq WorkPhases
    BY <1>13, <2>1, RunFailsEffect DEF ReleaseType
  <2> QED
    BY <1>13, <2>2, RunFailsEffect, RunNames DEF ReleaseType, Goes, Stops
<1>14. ASSUME NEW s \in Runs, RunDies(s) PROVE ReleaseType'
  <2>1. RunAt(s, "work") => Here(s) \in WorkPhases
    BY DEF ViewInv, Fits, RunAt
  <2>2. orphans' \subseteq WorkPhases
    BY <1>14, <2>1, RunDiesEffect DEF ReleaseType
  <2>3. lock' \in BOOLEAN
    BY <1>14, RunDiesEffect DEF ReleaseType, Stops
  <2> QED
    BY <1>14, <2>2, <2>3, RunDiesEffect, RunNames DEF ReleaseType, Goes, Stops
<1>15. ASSUME NEW s \in Runs, Begin(s) PROVE ReleaseType'
  BY <1>15, BeginEffect, RunNames DEF ReleaseType, Goes, Stops
<1>16. ASSUME NEW s \in Runs, AwaitPlatform(s) PROVE ReleaseType'
  BY <1>16, AwaitPlatformEffect, RunNames DEF ReleaseType, Goes, Stops
<1>17. ASSUME NEW s \in Runs, AwaitCeremony(s) PROVE ReleaseType'
  BY <1>17, AwaitCeremonyEffect, RunNames DEF ReleaseType, Goes, Stops
<1>18. CASE Bind
  BY <1>18, BindEffect, RunNames DEF ReleaseType, Goes, Stops
<1>19. ASSUME NEW work \in WorkPhases, OrphanEnds(work) PROVE ReleaseType'
  BY <1>19, RunNames DEF OrphanEnds, Apart, Others, ReleaseType, Goes, Stops
<1>20. CASE ClearLock
  BY <1>20, RunNames DEF ClearLock, Apart, Others, ReleaseType, Goes, Stops
<1>21. CASE UNCHANGED releaseVars
  BY <1>21, RunNames DEF releaseVars, ReleaseType, Goes, Stops
<1> QED
  BY ReleaseCases, <1>1, <1>2, <1>3, <1>4, <1>5, <1>6, <1>7, <1>8, <1>9, <1>10, <1>11, <1>12,
     <1>13, <1>14, <1>15, <1>16, <1>17, <1>18, <1>19, <1>20, <1>21

LEMMA LockStep ==
  ASSUME ReleaseType, LockInv, \A s \in Runs : ViewInv(s), ReleaseMove
  PROVE  LockInv'
<1>1. CASE Record
  <2>1. /\ RunAt("first", "none") /\ receipt = NoReceipt /\ receipt'.phase = "infrastructure"
        /\ Goes("first", "choose", "infrastructure") /\ lock' = lock
    BY <1>1, RecordEffect
  <2>2. receipt.phase = "none"
    BY <2>1 DEF NoReceipt
  <2>3. \A t \in Resumes : shell'[t].at = "none"
    BY <2>1, <2>2, RunNames DEF LockInv, RunAt, Goes
  <2>4. shell'["first"].at = "choose"
    BY <2>1 DEF Goes
  <2> QED
    BY <2>1, <2>3, <2>4 DEF LockInv, Locked, RunAt
<1>2. ASSUME NEW s \in Resumes, ResumeRead(s) PROVE LockInv'
  BY <1>2, ResumeReadEffect, RunNames, NoneIsNoPhase DEF RunAt, LockInv, Goes, Locked
<1>3. ASSUME NEW s \in Runs, ResumeLock(s) PROVE LockInv'
  <2>1. /\ RunAt(s, "confirm") /\ receipt' = receipt
        /\ \/ lock /\ Goes(s, "none", "none") /\ UNCHANGED lock
           \/ ~lock /\ Goes(s, "reread", Here(s)) /\ lock' = TRUE
    BY <1>3, ResumeLockEffect
  <2>2. s \in Resumes /\ receipt.phase # "none" /\ RunAt("first", "none")
    BY <2>1, RunNames, RunHasReceipt DEF LockInv, RunAt
  <2>3. CASE lock /\ Goes(s, "none", "none") /\ UNCHANGED lock
    BY <2>1, <2>2, <2>3, RunNames, LockStops DEF RunAt
  <2>4. CASE ~lock /\ Goes(s, "reread", Here(s)) /\ lock' = TRUE
    <3>1. \A t \in Resumes : Locked(t)' => t = s
      BY <2>4, RunNames DEF LockInv, Locked, Goes
    <3>2. RunAt("first", "none")'
      BY <2>2, <2>4, RunNames DEF RunAt, Goes
    <3> QED
      BY <2>1, <2>2, <2>4, <3>1, <3>2 DEF LockInv, RunAt
  <2> QED
    BY <2>1, <2>3, <2>4
<1>4. ASSUME NEW s \in Runs, ResumeReread(s) PROVE LockInv'
  BY <1>4, ResumeRereadEffect, RunNames, NoneIsNoPhase, RunHasReceipt, LockGoes, LockStops DEF
     RunAt
<1>5. ASSUME NEW s \in Runs, Choose(s) PROVE LockInv'
  BY <1>5, ChooseEffect, RunNames, NoneIsNoPhase, RunHasReceipt, LockGoes, LockStops DEF RunAt
<1>6. ASSUME NEW s \in Runs, WorkDone(s) PROVE LockInv'
  BY <1>6, WorkDoneEffect, RunNames, NoneIsNoPhase, RunHasReceipt, LockGoes, LockStops DEF
     RunAt
<1>7. ASSUME NEW s \in Runs, WorkRefused(s) PROVE LockInv'
  BY <1>7, WorkRefusedEffect, RunNames, NoneIsNoPhase, RunHasReceipt, LockGoes, LockStops DEF
     RunAt
<1>8. ASSUME NEW s \in Runs, Prepare(s) PROVE LockInv'
  BY <1>8, PrepareEffect, RunNames, NoneIsNoPhase, RunHasReceipt, LockGoes, LockStops DEF
     RunAt
<1>9. ASSUME NEW s \in Runs, AdvanceRead(s) PROVE LockInv'
  BY <1>9, AdvanceReadEffect, RunNames, NoneIsNoPhase, RunHasReceipt, LockGoes, LockStops DEF
     RunAt
<1>10. ASSUME NEW s \in Runs, AdvanceCommit(s) PROVE LockInv'
  BY <1>10, AdvanceCommitEffect, RunNames, NoneIsNoPhase, RunHasReceipt, LockGoes, LockStops
     DEF RunAt
<1>11. ASSUME NEW s \in Runs, Reconcile(s) PROVE LockInv'
  <2>1. receipt.phase # "none" /\ (Here(s) \in BoundPhases => Following(Here(s)) # "none")
    BY <1>11, ReconcileEffect, RunHasReceipt, FollowingOf DEF RunAt, BoundPhases
  <2> QED
    BY <1>11, <2>1, ReconcileEffect, LockGoes, LockStops DEF RunAt
<1>12. ASSUME NEW s \in Runs, Verify(s) PROVE LockInv'
  BY <1>12, VerifyEffect, RunNames, NoneIsNoPhase, RunHasReceipt, LockGoes, LockStops DEF
     RunAt
<1>13. ASSUME NEW s \in Runs, RunFails(s) PROVE LockInv'
  BY <1>13, RunFailsEffect, RunNames, NoneIsNoPhase, RunHasReceipt, LockGoes, LockStops DEF
     RunAt
<1>14. ASSUME NEW s \in Runs, RunDies(s) PROVE LockInv'
  BY <1>14, RunDiesEffect, RunNames, NoneIsNoPhase, RunHasReceipt, LockGoes, LockStops DEF
     RunAt
<1>15. ASSUME NEW s \in Runs, Begin(s) PROVE LockInv'
  BY <1>15, BeginEffect, RunNames, NoneIsNoPhase, RunHasReceipt, LockGoes, LockStops DEF RunAt
<1>16. ASSUME NEW s \in Runs, AwaitPlatform(s) PROVE LockInv'
  BY <1>16, AwaitPlatformEffect, RunNames, NoneIsNoPhase, RunHasReceipt, LockGoes, LockStops
     DEF RunAt
<1>17. ASSUME NEW s \in Runs, AwaitCeremony(s) PROVE LockInv'
  BY <1>17, AwaitCeremonyEffect, RunNames, NoneIsNoPhase, RunHasReceipt, LockGoes, LockStops
     DEF RunAt
<1>18. CASE Bind
  BY <1>18, BindEffect, RunNames, NoneIsNoPhase, RunHasReceipt, LockGoes DEF RunAt
<1>19. ASSUME NEW work \in WorkPhases, OrphanEnds(work) PROVE LockInv'
  BY <1>19, RunNames, NoneIsNoPhase DEF OrphanEnds, Apart, Others, RunAt, LockInv, Goes,
     Locked
<1>20. CASE ClearLock
  BY <1>20, RunNames, NoneIsNoPhase DEF ClearLock, Apart, Others, RunAt, LockInv, Goes, Locked
<1>21. CASE UNCHANGED releaseVars
  BY <1>21, RunNames, NoneIsNoPhase DEF releaseVars, RunAt, LockInv, Goes, Locked
<1> QED
  BY ReleaseCases, <1>1, <1>2, <1>3, <1>4, <1>5, <1>6, <1>7, <1>8, <1>9, <1>10, <1>11, <1>12,
     <1>13, <1>14, <1>15, <1>16, <1>17, <1>18, <1>19, <1>20, <1>21

LEMMA ViewStep ==
  ASSUME ReleaseType, LockInv, \A s \in Runs : ViewInv(s), ReleaseMove, NEW t \in Runs
  PROVE  ViewInv(t)'
<1>1. CASE Record
  <2>1. ~Active("first") /\ \A r \in Runs : ~Active(r)
    BY <1>1, RecordEffect DEF LockInv, RunAt, Active, NoReceipt
  <2>2. Goes("first", "choose", receipt'.phase)
    BY <1>1, RecordEffect
  <2> QED
    BY <2>1, <2>2, RunNames DEF ViewInv, Goes, Active, RunAt, Here, Fits
<1>2. ASSUME NEW s \in Resumes, ResumeRead(s) PROVE ViewInv(t)'
  <2>1. Fits(s, "confirm", receipt.phase)
    BY DEF Fits
  <2> QED
    BY <1>2, <2>1, ResumeReadEffect, RunNames, ViewGoes
<1>3. ASSUME NEW s \in Runs, ResumeLock(s) PROVE ViewInv(t)'
  <2>1. Fits(s, "reread", Here(s))
    BY DEF Fits
  <2> QED
    BY <1>3, <2>1, ResumeLockEffect, ViewStops, ViewGoes
<1>4. ASSUME NEW s \in Runs, ResumeReread(s) PROVE ViewInv(t)'
  <2>1. Fits(s, "choose", Here(s)) /\ (Here(s) = "platform-started" => Fits(s, "begin", Here(s)))
    BY DEF Fits, StartedPhases
  <2> QED
    BY <1>4, <2>1, ResumeRereadEffect, ViewStops, ViewGoes DEF Stops
<1>5. ASSUME NEW s \in Runs, Choose(s) PROVE ViewInv(t)'
  <2>1. Active(s)
    BY <1>5, ChooseEffect DEF Active, RunAt
  <2>2. Here(s) = receipt.phase /\ Fits(s, shell[s].at, receipt.phase)
    BY <2>1, ViewHere
  <2>3. /\ Here(s) \in WorkPhases \ BoundPhases => Fits(s, "work", receipt.phase)
        /\ Here(s) \in PreparePhases => Fits(s, "prepare", receipt.phase)
        /\ Fits(s, "advance", receipt.phase)
        /\ Here(s) \in BoundPhases => Fits(s, "reconcile", receipt.phase)
        /\ Here(s) = "vault-started" => Fits(s, "verify", receipt.phase)
    BY <1>5, <2>2, ChooseEffect DEF Fits, RunAt
  <2> QED
    BY <1>5, <2>1, <2>2, <2>3, ChooseEffect, ViewStops, ViewGoes DEF Stops
<1>6. ASSUME NEW s \in Runs, WorkDone(s) PROVE ViewInv(t)'
  <2>1. Active(s)
    BY <1>6, WorkDoneEffect DEF Active, RunAt
  <2>2. Here(s) = receipt.phase /\ Fits(s, shell[s].at, receipt.phase)
    BY <2>1, ViewHere
  <2>3. /\ Fits(s, "advance", receipt.phase)
        /\ Here(s) = "activation-started" => Fits(s, "reconcile", receipt.phase)
    BY <1>6, <2>2, WorkDoneEffect DEF Fits, RunAt, BoundPhases
  <2> QED
    BY <1>6, <2>1, <2>2, <2>3, WorkDoneEffect, ViewStops, ViewGoes DEF Stops
<1>7. ASSUME NEW s \in Runs, WorkRefused(s) PROVE ViewInv(t)'
  <2>1. Active(s)
    BY <1>7, WorkRefusedEffect DEF Active, RunAt
  <2>2. Here(s) = receipt.phase /\ Fits(s, shell[s].at, receipt.phase)
    BY <2>1, ViewHere
  <2> QED
    BY <1>7, <2>1, <2>2, WorkRefusedEffect, ViewStops, ViewGoes DEF Stops
<1>8. ASSUME NEW s \in Runs, Prepare(s) PROVE ViewInv(t)'
  <2>1. Active(s)
    BY <1>8, PrepareEffect DEF Active, RunAt
  <2>2. Here(s) = receipt.phase /\ Fits(s, shell[s].at, receipt.phase)
    BY <2>1, ViewHere
  <2>3. Fits(s, "advance", receipt.phase)
    BY <1>8, <2>2, PrepareEffect DEF Fits, RunAt
  <2> QED
    BY <1>8, <2>1, <2>2, <2>3, PrepareEffect, ViewStops, ViewGoes DEF Stops
<1>9. ASSUME NEW s \in Runs, AdvanceRead(s) PROVE ViewInv(t)'
  <2>1. Active(s)
    BY <1>9, AdvanceReadEffect DEF Active, RunAt
  <2>2. Here(s) = receipt.phase /\ Fits(s, shell[s].at, receipt.phase)
    BY <2>1, ViewHere
  <2>3. CASE /\ Goes(s, "commit", Here(s)) /\ shell'[s].copy = receipt
             /\ Admits(Following(Here(s))) /\ receipt' = receipt
    <3>1. CASE t = s
      BY <2>2, <2>3, <3>1 DEF ViewInv, Goes, Active, RunAt, Here, Admits, Fits
    <3>2. CASE t # s
      BY <2>3, <3>2 DEF ViewInv, Goes, Active, RunAt, Here, Admits, Fits
    <3> QED
      BY <3>1, <3>2
  <2>4. CASE Stops(s) /\ receipt' = receipt
    BY <2>4, ViewStops DEF Stops
  <2> QED
    BY <1>9, <2>1, <2>2, <2>4, AdvanceReadEffect, <2>3 DEF Apart
<1>10. ASSUME NEW s \in Runs, AdvanceCommit(s) PROVE ViewInv(t)'
  <2>1. Active(s)
    BY <1>10, AdvanceCommitEffect DEF Active, RunAt
  <2>2. Here(s) = receipt.phase /\ Fits(s, shell[s].at, receipt.phase)
    BY <2>1, ViewHere
  <2>3. LET next == Following(Here(s)) IN
        /\ next \in StartedPhases => Fits(s, "begin", next)
        /\ next = "platform-complete" /\ s = "first" => Fits(s, "bind", next)
        /\ Fits(s, "choose", next)
    BY <1>10, <2>2, AdvanceCommitEffect DEF Fits, RunAt
  <2> QED
    BY <1>10, <2>1, <2>2, <2>3, AdvanceCommitEffect, ViewStops, ViewGoes DEF Stops
<1>11. ASSUME NEW s \in Runs, Reconcile(s) PROVE ViewInv(t)'
  <2>1. Active(s)
    BY <1>11, ReconcileEffect DEF Active, RunAt
  <2>2. Here(s) = receipt.phase /\ Fits(s, shell[s].at, receipt.phase)
    BY <2>1, ViewHere
  <2>3. Fits(s, "choose", Following(receipt.phase))
    BY <1>11, <2>2, ReconcileEffect DEF Fits, RunAt
  <2> QED
    BY <1>11, <2>1, <2>2, <2>3, ReconcileEffect, ViewStops, ViewGoes DEF Stops
<1>12. ASSUME NEW s \in Runs, Verify(s) PROVE ViewInv(t)'
  <2>1. Active(s)
    BY <1>12, VerifyEffect DEF Active, RunAt
  <2>2. Here(s) = receipt.phase /\ Fits(s, shell[s].at, receipt.phase)
    BY <2>1, ViewHere
  <2>3. Fits(s, "advance", receipt.phase)
    BY <1>12, <2>2, VerifyEffect DEF Fits, RunAt
  <2> QED
    BY <1>12, <2>1, <2>2, <2>3, VerifyEffect, ViewStops, ViewGoes DEF Stops
<1>13. ASSUME NEW s \in Runs, RunFails(s) PROVE ViewInv(t)'
  BY <1>13, RunFailsEffect, ViewStops DEF Stops
<1>14. ASSUME NEW s \in Runs, RunDies(s) PROVE ViewInv(t)'
  BY <1>14, RunDiesEffect, ViewStops DEF Stops
<1>15. ASSUME NEW s \in Runs, Begin(s) PROVE ViewInv(t)'
  <2>1. Active(s)
    BY <1>15, BeginEffect DEF Active, RunAt
  <2>2. Here(s) = receipt.phase /\ Fits(s, shell[s].at, receipt.phase)
    BY <2>1, ViewHere
  <2>3. /\ Here(s) = "platform-started" \/ CeremonyOf(Here(s)) # "none" =>
             Fits(s, "await", receipt.phase)
        /\ Here(s) = "activation-started" => Fits(s, "work", receipt.phase)
    BY <1>15, <2>2, BeginEffect DEF Fits, RunAt, StartedPhases, WorkPhases, CeremonyOf
  <2> QED
    BY <1>15, <2>1, <2>2, <2>3, BeginEffect, ViewStops, ViewGoes DEF Stops
<1>16. ASSUME NEW s \in Runs, AwaitPlatform(s) PROVE ViewInv(t)'
  <2>1. Active(s)
    BY <1>16, AwaitPlatformEffect DEF Active, RunAt
  <2>2. Here(s) = receipt.phase /\ Fits(s, shell[s].at, receipt.phase)
    BY <2>1, ViewHere
  <2>3. Fits(s, "advance", receipt.phase)
    BY <1>16, <2>2, AwaitPlatformEffect DEF Fits, RunAt
  <2> QED
    BY <1>16, <2>1, <2>2, <2>3, AwaitPlatformEffect, ViewStops, ViewGoes DEF Stops
<1>17. ASSUME NEW s \in Runs, AwaitCeremony(s) PROVE ViewInv(t)'
  <2>1. Active(s)
    BY <1>17, AwaitCeremonyEffect DEF Active, RunAt
  <2>2. Here(s) = receipt.phase /\ Fits(s, shell[s].at, receipt.phase)
    BY <2>1, ViewHere
  <2>3. /\ Fits(s, "advance", receipt.phase)
        /\ CeremonyOf(Here(s)) # "bootstrap" => Fits(s, "reconcile", receipt.phase)
    BY <1>17, <2>2, AwaitCeremonyEffect DEF Fits, RunAt, StartedPhases, BoundPhases, CeremonyOf
  <2> QED
    BY <1>17, <2>1, <2>2, <2>3, AwaitCeremonyEffect, ViewStops, ViewGoes DEF Stops
<1>18. CASE Bind
  <2>1. Active("first") /\ RunAt("first", "bind")
    BY <1>18, BindEffect DEF Active, RunAt
  <2>2. Here("first") = receipt.phase /\ Fits("first", "choose", receipt.phase)
    BY <2>1, RunNames, ViewHere DEF Fits
  <2> QED
    BY <1>18, <2>1, <2>2, BindEffect, RunNames, ViewGoes
<1>19. CASE UNCHANGED <<receipt, shell>>
  BY <1>19 DEF ViewInv, Active, RunAt, Here, Admits
<1> QED
  BY ReleaseCases, <1>1, <1>2, <1>3, <1>4, <1>5, <1>6, <1>7, <1>8, <1>9, <1>10, <1>11, <1>12, <1>13, <1>14, <1>15, <1>16, <1>17, <1>18, <1>19
     DEF OrphanEnds, ClearLock, releaseVars

(* The phase of the receipt never goes back.                               *)
LEMMA ReachedKept ==
  ASSUME ReleaseType, receipt'.phase = receipt.phase \/ receipt.phase # "complete",
         receipt'.phase = receipt.phase \/ receipt'.phase = Following(receipt.phase),
         NEW ph \in PhaseNames
  PROVE  Reached(ph) => Reached(ph)'
<1>1. CASE receipt'.phase = receipt.phase
  BY <1>1 DEF Reached
<1>2. CASE receipt'.phase # receipt.phase /\ receipt.phase \in PhaseNames
  BY <1>2, ReachedNext
<1>3. CASE receipt.phase \notin PhaseNames
  BY <1>3 DEF Reached, ReleaseType, Receipts
<1> QED
  BY <1>1, <1>2, <1>3

(* What a run that goes somewhere means for those about to begin, and for  *)
(* those that wait.                                                        *)
LEMMA BeginsGoes ==
  ASSUME NEW s \in Runs, NEW at, NEW p, Goes(s, at, p), NEW ph, at # "begin" \/ p # ph
  PROVE  Begins(ph)' => Begins(ph)
BY DEF Begins, RunAt, Here, Goes
LEMMA AwaitedGoes ==
  ASSUME NEW s \in Runs, NEW at, NEW p, Goes(s, at, p), NEW ph, at # "await" \/ p # ph
  PROVE  Awaited(ph)' => Awaited(ph)
BY DEF Awaited, RunAt, Here, Goes
LEMMA OneBegins ==
  ASSUME LockInv, NEW s \in Runs, Active(s), NEW at, NEW p, Goes(s, at, p), NEW ph
  PROVE  /\ at # "begin" \/ p # ph => ~Begins(ph)'
         /\ at # "await" \/ p # ph => ~Awaited(ph)'
<1>1. \A t \in Runs : t # s => ~Active(t)
  BY OneActive
<1>2. \A t \in Runs : t # s => shell'[t].at \notin {"begin", "await"}
  BY <1>1 DEF Active, Goes
<1> QED
  BY <1>2 DEF Begins, Awaited, RunAt, Here, Goes

(* How the release moves: the phase stays or is followed by the next one,  *)
(* a work begins only where it is announced, and only Begin counts one.    *)
Calm ==
  /\ receipt'.phase = receipt.phase /\ begun' = begun
  /\ \A ph \in OncePhases : (Begins(ph)' => Begins(ph)) /\ (Awaited(ph)' => Awaited(ph))
Forward(s) ==
  /\ Active(s) /\ receipt.phase \in PhaseNames /\ receipt.phase # "complete"
  /\ receipt'.phase = Following(receipt.phase) /\ begun' = begun
  /\ \A ph \in OncePhases : (Begins(ph)' => ph = receipt'.phase) /\ ~Awaited(ph)'
  /\ UNCHANGED <<platformVars, ceremonyVars, effects>>
  /\ AdvanceCommit(s) \/ (receipt.phase \in BoundPhases /\ Proof(receipt.phase))
LEMMA CalmGoes ==
  ASSUME NEW s \in Runs, NEW at, NEW p, Goes(s, at, p), at # "begin" \/ p \notin OncePhases,
         at # "await", receipt'.phase = receipt.phase, begun' = begun
  PROVE  Calm
BY BeginsGoes, AwaitedGoes DEF Calm
LEMMA ReleaseKinds ==
  ASSUME ReleaseType, LockInv, \A s \in Runs : ViewInv(s), ReleaseMove
  PROVE  Calm \/ Record \/ \E s \in Runs : Forward(s) \/ Begin(s)
<1>1. ASSUME NEW s \in Resumes, ResumeRead(s) PROVE Calm
  BY <1>1, ResumeReadEffect, RunNames, CalmGoes
<1>2. ASSUME NEW s \in Runs, ResumeLock(s) PROVE Calm
  BY <1>2, ResumeLockEffect, CalmGoes
<1>3. ASSUME NEW s \in Runs, ResumeReread(s) PROVE Calm
  <2>1. \/ Goes(s, "none", "none") \/ Goes(s, "choose", Here(s))
        \/ Goes(s, "begin", "platform-started")
    BY <1>3, ResumeRereadEffect DEF Stops
  <2> QED
    BY <1>3, <2>1, ResumeRereadEffect, CalmGoes DEF OncePhases
<1>4. ASSUME NEW s \in Runs, Choose(s) PROVE Calm
  BY <1>4, ChooseEffect, CalmGoes
<1>5. ASSUME NEW s \in Runs, WorkDone(s) \/ WorkRefused(s) PROVE Calm
  <2>1. \E at \in {"none", "reconcile", "advance"} : \E p : Goes(s, at, p)
    BY <1>5, WorkDoneEffect, WorkRefusedEffect DEF Stops
  <2>2. receipt' = receipt /\ begun' = begun
    BY <1>5, WorkDoneEffect, WorkRefusedEffect
  <2> QED
    BY <2>1, <2>2, CalmGoes
<1>6. ASSUME NEW s \in Runs, Prepare(s) PROVE Calm
  BY <1>6, PrepareEffect, CalmGoes DEF Stops
<1>7. ASSUME NEW s \in Runs, AdvanceRead(s) PROVE Calm
  BY <1>7, AdvanceReadEffect, CalmGoes DEF Stops
<1>8. ASSUME NEW s \in Runs, AdvanceCommit(s) PROVE Forward(s)
  <2>1. Active(s)
    BY <1>8, AdvanceCommitEffect DEF Active, RunAt
  <2>2. \E at \in {"begin", "bind", "choose", "none"} : \E p :
          Goes(s, at, p) /\ (at = "begin" => p = receipt'.phase)
    BY <1>8, AdvanceCommitEffect DEF Stops
  <2>3. \A ph \in OncePhases : (Begins(ph)' => ph = receipt'.phase) /\ ~Awaited(ph)'
    BY <2>1, <2>2, OneBegins
  <2>4. /\ receipt.phase \in PhaseNames /\ receipt.phase # "complete"
        /\ receipt'.phase = Following(receipt.phase)
        /\ UNCHANGED <<platformVars, ceremonyVars, effects, begun>>
    BY <1>8, AdvanceCommitEffect DEF Apart
  <2> QED
    BY <1>8, <2>1, <2>3, <2>4 DEF Forward
<1>9. ASSUME NEW s \in Runs, Reconcile(s) PROVE Calm \/ Forward(s)
  <2>1. Active(s)
    BY <1>9, ReconcileEffect DEF Active, RunAt
  <2>2. CASE Stops(s) /\ UNCHANGED receipt
    BY <1>9, <2>2, ReconcileEffect, CalmGoes DEF Stops
  <2>3. CASE /\ Here(s) \in BoundPhases /\ receipt'.phase = Following(receipt.phase)
             /\ Goes(s, "choose", Following(receipt.phase))
    <3>1. /\ receipt.phase \in PhaseNames /\ receipt.phase # "complete"
          /\ receipt.phase \in BoundPhases /\ Proof(receipt.phase)
          /\ UNCHANGED <<platformVars, ceremonyVars, effects, begun>>
      <4>1. receipt.phase \in BoundPhases /\ UNCHANGED <<platformVars, ceremonyVars, effects, begun>>
        BY <1>9, <2>3, ReconcileEffect DEF Apart
      <4>2. Reconciles(Here(s)) \/ UNCHANGED receipt
        BY <1>9 DEF Reconcile
      <4>3. receipt'.phase # receipt.phase
        BY <2>3, <4>1, FollowingOf DEF BoundPhases
      <4>4. Proof(receipt.phase)
        BY <4>2, <4>3 DEF Reconciles
      <4> QED
        BY <4>1, <4>4, NamesOf DEF BoundPhases
    <3> QED
      BY <2>1, <2>3, <3>1, OneBegins DEF Forward
  <2> QED
    BY <1>9, <2>2, <2>3, ReconcileEffect
<1>10. ASSUME NEW s \in Runs, Verify(s) PROVE Calm
  BY <1>10, VerifyEffect, CalmGoes DEF Stops
<1>11. ASSUME NEW s \in Runs, RunFails(s) \/ RunDies(s) PROVE Calm
  BY <1>11, RunFailsEffect, RunDiesEffect, CalmGoes DEF Stops
<1>12. ASSUME NEW s \in Runs, AwaitPlatform(s) \/ AwaitCeremony(s) PROVE Calm
  <2>1. \E at \in {"none", "reconcile", "advance"} : \E p : Goes(s, at, p)
    BY <1>12, AwaitPlatformEffect, AwaitCeremonyEffect DEF Stops
  <2>2. receipt' = receipt /\ begun' = begun
    BY <1>12, AwaitPlatformEffect, AwaitCeremonyEffect
  <2> QED
    BY <2>1, <2>2, CalmGoes
<1>13. CASE Bind
  BY <1>13, BindEffect, RunNames, CalmGoes
<1>14. CASE UNCHANGED <<receipt, shell, begun>>
  BY <1>14 DEF Calm, Begins, Awaited, RunAt, Here
<1> QED
  BY ReleaseCases, <1>1, <1>2, <1>3, <1>4, <1>5, <1>6, <1>7, <1>8, <1>9, <1>10, <1>11, <1>12,
     <1>13, <1>14 DEF OrphanEnds, ClearLock, releaseVars

LEMMA OnceNames ==
  /\ OncePhases = {"vault-started", "audit-started", "custody-started", "activation-started"}
  /\ OncePhases \subseteq PhaseNames /\ "platform-started" \notin OncePhases
BY NamesOf DEF OncePhases, StartedPhases

(* A run about to begin is at the phase of the receipt, which it leaves.   *)
LEMMA BeginFacts ==
  ASSUME ReleaseType, LockInv, \A s \in Runs : ViewInv(s), NEW s \in Runs, Begin(s)
  PROVE  /\ Active(s) /\ Here(s) = receipt.phase /\ Here(s) \in StartedPhases
         /\ Begins(Here(s)) /\ Reached(Here(s)) /\ receipt' = receipt
         /\ \A ph : ~Begins(ph)' /\ (Awaited(ph)' => ph = Here(s))
<1>1. Active(s) /\ RunAt(s, "begin") /\ receipt' = receipt
  BY BeginEffect DEF Active, RunAt
<1>2. Here(s) = receipt.phase /\ Here(s) \in StartedPhases
  BY <1>1, ViewHere DEF Fits, RunAt
<1>3. Begins(Here(s)) /\ Reached(Here(s))
  BY <1>1, <1>2, ReachedHere, NamesOf DEF Begins, StartedPhases
<1>4. \E at \in {"await", "work", "none"}, p \in {Here(s), "none"} :
        Goes(s, at, p) /\ (at = "await" => p = Here(s))
  BY BeginEffect DEF Stops
<1>5. \A ph : ~Begins(ph)' /\ (Awaited(ph)' => ph = Here(s))
  BY <1>1, <1>4, OneBegins
<1> QED
  BY <1>1, <1>2, <1>3, <1>5

LEMMA BegunStep ==
  ASSUME ReleaseType, LockInv, \A s \in Runs : ViewInv(s), ReleaseMove,
         NEW ph \in OncePhases, BegunInv(ph)
  PROVE  BegunInv(ph)'
<1>1. CASE Calm
  BY <1>1, ReachedSame DEF Calm, BegunInv
<1>2. CASE Record
  BY <1>2, RecordEffect DEF BegunInv, Reached, NoReceipt
<1>3. ASSUME NEW s \in Runs, Forward(s) PROVE BegunInv(ph)'
  <2>1. CASE begun[ph] = 0
    BY <1>3, <2>1 DEF Forward, BegunInv
  <2>2. CASE begun[ph] # 0
    <3>1. begun[ph] = 1 /\ Reached(ph)
      BY <2>2 DEF BegunInv
    <3>2. Reached(ph)' /\ ph # receipt'.phase
      BY <1>3, <3>1, ReachedKept, ReachedHere, OnceNames DEF Forward
    <3> QED
      BY <1>3, <3>1, <3>2 DEF Forward, BegunInv
  <2> QED
    BY <2>1, <2>2
<1>4. ASSUME NEW s \in Runs, Begin(s) PROVE BegunInv(ph)'
  <2>1. begun'[ph] = IF ph = Here(s) /\ begun[ph] < 2 THEN begun[ph] + 1 ELSE begun[ph]
    BY <1>4, BeginEffect
  <2>2. begun[ph] = 0 \/ (begun[ph] = 1 /\ Reached(ph) /\ ph # Here(s))
    BY <1>4, BeginFacts DEF BegunInv
  <2>3. begun'[ph] # 0 => begun'[ph] = 1 /\ Reached(ph)
    BY <1>4, <2>1, <2>2, BeginFacts
  <2> QED
    BY <1>4, <2>3, BeginFacts, ReachedSame DEF BegunInv
<1> QED
  BY ReleaseKinds, <1>1, <1>2, <1>3, <1>4

-----------------------------------------------------------------------------
(* What a step of a ceremony means for the release.                        *)

(* What a later run relies on is not taken away.                           *)
LEMMA FilesKept ==
  ASSUME CeremonyType, NEW c \in Ceremonies, CeremonyMove(c)
  PROVE  /\ {"configured", "audit-receipt", "custody-receipt"} \cap record \subseteq record'
         /\ vault.facts \subseteq vault'.facts
<1>1. CASE OpenFresh \/ OpenInitialized
    BY <1>1, OpenEffect, VaultSame, CeremonyNames DEF Holds
<1>2. CASE Initialize \/ InitializeLost
    BY <1>2, InitializeEffect, CeremonyNames DEF Holds
<1>3. CASE WriteShares
    BY <1>3, FileEffects, VaultSame, CeremonyNames DEF FileStep, Holds
<1>4. CASE BackedUp
    BY <1>4, FileEffects, VaultSame, CeremonyNames DEF FileStep, Holds
<1>5. CASE RemoveResponse
    BY <1>5, FileEffects, VaultSame, CeremonyNames DEF FileStep, Holds
<1>6. CASE MarkConfigured
    BY <1>6, FileEffects, VaultSame, CeremonyNames DEF FileStep, Holds
<1>7. CASE CeremonyFirst(c)
    BY <1>7, FirstEffect, VaultSame, CeremonyNames DEF Holds
<1>8. CASE CeremonyLeft(c)
    BY <1>8, LeftEffect, VaultSame, CeremonyNames DEF Holds
<1>9. CASE CancelPending(c)
    BY <1>9, CancelPendingEffect, CeremonyNames DEF Holds
<1>10. CASE Generate(c)
    BY <1>10, GenerateEffect, CeremonyNames DEF Holds
<1>11. CASE Quorum(c)
    BY <1>11, QuorumEffect, CeremonyNames DEF Holds
<1>12. CASE QuorumLost(c)
    BY <1>12, QuorumLostEffect, CeremonyNames DEF Holds
<1>13. CASE LeavePending(c) \/ QuorumRefused(c) \/ CeremonyFails(c)
    BY <1>13, GivesUpEffect, VaultSame, CeremonyNames DEF Holds
<1>14. CASE Work(c)
    BY <1>14, WorkEffect, CeremonyNames DEF Holds
<1>15. CASE Revoke(c)
    BY <1>15, RevokeEffect, CeremonyNames DEF Holds
<1>16. CASE RevokeFails(c)
    BY <1>16, RevokeFailsEffect, CeremonyNames DEF Holds
<1>17. CASE Cancel(c)
    BY <1>17, CancelEffect, CeremonyNames DEF Holds
<1>18. CASE Report(c)
    BY <1>18, ReportEffect, VaultSame, CeremonyNames DEF Holds
<1>19. CASE CeremonyKilled(c)
    BY <1>19, KilledEffect, CeremonyNames DEF Holds
<1> QED
  BY CeremonyCases, <1>1, <1>2, <1>3, <1>4, <1>5, <1>6, <1>7, <1>8, <1>9, <1>10, <1>11, <1>12, <1>13, <1>14, <1>15, <1>16, <1>17, <1>18, <1>19

(* What is not begun leaves no trace.                                     *)
LEMMA IdleStays ==
  ASSUME CeremonyType, NEW c \in Ceremonies, CeremonyMove(c), ~CeremonyFirst(c),
         NEW d \in Ceremonies, ceremony[d].at = "idle"
  PROVE  /\ ceremony'[d].at = "idle"
         /\ d = "bootstrap" =>
              /\ "configured" \in record' => "configured" \in record
              /\ "initialized" \in vault'.facts => "initialized" \in vault.facts
         /\ d # "bootstrap" => (Receipt[d] \in record' => Receipt[d] \in record)
<1>1. CASE OpenFresh \/ OpenInitialized
    BY <1>1, OpenEffect, VaultSame, CeremonyNames DEF Holds, Changes
<1>2. CASE Initialize \/ InitializeLost
    BY <1>2, InitializeEffect, CeremonyNames DEF Holds, Changes
<1>3. CASE WriteShares
    BY <1>3, FileEffects, VaultSame, CeremonyNames DEF FileStep, Holds, Changes
<1>4. CASE BackedUp
    BY <1>4, FileEffects, VaultSame, CeremonyNames DEF FileStep, Holds, Changes
<1>5. CASE RemoveResponse
    BY <1>5, FileEffects, VaultSame, CeremonyNames DEF FileStep, Holds, Changes
<1>6. CASE MarkConfigured
    BY <1>6, FileEffects, VaultSame, CeremonyNames DEF FileStep, Holds, Changes
<1>7. CASE CeremonyFirst(c)
    BY <1>7, FirstEffect, VaultSame, CeremonyNames DEF Holds, Changes
<1>8. CASE CeremonyLeft(c)
    BY <1>8, LeftEffect, VaultSame, CeremonyNames DEF Holds, Changes
<1>9. CASE CancelPending(c)
    BY <1>9, CancelPendingEffect, CeremonyNames DEF Holds, Changes
<1>10. CASE Generate(c)
    BY <1>10, GenerateEffect, CeremonyNames DEF Holds, Changes
<1>11. CASE Quorum(c)
    BY <1>11, QuorumEffect, CeremonyNames DEF Holds, Changes
<1>12. CASE QuorumLost(c)
    BY <1>12, QuorumLostEffect, CeremonyNames DEF Holds, Changes
<1>13. CASE LeavePending(c) \/ QuorumRefused(c) \/ CeremonyFails(c)
    BY <1>13, GivesUpEffect, VaultSame, CeremonyNames DEF Holds, Changes
<1>14. CASE Work(c)
    BY <1>14, WorkEffect, CeremonyNames DEF Holds, Changes
<1>15. CASE Revoke(c)
    BY <1>15, RevokeEffect, CeremonyNames DEF Holds, Changes
<1>16. CASE RevokeFails(c)
    BY <1>16, RevokeFailsEffect, CeremonyNames DEF Holds, Changes
<1>17. CASE Cancel(c)
    BY <1>17, CancelEffect, CeremonyNames DEF Holds, Changes
<1>18. CASE Report(c)
    BY <1>18, ReportEffect, VaultSame, CeremonyNames DEF Holds, Changes
<1>19. CASE CeremonyKilled(c)
    BY <1>19, KilledEffect, CeremonyNames DEF Holds, Changes
<1> QED
  BY CeremonyCases, <1>1, <1>2, <1>3, <1>4, <1>5, <1>6, <1>7, <1>8, <1>9, <1>10, <1>11, <1>12, <1>13, <1>14, <1>15, <1>16, <1>17, <1>18, <1>19

(* The first bootstrap, as long as it is under way.                         *)
LEMMA FirstBootstrapStep ==
  ASSUME CeremonyType, NEW c \in Ceremonies, CeremonyMove(c), ~CeremonyFirst(c),
         c = "bootstrap" => ~CeremonyLeft(c), SealInv, FilesInv, FirstBootstrap
  PROVE  FirstBootstrap'
<1>1. CASE OpenFresh \/ OpenInitialized
    BY <1>1, OpenEffect, VaultSame, CeremonyNames DEF FirstBootstrap, FilesInv, SealInv,
     BootWorked, At, Holds, Changes
<1>2. CASE Initialize \/ InitializeLost
    BY <1>2, InitializeEffect, CeremonyNames DEF FirstBootstrap, FilesInv, SealInv, BootWorked,
     At, Holds, Changes
<1>3. CASE WriteShares
    BY <1>3, FileEffects, VaultSame, CeremonyNames DEF FileStep, FirstBootstrap, FilesInv,
     SealInv, BootWorked, At, Holds, Changes
<1>4. CASE BackedUp
    BY <1>4, FileEffects, VaultSame, CeremonyNames DEF FileStep, FirstBootstrap, FilesInv,
     SealInv, BootWorked, At, Holds, Changes
<1>5. CASE RemoveResponse
    BY <1>5, FileEffects, VaultSame, CeremonyNames DEF FileStep, FirstBootstrap, FilesInv,
     SealInv, BootWorked, At, Holds, Changes
<1>6. CASE MarkConfigured
    BY <1>6, FileEffects, VaultSame, CeremonyNames DEF FileStep, FirstBootstrap, FilesInv,
     SealInv, BootWorked, At, Holds, Changes
<1>7. CASE CeremonyFirst(c)
    BY <1>7, FirstEffect, VaultSame, CeremonyNames DEF FirstBootstrap, FilesInv, SealInv,
     BootWorked, At, Holds, Changes
<1>8. CASE CeremonyLeft(c)
    BY <1>8, LeftEffect, VaultSame, CeremonyNames DEF FirstBootstrap, FilesInv, SealInv,
     BootWorked, At, Holds, Changes
<1>9. CASE CancelPending(c)
    BY <1>9, CancelPendingEffect, CeremonyNames DEF FirstBootstrap, FilesInv, SealInv,
     BootWorked, At, Holds, Changes
<1>10. CASE Generate(c)
    BY <1>10, GenerateEffect, CeremonyNames DEF FirstBootstrap, FilesInv, SealInv, BootWorked,
     At, Holds, Changes
<1>11. CASE Quorum(c)
    BY <1>11, QuorumEffect, CeremonyNames DEF FirstBootstrap, FilesInv, SealInv, BootWorked, At,
     Holds, Changes
<1>12. CASE QuorumLost(c)
    BY <1>12, QuorumLostEffect, CeremonyNames DEF FirstBootstrap, FilesInv, SealInv, BootWorked,
     At, Holds, Changes
<1>13. CASE LeavePending(c) \/ QuorumRefused(c) \/ CeremonyFails(c)
    BY <1>13, GivesUpEffect, VaultSame, CeremonyNames DEF FirstBootstrap, FilesInv, SealInv,
     BootWorked, At, Holds, Changes
<1>14. CASE Work(c)
    BY <1>14, WorkEffect, CeremonyNames DEF FirstBootstrap, FilesInv, SealInv, BootWorked, At,
     Holds, Changes
<1>15. CASE Revoke(c)
    BY <1>15, RevokeEffect, CeremonyNames DEF FirstBootstrap, FilesInv, SealInv, BootWorked, At,
     Holds, Changes
<1>16. CASE RevokeFails(c)
    BY <1>16, RevokeFailsEffect, CeremonyNames DEF FirstBootstrap, FilesInv, SealInv,
     BootWorked, At, Holds, Changes
<1>17. CASE Cancel(c)
    BY <1>17, CancelEffect, CeremonyNames DEF FirstBootstrap, FilesInv, SealInv, BootWorked, At,
     Holds, Changes
<1>18. CASE Report(c)
    BY <1>18, ReportEffect, VaultSame, CeremonyNames DEF FirstBootstrap, FilesInv, SealInv,
     BootWorked, At, Holds, Changes
<1>19. CASE CeremonyKilled(c)
    BY <1>19, KilledEffect, CeremonyNames DEF FirstBootstrap, FilesInv, SealInv, BootWorked, At,
     Holds, Changes
<1> QED
  BY CeremonyCases, <1>1, <1>2, <1>3, <1>4, <1>5, <1>6, <1>7, <1>8, <1>9, <1>10, <1>11, <1>12, <1>13, <1>14, <1>15, <1>16, <1>17, <1>18, <1>19


-----------------------------------------------------------------------------
(* The parts of the invariant that relate the release to the ceremonies    *)
(* and to the platform.                                                    *)

(* No step of the release takes away what it relies on, and a ceremony is  *)
(* begun by the flow only when it has left no trace.                       *)
LEMMA EffectsKept ==
  ASSUME ReleaseType, \A s \in Runs : ViewInv(s), ReleaseStep
  PROVE  effects \subseteq effects'
<1>1. ASSUME NEW s \in Runs, RunMove(s) PROVE effects \subseteq effects'
  BY <1>1, ResumeLockEffect, ResumeRereadEffect, ChooseEffect, WorkDoneEffect, WorkRefusedEffect,
     PrepareEffect, AdvanceReadEffect, AdvanceCommitEffect, ReconcileEffect, VerifyEffect,
     RunFailsEffect, RunDiesEffect, BeginEffect, AwaitPlatformEffect, AwaitCeremonyEffect
     DEF RunMove, RunStep
<1> QED
  BY <1>1, RecordEffect, BindEffect DEF ReleaseStep, ClearLock, ResumeRead, OrphanEnds

LEMMA CeremonyOfPhases ==
  /\ CeremonyOf("vault-started") = "bootstrap" /\ CeremonyOf("audit-started") = "audit"
  /\ CeremonyOf("custody-started") = "custody"
  /\ \A ph \in StartedPhases :
       CeremonyOf(ph) # "none" => /\ ph \in {"vault-started", "audit-started", "custody-started"}
                                  /\ CeremonyOf(ph) \in Ceremonies
BY DEF CeremonyOf, StartedPhases, Ceremonies

LEMMA BeginIsFirst ==
  ASSUME ReleaseType, LockInv, \A s \in Runs : ViewInv(s), \A ph \in OncePhases : BegunInv(ph),
         FreshInv, NEW s \in Runs, Begin(s), CeremonyOf(Here(s)) # "none"
  PROVE  /\ CeremonyOf(Here(s)) \in Ceremonies
         /\ CeremonyBegin(CeremonyOf(Here(s))) => CeremonyFirst(CeremonyOf(Here(s)))
<1>1. Here(s) \in {"vault-started", "audit-started", "custody-started"} /\ Begins(Here(s))
  BY BeginFacts, CeremonyOfPhases
<1>2. begun[Here(s)] = 0
  BY <1>1, OnceNames DEF BegunInv
<1> QED
  BY <1>1, <1>2, CeremonyOfPhases, CeremonyNames DEF FreshInv, CeremonyFirst

Outside ==
  /\ PlatformMove \/ UNCHANGED platformVars
  /\ \/ UNCHANGED ceremonyVars
     \/ \E c \in Ceremonies : CeremonyFirst(c) \/ CeremonyLeft(c)
LEMMA ReleaseOutside ==
  ASSUME ReleaseType, LockInv, \A s \in Runs : ViewInv(s), \A ph \in OncePhases : BegunInv(ph),
         FreshInv, ReleaseStep
  PROVE  Outside
<1>1. ASSUME Apart PROVE Outside
  BY <1>1 DEF Apart, Outside
<1>2. ASSUME NEW s \in Runs, Begin(s) PROVE Outside
  <2>1. CASE CeremonyOf(Here(s)) # "none" /\ CeremonyBegin(CeremonyOf(Here(s))) /\ UNCHANGED platformVars
    BY <1>2, <2>1, BeginIsFirst DEF Outside
  <2>2. CASE PlatformBegin /\ UNCHANGED ceremonyVars
    BY <2>2 DEF Outside, PlatformMove
  <2> QED
    BY <1>1, <1>2, <2>1, <2>2, BeginEffect
<1>3. ASSUME NEW s \in Runs, AwaitPlatform(s) PROVE Outside
  BY <1>3, AwaitPlatformEffect DEF Outside, PlatformMove, PlatformOn
<1>4. ASSUME NEW s \in Runs, AwaitCeremony(s) PROVE Outside
  <2>1. RunAt(s, "await") /\ Here(s) # "platform-started" /\ CeremonyLeft(CeremonyOf(Here(s)))
        /\ UNCHANGED platformVars
    BY <1>4, AwaitCeremonyEffect
  <2>2. Here(s) \in StartedPhases \ {"activation-started"}
    BY <2>1 DEF ViewInv, Fits, RunAt
  <2>3. CeremonyOf(Here(s)) \in Ceremonies
    BY <2>1, <2>2, CeremonyOfPhases DEF StartedPhases, Ceremonies
  <2> QED
    BY <2>1, <2>3 DEF Outside
<1>5. ASSUME NEW s \in Runs, RunMove(s), ~Begin(s), ~AwaitPlatform(s), ~AwaitCeremony(s) PROVE Apart
  BY <1>5, ResumeLockEffect, ResumeRereadEffect, ChooseEffect, WorkDoneEffect, WorkRefusedEffect,
     PrepareEffect, AdvanceReadEffect, AdvanceCommitEffect, ReconcileEffect, VerifyEffect,
     RunFailsEffect, RunDiesEffect DEF RunMove, RunStep
<1>6. ASSUME Record \/ Bind \/ ClearLock \/ (\E s \in Resumes : ResumeRead(s))
             \/ (\E work \in WorkPhases : OrphanEnds(work))
      PROVE  Apart
  BY <1>6, RecordEffect, BindEffect, ResumeReadEffect DEF ClearLock, OrphanEnds, Others, Apart
<1> QED
  BY <1>1, <1>2, <1>3, <1>4, <1>5, <1>6 DEF ReleaseStep

(* Traces that a ceremony leaves.                                          *)
CeremonyOn(c) == CeremonyMove(c) /\ ~CeremonyFirst(c)
LEMMA FreshKept ==
  ASSUME CeremonyType, FreshInv, UNCHANGED ceremonyVars \/ \E c \in Ceremonies : CeremonyOn(c),
         Reached("vault-started") => Reached("vault-started")',
         Begins("vault-started")' => Begins("vault-started") \/ ~Reached("vault-started"),
         \A ph \in OncePhases : begun'[ph] = 0 => begun[ph] = 0
  PROVE  FreshInv'
<1>1. ASSUME NEW c \in Ceremonies, CeremonyOn(c), NEW d \in Ceremonies, ceremony[d].at = "idle"
      PROVE  /\ ceremony'[d].at = "idle"
             /\ d = "bootstrap" => /\ "configured" \in record' => "configured" \in record
                                   /\ "initialized" \in vault'.facts => "initialized" \in vault.facts
             /\ d # "bootstrap" => (Receipt[d] \in record' => Receipt[d] \in record)
  BY <1>1, IdleStays DEF CeremonyOn
<1>2. CASE UNCHANGED ceremonyVars
  BY <1>2, OnceNames DEF FreshInv, ceremonyVars
<1>3. ASSUME NEW c \in Ceremonies, CeremonyOn(c) PROVE FreshInv'
  BY <1>1, <1>3, OnceNames, CeremonyNames DEF FreshInv
<1> QED
  BY <1>2, <1>3

(* Only where a run begins a ceremony is one begun; only where a run waits *)
(* for one is one over.                                                    *)
LEMMA CeremonyOfRelease ==
  ASSUME ReleaseType, \A s \in Runs : ViewInv(s), ReleaseStep, ~\E s \in Runs : Begin(s)
  PROVE  \/ UNCHANGED ceremonyVars
         \/ (\E c \in Ceremonies : CeremonyOn(c)) /\ \E s \in Runs : AwaitCeremony(s)
<1>1. ASSUME NEW c \in Ceremonies, CeremonyLeft(c) PROVE CeremonyOn(c)
  BY <1>1, LeftEffect, FirstEffect DEF CeremonyOn, CeremonyMove, CeremonyFirst, CeremonyLeft, CeremonyBegin, At
<1>2. ASSUME NEW s \in Runs, AwaitCeremony(s) PROVE \E c \in Ceremonies : CeremonyLeft(c)
  <2>1. RunAt(s, "await") /\ Here(s) # "platform-started" /\ CeremonyLeft(CeremonyOf(Here(s)))
    BY <1>2, AwaitCeremonyEffect
  <2>2. Here(s) \in StartedPhases \ {"activation-started"}
    BY <2>1 DEF ViewInv, Fits, RunAt
  <2> QED
    BY <2>1, <2>2, CeremonyOfPhases DEF StartedPhases, Ceremonies
<1>3. ASSUME NEW s \in Runs, RunMove(s), ~Begin(s), ~AwaitCeremony(s) PROVE UNCHANGED ceremonyVars
  BY <1>3, ResumeLockEffect, ResumeRereadEffect, ChooseEffect, WorkDoneEffect, WorkRefusedEffect,
     PrepareEffect, AdvanceReadEffect, AdvanceCommitEffect, ReconcileEffect, VerifyEffect,
     RunFailsEffect, RunDiesEffect, AwaitPlatformEffect DEF RunMove, RunStep, Apart
<1>4. CASE \E s \in Runs : AwaitCeremony(s)
  BY <1>1, <1>2, <1>4
<1>5. CASE \E s \in Runs : RunMove(s) /\ ~AwaitCeremony(s)
  BY <1>3, <1>5
<1>6. CASE ~\E s \in Runs : RunMove(s)
  BY <1>6, RecordEffect, BindEffect DEF ReleaseStep, ClearLock, OrphanEnds, ResumeRead, Others, Apart
<1> QED
  BY <1>4, <1>5, <1>6

LEMMA FreshStep ==
  ASSUME ReleaseType, LockInv, \A s \in Runs : ViewInv(s), \A ph \in OncePhases : BegunInv(ph),
         CeremonyType, FreshInv, ReleaseStep
  PROVE  FreshInv'
<1>1. ReleaseMove
  BY DEF ReleaseMove
<1>2. ASSUME NEW s \in Runs, Begin(s) PROVE FreshInv'
  <2>1. /\ Reached(Here(s)) /\ Begins(Here(s)) /\ receipt' = receipt
        /\ Here(s) = receipt.phase /\ Here(s) \in StartedPhases /\ \A ph : ~Begins(ph)'
    BY <1>2, BeginFacts
  <2>2. \A ph \in OncePhases : begun'[ph] = IF ph = Here(s) /\ begun[ph] < 2 THEN begun[ph] + 1 ELSE begun[ph]
    BY <1>2, BeginEffect
  <2>3. \A ph \in OncePhases : begun'[ph] = 0 => begun[ph] = 0 /\ ph # Here(s)
    BY <2>2 DEF ReleaseType
  <2>4. CASE UNCHANGED ceremonyVars
    BY <2>1, <2>3, <2>4, ReachedSame, FreshKept
  <2>5. CASE CeremonyOf(Here(s)) # "none" /\ CeremonyBegin(CeremonyOf(Here(s)))
    <3> DEFINE c == CeremonyOf(Here(s))
    <3>1. Here(s) \in {"vault-started", "audit-started", "custody-started"} /\ c \in Ceremonies
      BY <2>1, <2>5, CeremonyOfPhases
    <3>2. CeremonyFirst(c)
      BY <1>2, <2>5, BeginIsFirst
    <3>3. UNCHANGED <<vault, record>> /\ \A d \in Ceremonies : d # c => ceremony'[d] = ceremony[d]
      BY <3>1, <3>2, FirstEffect DEF Changes
    <3>4. Reached("vault-started")'
      BY <2>1, <3>1, IndexOf DEF Reached
    <3>5. begun'["audit-started"] = 0 => begun["audit-started"] = 0 /\ c # "audit"
      BY <2>3, <3>1, OnceNames, CeremonyOfPhases
    <3>6. begun'["custody-started"] = 0 => begun["custody-started"] = 0 /\ c # "custody"
      BY <2>3, <3>1, OnceNames, CeremonyOfPhases
    <3> HIDE DEF c
    <3> QED
      BY <2>1, <3>3, <3>4, <3>5, <3>6, CeremonyNames DEF FreshInv
  <2> QED
    BY <1>2, <2>4, <2>5, BeginEffect DEF Apart
<1>3. ASSUME ~\E s \in Runs : Begin(s) PROVE UNCHANGED ceremonyVars \/ \E c \in Ceremonies : CeremonyOn(c)
  BY <1>3, CeremonyOfRelease
<1>4. CASE Calm /\ ~\E s \in Runs : Begin(s)
  BY <1>3, <1>4, ReachedSame, FreshKept, OnceNames DEF Calm
<1>5. CASE Record
  <2>1. /\ ~Reached("vault-started") /\ UNCHANGED <<ceremonyVars, begun>>
    BY <1>5, RecordEffect DEF Reached, NoReceipt, Apart
  <2> QED
    BY <2>1, FreshKept
<1>6. ASSUME NEW s \in Runs, Forward(s) PROVE FreshInv'
  <2>1. Reached("vault-started") => Reached("vault-started")'
    BY <1>6, ReachedKept, OnceNames DEF Forward
  <2>2. Begins("vault-started")' => ~Reached("vault-started")
    BY <1>6, ReachedHere, OnceNames DEF Forward
  <2> QED
    BY <1>6, <2>1, <2>2, FreshKept DEF Forward
<1> QED
  BY <1>1, <1>2, <1>4, <1>5, <1>6, ReleaseKinds

LEMMA AwaitKept ==
  ASSUME CeremonyType, SealInv, FilesInv, AwaitInv,
         Awaited("vault-started")' => Awaited("vault-started"),
         \/ UNCHANGED ceremonyVars
         \/ \E c \in Ceremonies :
              CeremonyOn(c) /\ (c = "bootstrap" /\ CeremonyLeft(c) => ~Awaited("vault-started"))
  PROVE  AwaitInv'
<1> SUFFICES ASSUME Awaited("vault-started")' PROVE FirstBootstrap'
  BY DEF AwaitInv
<1>1. FirstBootstrap
  BY DEF AwaitInv
<1>2. CASE UNCHANGED ceremonyVars
  BY <1>1, <1>2 DEF ceremonyVars, FirstBootstrap, BootWorked, At
<1> QED
  BY <1>1, <1>2, FirstBootstrapStep DEF CeremonyOn

LEMMA AwaitStep ==
  ASSUME ReleaseType, LockInv, \A s \in Runs : ViewInv(s), \A ph \in OncePhases : BegunInv(ph),
         CeremonyType, SealInv, FilesInv, FreshInv, AwaitInv, ReleaseStep
  PROVE  AwaitInv'
<1>1. ASSUME NEW s \in Runs, Begin(s) PROVE AwaitInv'
  <2>1. /\ Begins(Here(s)) /\ \A ph : Awaited(ph)' => ph = Here(s)
    BY <1>1, BeginFacts
  <2>2. CASE Here(s) # "vault-started"
    BY <2>1, <2>2 DEF AwaitInv
  <2>3. CASE Here(s) = "vault-started"
    <3>1. CeremonyBegin("bootstrap")
      BY <1>1, <2>3, BeginEffect, CeremonyOfPhases
    <3>2. CeremonyFirst("bootstrap") /\ "initialized" \notin vault.facts
      BY <1>1, <2>1, <2>3, <3>1, BeginIsFirst, CeremonyOfPhases, CeremonyNames DEF FreshInv
    <3>3. ceremony'["bootstrap"].at = "open" /\ vault' = vault
      BY <3>2, FirstEffect, CeremonyNames DEF Changes
    <3> QED
      BY <3>2, <3>3 DEF AwaitInv, FirstBootstrap, BootWorked, At
  <2> QED
    BY <2>2, <2>3
<1>2. ASSUME NEW s \in Runs, AwaitCeremony(s) PROVE AwaitInv'
  <2>1. RunAt(s, "await") /\ Active(s)
    BY <1>2, AwaitCeremonyEffect DEF RunAt, Active
  <2>2. \E at \in {"none", "reconcile", "advance"} : \E p : Goes(s, at, p)
    BY <1>2, AwaitCeremonyEffect DEF Stops
  <2> QED
    BY <2>1, <2>2, OneBegins DEF AwaitInv
<1>3. CASE UNCHANGED ceremonyVars /\ ~\E s \in Runs : Begin(s)
  <2>1. CASE Calm
    BY <1>3, <2>1, AwaitKept, OnceNames DEF Calm
  <2>2. CASE Record
    BY <1>3, <2>2, AwaitKept, RecordEffect, RunNames, AwaitedGoes
  <2>3. ASSUME NEW s \in Runs, Forward(s) PROVE AwaitInv'
    BY <2>3, OnceNames DEF Forward, AwaitInv
  <2> QED
    BY <1>3, <2>1, <2>2, <2>3, ReleaseKinds DEF ReleaseMove
<1> QED
  BY <1>1, <1>2, <1>3, CeremonyOfRelease

(* What the claims of a run and of the receipt rest on stays true.         *)
FactsKept ==
  /\ effects \subseteq effects'
  /\ Complete("revoke_complete") => Complete("revoke_complete")'
  /\ {"configured", "audit-receipt", "custody-receipt"} \cap record \subseteq record'
ClaimNext(ph) ==
  /\ ph \in WorkPhases \ BoundPhases => ph \in effects'
  /\ ph = "platform-started" => replay'["revoke_complete"] = "complete"
  /\ ph = "vault-started" => "configured" \in record'
LEMMA ClaimKept ==
  ASSUME FactsKept, NEW ph
  PROVE  Claim(ph) => ClaimNext(ph)
BY DEF FactsKept, Claim, ClaimNext, Complete

LEMMA FactsOfRelease ==
  ASSUME PlatformInv, CeremonyType, ReleaseType, LockInv, \A s \in Runs : ViewInv(s),
         \A ph \in OncePhases : BegunInv(ph), FreshInv, ReleaseStep
  PROVE  FactsKept
<1>1. Complete("revoke_complete") => Complete("revoke_complete")'
  BY ReleaseOutside, CompleteKept DEF Outside, PlatformInv, platformVars, Complete, Phases
<1>2. {"configured", "audit-receipt", "custody-receipt"} \cap record \subseteq record'
  BY ReleaseOutside, FilesKept DEF Outside, CeremonyMove, ceremonyVars
<1> QED
  BY <1>1, <1>2, EffectsKept DEF FactsKept

(* A run that goes to record the next phase has what it claims.            *)
LEMMA ClaimGoes ==
  ASSUME ClaimInv, FactsKept, NEW s \in Runs, NEW at, NEW ph, Goes(s, at, ph),
         at \in {"advance", "commit"} => ClaimNext(ph)
  PROVE  ClaimInv'
<1>1. ASSUME NEW t \in Runs, shell'[t].at \in {"advance", "commit"} PROVE ClaimNext(shell'[t].phase)
  <2>1. CASE t = s
    BY <1>1, <2>1 DEF Goes
  <2>2. CASE t # s
    BY <1>1, <2>2, ClaimKept DEF Goes, ClaimInv, Here
  <2> QED
    BY <2>1, <2>2
<1> QED
  BY <1>1 DEF ClaimInv, ClaimNext, Claim, Complete, Here

LEMMA ClaimStep ==
  ASSUME PlatformInv, ReleaseType, LockInv, \A s \in Runs : ViewInv(s), AwaitInv,
         ClaimInv, FactsKept, ReleaseStep
  PROVE  ClaimInv'
<1>1. CASE Record
  BY <1>1, RecordEffect, RunNames, ClaimGoes
<1>2. ASSUME NEW s \in Resumes, ResumeRead(s) PROVE ClaimInv'
  BY <1>2, ResumeReadEffect, RunNames, ClaimGoes
<1>3. ASSUME NEW s \in Runs, ResumeLock(s) PROVE ClaimInv'
  BY <1>3, ResumeLockEffect, ClaimGoes
<1>4. ASSUME NEW s \in Runs, ResumeReread(s) PROVE ClaimInv'
  BY <1>4, ResumeRereadEffect, ClaimGoes DEF Stops
<1>5. ASSUME NEW s \in Runs, Choose(s) PROVE ClaimInv'
  <2>1. Here(s) \in PassPhases => ClaimNext(Here(s))
    BY DEF PassPhases, ClaimNext, WorkPhases
  <2> QED
    BY <1>5, <2>1, ChooseEffect, ClaimGoes
<1>6. ASSUME NEW s \in Runs, WorkDone(s) PROVE ClaimInv'
  <2>1. Here(s) \in WorkPhases /\ effects' = effects \cup {Here(s)}
    BY <1>6, WorkDoneEffect DEF ViewInv, Fits, RunAt
  <2>2. ClaimNext(Here(s))
    BY <2>1 DEF ClaimNext, WorkPhases
  <2> QED
    BY <1>6, <2>2, WorkDoneEffect, ClaimGoes DEF Stops
<1>7. ASSUME NEW s \in Runs, WorkRefused(s) PROVE ClaimInv'
  BY <1>7, WorkRefusedEffect, ClaimGoes DEF Stops
<1>8. ASSUME NEW s \in Runs, Prepare(s) PROVE ClaimInv'
  <2>1. Here(s) \in PreparePhases
    BY <1>8, PrepareEffect DEF ViewInv, Fits, RunAt
  <2>2. ClaimNext(Here(s))
    BY <2>1 DEF ClaimNext, PreparePhases, WorkPhases
  <2> QED
    BY <1>8, <2>2, PrepareEffect, ClaimGoes DEF Stops
<1>9. ASSUME NEW s \in Runs, AdvanceRead(s) PROVE ClaimInv'
  <2>1. ClaimNext(Here(s))
    BY <1>9, AdvanceReadEffect, ClaimKept DEF ClaimInv, RunAt
  <2> QED
    BY <1>9, <2>1, AdvanceReadEffect, ClaimGoes DEF Stops
<1>10. ASSUME NEW s \in Runs, AdvanceCommit(s) PROVE ClaimInv'
  BY <1>10, AdvanceCommitEffect, ClaimGoes DEF Stops
<1>11. ASSUME NEW s \in Runs, Reconcile(s) PROVE ClaimInv'
  BY <1>11, ReconcileEffect, ClaimGoes DEF Stops
<1>12. ASSUME NEW s \in Runs, Verify(s) PROVE ClaimInv'
  <2>1. Here(s) = "vault-started"
    BY <1>12, VerifyEffect DEF ViewInv, Fits, RunAt
  <2>2. Verified => ClaimNext(Here(s))
    BY <2>1 DEF Verified, ClaimNext, FactsKept, WorkPhases
  <2> QED
    BY <1>12, <2>2, VerifyEffect, ClaimGoes DEF Stops
<1>13. ASSUME NEW s \in Runs, RunFails(s) \/ RunDies(s) PROVE ClaimInv'
  <2>1. Goes(s, "none", "none")
    BY <1>13, RunFailsEffect, RunDiesEffect DEF Stops
  <2> QED
    BY <2>1, ClaimGoes
<1>14. ASSUME NEW s \in Runs, Begin(s) PROVE ClaimInv'
  BY <1>14, BeginEffect, ClaimGoes DEF Stops
<1>15. ASSUME NEW s \in Runs, AwaitPlatform(s) PROVE ClaimInv'
  <2>1. platform.at = "ok" => ClaimNext(Here(s))
    <3>1. Here(s) = "platform-started"
      BY <1>15, AwaitPlatformEffect
    <3>2. platform.at = "ok" => Complete("revoke_complete")
      BY DEF PlatformInv, OrderInv, ScriptInv
    <3> QED
      BY <3>1, <3>2 DEF ClaimNext, WorkPhases, FactsKept, Complete
  <2> QED
    BY <1>15, <2>1, AwaitPlatformEffect, ClaimGoes DEF Stops
<1>16. ASSUME NEW s \in Runs, AwaitCeremony(s) PROVE ClaimInv'
  <2>1. RunAt(s, "await") /\ Here(s) \in StartedPhases
    BY <1>16, AwaitCeremonyEffect DEF ViewInv, Fits, RunAt
  <2>2. CeremonyOf(Here(s)) = "bootstrap" => Here(s) = "vault-started"
    BY <2>1 DEF CeremonyOf, StartedPhases
  <2>3. ceremony["bootstrap"].at = "ok" /\ CeremonyOf(Here(s)) = "bootstrap" => ClaimNext(Here(s))
    BY <2>1, <2>2 DEF Awaited, AwaitInv, FirstBootstrap, At, ClaimNext, FactsKept, WorkPhases
  <2> QED
    BY <1>16, <2>3, AwaitCeremonyEffect, ClaimGoes DEF Stops
<1>17. CASE Bind
  BY <1>17, BindEffect, RunNames, ClaimGoes
<1>18. CASE shell' = shell
  BY <1>18, ClaimKept DEF ClaimInv, ClaimNext, Claim, Complete, Here
<1> QED
  BY <1>1, <1>2, <1>3, <1>4, <1>5, <1>6, <1>7, <1>8, <1>9, <1>10, <1>11, <1>12, <1>13, <1>14,
     <1>15, <1>16, <1>17, <1>18
     DEF ReleaseStep, RunMove, RunStep, ClearLock, OrphanEnds

TruthNext(ph) ==
  /\ ph = "infrastructure-complete" => "infrastructure" \in effects'
  /\ ph = "platform-complete" => replay'["revoke_complete"] = "complete"
  /\ ph = "vault-complete" => "configured" \in record'
  /\ ph = "collector-complete" => "vault-complete" \in effects'
  /\ ph = "audit-complete" => "audit-receipt" \in record'
  /\ ph = "custody-complete" => "custody-receipt" \in record'
  /\ ph = "activated" => "activation-started" \in effects'
LEMMA TruthKept ==
  ASSUME FactsKept, NEW ph
  PROVE  Truth(ph) => TruthNext(ph)
BY DEF FactsKept, Truth, TruthNext, Complete
LEMMA TruthOf ==
  ASSUME \A ph \in PhaseNames : Reached(ph)' => TruthNext(ph)
  PROVE  TruthInv'
BY DEF TruthInv, Truth, TruthNext, Complete
LEMMA TruthSame ==
  ASSUME TruthInv, FactsKept, receipt'.phase = receipt.phase
  PROVE  TruthInv'
BY TruthKept, TruthOf, ReachedSame DEF TruthInv

(* The phase that is recorded next is as true as those before it.          *)
LEMMA TruthForward ==
  ASSUME ReleaseType, \A r \in Runs : ViewInv(r), ClaimInv, TruthInv, FactsKept,
         NEW s \in Runs, Forward(s)
  PROVE  TruthInv'
<1> DEFINE next == Following(receipt.phase)
<1>1. receipt.phase \in PhaseNames /\ receipt.phase # "complete" /\ receipt'.phase = next
  BY DEF Forward
<1>2. ASSUME AdvanceCommit(s) PROVE TruthNext(next)
  <2>1. /\ RunAt(s, "commit") /\ Here(s) = receipt.phase
        /\ next \notin {"audit-complete", "custody-complete", "activated"}
    BY <1>2, AdvanceCommitEffect
  <2>2. ClaimNext(receipt.phase)
    BY <2>1, ClaimKept DEF ClaimInv, RunAt
  <2> QED
    BY <1>1, <2>1, <2>2, NamesOf, FollowingOf DEF ClaimNext, TruthNext, WorkPhases, BoundPhases
<1>3. ASSUME receipt.phase \in BoundPhases, Proof(receipt.phase) PROVE TruthNext(next)
  BY <1>3, FollowingOf DEF BoundPhases, Proof, TruthNext, Forward, ceremonyVars
<1>4. TruthNext(next)
  BY <1>2, <1>3 DEF Forward
<1>5. \A ph \in PhaseNames : Reached(ph)' => Reached(ph) \/ ph = next
  BY <1>1, ReachedNext
<1> HIDE DEF next
<1> QED
  BY <1>4, <1>5, TruthKept, TruthOf DEF TruthInv

LEMMA TruthStep ==
  ASSUME ReleaseType, LockInv, \A s \in Runs : ViewInv(s), ClaimInv, TruthInv, FactsKept, ReleaseStep
  PROVE  TruthInv'
<1>1. CASE Record
  <2>1. \A ph \in PhaseNames : Reached(ph)' => ph = "infrastructure"
    BY <1>1, RecordEffect, NamesOf, IndexOf DEF Reached
  <2> QED
    BY <2>1, TruthOf DEF TruthNext
<1>2. ASSUME NEW s \in Runs, Begin(s) PROVE TruthInv'
  BY <1>2, BeginFacts, TruthSame
<1>3. CASE Calm
  BY <1>3, TruthSame DEF Calm
<1> QED
  BY <1>1, <1>2, <1>3, ReleaseKinds, TruthForward DEF ReleaseMove

(* What depends on the release's own variables only.                       *)
OwnInv ==
  /\ LockInv
  /\ \A s \in Runs : ViewInv(s)
  /\ \A ph \in OncePhases : BegunInv(ph)
LEMMA OwnSame ==
  ASSUME OwnInv, UNCHANGED releaseVars
  PROVE  OwnInv'
BY DEF OwnInv, releaseVars, LockInv, ViewInv, BegunInv, RunAt, Locked, Active, Here, Admits,
       Begins, Reached

LEMMA ReleaseInvStep ==
  ASSUME IndInv, ReleaseStep, mishaps' \in 0..MaxMishaps
  PROVE  IndInv'
<1>1. ReleaseMove
  BY DEF ReleaseMove
<1>2. ReleaseType' /\ LockInv' /\ (\A s \in Runs : ViewInv(s)') /\ \A ph \in OncePhases : BegunInv(ph)'
  BY <1>1, ReleaseTypeStep, LockStep, ViewStep, BegunStep DEF IndInv, ReleaseInv
<1>3. FactsKept
  BY FactsOfRelease DEF IndInv, ReleaseInv, CeremonyInv
<1>4. FreshInv' /\ AwaitInv'
  BY FreshStep, AwaitStep DEF IndInv, ReleaseInv, CeremonyInv
<1>5. ClaimInv' /\ TruthInv'
  BY <1>3, ClaimStep, TruthStep DEF IndInv, ReleaseInv
<1>6. Outside
  BY ReleaseOutside DEF IndInv, ReleaseInv
<1>7. PlatformInv'
  BY <1>6, PlatformInvStep, PlatformInvStutter DEF Outside, IndInv
<1>8. CeremonyInv'
  BY <1>6, CeremonyInvStep, CeremonyInvStutter DEF Outside, CeremonyMove, IndInv
<1> QED
  BY <1>2, <1>4, <1>5, <1>7, <1>8 DEF IndInv, ReleaseInv

(* A step that is not of a run: of the platform's processes, of a          *)
(* ceremony's, of the operator's hand.                                     *)
LEMMA OtherInvStep ==
  ASSUME IndInv, UNCHANGED releaseVars, mishaps' \in 0..MaxMishaps, FactsKept,
         PlatformInv', CeremonyInv', FreshInv', AwaitInv'
  PROVE  IndInv'
<1>1. LockInv' /\ (\A s \in Runs : ViewInv(s)') /\ \A ph \in OncePhases : BegunInv(ph)'
  BY OwnSame DEF OwnInv, IndInv, ReleaseInv
<1>2. ReleaseType'
  BY DEF IndInv, ReleaseInv, ReleaseType, releaseVars
<1>3. ClaimInv'
  BY ClaimKept DEF IndInv, ReleaseInv, releaseVars, ClaimInv, ClaimNext, Claim, Complete, Here
<1>4. TruthInv'
  BY TruthSame DEF IndInv, ReleaseInv, releaseVars
<1> QED
  BY <1>1, <1>2, <1>3, <1>4 DEF IndInv, ReleaseInv

LEMMA SameView ==
  ASSUME UNCHANGED releaseVars, NEW ph
  PROVE  /\ Reached(ph)' <=> Reached(ph)
         /\ Begins(ph)' <=> Begins(ph)
         /\ Awaited(ph)' <=> Awaited(ph)
BY DEF releaseVars, Reached, Begins, Awaited, RunAt, Here

LEMMA PlatformOnlyStep ==
  ASSUME IndInv, PlatformMove, UNCHANGED <<ceremonyVars, releaseVars>>, mishaps' \in 0..MaxMishaps
  PROVE  IndInv'
<1>1. FactsKept
  BY CompleteKept DEF FactsKept, IndInv, PlatformInv, releaseVars, ceremonyVars, Phases
<1>2. FreshInv'
  BY SameView, FreshKept DEF IndInv, ReleaseInv, CeremonyInv, releaseVars
<1>3. AwaitInv'
  BY SameView DEF IndInv, ReleaseInv, AwaitInv, FirstBootstrap, BootWorked, At, ceremonyVars
<1> QED
  BY <1>1, <1>2, <1>3, PlatformInvStep, CeremonyInvStutter, OtherInvStep DEF IndInv

LEMMA CeremonyOnlyStep ==
  ASSUME IndInv, NEW c \in Ceremonies, CeremonyOn(c),
         c = "bootstrap" /\ CeremonyLeft(c) => ~Awaited("vault-started"),
         UNCHANGED <<platformVars, releaseVars>>, mishaps' \in 0..MaxMishaps
  PROVE  IndInv'
<1>1. FactsKept
  BY FilesKept DEF FactsKept, IndInv, CeremonyInv, CeremonyOn, releaseVars, platformVars, Complete
<1>2. FreshInv'
  BY SameView, FreshKept DEF IndInv, ReleaseInv, CeremonyInv, releaseVars
<1>3. AwaitInv'
  BY SameView, AwaitKept DEF IndInv, ReleaseInv, CeremonyInv
<1>4. CeremonyInv'
  BY CeremonyInvStep DEF CeremonyOn, IndInv
<1> QED
  BY <1>1, <1>2, <1>3, <1>4, PlatformInvStutter, OtherInvStep DEF IndInv

LEMMA ByHandStep ==
  ASSUME IndInv, BootstrapByHand, mishaps' \in 0..MaxMishaps
  PROVE  IndInv'
<1>1. "configured" \notin record
  BY DEF BootstrapByHand, Verified, IndInv, CeremonyInv, SealInv
<1>2. CeremonyFirst("bootstrap") /\ "bootstrap" \in Ceremonies /\ UNCHANGED <<platformVars, releaseVars>>
  BY <1>1, CeremonyNames DEF BootstrapByHand, CeremonyFirst
<1>3. CeremonyMove("bootstrap")
  BY <1>2 DEF CeremonyMove
<1>4. FactsKept
  BY <1>2, <1>3, FilesKept DEF FactsKept, IndInv, CeremonyInv, releaseVars, platformVars, Complete
<1>5. \A s \in Runs : ~Active(s)
  BY RunNames DEF BootstrapByHand, RunAt, Locked, Active
<1>6. Reached("vault-started") /\ ~Begins("vault-started") /\ ~Awaited("vault-started")
  BY <1>5, IndexOf DEF BootstrapByHand, Reached, Begins, Awaited, RunAt, Active
<1>7. UNCHANGED <<vault, record>> /\ \A d \in Ceremonies : d # "bootstrap" => ceremony'[d] = ceremony[d]
  BY <1>2, FirstEffect DEF IndInv, CeremonyInv, Changes
<1>8. FreshInv'
  BY <1>2, <1>6, <1>7, SameView, CeremonyNames DEF IndInv, ReleaseInv, FreshInv, releaseVars
<1>9. AwaitInv'
  BY <1>2, <1>6, SameView DEF AwaitInv
<1>10. CeremonyInv'
  BY <1>2, <1>3, CeremonyInvStep DEF IndInv
<1> QED
  BY <1>2, <1>4, <1>8, <1>9, <1>10, PlatformInvStutter, OtherInvStep DEF IndInv

LEMMA StutterStep ==
  ASSUME IndInv, UNCHANGED vars
  PROVE  IndInv'
<1>1. UNCHANGED <<platformVars, ceremonyVars, releaseVars, mishaps>>
  BY DEF vars
<1>2. FactsKept
  BY <1>1 DEF FactsKept, releaseVars, ceremonyVars, platformVars, Complete
<1>3. FreshInv'
  BY <1>1, SameView, FreshKept DEF IndInv, ReleaseInv, CeremonyInv, releaseVars
<1>4. AwaitInv'
  BY <1>1, SameView DEF IndInv, ReleaseInv, AwaitInv, FirstBootstrap, BootWorked, At, ceremonyVars
<1>5. mishaps' \in 0..MaxMishaps
  BY <1>1 DEF IndInv, ReleaseInv, ReleaseType
<1> QED
  BY <1>1, <1>2, <1>3, <1>4, <1>5, PlatformInvStutter, CeremonyInvStutter, OtherInvStep DEF IndInv

(* Every step is of one of these kinds.                                    *)
LEMMA StepsOfCeremonies ==
  ASSUME NEW c \in Ceremonies, CeremonyStep(c) \/ CeremonyGoesWrong(c)
  PROVE  ceremony[c].at \notin {"idle", "ok", "failed"}
<1>1. ASSUME CeremonyStep(c) PROVE ceremony[c].at \notin {"idle", "ok", "failed"}
  BY <1>1 DEF CeremonyStep, OpenFresh, OpenInitialized, Initialize, WriteShares, BackedUp,
     RemoveResponse, MarkConfigured, CancelPending, LeavePending, Generate, Quorum, QuorumOpen,
     QuorumRefused, Work, Revoke, Cancel, Report, At
<1>2. ASSUME CeremonyGoesWrong(c) PROVE ceremony[c].at \notin {"idle", "ok", "failed"}
  BY <1>2 DEF CeremonyGoesWrong, InitializeLost, QuorumLost, QuorumOpen, RevokeFails,
     CeremonyFails, CeremonyKilled, At
<1> QED
  BY <1>1, <1>2

OtherStep ==
  \/ BootstrapByHand
  \/ PlatformOn /\ UNCHANGED <<ceremonyVars, releaseVars>>
  \/ \E c \in Ceremonies :
       /\ CeremonyOn(c) /\ UNCHANGED <<platformVars, releaseVars>>
       /\ c = "bootstrap" /\ CeremonyLeft(c) => ~Awaited("vault-started")
LEMMA NextKinds ==
  ASSUME IndInv, Next
  PROVE  mishaps' \in 0..MaxMishaps /\ (ReleaseStep \/ OtherStep)
<1>1. mishaps' \in 0..MaxMishaps
  BY MaxMishapsAssumption DEF Next, IndInv, ReleaseInv, ReleaseType
<1>2. ASSUME NEW c \in Ceremonies, CeremonyStep(c) \/ CeremonyGoesWrong(c)
      PROVE  CeremonyOn(c) /\ ~CeremonyLeft(c)
  BY <1>2, StepsOfCeremonies DEF CeremonyOn, CeremonyMove, CeremonyFirst, CeremonyBegin, CeremonyLeft, At
<1>3. ASSUME NEW c \in Ceremonies, ReapCeremony(c) PROVE OtherStep
  <2>1. CeremonyLeft(c) /\ UNCHANGED <<platformVars, releaseVars>>
    BY <1>3 DEF ReapCeremony, CeremonyLeft
  <2>2. CeremonyOn(c)
    BY <2>1 DEF CeremonyOn, CeremonyMove, CeremonyFirst, CeremonyBegin, CeremonyLeft, At
  <2>3. c = "bootstrap" => ~Awaited("vault-started")
    BY <1>3, CeremonyOfPhases DEF ReapCeremony, StartedPhases
  <2> QED
    BY <2>1, <2>2, <2>3 DEF OtherStep
<1>4. ASSUME ReapPlatform PROVE OtherStep
  BY <1>4 DEF ReapPlatform, OtherStep, PlatformOn, PlatformLeft
<1>5. ASSUME Steps PROVE ReleaseStep \/ OtherStep
  BY <1>3, <1>4, <1>5 DEF Steps, ReleaseStep, RunMove
<1>6. ASSUME Works PROVE ReleaseStep \/ OtherStep
  BY <1>2, <1>5, <1>6 DEF Works, ReleaseStep, OtherStep, PlatformOn
<1>7. ASSUME GoesWrong PROVE ReleaseStep \/ OtherStep
  BY <1>2, <1>7 DEF GoesWrong, ReleaseStep, RunMove, OtherStep, PlatformOn
<1> QED
  BY <1>1, <1>6, <1>7 DEF Next

-----------------------------------------------------------------------------
(* The theorems.                                                           *)

LEMMA InitInv == Init => IndInv
<1> SUFFICES ASSUME Init PROVE IndInv
  OBVIOUS
<1>1. PlatformInv /\ CeremonyInv
  BY PlatformInitInv, CeremonyInitInv DEF Init
<1>2. receipt.phase = "none" /\ receipt = NoReceipt /\ \A ph : ~Reached(ph)
  BY DEF Init, NoReceipt, Reached
<1>3. \A s \in Runs : shell[s].at = "none" /\ shell[s].phase = "none"
  BY DEF Init, Idle
<1>4. ReleaseType
  <2>1. receipt \in Receipts /\ shell \in [Runs -> Shells]
    BY DEF Init, NoReceipt, Receipts, Shells, Idle, Places
  <2>2. begun \in [OncePhases -> 0..2]
    BY DEF Init
  <2>3. mishaps \in 0..MaxMishaps
    BY MaxMishapsAssumption DEF Init
  <2>4. lock \in BOOLEAN /\ orphans \subseteq WorkPhases /\ effects \subseteq WorkPhases
    BY DEF Init
  <2> QED
    BY <2>1, <2>2, <2>3, <2>4 DEF ReleaseType
<1>5. LockInv
  BY <1>2, <1>3, RunNames DEF LockInv, RunAt, Locked
<1>6. \A s \in Runs : ViewInv(s)
  BY <1>3 DEF ViewInv, Active, RunAt, Fits
<1>7. \A ph \in OncePhases : BegunInv(ph)
  BY DEF Init, BegunInv
<1>8. FreshInv
  BY CeremonyNames DEF Init, CeremoniesInit, NoRun, FreshInv
<1>9. AwaitInv /\ ClaimInv /\ TruthInv
  BY <1>2, <1>3 DEF AwaitInv, Awaited, RunAt, ClaimInv, TruthInv
<1> QED
  BY <1>1, <1>4, <1>5, <1>6, <1>7, <1>8, <1>9 DEF IndInv, ReleaseInv

LEMMA StepInv == IndInv /\ [Next]_vars => IndInv'
BY NextKinds, ReleaseInvStep, PlatformOnlyStep, CeremonyOnlyStep, ByHandStep, StutterStep
   DEF OtherStep, PlatformMove

(* The parts of the invariant hold in every state that the flow, its       *)
(* resumes, its ceremonies and the platform reach, whatever fails, is      *)
(* killed or is lost on the way.                                           *)
THEOREM Invariance == Spec => []IndInv
<1> QED
  BY InitInv, StepInv, PTL DEF Spec

(* Every variable stays in the range the code gives it.                    *)
THEOREM TypeCorrect == Spec => []TypeOK
<1>1. IndInv => TypeOK
  <2> SUFFICES ASSUME IndInv PROVE TypeOK
    OBVIOUS
  <2>1. PlatformTypeOK
    BY DEF IndInv, PlatformInv, PlatformType, PlatformTypeOK
  <2>2. CeremoniesTypeOK
    BY DEF IndInv, CeremonyInv, CeremonyType, CeremoniesTypeOK, Vaults, Facts, Tokens, Processes
  <2> QED
    BY <2>1, <2>2 DEF IndInv, ReleaseInv, ReleaseType, Receipts, Shells, Places, PhaseNames, TypeOK
<1> QED
  BY <1>1, Invariance, PTL

(* A runner holds its temporary cluster-admin as long as its build runs or *)
(* can still start (run-platform-bootstrap.sh:149-243).                    *)
THEOREM RunnersCovered == Spec => []RunnerCoversBuild
<1>1. IndInv => RunnerCoversBuild
  BY CoverageOfPlatform DEF IndInv
<1> QED
  BY <1>1, Invariance, PTL

(* A ceremony's receipt is there only when its work is done and its tokens *)
(* are dead, however often a run died beside it.                           *)
THEOREM ReceiptsAreTrue == Spec => []ReceiptIsTrue
<1>1. IndInv => ReceiptIsTrue
  BY ReceiptOfCeremonies DEF IndInv
<1> QED
  BY <1>1, Invariance, PTL

(* Every phase that the receipt has passed is true: its work has been      *)
(* done, nothing of it goes on, and what it had to take away is gone       *)
(* (interactive-hoodi-release.sh:286-502).                                 *)
THEOREM PhasesAreTrue == Spec => []PhaseIsTrue
<1>1. IndInv => PhaseIsTrue
  <2> SUFFICES ASSUME IndInv PROVE PhaseIsTrue
    OBVIOUS
  <2>1. \A ph \in PhaseNames : Reached(ph) => Truth(ph)
    BY DEF IndInv, ReleaseInv, TruthInv
  <2>2. "configured" \in record => "configured" \in vault.facts /\ CeremonyOver("bootstrap")
    BY DEF IndInv, CeremonyInv, SealInv, ConfiguredInv, CeremonyOver
  <2>3. /\ "audit-receipt" \in record => "audited" \in vault.facts /\ CeremonyOver("audit")
        /\ "custody-receipt" \in record => "onboarded" \in vault.facts /\ CeremonyOver("custody")
    BY CeremonyNames DEF IndInv, CeremonyInv, TokenInv, CeremonyOver
  <2>4. Complete("revoke_complete") =>
          /\ \A b \in Runners : cluster.build[b] = "succeeded"
          /\ cluster.granted = {} /\ flight = {}
    BY PlatformTrue DEF IndInv
  <2> QED
    BY <2>1, <2>2, <2>3, <2>4, NamesOf DEF Truth, PhaseIsTrue
<1> QED
  BY <1>1, Invariance, PTL

(* The flow begins each of the bootstrap, the audit ceremony, onboarding   *)
(* and activation at most once (interactive-hoodi-release.sh:300-313).     *)
THEOREM CeremoniesOnce == Spec => []CeremonyOnce
<1>1. IndInv => CeremonyOnce
  BY DEF IndInv, ReleaseInv, ReleaseType, BegunInv, CeremonyOnce
<1> QED
  BY <1>1, Invariance, PTL

(* No build is started beside one that runs or has succeeded, and no       *)
(* terraform run begins beside another, although a killed script leaves    *)
(* its own behind (platform_bootstrap_replay.py:275-296).                  *)
THEOREM OneBuildAtATime == Spec => OneAtATime
<1>1. IndInv => [/\ \A b \in Runners : StartOf[b] \in flight => cluster.build[b] \in {"none", "failed"}
                 /\ PhaseApply => flight \cap Applies = {}]_vars
  BY OneBuildOneApply DEF IndInv
<1> QED
  BY <1>1, Invariance, PTL DEF OneAtATime

-----------------------------------------------------------------------------
(* Where only a new release helps.                                         *)

LEMMA PlatformOnCases ==
  ASSUME PlatformOn
  PROVE  \/ PlatformLeft \/ PlatformVerified \/ PhaseIntent \/ PhaseComplete
         \/ PhaseApply \/ ApplyReturned \/ PhaseTls \/ PhaseBuild \/ PlatformFails \/ PlatformKilled
         \/ \E b \in Runners : \/ MonitorStart(b) \/ MonitorRefuses(b) \/ MonitorResumes(b)
                               \/ MonitorStarted(b) \/ MonitorVerdict(b) \/ RetrySend(b)
                               \/ RetryTerminal(b) \/ MonitorFails(b)
                               \/ BuildSucceeds(b) \/ BuildFails(b)
         \/ \E request \in Phases : Land(request)
BY DEF PlatformOn, PlatformStep, PlatformScript, MonitorStep, PlatformEnvironment,
       PlatformGoesWrong

(* Nothing but a new script verifies the platform's inputs.                *)
Unverified == platform.at \in {"idle", "failed"} /\ ~Initialized
LEMMA UnverifiedStep ==
  ASSUME PlatformOn, PlatformType, Unverified
  PROVE  Unverified'
<1>1. CASE PlatformLeft
  BY <1>1 DEF PlatformLeft, Unverified, Initialized, PlatformType
<1>2. CASE PlatformVerified
  BY <1>2 DEF PlatformVerified, Unverified, Initialized, PlatformType
<1>3. CASE PhaseIntent
  BY <1>3 DEF PhaseIntent, PlatformAt, Unverified, Initialized, PlatformType
<1>4. CASE PhaseComplete
  BY <1>4 DEF PhaseComplete, Unverified, Initialized, PlatformType
<1>5. CASE PhaseApply
  BY <1>5 DEF PhaseApply, PlatformAt, Unverified, Initialized, PlatformType
<1>6. CASE ApplyReturned
  BY <1>6 DEF ApplyReturned, PlatformAt, Unverified, Initialized, PlatformType
<1>7. CASE PhaseTls
  BY <1>7 DEF PhaseTls, PlatformAt, Unverified, Initialized, PlatformType
<1>8. CASE PhaseBuild
  BY <1>8 DEF PhaseBuild, PlatformAt, Unverified, Initialized, PlatformType
<1>9. CASE PlatformFails
  BY <1>9 DEF PlatformFails, PlatformAt, Unverified, Initialized, PlatformType
<1>10. CASE PlatformKilled
  BY <1>10 DEF PlatformKilled, PlatformAt, Unverified, Initialized, PlatformType
<1>11. ASSUME NEW b \in Runners, \/ MonitorStart(b) \/ MonitorRefuses(b) \/ MonitorResumes(b)
                                  \/ MonitorStarted(b) \/ MonitorVerdict(b) \/ RetrySend(b)
                                  \/ RetryTerminal(b) \/ MonitorFails(b)
                                  \/ BuildSucceeds(b) \/ BuildFails(b)
        PROVE  Unverified'
  <2>1. CASE MonitorStart(b)
    BY <2>1 DEF MonitorStart, MonitorAt, Unverified, Initialized, PlatformType
  <2>2. CASE MonitorRefuses(b)
    BY <2>2 DEF MonitorRefuses, MonitorEnds, PlatformAt, Waits, Unverified, Initialized, PlatformType
  <2>3. CASE MonitorResumes(b)
    BY <2>3 DEF MonitorResumes, MonitorAt, Unverified, Initialized, PlatformType
  <2>4. CASE MonitorStarted(b)
    BY <2>4 DEF MonitorStarted, MonitorAt, Unverified, Initialized, PlatformType
  <2>5. CASE MonitorVerdict(b)
    BY <2>5 DEF MonitorVerdict, MonitorEnds, PlatformAt, Waits, Unverified, Initialized, PlatformType
  <2>6. CASE RetrySend(b)
    BY <2>6 DEF RetrySend, MonitorAt, Unverified, Initialized, PlatformType
  <2>7. CASE RetryTerminal(b)
    BY <2>7 DEF RetryTerminal, Unverified, Initialized, PlatformType
  <2>8. CASE MonitorFails(b)
    BY <2>8 DEF MonitorFails, MonitorEnds, PlatformAt, Waits, Unverified, Initialized, PlatformType
  <2>9. CASE BuildSucceeds(b)
    BY <2>9 DEF BuildSucceeds, Unverified, Initialized, PlatformType
  <2>10. CASE BuildFails(b)
    BY <2>10 DEF BuildFails, Unverified, Initialized, PlatformType
  <2> QED
    BY <1>11, <2>1, <2>2, <2>3, <2>4, <2>5, <2>6, <2>7, <2>8, <2>9, <2>10
<1>12. ASSUME NEW request \in Phases, Land(request) PROVE Unverified'
  BY <1>12 DEF Land, Unverified, Initialized, PlatformType
<1> QED
  BY PlatformOnCases, <1>1, <1>2, <1>3, <1>4, <1>5, <1>6, <1>7, <1>8, <1>9, <1>10, <1>11, <1>12

(* A start whose outcome is not known is not made known by anything.       *)
Uncertain(r) == handle[r] = "start-intent" /\ monitor[r].at \in {"idle", "open"}
LEMMA UncertainStep ==
  ASSUME PlatformMove, PlatformType, NEW r \in Runners, Uncertain(r)
  PROVE  Uncertain(r)'
<1>1. CASE PlatformBegin
  BY <1>1 DEF PlatformBegin, PlatformAt, Uncertain, PlatformType
<1>2. CASE PlatformLeft
  BY <1>2 DEF PlatformLeft, Uncertain, PlatformType
<1>3. CASE PlatformVerified
  BY <1>3 DEF PlatformVerified, Uncertain, PlatformType
<1>4. CASE PhaseIntent
  BY <1>4 DEF PhaseIntent, PlatformAt, Uncertain, PlatformType
<1>5. CASE PhaseComplete
  BY <1>5 DEF PhaseComplete, Uncertain, PlatformType
<1>6. CASE PhaseApply
  BY <1>6 DEF PhaseApply, PlatformAt, Uncertain, PlatformType
<1>7. CASE ApplyReturned
  BY <1>7 DEF ApplyReturned, PlatformAt, Uncertain, PlatformType
<1>8. CASE PhaseTls
  BY <1>8 DEF PhaseTls, PlatformAt, Uncertain, PlatformType
<1>9. CASE PhaseBuild
  BY <1>9 DEF PhaseBuild, PlatformAt, Uncertain, PlatformType
<1>10. CASE PlatformFails
  BY <1>10 DEF PlatformFails, PlatformAt, Uncertain, PlatformType
<1>11. CASE PlatformKilled
  BY <1>11 DEF PlatformKilled, PlatformAt, Uncertain, PlatformType
<1>12. ASSUME NEW b \in Runners, \/ MonitorStart(b) \/ MonitorRefuses(b) \/ MonitorResumes(b)
                                  \/ MonitorStarted(b) \/ MonitorVerdict(b) \/ RetrySend(b)
                                  \/ RetryTerminal(b) \/ MonitorFails(b)
                                  \/ BuildSucceeds(b) \/ BuildFails(b)
        PROVE  Uncertain(r)'
  <2>1. CASE MonitorStart(b)
    BY <2>1 DEF MonitorStart, MonitorAt, Uncertain, PlatformType
  <2>2. CASE MonitorRefuses(b)
    BY <2>2 DEF MonitorRefuses, MonitorEnds, PlatformAt, Waits, Uncertain, PlatformType
  <2>3. CASE MonitorResumes(b)
    BY <2>3 DEF MonitorResumes, MonitorAt, Uncertain, PlatformType
  <2>4. CASE MonitorStarted(b)
    BY <2>4 DEF MonitorStarted, MonitorAt, Uncertain, PlatformType
  <2>5. CASE MonitorVerdict(b)
    BY <2>5 DEF MonitorVerdict, MonitorEnds, PlatformAt, Waits, Uncertain, PlatformType
  <2>6. CASE RetrySend(b)
    BY <2>6 DEF RetrySend, MonitorAt, Uncertain, PlatformType
  <2>7. CASE RetryTerminal(b)
    BY <2>7 DEF RetryTerminal, Uncertain, PlatformType
  <2>8. CASE MonitorFails(b)
    BY <2>8 DEF MonitorFails, MonitorEnds, PlatformAt, Waits, Uncertain, PlatformType
  <2>9. CASE BuildSucceeds(b)
    BY <2>9 DEF BuildSucceeds, Uncertain, PlatformType
  <2>10. CASE BuildFails(b)
    BY <2>10 DEF BuildFails, Uncertain, PlatformType
  <2> QED
    BY <1>12, <2>1, <2>2, <2>3, <2>4, <2>5, <2>6, <2>7, <2>8, <2>9, <2>10
<1>13. ASSUME NEW request \in Phases, Land(request) PROVE Uncertain(r)'
  BY <1>13 DEF Land, Uncertain, PlatformType
<1> QED
  BY PlatformCases, <1>1, <1>2, <1>3, <1>4, <1>5, <1>6, <1>7, <1>8, <1>9, <1>10, <1>11, <1>12, <1>13

(* A Vault that is initialised and whose response or checkpoint is gone.   *)
Adrift ==
  /\ "initialized" \in vault.facts /\ "configured" \notin record
  /\ ~{"pending", "response", "shares"} \subseteq record
  /\ ~At("bootstrap", "shares") /\ ("pending" \in record => ~At("bootstrap", "mark"))
LEMMA AdriftStep ==
  ASSUME CeremonyType, NEW c \in Ceremonies, CeremonyMove(c), SealInv, FilesInv, Adrift
  PROVE  Adrift'
<1>1. CASE OpenFresh \/ OpenInitialized
    BY <1>1, OpenEffect, VaultSame, CeremonyNames DEF Adrift, FilesInv, SealInv, BootWorked, At,
     Holds, Changes
<1>2. CASE Initialize \/ InitializeLost
    BY <1>2, InitializeEffect, CeremonyNames DEF Adrift, FilesInv, SealInv, BootWorked, At,
     Holds, Changes
<1>3. CASE WriteShares
    BY <1>3, FileEffects, VaultSame, CeremonyNames DEF FileStep, Adrift, FilesInv, SealInv,
     BootWorked, At, Holds, Changes
<1>4. CASE BackedUp
    BY <1>4, FileEffects, VaultSame, CeremonyNames DEF FileStep, Adrift, FilesInv, SealInv,
     BootWorked, At, Holds, Changes
<1>5. CASE RemoveResponse
    BY <1>5, FileEffects, VaultSame, CeremonyNames DEF FileStep, Adrift, FilesInv, SealInv,
     BootWorked, At, Holds, Changes
<1>6. CASE MarkConfigured
    BY <1>6, FileEffects, VaultSame, CeremonyNames DEF FileStep, Adrift, FilesInv, SealInv,
     BootWorked, At, Holds, Changes
<1>7. CASE CeremonyFirst(c)
    BY <1>7, FirstEffect, VaultSame, CeremonyNames DEF Adrift, FilesInv, SealInv, BootWorked,
     At, Holds, Changes
<1>8. CASE CeremonyLeft(c)
    BY <1>8, LeftEffect, VaultSame, CeremonyNames DEF Adrift, FilesInv, SealInv, BootWorked, At,
     Holds, Changes
<1>9. CASE CancelPending(c)
    BY <1>9, CancelPendingEffect, CeremonyNames DEF Adrift, FilesInv, SealInv, BootWorked, At,
     Holds, Changes
<1>10. CASE Generate(c)
    BY <1>10, GenerateEffect, CeremonyNames DEF Adrift, FilesInv, SealInv, BootWorked, At,
     Holds, Changes
<1>11. CASE Quorum(c)
    BY <1>11, QuorumEffect, CeremonyNames DEF Adrift, FilesInv, SealInv, BootWorked, At, Holds,
     Changes
<1>12. CASE QuorumLost(c)
    BY <1>12, QuorumLostEffect, CeremonyNames DEF Adrift, FilesInv, SealInv, BootWorked, At,
     Holds, Changes
<1>13. CASE LeavePending(c) \/ QuorumRefused(c) \/ CeremonyFails(c)
    BY <1>13, GivesUpEffect, VaultSame, CeremonyNames DEF Adrift, FilesInv, SealInv, BootWorked,
     At, Holds, Changes
<1>14. CASE Work(c)
    BY <1>14, WorkEffect, CeremonyNames DEF Adrift, FilesInv, SealInv, BootWorked, At, Holds,
     Changes
<1>15. CASE Revoke(c)
    BY <1>15, RevokeEffect, CeremonyNames DEF Adrift, FilesInv, SealInv, BootWorked, At, Holds,
     Changes
<1>16. CASE RevokeFails(c)
    BY <1>16, RevokeFailsEffect, CeremonyNames DEF Adrift, FilesInv, SealInv, BootWorked, At,
     Holds, Changes
<1>17. CASE Cancel(c)
    BY <1>17, CancelEffect, CeremonyNames DEF Adrift, FilesInv, SealInv, BootWorked, At, Holds,
     Changes
<1>18. CASE Report(c)
    BY <1>18, ReportEffect, VaultSame, CeremonyNames DEF Adrift, FilesInv, SealInv, BootWorked,
     At, Holds, Changes
<1>19. CASE CeremonyKilled(c)
    BY <1>19, KilledEffect, CeremonyNames DEF Adrift, FilesInv, SealInv, BootWorked, At, Holds,
     Changes
<1> QED
  BY CeremonyCases, <1>1, <1>2, <1>3, <1>4, <1>5, <1>6, <1>7, <1>8, <1>9, <1>10, <1>11, <1>12, <1>13, <1>14, <1>15, <1>16, <1>17, <1>18, <1>19

(* A ceremony that is over without its receipt.                            *)
Ended(d) == Gone(d) /\ Receipt[d] \notin record
LEMMA EndedStep ==
  ASSUME CeremonyType, NEW c \in Ceremonies, CeremonyMove(c), ~CeremonyFirst(c),
         NEW d \in {"audit", "custody"}, Ended(d)
  PROVE  Ended(d)'
<1>1. CASE OpenFresh \/ OpenInitialized
    BY <1>1, OpenEffect, VaultSame, CeremonyNames DEF Ended, Gone, Holds, Changes
<1>2. CASE Initialize \/ InitializeLost
    BY <1>2, InitializeEffect, CeremonyNames DEF Ended, Gone, Holds, Changes
<1>3. CASE WriteShares
    BY <1>3, FileEffects, VaultSame, CeremonyNames DEF FileStep, Ended, Gone, Holds, Changes
<1>4. CASE BackedUp
    BY <1>4, FileEffects, VaultSame, CeremonyNames DEF FileStep, Ended, Gone, Holds, Changes
<1>5. CASE RemoveResponse
    BY <1>5, FileEffects, VaultSame, CeremonyNames DEF FileStep, Ended, Gone, Holds, Changes
<1>6. CASE MarkConfigured
    BY <1>6, FileEffects, VaultSame, CeremonyNames DEF FileStep, Ended, Gone, Holds, Changes
<1>7. CASE CeremonyFirst(c)
    BY <1>7, FirstEffect, VaultSame, CeremonyNames DEF Ended, Gone, Holds, Changes
<1>8. CASE CeremonyLeft(c)
    BY <1>8, LeftEffect, VaultSame, CeremonyNames DEF Ended, Gone, Holds, Changes
<1>9. CASE CancelPending(c)
    BY <1>9, CancelPendingEffect, CeremonyNames DEF Ended, Gone, Holds, Changes
<1>10. CASE Generate(c)
    BY <1>10, GenerateEffect, CeremonyNames DEF Ended, Gone, Holds, Changes
<1>11. CASE Quorum(c)
    BY <1>11, QuorumEffect, CeremonyNames DEF Ended, Gone, Holds, Changes
<1>12. CASE QuorumLost(c)
    BY <1>12, QuorumLostEffect, CeremonyNames DEF Ended, Gone, Holds, Changes
<1>13. CASE LeavePending(c) \/ QuorumRefused(c) \/ CeremonyFails(c)
    BY <1>13, GivesUpEffect, VaultSame, CeremonyNames DEF Ended, Gone, Holds, Changes
<1>14. CASE Work(c)
    BY <1>14, WorkEffect, CeremonyNames DEF Ended, Gone, Holds, Changes
<1>15. CASE Revoke(c)
    BY <1>15, RevokeEffect, CeremonyNames DEF Ended, Gone, Holds, Changes
<1>16. CASE RevokeFails(c)
    BY <1>16, RevokeFailsEffect, CeremonyNames DEF Ended, Gone, Holds, Changes
<1>17. CASE Cancel(c)
    BY <1>17, CancelEffect, CeremonyNames DEF Ended, Gone, Holds, Changes
<1>18. CASE Report(c)
    BY <1>18, ReportEffect, VaultSame, CeremonyNames DEF Ended, Gone, Holds, Changes
<1>19. CASE CeremonyKilled(c)
    BY <1>19, KilledEffect, CeremonyNames DEF Ended, Gone, Holds, Changes
<1> QED
  BY CeremonyCases, <1>1, <1>2, <1>3, <1>4, <1>5, <1>6, <1>7, <1>8, <1>9, <1>10, <1>11, <1>12, <1>13, <1>14, <1>15, <1>16, <1>17, <1>18, <1>19


(* A phase that was announced and whose work is not proved is not left.    *)
Unproved(ph) ==
  /\ ph = "platform-started" => ~Initialized
  /\ ph = "vault-started" => "configured" \notin record
  /\ ph \in BoundPhases => ~Proof(ph)
LEMMA PhaseStays ==
  ASSUME IndInv, ReleaseStep, receipt.phase \in StartedPhases, Unproved(receipt.phase)
  PROVE  receipt'.phase = receipt.phase
<1>1. ReleaseType /\ LockInv /\ (\A s \in Runs : ViewInv(s)) /\ ClaimInv
  BY DEF IndInv, ReleaseInv
<1>2. ASSUME NEW s \in Runs, Forward(s) PROVE FALSE
  <2>1. CASE AdvanceCommit(s)
    <3>1. /\ RunAt(s, "commit") /\ Here(s) = receipt.phase
          /\ Following(receipt.phase) \notin {"audit-complete", "custody-complete", "activated"}
      BY <1>1, <2>1, AdvanceCommitEffect
    <3>2. receipt.phase \in {"platform-started", "vault-started"}
      BY <3>1, FollowingOf DEF StartedPhases
    <3>3. Claim(receipt.phase)
      BY <1>1, <3>1 DEF ClaimInv, RunAt
    <3> QED
      BY <3>2, <3>3 DEF Claim, Unproved, Complete, Initialized
  <2>2. CASE receipt.phase \in BoundPhases /\ Proof(receipt.phase)
    BY <2>2 DEF Unproved
  <2> QED
    BY <1>2, <2>1, <2>2 DEF Forward
<1>3. CASE Record
  BY <1>3, RecordEffect, <1>1 DEF NoReceipt, StartedPhases
<1>4. ASSUME NEW s \in Runs, Begin(s) PROVE receipt' = receipt
  BY <1>4, <1>1, BeginEffect
<1> QED
  BY <1>1, <1>2, <1>3, <1>4, ReleaseKinds DEF ReleaseMove, Calm

(* Nobody comes to begin it, or to work on it, who was not there.          *)
LEMMA NobodyGoes ==
  ASSUME NEW ph, Nobody(ph), NEW s \in Runs, NEW at, NEW p, Goes(s, at, p),
         at \in {"begin", "work"} => p # ph
  PROVE  Nobody(ph)'
BY DEF Nobody, Goes, Here
LEMMA NobodyStays ==
  ASSUME IndInv, ReleaseStep, NEW ph \in StartedPhases, receipt.phase = ph, Unproved(ph), Nobody(ph)
  PROVE  Nobody(ph)' /\ ~\E s \in Runs : Begin(s)
<1>1. ReleaseType /\ LockInv /\ (\A s \in Runs : ViewInv(s))
  BY DEF IndInv, ReleaseInv
<1>2. ASSUME NEW s \in Runs, Begin(s) PROVE FALSE
  BY <1>1, <1>2, BeginFacts, BeginEffect DEF Nobody, RunAt
<1>3. receipt'.phase = ph
  BY PhaseStays
<1>4. ASSUME Record PROVE Nobody(ph)'
  BY <1>1, <1>4, RecordEffect, RunNames, NobodyGoes
<1>5. ASSUME NEW s \in Resumes, ResumeRead(s) PROVE Nobody(ph)'
  BY <1>1, <1>5, ResumeReadEffect, RunNames, NobodyGoes
<1>6. ASSUME NEW s \in Runs, ResumeLock(s) PROVE Nobody(ph)'
  BY <1>1, <1>6, ResumeLockEffect, NobodyGoes
<1>7. ASSUME NEW s \in Runs, ResumeReread(s) PROVE Nobody(ph)'
  BY <1>1, <1>7, ResumeRereadEffect, NobodyGoes DEF Stops, Unproved
<1>8. ASSUME NEW s \in Runs, Choose(s) PROVE Nobody(ph)'
  <2>1. Here(s) \in WorkPhases \ BoundPhases => Here(s) # ph
    BY DEF WorkPhases, BoundPhases, StartedPhases
  <2> QED
    BY <1>1, <1>8, <2>1, ChooseEffect, NobodyGoes
<1>9. ASSUME NEW s \in Runs, WorkDone(s) PROVE Nobody(ph)'
  BY <1>1, <1>9, WorkDoneEffect, NobodyGoes DEF Stops
<1>10. ASSUME NEW s \in Runs, WorkRefused(s) PROVE Nobody(ph)'
  BY <1>1, <1>10, WorkRefusedEffect, NobodyGoes DEF Stops
<1>11. ASSUME NEW s \in Runs, Prepare(s) PROVE Nobody(ph)'
  BY <1>1, <1>11, PrepareEffect, NobodyGoes DEF Stops
<1>12. ASSUME NEW s \in Runs, AdvanceRead(s) PROVE Nobody(ph)'
  BY <1>1, <1>12, AdvanceReadEffect, NobodyGoes DEF Stops
<1>13. ASSUME NEW s \in Runs, AdvanceCommit(s) PROVE Nobody(ph)'
  <2>1. Following(ph) # ph
    BY FollowingOf DEF StartedPhases
  <2> QED
    BY <1>1, <1>3, <1>13, <2>1, AdvanceCommitEffect
<1>14. ASSUME NEW s \in Runs, Reconcile(s) PROVE Nobody(ph)'
  BY <1>1, <1>14, ReconcileEffect, NobodyGoes DEF Stops
<1>15. ASSUME NEW s \in Runs, Verify(s) PROVE Nobody(ph)'
  BY <1>1, <1>15, VerifyEffect, NobodyGoes DEF Stops
<1>16. ASSUME NEW s \in Runs, RunFails(s) \/ RunDies(s) PROVE Nobody(ph)'
  <2>1. Goes(s, "none", "none")
    BY <1>1, <1>16, RunFailsEffect, RunDiesEffect DEF Stops
  <2> QED
    BY <2>1, NobodyGoes
<1>17. ASSUME NEW s \in Runs, AwaitPlatform(s) PROVE Nobody(ph)'
  BY <1>1, <1>17, AwaitPlatformEffect, NobodyGoes DEF Stops
<1>18. ASSUME NEW s \in Runs, AwaitCeremony(s) PROVE Nobody(ph)'
  BY <1>1, <1>18, AwaitCeremonyEffect, NobodyGoes DEF Stops
<1>19. ASSUME Bind PROVE Nobody(ph)'
  BY <1>1, <1>19, BindEffect, RunNames, NobodyGoes
<1>20. ASSUME shell' = shell PROVE Nobody(ph)'
  BY <1>20 DEF Nobody, Here
<1> QED
  BY <1>2, <1>4, <1>5, <1>6, <1>7, <1>8, <1>9, <1>10, <1>11, <1>12, <1>13, <1>14, <1>15, <1>16,
     <1>17, <1>18, <1>19, <1>20
     DEF ReleaseStep, RunMove, RunStep, ClearLock, OrphanEnds

(* The platform goes on beside the release; only Begin starts its script.  *)
LEMMA PlatformOfRelease ==
  ASSUME ReleaseType, \A s \in Runs : ViewInv(s), ReleaseStep, ~\E s \in Runs : Begin(s)
  PROVE  PlatformLeft \/ UNCHANGED platformVars
<1>1. ASSUME NEW s \in Runs, RunMove(s), ~AwaitPlatform(s) PROVE UNCHANGED platformVars
  BY <1>1, ResumeLockEffect, ResumeRereadEffect, ChooseEffect, WorkDoneEffect, WorkRefusedEffect,
     PrepareEffect, AdvanceReadEffect, AdvanceCommitEffect, ReconcileEffect, VerifyEffect,
     RunFailsEffect, RunDiesEffect, AwaitCeremonyEffect DEF RunMove, RunStep, Apart
<1>2. ASSUME NEW s \in Runs, AwaitPlatform(s) PROVE PlatformLeft
  BY <1>2, AwaitPlatformEffect
<1> QED
  BY <1>1, <1>2, RecordEffect, BindEffect DEF ReleaseStep, ClearLock, OrphanEnds, ResumeRead, Others, Apart

(* The five ways to be stranded, and that each of them stays.              *)
StrandedPlatform == receipt.phase = "platform-started" /\ ~Initialized /\ PlatformGone
StrandedVault == receipt.phase = "vault-started" /\ Adrift
StrandedCeremony(ph) == receipt.phase = ph /\ Ended(CeremonyOf(ph)) /\ Nobody(ph)
StrandedActivation ==
  /\ receipt.phase = "activation-started" /\ "activation-started" \notin effects \cup orphans
  /\ Nobody("activation-started")
StrandedSomehow ==
  \/ StrandedPlatform \/ StrandedVault \/ StrandedActivation
  \/ \E b \in Runners : Uncertain(b)
  \/ \E ph \in {"audit-started", "custody-started"} : StrandedCeremony(ph)

LEMMA StrandedCases == Stranded <=> StrandedSomehow
<1>1. "initialized" \in vault.facts => (~Verified <=> "configured" \notin record)
  BY DEF Verified
<1>2. \A ph \in {"audit-started", "custody-started"} :
        Proof(ph) <=> Receipt[CeremonyOf(ph)] \in record
  BY CeremonyOfPhases, CeremonyNames DEF Proof
<1>3. Proof("activation-started") <=> "activation-started" \in effects
  BY DEF Proof
<1> QED
  BY <1>1, <1>2, <1>3 DEF Stranded, StrandedPlatform, StrandedVault, StrandedActivation,
     StrandedCeremony, StrandedSomehow, Uncertain, Adrift, Ended

LEMMA StrandedPlatformStays ==
  ASSUME IndInv, StrandedPlatform, ReleaseStep \/ OtherStep
  PROVE  StrandedPlatform'
<1>1. Unverified /\ PlatformType /\ ReleaseType /\ \A s \in Runs : ViewInv(s)
  BY DEF StrandedPlatform, PlatformGone, Unverified, IndInv, PlatformInv, ReleaseInv
<1>2. CASE ReleaseStep
  <2>1. receipt.phase = "platform-started" /\ "platform-started" \in StartedPhases
        /\ Unproved("platform-started") /\ Nobody("platform-started")
    BY DEF StrandedPlatform, PlatformGone, Unproved, StartedPhases, BoundPhases
  <2>2. receipt'.phase = "platform-started" /\ Nobody("platform-started")' /\ ~\E s \in Runs : Begin(s)
    BY <1>2, <2>1, PhaseStays, NobodyStays
  <2>3. Unverified'
    BY <1>1, <1>2, <2>2, PlatformOfRelease DEF PlatformLeft, platformVars, Unverified, Initialized
  <2> QED
    BY <2>2, <2>3 DEF StrandedPlatform, PlatformGone, Unverified
<1>3. CASE OtherStep
  <2>1. UNCHANGED releaseVars
    BY <1>3 DEF OtherStep, BootstrapByHand
  <2>2. PlatformOn \/ UNCHANGED platformVars
    BY <1>3 DEF OtherStep, BootstrapByHand
  <2>3. Unverified'
    BY <1>1, <2>2, UnverifiedStep DEF platformVars, Unverified, Initialized
  <2> QED
    BY <2>1, <2>3 DEF releaseVars, StrandedPlatform, PlatformGone, Unverified, Nobody, Here
<1> QED
  BY <1>2, <1>3

LEMMA UncertainStays ==
  ASSUME IndInv, NEW b \in Runners, Uncertain(b), ReleaseStep \/ OtherStep
  PROVE  Uncertain(b)'
<1>1. PlatformMove \/ UNCHANGED platformVars
  BY ReleaseOutside DEF IndInv, ReleaseInv, Outside, OtherStep, BootstrapByHand, PlatformMove
<1> QED
  BY <1>1, UncertainStep DEF IndInv, PlatformInv, platformVars, Uncertain

(* How the ceremonies move, whoever moves them.                            *)
LEMMA CeremonyMoves ==
  ASSUME IndInv, ReleaseStep \/ OtherStep
  PROVE  UNCHANGED ceremonyVars \/ \E c \in Ceremonies : CeremonyMove(c)
<1>1. CASE ReleaseStep
  BY <1>1, ReleaseOutside DEF IndInv, ReleaseInv, Outside, CeremonyMove
<1>2. CASE BootstrapByHand
  <2>1. "configured" \notin record
    BY <1>2 DEF BootstrapByHand, Verified, IndInv, CeremonyInv, SealInv
  <2> QED
    BY <1>2, <2>1, CeremonyNames DEF BootstrapByHand, CeremonyFirst, CeremonyMove
<1>3. CASE OtherStep /\ ~BootstrapByHand
  BY <1>3 DEF OtherStep, CeremonyOn
<1> QED
  BY <1>1, <1>2, <1>3

LEMMA StrandedVaultStays ==
  ASSUME IndInv, StrandedVault, ReleaseStep \/ OtherStep
  PROVE  StrandedVault'
<1>1. Adrift'
  <2>1. CeremonyType /\ SealInv /\ FilesInv /\ Adrift
    BY DEF IndInv, CeremonyInv, StrandedVault
  <2> QED
    BY <2>1, CeremonyMoves, AdriftStep DEF ceremonyVars, Adrift, At
<1>2. CASE ReleaseStep
  <2>1. receipt.phase \in StartedPhases /\ Unproved(receipt.phase)
    BY DEF StrandedVault, Adrift, Unproved, StartedPhases, BoundPhases
  <2> QED
    BY <1>1, <1>2, <2>1, PhaseStays DEF StrandedVault
<1>3. CASE OtherStep
  BY <1>1, <1>3 DEF OtherStep, BootstrapByHand, releaseVars, StrandedVault
<1> QED
  BY <1>2, <1>3

LEMMA StrandedCeremonyStays ==
  ASSUME IndInv, NEW ph \in {"audit-started", "custody-started"}, StrandedCeremony(ph),
         ReleaseStep \/ OtherStep
  PROVE  StrandedCeremony(ph)'
<1> DEFINE d == CeremonyOf(ph)
<1>1. /\ CeremonyType /\ ReleaseType /\ (\A s \in Runs : ViewInv(s))
      /\ d \in {"audit", "custody"} /\ Ended(d) /\ receipt.phase = ph /\ Nobody(ph)
  BY CeremonyOfPhases DEF IndInv, CeremonyInv, ReleaseInv, StrandedCeremony
<1>2. ph \in StartedPhases /\ Unproved(ph)
  BY <1>1, CeremonyOfPhases, CeremonyNames DEF StartedPhases, Unproved, Proof, Ended
<1>3. CASE ReleaseStep
  <2>1. receipt'.phase = ph /\ Nobody(ph)' /\ ~\E s \in Runs : Begin(s)
    BY <1>1, <1>2, <1>3, PhaseStays, NobodyStays
  <2>2. UNCHANGED ceremonyVars \/ \E c \in Ceremonies : CeremonyOn(c)
    BY <1>1, <1>3, <2>1, CeremonyOfRelease
  <2>3. Ended(d)'
    BY <1>1, <2>2, EndedStep DEF CeremonyOn, ceremonyVars, Ended, Gone
  <2> QED
    BY <2>1, <2>3 DEF StrandedCeremony
<1>4. CASE OtherStep
  <2>1. UNCHANGED releaseVars
    BY <1>4 DEF OtherStep, BootstrapByHand
  <2>2. UNCHANGED ceremonyVars \/ \E c \in Ceremonies : CeremonyOn(c)
    BY <1>1, <1>4 DEF OtherStep, BootstrapByHand
  <2>3. Ended(d)'
    BY <1>1, <2>2, EndedStep DEF CeremonyOn, ceremonyVars, Ended, Gone
  <2> QED
    BY <1>1, <2>1, <2>3 DEF releaseVars, StrandedCeremony, Nobody, Here
<1> QED
  BY <1>3, <1>4

LEMMA StrandedActivationStays ==
  ASSUME IndInv, StrandedActivation, ReleaseStep \/ OtherStep
  PROVE  StrandedActivation'
<1> DEFINE ph == "activation-started"
<1>1. /\ ReleaseType /\ (\A s \in Runs : ViewInv(s)) /\ receipt.phase = ph /\ Nobody(ph)
      /\ ph \notin effects /\ ph \notin orphans /\ ph \in StartedPhases /\ Unproved(ph)
  BY DEF IndInv, ReleaseInv, StrandedActivation, StartedPhases, Unproved, Proof
<1>2. CASE ReleaseStep
  <2>1. receipt'.phase = ph /\ Nobody(ph)' /\ ~\E s \in Runs : Begin(s)
    BY <1>1, <1>2, PhaseStays, NobodyStays
  <2>2. ASSUME NEW s \in Runs, RunMove(s) PROVE ph \notin effects' /\ ph \notin orphans'
    <3>1. RunAt(s, "work") => Here(s) # ph
      BY <1>1 DEF Nobody, RunAt
    <3>2. /\ effects' = effects \/ (RunAt(s, "work") /\ effects' = effects \cup {Here(s)})
          /\ orphans' = orphans \/ (RunAt(s, "work") /\ orphans' = orphans \cup {Here(s)})
      BY <1>1, <2>2, ResumeLockEffect, ResumeRereadEffect, ChooseEffect, WorkDoneEffect,
         WorkRefusedEffect, PrepareEffect, AdvanceReadEffect, AdvanceCommitEffect, ReconcileEffect,
         VerifyEffect, RunFailsEffect, RunDiesEffect, BeginEffect, AwaitPlatformEffect,
         AwaitCeremonyEffect DEF RunMove, RunStep
    <3> QED
      BY <1>1, <3>1, <3>2
  <2>3. ph \notin effects' /\ ph \notin orphans'
    BY <1>1, <1>2, <2>2, RecordEffect, BindEffect DEF ReleaseStep, ClearLock, OrphanEnds, ResumeRead
  <2> QED
    BY <2>1, <2>3 DEF StrandedActivation
<1>3. CASE OtherStep
  BY <1>1, <1>3 DEF OtherStep, BootstrapByHand, releaseVars, StrandedActivation, Nobody, Here
<1> QED
  BY <1>2, <1>3

(* A release that is stranded stays so: no resume and no manual step of    *)
(* the code leads out of it.                                               *)
THEOREM StrandedForGood == Spec => StrandedStays
<1>1. (Stranded <=> StrandedSomehow)'
  BY StrandedCases, PTL
<1>2. IndInv /\ IndInv' /\ [Next]_vars => [Stranded => Stranded']_vars
  <2> SUFFICES ASSUME IndInv, IndInv', Next, Stranded PROVE Stranded'
    OBVIOUS
  <2>1. ReleaseStep \/ OtherStep
    BY NextKinds
  <2>2. \/ StrandedPlatform \/ StrandedVault \/ StrandedActivation
        \/ \E b \in Runners : Uncertain(b)
        \/ \E ph \in {"audit-started", "custody-started"} : StrandedCeremony(ph)
    BY StrandedCases DEF StrandedSomehow
  <2>3. \/ StrandedPlatform' \/ StrandedVault' \/ StrandedActivation'
        \/ \E b \in Runners : Uncertain(b)'
        \/ \E ph \in {"audit-started", "custody-started"} : StrandedCeremony(ph)'
    BY <2>1, <2>2, StrandedPlatformStays, StrandedVaultStays, StrandedActivationStays,
       UncertainStays, StrandedCeremonyStays
  <2> QED
    BY <1>1, <2>3 DEF StrandedSomehow
<1> QED
  BY <1>2, Invariance, PTL DEF Spec, StrandedStays
=============================================================================
