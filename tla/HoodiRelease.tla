---------------------------- MODULE HoodiRelease ----------------------------
(***************************************************************************)
(* One release of the interactive flow: a receipt that records how far it  *)
(* came, the run that created it, and the runs that resume it.  A phase    *)
(* named "started" is recorded before the work it announces, so that no    *)
(* later run repeats the work; what became of it is then read from the     *)
(* ceremony's own receipt, or stays pending.                               *)
(***************************************************************************)
EXTENDS PlatformBootstrap, RootCeremonies, Sequences

CONSTANTS Resumes,     \* the runs with WORK_DIR
          ShellFaults, \* what may happen to a run: "error", "term", "kill"
          MaxMishaps   \* bound: how often anything goes wrong

ASSUME ResumesAssumption == "first" \notin Resumes
ASSUME ShellFaultsAssumption == ShellFaults \subseteq {"error", "term", "kill"}
ASSUME MaxMishapsAssumption == MaxMishaps \in Nat

VARIABLES receipt, \* interactive-resume.json
          lock,    \* the directory .interactive-resume.lock exists
          shell,   \* every run: where it is, and the phase it holds
          orphans, \* work that goes on after its run has ended
          effects, \* what the works have done
          begun,   \* how often the flow began each work (up to 2)
          mishaps  \* how often something went wrong

releaseVars == <<receipt, lock, shell, orphans, effects, begun>>
vars == <<platformVars, ceremonyVars, releaseVars, mishaps>>

Runs == {"first"} \cup Resumes
Lifecycle == <<"infrastructure", "infrastructure-complete", "platform-started",
  "platform-complete", "vault-started", "vault-complete", "collector-complete",
  "audit-started", "audit-complete", "custody-started", "custody-complete",
  "runtime-complete", "activation-pending", "activation-started", "activated",
  "observing", "complete">>
Index(ph) == CHOOSE i \in 1..Len(Lifecycle) : Lifecycle[i] = ph
Following(ph) == Lifecycle[Index(ph) + 1]
Reached(ph) == receipt.phase # "none" /\ Index(receipt.phase) >= Index(ph)

(* What a run does at a phase before it records the next one.              *)
WorkPhases == {"infrastructure", "vault-complete", "custody-complete",
               "runtime-complete", "activation-started", "observing", "complete"}
PreparePhases == {"collector-complete", "audit-complete", "activation-pending"}
PassPhases == {"infrastructure-complete", "platform-complete", "activated"}
StartedPhases == {"platform-started", "vault-started", "audit-started",
                  "custody-started", "activation-started"}
BoundPhases == {"audit-started", "custody-started", "activation-started"}
OncePhases == StartedPhases \ {"platform-started"}
CeremonyOf(ph) ==
  CASE ph = "vault-started" -> "bootstrap" [] ph = "audit-started" -> "audit"
    [] ph = "custody-started" -> "custody" [] OTHER -> "none"

Idle == [at |-> "none", phase |-> "none", copy |-> "none"]
NoReceipt == [phase |-> "none", bound |-> FALSE, prepared |-> {}]

Init ==
  /\ PlatformInit /\ CeremoniesInit
  /\ receipt = NoReceipt /\ lock = FALSE
  /\ shell = [s \in Runs |-> Idle]
  /\ orphans = {} /\ effects = {}
  /\ begun = [ph \in OncePhases |-> 0]
  /\ mishaps = 0

-----------------------------------------------------------------------------
(* interactive-hoodi-resume.py: one read and one atomic replacement, with  *)
(* no lock between them.                                                   *)

(* The receipt that proves a bound operation, as the helper validates it.  *)
Proof(ph) ==
  CASE ph = "audit-started" -> "audit-receipt" \in record
    [] ph = "custody-started" -> "custody-receipt" \in record
    [] OTHER -> ph \in effects
(* The phase operation: only the next phase, only with its context.        *)
Admits(ph) ==
  /\ receipt.phase # "none" /\ receipt.phase # "complete"
  /\ ph = Following(receipt.phase)
  /\ Index(ph) > Index("platform-complete") => receipt.bound
  /\ ph \in {"audit-started", "activation-started"} => ph \in receipt.prepared
  /\ ph \notin {"audit-complete", "custody-complete", "activated"}
\* Mutant: the completion is accepted without its receipt.
Reconciles_Unproven(ph) == ph \in BoundPhases /\ receipt.phase = ph
(* The reconcile operations.                                               *)
Reconciles(ph) ==
  /\ ph \in BoundPhases /\ receipt.phase = ph
  /\ ph \in receipt.prepared /\ Proof(ph)

-----------------------------------------------------------------------------
(* A run.                                                                  *)

Put(s, at) == shell' = [shell EXCEPT ![s].at = at]
PutAt(s, ph, at) == shell' = [shell EXCEPT ![s] = [Idle EXCEPT !.at = at, !.phase = ph]]
(* The EXIT trap of a resume removes the lock; the first run has none.     *)
Locked(s) == s # "first" /\ shell[s].at \notin {"none", "confirm"}
Ends(s) ==
  /\ shell' = [shell EXCEPT ![s] = Idle]
  /\ lock' = IF Locked(s) THEN FALSE ELSE lock

RunAt(s, at) == shell[s].at = at
Here(s) == shell[s].phase
Others == <<platformVars, ceremonyVars>>

(* Keys and inputs exist; record refuses a second receipt.                 *)
Record ==
  /\ RunAt("first", "none") /\ receipt = NoReceipt
  /\ receipt' = [NoReceipt EXCEPT !.phase = "infrastructure"]
  /\ PutAt("first", "infrastructure", "choose")
  /\ UNCHANGED <<Others, lock, orphans, effects, begun>>

(* The operator resumes once the first run has ended.                      *)
ResumeRead(s) ==
  /\ s \in Resumes /\ RunAt(s, "none")
  /\ receipt # NoReceipt /\ RunAt("first", "none")
  /\ PutAt(s, receipt.phase, "confirm")
  /\ UNCHANGED <<Others, receipt, lock, orphans, effects, begun>>
\* Mutant: the lock is not taken.
ResumeLock_Unlocked(s) ==
  /\ RunAt(s, "confirm")
  /\ Put(s, "reread")
  /\ UNCHANGED <<Others, receipt, lock, orphans, effects, begun>>
(* RESUME is typed; mkdir of the lock directory decides.                   *)
ResumeLock(s) ==
  /\ RunAt(s, "confirm")
  /\ IF lock THEN shell' = [shell EXCEPT ![s] = Idle] /\ UNCHANGED lock
             ELSE Put(s, "reread") /\ lock' = TRUE
  /\ UNCHANGED <<Others, receipt, orphans, effects, begun>>
(* An unbound receipt stops at the platform; platform-started needs the    *)
(* replay checkpoint.                                                      *)
ResumeReread(s) ==
  /\ RunAt(s, "reread")
  /\ IF \/ receipt.phase # Here(s)
        \/ receipt.phase = "platform-complete" /\ ~receipt.bound
        \/ receipt.phase = "platform-started" /\ ~Initialized
     THEN Ends(s)
     ELSE Put(s, IF Here(s) = "platform-started" THEN "begin" ELSE "choose") /\ UNCHANGED lock
  /\ UNCHANGED <<Others, receipt, orphans, effects, begun>>

(* Where run_post_platform and the infrastructure steps go from here.      *)
Choose(s) ==
  /\ RunAt(s, "choose")
  /\ \/ Here(s) \in WorkPhases \ BoundPhases /\ Put(s, "work")
     \/ Here(s) \in PreparePhases /\ Put(s, "prepare")
     \/ Here(s) \in PassPhases /\ Put(s, "advance")
     \/ Here(s) \in BoundPhases /\ Put(s, "reconcile")
     \/ Here(s) = "vault-started" /\ Put(s, "verify")
  /\ UNCHANGED <<Others, receipt, lock, orphans, effects, begun>>

(* A work succeeds: deploy apply, the collector, the runtime, evidence,    *)
(* activation, observation.  Terraform's state lock refuses a second       *)
(* deploy apply beside one that outlived its run.                          *)
WorkDone(s) ==
  /\ RunAt(s, "work") /\ ~(Here(s) = "infrastructure" /\ Here(s) \in orphans)
  /\ effects' = effects \cup {Here(s)}
  /\ CASE Here(s) = "complete" -> Ends(s)
       [] Here(s) = "activation-started" -> Put(s, "reconcile") /\ UNCHANGED lock
       [] OTHER -> Put(s, "advance") /\ UNCHANGED lock
  /\ UNCHANGED <<Others, receipt, orphans, begun>>
WorkRefused(s) ==
  /\ RunAt(s, "work") /\ Here(s) = "infrastructure" /\ Here(s) \in orphans
  /\ Ends(s) /\ UNCHANGED <<Others, receipt, orphans, effects, begun>>

\* Mutant: an operation that has its id cannot be prepared again.
Prepare_NotReused(s) ==
  /\ RunAt(s, "prepare")
  /\ IF receipt.phase = Here(s) /\ receipt.bound /\ Following(Here(s)) \notin receipt.prepared
     THEN /\ receipt' = [receipt EXCEPT !.prepared = @ \cup {Following(Here(s))}]
          /\ Put(s, "advance") /\ UNCHANGED lock
     ELSE Ends(s) /\ UNCHANGED receipt
  /\ UNCHANGED <<Others, orphans, effects, begun>>
(* Each operation gets one id, reused until its receipt exists.            *)
Prepare(s) ==
  /\ RunAt(s, "prepare")
  /\ IF receipt.phase = Here(s) /\ receipt.bound /\ ~Proof(Following(Here(s)))
     THEN /\ receipt' = [receipt EXCEPT !.prepared = @ \cup {Following(Here(s))}]
          /\ Put(s, "advance") /\ UNCHANGED lock
     ELSE Ends(s) /\ UNCHANGED receipt
  /\ UNCHANGED <<Others, orphans, effects, begun>>

AdvanceRead(s) ==
  /\ RunAt(s, "advance")
  /\ IF receipt.phase # "none" /\ Admits(Following(Here(s)))
     THEN shell' = [shell EXCEPT ![s].at = "commit", ![s].copy = receipt] /\ UNCHANGED lock
     ELSE Ends(s)
  /\ UNCHANGED <<Others, receipt, orphans, effects, begun>>
(* The copy that was read goes back with the new phase.                    *)
AdvanceCommit(s) ==
  /\ RunAt(s, "commit")
  /\ LET next == Following(Here(s)) IN
       /\ receipt' = [shell[s].copy EXCEPT !.phase = next]
       /\ \/ next \in StartedPhases /\ PutAt(s, next, "begin") /\ UNCHANGED lock
          \/ next = "platform-complete" /\ s = "first" /\ PutAt(s, next, "bind") /\ UNCHANGED lock
          \/ next = "platform-complete" /\ s # "first" /\ Ends(s)
          \/ next = "complete" /\ Ends(s)
          \/ /\ next \notin StartedPhases \cup {"platform-complete", "complete"}
             /\ PutAt(s, next, "choose") /\ UNCHANGED lock
  /\ UNCHANGED <<Others, orphans, effects, begun>>
(* Only the first run knows the key and the attestation to bind.           *)
Bind ==
  /\ RunAt("first", "bind")
  /\ receipt' = [receipt EXCEPT !.bound = TRUE]
  /\ Put("first", "choose")
  /\ UNCHANGED <<Others, lock, orphans, effects, begun>>

(* The announced work begins: the platform script, a ceremony, activation. *)
Begin(s) ==
  /\ RunAt(s, "begin")
  /\ begun' = [ph \in OncePhases |->
                IF ph = Here(s) /\ begun[ph] < 2 THEN begun[ph] + 1 ELSE begun[ph]]
  /\ \/ Here(s) = "platform-started" /\ platform.at = "idle"
        /\ PlatformBegin /\ Put(s, "await") /\ UNCHANGED <<ceremonyVars, lock>>
     \/ Here(s) = "platform-started" /\ platform.at # "idle"
        /\ Ends(s) /\ UNCHANGED Others
     \/ CeremonyOf(Here(s)) # "none"
        /\ CeremonyBegin(CeremonyOf(Here(s))) /\ Put(s, "await") /\ UNCHANGED <<platformVars, lock>>
     \/ Here(s) = "activation-started" /\ Put(s, "work") /\ UNCHANGED <<Others, lock>>
  /\ UNCHANGED <<receipt, orphans, effects>>
AwaitPlatform(s) ==
  /\ RunAt(s, "await") /\ Here(s) = "platform-started" /\ platform.at \in {"ok", "failed"}
  /\ platform' = [at |-> "idle", ph |-> "none"]
  /\ IF platform.at = "ok" THEN Put(s, "advance") /\ UNCHANGED lock ELSE Ends(s)
  /\ UNCHANGED <<replay, handle, monitor, flight, cluster, ceremonyVars,
                 receipt, orphans, effects, begun>>
AwaitCeremony(s) ==
  /\ RunAt(s, "await") /\ Here(s) # "platform-started"
  /\ LET c == CeremonyOf(Here(s)) IN
       /\ ceremony[c].at \in {"ok", "failed"}
       /\ ceremony' = [ceremony EXCEPT ![c] = NoRun]
       /\ IF ceremony[c].at = "failed" THEN Ends(s)
          ELSE Put(s, IF c = "bootstrap" THEN "advance" ELSE "reconcile") /\ UNCHANGED lock
  /\ UNCHANGED <<vault, record, platformVars, receipt, orphans, effects, begun>>

Reconcile(s) ==
  /\ RunAt(s, "reconcile")
  /\ IF Reconciles(Here(s))
     THEN /\ receipt' = [receipt EXCEPT !.phase = Following(Here(s))]
          /\ PutAt(s, Following(Here(s)), "choose") /\ UNCHANGED lock
     ELSE Ends(s) /\ UNCHANGED receipt                    \* PENDING
  /\ UNCHANGED <<Others, orphans, effects, begun>>
\* Mutant: a Vault that is initialised is taken for a completed bootstrap.
Verified_Initialized == "initialized" \in vault.facts
(* --verify-initialization-completion: the checkpoint says configured.     *)
Verified == "initialized" \in vault.facts /\ "configured" \in record
Verify(s) ==
  /\ RunAt(s, "verify")
  /\ IF Verified THEN Put(s, "advance") /\ UNCHANGED lock ELSE Ends(s)
  /\ UNCHANGED <<Others, receipt, orphans, effects, begun>>

(* A work, a preparation or a check fails and the run exits.               *)
RunFails(s) ==
  /\ "error" \in ShellFaults
  /\ shell[s].at \in {"confirm", "choose", "work", "prepare", "begin", "bind", "verify"}
  /\ Ends(s)
  /\ effects' \in {effects, IF RunAt(s, "work") THEN effects \cup {Here(s)} ELSE effects}
  /\ UNCHANGED <<Others, receipt, orphans, begun>>
(* The shell is gone, its child is not.  TERM and HUP run the EXIT trap at *)
(* once; KILL leaves the lock directory behind.  A helper of resume.py     *)
(* that outlives its shell has replaced the receipt at once, which is      *)
(* AdvanceCommit before this step, or never does: it takes no longer than  *)
(* the operator needs to start a resume.                                   *)
RunDies(s) ==
  /\ ~RunAt(s, "none")
  /\ \/ "term" \in ShellFaults /\ Ends(s)
     \/ "kill" \in ShellFaults /\ shell' = [shell EXCEPT ![s] = Idle] /\ UNCHANGED lock
  /\ orphans' \in {orphans, IF RunAt(s, "work") THEN orphans \cup {Here(s)} ELSE orphans}
  /\ UNCHANGED <<Others, receipt, effects, begun>>
OrphanEnds(work) ==
  /\ work \in orphans
  /\ orphans' = orphans \ {work}
  /\ effects' \in {effects, effects \cup {work}}
  /\ UNCHANGED <<Others, receipt, lock, shell, begun>>

-----------------------------------------------------------------------------
(* Nobody waits for a process whose run is gone.                           *)
Awaited(ph) == \E s \in Runs : RunAt(s, "await") /\ Here(s) = ph
ReapPlatform ==
  /\ platform.at \in {"ok", "failed"} /\ ~Awaited("platform-started")
  /\ platform' = [at |-> "idle", ph |-> "none"]
  /\ UNCHANGED <<replay, handle, monitor, flight, cluster, ceremonyVars, releaseVars>>
ReapCeremony(c) ==
  /\ ceremony[c].at \in {"ok", "failed"}
  /\ ~\E ph \in StartedPhases : CeremonyOf(ph) = c /\ Awaited(ph)
  /\ ceremony' = [ceremony EXCEPT ![c] = NoRun]
  /\ UNCHANGED <<vault, record, platformVars, releaseVars>>

(* The operator, by hand: removes a lock whose run is gone; repeats the    *)
(* bootstrap of a pending vault-started with the same directory.           *)
ClearLock ==
  /\ lock /\ \A s \in Resumes : ~Locked(s)
  /\ lock' = FALSE
  /\ UNCHANGED <<Others, receipt, shell, orphans, effects, begun>>
BootstrapByHand ==
  /\ receipt.phase = "vault-started" /\ ~Verified
  /\ RunAt("first", "none") /\ \A s \in Resumes : ~Locked(s)
  /\ CeremonyBegin("bootstrap")
  /\ UNCHANGED <<platformVars, releaseVars>>

RunStep(s) ==
  \/ ResumeLock(s) \/ ResumeReread(s) \/ Choose(s) \/ WorkDone(s) \/ WorkRefused(s)
  \/ Prepare(s) \/ AdvanceRead(s) \/ AdvanceCommit(s) \/ Begin(s)
  \/ AwaitPlatform(s) \/ AwaitCeremony(s) \/ Reconcile(s) \/ Verify(s)
Steps ==
  \/ \E s \in Runs : RunStep(s)
  \/ Bind \/ ReapPlatform \/ \E c \in Ceremonies : ReapCeremony(c)
Works ==
  \/ Record \/ Steps
  \/ \E s \in Resumes : ResumeRead(s)
  \/ \E work \in WorkPhases : OrphanEnds(work)
  \/ ClearLock \/ BootstrapByHand
  \/ (PlatformStep \/ PlatformEnvironment) /\ UNCHANGED <<ceremonyVars, releaseVars>>
  \/ \E b \in Runners : RetryTerminal(b) /\ UNCHANGED <<ceremonyVars, releaseVars>>
  \/ \E c \in Ceremonies : CeremonyStep(c) /\ UNCHANGED <<platformVars, releaseVars>>
GoesWrong ==
  \/ \E s \in Runs : RunFails(s) \/ RunDies(s)
  \/ PlatformGoesWrong /\ UNCHANGED <<ceremonyVars, releaseVars>>
  \/ \E c \in Ceremonies : CeremonyGoesWrong(c) /\ UNCHANGED <<platformVars, releaseVars>>
Next ==
  \/ Works /\ UNCHANGED mishaps
  \/ mishaps < MaxMishaps /\ GoesWrong /\ mishaps' = mishaps + 1
Spec == Init /\ [][Next]_vars

-----------------------------------------------------------------------------
TypeOK ==
  /\ PlatformTypeOK /\ CeremoniesTypeOK
  /\ receipt.phase \in {"none"} \cup {Lifecycle[i] : i \in DOMAIN Lifecycle}
  /\ receipt.bound \in BOOLEAN /\ receipt.prepared \subseteq BoundPhases
  /\ lock \in BOOLEAN
  /\ \A s \in Runs : shell[s].at \in {"none", "confirm", "reread", "choose", "work", "prepare",
       "advance", "commit", "bind", "begin", "await", "reconcile", "verify"}
  /\ mishaps \in 0..MaxMishaps
  /\ orphans \subseteq WorkPhases /\ effects \subseteq WorkPhases
  /\ begun \in [OncePhases -> 0..2]

(* The flow begins the bootstrap, the audit ceremony, onboarding and       *)
(* activation at most once, whatever interrupts it and however often it is *)
(* resumed (interactive-hoodi-release.sh:436-438 and 300-313).             *)
CeremonyOnce == \A ph \in OncePhases : begun[ph] <= 1

(* A recorded phase is true: the work it names has been done, nothing of   *)
(* it goes on, and what it had to take away is gone.  The phase is written *)
(* by a run that read the outcome from a child, a checkpoint or a receipt, *)
(* perhaps long after the run that started the work (release.sh:286-502,   *)
(* interactive-hoodi-resume.py:609-693).                                   *)
CeremonyOver(c) == ceremony[c].at \in {"idle", "ok"} /\ vault.generating # c
PhaseIsTrue ==
  /\ Reached("infrastructure-complete") => "infrastructure" \in effects
  /\ Reached("platform-complete") =>
       /\ \A b \in Runners : cluster.build[b] = "succeeded"
       /\ cluster.granted = {} /\ flight = {}
  /\ Reached("vault-complete") => "configured" \in vault.facts /\ CeremonyOver("bootstrap")
  /\ Reached("collector-complete") => "vault-complete" \in effects
  /\ Reached("audit-complete") => "audited" \in vault.facts /\ CeremonyOver("audit")
  /\ Reached("custody-complete") => "onboarded" \in vault.facts /\ CeremonyOver("custody")
  /\ Reached("activated") => "activation-started" \in effects

(* A ceremony's receipt, which lets any later run record it as complete,   *)
(* is there only when its tokens are dead (the EXIT traps of the audit and *)
(* the onboarding scripts revoke before they write it).                    *)
ReceiptIsTrue ==
  /\ "audit-receipt" \in record => "audited" \in vault.facts /\ "audit" \notin vault.tokens
  /\ "custody-receipt" \in record =>
       "onboarded" \in vault.facts /\ {"custody", "child"} \cap vault.tokens = {}

(* A runner has its temporary cluster-admin as long as its build runs or   *)
(* can still start, although builds, starts and the revocation outlive the *)
(* scripts that asked for them (run-platform-bootstrap.sh:149-243).        *)
RunnerCoversBuild ==
  \A b \in Runners : StartOf[b] \in flight \/ cluster.build[b] = "running" => b \in cluster.granted

(* OneAtATime: no build is started beside one that runs or has succeeded,  *)
(* although a start may take effect after its monitor gave up              *)
(* (platform_bootstrap_build.py:145-169), and no terraform run begins      *)
(* while another is under way, although a killed script leaves its own     *)
(* behind (platform_bootstrap_replay.py:275-296, the inherited lock).      *)
OneAtATime ==
  [][/\ \A b \in Runners : StartOf[b] \in flight => cluster.build[b] \in {"none", "failed"}
     /\ PhaseApply => flight \cap Applies = {}]_vars

-----------------------------------------------------------------------------
(* Where only a new release helps.                                         *)

Gone(c) == ceremony[c].at \in {"idle", "failed"}
Nobody(ph) == \A s \in Runs : Here(s) = ph => shell[s].at \notin {"begin", "work"}
PlatformGone == platform.at \in {"idle", "failed"} /\ Nobody("platform-started")
Stranded ==
  \* the platform was announced and its inputs never verified
  \/ receipt.phase = "platform-started" /\ ~Initialized /\ PlatformGone
  \* a start whose build is not known
  \/ \E b \in Runners : handle[b] = "start-intent" /\ monitor[b].at \in {"idle", "open"}
  \* Vault is initialised and the response or the checkpoint is missing
  \/ /\ receipt.phase = "vault-started" /\ "initialized" \in vault.facts /\ ~Verified
     /\ ~{"pending", "response", "shares"} \subseteq record
     /\ ~At("bootstrap", "shares") /\ ("pending" \in record => ~At("bootstrap", "mark"))
  \* announced, not under way, and no receipt
  \/ \E ph \in {"audit-started", "custody-started"} :
       receipt.phase = ph /\ ~Proof(ph) /\ Gone(CeremonyOf(ph)) /\ Nobody(ph)
  \/ /\ receipt.phase = "activation-started" /\ ~Proof("activation-started")
     /\ Nobody("activation-started") /\ "activation-started" \notin orphans
Finished ==
  \/ receipt.phase = "complete"
  \/ receipt.phase = "platform-complete" /\ ~receipt.bound /\ RunAt("first", "none")

(* Stranded is no more than it says: no resume and no manual step of the   *)
(* code leads out of it.                                                   *)
StrandedStays == [][Stranded => Stranded']_vars

(* Whatever happened, a release that is not stranded is brought to its end *)
(* by resuming it: to "complete", or to "platform-complete" when its first *)
(* run ended before it bound the receipt (release.sh:504-562).             *)
Recovers == []~Stranded => <>Finished

OfPlatform(A) == A /\ UNCHANGED <<ceremonyVars, releaseVars, mishaps>>
OfRelease(A) == A /\ UNCHANGED mishaps
(* Programs and AWS go on; the operator resumes, removes a dead lock, and  *)
(* repeats a failed build or bootstrap.                                    *)
Fairness ==
  /\ WF_vars(OfRelease(Record \/ Bind))
  /\ \A s \in Runs : WF_vars(OfRelease(RunStep(s)))
  /\ WF_vars(OfRelease(ReapPlatform \/ \E c \in Ceremonies : ReapCeremony(c)))
  /\ WF_vars(OfRelease(\E work \in WorkPhases : OrphanEnds(work)))
  /\ WF_vars(OfPlatform(PlatformScript))
  /\ \A b \in Runners : WF_vars(OfPlatform(MonitorStep(b)))
  /\ WF_vars(OfPlatform(PlatformEnvironment))
  /\ \A c \in Ceremonies : WF_vars(CeremonyStep(c) /\ UNCHANGED <<platformVars, releaseVars, mishaps>>)
  /\ \A s \in Resumes : WF_vars(OfRelease(ResumeRead(s)))
  /\ WF_vars(OfRelease(ClearLock))
  /\ SF_vars(OfRelease(BootstrapByHand))
  /\ \A b \in Runners : SF_vars(OfPlatform(RetryTerminal(b)))
FairSpec == Spec /\ Fairness

(* What the bootstrap's checkpoint and its terminal say: the initial root  *)
(* token "is not displayed and will be revoked"                            *)
(* (recover-and-bootstrap-hoodi-vault-v2.sh:198, root_revoked in 73).      *)
ConfiguredMeansRootRevoked == "configured" \in record => "initial" \notin vault.tokens
=============================================================================
