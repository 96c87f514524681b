# Verification of the node operator's runtime safety mechanisms

This directory holds TLA+ modules, TLC configurations and TLAPS proofs for the
parts of this repository that keep state, run concurrently and can fail half
way: the fence that decides which validator may reach the signer, the relay that
carries Vault's audit records, the UC-5 ceremony that deletes and restores the
signer's Vault role, the script that activates the validator client, the
installer with its checkpoint, its infrastructure and SSM stages and the guided flow that
sets up Vault under a temporary authority, the
resumable release with its platform bootstrap and its three administrator
ceremonies, the command that deletes a deployment again, the rehearsal of a Vault
restore behind an egress fence, and the observation of finalized duties. Every
definition is written from the code; `PROJECT.json` ("map") names the lines each
one stands for.

## 1. The system

The repository operates one Hoodi validator. A Prysm validator client (one Pod)
asks Web3Signer (one Pod) for signatures. Web3Signer takes its keys from Vault,
through a runtime role. Between client and signer stands the *signing fence*, a
TCP proxy. What must never happen is that two clients sign with the same key;
what must not be lost is the audit trail; and what an operator does by hand
(ceremonies, handover, activation) must leave the cluster safe when a step fails.

| Component | State | Operations | Talks to |
|---|---|---|---|
| Signing fence (`cmd/validator-signing-fence/main.go`) | deadline of its authority, set of connections, `fenced`, pinned client UID; the Lease in the API | start, acquire, renewLoop, accept, serve, watchdog, trip | Lease and Pods in the Kubernetes API; client; signer |
| Fence Lease handover (`scripts/ops/release-expired-hoodi-validator-fence-lease.sh`) | none of its own | two snapshots, expiry check, PATCH, readback | the same Lease |
| Vault audit relay (`cmd/vault-audit-relay/main.go`) | channel of 128 records, file position, connections | tailFile/followFile, acceptConnections/readSocket, the writer | Vault's file and socket devices; stdout |
| UC-5 ceremony (`scripts/ops/lib/uc5-*.py`) | journal of what it has begun; marker ConfigMap, replica counts, Vault role, root token | create marker, preflight, quiesce, delete and restore role, restart signer, prove audit, clean up | Kubernetes API, Vault |
| UC-5 wrappers (`scripts/ops/*uc5*.sh`) | root token | key shares, prepare-activation, EXIT trap that revokes the token | ceremony, Vault |
| Client activation (`scripts/ops/activate-hoodi-validator-client.sh`) | stage and `mutated` flags | preflight, confirm, scale fence, then client; rollback | the same controllers and marker |
| Zero-resource apply (`scripts/release/node-operator-release.sh`, `reconcile-bootstrap-state.py`) | work directory with the module, its local state and the bootstrap output; Terraform state in the bucket | reconcile and import, plan, apply, output, migrate, network, baseline | Terraform, S3, KMS, EKS |
| Installer stages (`scripts/release/installer_state.py`, `interactive_deploy.py`, `installer_infrastructure.py`, `installer_ops_*.py`, `node-operator-ops-access.sh`) | lock, checkpoint with the status of each stage, saved SSM plan, session handoff | start, resume; prepare and apply infrastructure; prepare, plan, apply and verify SSM access | Terraform, SSM, EKS |
| Vault platform installation (`scripts/release/interactive_deploy.py`, `installer_vault_*.py`, `installer_artifact_mirror.py`) | plans, attempt markers, success records, workspaces, build intent and verdict in the state directory | guided continuation; mirror, plan, apply, reconcile, start or reconcile the build | Terraform, ECR, CodeBuild |
| Interactive release (`scripts/release/interactive-hoodi-release.sh`, `interactive-hoodi-resume.py`) | receipt with phase, binding and operations; lock directory | record, advance, bind, prepare, reconcile; a first run and resumes | platform bootstrap, ceremonies, activation |
| Platform bootstrap (`run-platform-bootstrap.sh`, `platform_bootstrap_replay.py`, `platform_bootstrap_build.py`) | checkpoint of six phases, build records, two locks | terraform phases, two builds with their monitors, retry of a failed one | Terraform, CodeBuild |
| Administrator ceremonies (`recover-and-bootstrap-hoodi-vault-v2.sh`, `recover-and-configure-private-vault-validator-audit.sh`, `recover-and-onboard-hoodi-validator-keystore.sh`) | private response, checkpoint, receipts; root tokens | initialise, generate root, quorum, work, revoke, report | Vault |
| Resource deletion (`delete-all-node-operator-resources.sh`) | none between runs | inventory by tags, one handler for each kind, barriers, second inventory | AWS |
| Rest of the installer (`scripts/release/*.py`) | release archive, artifact inventory | download, verification, bundling | cloud APIs, the release |
| Isolated Vault restore rehearsal (`scripts/ops/rehearse-isolated-vault-restore.py`, `isolated-recovery-egress.py`) | flags of what it has to clean up; container, scratch directory, iptables chains, tokens | fence, start, restore, generate root, upgrade, revoke, clean up, report | docker, iptables, the Vault it started |
| Attestation observation (`collect-hoodi-finalized-attestation-evidence.py`, `observe-hoodi-finalized-attestations.py`, `run-hoodi-validator-observation.py`) | cursor with ledger and retained records, two proof files, checkpoint of the observer | passes: assignments, collect a page, look up votes, save, verdict | S3 log archive, two Beacon nodes |
| Migration, recovery grant, decision policy, probes | documents, one database transfer, one KMS grant | one-shot commands | PostgreSQL, KMS, the cluster |
| Charts, Terraform, workflows, CI | none at run time | declarative | - |

How they interact: the fence and the handover script share only the Lease and
order their writes by its `resourceVersion`. Ceremony and activation share only
the cluster: each reads the marker and the replica counts in requests of their
own, and PATCHes with a test of `resourceVersion`. A release starts the platform
script and the ceremonies as children and knows afterwards only their exit, their
checkpoint or their receipt. The relay shares a file and a
socket with Vault.

### Behaviours that are hard

* The fence never knows whether a PATCH it sent has been, or will be, applied.
  Its clock differs from those of the other fences, its timers may be late, and
  its container restarts under the same identity.
* The relay has one writer behind a bounded channel, several readers in front of
  it, and a file read by position while another process appends to it.
* A ceremony of a dozen remote steps can fail, time out or be killed in each; the
  clean-up itself runs remote steps. Another administrator, a second ceremony or
  an activation may act in between.
* The installer may fail, be killed or be killed without its child between any two
  steps; the next invocation knows only what is on disk, and must neither repeat
  nor forget what the last one asked of AWS.
* A release is interrupted at any point and resumed by a process that may overlap the
  children of the first; what was announced must not be begun again, and what is
  recorded must be true.
* The deletion has no memory but the tags of what is left: it must not delete the
  evidence it needs in the next run, while AWS refuses, delays or fails deletions.
* The rehearsal runs a container with the host's network; whatever becomes of the program,
  Vault must not run without its fence, and the report must not promise a clean-up that failed.
* The observation reads logs that arrive late, in any order or twice, through a cursor that a
  pass may die before writing.
* Each of these tests something and then acts on it in another request.

`PROJECT.json` ("hazards") lists them one by one, at the line where they bite,
with the properties that would notice.

### What makes each component correct

| Component | Promise | Definition |
|---|---|---|
| Fence | at most one fence process forwards | `ExclusiveForwarding`, `ExclusiveSigner` |
| Fence | a process that forwards for another Pod than the one it pinned goes down | `StrangerLeadsToExit` |
| Fence | every authority a process acts on is covered by the Lease | `AuthorityUnderLease`, `IndInv` |
| Fence | a tripped fence leaves no connection, a lapsed one ends | `ClosedWhenDone`, `LapseLeadsToExit` |
| Handover | the Lease is handed over only when nobody forwards | `HandoverOnlyWhenSilent` |
| Relay | records keep their order and are never repeated; what is read is forwarded | `FileOrder`, `ReadIsForwarded`, `ReadyIsWritten` |
| Ceremony | a missing role is marked, client and fence are down meanwhile, the marker goes only from a safe cluster, the outcome reported is true | `RoleAbsentUnderMarker`, `QuiescedWhileRoleAbsent`, `ReleasedIsSafe`, `ProbeCompleteIsTrue` |
| Ceremony | only the marker's owner mutates, also by requests carried out late; every ceremony ends | `OnlyHolderMutates`, `CeremonyEnds` |
| Activation | a rollback that reports success has left client and fence down | `RolledBackIsDown` |
| Installer and Vault platform | the temporary authority outlasts the build it is for; nothing is sent twice; the records, a complete stage among them, are true | `AuthorityCoversBuild`, `NeverRepeated`, `EvidenceIsTrue` |
| Zero-resource apply | the state's key is made once; an output or a complete stage has a complete state behind it | `NeverRepeated`, `EvidenceIsTrue` |
| Installer and Vault platform | a failure that can be repeated costs nothing | `Recovers` |
| Release | a ceremony is begun once; a recorded phase is true; what is not stranded is finished by resuming | `CeremonyOnce`, `PhaseIsTrue`, `StrandedStays`, `Recovers` |
| Platform bootstrap | one terraform at a time, one build at a time, and a runner keeps its rights while its build runs | `OneAtATime`, `RunnerCoversBuild` |
| Administrator ceremonies | a receipt means that the tokens are dead | `ReceiptIsTrue`, `ConfiguredMeansRootRevoked` |
| Deletion | Terraform state and keys go last; success is true; repeated runs finish | `RecoveryStateLast`, `SuccessIsTrue`, `Recovers` |
| Rehearsal | Vault runs only behind its fence and on its data; what the report says of clean-up and tokens is true; nobody else's Vault is accepted | `Fenced`, `CleanupIsTrue`, `PassMeansClean`, `AcceptsOwnVault` |
| Observation | a complete verdict is true, the files agree, and a duty that was done is observed | `VerdictIsTrue`, `CheckpointBacked`, `Completes` |

## 2. Modules

| Module | Models | Uses |
|---|---|---|
| `SigningFence` | fence processes, Lease, client Pods, handover script | `ExclusiveSigner` (refinement) |
| `ExclusiveSigner` | the promise of the fence, abstractly: one fence forwards at a time | - |
| `X_proofs` | the TLAPS proofs about `X`: of `SigningFence`, `VaultAuditRelay`, `MaintenanceWindow`, `HoodiRelease`, `VaultPlatform`, `ResourceDeletion`, `IsolatedRehearsal`, `AttestationObservation` | `X`, TLAPS |
| `VaultAuditRelay` | the relay, Vault's two devices, the container | - |
| `ValidatorCluster` | what ceremony and activation share: marker, controllers, role, tokens, requests under way | - |
| `Uc5Ceremony` | the ceremony's stages and clean-up | `ValidatorCluster` |
| `ClientActivation` | the activation script | `ValidatorCluster` |
| `MaintenanceWindow` | ceremony and activation on one cluster, and their properties | the two above |
| `ZeroApply` | the zero-resource apply: Terraform making the bucket of its own state, import, migration, network, baseline | - |
| `InstallerStages` | lock, checkpoint, infrastructure and SSM access, AWS | `ZeroApply` |
| `VaultPlatform` | the guided Vault platform flow and the expert commands beside it, on top of the stages | `InstallerStages` |
| `PlatformBootstrap` | the bootstrap script, its checkpoint, its builds and their monitors | - |
| `RootCeremonies` | Vault, the root tokens, and the three ceremonies | - |
| `HoodiRelease` | the receipt, its helper, the first run and the resumes, and the children they start | the two above |
| `ResourceDeletion` | repeated runs of the deletion command, AWS, other owners | - |
| `IsolatedRehearsal` | runs of the rehearsal, docker, iptables and the Vaults on one host | - |
| `AttestationObservation` | passes of collector and observer, log archive, two chains | - |
| `MC...` | instances for TLC: symmetry, the resources of a deployment | the module of that name |

### SigningFence

State. `lease` is the Lease object (`rv`, `holder`, `renewed`); `net` the PATCHes
on the wire; `pod` and `starts` the Pod objects and container incarnations; `pc`,
`seen`, `sentAt` and `resp` the renewal thread (start, then renewLoop);
`deadline`, `armed`, `age`, `fenced` and `done` the authority guarded by the
proxy's mutex and its watchdog; `pinned`, `accepting`, `conns` and `downstream`
admission, the connections of `serve`, and what has been forwarded.

Each goroutine's critical sections are separate actions, so that renewal, accept
loop, connections, watchdog and trip interleave as in the process. A request is
split into sending, application by the API server and the arrival of the answer;
the server may apply it at any later time, even after the sender has gone.

What the model assumes or abstracts:

* Each process reads `now + offset[p]`. Offsets are constant and differ by at most
  `Skew`, and `SkewAssumption` says `Skew <= Margin`: this is what `-safety-margin`
  is for, and nothing holds without it.
* `Timeout` may be 0: a request can be shorter than the unit of time. No timer is
  assumed to be punctual; where the code has a ticker, the model may take that
  step at any time.
* A watchdog that was superseded by a later deadline does nothing when it fires
  (the version check), so only the latest is kept (`armed`).
* A Pod may be gone from the API while its process still runs (a node that is cut
  off); the only thing that stops such a process is its own deadline.
* `leaseDurationSeconds` is set by the chart and never edited; the Lease starts
  without a holder, as the chart creates it.
* A connection is admitted by its source IP, as in the code (main.go:464); `Address` gives each client
  Pod its IP, and Pods may share one. An IP is given to another Pod only when the one that had it is
  gone, and a Pod that is only forgotten by the API still has its own (`HasAddress`). A replacement Pod with the
  old one's IP is therefore forwarded until the next renewal compares the UID (main.go:403-408). That the
  source IP stands for the client at all rests on NetworkPolicy and the fixed-name StatefulSet, as
  deploy/validator/client-lease-fence-security-model.md says.
* The connection slots `Conns` bound how many connections a process has at once.
  The bytes copied and the receipts of `connectionAudit` are not modelled.
* The handover script cuts `renewTime` to whole seconds, which eats less than one
  of the 5 seconds it adds (`HandoverMargin`); the model needs no such margin.
* `main` may return on SIGTERM while another goroutine is still in `trip`: for
  the connections this is the process ending at once, the action `Crash`.

### VaultAuditRelay

Vault's two devices are the environment. The file device appends a record at once
or in two pieces (a reader may see a file between two page copies of one write).
`tail` is the file follower: whether it has the file open, where it stands, and
the record it waits to send; `conns` the socket connections and their unread
records; `records` the channel; `stdout` what the log collector received.

A restart loses the contents of the channel and everything appended before the
next open: THREAT-MODEL.md (TM-005) admits this, and no property asks otherwise.

`EmitFile` closes the file. That is what the code does: after a complete line
`followFile` reaches its final `return`. See the findings.

### ValidatorCluster, Uc5Ceremony, ClientActivation, MaintenanceWindow

`ValidatorCluster` has the objects and the requests. A request is applied when
the server handles it; its sender is told, or fails at its next step, or gives up
while the request is still under way (`late`). `Delayable` names the kinds that
an instance lets arrive late: each is a question of its own, and each multiplies
the states.

`Uc5Ceremony` has one action per stage of `run`; `Raise` is any exception, a
timeout, an interruption by a signal, or a probe that does not pass;
the clean-up follows the order of the `finally` block, where every step has its
own `try` and a failing one is recorded as unconfirmed. `Crash` is the
workstation dying. `ClientActivation` has the preflight's reads one by one, the
confirmation, both halves of the scale-up and the rollback.

What is abstracted: probe Pods, evidence files, the wait for the fence's Lease and
the baselines of Vault policies other than the role are reads that pass or raise.
An exception between two `try` blocks of the `finally` is a `Crash`. Controllers
are never deleted and made again, so that their UIDs stay.

### ZeroApply, InstallerStages, VaultPlatform

`ZeroApply` is the script `node-operator-release.sh zero apply`, which the installer runs as a child. `tf`
is what the local and the remote Terraform state record, `cloud.made` what exists, `zero` where the script is
and which resources its Terraform has made but not yet recorded (`fresh`). `ZeroCreate` and `ZeroRecord` are
two steps of Terraform, so that whoever dies between them leaves a resource that no state knows. `ZeroImport` is the
reconciliation of `reconcile-bootstrap-state.py`, which adopts what carries the deployment's name or tags
before `ZeroPlan`; `ZeroOutput`, `ZeroMigrate` and `ZeroErase` are the output file, the copy of the state into
the bucket and the emptied local state, and `ZeroCached` is a later run that finds the output. Four
resources stand for the bootstrap module: `bucket` and `logs` are found by name, `key` by its tags, and `encryption`
binds bucket and key. The lock table and the alias are found as `logs` is, and the rest of
the module as `encryption`, which is made again if need be. `vpc` stands for the network, whose resources
have no unique name (a lost one is made twice), `audit`, `cluster` and `recorder` for the baseline, whose names are unique.

`InstallerStages`. `run` is the invocation that holds the checkpoint lock; `stages` the statuses in
checkpoint.json. `Start` makes the state directory, `Resume` needs a checkpoint in which no
stage is running. At each of the `WritingPoints` the checkpoint is about to be replaced through
`Temp`, which is created exclusively: where it exists already, every write raises. `PassGate` holds the
conditions on earlier stages, `Begin` sets a stage running, `Close` and `Aborted` write its last status.
Killed in between, the stage stays running and every later command is `Blocked`. A saved SSM plan is never
overwritten and a session handoff neither, so an SSM apply that fails after it had effects
cannot be repeated (`spoiled`); the infrastructure can, unless the script is `ZeroStranded`.
`InfraRefused` is what `apply_infrastructure` checks before it starts the script: names of ours that no
file explains (`Collision`), and a recorder of ours that the remote state does not prove (`RecorderUnproven`).

`VaultPlatform`. `disk` is the set of files that exist: a plan directory is published whole, by an
exclusive rename; a success record exists (`Success`) before it has its content
(`Written`). `run` is the invocation that holds the checkpoint lock, and `at` where
it stands in the function it executes. `Choose` and `Conclude` are the decisions of
`_advance_vault_platform`, `TaskDone` is the loop of `_continue_vault_platform`, `Refused`
collects what makes the step in hand raise. A request to AWS is in `flight` from the
start of the child process until it takes effect (`Land`). `Fail` is an exception, whose
`finally` clauses remove the workspace unless an apply was attempted in it; `Kill` tidies
nothing, and the child dies with its parent or goes on without the lock.

What is abstracted: digests and receipts that bind a file to the deployment are equal
by construction; artifacts are copied all together; drift of anything but the runner and
the authority is a `Fail`; `--prepare-vault`, which only writes derived inputs, and `status` have no
action. Nobody but the script changes its resources, what the tagging API says is up to date, and Terraform's
state lock goes with its process. A last write of a stage that is cut off leaves what a
kill just before it leaves. AWS answers of unknown status are
failures. A second process is refused by the lock and changes nothing.

### PlatformBootstrap, RootCeremonies, HoodiRelease

`PlatformBootstrap`. `replay` is checkpoint.json, one status for each of the six
phases; `handle` the record of each build; `platform` and `monitor` the script and the
processes that follow a build; `flight` the terraform runs and start-build requests
that have not taken effect; `cluster` which runners hold cluster-admin and how far the
builds are. The lock is an flock on an inherited descriptor, so `PlatformLocked`
counts the children too; the monitor of a manual retry (`hand`) holds only the build lock.
`Land` is a request taking effect, with or without the process that sent it.

`RootCeremonies`. `vault` has its state, the root generation under way and every live
token, among them the `initial` one of `operator init`; `record` the files in the work
directory; `ceremony` the process of each script. The three scripts share their
shape (generate, quorum, work, EXIT trap), so they share actions, with the differences as
guards: what each does about a pending generation, whether it cancels, and whether the
report comes before or after the revocation.

`HoodiRelease`. `receipt` is interactive-resume.json (phase, binding, prepared operations);
`lock` the lock directory; `shell` the first run and every resume with the phase it holds;
`orphans` work that outlives its run. A run reads the phase, chooses, works, and
advances: the helper's read and its atomic replacement are two steps (`AdvanceRead`,
`AdvanceCommit`), because nothing locks the receipt between them. `effects` is what has
been done, `begun` how often it was begun.

What is abstracted: the helper of a run that dies at `commit` has either replaced the receipt already or
never does (a helper that outlives its killed shell by longer than the operator needs to start and confirm a resume
is left out); the digests, contexts and operation identifiers that bind receipts to
this release are equal by construction; the phases before the receipt; the inputs, TLS
material, Vault policies and keystores; a key share is typed right, or the quorum fails.
Runtime deployment, collector, evidence, activation and observation are work that succeeds,
fails, or outlives its run. The operator starts a resume only when the first run has ended;
any two resumes may overlap.

### ResourceDeletion

`cloud` is the state of each resource, `foreign` those that somebody else has retagged,
`run` the command under way: the items it found and has still to handle, whether it has
met a residual (`bad`), the barriers it has passed and the security groups it noted;
`status` is what the last run said. `Start`, `Verify`, `Skip`, `Take` and `Finish` are the
loop of `go`; the handlers differ in what they read again (`Admitted`), what they wait
for and what they delete along (`EksChildren`, `VpcGateways`, `VpcNetwork`). Of a handler with several requests
any may be denied while the others are made (`DeniedInPart`). Which
resources there are, their kind, what uses what, and whose tags prove which untagged
resource are constants.

What is abstracted: one representative resource for all kinds that are handled alike;
an inventory is one step, which is sound because nothing but `Late` is ever created and
the inventory of a resource that goes meanwhile is one of a moment before; ten further kinds
(topics, logs, images, OIDC providers and so on) that are deleted at once like a project; and one
command at a time. A key scheduled for deletion stays `pending`: its seven days are not
awaited. Retagging is done by others and is not undone.

### IsolatedRehearsal

`self` is what one run of the program knows: its position, the flags that `cleanup` reads
(`container`, `egress`, `root`, `generated`, `started`) and the marks of the chains and jumps it
has made. `box`, `image` and `flight` are its container and a docker request whose client gave up;
`vault`, `scratch` and `sink` what lies in its scratch directory; `rules` its chains and jumps in
both families. All runs use one loopback port, so a request goes to whichever Vault listens.
Every action of the body either goes on or raises although it had its effect (`Goes`), and may raise
without one (`Fails`); `Handlers` says where an exception leads. `Install` is one iptables command at a
time. In the clean-up each step is tried and a failure only noted.

What is abstracted: the contents of the snapshot, of the shares and of the compared configuration
pass or raise; Vault's upgrade is the start of another image on the same data; the timeouts of
waits are `Fails`. A Vault that finds its port taken exits.

### AttestationObservation

`archive` is the list of log objects in the order of their keys, `Deliver` appends one; `final` and
`vote` are what the two Beacon nodes show. `cursor` (continuation token, ledger of duties, waiting
signings, fence intervals, accepted pairs), `proofs` and `checkpoint` are the files. A pass (`pass`) reads
assignments, one page of the archive, correlates, writes three files one after another, looks every epoch up
on both chains, saves the checkpoint and prints its verdict; it may fail at each point.

What is abstracted: an epoch has one duty; the time of a signing is its epoch, and a fence interval is the set
of epochs it covers; a new object gets the last key; the walk over 512 headers is `Window`. The challenge in Vault's
audit log and the delivery metadata of the other logs belong to the same files and are not modelled.

## 3. Runs

All runs finish within three minutes with two workers.

| Run | Question | Bounds | Distinct states |
|---|---|---|---|
| `fence_exclusion` | can two fences forward at one time? and is `ExclusiveSigner` implemented? | 2 fences, 1 connection each, clocks 1 apart, 3 units of time, 2 client Pods with one IP | 875 thousand |
| `fence_process` | does one process end, close and hand over as it should? | 1 fence, 1 connection, 3 units of time, 2 client Pods with one IP, handover on | 286 thousand |
| `relay_flow` | what does the relay deliver? | 3 records (1 oversized, 1 split), capacity 1, 2 starts, 2 connections | 83 thousand |
| `relay_appended` | is every newly appended record forwarded? (violated) | 2 whole records, 1 start | short counterexample |
| `uc5_window` | marker, role, tokens and replicas through every failure, next to an activation | 1 ceremony, 1 activation, 1 foreign write of the role | 257 thousand |
| `uc5_ceremonies` | does only the marker's owner mutate, when creation of the marker, deletion and write of the role may be late? | 2 ceremonies | 304 thousand |
| `vault_guided` | does the installation, from the first start to the revocation, survive every failure and kill? | none on steps, failures or kills; 8 resources | 202 thousand |
| `release_flow` | does a release survive any two mishaps, without doing anything twice or recording what is not so? | first run, 2 resumes, 2 mishaps | 137 thousand |
| `release_root` | does a configured bootstrap mean that the initial root token is dead? (violated) | the same | short counterexample |
| `deletion_flow` | does the deletion keep state and keys to the last, say the truth, and end? | 17 resources, 1 created late, 2 mishaps of 7 kinds | 66 thousand |
| `rehearsal` | does a rehearsal that fails anywhere keep its fence, and say the truth? and two at once? | 2 runs, 2 shares, 1 mishap of 4 kinds | 788 thousand |
| `duties` | is a complete observation true, and is it reached? | 2 epochs, the first before the activation; pages of 2 objects, 1 record delivered twice, 1 failed pass, ledger of 2 duties | 868 thousand |

Why the bounds are enough to be interesting:

* Fence. Exclusion is a matter of two fences; a third adds no new kind of step,
  and the proof covers any number. In 3 units of time a Lease of 3 is acquired,
  the holder's deadline passes (at 2), and a fence whose clock is one ahead finds
  the Lease expired and takes it while the old holder's own clock still lags by the
  whole skew, so the margin is tight: every mutant that drops it is caught.
  `fence_exclusion` switches handover off (`HandoverMargin` 9, more than the bound
  on time) and removes no Pods; `fence_process` has the handover, and the proofs cover
  both for any number of fences and any addresses. `MaxVersion` and `MaxStarts` stop renewals and restarts, not
  requests under way.
* Relay. Capacity 1 makes every sender block; three records give one before, one
  at and one after the open; the oversized and the split record meet both sources.
* Maintenance. One ceremony and one activation are the pair the marker is there
  for, two ceremonies the pair its creation is there for. Two activations at
  once, late PATCHes, and a late deletion next to an activation are outside these bounds: see the known limits below.
* Installer. Any number of invocations, failures and kills: the files on disk only
  grow up to a finite set. `requests` stops counting at 2. `Turns` is the code's own 12.
* Release. Two resumes are the fewest that race for the lock, and a third run is there to
  repair. A mishap is a failing step, a kill, a lost answer or a failed build; two of them put a
  second failure into the recovery from the first. The safety properties were also explored with
  three (581 thousand states, no error).
* Deletion. The 17 resources have one of each handler and of each relation: a consumer in
  a network, children of a cluster, a NAT gateway that holds an address, a profile that uses a
  role, an untagged schedule, Config recorder and security group with their proofs, and a volume
  that a controller creates late. Two mishaps give a failed run and a failed repetition. The
  safety properties were also explored with three (819 thousand states, no error).
* Rehearsal. Two runs are the fewest that share the port. Every request may still raise and every wait
  fail without counting as a mishap; the mishap is a lost answer or a late signal, a SIGKILL, a
  reboot, or a Vault that exits. One run alone was also explored with three of them (6 thousand
  states, no error).
* Duties. Three records and one too many make two pages, so that the cursor wraps; with two duties the ledger fills when
  time reaches the second epoch, which is how a pass without collection comes about. The safety
  properties were also explored with pages of one object, three duties and a window of no epoch
  (1.8 million states, no error), and `Completes` with two fence connections.

Each property of a passing run has a mutant (`PROJECT.json`, "mutants"): a plausible
bug in a mapped definition that makes TLC refute the property.

Deadlock is not checked: bounded time and bounded restarts end every fence
behaviour, Vault stops logging, and a ceremony is over when it has reported. It is
checked for the installer, where a resume can always be tried, and for the deletion,
which can always be run again. A release stops when it is complete or stranded, a rehearsal when it
has reported; the observation goes on passing for ever.

Every module has a `TypeOK`. A run checks it where it says more than the variables' sets: in the fence's `IndInv`,
and for the relay, where it bounds the channel. For every module it is a theorem,
the first conjunct of an inductive invariant (section 4).

### Fairness

* Fence (`FairSpec` of `SigningFence`): weak fairness of the watchdog, of closing
  the connections in `trip`, and of the exit, which are goroutines that are
  runnable, and `os.Exit`; and of the renewal thread (`RenewNext`), whose ticker fires and
  whose requests are answered or time out. It is what compares the client's UID again
  (`StrangerLeadsToExit`), and it may succeed as often as it fails. Nothing is assumed of time, the API
  server's answers, the client or the operator.
* Relay: weak fairness of the readers and of the writer, which are runnable
  goroutines as long as stdout is not blocked; strong fairness of each sender to
  the channel, because Go's channels queue blocked senders in order. None of
  Vault or of restarts.
* Ceremony: weak fairness of its next step, because every wait in it has a
  deadline and every request a timeout, after which it raises.
* Installer: weak fairness of the steps of an invocation (its commands have
  timeouts or are single requests), of requests under way and of the build, which CodeBuild
  ends; strong fairness of each command that is the next one for the stages reached (`NextCommand`):
  the operator does not give up, whatever else he calls. `Recovers` also assumes that failures
  and kills cease (commands that the code refuses may go on), that the account has an AWS Config recorder of
  its own, and that nothing is `spoiled`: an attempt, a
  workspace or a running stage left behind, a first checkpoint never written, a temporary file left before
  both stages are complete, an infrastructure stage taken back when the Vault runner exists, or a zero-resource
  apply that ended where its own checks refuse to go on. In each of these
  the code asks for a reconciliation by hand. Each disjunct of `ZeroStranded` is needed: without it TLC finds a run that
  never gets there.
* Release: weak fairness of every process, of AWS and of what outlives a process; the operator
  resumes, removes the lock directory of a dead run, repeats a bootstrap that ended, and (strong
  fairness, because a failed build may be retried and fail again) retries a failed build.
  `Recovers` speaks of releases that are never `Stranded`, which is spelled out: a platform
  announced without verified inputs, a start whose build is not known, an initialised Vault without
  response or checkpoint, a ceremony or activation announced and gone without its receipt.
  `StrandedStays` shows that none of these is a mere delay: nothing the code offers leads out.
* Deletion: weak fairness of the steps of a run, which includes running it again, and
  of AWS finishing a deletion. `Recovers` assumes that nothing was handed to another owner and
  that the run is not `Stranded`: a Config recorder whose role is gone, or a security group
  whose cluster is gone and which no living run has noted. Both are reported, in every
  later run, as residual.
* Observation: weak fairness of the steps of a pass, which includes the next pass (the supervisor
  repeats them), and of what is due: time, finality on each chain, and the delivery of every record that is not
  one too many. `Completes` supposes, in `Possible`, that no record is delivered twice, that the ledger is not full
  and that the duty was done and is looked up within the window.
* The rehearsal has no liveness property: its waits end by a timeout or not at all.

### Findings

1. `relay_appended` (code bug). After every complete line `followFile` returns, and
   `tailFile` opens the file again at its end (main.go:132). Of two records
   appended between two polls only the first is read. The loop's comment
   (lines 124-125) and docs/operations/vault-validator-audit.md say otherwise.
2. `release_root` (code bug). A bootstrap cut off after `operator init` is completed by a second run
   that generates a root token of its own, revokes that one, deletes the response with the only
   copy of the initial token and records `root_revoked` (recover-and-bootstrap-hoodi-vault-v2.sh:73).
   The initial token lives on.

### Known limits of the code that no run asks about

Each was seen in TLC, where an instance is named with that instance, or follows from the lines named; the passing
runs leave them out by their bounds or by what their properties suppose:

* After the revocation the guided continuation goes round once more and reconciles the *grant*
  (interactive_deploy.py:156), which Terraform now finds revoked: the flow ends in an error and
  cannot report `vault_platform_sealed_authority_revoked`, as its test with mocked steps
  (test-interactive-deploy.py:22-31) expects. The revocation itself is done. In `vault_guided`,
  `outcome = "error"` is reached with `Settled("revoke")` although nothing failed.
* A schedule carries no tags and is found only through its role (delete-all-node-operator-resources.sh:465). When
  its deletion is denied, the run keeps data, state and keys, but deletes the role (lines 1816-1828); the next run does
  not find the schedule any more, deletes the Terraform state and reports success.
  docs/operations/tagged-deployment-lifecycle.md:43 and 45 want a denied deletion to remain visible, and "the state
  bucket and lock [to] be retained when dependent deletions fail". Seen in the instance of `deletion_flow` with
  `Faults = {"denied"}` and one mishap, against "as long as anything that nobody has retagged is left,
  the state is there". `RecoveryStateLast` and `SuccessIsTrue` therefore speak of a schedule only as long as its
  role is there, and likewise of Config (`Visible`); of Config only one of recorder and channel may be left, which no
  inventory finds (lines 413-448).
* An accepted duty leaves the rows with which a second signing record is compared
  (collect-hoodi-finalized-attestation-evidence.py:305 and 345). A contradicting record in a later page then
  replaces the accepted pair; in the same page it raises. Seen with two roots in one epoch.
* A signing record delivered twice, in two objects, makes every pass fail while its duty waits (line 305); a fence
  record delivered twice makes two intervals, and the duty is never accepted (line 331).
* The ledger of duties is never pruned: about 27 hours after the activation it holds 256, and every pass
  ends pending before it reads the archive (lines 411 and 517).
* Two rehearsals that overlap can swap their Vaults, and both accept what they see, when a Vault exits by
  itself in the middle (`AcceptsOwnVault` without its `Exited`), or when a third one overlaps them: the
  property holds of the two runs of its instance and is not a theorem. `ports_are_free` is only a check before the use.
* SIGKILL, or the SIGHUP of a session that ends, leaves container, fence and scratch directory of a rehearsal, and
  no later run adopts them. A `docker rm` that was done but whose answer was lost leaves fence and scratch. A
  chain whose `iptables -N` was done and then interrupted stays, without a jump to it, although `cleanup=passed`.
* On an account without an AWS Config recorder the inputs are saved with `manage_config_recorder`, and the
  infrastructure stage then makes one. `_baseline_contract` (installer_vault_inputs.py:169) compares the
  saved inputs with those expected from a fresh discovery, without the exception that `prepare_inputs` and
  `apply_infrastructure` make for our own recorder, so every plan of the Vault stage is refused. `InputsDiffer`
  models this, and `Recovers` excludes it.
* `--prepare-infrastructure` sets a complete infrastructure stage back to `awaiting_input`
  (interactive_deploy.py:423), where the SSM and Vault stages refuse to be reset. Once the Vault runner exists the
  infrastructure cannot be applied again, because the plan would delete the runner
  (node-operator-release.sh:221-228), and the guided flow, the revocation included, stays closed.
* A bootstrap apply that fails when bucket and key exist, and the bucket's encryption is not yet bound to the key,
  cannot be resumed: the reconciliation takes it for a foreign key and refuses, in every later run
  (reconcile-bootstrap-state.py:157-167). The same holds when the script dies between the copy of the module and the
  removal of its backend block (node-operator-release.sh:424-427), when the bucket was made and no state file
  written (installer_infrastructure.py:233-240), and when a resource of the baseline was made and not recorded.
  `ZeroStranded` names these cases.
* With a cached output and the state not yet migrated, `copy_module` restores the active backend block
  before `init -backend=false` and `terraform output` (node-operator-release.sh:497-510). Whether Terraform reads the output
  then is not decided by this source; the model lets it.
* The slashing database migration empties the Lease of whoever holds it, testing only the holder's name
  (migrate-hoodi-validator-slashing-db.sh:73-77): unlike the handover script it asks neither whether the Lease has
  expired nor whether a fence still runs. It has taken the signer down before, so that nothing is signed while
  it works; that the old fence's deadline passes before the signer is back is left to the operator. The
  theorem `Exclusion` speaks of fences and the handover script, not of this one.
* Between its deadline and the end of its Lease a fence renews without any of the
  explicit recovery that a comment of main.go asks for. Exclusion is not affected (theorem `Exclusion`).
* `cas_scale` reads the marker and then PATCHes; a ceremony can set the marker in between, and the
  PATCH goes through (activate-hoodi-validator-client.sh:174). `uc5_window` shows that the
  ceremony's own checks keep client and fence down while the role is missing.
* With `Delayable = {"delete"}` a role deletion that timed out can be applied after the clean-up found
  the role intact: `RoleAbsentUnderMarker` fails. `uc5_window` has no late deletion for this reason; `uc5_ceremonies`
  has, and shows that none comes under another ceremony's marker, because the token is revoked before.
* A ceremony that fails inside `fresh_fence` removes its marker after its clean-up has taken client and fence
  down. An activation that had passed its marker check before may still raise one of them in between:
  `ReleasedIsSafe` with `>= Preparing` fails, and therefore begins after that stage.
* With `Delayable = {"patch"}` a ceremony's own PATCH that timed out can be applied when the marker is released or
  another's (`OnlyHolderMutates` fails), and a scale-up of an activation after a rollback that found zero
  replicas and therefore wrote nothing: `RolledBackIsDown` fails. With two activations it
  fails too, when one scales up what the other rolled back.

## 4. Proofs

Eight modules hold the proofs. Each proves an inductive invariant (a type invariant, and the named parts listed
below), and derives from it the properties that the runs check. The runs check them on a small instance;
the theorems hold for every value of the constants that satisfies the named assumptions, which TLC evaluates on the instances.

| Module | Theorem | Statement |
|---|---|---|
| `SigningFence_proofs` | `Invariance`, `TypeCorrect` | `Spec => []IndInv`, `[]TypeOK` |
| | `ServesUnderLease` | `Spec => []AuthorityUnderLease` |
| | `Exclusion` | `Spec => []ExclusiveForwarding` |
| | `DoneIsClosed` | `Spec => []ClosedWhenDone` |
| | `SilentHandover` | `Spec => HandoverOnlyWhenSilent` |
| | `Refinement` | `Spec => ImplementsExclusiveSigner` |
| `VaultAuditRelay_proofs` | `Invariance`, `TypeCorrect` | `Spec => [](TypeOK /\ CoreInv)`, `[]TypeOK` |
| | `OrderKept`, `ReadForwarded` | `Spec => []FileOrder`, `[]ReadIsForwarded` |
| `MaintenanceWindow_proofs` | `WindowInvariance`, `TypeCorrect` | `Spec => []BaseInv`, `[]TypeOK` |
| | `HolderMutates` | `Spec => OnlyHolderMutates`; no late PATCH |
| | `RoleUnderMarker`, `ProbeTruth` | `Spec => []RoleAbsentUnderMarker`, `ProbeCompleteIsTrue`; no late deletion |
| | `QuiescedWithoutRole` | `Spec => []QuiescedWhileRoleAbsent`; one script, no late deletion |
| | `ReleaseSafe` | `Spec => ReleasedIsSafe`; one script, no late deletion or PATCH |
| | `RollbackDown` | `Spec => RolledBackIsDown`; one script, no late PATCH |
| `HoodiRelease_proofs` | `Invariance`, `TypeCorrect` | `Spec => []IndInv`, `[]TypeOK` |
| | `CeremoniesOnce`, `PhasesAreTrue` | `Spec => []CeremonyOnce`, `[]PhaseIsTrue` |
| | `ReceiptsAreTrue`, `RunnersCovered` | `Spec => []ReceiptIsTrue`, `[]RunnerCoversBuild` |
| | `OneBuildAtATime`, `StrandedForGood` | `Spec => OneAtATime`, `StrandedStays` |
| `VaultPlatform_proofs` | `Invariance`, `TypeCorrect` | `Spec => []IndInv`, `[]TypeOK` |
| | `AuthorityCovers`, `NothingRepeated` | `Spec => []AuthorityCoversBuild`, `[]NeverRepeated` |
| | `EvidenceTrue` | `Spec => []EvidenceIsTrue` |
| `ResourceDeletion_proofs` | `Invariance`, `TypeCorrect` | `Spec => []IndInv`, `[]TypeOK` |
| | `StateGoesLast`, `SuccessTrue` | `Spec => []RecoveryStateLast`, `[]SuccessIsTrue` |
| `IsolatedRehearsal_proofs` | `Invariance`, `TypeCorrect` | `Spec => []IndInv`, `[]TypeOK` |
| | `FencedAlways`, `CleanupTrue`, `PassClean` | `Spec => []Fenced`, `[]CleanupIsTrue`, `[]PassMeansClean` |
| `AttestationObservation_proofs` | `Invariance`, `TypeCorrect` | `Spec => [](TypeInv /\ IndInv)`, `[]TypeOK` |
| | `CompleteIsTrue`, `CheckpointIsBacked` | `Spec => []VerdictIsTrue`, `[]CheckpointBacked` |

### SigningFence

For any finite or infinite set of fences, any number of connections and any timing constants that satisfy
`BoundsAssumption`, `SkewAssumption`, `IdentityAssumption` and `AddressAssumption`. Exclusion is not inductive: a state with one
forwarding fence and a stale PATCH on the wire that would give its rival an authority satisfies it. `IndInv` therefore follows
a grant through its whole life. Every *promise of authority* is tied to the Lease:
a PATCH on the wire either can no longer be applied, because its `resourceVersion`
is behind, or carries a time not later than the Lease will have; a grant that was answered but
not yet acted on, a serving process's deadline, and a tunnel's own deadline are *covered*, which
means that the Lease names this fence and was renewed no earlier than
the deadline assumes, or else that the deadline has passed on every clock. The
second alternative is where `Skew <= Margin` is used: whoever takes an expired Lease
reads a clock at most `Skew` ahead, and the deadline lies `Margin` before the expiry.
`LeaseStep` and `ServeStep` have one step per action; `ForwarderHoldsLease` then
says that a forwarding fence is the Lease's holder, of which there is one. The
refinement maps the fence that forwards, if there is one, to `ExclusiveSigner`'s
state; `OnlyDialActivates` shows that only the start of a connection takes an
abstract step that claims the signer. `DoneIsClosed` needs a second invariant,
`AdmissionInv`: a fence that is done has no connection, whatever is still admitted or dialled beside its trip.

### VaultAuditRelay

For any number of records, any sizes, splits, channel capacity and restarts (`RelayAssumption`). Neither property is
inductive, because a relay that is about to read something twice still satisfies them. `FileInv` says that the file holds the records in
order, each whole or as a head followed by its rest; `PathInv` that what was sent on, or is about to be, is *done with*: complete in the file, and
behind every line that the open file descriptor will still read. The sequences (file, channel, stdout) are reasoned about by length and index.

### MaintenanceWindow

For any number of ceremonies, drifts and late requests of the kinds in `Delayable` (`ClusterAssumption`). `BaseInv` holds of all of them: the
journal of each ceremony is *sound* for the stage it is at (`SoundInv`), an owner's marker is its own until it is released (`MarkerInv`), a late creation or removal of
the marker belongs to a ceremony that has given up or ended cleanly (`LateInv`), a ceremony that releases has revoked its token
(`TokenInv`), and a script is at an instruction of its phase (`ScriptInv`). `RoleInv` adds that
a missing role has an owner who must still restore it.

`HeldInv` is for `HolderMutates`, which speaks of late requests too: the sender of a late deletion or write of the role still has the
marker, or else its token is revoked and Vault refuses the request.

`CalmInv` carries the hard part, the race of a ceremony with an activation script that had passed its marker check: what the script has
seen of the counts is still so, as it alone raises them (`FrontInv`); a late scale-up belongs to a script that gave up and
applies only to a count that has stayed at zero (`PendingInv`); once the owner of the marker has seen client and
fence run, nothing begun before can raise them again (`QuietInv`). `SignerInv` and `VerifyInv` add that a stopped signer stays down under the marker, and
that what a rollback has verified stays so.

The hypotheses of the theorems are not for the provers' sake: without each, TLC finds a
counterexample, and section 3 describes it as a limit of the code. "One script" is `\A a, b \in Activations : a = b`; "no late
deletion" is `"delete" \notin Delayable`. The theorems cover the other late requests (creation, PATCH where not
excluded, write, revocation, removal of the marker), in any mixture.

### HoodiRelease

For any set of resumes, any faults and any number of them (`ResumesAssumption`, `ShellFaultsAssumption`, `PlatformFaultsAssumption`,
`CeremonyFaultsAssumption`, `MaxMishapsAssumption`). The invariant has one part for each of the three modules, and each is
proved from its own module's actions; the release then needs of the others only what their effect lemmas say.

* `PlatformInv`: the phases are complete in order (`OrderInv`), a terraform run under way, also one that outlived its script, is at the
  first phase that is not complete (`ApplyInv`), a phase is complete only with its effect (`EffectInv`), and a build is started only after its
  apply, once for each intent, and again only after a failure (`BuildInv`).
* `CeremonyInv`: what the checkpoint says of Vault's initialisation and configuration (`SealInv`, `UnsealedInv`, `ConfiguredInv`), the bootstrap's files as far as it relies
  on them (`FilesInv`), and, for each ceremony, that its work is done when it is on its way to say so (`WorkedInv`), that no root generation is
  left over (`GenInv`), and that the tokens it revoked stay revoked (`TokenInv`).
* `ReleaseInv`: at most one run is at work, the first one or one with the lock (`LockInv`); what it believes is what the receipt
  says (`ViewInv`); what was begun is not about to begin again (`BegunInv`); what was announced and not begun has left no trace (`FreshInv`); while the bootstrap
  is awaited it is the first one (`AwaitInv`); who is about to record a phase has what it claims (`ClaimInv`); and what is recorded is true
  (`TruthInv`). `LockInv` holds with a stale lock and with a resume that read the phase before it had
  the lock, because that read is repeated under the lock (interactive-hoodi-release.sh:519-530).

`StrandedForGood` shows each disjunct of `Stranded` to be closed under every step. That matters for `Recovers`, the liveness property which
excludes stranded releases: it excludes none that would repair itself.

### VaultPlatform

For any faults and any bound on the turns of a continuation (`FaultsAssumption`, `TurnsAssumption`); the proofs are about
`ZeroApply`, `InstallerStages` and `VaultPlatform` together. None of the three properties is inductive: what a step may do depends on files that were
written many invocations earlier, by an invocation that may have died since while its child went on.

* `RunInv` says which commands and operations can be at which point, so that a step is one of the command that the step belongs to.
* `ScriptInv`: the script of the zero-resource apply runs only while its stage is `running` in the checkpoint, and with an invocation
  only if that one waits for it. A resume is refused while a stage is `running`, so an orphaned script never has company. `StateInv`: Terraform's states
  record only what was made; the remote one has all of the bootstrap or none of it; and everything importable that exists is in the
  local state, or about to be, while the bootstrap is applied, which is why no second key is made. `HostInv` is the same for SSM access.
* `RequestInv`: a request that was ever sent, or is on its way, has its marker on disk; an apply about to be sent does not have it yet;
  a verdict on disk is the build's. `ApplyInv`: a phase is recorded as applied only when its request has taken effect.
* `AuthorityInv`: the authority is in place while a build is on its way or running, because what can revoke it (an invocation of the phase
  `revoke`, or a request of one) exists only with a verdict on disk. Only `Attested` (the success record has its content) counts as an applied grant, and a torn record stops the continuation.

The files matter to these only through which phases are attempted, succeeded and attested and what is told of the build (`vaultFiles`). The
lemmas under "The files" say which of these a file is about, and that a workspace or a plan is about none, so that each step is
reasoned about in those terms; `VaultKept` and `StageKept` treat at once all steps that leave them alone.

### ResourceDeletion

For any resources, kinds and relations with `KindAssumption`, `UsesAssumption`, `ProofAssumption`, and two assumptions that the code relies on without a word:
a node group has a cluster (`NodeGroupAssumption`), and what controllers create late is neither a cluster, a node group, state nor a key
(`LateAssumption`). `BarrierInv` says that what a barrier's second inventory has found stays true as long as the run has no
residual; `ItemInv` that a protected item is handled only behind its barriers in a run without residual; `NodesInv`
that a cluster is asked for only after its node groups, so that a cluster that goes cannot uncover anything.

### IsolatedRehearsal

For any number of overlapping runs, any quorum and any faults (`RehearsalAssumption`). `FenceInv` ties a container, and a docker request whose client gave up, to the run that must know of it and to that run's
complete chains; `CleanupInv` ties what the clean-up may still say to what it has seen removed; `AttemptInv` says that one Vault
answers at a time and that a root generation is known to the run that began it; `TokenInv` follows the two root
tokens of each run through the Vaults' data.

### AttestationObservation

For any number of epochs, duties, connections, duplicated records and failed passes (`ObservationAssumption`). `CursorInv` says that every
accepted or retained row of the cursor, written or not, is backed by the archive; `FilesInv` how proofs, cursor and checkpoint agree between any two writes of
a pass; `SeenInv` that what was looked up is proved, and stays so, as votes and finality only grow; `VerdictInv` carries it to
the verdict. That enough epochs were counted rests on lemmas about the cardinality of intervals.

### What is only model-checked

* Liveness under fairness is out of TLAPS's reach: `LapseLeadsToExit`, `StrangerLeadsToExit`, `ReadyIsWritten`, `CeremonyEnds`, `Completes` and the three
  `Recovers`.
* `AcceptsOwnVault` holds for two overlapping runs only (section 3).
* The two expected violations, `AppendedIsForwarded` and `ConfiguredMeansRootRevoked`.

## 5. Not modelled

* Receipts of the fence's connections (`connectionAudit`): logging; that `os.Exit`
  may cut them off is listed as a hazard.
* UC-5 evidence and readers, admission decision policy: pure checks of documents.
* Installer artifacts and bundles, release scripts: mostly validation, and calls of external tools
  one after another.
* Of the installer: the branch `prepare-artifacts` of the zero-resource apply and the repeated apply after the
  propagation delay of EKS, the contents of plans and inputs, and the `destroy` of a stage.
* Of the release: everything before the receipt, and the inside of activation (`ClientActivation`
  models it on its own), evidence and observation. Of the bootstrap ceremony: `--prepare-existing`
  and `--activate-existing`.
* Of the deletion: the dry run, the choice of account and regions, the protection of the caller's
  own role, access entries and pod identities, and the two scripts around it
  (temporary break-glass, zero environment).
* Of the observation: the correlation of Vault's audit challenge, the delivery metadata of the other logs, and the
  check of a validator that exists already.
* Recovery grant: one KMS grant that is made and revoked by name; nothing it says rests on more than one
  listing. Slashing history migration: on the plan below.
* Runtime and identity probes: one-shot requests without state.
* Charts, Terraform, workflows, CI: declarative. The Lease's initial value and
  the fence's arguments are taken from the chart.

## 6. Plan

Done: the fence with its handover, the relay, the maintenance window,
the installer from its first start up to the Vault platform, the release with its bootstrap and ceremonies, the deletion,
the rehearsal, the observation, and the proofs of all of them.
In order of importance:

1. The slashing history migration, with its guards and its crashes.
2. The decision policy and the audit-proof matching against reference definitions.
