-------------------------- MODULE IsolatedRehearsal --------------------------
(***************************************************************************)
(* The rehearsal of a Vault restore on the isolated recovery host: one run *)
(* of the program starts Vault behind an egress fence of its own, restores *)
(* the snapshot into it, generates a root token, upgrades, revokes and     *)
(* cleans up.  Runs share the host's port, its firewall and its UID.       *)
(***************************************************************************)
EXTENDS Naturals, Sequences

CONSTANTS Runs,       \* executions of the program on this host
          Original,   \* stands for the cluster identity in the snapshot
          Quorum,     \* recovery shares that Vault requires
          Faults,     \* what may go wrong: "lost" (answer, late signal), "kill",
                      \* "reboot", "exit" (of a Vault by itself)
          MaxMishaps  \* bound on how often

ASSUME RehearsalAssumption ==
  /\ Original \notin Runs /\ Quorum \in Nat \ {0} /\ MaxMishaps \in Nat
  /\ Faults \subseteq {"lost", "kill", "reboot", "exit"}

VARIABLES self,     \* what each run of the program knows and where it is
          box,      \* its container
          image,    \* the image that container was made from
          flight,   \* a docker request whose client has given up
          vault,    \* the Vault data in its scratch directory
          scratch,  \* runs whose scratch directory exists
          rules,    \* its iptables chains and their jumps from OUTPUT
          sink,     \* its audit sink has received a record since last asked
          mishaps   \* what went wrong so far

hostVars == <<box, image, flight, vault, scratch, rules, sink>>
vars == <<self, hostVars, mishaps>>

Families == {"ipv4", "ipv6"}
NoRule == [chain |-> "none", jump |-> FALSE]
FreshProcess ==
  [at |-> "begin", n |-> 1, container |-> FALSE, egress |-> FALSE, marks |-> {},
   prior |-> Original, root |-> FALSE, generated |-> FALSE, started |-> FALSE,
   result |-> FALSE, bad |-> FALSE, cleanup |-> "not_started", outcome |-> "none"]
EmptyVault == [data |-> "empty", tokens |-> {}, attempt |-> Original, shares |-> 0]

Init ==
  /\ self = [r \in Runs |-> FreshProcess]
  /\ box = [r \in Runs |-> "absent"]
  /\ image = [r \in Runs |-> "old"]
  /\ flight = [r \in Runs |-> "none"]
  /\ vault = [r \in Runs |-> EmptyVault]
  /\ scratch = {}
  /\ rules = [r \in Runs |-> [f \in Families |-> NoRule]]
  /\ sink = [r \in Runs |-> FALSE]
  /\ mishaps = << >>

-----------------------------------------------------------------------------
At(r, at) == self[r].at = at
Mishap(fault) == fault \in Faults /\ Len(mishaps) < MaxMishaps /\ mishaps' = Append(mishaps, fault)

Running(s) == box[s] \in {"starting", "listening"}
Up(s) == box[s] = "listening"
Healthy(s) == Up(s) /\ vault[s].data # "empty"
(* Until a restore is complete, Vault answers as the old cluster.          *)
Cluster(s) == IF vault[s].data = "restored" THEN Original ELSE s
Root(r) == <<"root", r>>
Generated(r) == <<"generated", r>>

Body == {"begin", "prepare", "check_host", "install", "start_old", "reach", "init", "fresh",
         "restore", "restored", "announce", "attempt", "share", "decode", "inspect",
         "delivered", "stop_old", "start_new", "upgraded", "compare", "redelivered",
         "revoke", "denied"}
Cleaning == {"clean_generated", "clean_attempt", "clean_root", "clean_container",
             "clean_egress", "clean_scratch", "report"}

(* An exception in the body leads to the cleanup; before the try block     *)
(* there is none, and the installation of the fence is rolled back first,  *)
(* unless the exception is that of a signal.                               *)
Handlers(r) ==
  CASE At(r, "begin") -> {"done"}
    [] At(r, "install") -> {"rollback", "clean_generated"}
    [] OTHER -> {"clean_generated"}
Outcome(process, next) == IF next = "done" THEN "failed" ELSE process.outcome
Raise(r) ==
  \E next \in Handlers(r) :
    self' = [self EXCEPT ![r] = [self[r] EXCEPT !.at = next, !.n = 1,
                                   !.outcome = Outcome(self[r], next)]]

(* A step that had its effect either goes on or raises all the same: its   *)
(* answer was lost, it timed out, or a signal came.                        *)
Goes(r, process) ==
  \/ self' = [self EXCEPT ![r] = process] /\ UNCHANGED mishaps
  \/ Mishap("lost") /\ Raise(r)
GoesTo(r, at) == Goes(r, [self[r] EXCEPT !.at = at])

-----------------------------------------------------------------------------
(* Preparation and the egress fence.                                       *)

(* ports_are_free, and then the scratch directory.                         *)
Begin(r) ==
  /\ At(r, "begin") /\ \A s \in Runs : ~Up(s)
  /\ scratch' = scratch \cup {r}
  /\ GoesTo(r, "prepare")
  /\ UNCHANGED <<box, image, flight, vault, rules, sink>>

(* Images, the snapshot with its checksum, and the guard object.           *)
Prepare(r) ==
  /\ At(r, "prepare")
  /\ Goes(r, [self[r] EXCEPT !.at = "check_host", !.egress = TRUE])
  /\ UNCHANGED hostVars

CheckHost(r) ==
  /\ At(r, "check_host") /\ \A s \in Runs : ~Running(s)
  /\ GoesTo(r, "install")
  /\ UNCHANGED hostVars

(* One iptables command at a time; a chain is filled up to its REJECT      *)
(* before OUTPUT jumps to it.  The flag is set after the command.          *)
InstallSteps ==
  << <<"ipv4", "chain">>, <<"ipv4", "fill">>, <<"ipv4", "jump">>,
     <<"ipv6", "chain">>, <<"ipv6", "fill">>, <<"ipv6", "jump">> >>
Installed(rule, op) ==
  CASE op = "chain" -> [rule EXCEPT !.chain = "open"]
    [] op = "fill" -> [rule EXCEPT !.chain = "closed"]
    [] op = "jump" -> [rule EXCEPT !.jump = TRUE]
Install(r) ==
  /\ At(r, "install")
  /\ LET step == InstallSteps[self[r].n]
         last == self[r].n = Len(InstallSteps)
     IN /\ rules' = [rules EXCEPT ![r][step[1]] = Installed(@, step[2])]
        /\ Goes(r, [self[r] EXCEPT !.marks = IF step[2] = "fill" THEN @ ELSE @ \cup {step},
                      !.n = IF last THEN 1 ELSE @ + 1,
                      !.at = IF last THEN "start_old" ELSE @])
  /\ UNCHANGED <<box, image, flight, vault, scratch, sink>>

(* EgressGuard.close, for one family: only what is marked is removed, each *)
(* command may fail, and the kernel keeps a chain that is jumped to.       *)
Unlinks(rule, marked, fails) == "jump" \in marked \ fails /\ rule.jump
Flushes(rule, marked, fails) ==
  "chain" \in marked /\ "flush" \notin fails /\ rule.chain # "none"
Deletes(rule, marked, fails) ==
  /\ Flushes(rule, marked, fails) /\ "delete" \notin fails
  /\ rule.jump => Unlinks(rule, marked, fails)
ClosedRule(rule, marked, fails) ==
  [chain |-> IF Deletes(rule, marked, fails) THEN "none"
             ELSE IF Flushes(rule, marked, fails) THEN "open" ELSE rule.chain,
   jump |-> rule.jump /\ ~Unlinks(rule, marked, fails)]
CloseFails(rule, marked, fails) ==
  \/ "jump" \in marked /\ ~Unlinks(rule, marked, fails)
  \/ "chain" \in marked /\ ~Deletes(rule, marked, fails)
Marked(r, f) == {op \in {"chain", "jump"} : <<f, op>> \in self[r].marks}

Close(r, process, noted) ==
  \E fails \in SUBSET {"jump", "flush", "delete"} :
    LET failed == \E f \in Families : CloseFails(rules[r][f], Marked(r, f), fails)
    IN /\ IF fails = {} THEN UNCHANGED mishaps ELSE Mishap("lost")
       /\ rules' = [rules EXCEPT ![r] =
            [f \in Families |-> ClosedRule(rules[r][f], Marked(r, f), fails)]]
       /\ self' = [self EXCEPT ![r] =
            [process EXCEPT !.marks = IF failed THEN @ ELSE {}, !.bad = @ \/ (noted /\ failed)]]
       /\ UNCHANGED <<box, image, flight, vault, scratch, sink>>

Rollback(r) ==
  /\ At(r, "rollback")
  /\ Close(r, [self[r] EXCEPT !.at = "clean_generated"], FALSE)

-----------------------------------------------------------------------------
(* Containers.  docker run without an answer may have done nothing yet,    *)
(* created the container, or started it; the rest may follow later.        *)
DockerRun(r, new, next) ==
  /\ image' = [image EXCEPT ![r] = new]
  /\ \/ /\ box' = [box EXCEPT ![r] = "starting"]
        /\ self' = [self EXCEPT ![r].container = TRUE, ![r].at = next]
        /\ UNCHANGED <<flight, mishaps>>
     \/ /\ Mishap("lost")
        /\ \E done \in {"absent", "created", "starting"} :
             /\ box' = [box EXCEPT ![r] = done]
             /\ flight' = [flight EXCEPT ![r] =
                  IF done = "absent" THEN "create" ELSE IF done = "created" THEN "start" ELSE @]
        /\ self' = [self EXCEPT ![r].container = TRUE, ![r].at = "clean_generated"]
  /\ UNCHANGED <<vault, scratch, rules, sink>>

StartOld(r) == At(r, "start_old") /\ ~self[r].container /\ DockerRun(r, "old", "reach")
StartNew(r) == At(r, "start_new") /\ ~self[r].container /\ DockerRun(r, "new", "upgraded")

(* docker inspect and docker rm -f: what Vault had in memory is gone.      *)
Removes(r) ==
  /\ box' = [box EXCEPT ![r] = "absent"]
  /\ vault' = [vault EXCEPT ![r].attempt = Original, ![r].shares = 0]
  /\ UNCHANGED <<image, flight, scratch, rules, sink>>
StopOld(r) ==
  /\ At(r, "stop_old") /\ box[r] # "absent"
  /\ Removes(r)
  /\ Goes(r, [self[r] EXCEPT !.container = FALSE, !.at = "start_new"])

-----------------------------------------------------------------------------
(* The conversation with whichever Vault answers on the loopback port.     *)

Reach(r) ==
  /\ At(r, "reach") /\ \E s \in Runs : Up(s)
  /\ GoesTo(r, "init")
  /\ UNCHANGED hostVars

Initialize(r) ==
  /\ At(r, "init")
  /\ \E s \in Runs :
       /\ Up(s) /\ vault[s].data = "empty"
       /\ vault' = [vault EXCEPT ![s].data = "fresh", ![s].tokens = {Root(r)}]
  /\ Goes(r, [self[r] EXCEPT !.root = TRUE, !.at = "fresh"])
  /\ UNCHANGED <<box, image, flight, scratch, rules, sink>>

Fresh(r) ==
  /\ At(r, "fresh")
  /\ \E s \in Runs :
       /\ Healthy(s) /\ image[s] = "old"
       /\ Goes(r, [self[r] EXCEPT !.prior = Cluster(s), !.at = "restore"])
  /\ UNCHANGED hostVars

Restore(r) ==
  /\ At(r, "restore")
  /\ \E s \in Runs :
       /\ Healthy(s) /\ Root(r) \in vault[s].tokens
       /\ vault' = [vault EXCEPT ![s].data = "restoring"]
  /\ GoesTo(r, "restored")
  /\ UNCHANGED <<box, image, flight, scratch, rules, sink>>

(* Acceptance proves nothing: the cluster identity has to change.          *)
Restored(r) ==
  /\ At(r, "restored")
  /\ \E s \in Runs : Healthy(s) /\ Cluster(s) # self[r].prior
  /\ Goes(r, [self[r] EXCEPT !.root = FALSE, !.at = "announce"])
  /\ UNCHANGED hostVars

\* Mutant: the attempt is not noted.
Announce_Unnoted(r) == At(r, "announce") /\ GoesTo(r, "attempt") /\ UNCHANGED hostVars
(* The attempt is noted before it is requested.                            *)
Announce(r) ==
  /\ At(r, "announce")
  /\ Goes(r, [self[r] EXCEPT !.started = TRUE, !.at = "attempt"])
  /\ UNCHANGED hostVars
Attempt(r) ==
  /\ At(r, "attempt")
  /\ \E s \in Runs :
       /\ Healthy(s) /\ vault[s].attempt = Original
       /\ vault' = [vault EXCEPT ![s].attempt = r, ![s].shares = 0]
  /\ GoesTo(r, "share")
  /\ UNCHANGED <<box, image, flight, scratch, rules, sink>>

Share(r) ==
  /\ At(r, "share")
  /\ \E s \in Runs :
       LET complete == vault[s].shares + 1 = Quorum
       IN /\ Healthy(s) /\ vault[s].attempt = r
          /\ vault' = [vault EXCEPT
               ![s].shares = IF complete THEN 0 ELSE @ + 1,
               ![s].attempt = IF complete THEN Original ELSE @,
               ![s].tokens = IF complete THEN @ \cup {Generated(r)} ELSE @]
          /\ GoesTo(r, IF complete THEN "decode" ELSE "share")
  /\ UNCHANGED <<box, image, flight, scratch, rules, sink>>

Decode(r) ==
  /\ At(r, "decode")
  /\ Goes(r, [self[r] EXCEPT !.generated = TRUE, !.started = FALSE, !.at = "inspect"])
  /\ UNCHANGED hostVars

(* Authenticated reads.  The audit devices come with the snapshot; records *)
(* go to the sink in the directory that the Vault's container has mounted. *)
Reads(r, s) ==
  /\ Healthy(s) /\ Generated(r) \in vault[s].tokens /\ vault[s].data = "restored"
  /\ sink' = [sink EXCEPT ![s] = TRUE]
  /\ UNCHANGED <<box, image, flight, vault, scratch, rules>>
Inspect(r) ==
  /\ At(r, "inspect")
  /\ \E s \in Runs : Reads(r, s)
  /\ GoesTo(r, "delivered")

\* Mutant: the sink is not asked.
HeardThen_Unasked(r, next) == GoesTo(r, next) /\ UNCHANGED hostVars
(* The count of deliveries has to have grown, for the run's own sink.      *)
HeardThen(r, next) ==
  /\ sink[r]
  /\ sink' = [sink EXCEPT ![r] = FALSE]
  /\ GoesTo(r, next)
  /\ UNCHANGED <<box, image, flight, vault, scratch, rules>>
Delivered(r) == At(r, "delivered") /\ HeardThen(r, "stop_old")

Upgraded(r) ==
  /\ At(r, "upgraded")
  /\ \E s \in Runs : Healthy(s) /\ image[s] = "new" /\ Cluster(s) = Original
  /\ GoesTo(r, "compare")
  /\ UNCHANGED hostVars
Compare(r) ==
  /\ At(r, "compare")
  /\ \E s \in Runs : Reads(r, s)
  /\ GoesTo(r, "redelivered")
Redelivered(r) == At(r, "redelivered") /\ HeardThen(r, "revoke")

Revoke(r) ==
  /\ At(r, "revoke")
  /\ \E s \in Runs :
       /\ Healthy(s) /\ Generated(r) \in vault[s].tokens
       /\ vault' = [vault EXCEPT ![s].tokens = @ \ {Generated(r)}]
  /\ GoesTo(r, "denied")
  /\ UNCHANGED <<box, image, flight, scratch, rules, sink>>

(* Only a refusal counts as evidence; then the result is set.              *)
Denied(r) ==
  /\ At(r, "denied")
  /\ \E s \in Runs : Healthy(s) /\ Generated(r) \notin vault[s].tokens
  /\ Goes(r, [self[r] EXCEPT !.generated = FALSE, !.result = TRUE, !.at = "clean_generated"])
  /\ UNCHANGED hostVars

BodyStep(r) ==
  \/ Begin(r) \/ Prepare(r) \/ CheckHost(r) \/ Install(r) \/ StartOld(r) \/ Reach(r)
  \/ Initialize(r) \/ Fresh(r) \/ Restore(r) \/ Restored(r) \/ Announce(r) \/ Attempt(r)
  \/ Share(r) \/ Decode(r) \/ Inspect(r) \/ Delivered(r) \/ StopOld(r) \/ StartNew(r)
  \/ Upgraded(r) \/ Compare(r) \/ Redelivered(r) \/ Revoke(r) \/ Denied(r)

(* A step raises without effect when what it asks is refused or does not   *)
(* come true in time, or by a failure or a signal of its own.              *)
Fails(r) ==
  /\ self[r].at \in Body
  /\ Raise(r)
  /\ UNCHANGED <<hostVars, mishaps>>

-----------------------------------------------------------------------------
(* The cleanup: every step is tried, and a failure is only noted.          *)
Cleans(r, next, process, failed) ==
  self' = [self EXCEPT ![r] = [process EXCEPT !.at = next, !.bad = @ \/ failed]]

(* A request to whichever Vault answers: done, refused, or done and raised. *)
Asks(r, next, process, effects) ==
  /\ \/ \E effect \in effects :
          /\ vault' = effect
          /\ \/ Cleans(r, next, process, FALSE) /\ UNCHANGED mishaps
             \/ Cleans(r, next, process, TRUE) /\ Mishap("lost")
     \/ Cleans(r, next, process, TRUE) /\ UNCHANGED <<vault, mishaps>>
  /\ UNCHANGED <<box, image, flight, scratch, rules, sink>>
RevokeSelf(token) ==
  {[vault EXCEPT ![s].tokens = @ \ {token}] : s \in {t \in Runs : Healthy(t) /\ token \in vault[t].tokens}}
Cancel ==
  {[vault EXCEPT ![s].attempt = Original, ![s].shares = 0] : s \in {t \in Runs : Healthy(t)}}

CleanGenerated(r) ==
  /\ At(r, "clean_generated")
  /\ IF self[r].generated
     THEN Asks(r, "clean_attempt", [self[r] EXCEPT !.generated = FALSE], RevokeSelf(Generated(r)))
     ELSE Cleans(r, "clean_attempt", self[r], FALSE) /\ UNCHANGED <<hostVars, mishaps>>
CleanAttempt(r) ==
  /\ At(r, "clean_attempt")
  /\ IF self[r].started
     THEN Asks(r, "clean_root", self[r], Cancel)
     ELSE Cleans(r, "clean_root", self[r], FALSE) /\ UNCHANGED <<hostVars, mishaps>>
CleanRoot(r) ==
  /\ At(r, "clean_root")
  /\ IF self[r].root
     THEN Asks(r, "clean_container", [self[r] EXCEPT !.root = FALSE], RevokeSelf(Root(r)))
     ELSE Cleans(r, "clean_container", self[r], FALSE) /\ UNCHANGED <<hostVars, mishaps>>

(* A container that docker does not know cannot be inspected, and remains  *)
(* the run's as far as the run knows.                                      *)
CleanContainer(r) ==
  /\ At(r, "clean_container")
  /\ IF self[r].container
     THEN \/ /\ box[r] # "absent" /\ Removes(r)
             /\ \/ /\ Cleans(r, "clean_egress", [self[r] EXCEPT !.container = FALSE], FALSE)
                   /\ UNCHANGED mishaps
                \/ Cleans(r, "clean_egress", self[r], TRUE) /\ Mishap("lost")
          \/ Cleans(r, "clean_egress", self[r], TRUE) /\ UNCHANGED <<hostVars, mishaps>>
     ELSE Cleans(r, "clean_egress", self[r], FALSE) /\ UNCHANGED <<hostVars, mishaps>>

\* Mutant: the fence is taken down whatever became of the container.
CleanEgress_Always(r) ==
  /\ At(r, "clean_egress")
  /\ Close(r, [self[r] EXCEPT !.at = "clean_scratch", !.egress = FALSE], TRUE)
CleanEgress(r) ==
  /\ At(r, "clean_egress")
  /\ IF self[r].egress /\ ~self[r].container
     THEN Close(r, [self[r] EXCEPT !.at = "clean_scratch", !.egress = FALSE], TRUE)
     ELSE /\ Cleans(r, "clean_scratch", self[r], self[r].egress)
          /\ UNCHANGED <<hostVars, mishaps>>

(* The directory goes only when its container has.                         *)
CleanScratch(r) ==
  /\ At(r, "clean_scratch")
  /\ IF self[r].container
     THEN Cleans(r, "report", self[r], FALSE) /\ UNCHANGED <<hostVars, mishaps>>
     ELSE \/ /\ scratch' = scratch \ {r}
             /\ vault' = [vault EXCEPT ![r] = EmptyVault]
             /\ Cleans(r, "report", self[r], FALSE)
             /\ UNCHANGED <<box, image, flight, rules, sink, mishaps>>
          \/ Cleans(r, "report", self[r], TRUE) /\ UNCHANGED <<hostVars, mishaps>>

\* Mutant: the result is printed although the clean-up failed.
Report_Result(r) ==
  /\ At(r, "report")
  /\ self' = [self EXCEPT ![r].at = "done", ![r].cleanup = IF self[r].bad THEN "failed" ELSE "passed",
                ![r].outcome = IF self[r].result THEN "passed" ELSE "failed"]
  /\ UNCHANGED <<hostVars, mishaps>>
(* PASS is printed only after a clean-up without failures.                 *)
Report(r) ==
  /\ At(r, "report")
  /\ self' = [self EXCEPT ![r].at = "done",
                ![r].cleanup = IF self[r].bad THEN "failed" ELSE "passed",
                ![r].outcome = IF self[r].result /\ ~self[r].bad THEN "passed" ELSE "failed"]
  /\ UNCHANGED <<hostVars, mishaps>>

(* A signal between two steps of the cleanup ends it.                      *)
Interrupted(r) ==
  /\ self[r].at \in Cleaning
  /\ self' = [self EXCEPT ![r].at = "done", ![r].cleanup = "failed", ![r].outcome = "failed"]
  /\ Mishap("lost")
  /\ UNCHANGED hostVars

CleanupStep(r) ==
  \/ Rollback(r) \/ CleanGenerated(r) \/ CleanAttempt(r) \/ CleanRoot(r)
  \/ CleanContainer(r) \/ CleanEgress(r) \/ CleanScratch(r) \/ Report(r) \/ Interrupted(r)

-----------------------------------------------------------------------------
(* The host: docker, Vault, and what ends a process without its cleanup.   *)

(* A Vault that finds the port taken exits.                                *)
Listen(s) ==
  /\ box[s] = "starting"
  /\ box' = [box EXCEPT ![s] = IF \E t \in Runs : Up(t) THEN "exited" ELSE "listening"]
  /\ UNCHANGED <<self, image, flight, vault, scratch, rules, sink, mishaps>>
RestoreCompletes(s) ==
  /\ Up(s) /\ vault[s].data = "restoring"
  /\ vault' = [vault EXCEPT ![s] = [EmptyVault EXCEPT !.data = "restored"]]
  /\ UNCHANGED <<self, box, image, flight, scratch, rules, sink, mishaps>>
(* A request whose client has gone is carried out, if it still can be.     *)
Arrives(s) ==
  /\ flight[s] # "none"
  /\ flight' = [flight EXCEPT ![s] = "none"]
  /\ box' = [box EXCEPT ![s] = IF flight[s] = "create" THEN "created"
                               ELSE IF box[s] = "created" THEN "starting" ELSE @]
  /\ UNCHANGED <<self, image, vault, scratch, rules, sink, mishaps>>
VaultExits(s) ==
  /\ Running(s)
  /\ box' = [box EXCEPT ![s] = "exited"]
  /\ vault' = [vault EXCEPT ![s].attempt = Original, ![s].shares = 0]
  /\ Mishap("exit")
  /\ UNCHANGED <<self, image, flight, scratch, rules, sink>>

(* SIGKILL, or the SIGHUP of a session that ended: no handler is set.      *)
Kill(r) ==
  /\ self[r].at \notin {"begin", "done"}
  /\ self' = [self EXCEPT ![r].at = "done", ![r].outcome = "killed"]
  /\ Mishap("kill")
  /\ UNCHANGED hostVars
(* A reboot takes the processes and the firewall; no container restarts.   *)
Reboot ==
  /\ self' = [r \in Runs |-> IF At(r, "begin") \/ At(r, "done") THEN self[r]
                             ELSE [self[r] EXCEPT !.at = "done", !.outcome = "killed"]]
  /\ box' = [s \in Runs |-> IF Running(s) THEN "exited" ELSE box[s]]
  /\ flight' = [s \in Runs |-> "none"]
  /\ vault' = [s \in Runs |-> [vault[s] EXCEPT !.attempt = Original, !.shares = 0]]
  /\ rules' = [s \in Runs |-> [f \in Families |-> NoRule]]
  /\ Mishap("reboot")
  /\ UNCHANGED <<image, scratch, sink>>

Step(r) == BodyStep(r) \/ Fails(r) \/ CleanupStep(r)
Next ==
  \/ \E r \in Runs : Step(r) \/ Kill(r)
  \/ \E s \in Runs : Listen(s) \/ RestoreCompletes(s) \/ Arrives(s) \/ VaultExits(s)
  \/ Reboot

Spec == Init /\ [][Next]_vars

-----------------------------------------------------------------------------
(* Every variable has a value of its kind.                                 *)
Tokens == {Root(r) : r \in Runs} \cup {Generated(r) : r \in Runs}
Process ==
  [at : Body \cup Cleaning \cup {"rollback", "done"}, n : 1 .. Len(InstallSteps),
   container : BOOLEAN, egress : BOOLEAN, marks : SUBSET (Families \X {"chain", "jump"}),
   prior : Runs \cup {Original}, root : BOOLEAN, generated : BOOLEAN, started : BOOLEAN,
   result : BOOLEAN, bad : BOOLEAN, cleanup : {"not_started", "passed", "failed"},
   outcome : {"none", "passed", "failed", "killed"}]
VaultData ==
  [data : {"empty", "fresh", "restoring", "restored"}, tokens : SUBSET Tokens,
   attempt : Runs \cup {Original}, shares : 0 .. Quorum - 1]
TypeOK ==
  /\ self \in [Runs -> Process]
  /\ box \in [Runs -> {"absent", "created", "starting", "listening", "exited"}]
  /\ image \in [Runs -> {"old", "new"}]
  /\ flight \in [Runs -> {"none", "create", "start"}]
  /\ vault \in [Runs -> VaultData]
  /\ scratch \subseteq Runs
  /\ rules \in [Runs -> [Families -> [chain : {"none", "open", "closed"}, jump : BOOLEAN]]]
  /\ sink \in [Runs -> BOOLEAN]
  /\ mishaps \in Seq(Faults) /\ Len(mishaps) <= MaxMishaps

(* Fenced: the container has the host's network.  As long as it runs,       *)
(* whatever became of the program, its own two chains are complete and     *)
(* jumped to (docs/security/isolated-vault-recovery-ceremony.md: the rules *)
(* "remain installed until the owned Vault container is stopped"), and the *)
(* directories it has mounted are there.                                   *)
Fenced ==
  \A s \in Runs : Running(s) =>
    /\ \A f \in Families : rules[s][f] = [chain |-> "closed", jump |-> TRUE]
    /\ s \in scratch

(* CleanupIsTrue: when cleanup=passed is reported, no container is left, no *)
(* data, no jump into a chain, and no root generation this run began.      *)
CleanupIsTrue ==
  \A r \in Runs : self[r].cleanup = "passed" =>
    /\ box[r] = "absent" /\ r \notin scratch
    /\ \A f \in Families : ~rules[r][f].jump
    /\ \A s \in Runs : Up(s) => vault[s].attempt # r

(* PassMeansClean: PASS means that this run's generated root token is dead *)
(* wherever there is data, its first one in every Vault that answers, and  *)
(* that its clean-up passed.                                               *)
PassMeansClean ==
  \A r \in Runs : self[r].outcome = "passed" =>
    /\ self[r].cleanup = "passed"
    /\ \A s \in Runs : Generated(r) \notin vault[s].tokens
    /\ \A s \in Runs : Up(s) => Root(r) \notin vault[s].tokens

(* AcceptsOwnVault: two runs that overlap talk to one port, whoever        *)
(* answers.  Still, what a run accepts as restored, and then as upgraded,  *)
(* is its own container, unless a Vault has exited by itself: only there   *)
(* its sink hears of the reads it made with its own token.  A third run    *)
(* could make that Vault's records, so this is said of two runs only.      *)
Exited == \E i \in DOMAIN mishaps : mishaps[i] = "exit"
AcceptsOwnVault ==
  [][\A r \in Runs :
       LET Accepts(from, to) == At(r, from) /\ self'[r].at = to /\ ~Exited
           Own == vault[r].data = "restored" /\ Generated(r) \in vault[r].tokens
       IN /\ Accepts("delivered", "stop_old") => Own
          /\ Accepts("redelivered", "revoke") => Own /\ image[r] = "new"]_vars
=============================================================================
