----------------------- MODULE IsolatedRehearsal_proofs -----------------------
(***************************************************************************)
(* Proofs about IsolatedRehearsal, for any number of overlapping runs, any *)
(* quorum, and any number of faults of the kinds that are switched on.     *)
(***************************************************************************)
EXTENDS IsolatedRehearsal, SequenceTheorems, TLAPS

-----------------------------------------------------------------------------
(* The inductive invariant.                                                *)

(* Where no container has been asked for, and where the fence must stand.  *)
Unfenced == {"begin", "prepare", "check_host", "install", "rollback"}
Behind == Body \ Unfenced
Closed(s) == \A f \in Families : rules[s][f].chain = "closed" /\ rules[s][f].jump

(* A container runs, or may still be started by a request on its way, only *)
(* behind its own fence; the fence is complete before the first request,   *)
(* and a run that goes on knows of the container it may have started.      *)
Fence(r) ==
  /\ self[r].at \in Unfenced \cup {"start_old"} => ~self[r].container
  /\ self[r].at \in {"begin", "prepare", "check_host"} => self[r].n = 1
  /\ self[r].at \in {"prepare", "check_host", "install"} => r \in scratch
  /\ At(r, "install") =>
       /\ self[r].n >= 3 => rules[r]["ipv4"].chain = "closed"
       /\ self[r].n >= 4 => rules[r]["ipv4"].jump
       /\ self[r].n >= 6 => rules[r]["ipv6"].chain = "closed"
  /\ \/ self[r].at \in Behind
     \/ self[r].container /\ ~At(r, "done")
     \/ Running(r)
     \/ box[r] = "created" /\ flight[r] = "start"
     => Closed(r) /\ r \in scratch
  /\ box[r] # "absent" /\ ~At(r, "done") => self[r].container
  /\ flight[r] # "none" => self[r].at \in Cleaning \cup {"done"}
  /\ flight[r] = "create" => box[r] = "absent"
  /\ flight[r] = "create" /\ ~At(r, "done") => self[r].container
FenceInv == \A r \in Runs : Fence(r)

(* What the clean-up may say.                                              *)
NoJump(r) == \A f \in Families : ~rules[r][f].jump
Reports(r) ==
  /\ self[r].at \in Behind => self[r].egress
  /\ self[r].container /\ ~At(r, "done") =>
       self[r].egress \/ self[r].at \in {"clean_scratch", "report"}
  /\ self[r].at \in {"check_host", "install"} => self[r].egress
  /\ At(r, "install") =>
       /\ self[r].n >= 2 => <<"ipv4", "chain">> \in self[r].marks
       /\ self[r].n >= 5 => <<"ipv6", "chain">> \in self[r].marks
  /\ self[r].at \notin {"clean_scratch", "report", "done"} =>
       \A f \in Families : rules[r][f].jump => self[r].egress /\ <<f, "chain">> \in self[r].marks
  /\ self[r].at \in {"clean_scratch", "report"} /\ ~self[r].bad => ~self[r].container /\ NoJump(r)
  /\ At(r, "report") /\ ~self[r].bad => r \notin scratch
  /\ self[r].cleanup = "passed" =>
       /\ At(r, "done") /\ NoJump(r) /\ r \notin scratch
       /\ box[r] = "absent" /\ flight[r] # "create"
  /\ self[r].outcome = "passed" => self[r].cleanup = "passed" /\ self[r].result
CleanupInv == \A r \in Runs : Reports(r)

(* One Vault answers at a time, and only it has a root generation going.   *)
Idle(r) == \A s \in Runs : vault[s].attempt # r
Knows(r) ==
  /\ self[r].started \/ At(r, "done") \/ Idle(r)
  /\ self[r].at \in {"attempt", "share"} => self[r].started
  /\ At(r, "decode") => Idle(r)
  /\ self[r].at \in {"clean_root", "clean_container", "clean_egress", "clean_scratch", "report"} =>
       self[r].bad \/ Idle(r)
  /\ self[r].cleanup = "passed" => Idle(r)
AttemptInv ==
  /\ \A s, t \in Runs : Up(s) /\ Up(t) => s = t
  /\ \A s \in Runs : vault[s].attempt # Original => Healthy(s)
  /\ \A r \in Runs : Knows(r)

(* Where tokens can be, and what data a container can be started with.     *)
VaultOK(s) ==
  /\ vault[s].data = "empty" => vault[s].tokens = {}
  /\ vault[s].data = "restored" => \A r \in Runs : Root(r) \notin vault[s].tokens
  /\ box[s] \in {"created", "starting"} \/ flight[s] = "create" =>
       vault[s].data \in {"empty", "restored"}
  /\ self[s].at \in Unfenced \cup {"start_old"} => vault[s].data = "empty"
  /\ sink[s] /\ self[s].at \in Body => vault[s].data = "restored"
  /\ self[s].at \in {"stop_old", "start_new"} => vault[s].data = "restored"

(* A run's first root token lives no longer, in a Vault that answers, than *)
(* its own check that the restore has replaced that Vault.                 *)
RootOK(r, s) ==
  Up(s) /\ Root(r) \in vault[s].tokens =>
    /\ self[r].at \in {"fresh", "restore", "restored", "done"} \cup Cleaning
    /\ self[r].at \in {"restore", "restored"} => self[r].prior = s
    /\ ~self[r].result

(* Its generated one exists once, after the shares and before its refusal. *)
Early == Unfenced \cup
  {"start_old", "reach", "init", "fresh", "restore", "restored", "announce", "attempt", "share"}
NotMinted(r) == \A s \in Runs : Generated(r) \notin vault[s].tokens
MintedOnce == \A r, s, t \in Runs :
  Generated(r) \in vault[s].tokens /\ Generated(r) \in vault[t].tokens => s = t
Minted(r) ==
  /\ self[r].at \in Early \cup {"denied"} => NotMinted(r)
  /\ self[r].result => NotMinted(r) /\ self[r].at \in Cleaning \cup {"done"}

TokenInv ==
  /\ \A s \in Runs : VaultOK(s)
  /\ \A r, s \in Runs : RootOK(r, s)
  /\ MintedOnce
  /\ \A r \in Runs : Minted(r)

IndInv == TypeOK /\ FenceInv /\ CleanupInv /\ AttemptInv /\ TokenInv
-----------------------------------------------------------------------------
(* How one step changes what its run knows.                                *)
Becomes(r, process) == self' = [self EXCEPT ![r] = process]
Raised(p, q) ==
  /\ q.at \in {"done", "rollback", "clean_generated"}
  /\ q.at = "done" <=> p.at = "begin"
  /\ q.at = "rollback" => p.at = "install"
  /\ q.container = p.container /\ q.egress = p.egress /\ q.marks = p.marks
  /\ q.started = p.started /\ q.result = p.result /\ q.bad = p.bad /\ q.cleanup = p.cleanup
  /\ q.outcome = IF q.at = "done" THEN "failed" ELSE p.outcome
MishapsOK == mishaps \in Seq(Faults) /\ Len(mishaps) <= MaxMishaps

(* The count of what went wrong never exceeds its bound.                   *)
LEMMA MishapType ==
  ASSUME TypeOK, UNCHANGED mishaps \/ \E fault \in {"lost", "kill", "reboot", "exit"} : Mishap(fault)
  PROVE  MishapsOK'
<1>1. MishapsOK /\ MaxMishaps \in Nat
  BY RehearsalAssumption DEF TypeOK, MishapsOK
<1>2. CASE UNCHANGED mishaps
  BY <1>1, <1>2 DEF MishapsOK
<1>3. CASE \E fault \in {"lost", "kill", "reboot", "exit"} : Mishap(fault)
  <2>1. PICK fault \in Faults : Len(mishaps) < MaxMishaps /\ mishaps' = Append(mishaps, fault)
    BY <1>3 DEF Mishap
  <2>2. mishaps' \in Seq(Faults) /\ Len(mishaps') = Len(mishaps) + 1 /\ Len(mishaps) \in Nat
    BY <1>1, <2>1, AppendProperties, LenProperties DEF MishapsOK
  <2> QED
    BY <1>1, <2>1, <2>2 DEF MishapsOK
<1> QED
  BY <1>2, <1>3

LEMMA ProcessAt ==
  ASSUME NEW p \in Process, NEW at \in Body \cup Cleaning \cup {"rollback", "done"}
  PROVE  [p EXCEPT !.at = at] \in Process
BY DEF Process

LEMMA ProcessRaise ==
  ASSUME NEW p \in Process, NEW at \in {"done", "rollback", "clean_generated"},
         NEW outcome \in {"none", "passed", "failed", "killed"}
  PROVE  [p EXCEPT !.at = at, !.n = 1, !.outcome = outcome] \in Process
<1>1. at \in Body \cup Cleaning \cup {"rollback", "done"} /\ 1 \in 1 .. Len(InstallSteps)
  BY DEF Cleaning, InstallSteps
<1> QED
  BY <1>1 DEF Process

(* A step that raises changes where its run is, and no more that matters.  *)
LEMMA RaiseEffect ==
  ASSUME TypeOK, NEW r \in Runs, Raise(r)
  PROVE  \E q \in Process : Raised(self[r], q) /\ Becomes(r, q)
<1>1. PICK next \in Handlers(r) :
         self' = [self EXCEPT ![r] = [self[r] EXCEPT !.at = next, !.n = 1,
                                        !.outcome = Outcome(self[r], next)]]
  BY DEF Raise
<1> DEFINE q == [self[r] EXCEPT !.at = next, !.n = 1, !.outcome = Outcome(self[r], next)]
<1>2. self[r] \in Process
  BY DEF TypeOK
<1>3. /\ next \in {"done", "rollback", "clean_generated"}
      /\ next = "done" <=> self[r].at = "begin"
      /\ next = "rollback" => self[r].at = "install"
  BY <1>1, <1>2 DEF Handlers, At
<1>4. /\ Outcome(self[r], next) \in {"none", "passed", "failed", "killed"}
      /\ Outcome(self[r], next) = IF next = "done" THEN "failed" ELSE self[r].outcome
  BY <1>2 DEF Outcome, Process
<1>5. q \in Process
  BY <1>2, <1>3, <1>4, ProcessRaise
<1>6. Raised(self[r], q)
  BY <1>2, <1>3, <1>4 DEF Raised, Process
<1>7. Becomes(r, q)
  BY <1>1 DEF Becomes
<1> QED
  BY <1>5, <1>6, <1>7

LEMMA GoesEffect ==
  ASSUME TypeOK, NEW r \in Runs, NEW p \in Process, Goes(r, p)
  PROVE  /\ \E q \in Process : (q = p \/ Raised(self[r], q)) /\ Becomes(r, q)
         /\ MishapsOK'
BY RaiseEffect, MishapType DEF Goes, Becomes

LEMMA GoesToEffect ==
  ASSUME TypeOK, NEW r \in Runs, NEW at \in Body, GoesTo(r, at)
  PROVE  /\ \E q \in Process :
              (q = [self[r] EXCEPT !.at = at] \/ Raised(self[r], q)) /\ Becomes(r, q)
         /\ MishapsOK'
<1>1. self[r] \in Process
  BY DEF TypeOK
<1>2. [self[r] EXCEPT !.at = at] \in Process
  BY <1>1, ProcessAt
<1> QED
  BY <1>2, GoesEffect DEF GoesTo

(* The steps before the fence.                                             *)
Begins(r) ==
  /\ UNCHANGED <<box, image, flight, vault, rules, sink>> /\ MishapsOK'
  /\ scratch' = IF self[r].at = "begin" THEN scratch \cup {r} ELSE scratch
  /\ \E q \in Process :
       /\ Becomes(r, q)
       /\ q.container = self[r].container /\ q.marks = self[r].marks
       /\ q.started = self[r].started /\ q.result = self[r].result /\ q.bad = self[r].bad
       /\ q.cleanup = self[r].cleanup
       /\ \/ Raised(self[r], q)
          \/ /\ q.n = self[r].n /\ q.outcome = self[r].outcome
             /\ \/ self[r].at = "begin" /\ q.at = "prepare" /\ q.egress = self[r].egress
                \/ self[r].at = "prepare" /\ q.at = "check_host" /\ q.egress
                \/ self[r].at = "check_host" /\ q.at = "install" /\ q.egress = self[r].egress

LEMMA BeginEffect ==
  ASSUME TypeOK, NEW r \in Runs, Begin(r) \/ Prepare(r) \/ CheckHost(r)
  PROVE  Begins(r) /\ self[r].at \in {"begin", "prepare", "check_host"}
<1>1. self[r] \in Process
  BY DEF TypeOK
<1>2. ASSUME NEW at \in {"prepare", "install"}, GoesTo(r, at),
             IF at = "prepare" THEN self[r].at = "begin" ELSE self[r].at = "check_host",
             UNCHANGED <<box, image, flight, vault, rules, sink>>,
             scratch' = IF self[r].at = "begin" THEN scratch \cup {r} ELSE scratch
      PROVE  Begins(r) /\ self[r].at \in {"begin", "prepare", "check_host"}
  <2> DEFINE p == [self[r] EXCEPT !.at = at]
  <2>1. /\ p.at = at /\ p.n = self[r].n /\ p.container = self[r].container
        /\ p.egress = self[r].egress /\ p.marks = self[r].marks /\ p.started = self[r].started
        /\ p.result = self[r].result /\ p.bad = self[r].bad /\ p.cleanup = self[r].cleanup
        /\ p.outcome = self[r].outcome
    BY <1>1 DEF Process
  <2>2. MishapsOK' /\ \E q \in Process : (q = p \/ Raised(self[r], q)) /\ Becomes(r, q)
    BY <1>2, GoesToEffect DEF Body
  <2> HIDE DEF p
  <2> QED
    BY <1>2, <2>1, <2>2 DEF Begins, Raised
<1>3. CASE Begin(r)
  BY <1>2, <1>3 DEF Begin, At
<1>4. CASE CheckHost(r)
  BY <1>2, <1>4 DEF CheckHost, At, hostVars
<1>5. CASE Prepare(r)
  <2> DEFINE p == [self[r] EXCEPT !.at = "check_host", !.egress = TRUE]
  <2>1. /\ p.at = "check_host" /\ p.n = self[r].n /\ p.container = self[r].container
        /\ p.egress /\ p.marks = self[r].marks /\ p.started = self[r].started
        /\ p.result = self[r].result /\ p.bad = self[r].bad /\ p.cleanup = self[r].cleanup
        /\ p.outcome = self[r].outcome /\ p \in Process
    BY <1>1 DEF Process, Body
  <2>2. Goes(r, p) /\ self[r].at = "prepare" /\ UNCHANGED hostVars
    BY <1>5 DEF Prepare, At
  <2> HIDE DEF p
  <2>3. MishapsOK' /\ \E q \in Process : (q = p \/ Raised(self[r], q)) /\ Becomes(r, q)
    BY <2>1, <2>2, GoesEffect
  <2> QED
    BY <2>1, <2>2, <2>3 DEF Begins, Raised, hostVars
<1> QED
  BY <1>3, <1>4, <1>5

LEMMA FailEffect ==
  ASSUME TypeOK, NEW r \in Runs, Fails(r)
  PROVE  /\ self[r].at \in Body /\ UNCHANGED hostVars /\ MishapsOK'
         /\ \E q \in Process : Raised(self[r], q) /\ Becomes(r, q)
BY RaiseEffect, MishapType DEF Fails

(* The conversation with Vault touches neither container nor fence.        *)
Talks(r) ==
  /\ self[r].at \in Behind
  /\ UNCHANGED <<box, image, flight, scratch, rules>>
  /\ \E q \in Process :
       /\ Becomes(r, q)
       /\ q.at \in Behind \cup {"clean_generated"}
       /\ q.container = self[r].container /\ q.egress = self[r].egress
       /\ q.marks = self[r].marks /\ q.bad = self[r].bad
       /\ q.cleanup = self[r].cleanup /\ q.outcome = self[r].outcome
       /\ q.result = self[r].result \/ q.at = "clean_generated"
  /\ MishapsOK'
TalkStep(r) ==
  \/ Reach(r) \/ Initialize(r) \/ Fresh(r) \/ Restore(r) \/ Restored(r) \/ Announce(r)
  \/ Attempt(r) \/ Share(r) \/ Decode(r) \/ Inspect(r) \/ Delivered(r) \/ Upgraded(r)
  \/ Compare(r) \/ Redelivered(r) \/ Revoke(r) \/ Denied(r)

LEMMA TalkEffect ==
  ASSUME TypeOK, NEW r \in Runs, TalkStep(r)
  PROVE  Talks(r)
<1>1. self[r] \in Process
  BY DEF TypeOK
<1>2. ASSUME NEW p \in Process, Goes(r, p), self[r].at \in Behind,
             UNCHANGED <<box, image, flight, scratch, rules>>,
             p.at \in Behind \cup {"clean_generated"},
             p.container = self[r].container, p.egress = self[r].egress,
             p.marks = self[r].marks, p.bad = self[r].bad,
             p.cleanup = self[r].cleanup, p.outcome = self[r].outcome,
             p.result = self[r].result \/ p.at = "clean_generated"
      PROVE  Talks(r)
  BY <1>2, GoesEffect DEF Raised, Talks, Behind, Body, Unfenced
<1>3. ASSUME NEW at \in Behind, GoesTo(r, at), self[r].at \in Behind,
             UNCHANGED <<box, image, flight, scratch, rules>>
      PROVE  Talks(r)
  <2> DEFINE p == [self[r] EXCEPT !.at = at]
  <2>1. p \in Process /\ Goes(r, p)
    BY <1>1, <1>3, ProcessAt DEF GoesTo, Behind
  <2>2. /\ p.at = at /\ p.container = self[r].container /\ p.egress = self[r].egress
        /\ p.marks = self[r].marks /\ p.bad = self[r].bad /\ p.cleanup = self[r].cleanup
        /\ p.outcome = self[r].outcome /\ p.result = self[r].result
    BY <1>1 DEF Process
  <2> QED
    BY <1>2, <1>3, <2>1, <2>2
<1> USE DEF Behind, Body, Unfenced, At
<1>4. CASE Reach(r)
  BY <1>3, <1>4 DEF Reach, hostVars
<1>5. CASE Initialize(r)
  <2> DEFINE p == [self[r] EXCEPT !.root = TRUE, !.at = "fresh"]
  <2>1. /\ p \in Process /\ p.at = "fresh"
        /\ p.container = self[r].container /\ p.egress = self[r].egress
        /\ p.marks = self[r].marks /\ p.bad = self[r].bad /\ p.cleanup = self[r].cleanup
        /\ p.outcome = self[r].outcome /\ p.result = self[r].result
    BY <1>1 DEF Process
  <2>2. Goes(r, p) /\ self[r].at = "init" /\ UNCHANGED <<box, image, flight, scratch, rules>>
    BY <1>5 DEF Initialize
  <2> QED
    BY <1>2, <2>1, <2>2
<1>6. CASE Fresh(r)
  <2>1. PICK s \in Runs : Goes(r, [self[r] EXCEPT !.prior = Cluster(s), !.at = "restore"])
    BY <1>6 DEF Fresh
  <2> DEFINE p == [self[r] EXCEPT !.prior = Cluster(s), !.at = "restore"]
  <2>2. /\ p \in Process /\ p.at = "restore"
        /\ p.container = self[r].container /\ p.egress = self[r].egress
        /\ p.marks = self[r].marks /\ p.bad = self[r].bad /\ p.cleanup = self[r].cleanup
        /\ p.outcome = self[r].outcome /\ p.result = self[r].result
    BY <1>1 DEF Process, Cluster
  <2>3. self[r].at = "fresh" /\ UNCHANGED <<box, image, flight, scratch, rules>>
    BY <1>6 DEF Fresh, hostVars
  <2> QED
    BY <1>2, <2>1, <2>2, <2>3
<1>7. CASE Restore(r)
  BY <1>3, <1>7 DEF Restore
<1>8. CASE Restored(r)
  <2> DEFINE p == [self[r] EXCEPT !.root = FALSE, !.at = "announce"]
  <2>1. /\ p \in Process /\ p.at = "announce"
        /\ p.container = self[r].container /\ p.egress = self[r].egress
        /\ p.marks = self[r].marks /\ p.bad = self[r].bad /\ p.cleanup = self[r].cleanup
        /\ p.outcome = self[r].outcome /\ p.result = self[r].result
    BY <1>1 DEF Process
  <2>2. Goes(r, p) /\ self[r].at = "restored" /\ UNCHANGED <<box, image, flight, scratch, rules>>
    BY <1>8 DEF Restored, hostVars
  <2> QED
    BY <1>2, <2>1, <2>2
<1>9. CASE Announce(r)
  <2> DEFINE p == [self[r] EXCEPT !.started = TRUE, !.at = "attempt"]
  <2>1. /\ p \in Process /\ p.at = "attempt"
        /\ p.container = self[r].container /\ p.egress = self[r].egress
        /\ p.marks = self[r].marks /\ p.bad = self[r].bad /\ p.cleanup = self[r].cleanup
        /\ p.outcome = self[r].outcome /\ p.result = self[r].result
    BY <1>1 DEF Process
  <2>2. Goes(r, p) /\ self[r].at = "announce" /\ UNCHANGED <<box, image, flight, scratch, rules>>
    BY <1>9 DEF Announce, hostVars
  <2> QED
    BY <1>2, <2>1, <2>2
<1>10. CASE Attempt(r)
  BY <1>3, <1>10 DEF Attempt
<1>11. CASE Share(r)
  <2>1. \E at \in {"decode", "share"} : GoesTo(r, at)
    BY <1>11 DEF Share
  <2> QED
    BY <1>3, <1>11, <2>1 DEF Share
<1>12. CASE Decode(r)
  <2> DEFINE p == [self[r] EXCEPT !.generated = TRUE, !.started = FALSE, !.at = "inspect"]
  <2>1. /\ p \in Process /\ p.at = "inspect"
        /\ p.container = self[r].container /\ p.egress = self[r].egress
        /\ p.marks = self[r].marks /\ p.bad = self[r].bad /\ p.cleanup = self[r].cleanup
        /\ p.outcome = self[r].outcome /\ p.result = self[r].result
    BY <1>1 DEF Process
  <2>2. Goes(r, p) /\ self[r].at = "decode" /\ UNCHANGED <<box, image, flight, scratch, rules>>
    BY <1>12 DEF Decode, hostVars
  <2> QED
    BY <1>2, <2>1, <2>2
<1>13. CASE Inspect(r) \/ Compare(r)
  BY <1>3, <1>13 DEF Inspect, Compare, Reads
<1>14. CASE Delivered(r) \/ Redelivered(r)
  BY <1>3, <1>14 DEF Delivered, Redelivered, HeardThen
<1>15. CASE Upgraded(r)
  BY <1>3, <1>15 DEF Upgraded, hostVars
<1>16. CASE Revoke(r)
  BY <1>3, <1>16 DEF Revoke
<1>17. CASE Denied(r)
  <2> DEFINE p == [self[r] EXCEPT !.generated = FALSE, !.result = TRUE, !.at = "clean_generated"]
  <2>1. /\ p \in Process /\ p.at = "clean_generated"
        /\ p.container = self[r].container /\ p.egress = self[r].egress
        /\ p.marks = self[r].marks /\ p.bad = self[r].bad /\ p.cleanup = self[r].cleanup
        /\ p.outcome = self[r].outcome
    BY <1>1 DEF Process, Cleaning
  <2>2. Goes(r, p) /\ self[r].at = "denied" /\ UNCHANGED <<box, image, flight, scratch, rules>>
    BY <1>17 DEF Denied, hostVars
  <2> QED
    BY <1>2, <2>1, <2>2
<1> QED
  BY <1>4, <1>5, <1>6, <1>7, <1>8, <1>9, <1>10, <1>11, <1>12, <1>13, <1>14, <1>15, <1>16, <1>17
     DEF TalkStep

(* Where the conversation leads, step by step.                             *)
Moved(r, q) ==
  /\ \/ Reach(r) /\ self[r].at = "reach" /\ q.at = "init"
     \/ Initialize(r) /\ self[r].at = "init" /\ q.at = "fresh"
     \/ /\ Fresh(r) /\ self[r].at = "fresh" /\ q.at = "restore"
        /\ \E s \in Runs : Healthy(s) /\ q.prior = Cluster(s)
     \/ Restore(r) /\ self[r].at = "restore" /\ q.at = "restored" /\ q.prior = self[r].prior
     \/ Restored(r) /\ self[r].at = "restored" /\ q.at = "announce"
     \/ Announce(r) /\ self[r].at = "announce" /\ q.at = "attempt"
     \/ Attempt(r) /\ self[r].at = "attempt" /\ q.at = "share"
     \/ Share(r) /\ self[r].at = "share" /\ q.at \in {"share", "decode"}
     \/ Decode(r) /\ self[r].at = "decode" /\ q.at = "inspect"
     \/ Inspect(r) /\ self[r].at = "inspect" /\ q.at = "delivered"
     \/ Delivered(r) /\ self[r].at = "delivered" /\ q.at = "stop_old"
     \/ Upgraded(r) /\ self[r].at = "upgraded" /\ q.at = "compare"
     \/ Compare(r) /\ self[r].at = "compare" /\ q.at = "redelivered"
     \/ Redelivered(r) /\ self[r].at = "redelivered" /\ q.at = "revoke"
     \/ Revoke(r) /\ self[r].at = "revoke" /\ q.at = "denied"
     \/ Denied(r) /\ self[r].at = "denied" /\ q.at = "clean_generated"
  /\ self[r].at = "announce" => q.started
  /\ self[r].at \notin {"announce", "decode"} => q.started = self[r].started
  /\ self[r].at # "denied" => q.result = self[r].result
  /\ q.cleanup = self[r].cleanup

LEMMA TalkMoves ==
  ASSUME TypeOK, NEW r \in Runs, TalkStep(r)
  PROVE  /\ \E q \in Process : Becomes(r, q) /\ (Raised(self[r], q) \/ Moved(r, q))
         /\ self[r].at \notin {"begin", "done", "install"}
<1>1. self[r] \in Process
  BY DEF TypeOK
<1> DEFINE Goal == /\ \E q \in Process : Becomes(r, q) /\ (Raised(self[r], q) \/ Moved(r, q))
                   /\ self[r].at \notin {"begin", "done", "install"}
<1>2. ASSUME NEW p \in Process, Goes(r, p), Moved(r, p), self[r].at \notin {"begin", "done", "install"}
      PROVE  Goal
  BY <1>2, GoesEffect
<1>3. ASSUME NEW at \in Body, GoesTo(r, at)
      PROVE  /\ Goes(r, [self[r] EXCEPT !.at = at])
             /\ [self[r] EXCEPT !.at = at] \in Process
             /\ [self[r] EXCEPT !.at = at].at = at
             /\ [self[r] EXCEPT !.at = at].started = self[r].started
             /\ [self[r] EXCEPT !.at = at].result = self[r].result
             /\ [self[r] EXCEPT !.at = at].prior = self[r].prior
             /\ [self[r] EXCEPT !.at = at].cleanup = self[r].cleanup
  BY <1>1, <1>3, ProcessAt DEF GoesTo, Process
<1> HIDE DEF Goal
<1>4. CASE Reach(r)
  <2>1. GoesTo(r, "init") /\ self[r].at = "reach"
    BY <1>4 DEF Reach, At
  <2>2. "init" \in Body
    BY DEF Body
  <2> DEFINE p == [self[r] EXCEPT !.at = "init"]
  <2>3. p \in Process /\ Goes(r, p) /\ Moved(r, p)
    BY <1>3, <1>4, <2>1, <2>2 DEF Moved
  <2> QED
    BY <1>2, <2>1, <2>3 DEF Goal
<1>5. CASE Restore(r)
  <2>1. GoesTo(r, "restored") /\ self[r].at = "restore"
    BY <1>5 DEF Restore, At
  <2>2. "restored" \in Body
    BY DEF Body
  <2> DEFINE p == [self[r] EXCEPT !.at = "restored"]
  <2>3. p \in Process /\ Goes(r, p) /\ Moved(r, p)
    BY <1>3, <1>5, <2>1, <2>2 DEF Moved
  <2> QED
    BY <1>2, <2>1, <2>3 DEF Goal
<1>6. CASE Attempt(r)
  <2>1. GoesTo(r, "share") /\ self[r].at = "attempt"
    BY <1>6 DEF Attempt, At
  <2>2. "share" \in Body
    BY DEF Body
  <2> DEFINE p == [self[r] EXCEPT !.at = "share"]
  <2>3. p \in Process /\ Goes(r, p) /\ Moved(r, p)
    BY <1>3, <1>6, <2>1, <2>2 DEF Moved
  <2> QED
    BY <1>2, <2>1, <2>3 DEF Goal
<1>7. CASE Inspect(r)
  <2>1. GoesTo(r, "delivered") /\ self[r].at = "inspect"
    BY <1>7 DEF Inspect, At
  <2>2. "delivered" \in Body
    BY DEF Body
  <2> DEFINE p == [self[r] EXCEPT !.at = "delivered"]
  <2>3. p \in Process /\ Goes(r, p) /\ Moved(r, p)
    BY <1>3, <1>7, <2>1, <2>2 DEF Moved
  <2> QED
    BY <1>2, <2>1, <2>3 DEF Goal
<1>8. CASE Delivered(r)
  <2>1. GoesTo(r, "stop_old") /\ self[r].at = "delivered"
    BY <1>8 DEF Delivered, At, HeardThen
  <2>2. "stop_old" \in Body
    BY DEF Body
  <2> DEFINE p == [self[r] EXCEPT !.at = "stop_old"]
  <2>3. p \in Process /\ Goes(r, p) /\ Moved(r, p)
    BY <1>3, <1>8, <2>1, <2>2 DEF Moved
  <2> QED
    BY <1>2, <2>1, <2>3 DEF Goal
<1>9. CASE Upgraded(r)
  <2>1. GoesTo(r, "compare") /\ self[r].at = "upgraded"
    BY <1>9 DEF Upgraded, At
  <2>2. "compare" \in Body
    BY DEF Body
  <2> DEFINE p == [self[r] EXCEPT !.at = "compare"]
  <2>3. p \in Process /\ Goes(r, p) /\ Moved(r, p)
    BY <1>3, <1>9, <2>1, <2>2 DEF Moved
  <2> QED
    BY <1>2, <2>1, <2>3 DEF Goal
<1>10. CASE Compare(r)
  <2>1. GoesTo(r, "redelivered") /\ self[r].at = "compare"
    BY <1>10 DEF Compare, At
  <2>2. "redelivered" \in Body
    BY DEF Body
  <2> DEFINE p == [self[r] EXCEPT !.at = "redelivered"]
  <2>3. p \in Process /\ Goes(r, p) /\ Moved(r, p)
    BY <1>3, <1>10, <2>1, <2>2 DEF Moved
  <2> QED
    BY <1>2, <2>1, <2>3 DEF Goal
<1>11. CASE Redelivered(r)
  <2>1. GoesTo(r, "revoke") /\ self[r].at = "redelivered"
    BY <1>11 DEF Redelivered, At, HeardThen
  <2>2. "revoke" \in Body
    BY DEF Body
  <2> DEFINE p == [self[r] EXCEPT !.at = "revoke"]
  <2>3. p \in Process /\ Goes(r, p) /\ Moved(r, p)
    BY <1>3, <1>11, <2>1, <2>2 DEF Moved
  <2> QED
    BY <1>2, <2>1, <2>3 DEF Goal
<1>12. CASE Revoke(r)
  <2>1. GoesTo(r, "denied") /\ self[r].at = "revoke"
    BY <1>12 DEF Revoke, At
  <2>2. "denied" \in Body
    BY DEF Body
  <2> DEFINE p == [self[r] EXCEPT !.at = "denied"]
  <2>3. p \in Process /\ Goes(r, p) /\ Moved(r, p)
    BY <1>3, <1>12, <2>1, <2>2 DEF Moved
  <2> QED
    BY <1>2, <2>1, <2>3 DEF Goal
<1>13. CASE Share(r)
  <2>1. PICK at \in {"share", "decode"} : GoesTo(r, at)
    BY <1>13 DEF Share
  <2>2. at \in Body /\ self[r].at = "share"
    BY <1>13 DEF Body, Share, At
  <2> DEFINE p == [self[r] EXCEPT !.at = at]
  <2>3. p \in Process /\ Goes(r, p) /\ Moved(r, p)
    BY <1>3, <1>13, <2>1, <2>2 DEF Moved
  <2> QED
    BY <1>2, <2>2, <2>3 DEF Goal
<1>14. CASE Initialize(r)
  <2> DEFINE p == [self[r] EXCEPT !.root = TRUE, !.at = "fresh"]
  <2>1. /\ p \in Process /\ p.at = "fresh" /\ p.cleanup = self[r].cleanup
        /\ p.started = self[r].started /\ p.result = self[r].result
    BY <1>1 DEF Process, Body
  <2>2. Goes(r, p) /\ self[r].at = "init"
    BY <1>14 DEF Initialize, At
  <2> HIDE DEF p
  <2>3. Moved(r, p)
    BY <1>14, <2>1, <2>2 DEF Moved
  <2> QED
    BY <1>2, <2>1, <2>2, <2>3 DEF Goal
<1>15. CASE Restored(r)
  <2> DEFINE p == [self[r] EXCEPT !.root = FALSE, !.at = "announce"]
  <2>1. /\ p \in Process /\ p.at = "announce" /\ p.cleanup = self[r].cleanup
        /\ p.started = self[r].started /\ p.result = self[r].result
    BY <1>1 DEF Process, Body
  <2>2. Goes(r, p) /\ self[r].at = "restored"
    BY <1>15 DEF Restored, At
  <2> HIDE DEF p
  <2>3. Moved(r, p)
    BY <1>15, <2>1, <2>2 DEF Moved
  <2> QED
    BY <1>2, <2>1, <2>2, <2>3 DEF Goal
<1>16. CASE Announce(r)
  <2> DEFINE p == [self[r] EXCEPT !.started = TRUE, !.at = "attempt"]
  <2>1. /\ p \in Process /\ p.at = "attempt" /\ p.cleanup = self[r].cleanup
        /\ p.started /\ p.result = self[r].result
    BY <1>1 DEF Process, Body
  <2>2. Goes(r, p) /\ self[r].at = "announce"
    BY <1>16 DEF Announce, At
  <2> HIDE DEF p
  <2>3. Moved(r, p)
    BY <1>16, <2>1, <2>2 DEF Moved
  <2> QED
    BY <1>2, <2>1, <2>2, <2>3 DEF Goal
<1>17. CASE Decode(r)
  <2> DEFINE p == [self[r] EXCEPT !.generated = TRUE, !.started = FALSE, !.at = "inspect"]
  <2>1. /\ p \in Process /\ p.at = "inspect" /\ p.cleanup = self[r].cleanup
        /\ p.result = self[r].result
    BY <1>1 DEF Process, Body
  <2>2. Goes(r, p) /\ self[r].at = "decode"
    BY <1>17 DEF Decode, At
  <2> HIDE DEF p
  <2>3. Moved(r, p)
    BY <1>17, <2>1, <2>2 DEF Moved
  <2> QED
    BY <1>2, <2>1, <2>2, <2>3 DEF Goal
<1>18. CASE Denied(r)
  <2> DEFINE p == [self[r] EXCEPT !.generated = FALSE, !.result = TRUE, !.at = "clean_generated"]
  <2>1. /\ p \in Process /\ p.at = "clean_generated" /\ p.cleanup = self[r].cleanup
        /\ p.started = self[r].started
    BY <1>1 DEF Process, Cleaning
  <2>2. Goes(r, p) /\ self[r].at = "denied"
    BY <1>18 DEF Denied, At
  <2> HIDE DEF p
  <2>3. Moved(r, p)
    BY <1>18, <2>1, <2>2 DEF Moved
  <2> QED
    BY <1>2, <2>1, <2>2, <2>3 DEF Goal
<1>19. CASE Fresh(r)
  <2>1. PICK s \in Runs : Healthy(s) /\ Goes(r, [self[r] EXCEPT !.prior = Cluster(s), !.at = "restore"])
    BY <1>19 DEF Fresh
  <2> DEFINE p == [self[r] EXCEPT !.prior = Cluster(s), !.at = "restore"]
  <2>2. Cluster(s) \in Runs \cup {Original}
    BY DEF Cluster
  <2>3. /\ p \in Process /\ p.at = "restore" /\ p.prior = Cluster(s)
        /\ p.started = self[r].started /\ p.result = self[r].result /\ p.cleanup = self[r].cleanup
    BY <1>1, <2>2 DEF Process, Body
  <2>4. Goes(r, p) /\ self[r].at = "fresh"
    BY <1>19, <2>1 DEF Fresh, At
  <2> HIDE DEF p
  <2>5. Moved(r, p)
    BY <1>19, <2>1, <2>3, <2>4 DEF Moved
  <2> QED
    BY <1>2, <2>3, <2>4, <2>5 DEF Goal
<1> QED
  BY <1>4, <1>5, <1>6, <1>7, <1>8, <1>9, <1>10, <1>11, <1>12,
     <1>13, <1>14, <1>15, <1>16, <1>17, <1>18, <1>19 DEF TalkStep, Goal

(* A step of the clean-up notes its failure and goes on.                   *)
Same(p, q) ==
  /\ q.container = p.container /\ q.egress = p.egress /\ q.marks = p.marks
  /\ q.started = p.started /\ q.result = p.result
  /\ q.cleanup = p.cleanup /\ q.outcome = p.outcome

LEMMA CleansEffect ==
  ASSUME TypeOK, NEW r \in Runs, NEW p \in Process, NEW next \in Cleaning, NEW failed \in BOOLEAN,
         Cleans(r, next, p, failed)
  PROVE  \E q \in Process : /\ Becomes(r, q) /\ q.at = next /\ Same(p, q)
                            /\ q.bad = (p.bad \/ failed)
<1> DEFINE q == [p EXCEPT !.at = next, !.bad = p.bad \/ failed]
<1>1. (p.bad \/ failed) \in BOOLEAN
  BY DEF Process
<1>2. q \in Process
  BY <1>1 DEF Process
<1>3. q.at = next /\ Same(p, q) /\ q.bad = (p.bad \/ failed)
  BY DEF Process, Same
<1>4. Becomes(r, q)
  BY DEF Cleans, Becomes
<1> QED
  BY <1>2, <1>3, <1>4

(* The three requests of the clean-up: they touch a Vault's data at most.  *)
Asked(r) ==
  /\ self[r].at \in {"clean_generated", "clean_attempt", "clean_root"}
  /\ UNCHANGED <<box, image, flight, scratch, rules, sink>>
  /\ \E q \in Process :
       /\ Becomes(r, q)
       /\ q.at \in {"clean_attempt", "clean_root", "clean_container"}
       /\ Same(self[r], q) /\ (self[r].bad => q.bad)
  /\ MishapsOK'

LEMMA AskEffect ==
  ASSUME TypeOK, NEW r \in Runs, CleanGenerated(r) \/ CleanAttempt(r) \/ CleanRoot(r)
  PROVE  Asked(r)
<1> DEFINE Nexts == {"clean_attempt", "clean_root", "clean_container"}
<1>1. self[r] \in Process
  BY DEF TypeOK
<1>2. ASSUME NEW p \in {self[r], [self[r] EXCEPT !.generated = FALSE], [self[r] EXCEPT !.root = FALSE]},
             NEW next \in Nexts, NEW failed \in BOOLEAN, Cleans(r, next, p, failed)
      PROVE  \E q \in Process : /\ Becomes(r, q) /\ q.at \in Nexts /\ Same(self[r], q)
                                /\ (self[r].bad => q.bad)
  <2>1. p \in Process /\ Same(self[r], p) /\ p.bad = self[r].bad
    BY <1>1 DEF Process, Same
  <2>2. PICK q \in Process : /\ Becomes(r, q) /\ q.at = next /\ Same(p, q)
                             /\ q.bad = (p.bad \/ failed)
    <3>1. next \in Cleaning
      BY DEF Cleaning
    <3> QED
      BY <1>2, <2>1, <3>1, CleansEffect
  <2> QED
    BY <2>1, <2>2 DEF Same
<1>3. /\ \E p \in {self[r], [self[r] EXCEPT !.generated = FALSE], [self[r] EXCEPT !.root = FALSE]},
            next \in Nexts, failed \in BOOLEAN : Cleans(r, next, p, failed)
      /\ UNCHANGED mishaps \/ Mishap("lost")
      /\ UNCHANGED <<box, image, flight, scratch, rules, sink>>
      /\ self[r].at \in {"clean_generated", "clean_attempt", "clean_root"}
  BY DEF CleanGenerated, CleanAttempt, CleanRoot, Asks, At, hostVars
<1> QED
  BY <1>2, <1>3, MishapType DEF Asked

(* Taking the fence down: a close that does not fail leaves no jump of a   *)
(* marked chain, and no close adds one.                                    *)
Closes(r, p, noted) ==
  \E failed \in BOOLEAN, q \in Process :
    /\ Becomes(r, q)
    /\ q.at = p.at /\ q.container = p.container /\ q.egress = p.egress
    /\ q.started = p.started /\ q.result = p.result
    /\ q.cleanup = p.cleanup /\ q.outcome = p.outcome
    /\ q.marks = IF failed THEN p.marks ELSE {}
    /\ q.bad = (p.bad \/ (noted /\ failed))
    /\ \A f \in Families : rules'[r][f].jump =>
         /\ rules[r][f].jump
         /\ ~failed => <<f, "chain">> \notin self[r].marks

LEMMA CloseEffect ==
  ASSUME TypeOK, NEW r \in Runs, NEW p \in Process, NEW noted \in BOOLEAN, Close(r, p, noted)
  PROVE  /\ Closes(r, p, noted) /\ MishapsOK'
         /\ rules' \in [Runs -> [Families -> [chain : {"none", "open", "closed"}, jump : BOOLEAN]]]
         /\ \A s \in Runs \ {r} : rules'[s] = rules[s]
         /\ UNCHANGED <<box, image, flight, vault, scratch, sink>>
<1>1. PICK fails \in SUBSET {"jump", "flush", "delete"} :
    LET failed == \E f \in Families : CloseFails(rules[r][f], Marked(r, f), fails)
    IN /\ IF fails = {} THEN UNCHANGED mishaps ELSE Mishap("lost")
       /\ rules' = [rules EXCEPT ![r] =
            [f \in Families |-> ClosedRule(rules[r][f], Marked(r, f), fails)]]
       /\ self' = [self EXCEPT ![r] =
            [p EXCEPT !.marks = IF failed THEN p.marks ELSE {}, !.bad = p.bad \/ (noted /\ failed)]]
       /\ UNCHANGED <<box, image, flight, vault, scratch, sink>>
  BY DEF Close
<1> DEFINE failed == \E f \in Families : CloseFails(rules[r][f], Marked(r, f), fails)
           marks == IF failed THEN p.marks ELSE {}
           q == [p EXCEPT !.marks = marks, !.bad = p.bad \/ (noted /\ failed)]
<1>2. \A f \in Families : ClosedRule(rules[r][f], Marked(r, f), fails)
                            \in [chain : {"none", "open", "closed"}, jump : BOOLEAN]
  BY DEF TypeOK, ClosedRule
<1>3. \A f \in Families : ClosedRule(rules[r][f], Marked(r, f), fails).jump =>
        rules[r][f].jump /\ ~Unlinks(rules[r][f], Marked(r, f), fails)
  BY DEF ClosedRule
<1>4. ASSUME NEW f \in Families, ~failed, rules[r][f].jump,
             ~Unlinks(rules[r][f], Marked(r, f), fails)
      PROVE  <<f, "chain">> \notin self[r].marks
  BY <1>4 DEF CloseFails, Deletes, Marked
<1>5. rules' \in [Runs -> [Families -> [chain : {"none", "open", "closed"}, jump : BOOLEAN]]]
  BY <1>1, <1>2 DEF TypeOK
<1>6. \A f \in Families : rules'[r][f] = ClosedRule(rules[r][f], Marked(r, f), fails)
  BY <1>1 DEF TypeOK
<1>7. marks \in SUBSET (Families \X {"chain", "jump"}) /\ (p.bad \/ (noted /\ failed)) \in BOOLEAN
  BY DEF Process
<1> HIDE DEF marks, failed
<1>8. q \in Process /\ q.marks = marks /\ q.bad = (p.bad \/ (noted /\ failed)) /\ q.at = p.at
      /\ q.container = p.container /\ q.egress = p.egress /\ q.started = p.started
      /\ q.result = p.result /\ q.cleanup = p.cleanup /\ q.outcome = p.outcome
  BY <1>7 DEF Process
<1>9. Becomes(r, q)
  BY <1>1 DEF Becomes, marks, failed
<1>10. failed \in BOOLEAN /\ marks = IF failed THEN p.marks ELSE {}
  BY DEF marks, failed
<1>11. Closes(r, p, noted)
  BY <1>3, <1>4, <1>6, <1>8, <1>9, <1>10 DEF Closes
<1>12. MishapsOK'
  BY <1>1, MishapType
<1> QED
  BY <1>1, <1>5, <1>11, <1>12 DEF TypeOK

(* One iptables command: the rule it changes, the mark and the place.      *)
Installs(r, family, op, next) ==
  /\ rules' = [rules EXCEPT ![r][family] = Installed(rules[r][family], op)]
  /\ \E q \in Process :
       /\ Becomes(r, q)
       /\ \/ Raised(self[r], q)
          \/ /\ q.at = IF next = 1 THEN "start_old" ELSE "install"
             /\ q.n = next
             /\ q.marks = IF op = "fill" THEN self[r].marks ELSE self[r].marks \cup {<<family, op>>}
             /\ q.container = self[r].container /\ q.egress = self[r].egress
             /\ q.started = self[r].started /\ q.result = self[r].result
             /\ q.cleanup = self[r].cleanup /\ q.outcome = self[r].outcome
             /\ q.bad = self[r].bad

LEMMA InstallEffect ==
  ASSUME TypeOK, NEW r \in Runs, Install(r)
  PROVE  /\ self[r].at = "install" /\ MishapsOK'
         /\ UNCHANGED <<box, image, flight, vault, scratch, sink>>
         /\ \/ self[r].n = 1 /\ Installs(r, "ipv4", "chain", 2)
            \/ self[r].n = 2 /\ Installs(r, "ipv4", "fill", 3)
            \/ self[r].n = 3 /\ Installs(r, "ipv4", "jump", 4)
            \/ self[r].n = 4 /\ Installs(r, "ipv6", "chain", 5)
            \/ self[r].n = 5 /\ Installs(r, "ipv6", "fill", 6)
            \/ self[r].n = 6 /\ Installs(r, "ipv6", "jump", 1)
<1>1. self[r] \in Process
  BY DEF TypeOK
<1>2. self[r].n \in 1 .. 6 /\ Len(InstallSteps) = 6
  BY <1>1 DEF Process, InstallSteps
<1> DEFINE step == InstallSteps[self[r].n]
           marks == IF step[2] = "fill" THEN self[r].marks ELSE self[r].marks \cup {step}
           next == IF self[r].n = 6 THEN 1 ELSE self[r].n + 1
           at == IF self[r].n = 6 THEN "start_old" ELSE self[r].at
           p == [self[r] EXCEPT !.marks = marks, !.n = next, !.at = at]
<1>3. /\ self[r].at = "install"
      /\ UNCHANGED <<box, image, flight, vault, scratch, sink>>
      /\ rules' = [rules EXCEPT ![r][step[1]] = Installed(rules[r][step[1]], step[2])]
      /\ Goes(r, p)
  BY <1>2 DEF Install, At
<1>4. /\ next \in 1 .. 6 /\ at = IF next = 1 THEN "start_old" ELSE "install"
      /\ at \in Body \cup Cleaning \cup {"rollback", "done"}
  BY <1>2, <1>3 DEF Body
<1>5. \/ self[r].n = 1 /\ step[1] = "ipv4" /\ step[2] = "chain" /\ step = <<"ipv4", "chain">> /\ next = 2
      \/ self[r].n = 2 /\ step[1] = "ipv4" /\ step[2] = "fill" /\ step = <<"ipv4", "fill">> /\ next = 3
      \/ self[r].n = 3 /\ step[1] = "ipv4" /\ step[2] = "jump" /\ step = <<"ipv4", "jump">> /\ next = 4
      \/ self[r].n = 4 /\ step[1] = "ipv6" /\ step[2] = "chain" /\ step = <<"ipv6", "chain">> /\ next = 5
      \/ self[r].n = 5 /\ step[1] = "ipv6" /\ step[2] = "fill" /\ step = <<"ipv6", "fill">> /\ next = 6
      \/ self[r].n = 6 /\ step[1] = "ipv6" /\ step[2] = "jump" /\ step = <<"ipv6", "jump">> /\ next = 1
  <2>1. CASE self[r].n = 1
    BY <2>1 DEF InstallSteps
  <2>2. CASE self[r].n = 2
    BY <2>2 DEF InstallSteps
  <2>3. CASE self[r].n = 3
    BY <2>3 DEF InstallSteps
  <2>4. CASE self[r].n = 4
    BY <2>4 DEF InstallSteps
  <2>5. CASE self[r].n = 5
    BY <2>5 DEF InstallSteps
  <2>6. CASE self[r].n = 6
    BY <2>6 DEF InstallSteps
  <2> QED
    BY <1>2, <2>1, <2>2, <2>3, <2>4, <2>5, <2>6
<1>6. marks \in SUBSET (Families \X {"chain", "jump"})
  <2>1. step[2] = "fill" \/ step \in Families \X {"chain", "jump"}
    <3> HIDE DEF step
    <3> QED
      BY <1>5 DEF Families
  <2>2. self[r].marks \in SUBSET (Families \X {"chain", "jump"})
    BY <1>1 DEF Process
  <2> HIDE DEF step
  <2> QED
    BY <2>1, <2>2
<1>7. marks = IF step[2] = "fill" THEN self[r].marks ELSE self[r].marks \cup {step}
  OBVIOUS
<1> HIDE DEF step, marks, next, at
<1>8. /\ p \in Process /\ p.at = at /\ p.n = next /\ p.marks = marks
      /\ p.container = self[r].container /\ p.egress = self[r].egress
      /\ p.started = self[r].started /\ p.result = self[r].result /\ p.bad = self[r].bad
      /\ p.cleanup = self[r].cleanup /\ p.outcome = self[r].outcome
  BY <1>1, <1>2, <1>4, <1>6 DEF Process
<1> HIDE DEF p
<1>9. PICK q \in Process : (q = p \/ Raised(self[r], q)) /\ Becomes(r, q)
  BY <1>3, <1>8, GoesEffect
<1>10. MishapsOK'
  BY <1>3, <1>8, GoesEffect
<1>11. Installs(r, step[1], step[2], next)
  <2>1. marks = IF step[2] = "fill" THEN self[r].marks ELSE self[r].marks \cup {<<step[1], step[2]>>}
    BY <1>5, <1>7
  <2> QED
    BY <1>3, <1>4, <1>8, <1>9, <2>1 DEF Installs
<1> QED
  BY <1>3, <1>5, <1>10, <1>11

(* docker run: afterwards the run knows that there may be a container.     *)
Docks(r) ==
  /\ self[r].at \in {"start_old", "start_new"} /\ ~self[r].container
  /\ UNCHANGED <<vault, scratch, rules, sink>> /\ MishapsOK'
  /\ image' \in [Runs -> {"old", "new"}]
  /\ \E q \in Process :
       /\ Becomes(r, q) /\ q.container /\ q.egress = self[r].egress /\ q.marks = self[r].marks
       /\ q.started = self[r].started /\ q.result = self[r].result /\ q.bad = self[r].bad
       /\ q.cleanup = self[r].cleanup /\ q.outcome = self[r].outcome
       /\ \/ /\ q.at = IF At(r, "start_old") THEN "reach" ELSE "upgraded"
             /\ box' = [box EXCEPT ![r] = "starting"] /\ UNCHANGED flight
          \/ /\ q.at = "clean_generated"
             /\ \/ box' = [box EXCEPT ![r] = "absent"] /\ flight' = [flight EXCEPT ![r] = "create"]
                \/ box' = [box EXCEPT ![r] = "created"] /\ flight' = [flight EXCEPT ![r] = "start"]
                \/ box' = [box EXCEPT ![r] = "starting"] /\ UNCHANGED flight

LEMMA DockEffect ==
  ASSUME TypeOK, NEW r \in Runs, StartOld(r) \/ StartNew(r)
  PROVE  Docks(r)
<1>1. self[r] \in Process
  BY DEF TypeOK
<1>2. PICK new \in {"old", "new"}, next \in {"reach", "upgraded"} :
         /\ DockerRun(r, new, next) /\ ~self[r].container
         /\ self[r].at = IF next = "reach" THEN "start_old" ELSE "start_new"
  BY DEF StartOld, StartNew, At
<1>3. image' \in [Runs -> {"old", "new"}] /\ UNCHANGED <<vault, scratch, rules, sink>>
  BY <1>2 DEF DockerRun, TypeOK
<1>4. ASSUME NEW at \in {"reach", "upgraded", "clean_generated"},
             self' = [self EXCEPT ![r].container = TRUE, ![r].at = at]
      PROVE  \E q \in Process :
       /\ Becomes(r, q) /\ q.container /\ q.egress = self[r].egress /\ q.marks = self[r].marks
       /\ q.started = self[r].started /\ q.result = self[r].result /\ q.bad = self[r].bad
       /\ q.cleanup = self[r].cleanup /\ q.outcome = self[r].outcome /\ q.at = at
  <2> DEFINE q == [self[r] EXCEPT !.container = TRUE, !.at = at]
  <2>1. /\ q \in Process /\ q.container /\ q.egress = self[r].egress /\ q.marks = self[r].marks
        /\ q.started = self[r].started /\ q.result = self[r].result /\ q.bad = self[r].bad
        /\ q.cleanup = self[r].cleanup /\ q.outcome = self[r].outcome /\ q.at = at
    BY <1>1 DEF Process, Body, Cleaning
  <2>2. Becomes(r, q)
    BY <1>4 DEF Becomes, TypeOK
  <2> QED
    BY <2>1, <2>2
<1>5. CASE box' = [box EXCEPT ![r] = "starting"]
           /\ self' = [self EXCEPT ![r].container = TRUE, ![r].at = next]
           /\ UNCHANGED <<flight, mishaps>>
  BY <1>2, <1>3, <1>4, <1>5, MishapType DEF Docks, At
<1>6. CASE /\ Mishap("lost")
           /\ \E done \in {"absent", "created", "starting"} :
                /\ box' = [box EXCEPT ![r] = done]
                /\ flight' = [flight EXCEPT ![r] =
                     IF done = "absent" THEN "create" ELSE IF done = "created" THEN "start" ELSE @]
           /\ self' = [self EXCEPT ![r].container = TRUE, ![r].at = "clean_generated"]
  <2>1. \/ box' = [box EXCEPT ![r] = "absent"] /\ flight' = [flight EXCEPT ![r] = "create"]
        \/ box' = [box EXCEPT ![r] = "created"] /\ flight' = [flight EXCEPT ![r] = "start"]
        \/ box' = [box EXCEPT ![r] = "starting"] /\ UNCHANGED flight
    BY <1>6 DEF TypeOK
  <2>2. MishapsOK'
    BY <1>6, MishapType
  <2> QED
    BY <1>2, <1>3, <1>4, <1>6, <2>1, <2>2 DEF Docks, At
<1> QED
  BY <1>2, <1>5, <1>6 DEF DockerRun

(* docker rm -f of the old container.                                      *)
LEMMA StopEffect ==
  ASSUME TypeOK, NEW r \in Runs, StopOld(r)
  PROVE  /\ self[r].at = "stop_old" /\ box' = [box EXCEPT ![r] = "absent"]
         /\ MishapsOK' /\ UNCHANGED <<image, flight, scratch, rules, sink>>
         /\ \E q \in Process :
              /\ Becomes(r, q) /\ q.at \in {"start_new", "clean_generated"}
              /\ q.egress = self[r].egress /\ q.marks = self[r].marks
              /\ q.started = self[r].started /\ q.result = self[r].result /\ q.bad = self[r].bad
              /\ q.cleanup = self[r].cleanup /\ q.outcome = self[r].outcome
              /\ q.at = "start_new" => ~q.container
              /\ q.at = "clean_generated" => q.container = self[r].container
<1> DEFINE p == [self[r] EXCEPT !.container = FALSE, !.at = "start_new"]
<1>1. self[r] \in Process
  BY DEF TypeOK
<1>2. /\ p \in Process /\ ~p.container /\ p.at = "start_new"
      /\ p.egress = self[r].egress /\ p.marks = self[r].marks
      /\ p.started = self[r].started /\ p.result = self[r].result /\ p.bad = self[r].bad
      /\ p.cleanup = self[r].cleanup /\ p.outcome = self[r].outcome
  BY <1>1 DEF Process, Body
<1>3. self[r].at = "stop_old" /\ Removes(r) /\ Goes(r, p)
  BY DEF StopOld, At
<1> HIDE DEF p
<1>4. MishapsOK' /\ \E q \in Process : (q = p \/ Raised(self[r], q)) /\ Becomes(r, q)
  BY <1>2, <1>3, GoesEffect
<1> QED
  BY <1>2, <1>3, <1>4 DEF Removes, Raised

(* The rest of the clean-up.                                               *)
Gone(r) ==
  /\ box' = [box EXCEPT ![r] = "absent"]
  /\ vault' = [vault EXCEPT ![r].attempt = Original, ![r].shares = 0]

LEMMA CleanContainerEffect ==
  ASSUME TypeOK, NEW r \in Runs, CleanContainer(r)
  PROVE  /\ self[r].at = "clean_container"
         /\ MishapsOK' /\ UNCHANGED <<image, flight, scratch, rules, sink>>
         /\ \E q \in Process :
              /\ Becomes(r, q) /\ q.at = "clean_egress"
              /\ q.egress = self[r].egress /\ q.marks = self[r].marks
              /\ q.started = self[r].started /\ q.result = self[r].result
              /\ q.cleanup = self[r].cleanup /\ q.outcome = self[r].outcome
              /\ \/ q.container = self[r].container /\ q.bad /\ (Gone(r) \/ UNCHANGED <<box, vault>>)
                 \/ ~q.container /\ q.bad = self[r].bad /\ box[r] # "absent" /\ Gone(r)
                 \/ ~self[r].container /\ ~q.container /\ q.bad = self[r].bad /\ UNCHANGED <<box, vault>>
<1>1. self[r] \in Process
  BY DEF TypeOK
<1>2. ASSUME NEW p \in {self[r], [self[r] EXCEPT !.container = FALSE]}, NEW failed \in BOOLEAN,
             Cleans(r, "clean_egress", p, failed)
      PROVE  \E q \in Process :
               /\ Becomes(r, q) /\ q.at = "clean_egress" /\ q.container = p.container
               /\ q.bad = (self[r].bad \/ failed)
               /\ q.egress = self[r].egress /\ q.marks = self[r].marks
               /\ q.started = self[r].started /\ q.result = self[r].result
               /\ q.cleanup = self[r].cleanup /\ q.outcome = self[r].outcome
  <2>1. /\ p \in Process /\ p.bad = self[r].bad
        /\ p.egress = self[r].egress /\ p.marks = self[r].marks
        /\ p.started = self[r].started /\ p.result = self[r].result
        /\ p.cleanup = self[r].cleanup /\ p.outcome = self[r].outcome
    BY <1>1 DEF Process
  <2>2. PICK q \in Process : /\ Becomes(r, q) /\ q.at = "clean_egress" /\ Same(p, q)
                             /\ q.bad = (p.bad \/ failed)
    <3>1. "clean_egress" \in Cleaning
      BY DEF Cleaning
    <3> QED
      BY <1>2, <2>1, <3>1, CleansEffect
  <2> QED
    BY <2>1, <2>2 DEF Same
<1>3. /\ self[r].at = "clean_container"
      /\ UNCHANGED <<image, flight, scratch, rules, sink>>
      /\ UNCHANGED mishaps \/ Mishap("lost")
      /\ \/ /\ self[r].container /\ box[r] # "absent" /\ Gone(r)
            /\ Cleans(r, "clean_egress", [self[r] EXCEPT !.container = FALSE], FALSE)
         \/ /\ self[r].container /\ Gone(r)
            /\ Cleans(r, "clean_egress", self[r], TRUE)
         \/ /\ self[r].container /\ UNCHANGED <<box, vault>>
            /\ Cleans(r, "clean_egress", self[r], TRUE)
         \/ /\ ~self[r].container /\ UNCHANGED <<box, vault>>
            /\ Cleans(r, "clean_egress", self[r], FALSE)
  BY DEF CleanContainer, At, Removes, Gone, hostVars
<1>4. MishapsOK'
  BY <1>3, MishapType
<1>5. [self[r] EXCEPT !.container = FALSE].container = FALSE /\ self[r].bad \in BOOLEAN
  BY <1>1 DEF Process
<1>6. CASE /\ self[r].container /\ box[r] # "absent" /\ Gone(r)
           /\ Cleans(r, "clean_egress", [self[r] EXCEPT !.container = FALSE], FALSE)
  <2> DEFINE p == [self[r] EXCEPT !.container = FALSE]
  <2>1. p \in {self[r], [self[r] EXCEPT !.container = FALSE]} /\ p.container = FALSE
    BY <1>5
  <2>2. Cleans(r, "clean_egress", p, FALSE)
    BY <1>6
  <2> HIDE DEF p
  <2>3. PICK q \in Process :
               /\ Becomes(r, q) /\ q.at = "clean_egress" /\ q.container = p.container
               /\ q.bad = (self[r].bad \/ FALSE)
               /\ q.egress = self[r].egress /\ q.marks = self[r].marks
               /\ q.started = self[r].started /\ q.result = self[r].result
               /\ q.cleanup = self[r].cleanup /\ q.outcome = self[r].outcome
    BY <1>2, <2>1, <2>2
  <2>4. ~q.container /\ q.bad = self[r].bad
    BY <1>5, <2>1, <2>3
  <2> QED
    BY <1>3, <1>4, <1>6, <2>3, <2>4
<1>7. CASE /\ self[r].container /\ (Gone(r) \/ UNCHANGED <<box, vault>>)
           /\ Cleans(r, "clean_egress", self[r], TRUE)
  <2>1. PICK q \in Process :
               /\ Becomes(r, q) /\ q.at = "clean_egress" /\ q.container = self[r].container
               /\ q.bad
               /\ q.egress = self[r].egress /\ q.marks = self[r].marks
               /\ q.started = self[r].started /\ q.result = self[r].result
               /\ q.cleanup = self[r].cleanup /\ q.outcome = self[r].outcome
    <3>1. self[r] \in {self[r], [self[r] EXCEPT !.container = FALSE]}
      OBVIOUS
    <3> QED
      BY <1>2, <1>7, <3>1
  <2> QED
    BY <1>3, <1>4, <1>7, <2>1
<1>8. CASE /\ ~self[r].container /\ UNCHANGED <<box, vault>>
           /\ Cleans(r, "clean_egress", self[r], FALSE)
  <2>1. PICK q \in Process :
               /\ Becomes(r, q) /\ q.at = "clean_egress" /\ q.container = self[r].container
               /\ q.bad = self[r].bad
               /\ q.egress = self[r].egress /\ q.marks = self[r].marks
               /\ q.started = self[r].started /\ q.result = self[r].result
               /\ q.cleanup = self[r].cleanup /\ q.outcome = self[r].outcome
    <3>1. self[r] \in {self[r], [self[r] EXCEPT !.container = FALSE]}
      OBVIOUS
    <3> QED
      BY <1>2, <1>5, <1>8, <3>1
  <2>2. ~q.container
    BY <1>8, <2>1
  <2> QED
    BY <1>3, <1>4, <1>8, <2>1, <2>2
<1> QED
  BY <1>3, <1>6, <1>7, <1>8

LEMMA CleanEgressEffect ==
  ASSUME TypeOK, NEW r \in Runs, CleanEgress(r)
  PROVE  /\ self[r].at = "clean_egress" /\ MishapsOK'
         /\ UNCHANGED <<box, image, flight, vault, scratch, sink>>
         /\ rules' \in [Runs -> [Families -> [chain : {"none", "open", "closed"}, jump : BOOLEAN]]]
         /\ \A s \in Runs \ {r} : rules'[s] = rules[s]
         /\ \E q \in Process :
              /\ Becomes(r, q) /\ q.at = "clean_scratch" /\ q.container = self[r].container
              /\ q.started = self[r].started /\ q.result = self[r].result
              /\ q.cleanup = self[r].cleanup /\ q.outcome = self[r].outcome
              /\ (self[r].bad => q.bad)
              /\ \/ UNCHANGED rules /\ (self[r].egress => q.bad) /\ (self[r].egress => self[r].container)
                 \/ /\ ~self[r].container
                    /\ \A f \in Families : rules'[r][f].jump /\ ~q.bad =>
                         rules[r][f].jump /\ <<f, "chain">> \notin self[r].marks
<1>1. self[r] \in Process
  BY DEF TypeOK
<1>2. self[r].at = "clean_egress"
  BY DEF CleanEgress, At
<1>3. CASE self[r].egress /\ ~self[r].container
  <2> DEFINE p == [self[r] EXCEPT !.at = "clean_scratch", !.egress = FALSE]
  <2>1. /\ p \in Process /\ p.at = "clean_scratch" /\ p.container = self[r].container
        /\ p.started = self[r].started /\ p.result = self[r].result /\ p.bad = self[r].bad
        /\ p.cleanup = self[r].cleanup /\ p.outcome = self[r].outcome
    BY <1>1 DEF Process, Cleaning
  <2>2. Close(r, p, TRUE)
    BY <1>3 DEF CleanEgress
  <2> HIDE DEF p
  <2>3. Closes(r, p, TRUE)
    BY <2>1, <2>2, CloseEffect
  <2>4. /\ MishapsOK' /\ UNCHANGED <<box, image, flight, vault, scratch, sink>>
        /\ rules' \in [Runs -> [Families -> [chain : {"none", "open", "closed"}, jump : BOOLEAN]]]
        /\ \A s \in Runs \ {r} : rules'[s] = rules[s]
    BY <2>1, <2>2, CloseEffect
  <2>5. \E q \in Process :
              /\ Becomes(r, q) /\ q.at = "clean_scratch" /\ q.container = self[r].container
              /\ q.started = self[r].started /\ q.result = self[r].result
              /\ q.cleanup = self[r].cleanup /\ q.outcome = self[r].outcome
              /\ (self[r].bad => q.bad)
              /\ \A f \in Families : rules'[r][f].jump /\ ~q.bad =>
                    rules[r][f].jump /\ <<f, "chain">> \notin self[r].marks
    BY <2>1, <2>3 DEF Closes
  <2> QED
    BY <1>2, <1>3, <2>4, <2>5
<1>4. CASE ~(self[r].egress /\ ~self[r].container)
  <2>1. /\ Cleans(r, "clean_scratch", self[r], self[r].egress)
        /\ UNCHANGED <<box, image, flight, vault, scratch, rules, sink>> /\ UNCHANGED mishaps
    BY <1>4 DEF CleanEgress, hostVars
  <2>2. "clean_scratch" \in Cleaning /\ self[r].egress \in BOOLEAN
    BY <1>1 DEF Cleaning, Process
  <2>3. PICK q \in Process : /\ Becomes(r, q) /\ q.at = "clean_scratch" /\ Same(self[r], q)
                             /\ q.bad = (self[r].bad \/ self[r].egress)
    BY <1>1, <2>1, <2>2, CleansEffect
  <2>4. MishapsOK'
    BY <2>1, MishapType
  <2> QED
    BY <1>1, <1>2, <1>4, <2>1, <2>3, <2>4 DEF Same, TypeOK
<1> QED
  BY <1>3, <1>4

LEMMA CleanScratchEffect ==
  ASSUME TypeOK, NEW r \in Runs, CleanScratch(r)
  PROVE  /\ self[r].at = "clean_scratch" /\ MishapsOK'
         /\ UNCHANGED <<box, image, flight, rules, sink>>
         /\ \E q \in Process :
              /\ Becomes(r, q) /\ q.at = "report" /\ Same(self[r], q) /\ (self[r].bad => q.bad)
              /\ \/ UNCHANGED <<scratch, vault>> /\ (self[r].container \/ q.bad)
                 \/ /\ ~self[r].container
                    /\ scratch' = scratch \ {r} /\ vault' = [vault EXCEPT ![r] = EmptyVault]
<1>1. self[r] \in Process
  BY DEF TypeOK
<1>2. "report" \in Cleaning
  BY DEF Cleaning
<1>3. ASSUME NEW failed \in BOOLEAN, Cleans(r, "report", self[r], failed)
      PROVE  \E q \in Process : /\ Becomes(r, q) /\ q.at = "report" /\ Same(self[r], q)
                                /\ q.bad = (self[r].bad \/ failed)
  BY <1>1, <1>2, <1>3, CleansEffect
<1>4. /\ self[r].at = "clean_scratch" /\ UNCHANGED mishaps
      /\ UNCHANGED <<box, image, flight, rules, sink>>
      /\ \/ /\ self[r].container /\ UNCHANGED <<scratch, vault>>
            /\ Cleans(r, "report", self[r], FALSE)
         \/ /\ ~self[r].container /\ Cleans(r, "report", self[r], FALSE)
            /\ scratch' = scratch \ {r} /\ vault' = [vault EXCEPT ![r] = EmptyVault]
         \/ /\ ~self[r].container /\ UNCHANGED <<scratch, vault>>
            /\ Cleans(r, "report", self[r], TRUE)
  BY DEF CleanScratch, At, hostVars
<1>5. MishapsOK'
  BY <1>4, MishapType
<1> QED
  BY <1>3, <1>4, <1>5

(* How a run ends: by its report, by a signal, or by a kill.               *)
Ends(r) ==
  /\ self[r].at \notin {"begin", "done"} /\ MishapsOK' /\ UNCHANGED hostVars
  /\ \E q \in Process :
       /\ Becomes(r, q) /\ q.at = "done" /\ q.container = self[r].container
       /\ q.started = self[r].started /\ q.result = self[r].result
       /\ \/ /\ self[r].at = "report" /\ q.cleanup = IF self[r].bad THEN "failed" ELSE "passed"
             /\ q.outcome = "passed" => self[r].result /\ ~self[r].bad
          \/ q.cleanup \in {"failed", self[r].cleanup} /\ q.outcome \in {"failed", "killed"}

LEMMA EndEffect ==
  ASSUME TypeOK, NEW r \in Runs, Report(r) \/ Interrupted(r) \/ Kill(r)
  PROVE  Ends(r)
<1>1. self[r] \in Process
  BY DEF TypeOK
<1>2. CASE Report(r)
  <2> DEFINE cleanup == IF self[r].bad THEN "failed" ELSE "passed"
             outcome == IF self[r].result /\ ~self[r].bad THEN "passed" ELSE "failed"
             q == [self[r] EXCEPT !.at = "done", !.cleanup = cleanup, !.outcome = outcome]
  <2>1. cleanup \in {"passed", "failed"} /\ outcome \in {"passed", "failed"}
    OBVIOUS
  <2>2. self' = [self EXCEPT ![r].at = "done", ![r].cleanup = cleanup, ![r].outcome = outcome]
    BY <1>2 DEF Report
  <2>3. cleanup = (IF self[r].bad THEN "failed" ELSE "passed")
        /\ (outcome = "passed" => self[r].result /\ ~self[r].bad)
    BY <1>1 DEF Process
  <2> HIDE DEF cleanup, outcome
  <2>4. q \in Process /\ q.at = "done" /\ q.container = self[r].container /\ q.cleanup = cleanup
        /\ q.outcome = outcome /\ q.started = self[r].started /\ q.result = self[r].result
    BY <1>1, <2>1 DEF Process
  <2>5. Becomes(r, q)
    BY <2>2 DEF Becomes, TypeOK
  <2>6. self[r].at = "report" /\ UNCHANGED <<hostVars, mishaps>>
    BY <1>2 DEF Report, At
  <2>7. MishapsOK'
    BY <2>6, MishapType
  <2> HIDE DEF q
  <2> QED
    BY <2>3, <2>4, <2>5, <2>6, <2>7 DEF Ends
<1>3. CASE Interrupted(r)
  <2> DEFINE q == [self[r] EXCEPT !.at = "done", !.cleanup = "failed", !.outcome = "failed"]
  <2>1. q \in Process /\ q.at = "done" /\ q.container = self[r].container /\ q.cleanup = "failed"
        /\ q.outcome = "failed" /\ q.started = self[r].started /\ q.result = self[r].result
    BY <1>1 DEF Process
  <2>2. Becomes(r, q)
    BY <1>3 DEF Becomes, TypeOK, Interrupted
  <2>3. MishapsOK'
    BY <1>3, MishapType DEF Interrupted
  <2> QED
    BY <1>3, <2>1, <2>2, <2>3 DEF Interrupted, Cleaning, Ends
<1>4. CASE Kill(r)
  <2> DEFINE q == [self[r] EXCEPT !.at = "done", !.outcome = "killed"]
  <2>1. q \in Process /\ q.at = "done" /\ q.container = self[r].container
        /\ q.cleanup = self[r].cleanup
        /\ q.outcome = "killed" /\ q.started = self[r].started /\ q.result = self[r].result
    BY <1>1 DEF Process
  <2>2. Becomes(r, q)
    BY <1>4 DEF Becomes, TypeOK, Kill
  <2>3. MishapsOK'
    BY <1>4, MishapType DEF Kill
  <2> QED
    BY <1>4, <2>1, <2>2, <2>3 DEF Kill, Ends
<1> QED
  BY <1>2, <1>3, <1>4

LEMMA NoShares == 0 \in 0 .. Quorum - 1 /\ Original \in Runs \cup {Original}
BY RehearsalAssumption

(* How a step changes the data of one Vault.                               *)
Turns(s, data, tokens, attempt) ==
  \E v \in VaultData : /\ vault' = [vault EXCEPT ![s] = v]
                       /\ v.data = data /\ v.tokens = tokens /\ v.attempt = attempt

LEMMA ShareEffect ==
  ASSUME TypeOK, NEW r \in Runs, Share(r)
  PROVE  \E s \in Runs :
           /\ Healthy(s) /\ vault[s].attempt = r
           /\ \/ /\ Turns(s, vault[s].data, vault[s].tokens, r) /\ GoesTo(r, "share")
              \/ /\ Turns(s, vault[s].data, vault[s].tokens \cup {Generated(r)}, Original)
                 /\ GoesTo(r, "decode")
<1>1. PICK s \in Runs :
         LET complete == vault[s].shares + 1 = Quorum
         IN /\ Healthy(s) /\ vault[s].attempt = r
            /\ vault' = [vault EXCEPT
                 ![s].shares = IF complete THEN 0 ELSE @ + 1,
                 ![s].attempt = IF complete THEN Original ELSE @,
                 ![s].tokens = IF complete THEN @ \cup {Generated(r)} ELSE @]
            /\ GoesTo(r, IF complete THEN "decode" ELSE "share")
  BY DEF Share
<1>2. vault[s] \in VaultData /\ Generated(r) \in Tokens
  BY DEF TypeOK, Tokens
<1>3. CASE vault[s].shares + 1 = Quorum
  <2> DEFINE v == [vault[s] EXCEPT !.shares = 0, !.attempt = Original,
                                   !.tokens = vault[s].tokens \cup {Generated(r)}]
  <2>1. v \in VaultData /\ v.data = vault[s].data /\ v.attempt = Original
        /\ v.tokens = vault[s].tokens \cup {Generated(r)}
    BY <1>2, NoShares DEF VaultData
  <2>2. vault' = [vault EXCEPT ![s] = v] /\ GoesTo(r, "decode")
    BY <1>1, <1>2, <1>3 DEF TypeOK, VaultData
  <2> QED
    BY <1>1, <2>1, <2>2 DEF Turns
<1>4. CASE vault[s].shares + 1 # Quorum
  <2> DEFINE v == [vault[s] EXCEPT !.shares = vault[s].shares + 1]
  <2>1. v \in VaultData /\ v.data = vault[s].data /\ v.attempt = r /\ v.tokens = vault[s].tokens
    BY <1>1, <1>2, <1>4, RehearsalAssumption DEF VaultData
  <2>2. vault' = [vault EXCEPT ![s] = v] /\ GoesTo(r, "share")
    BY <1>1, <1>2, <1>4 DEF TypeOK, VaultData
  <2> QED
    BY <1>1, <2>1, <2>2 DEF Turns
<1> QED
  BY <1>3, <1>4

LEMMA TokensLess ==
  ASSUME TypeOK, NEW s \in Runs, NEW token, vault' = [vault EXCEPT ![s].tokens = @ \ {token}]
  PROVE  Turns(s, vault[s].data, vault[s].tokens \ {token}, vault[s].attempt)
<1> DEFINE v == [vault[s] EXCEPT !.tokens = vault[s].tokens \ {token}]
<1>1. vault[s] \in VaultData
  BY DEF TypeOK
<1>2. v \in VaultData /\ v.data = vault[s].data /\ v.tokens = vault[s].tokens \ {token}
      /\ v.attempt = vault[s].attempt
  BY <1>1 DEF VaultData
<1>3. vault' = [vault EXCEPT ![s] = v]
  BY DEF TypeOK
<1> QED
  BY <1>2, <1>3 DEF Turns

LEMMA AttemptLost ==
  ASSUME TypeOK, NEW s \in Runs, vault' = [vault EXCEPT ![s].attempt = Original, ![s].shares = 0]
  PROVE  Turns(s, vault[s].data, vault[s].tokens, Original)
<1> DEFINE v == [vault[s] EXCEPT !.attempt = Original, !.shares = 0]
<1>1. vault[s] \in VaultData
  BY DEF TypeOK
<1>2. v \in VaultData /\ v.data = vault[s].data /\ v.tokens = vault[s].tokens /\ v.attempt = Original
  BY <1>1, NoShares DEF VaultData
<1>3. vault' = [vault EXCEPT ![s] = v]
  BY <1>1 DEF TypeOK, VaultData
<1> QED
  BY <1>2, <1>3 DEF Turns

LEMMA RequestEffect ==
  ASSUME TypeOK, NEW r \in Runs
  PROVE  /\ Initialize(r) => \E s \in Runs : /\ Up(s) /\ vault[s].data = "empty"
                                             /\ Turns(s, "fresh", {Root(r)}, vault[s].attempt)
         /\ Restore(r) => \E s \in Runs : /\ Healthy(s) /\ Root(r) \in vault[s].tokens
                                          /\ Turns(s, "restoring", vault[s].tokens, vault[s].attempt)
         /\ Attempt(r) => \E s \in Runs : /\ Healthy(s) /\ vault[s].attempt = Original
                                          /\ Turns(s, vault[s].data, vault[s].tokens, r)
         /\ Revoke(r) => \E s \in Runs : /\ Healthy(s) /\ Generated(r) \in vault[s].tokens
                                         /\ Turns(s, vault[s].data, vault[s].tokens \ {Generated(r)},
                                                  vault[s].attempt)
<1>1. \A s \in Runs : vault[s] \in VaultData
  BY DEF TypeOK
<1>2. Root(r) \in Tokens
  BY DEF Tokens
<1>3. ASSUME NEW s \in Runs, vault' = [vault EXCEPT ![s].data = "fresh", ![s].tokens = {Root(r)}]
      PROVE  Turns(s, "fresh", {Root(r)}, vault[s].attempt)
  <2> DEFINE v == [vault[s] EXCEPT !.data = "fresh", !.tokens = {Root(r)}]
  <2>1. v \in VaultData /\ v.data = "fresh" /\ v.tokens = {Root(r)} /\ v.attempt = vault[s].attempt
    BY <1>1, <1>2 DEF VaultData
  <2>2. vault' = [vault EXCEPT ![s] = v]
    BY <1>1, <1>3 DEF TypeOK, VaultData
  <2> QED
    BY <2>1, <2>2 DEF Turns
<1>4. ASSUME NEW s \in Runs, vault' = [vault EXCEPT ![s].data = "restoring"]
      PROVE  Turns(s, "restoring", vault[s].tokens, vault[s].attempt)
  <2> DEFINE v == [vault[s] EXCEPT !.data = "restoring"]
  <2>1. v \in VaultData /\ v.data = "restoring" /\ v.tokens = vault[s].tokens /\ v.attempt = vault[s].attempt
    BY <1>1 DEF VaultData
  <2>2. vault' = [vault EXCEPT ![s] = v]
    BY <1>4 DEF TypeOK
  <2> QED
    BY <2>1, <2>2 DEF Turns
<1>5. ASSUME NEW s \in Runs, vault' = [vault EXCEPT ![s].attempt = r, ![s].shares = 0]
      PROVE  Turns(s, vault[s].data, vault[s].tokens, r)
  <2> DEFINE v == [vault[s] EXCEPT !.attempt = r, !.shares = 0]
  <2>1. v \in VaultData /\ v.data = vault[s].data /\ v.tokens = vault[s].tokens /\ v.attempt = r
    BY <1>1, NoShares DEF VaultData
  <2>2. vault' = [vault EXCEPT ![s] = v]
    BY <1>1, <1>5 DEF TypeOK, VaultData
  <2> QED
    BY <2>1, <2>2 DEF Turns
<1>6. Initialize(r) => \E s \in Runs : /\ Up(s) /\ vault[s].data = "empty"
                                       /\ Turns(s, "fresh", {Root(r)}, vault[s].attempt)
  BY <1>3 DEF Initialize
<1>7. Restore(r) => \E s \in Runs : /\ Healthy(s) /\ Root(r) \in vault[s].tokens
                                    /\ Turns(s, "restoring", vault[s].tokens, vault[s].attempt)
  BY <1>4 DEF Restore
<1>8. Attempt(r) => \E s \in Runs : /\ Healthy(s) /\ vault[s].attempt = Original
                                    /\ Turns(s, vault[s].data, vault[s].tokens, r)
  BY <1>5 DEF Attempt
<1>9. Revoke(r) => \E s \in Runs : /\ Healthy(s) /\ Generated(r) \in vault[s].tokens
                                   /\ Turns(s, vault[s].data, vault[s].tokens \ {Generated(r)},
                                            vault[s].attempt)
  BY TokensLess DEF Revoke
<1> QED
  BY <1>6, <1>7, <1>8, <1>9

(* The requests of the clean-up.                                           *)
LEMMA AskVault ==
  ASSUME TypeOK, NEW r \in Runs, CleanGenerated(r) \/ CleanAttempt(r) \/ CleanRoot(r)
  PROVE  \/ UNCHANGED vault
         \/ \E s \in Runs, token \in {Generated(r), Root(r)} :
              Turns(s, vault[s].data, vault[s].tokens \ {token}, vault[s].attempt)
         \/ /\ CleanAttempt(r)
            /\ \E s \in Runs : Healthy(s) /\ Turns(s, vault[s].data, vault[s].tokens, Original)
<1>1. ASSUME NEW token \in {Generated(r), Root(r)}, NEW effect \in RevokeSelf(token), vault' = effect
      PROVE  \E s \in Runs : Turns(s, vault[s].data, vault[s].tokens \ {token}, vault[s].attempt)
  <2>1. PICK s \in Runs : vault' = [vault EXCEPT ![s].tokens = @ \ {token}]
    BY <1>1 DEF RevokeSelf
  <2> QED
    BY <2>1, TokensLess
<1>2. ASSUME NEW effect \in Cancel, vault' = effect
      PROVE  \E s \in Runs : Healthy(s) /\ Turns(s, vault[s].data, vault[s].tokens, Original)
  <2>1. PICK s \in Runs : /\ Healthy(s)
                          /\ vault' = [vault EXCEPT ![s].attempt = Original, ![s].shares = 0]
    BY <1>2 DEF Cancel
  <2> QED
    BY <2>1, AttemptLost
<1>3. CASE CleanGenerated(r)
  <2>1. UNCHANGED vault \/ \E effect \in RevokeSelf(Generated(r)) : vault' = effect
    BY <1>3 DEF CleanGenerated, Asks, hostVars
  <2> QED
    BY <1>1, <2>1
<1>4. CASE CleanAttempt(r)
  <2>1. UNCHANGED vault \/ \E effect \in Cancel : vault' = effect
    BY <1>4 DEF CleanAttempt, Asks, hostVars
  <2> QED
    BY <1>2, <1>4, <2>1
<1>5. CASE CleanRoot(r)
  <2>1. UNCHANGED vault \/ \E effect \in RevokeSelf(Root(r)) : vault' = effect
    BY <1>5 DEF CleanRoot, Asks, hostVars
  <2> QED
    BY <1>1, <2>1
<1> QED
  BY <1>3, <1>4, <1>5

(* Host events, which no run takes part in.                                *)
HostStep(s) == Listen(s) \/ RestoreCompletes(s) \/ Arrives(s) \/ VaultExits(s)

LEMMA RebootEffect ==
  ASSUME TypeOK, Reboot
  PROVE  /\ self' \in [Runs -> Process] /\ MishapsOK' /\ UNCHANGED <<image, scratch, sink>>
         /\ \A r \in Runs :
              /\ self'[r].at = IF At(r, "begin") THEN "begin" ELSE "done"
              /\ self'[r].at = "done" /\ ~At(r, "done") => self'[r].outcome = "killed"
              /\ At(r, "begin") \/ At(r, "done") => self'[r] = self[r]
              /\ self'[r].container = self[r].container /\ self'[r].started = self[r].started
              /\ self'[r].result = self[r].result /\ self'[r].cleanup = self[r].cleanup
<1>1. ASSUME NEW r \in Runs
      PROVE  LET q == [self[r] EXCEPT !.at = "done", !.outcome = "killed"]
             IN /\ self[r] \in Process /\ q \in Process
                /\ q.at = "done" /\ q.outcome = "killed" /\ q.container = self[r].container
                /\ q.started = self[r].started /\ q.result = self[r].result
                /\ q.cleanup = self[r].cleanup
  <2>1. self[r] \in Process
    BY DEF TypeOK
  <2> QED
    BY <2>1 DEF Process
<1>2. self' = [r \in Runs |-> IF At(r, "begin") \/ At(r, "done") THEN self[r]
                             ELSE [self[r] EXCEPT !.at = "done", !.outcome = "killed"]]
  BY DEF Reboot
<1>3. self' \in [Runs -> Process]
  BY <1>1, <1>2
<1>4. MishapsOK' /\ UNCHANGED <<image, scratch, sink>>
  BY MishapType DEF Reboot
<1>5. ASSUME NEW r \in Runs, At(r, "begin") \/ At(r, "done")
      PROVE  self'[r] = self[r]
  BY <1>2, <1>5
<1>6. ASSUME NEW r \in Runs, ~(At(r, "begin") \/ At(r, "done"))
      PROVE  self'[r] = [self[r] EXCEPT !.at = "done", !.outcome = "killed"]
  BY <1>2, <1>6
<1> QED
  BY <1>1, <1>3, <1>4, <1>5, <1>6 DEF At

(* The next-state relation, by the kinds of steps the proofs distinguish.  *)
LEMMA NextCases ==
  ASSUME [Next]_vars
  PROVE  \/ \E r \in Runs :
              \/ Begin(r) \/ Prepare(r) \/ CheckHost(r) \/ Install(r)
              \/ StartOld(r) \/ StartNew(r) \/ StopOld(r) \/ TalkStep(r) \/ Fails(r)
              \/ Rollback(r) \/ CleanGenerated(r) \/ CleanAttempt(r) \/ CleanRoot(r)
              \/ CleanContainer(r) \/ CleanEgress(r) \/ CleanScratch(r)
              \/ Report(r) \/ Interrupted(r) \/ Kill(r)
         \/ \E s \in Runs : HostStep(s)
         \/ Reboot
         \/ UNCHANGED vars
BY DEF Next, Step, BodyStep, CleanupStep, TalkStep, HostStep

LEMMA HostEffect ==
  ASSUME TypeOK, NEW s \in Runs, HostStep(s)
  PROVE  /\ MishapsOK' /\ UNCHANGED <<self, image, scratch, rules, sink>>
         /\ \/ /\ box[s] = "starting" /\ UNCHANGED <<flight, vault>>
               /\ \/ box' = [box EXCEPT ![s] = "exited"]
                  \/ box' = [box EXCEPT ![s] = "listening"] /\ \A t \in Runs : ~Up(t)
            \/ /\ Up(s) /\ vault[s].data = "restoring" /\ UNCHANGED <<box, flight>>
               /\ Turns(s, "restored", {}, Original)
            \/ /\ flight' = [flight EXCEPT ![s] = "none"] /\ UNCHANGED vault
               /\ \/ flight[s] = "create" /\ box' = [box EXCEPT ![s] = "created"]
                  \/ flight[s] = "start" /\ box[s] = "created" /\ box' = [box EXCEPT ![s] = "starting"]
                  \/ flight[s] = "start" /\ box[s] # "created" /\ UNCHANGED box
            \/ /\ Running(s) /\ box' = [box EXCEPT ![s] = "exited"] /\ UNCHANGED flight
               /\ Turns(s, vault[s].data, vault[s].tokens, Original)
<1>1. MishapsOK' /\ UNCHANGED <<self, image, scratch, rules, sink>>
  BY MishapType DEF HostStep, Listen, RestoreCompletes, Arrives, VaultExits
<1>2. CASE Listen(s)
  BY <1>1, <1>2 DEF Listen
<1>3. CASE RestoreCompletes(s)
  <2> DEFINE v == [EmptyVault EXCEPT !.data = "restored"]
  <2>1. v \in VaultData /\ v.data = "restored" /\ v.tokens = {} /\ v.attempt = Original
    BY NoShares DEF EmptyVault, VaultData
  <2>2. Turns(s, "restored", {}, Original)
    BY <1>3, <2>1 DEF RestoreCompletes, Turns
  <2> QED
    BY <1>1, <1>3, <2>2 DEF RestoreCompletes
<1>4. CASE Arrives(s)
  <2>1. flight[s] \in {"create", "start"}
    BY <1>4 DEF Arrives, TypeOK
  <2> QED
    BY <1>1, <1>4, <2>1 DEF Arrives, TypeOK
<1>5. CASE VaultExits(s)
  BY <1>1, <1>5, AttemptLost DEF VaultExits
<1> QED
  BY <1>2, <1>3, <1>4, <1>5 DEF HostStep

-----------------------------------------------------------------------------
(* Every step preserves the types.                                         *)
LEMMA TypeStep == IndInv /\ [Next]_vars => TypeOK'
<1> SUFFICES ASSUME IndInv, [Next]_vars PROVE TypeOK'
  OBVIOUS
<1>1. TypeOK /\ self \in [Runs -> Process]
  BY DEF IndInv, TypeOK
<1>2. ASSUME NEW r \in Runs, NEW q \in Process, Becomes(r, q)
      PROVE  self' \in [Runs -> Process]
  BY <1>1, <1>2 DEF Becomes
<1>3. ASSUME self' \in [Runs -> Process], MishapsOK', UNCHANGED hostVars
      PROVE  TypeOK'
  BY <1>1, <1>3 DEF TypeOK, MishapsOK, hostVars
<1>4. ASSUME NEW s \in Runs, NEW data, NEW tokens, NEW attempt, Turns(s, data, tokens, attempt)
      PROVE  vault' \in [Runs -> VaultData]
  BY <1>1, <1>4 DEF Turns, TypeOK
<1>5. CASE \E r \in Runs : Begin(r) \/ Prepare(r) \/ CheckHost(r) \/ Fails(r)
  <2> PICK r \in Runs : Begin(r) \/ Prepare(r) \/ CheckHost(r) \/ Fails(r)
    BY <1>5
  <2>1. CASE Begin(r)
    <3>1. GoesTo(r, "prepare") /\ "prepare" \in Body
      BY <2>1 DEF Begin, Body
    <3> QED
      BY <1>1, <1>2, <2>1, <3>1, GoesToEffect DEF Begin, TypeOK, MishapsOK
  <2>2. CASE Prepare(r)
    <3> DEFINE p == [self[r] EXCEPT !.at = "check_host", !.egress = TRUE]
    <3>1. p \in Process
      <4>1. self[r] \in Process
        BY <1>1
      <4> QED
        BY <4>1 DEF Process, Body
    <3>2. Goes(r, p) /\ UNCHANGED hostVars
      BY <2>2 DEF Prepare
    <3> QED
      BY <1>1, <1>2, <1>3, <3>1, <3>2, GoesEffect
  <2>3. CASE CheckHost(r)
    <3>1. GoesTo(r, "install") /\ "install" \in Body
      BY <2>3 DEF CheckHost, Body
    <3> QED
      BY <1>1, <1>2, <1>3, <2>3, <3>1, GoesToEffect DEF CheckHost
  <2>4. CASE Fails(r)
    <3>1. MishapsOK'
      BY <1>1, <2>4, MishapType DEF Fails
    <3> QED
      BY <1>1, <1>2, <1>3, <2>4, <3>1, RaiseEffect DEF Fails
  <2> QED
    BY <2>1, <2>2, <2>3, <2>4
<1>6. CASE \E r \in Runs : Install(r)
  <2> PICK r \in Runs : Install(r)
    BY <1>6
  <2>1. /\ MishapsOK' /\ UNCHANGED <<box, image, flight, vault, scratch, sink>>
        /\ \E family \in Families, op \in {"chain", "fill", "jump"}, next \in 1 .. 6 :
             Installs(r, family, op, next)
    BY <1>1, InstallEffect DEF Families
  <2>2. PICK family \in Families, op \in {"chain", "fill", "jump"}, next \in 1 .. 6 :
          Installs(r, family, op, next)
    BY <2>1
  <2>3. rules[r][family] \in [chain : {"none", "open", "closed"}, jump : BOOLEAN]
    BY <1>1 DEF TypeOK
  <2>4. Installed(rules[r][family], op) \in [chain : {"none", "open", "closed"}, jump : BOOLEAN]
    BY <2>3 DEF Installed
  <2>5. rules' \in [Runs -> [Families -> [chain : {"none", "open", "closed"}, jump : BOOLEAN]]]
    BY <1>1, <2>2, <2>4 DEF Installs, TypeOK
  <2> QED
    BY <1>1, <1>2, <2>1, <2>2, <2>5 DEF Installs, TypeOK, MishapsOK
<1>7. CASE \E r \in Runs : StartOld(r) \/ StartNew(r)
  <2> PICK r \in Runs : StartOld(r) \/ StartNew(r)
    BY <1>7
  <2>1. Docks(r)
    BY <1>1, DockEffect
  <2>2. self' \in [Runs -> Process]
    BY <1>2, <2>1 DEF Docks
  <2>3. /\ box' \in [Runs -> {"absent", "created", "starting", "listening", "exited"}]
        /\ flight' \in [Runs -> {"none", "create", "start"}]
    <3>1. /\ box \in [Runs -> {"absent", "created", "starting", "listening", "exited"}]
          /\ flight \in [Runs -> {"none", "create", "start"}]
      BY <1>1 DEF TypeOK
    <3>2. /\ \E b \in {"absent", "created", "starting"} : box' = [box EXCEPT ![r] = b]
          /\ flight' = flight \/ \E f \in {"create", "start"} : flight' = [flight EXCEPT ![r] = f]
      BY <2>1 DEF Docks
    <3> QED
      BY <3>1, <3>2
  <2> QED
    BY <1>1, <2>1, <2>2, <2>3 DEF Docks, TypeOK, MishapsOK
<1>8. CASE \E r \in Runs : StopOld(r)
  <2> PICK r \in Runs : StopOld(r)
    BY <1>8
  <2>1. vault' \in [Runs -> VaultData]
    BY <1>1, <1>4, AttemptLost DEF StopOld, Removes
  <2>2. box' \in [Runs -> {"absent", "created", "starting", "listening", "exited"}]
    <3>1. box' = [box EXCEPT ![r] = "absent"]
      BY <1>1, StopEffect
    <3> QED
      BY <1>1, <3>1 DEF TypeOK
  <2>3. self' \in [Runs -> Process]
    BY <1>1, <1>2, StopEffect
  <2> QED
    BY <1>1, <2>1, <2>2, <2>3, StopEffect DEF TypeOK, MishapsOK
<1>9. CASE \E r \in Runs : TalkStep(r)
  <2> PICK r \in Runs : TalkStep(r)
    BY <1>9
  <2>1. Talks(r)
    BY <1>1, TalkEffect
  <2>2. sink' \in [Runs -> BOOLEAN]
    BY <1>1 DEF TalkStep, Reach, Initialize, Fresh, Restore, Restored, Announce, Attempt, Share,
         Decode, Inspect, Delivered, Upgraded, Compare, Redelivered, Revoke, Denied, Reads, HeardThen,
         hostVars, TypeOK
  <2>3. vault' \in [Runs -> VaultData]
    <3>1. CASE Initialize(r) \/ Restore(r) \/ Attempt(r) \/ Revoke(r)
      <4>1. CASE Initialize(r)
        <5>1. PICK s \in Runs : Turns(s, "fresh", {Root(r)}, vault[s].attempt)
          BY <1>1, <4>1, RequestEffect
        <5> QED
          BY <1>4, <5>1
      <4>2. CASE Restore(r)
        <5>1. PICK s \in Runs : Turns(s, "restoring", vault[s].tokens, vault[s].attempt)
          BY <1>1, <4>2, RequestEffect
        <5> QED
          BY <1>4, <5>1
      <4>3. CASE Attempt(r)
        <5>1. PICK s \in Runs : Turns(s, vault[s].data, vault[s].tokens, r)
          BY <1>1, <4>3, RequestEffect
        <5> QED
          BY <1>4, <5>1
      <4>4. CASE Revoke(r)
        <5>1. PICK s \in Runs :
                Turns(s, vault[s].data, vault[s].tokens \ {Generated(r)}, vault[s].attempt)
          BY <1>1, <4>4, RequestEffect
        <5> QED
          BY <1>4, <5>1
      <4> QED
        BY <3>1, <4>1, <4>2, <4>3, <4>4
    <3>2. CASE Share(r)
      BY <1>1, <1>4, <3>2, ShareEffect
    <3>3. CASE UNCHANGED vault
      BY <1>1, <3>3 DEF TypeOK
    <3> QED
      BY <3>1, <3>2, <3>3
      DEF TalkStep, Reach, Fresh, Restored, Announce, Decode, Inspect, Delivered, Upgraded,
          Compare, Redelivered, Denied, Reads, HeardThen, hostVars
  <2> QED
    BY <1>1, <1>2, <2>1, <2>2, <2>3 DEF Talks, TypeOK, MishapsOK
<1>10. CASE \E r \in Runs : Rollback(r)
  <2> PICK r \in Runs : Rollback(r)
    BY <1>10
  <2> DEFINE p == [self[r] EXCEPT !.at = "clean_generated"]
  <2>1. p \in Process
    BY <1>1, ProcessAt DEF Cleaning
  <2>2. Close(r, p, FALSE)
    BY DEF Rollback
  <2> HIDE DEF p
  <2> QED
    BY <1>1, <1>2, <2>1, <2>2, CloseEffect DEF Closes, TypeOK, MishapsOK
<1>11. CASE \E r \in Runs : CleanGenerated(r) \/ CleanAttempt(r) \/ CleanRoot(r)
  <2> PICK r \in Runs : CleanGenerated(r) \/ CleanAttempt(r) \/ CleanRoot(r)
    BY <1>11
  <2>1. Asked(r)
    BY <1>1, AskEffect
  <2>3. vault' \in [Runs -> VaultData]
    BY <1>1, <1>4, AskVault DEF TypeOK
  <2> QED
    BY <1>1, <1>2, <2>1, <2>3 DEF Asked, TypeOK, MishapsOK
<1>12. CASE \E r \in Runs : CleanContainer(r)
  <2> PICK r \in Runs : CleanContainer(r)
    BY <1>12
  <2>1. Gone(r) \/ UNCHANGED <<box, vault>>
    BY <1>1, CleanContainerEffect
  <2>2. vault' \in [Runs -> VaultData]
    BY <1>1, <1>4, <2>1, AttemptLost DEF Gone, TypeOK
  <2>3. box' \in [Runs -> {"absent", "created", "starting", "listening", "exited"}]
    BY <1>1, <2>1 DEF Gone, TypeOK
  <2> QED
    BY <1>1, <1>2, <2>2, <2>3, CleanContainerEffect DEF TypeOK, MishapsOK
<1>13. CASE \E r \in Runs : CleanEgress(r)
  BY <1>1, <1>2, <1>13, CleanEgressEffect DEF TypeOK, MishapsOK
<1>14. CASE \E r \in Runs : CleanScratch(r)
  <2> PICK r \in Runs : CleanScratch(r)
    BY <1>14
  <2>1. scratch' \subseteq Runs /\ vault' \in [Runs -> VaultData]
    <3>1. EmptyVault \in VaultData
      BY NoShares DEF EmptyVault, VaultData
    <3> QED
      BY <1>1, <3>1, CleanScratchEffect DEF TypeOK
  <2> QED
    BY <1>1, <1>2, <2>1, CleanScratchEffect DEF TypeOK, MishapsOK
<1>15. CASE \E r \in Runs : Report(r) \/ Interrupted(r) \/ Kill(r)
  BY <1>1, <1>2, <1>3, <1>15, EndEffect DEF Ends
<1>16. CASE \E s \in Runs : HostStep(s)
  <2> PICK s \in Runs : HostStep(s)
    BY <1>16
  <2>1. /\ box' \in [Runs -> {"absent", "created", "starting", "listening", "exited"}]
        /\ flight' \in [Runs -> {"none", "create", "start"}]
    BY <1>1, HostEffect DEF TypeOK
  <2>2. vault' \in [Runs -> VaultData]
    BY <1>1, <1>4, HostEffect DEF TypeOK
  <2> QED
    BY <1>1, <2>1, <2>2, HostEffect DEF TypeOK, MishapsOK
<1>17. CASE Reboot
  <2>1. box' \in [Runs -> {"absent", "created", "starting", "listening", "exited"}]
    BY <1>1, <1>17 DEF Reboot, TypeOK
  <2>2. /\ flight' \in [Runs -> {"none", "create", "start"}]
        /\ rules' \in [Runs -> [Families -> [chain : {"none", "open", "closed"}, jump : BOOLEAN]]]
    BY <1>17 DEF Reboot, NoRule
  <2>3. vault' \in [Runs -> VaultData]
    <3>1. ASSUME NEW s \in Runs
          PROVE  [vault[s] EXCEPT !.attempt = Original, !.shares = 0] \in VaultData
      <4>1. vault[s] \in VaultData
        BY <1>1 DEF TypeOK
      <4> QED
        BY <4>1, NoShares DEF VaultData
    <3> QED
      BY <1>17, <3>1 DEF Reboot
  <2> QED
    BY <1>1, <1>17, <2>1, <2>2, <2>3, RebootEffect DEF TypeOK, MishapsOK
<1>18. CASE UNCHANGED vars
  BY <1>1, <1>18 DEF vars, hostVars, TypeOK
<1> QED
  BY <1>5, <1>6, <1>7, <1>8, <1>9, <1>10, <1>11, <1>12, <1>13, <1>14, <1>15, <1>16, <1>17, <1>18, NextCases

-----------------------------------------------------------------------------
(* Every step keeps the fence.                                             *)

(* What a step leaves of a run's own state.                                *)
Frame(r) ==
  /\ self'[r] = self[r] /\ box'[r] = box[r] /\ flight'[r] = flight[r] /\ rules'[r] = rules[r]
  /\ r \in scratch' <=> r \in scratch

LEMMA SelfAfter ==
  ASSUME TypeOK, NEW r \in Runs, NEW q \in Process, Becomes(r, q)
  PROVE  self'[r] = q /\ \A s \in Runs \ {r} : self'[s] = self[s]
BY DEF TypeOK, Becomes

LEMMA FenceFrame ==
  ASSUME NEW r \in Runs, Fence(r), Frame(r)
  PROVE  Fence(r)'
BY DEF Fence, Frame, At, Running, Closed

LEMMA FenceStep == IndInv /\ [Next]_vars => FenceInv'
<1> SUFFICES ASSUME IndInv, [Next]_vars PROVE FenceInv'
  OBVIOUS
<1>1. TypeOK /\ FenceInv
  BY DEF IndInv
<1>2. ASSUME NEW r \in Runs, \A s \in Runs \ {r} : Frame(s), Fence(r)'
      PROVE  FenceInv'
  BY <1>1, <1>2, FenceFrame DEF FenceInv
<1>3. ASSUME NEW r \in Runs PROVE /\ self[r] \in Process /\ Fence(r)
                                  /\ rules[r] \in [Families -> [chain : {"none", "open", "closed"}, jump : BOOLEAN]]
                                  /\ box[r] \in {"absent", "created", "starting", "listening", "exited"}
                                  /\ flight[r] \in {"none", "create", "start"}
  BY <1>1 DEF TypeOK, FenceInv
<1>4. ASSUME NEW r \in Runs, Begin(r) \/ Prepare(r) \/ CheckHost(r) \/ Fails(r)
      PROVE  FenceInv'
  <2>1. CASE Begin(r) \/ Prepare(r) \/ CheckHost(r)
    <3>1. Begins(r) /\ self[r].at \in {"begin", "prepare", "check_host"}
      BY <1>1, <2>1, BeginEffect
    <3>2. \A s \in Runs \ {r} : Frame(s)
      BY <1>1, <3>1, SelfAfter DEF Begins, Frame
    <3>3. PICK q \in Process :
            /\ self'[r] = q /\ q.container = self[r].container
            /\ \/ Raised(self[r], q)
               \/ /\ q.n = self[r].n
                  /\ q.at \in {"prepare", "check_host", "install"}
      BY <1>1, <3>1, SelfAfter DEF Begins
    <3>4. Fence(r)'
      BY <1>3, <3>1, <3>3
         DEF Begins, Fence, Raised, At, Running, Closed, Unfenced, Behind, Body, Cleaning
    <3> QED
      BY <1>2, <3>2, <3>4
  <2>2. CASE Fails(r)
    <3>1. PICK q \in Process : Raised(self[r], q) /\ Becomes(r, q)
      BY <1>1, <2>2, FailEffect
    <3>2. \A s \in Runs \ {r} : Frame(s)
      BY <1>1, <2>2, <3>1, SelfAfter, FailEffect DEF Frame, hostVars
    <3>3. Fence(r)'
      BY <1>1, <1>3, <2>2, <3>1, SelfAfter, FailEffect
         DEF hostVars, Fence, Raised, At, Running, Closed, Unfenced, Behind, Body, Cleaning
    <3> QED
      BY <1>2, <3>2, <3>3
  <2> QED
    BY <1>4, <2>1, <2>2
<1>5. ASSUME NEW r \in Runs, Install(r)
      PROVE  FenceInv'
  <2>1. /\ self[r].at = "install" /\ UNCHANGED <<box, flight, scratch>>
        /\ \/ self[r].n = 1 /\ Installs(r, "ipv4", "chain", 2)
           \/ self[r].n = 2 /\ Installs(r, "ipv4", "fill", 3)
           \/ self[r].n = 3 /\ Installs(r, "ipv4", "jump", 4)
           \/ self[r].n = 4 /\ Installs(r, "ipv6", "chain", 5)
           \/ self[r].n = 5 /\ Installs(r, "ipv6", "fill", 6)
           \/ self[r].n = 6 /\ Installs(r, "ipv6", "jump", 1)
    BY <1>1, <1>5, InstallEffect
  <2>2. ASSUME NEW family \in Families, NEW op \in {"chain", "fill", "jump"}, NEW next \in 1 .. 6,
               Installs(r, family, op, next)
        PROVE  /\ \A s \in Runs \ {r} : Frame(s)
               /\ \A f \in Families \ {family} : rules'[r][f] = rules[r][f]
               /\ rules'[r][family] = Installed(rules[r][family], op)
               /\ \/ Raised(self[r], self'[r])
                  \/ /\ self'[r].at = IF next = 1 THEN "start_old" ELSE "install"
                     /\ self'[r].n = next /\ self'[r].container = self[r].container
    <3>1. PICK q \in Process :
            /\ Becomes(r, q)
            /\ \/ Raised(self[r], q)
               \/ /\ q.at = IF next = 1 THEN "start_old" ELSE "install"
                  /\ q.n = next /\ q.container = self[r].container
      BY <2>2 DEF Installs
    <3>2. rules' = [rules EXCEPT ![r][family] = Installed(rules[r][family], op)]
      BY <2>2 DEF Installs
    <3>3. rules \in [Runs -> [Families -> [chain : {"none", "open", "closed"}, jump : BOOLEAN]]]
      BY <1>1 DEF TypeOK
    <3> QED
      BY <1>1, <2>1, <3>1, <3>2, <3>3, SelfAfter DEF Frame
  <2>3. /\ \A s \in Runs \ {r} : Frame(s)
        /\ \E family \in Families, op \in {"chain", "fill", "jump"}, next \in 1 .. 6 :
             /\ \/ self[r].n = 1 /\ family = "ipv4" /\ op = "chain" /\ next = 2
                \/ self[r].n = 2 /\ family = "ipv4" /\ op = "fill" /\ next = 3
                \/ self[r].n = 3 /\ family = "ipv4" /\ op = "jump" /\ next = 4
                \/ self[r].n = 4 /\ family = "ipv6" /\ op = "chain" /\ next = 5
                \/ self[r].n = 5 /\ family = "ipv6" /\ op = "fill" /\ next = 6
                \/ self[r].n = 6 /\ family = "ipv6" /\ op = "jump" /\ next = 1
             /\ \A f \in Families \ {family} : rules'[r][f] = rules[r][f]
             /\ rules'[r][family] = Installed(rules[r][family], op)
             /\ \/ Raised(self[r], self'[r])
                \/ /\ self'[r].at = IF next = 1 THEN "start_old" ELSE "install"
                   /\ self'[r].n = next /\ self'[r].container = self[r].container
    <3>1. /\ "ipv4" \in Families /\ "ipv6" \in Families
          /\ {1, 2, 3, 4, 5, 6} \subseteq 1 .. 6
      BY DEF Families
    <3> QED
      BY <2>1, <2>2, <3>1
  <2>4. Fence(r)'
    <3>1. \A op \in {"chain", "fill", "jump"}, f \in Families :
            LET rule == Installed(rules[r][f], op)
            IN /\ op = "chain" => rule.chain = "open"
               /\ op = "fill" => rule.chain = "closed"
               /\ op = "jump" => rule.jump /\ rule.chain = rules[r][f].chain
      BY <1>3 DEF Installed
    <3> QED
      BY <1>3, <2>1, <2>3, <3>1
         DEF Fence, Raised, At, Running, Closed, Families, Unfenced, Behind, Body, Cleaning
  <2> QED
    BY <1>2, <2>3, <2>4
<1> DEFINE Rest(r) == \A s \in Runs \ {r} : Frame(s)
<1>6. ASSUME NEW r \in Runs, StartOld(r) \/ StartNew(r)
      PROVE  FenceInv'
  <2>1. Docks(r)
    BY <1>1, <1>6, DockEffect
  <2>2. Rest(r)
    BY <1>1, <2>1, SelfAfter DEF Docks, Frame, TypeOK
  <2>3. /\ self'[r].container /\ self'[r].at \in {"reach", "upgraded", "clean_generated"}
        /\ self[r].at \in {"start_old", "start_new"}
        /\ rules'[r] = rules[r] /\ (r \in scratch' <=> r \in scratch)
        /\ \/ box'[r] = "starting" /\ flight'[r] = flight[r]
           \/ /\ self'[r].at = "clean_generated"
              /\ \/ box'[r] = "absent" /\ flight'[r] = "create"
                 \/ box'[r] = "created" /\ flight'[r] = "start"
    BY <1>1, <2>1, SelfAfter DEF Docks, TypeOK, At
  <2>4. Fence(r)'
    BY <1>3, <2>3 DEF Fence, At, Running, Closed, Unfenced, Behind, Body, Cleaning
  <2> QED
    BY <1>2, <2>2, <2>4
<1>7. ASSUME NEW r \in Runs, StopOld(r)
      PROVE  FenceInv'
  <2>1. PICK q \in Process :
          /\ Becomes(r, q) /\ q.at \in {"start_new", "clean_generated"}
          /\ q.at = "clean_generated" => q.container = self[r].container
    BY <1>1, <1>7, StopEffect
  <2>2. /\ self[r].at = "stop_old" /\ box' = [box EXCEPT ![r] = "absent"]
        /\ UNCHANGED <<flight, scratch, rules>>
    BY <1>1, <1>7, StopEffect
  <2>3. Rest(r)
    BY <1>1, <2>1, <2>2, SelfAfter DEF Frame, TypeOK
  <2>4. self'[r] = q /\ box'[r] = "absent"
    BY <1>1, <2>1, <2>2, SelfAfter DEF TypeOK
  <2>5. Fence(r)'
    BY <1>3, <2>1, <2>2, <2>4 DEF Fence, At, Running, Closed, Unfenced, Behind, Body, Cleaning
  <2> QED
    BY <1>2, <2>3, <2>5
<1>8. ASSUME NEW r \in Runs, TalkStep(r)
      PROVE  FenceInv'
  <2>1. Talks(r)
    BY <1>1, <1>8, TalkEffect
  <2>2. PICK q \in Process :
          /\ Becomes(r, q) /\ q.at \in Behind \cup {"clean_generated"}
          /\ q.container = self[r].container
    BY <2>1 DEF Talks
  <2>3. Rest(r) /\ self'[r] = q
    BY <1>1, <2>1, <2>2, SelfAfter DEF Talks, Frame
  <2>4. q.at # "start_old"
    <3>1. PICK p \in Process : Becomes(r, p) /\ (Raised(self[r], p) \/ Moved(r, p))
      BY <1>1, <1>8, TalkMoves
    <3>2. p.at # "start_old"
      BY <3>1 DEF Raised, Moved
    <3> QED
      BY <1>1, <2>3, <3>1, <3>2, SelfAfter
  <2>5. Fence(r)'
    BY <1>3, <2>1, <2>2, <2>3, <2>4
       DEF Talks, Fence, At, Running, Closed, Unfenced, Behind, Body, Cleaning
  <2> QED
    BY <1>2, <2>3, <2>5
<1>9. ASSUME NEW r \in Runs, Rollback(r)
      PROVE  FenceInv'
  <2> DEFINE p == [self[r] EXCEPT !.at = "clean_generated"]
  <2>1. p \in Process /\ p.at = "clean_generated" /\ p.container = self[r].container
    BY <1>3, ProcessAt DEF Process, Cleaning
  <2>2. Close(r, p, FALSE) /\ self[r].at = "rollback"
    BY <1>9 DEF Rollback, At
  <2> HIDE DEF p
  <2>3. /\ \A s \in Runs \ {r} : rules'[s] = rules[s]
        /\ UNCHANGED <<box, flight, scratch>>
        /\ \E q \in Process : Becomes(r, q) /\ q.at = p.at /\ q.container = p.container
    BY <1>1, <2>1, <2>2, CloseEffect DEF Closes
  <2>4. Rest(r)
    BY <1>1, <2>3, SelfAfter DEF Frame
  <2>5. self'[r].at = "clean_generated" /\ self'[r].container = self[r].container
    BY <1>1, <2>1, <2>3, SelfAfter
  <2>6. Fence(r)'
    BY <1>3, <2>2, <2>3, <2>5 DEF Fence, At, Running, Closed, Unfenced, Behind, Body, Cleaning
  <2> QED
    BY <1>2, <2>4, <2>6
<1>10. ASSUME NEW r \in Runs, CleanGenerated(r) \/ CleanAttempt(r) \/ CleanRoot(r)
       PROVE  FenceInv'
  <2>1. Asked(r)
    BY <1>1, <1>10, AskEffect
  <2>2. Rest(r)
    BY <1>1, <2>1, SelfAfter DEF Asked, Frame
  <2>3. self'[r].at \in {"clean_attempt", "clean_root", "clean_container"}
        /\ self'[r].container = self[r].container
    BY <1>1, <2>1, SelfAfter DEF Asked, Same
  <2>4. Fence(r)'
    BY <1>3, <2>1, <2>3
       DEF Asked, Fence, At, Running, Closed, Unfenced, Behind, Body, Cleaning
  <2> QED
    BY <1>2, <2>2, <2>4
<1>11. ASSUME NEW r \in Runs, CleanContainer(r)
       PROVE  FenceInv'
  <2>1. PICK q \in Process :
          /\ Becomes(r, q) /\ q.at = "clean_egress"
          /\ \/ q.container = self[r].container /\ (Gone(r) \/ UNCHANGED <<box, vault>>)
             \/ ~q.container /\ box[r] # "absent" /\ Gone(r)
             \/ ~self[r].container /\ ~q.container /\ UNCHANGED <<box, vault>>
    BY <1>1, <1>11, CleanContainerEffect
  <2>2. self[r].at = "clean_container" /\ UNCHANGED <<flight, scratch, rules>>
    BY <1>1, <1>11, CleanContainerEffect
  <2>3. self'[r] = q /\ (Gone(r) => box'[r] = "absent")
    BY <1>1, <2>1, SelfAfter DEF Gone, TypeOK
  <2>4. Rest(r)
    BY <1>1, <2>1, <2>2, SelfAfter DEF Frame, Gone, TypeOK
  <2>5. Fence(r)'
    BY <1>3, <2>1, <2>2, <2>3 DEF Fence, At, Running, Closed, Unfenced, Behind, Body, Cleaning
  <2> QED
    BY <1>2, <2>4, <2>5
<1>12. ASSUME NEW r \in Runs, CleanEgress(r)
       PROVE  FenceInv'
  <2>1. PICK q \in Process :
          /\ Becomes(r, q) /\ q.at = "clean_scratch" /\ q.container = self[r].container
          /\ UNCHANGED rules \/ ~self[r].container
    BY <1>1, <1>12, CleanEgressEffect
  <2>2. /\ self[r].at = "clean_egress" /\ UNCHANGED <<box, flight, scratch>>
        /\ \A s \in Runs \ {r} : rules'[s] = rules[s]
    BY <1>1, <1>12, CleanEgressEffect
  <2>3. self'[r] = q /\ Rest(r)
    BY <1>1, <2>1, <2>2, SelfAfter DEF Frame
  <2>4. Fence(r)'
    BY <1>3, <2>1, <2>2, <2>3 DEF Fence, At, Running, Closed, Unfenced, Behind, Body, Cleaning
  <2> QED
    BY <1>2, <2>3, <2>4
<1>13. ASSUME NEW r \in Runs, CleanScratch(r)
       PROVE  FenceInv'
  <2>1. PICK q \in Process :
          /\ Becomes(r, q) /\ q.at = "report" /\ Same(self[r], q)
          /\ scratch' = scratch \/ (~self[r].container /\ scratch' = scratch \ {r})
    <3>1. PICK q \in Process :
            /\ Becomes(r, q) /\ q.at = "report" /\ Same(self[r], q)
            /\ \/ UNCHANGED <<scratch, vault>>
               \/ ~self[r].container /\ scratch' = scratch \ {r}
      BY <1>1, <1>13, CleanScratchEffect
    <3> QED
      BY <3>1
  <2>2. self[r].at = "clean_scratch" /\ UNCHANGED <<box, flight, rules>>
    BY <1>1, <1>13, CleanScratchEffect
  <2>3. self'[r] = q /\ Rest(r)
    BY <1>1, <2>1, <2>2, SelfAfter DEF Frame
  <2>4. Fence(r)'
    BY <1>3, <2>1, <2>2, <2>3
       DEF Same, Fence, At, Running, Closed, Unfenced, Behind, Body, Cleaning
  <2> QED
    BY <1>2, <2>3, <2>4
<1>14. ASSUME NEW r \in Runs, Report(r) \/ Interrupted(r) \/ Kill(r)
       PROVE  FenceInv'
  <2>1. Ends(r)
    BY <1>1, <1>14, EndEffect
  <2>2. Rest(r) /\ self'[r].at = "done" /\ self'[r].container = self[r].container
    BY <1>1, <2>1, SelfAfter DEF Ends, Frame, hostVars
  <2>3. Fence(r)'
    BY <1>3, <2>1, <2>2
       DEF Ends, hostVars, Fence, At, Running, Closed, Unfenced, Behind, Body, Cleaning
  <2> QED
    BY <1>2, <2>2, <2>3
<1>15. ASSUME NEW s \in Runs, HostStep(s)
       PROVE  FenceInv'
  <2>1. UNCHANGED <<self, scratch, rules>>
    BY <1>1, <1>15, HostEffect
  <2>2. \/ /\ Running(s) /\ UNCHANGED flight
           /\ \E b \in {"exited", "listening"} : box' = [box EXCEPT ![s] = b]
        \/ UNCHANGED <<box, flight>>
        \/ /\ flight' = [flight EXCEPT ![s] = "none"]
           /\ \/ flight[s] = "create" /\ box' = [box EXCEPT ![s] = "created"]
              \/ flight[s] = "start" /\ box[s] = "created" /\ box' = [box EXCEPT ![s] = "starting"]
              \/ flight[s] = "start" /\ box[s] # "created" /\ UNCHANGED box
    BY <1>1, <1>15, HostEffect DEF Running
  <2>3. Rest(s)
    BY <1>1, <2>1, <2>2 DEF Frame, TypeOK
  <2>4. \/ Running(s) /\ flight'[s] = flight[s] /\ box'[s] \in {"exited", "listening"}
        \/ box'[s] = box[s] /\ flight'[s] = flight[s]
        \/ /\ flight'[s] = "none"
           /\ \/ flight[s] = "create" /\ box'[s] = "created"
              \/ flight[s] = "start" /\ box[s] = "created" /\ box'[s] = "starting"
              \/ flight[s] = "start" /\ box'[s] = box[s]
    BY <1>1, <2>2 DEF TypeOK
  <2>5. Fence(s)'
    BY <1>3, <2>1, <2>4 DEF Fence, At, Running, Closed, Unfenced, Behind, Body, Cleaning
  <2> QED
    BY <1>2, <2>3, <2>5
<1>16. CASE Reboot
  <2>1. ASSUME NEW r \in Runs PROVE Fence(r)'
    <3>1. /\ flight'[r] = "none" /\ (r \in scratch' <=> r \in scratch)
          /\ box'[r] = IF Running(r) THEN "exited" ELSE box[r]
      BY <1>16 DEF Reboot
    <3>2. \/ self'[r].at = "begin" /\ self'[r] = self[r]
          \/ self'[r].at = "done"
      BY <1>1, <1>16, RebootEffect DEF At
    <3>3. ~Running(r)' /\ Fence(r)
      BY <1>3, <3>1 DEF Running
    <3>4. CASE self'[r].at = "begin" /\ self'[r] = self[r]
      <4>1. ~self[r].container /\ self[r].n = 1 /\ box[r] = "absent" /\ box'[r] = "absent"
        BY <3>1, <3>3, <3>4 DEF Fence, At, Unfenced, Running
      <4> QED
        BY <3>1, <3>3, <3>4, <4>1 DEF Fence, At, Unfenced, Behind
    <3>5. CASE self'[r].at = "done"
      <4>1. "done" \notin Behind /\ "done" \notin Unfenced /\ "done" \in Cleaning \cup {"done"}
        BY DEF Behind, Body, Unfenced
      <4> QED
        BY <3>1, <3>3, <3>5, <4>1 DEF Fence, At
    <3> QED
      BY <3>2, <3>4, <3>5
  <2> QED
    BY <2>1 DEF FenceInv
<1>17. CASE UNCHANGED vars
  BY <1>1, <1>17 DEF vars, hostVars, FenceInv, Fence, At, Running, Closed
<1> QED
  BY <1>4, <1>5, <1>6, <1>7, <1>8, <1>9, <1>10, <1>11, <1>12, <1>13, <1>14, <1>15, <1>16, <1>17,
     NextCases

-----------------------------------------------------------------------------
(* Every step keeps what the clean-up may say.                             *)
LEMMA ReportsFrame ==
  ASSUME NEW r \in Runs, Reports(r), Frame(r)
  PROVE  Reports(r)'
BY DEF Reports, Frame, At, NoJump

LEMMA CleanupInvStep == IndInv /\ [Next]_vars => CleanupInv'
<1> SUFFICES ASSUME IndInv, [Next]_vars PROVE CleanupInv'
  OBVIOUS
<1>1. TypeOK /\ FenceInv /\ CleanupInv
  BY DEF IndInv
<1>2. ASSUME NEW r \in Runs, \A s \in Runs \ {r} : Frame(s), Reports(r)'
      PROVE  CleanupInv'
  BY <1>1, <1>2, ReportsFrame DEF CleanupInv
<1>3. ASSUME NEW r \in Runs
      PROVE  /\ self[r] \in Process /\ Fence(r) /\ Reports(r)
             /\ rules[r] \in [Families -> [chain : {"none", "open", "closed"}, jump : BOOLEAN]]
  BY <1>1 DEF TypeOK, FenceInv, CleanupInv
<1> DEFINE Rest(r) == \A s \in Runs \ {r} : Frame(s)
<1>4. ASSUME NEW r \in Runs, self[r].at # "done"
      PROVE  self[r].cleanup # "passed" /\ self[r].outcome # "passed"
  BY <1>3, <1>4 DEF Reports, At
<1>5. ASSUME NEW r \in Runs, Begin(r) \/ Prepare(r) \/ CheckHost(r)
      PROVE  CleanupInv'
  <2>1. Begins(r) /\ self[r].at \in {"begin", "prepare", "check_host"}
    BY <1>1, <1>5, BeginEffect
  <2>2. Rest(r)
    BY <1>1, <2>1, SelfAfter DEF Begins, Frame
  <2>3. PICK q \in Process :
          /\ self'[r] = q
          /\ q.container = self[r].container /\ q.marks = self[r].marks
          /\ q.cleanup = self[r].cleanup
          /\ \/ Raised(self[r], q)
             \/ /\ q.n = self[r].n /\ q.outcome = self[r].outcome
                /\ \/ self[r].at = "begin" /\ q.at = "prepare" /\ q.egress = self[r].egress
                   \/ self[r].at = "prepare" /\ q.at = "check_host" /\ q.egress
                   \/ self[r].at = "check_host" /\ q.at = "install" /\ q.egress = self[r].egress
    BY <1>1, <2>1, SelfAfter DEF Begins
  <2>4. ~self[r].container /\ self[r].n = 1
    BY <1>3, <2>1 DEF Fence, Unfenced
  <2>5. /\ self[r].cleanup # "passed" /\ self[r].outcome # "passed" /\ rules'[r] = rules[r]
        /\ \A f \in Families : rules[r][f].jump => self[r].egress /\ <<f, "chain">> \in self[r].marks
    BY <1>3, <1>4, <2>1 DEF Begins, Reports
  <2>6. /\ ~q.container /\ q.cleanup # "passed" /\ q.outcome # "passed"
        /\ \A f \in Families : rules'[r][f].jump => <<f, "chain">> \in q.marks
    BY <2>3, <2>4, <2>5 DEF Raised
  <2>7. ASSUME Raised(self[r], q)
        PROVE  Reports(r)'
    <3>1. \A f \in Families : rules'[r][f].jump => q.egress
      BY <2>5, <2>7 DEF Raised
    <3>2. q.at \in {"done", "rollback", "clean_generated"}
      BY <2>7 DEF Raised
    <3> QED
      BY <2>3, <2>6, <3>1, <3>2 DEF Reports, At, Unfenced, Behind, Body
  <2>8. ASSUME /\ q.n = self[r].n
               /\ \/ self[r].at = "begin" /\ q.at = "prepare" /\ q.egress = self[r].egress
                  \/ self[r].at = "prepare" /\ q.at = "check_host" /\ q.egress
                  \/ self[r].at = "check_host" /\ q.at = "install" /\ q.egress = self[r].egress
        PROVE  Reports(r)'
    <3>1. self[r].at = "check_host" => self[r].egress
      BY <1>3 DEF Reports
    <3>2. \A f \in Families : rules'[r][f].jump => q.egress
      BY <2>5, <2>8
    <3> QED
      BY <2>3, <2>4, <2>6, <2>8, <3>1, <3>2 DEF Reports, At, Unfenced, Behind, Body
  <2>9. Reports(r)'
    BY <2>3, <2>7, <2>8
  <2> QED
    BY <1>2, <2>2, <2>9
<1>6. ASSUME NEW r \in Runs, Fails(r)
      PROVE  CleanupInv'
  <2>1. PICK q \in Process : Raised(self[r], q) /\ Becomes(r, q)
    BY <1>1, <1>6, FailEffect
  <2>2. self[r].at \in Body /\ UNCHANGED hostVars
    BY <1>1, <1>6, FailEffect
  <2>3. Rest(r) /\ self'[r] = q
    BY <1>1, <2>1, <2>2, SelfAfter DEF Frame, hostVars
  <2>4. self[r].at # "done" /\ self[r].at \notin {"clean_scratch", "report"}
    BY <2>2 DEF Body
  <2>5. Reports(r)'
    BY <1>3, <1>4, <2>1, <2>2, <2>3, <2>4
       DEF hostVars, Fence, Reports, Raised, At, NoJump, Unfenced, Behind, Body
  <2> QED
    BY <1>2, <2>3, <2>5
<1>7. ASSUME NEW r \in Runs, Install(r)
      PROVE  CleanupInv'
  <2>1. /\ self[r].at = "install" /\ UNCHANGED <<box, flight, scratch>>
        /\ \/ self[r].n = 1 /\ Installs(r, "ipv4", "chain", 2)
           \/ self[r].n = 2 /\ Installs(r, "ipv4", "fill", 3)
           \/ self[r].n = 3 /\ Installs(r, "ipv4", "jump", 4)
           \/ self[r].n = 4 /\ Installs(r, "ipv6", "chain", 5)
           \/ self[r].n = 5 /\ Installs(r, "ipv6", "fill", 6)
           \/ self[r].n = 6 /\ Installs(r, "ipv6", "jump", 1)
    BY <1>1, <1>7, InstallEffect
  <2>2. ASSUME NEW family \in Families, NEW op \in {"chain", "fill", "jump"}, NEW next \in 1 .. 6,
               Installs(r, family, op, next),
               op = "jump" => <<family, "chain">> \in self[r].marks,
               next >= 2 => <<"ipv4", "chain">> \in self[r].marks \/ (family = "ipv4" /\ op = "chain"),
               next >= 5 => <<"ipv6", "chain">> \in self[r].marks \/ (family = "ipv6" /\ op = "chain")
        PROVE  CleanupInv'
    <3>1. PICK q \in Process :
            /\ Becomes(r, q)
            /\ \/ Raised(self[r], q)
               \/ /\ q.at = IF next = 1 THEN "start_old" ELSE "install"
                  /\ q.n = next /\ q.container = self[r].container /\ q.egress = self[r].egress
                  /\ q.marks = IF op = "fill" THEN self[r].marks ELSE self[r].marks \cup {<<family, op>>}
                  /\ q.cleanup = self[r].cleanup /\ q.outcome = self[r].outcome
      BY <2>2 DEF Installs
    <3>2. rules' = [rules EXCEPT ![r][family] = Installed(rules[r][family], op)]
      BY <2>2 DEF Installs
    <3>3. rules \in [Runs -> [Families -> [chain : {"none", "open", "closed"}, jump : BOOLEAN]]]
      BY <1>1 DEF TypeOK
    <3>4. Rest(r) /\ self'[r] = q
      BY <1>1, <2>1, <3>1, <3>2, <3>3, SelfAfter DEF Frame
    <3>5. \A f \in Families : rules'[r][f].jump => rules[r][f].jump \/ (f = family /\ op = "jump")
      <4>1. Installed(rules[r][family], op).jump => rules[r][family].jump \/ op = "jump"
        BY <1>3 DEF Installed
      <4>2. /\ rules'[r][family] = Installed(rules[r][family], op)
            /\ \A f \in Families \ {family} : rules'[r][f] = rules[r][f]
        BY <3>2, <3>3
      <4> QED
        BY <4>1, <4>2
    <3>6. ~self[r].container /\ self[r].egress
      BY <1>3, <2>1 DEF Fence, Reports, Unfenced, At
    <3>7. \A f \in Families : rules'[r][f].jump => <<f, "chain">> \in self[r].marks
      BY <1>3, <2>1, <2>2, <3>5 DEF Reports, At
    <3>8. self[r].cleanup # "passed" /\ self[r].outcome # "passed"
      BY <1>4, <2>1
    <3>9. ASSUME Raised(self[r], q)
          PROVE  Reports(r)'
      <4>1. /\ ~q.container /\ q.egress /\ q.cleanup # "passed" /\ q.outcome # "passed"
            /\ q.at \in {"done", "rollback", "clean_generated"} /\ q.at # "done"
            /\ \A f \in Families : rules'[r][f].jump => <<f, "chain">> \in q.marks
        BY <2>1, <3>6, <3>7, <3>8, <3>9 DEF Raised
      <4> QED
        BY <3>4, <4>1 DEF Reports, At
    <3>10. ASSUME /\ q.at = IF next = 1 THEN "start_old" ELSE "install"
                  /\ q.n = next /\ q.container = self[r].container /\ q.egress = self[r].egress
                  /\ q.marks = IF op = "fill" THEN self[r].marks ELSE self[r].marks \cup {<<family, op>>}
                  /\ q.cleanup = self[r].cleanup /\ q.outcome = self[r].outcome
           PROVE  Reports(r)'
      <4>1. /\ next >= 2 => <<"ipv4", "chain">> \in q.marks
            /\ next >= 5 => <<"ipv6", "chain">> \in q.marks
            /\ \A f \in Families : rules'[r][f].jump => <<f, "chain">> \in q.marks
        BY <2>2, <3>7, <3>10
      <4>2. /\ ~q.container /\ q.egress /\ q.cleanup # "passed" /\ q.outcome # "passed"
            /\ q.at \in {"start_old", "install"} /\ q.n = next
        BY <3>6, <3>8, <3>10
      <4> QED
        BY <3>4, <4>1, <4>2 DEF Reports, At
    <3> QED
      BY <1>2, <3>1, <3>4, <3>9, <3>10
  <2>3. /\ "ipv4" \in Families /\ "ipv6" \in Families
        /\ {1, 2, 3, 4, 5, 6} \subseteq 1 .. 6
    BY DEF Families
  <2>4. /\ self[r].n >= 2 => <<"ipv4", "chain">> \in self[r].marks
        /\ self[r].n >= 5 => <<"ipv6", "chain">> \in self[r].marks
    BY <1>3, <2>1 DEF Reports, At
  <2>5. CASE self[r].n = 1 /\ Installs(r, "ipv4", "chain", 2)
    BY <2>2, <2>3, <2>4, <2>5
  <2>6. CASE self[r].n = 2 /\ Installs(r, "ipv4", "fill", 3)
    BY <2>2, <2>3, <2>4, <2>6
  <2>7. CASE self[r].n = 3 /\ Installs(r, "ipv4", "jump", 4)
    BY <2>2, <2>3, <2>4, <2>7
  <2>8. CASE self[r].n = 4 /\ Installs(r, "ipv6", "chain", 5)
    BY <2>2, <2>3, <2>4, <2>8
  <2>9. CASE self[r].n = 5 /\ Installs(r, "ipv6", "fill", 6)
    BY <2>2, <2>3, <2>4, <2>9
  <2>10. CASE self[r].n = 6 /\ Installs(r, "ipv6", "jump", 1)
    BY <2>2, <2>3, <2>4, <2>10
  <2> QED
    BY <2>1, <2>5, <2>6, <2>7, <2>8, <2>9, <2>10
<1>8. ASSUME NEW r \in Runs, StartOld(r) \/ StartNew(r)
      PROVE  CleanupInv'
  <2>1. Docks(r)
    BY <1>1, <1>8, DockEffect
  <2>2. Rest(r)
    BY <1>1, <2>1, SelfAfter DEF Docks, Frame, TypeOK
  <2>3. /\ self'[r].at \in {"reach", "upgraded", "clean_generated"}
        /\ self'[r].egress = self[r].egress /\ self'[r].marks = self[r].marks
        /\ self'[r].cleanup = self[r].cleanup /\ self'[r].outcome = self[r].outcome
        /\ self[r].at \in {"start_old", "start_new"} /\ rules'[r] = rules[r]
    BY <1>1, <2>1, SelfAfter DEF Docks, At
  <2>4. Reports(r)'
    BY <1>3, <1>4, <2>3 DEF Reports, At, NoJump, Unfenced, Behind, Body
  <2> QED
    BY <1>2, <2>2, <2>4
<1>9. ASSUME NEW r \in Runs, StopOld(r)
      PROVE  CleanupInv'
  <2>1. PICK q \in Process :
          /\ Becomes(r, q) /\ q.at \in {"start_new", "clean_generated"}
          /\ q.egress = self[r].egress /\ q.marks = self[r].marks
          /\ q.cleanup = self[r].cleanup /\ q.outcome = self[r].outcome
    BY <1>1, <1>9, StopEffect
  <2>2. /\ self[r].at = "stop_old" /\ box' = [box EXCEPT ![r] = "absent"]
        /\ UNCHANGED <<flight, scratch, rules>>
    BY <1>1, <1>9, StopEffect
  <2>3. Rest(r) /\ self'[r] = q
    BY <1>1, <2>1, <2>2, SelfAfter DEF Frame, TypeOK
  <2>4. Reports(r)'
    BY <1>3, <1>4, <2>1, <2>2, <2>3 DEF Reports, At, NoJump, Unfenced, Behind, Body
  <2> QED
    BY <1>2, <2>3, <2>4
<1>10. ASSUME NEW r \in Runs, TalkStep(r)
       PROVE  CleanupInv'
  <2>1. Talks(r)
    BY <1>1, <1>10, TalkEffect
  <2>2. PICK q \in Process :
          /\ Becomes(r, q) /\ q.at \in Behind \cup {"clean_generated"}
          /\ q.container = self[r].container /\ q.egress = self[r].egress
          /\ q.marks = self[r].marks
          /\ q.cleanup = self[r].cleanup /\ q.outcome = self[r].outcome
    BY <2>1 DEF Talks
  <2>3. /\ Rest(r) /\ self'[r] = q /\ self[r].at \in Behind
        /\ UNCHANGED <<box, flight, scratch, rules>>
    BY <1>1, <2>1, <2>2, SelfAfter DEF Talks, Frame
  <2>4. Reports(r)'
    BY <1>3, <1>4, <2>2, <2>3 DEF Reports, At, NoJump, Unfenced, Behind, Body
  <2> QED
    BY <1>2, <2>3, <2>4
<1>11. ASSUME NEW r \in Runs, Rollback(r)
       PROVE  CleanupInv'
  <2> DEFINE p == [self[r] EXCEPT !.at = "clean_generated"]
  <2>1. /\ p \in Process /\ p.at = "clean_generated" /\ p.container = self[r].container
        /\ p.egress = self[r].egress /\ p.marks = self[r].marks
        /\ p.cleanup = self[r].cleanup /\ p.outcome = self[r].outcome
    BY <1>3, ProcessAt DEF Process, Cleaning
  <2>2. Close(r, p, FALSE) /\ self[r].at = "rollback"
    BY <1>11 DEF Rollback, At
  <2> HIDE DEF p
  <2>3. /\ \A s \in Runs \ {r} : rules'[s] = rules[s]
        /\ UNCHANGED <<box, flight, scratch>>
        /\ Closes(r, p, FALSE)
    BY <1>1, <2>1, <2>2, CloseEffect
  <2>4. PICK failed \in BOOLEAN, q \in Process :
          /\ Becomes(r, q)
          /\ q.at = p.at /\ q.container = p.container /\ q.egress = p.egress
          /\ q.cleanup = p.cleanup /\ q.outcome = p.outcome
          /\ q.marks = IF failed THEN p.marks ELSE {}
          /\ \A f \in Families : rules'[r][f].jump =>
               /\ rules[r][f].jump
               /\ ~failed => <<f, "chain">> \notin self[r].marks
    BY <2>3 DEF Closes
  <2>5. Rest(r) /\ self'[r] = q
    BY <1>1, <2>3, <2>4, SelfAfter DEF Frame
  <2>6. ~self[r].container /\ self[r].cleanup # "passed" /\ self[r].outcome # "passed"
    BY <1>3, <1>4, <2>2 DEF Fence, Unfenced
  <2>7. \A f \in Families : rules[r][f].jump => self[r].egress /\ <<f, "chain">> \in self[r].marks
    BY <1>3, <2>2 DEF Reports
  <2>8. Reports(r)'
    BY <2>1, <2>4, <2>5, <2>6, <2>7 DEF Reports, At, Unfenced, Behind, Body
  <2> QED
    BY <1>2, <2>5, <2>8
<1>12. ASSUME NEW r \in Runs, CleanGenerated(r) \/ CleanAttempt(r) \/ CleanRoot(r)
       PROVE  CleanupInv'
  <2>1. Asked(r)
    BY <1>1, <1>12, AskEffect
  <2>2. PICK q \in Process : /\ Becomes(r, q) /\ Same(self[r], q)
                             /\ q.at \in {"clean_attempt", "clean_root", "clean_container"}
    BY <2>1 DEF Asked
  <2>3. /\ Rest(r) /\ self'[r] = q
        /\ self[r].at \in {"clean_generated", "clean_attempt", "clean_root"}
        /\ UNCHANGED <<box, flight, scratch, rules>>
    BY <1>1, <2>1, <2>2, SelfAfter DEF Asked, Frame
  <2>4. Reports(r)'
    BY <1>3, <1>4, <2>2, <2>3 DEF Same, Reports, At, NoJump, Unfenced, Behind, Body
  <2> QED
    BY <1>2, <2>3, <2>4
<1>13. ASSUME NEW r \in Runs, CleanContainer(r)
       PROVE  CleanupInv'
  <2>1. PICK q \in Process :
          /\ Becomes(r, q) /\ q.at = "clean_egress"
          /\ q.egress = self[r].egress /\ q.marks = self[r].marks
          /\ q.cleanup = self[r].cleanup /\ q.outcome = self[r].outcome
          /\ q.container => self[r].container
          /\ UNCHANGED box \/ box' = [box EXCEPT ![r] = "absent"]
    BY <1>1, <1>13, CleanContainerEffect DEF Gone
  <2>2. self[r].at = "clean_container" /\ UNCHANGED <<flight, scratch, rules>>
    BY <1>1, <1>13, CleanContainerEffect
  <2>3. Rest(r) /\ self'[r] = q
    BY <1>1, <2>1, <2>2, SelfAfter DEF Frame, TypeOK
  <2>4. Reports(r)'
    BY <1>3, <1>4, <2>1, <2>2, <2>3 DEF Reports, At, NoJump, Unfenced, Behind, Body
  <2> QED
    BY <1>2, <2>3, <2>4
<1>14. ASSUME NEW r \in Runs, CleanEgress(r)
       PROVE  CleanupInv'
  <2>1. PICK q \in Process :
          /\ Becomes(r, q) /\ q.at = "clean_scratch" /\ q.container = self[r].container
          /\ q.cleanup = self[r].cleanup /\ q.outcome = self[r].outcome
          /\ \/ UNCHANGED rules /\ (self[r].egress => q.bad)
             \/ /\ ~self[r].container
                /\ \A f \in Families : rules'[r][f].jump /\ ~q.bad =>
                     rules[r][f].jump /\ <<f, "chain">> \notin self[r].marks
    BY <1>1, <1>14, CleanEgressEffect
  <2>2. /\ self[r].at = "clean_egress" /\ UNCHANGED <<box, flight, scratch>>
        /\ \A s \in Runs \ {r} : rules'[s] = rules[s]
    BY <1>1, <1>14, CleanEgressEffect
  <2>3. self'[r] = q /\ Rest(r)
    BY <1>1, <2>1, <2>2, SelfAfter DEF Frame
  <2>4. /\ \A f \in Families : rules[r][f].jump => self[r].egress /\ <<f, "chain">> \in self[r].marks
        /\ self[r].container => self[r].egress
        /\ self[r].cleanup # "passed" /\ self[r].outcome # "passed"
    BY <1>3, <1>4, <2>2 DEF Reports, At
  <2>5. ~q.bad => ~q.container /\ \A f \in Families : ~rules'[r][f].jump
    BY <2>1, <2>4
  <2>6. Reports(r)'
    BY <2>1, <2>3, <2>4, <2>5 DEF Reports, At, NoJump, Behind, Body
  <2> QED
    BY <1>2, <2>3, <2>6
<1>15. ASSUME NEW r \in Runs, CleanScratch(r)
       PROVE  CleanupInv'
  <2>1. PICK q \in Process :
          /\ Becomes(r, q) /\ q.at = "report" /\ Same(self[r], q) /\ (self[r].bad => q.bad)
          /\ \/ scratch' = scratch /\ (self[r].container \/ q.bad)
             \/ ~self[r].container /\ scratch' = scratch \ {r}
    <3>1. PICK q \in Process :
          /\ Becomes(r, q) /\ q.at = "report" /\ Same(self[r], q) /\ (self[r].bad => q.bad)
          /\ \/ UNCHANGED <<scratch, vault>> /\ (self[r].container \/ q.bad)
             \/ ~self[r].container /\ scratch' = scratch \ {r}
      BY <1>1, <1>15, CleanScratchEffect
    <3> QED
      BY <3>1
  <2>2. self[r].at = "clean_scratch" /\ UNCHANGED <<box, flight, rules>>
    BY <1>1, <1>15, CleanScratchEffect
  <2>3. self'[r] = q /\ Rest(r)
    BY <1>1, <2>1, <2>2, SelfAfter DEF Frame
  <2>4. Reports(r)'
    BY <1>3, <1>4, <2>1, <2>2, <2>3 DEF Same, Reports, At, NoJump, Behind, Body
  <2> QED
    BY <1>2, <2>3, <2>4
<1>16. ASSUME NEW r \in Runs, Report(r) \/ Interrupted(r) \/ Kill(r)
       PROVE  CleanupInv'
  <2>1. Ends(r)
    BY <1>1, <1>16, EndEffect
  <2>2. PICK q \in Process :
          /\ Becomes(r, q) /\ q.at = "done" /\ q.container = self[r].container
          /\ q.started = self[r].started /\ q.result = self[r].result
          /\ \/ /\ self[r].at = "report" /\ q.cleanup = IF self[r].bad THEN "failed" ELSE "passed"
                /\ q.outcome = "passed" => self[r].result /\ ~self[r].bad
             \/ q.cleanup \in {"failed", self[r].cleanup} /\ q.outcome \in {"failed", "killed"}
    BY <2>1 DEF Ends
  <2>3. /\ Rest(r) /\ self'[r] = q /\ self[r].at # "done"
        /\ UNCHANGED <<box, flight, rules, scratch>>
    BY <1>1, <2>1, <2>2, SelfAfter DEF Ends, Frame, hostVars
  <2>4. self[r].at = "report" /\ ~self[r].bad =>
          NoJump(r) /\ r \notin scratch /\ box[r] = "absent" /\ flight[r] # "create"
    BY <1>3 DEF Reports, Fence, At
  <2>5. self[r].cleanup # "passed"
    BY <1>4, <2>3
  <2>6. Reports(r)'
    BY <2>2, <2>3, <2>4, <2>5 DEF Reports, At, NoJump, Behind, Body
  <2> QED
    BY <1>2, <2>3, <2>6
<1>17. ASSUME NEW s \in Runs, HostStep(s)
       PROVE  CleanupInv'
  <2>1. UNCHANGED <<self, scratch, rules>>
    BY <1>1, <1>17, HostEffect
  <2>2. \/ /\ Running(s) /\ UNCHANGED flight
           /\ \E b \in {"exited", "listening"} : box' = [box EXCEPT ![s] = b]
        \/ UNCHANGED <<box, flight>>
        \/ /\ flight' = [flight EXCEPT ![s] = "none"]
           /\ \/ flight[s] = "create" /\ box' = [box EXCEPT ![s] = "created"]
              \/ flight[s] = "start" /\ box[s] = "created" /\ box' = [box EXCEPT ![s] = "starting"]
              \/ flight[s] = "start" /\ box[s] # "created" /\ UNCHANGED box
    BY <1>1, <1>17, HostEffect DEF Running
  <2>3. Rest(s)
    BY <1>1, <2>1, <2>2 DEF Frame, TypeOK
  <2>4. \/ box[s] # "absent" /\ flight'[s] = flight[s]
        \/ box'[s] = box[s] /\ flight'[s] = flight[s]
        \/ flight'[s] = "none" /\ flight[s] = "create"
        \/ flight'[s] = "none" /\ box[s] = "created"
        \/ flight'[s] = "none" /\ box'[s] = box[s]
    BY <1>1, <2>2 DEF TypeOK, Running
  <2>5. Reports(s)'
    BY <1>3, <2>1, <2>4 DEF Reports, At, NoJump
  <2> QED
    BY <1>2, <2>3, <2>5
<1>18. CASE Reboot
  <2>1. ASSUME NEW r \in Runs PROVE Reports(r)'
    <3>1. /\ flight'[r] = "none" /\ (r \in scratch' <=> r \in scratch)
          /\ box'[r] = IF Running(r) THEN "exited" ELSE box[r]
          /\ rules'[r] = [f \in Families |-> NoRule]
      BY <1>18 DEF Reboot
    <3>2. \A f \in Families : ~rules'[r][f].jump
      BY <3>1 DEF NoRule
    <3>3. CASE self'[r] = self[r]
      BY <1>3, <3>1, <3>2, <3>3 DEF Reports, At, NoJump, Running
    <3>4. CASE self'[r] # self[r]
      <4>1. /\ self'[r].at = "done" /\ self[r].at # "done" /\ self'[r].outcome = "killed"
            /\ self'[r].cleanup = self[r].cleanup
        BY <1>1, <1>18, <3>4, RebootEffect DEF At
      <4> QED
        BY <1>4, <4>1 DEF Reports, At, Behind, Body
    <3> QED
      BY <3>3, <3>4
  <2> QED
    BY <2>1 DEF CleanupInv
<1>19. CASE UNCHANGED vars
  BY <1>1, <1>19 DEF vars, hostVars, CleanupInv, Reports, At, NoJump
<1> QED
  BY <1>5, <1>6, <1>7, <1>8, <1>9, <1>10, <1>11, <1>12, <1>13, <1>14, <1>15, <1>16, <1>17, <1>18,
     <1>19, NextCases

-----------------------------------------------------------------------------
(* Every step keeps what the runs know of root generations.                *)

LEMMA TurnsAt ==
  ASSUME TypeOK, NEW s \in Runs, NEW data, NEW tokens, NEW attempt, Turns(s, data, tokens, attempt)
  PROVE  /\ vault'[s].data = data /\ vault'[s].tokens = tokens /\ vault'[s].attempt = attempt
         /\ \A t \in Runs \ {s} : vault'[t] = vault[t]
BY DEF Turns, TypeOK

(* No Vault begins to answer, and no root generation begins.               *)
Quiet ==
  /\ \A s \in Runs : Up(s)' => Up(s)
  /\ \A s \in Runs : \/ vault'[s].attempt = Original
                     \/ vault'[s].attempt = vault[s].attempt /\ Healthy(s)'

LEMMA QuietIdle ==
  ASSUME Quiet, NEW r \in Runs, Idle(r)
  PROVE  Idle(r)'
BY RehearsalAssumption DEF Quiet, Idle

LEMMA QuietOthers ==
  ASSUME Quiet, NEW r \in Runs, Knows(r), self'[r] = self[r]
  PROVE  Knows(r)'
BY QuietIdle DEF Knows, At

LEMMA QuietKept ==
  ASSUME AttemptInv, Quiet, NEW r \in Runs, \A s \in Runs \ {r} : self'[s] = self[s], Knows(r)'
  PROVE  AttemptInv'
<1>1. \A s \in Runs \ {r} : Knows(s)'
  BY QuietOthers DEF AttemptInv
<1> QED
  BY <1>1 DEF AttemptInv, Quiet

LEMMA QuietWhenStill ==
  ASSUME AttemptInv, UNCHANGED <<box, vault>>
  PROVE  Quiet
BY DEF AttemptInv, Quiet, Up, Healthy

(* A Vault that loses its root generation, or keeps it, or stops.          *)
LEMMA QuietWhenTurned ==
  ASSUME TypeOK, AttemptInv, NEW s \in Runs, NEW data, NEW tokens, NEW attempt,
         Turns(s, data, tokens, attempt),
         \/ attempt = Original
         \/ attempt = vault[s].attempt /\ box' = box /\ (data # "empty" \/ data = vault[s].data),
         \A t \in Runs : box'[t] = box[t] \/ (t = s /\ box'[t] # "listening" /\ attempt = Original)
  PROVE  Quiet
<1>1. /\ vault'[s].data = data /\ vault'[s].attempt = attempt
      /\ \A t \in Runs \ {s} : vault'[t] = vault[t]
  BY TurnsAt
<1>2. \A t \in Runs : Up(t)' => Up(t)
  BY DEF Up
<1>3. ASSUME NEW t \in Runs, t # s
      PROVE  vault'[t].attempt = Original \/ (vault'[t].attempt = vault[t].attempt /\ Healthy(t)')
  BY <1>1, <1>3 DEF AttemptInv, Healthy, Up
<1>4. vault'[s].attempt = Original \/ (vault'[s].attempt = vault[s].attempt /\ Healthy(s)')
  BY <1>1 DEF AttemptInv, Healthy, Up
<1> QED
  BY <1>2, <1>3, <1>4 DEF Quiet

LEMMA AttemptStep == IndInv /\ [Next]_vars => AttemptInv'
<1> SUFFICES ASSUME IndInv, [Next]_vars PROVE AttemptInv'
  OBVIOUS
<1>1. TypeOK /\ FenceInv /\ CleanupInv /\ AttemptInv
  BY DEF IndInv
<1>2. ASSUME NEW r \in Runs
      PROVE  /\ self[r] \in Process /\ Knows(r) /\ Fence(r) /\ r # Original
             /\ self[r].at # "done" => self[r].cleanup # "passed"
  BY <1>1, RehearsalAssumption DEF TypeOK, FenceInv, CleanupInv, AttemptInv, Reports, At
<1>3. ASSUME NEW r \in Runs, NEW q \in Process, Becomes(r, q), Quiet,
             Idle(r)' => Knows(r)',
             ~Idle(r) => Knows(r)'
      PROVE  AttemptInv'
  <2>1. Knows(r)'
    BY <1>3, QuietIdle
  <2> QED
    BY <1>1, <1>3, <2>1, SelfAfter, QuietKept
<1>4. ASSUME NEW r \in Runs, Begin(r) \/ Prepare(r) \/ CheckHost(r) \/ Fails(r) \/ Install(r)
      PROVE  AttemptInv'
  <2>1. PICK q \in Process :
          /\ Becomes(r, q) /\ q.started = self[r].started /\ q.cleanup = self[r].cleanup
          /\ q.at \in {"prepare", "check_host", "install", "start_old", "done", "rollback",
                       "clean_generated"}
    <3>1. CASE Begin(r) \/ Prepare(r) \/ CheckHost(r)
      BY <1>1, <3>1, BeginEffect DEF Begins, Raised
    <3>2. CASE Fails(r)
      BY <1>1, <3>2, FailEffect DEF Raised
    <3>3. CASE Install(r)
      <4>1. PICK family \in {"ipv4", "ipv6"}, op \in {"chain", "fill", "jump"}, next \in 1 .. 6 :
              Installs(r, family, op, next)
        BY <1>1, <3>3, InstallEffect
      <4> QED
        BY <4>1 DEF Installs, Raised
    <3> QED
      BY <1>4, <3>1, <3>2, <3>3
  <2>2. UNCHANGED <<box, vault>> /\ self[r].at # "done"
    <3>1. CASE Begin(r) \/ Prepare(r) \/ CheckHost(r)
      BY <1>1, <3>1, BeginEffect DEF Begins
    <3>2. CASE Fails(r)
      BY <1>1, <3>2, FailEffect DEF hostVars, Body
    <3>3. CASE Install(r)
      BY <1>1, <3>3, InstallEffect
    <3> QED
      BY <1>4, <3>1, <3>2, <3>3
  <2>3. Quiet /\ self'[r] = q
    BY <1>1, <2>1, <2>2, QuietWhenStill, SelfAfter
  <2>4. Idle(r)' = Idle(r)
    BY <2>2 DEF Idle
  <2>5. Knows(r)'
    BY <1>2, <2>1, <2>2, <2>3, <2>4 DEF Knows, At
  <2> QED
    BY <1>3, <2>1, <2>3, <2>5
<1>5. ASSUME NEW r \in Runs, StartOld(r) \/ StartNew(r)
      PROVE  AttemptInv'
  <2>1. Docks(r)
    BY <1>1, <1>5, DockEffect
  <2>2. PICK q \in Process :
          /\ Becomes(r, q) /\ q.started = self[r].started /\ q.cleanup = self[r].cleanup
          /\ q.at \in {"reach", "upgraded", "clean_generated"}
          /\ \E b \in {"absent", "created", "starting"} : box' = [box EXCEPT ![r] = b]
    BY <2>1 DEF Docks
  <2>3. box[r] = "absent" /\ self[r].at \in {"start_old", "start_new"} /\ UNCHANGED vault
    BY <1>2, <2>1 DEF Docks, Fence, At
  <2>4. \A s \in Runs : Up(s)' = Up(s)
    BY <1>1, <2>2, <2>3 DEF Up, TypeOK
  <2>5. Quiet /\ self'[r] = q
    BY <1>1, <2>2, <2>3, <2>4, SelfAfter DEF Quiet, AttemptInv, Healthy
  <2>6. Idle(r)' = Idle(r)
    BY <2>3 DEF Idle
  <2>7. Knows(r)'
    BY <1>2, <2>2, <2>3, <2>5, <2>6 DEF Knows, At
  <2> QED
    BY <1>3, <2>2, <2>5, <2>7
<1>6. ASSUME NEW r \in Runs, StopOld(r)
      PROVE  AttemptInv'
  <2>1. PICK q \in Process :
          /\ Becomes(r, q) /\ q.at \in {"start_new", "clean_generated"}
          /\ q.started = self[r].started /\ q.cleanup = self[r].cleanup
    BY <1>1, <1>6, StopEffect
  <2>2. self[r].at = "stop_old" /\ box' = [box EXCEPT ![r] = "absent"]
    BY <1>1, <1>6, StopEffect
  <2>3. Turns(r, vault[r].data, vault[r].tokens, Original)
    BY <1>1, <1>6, AttemptLost DEF StopOld, Removes
  <2>4. Quiet
    <3>1. \A t \in Runs : box'[t] = box[t] \/ (t = r /\ box'[t] # "listening")
      BY <1>1, <2>2 DEF TypeOK
    <3> QED
      BY <1>1, <2>3, <3>1, QuietWhenTurned
  <2>5. self'[r] = q
    BY <1>1, <2>1, SelfAfter
  <2>6. Knows(r)'
    BY <1>2, <2>1, <2>2, <2>4, <2>5, QuietIdle DEF Knows, At
  <2> QED
    BY <1>3, <2>1, <2>4, <2>6
<1>7. ASSUME NEW r \in Runs, TalkStep(r)
      PROVE  AttemptInv'
  <2>1. PICK q \in Process : Becomes(r, q) /\ (Raised(self[r], q) \/ Moved(r, q))
    BY <1>1, <1>7, TalkMoves
  <2>2. /\ self[r].at \notin {"begin", "done", "install"} /\ box' = box
        /\ self'[r] = q /\ \A t \in Runs \ {r} : self'[t] = self[t]
    BY <1>1, <1>7, <2>1, TalkMoves, TalkEffect, SelfAfter DEF Talks
  <2>3. self[r].cleanup # "passed" /\ q.cleanup # "passed"
    BY <1>2, <2>1, <2>2 DEF Raised, Moved
  <2>4. CASE Attempt(r)
    <3>1. PICK s \in Runs : /\ Healthy(s) /\ vault[s].attempt = Original
                            /\ Turns(s, vault[s].data, vault[s].tokens, r)
      BY <1>1, <2>4, RequestEffect
    <3>2. /\ vault'[s].data = vault[s].data /\ vault'[s].attempt = r
          /\ \A t \in Runs \ {s} : vault'[t] = vault[t]
      BY <1>1, <3>1, TurnsAt
    <3>3. \A t \in Runs : (Up(t)' <=> Up(t)) /\ (Healthy(t) => Healthy(t)')
      BY <2>2, <3>2 DEF Up, Healthy
    <3>4. ASSUME NEW t \in Runs \ {r}
          PROVE  Knows(t)'
      <4>1. Idle(t) => Idle(t)'
        BY <3>2 DEF Idle
      <4> QED
        BY <1>2, <2>2, <4>1 DEF Knows, At
    <3>5. self[r].at = "attempt" /\ self[r].started
      BY <1>2, <2>4 DEF Attempt, At, Knows
    <3>6. q.started /\ q.at \in {"share", "clean_generated"}
      BY <2>1, <2>2, <3>5 DEF Raised, Moved
    <3>7. Knows(r)'
      BY <2>2, <2>3, <3>6 DEF Knows, At
    <3>8. \A t \in Runs : vault'[t].attempt # Original => Healthy(t)'
      BY <1>1, <3>1, <3>2, <3>3 DEF AttemptInv
    <3> QED
      BY <1>1, <3>3, <3>4, <3>7, <3>8 DEF AttemptInv
  <2>5. CASE Share(r)
    <3>1. PICK s \in Runs :
            /\ Healthy(s) /\ vault[s].attempt = r
            /\ \/ /\ Turns(s, vault[s].data, vault[s].tokens, r) /\ GoesTo(r, "share")
               \/ /\ Turns(s, vault[s].data, vault[s].tokens \cup {Generated(r)}, Original)
                  /\ GoesTo(r, "decode")
      BY <1>1, <2>5, ShareEffect
    <3>2. Quiet
      BY <1>1, <2>2, <3>1, QuietWhenTurned
    <3>3. self[r].at = "share" /\ self[r].started
      BY <1>2, <2>5 DEF Share, At, Knows
    <3>4. q.started /\ q.at \in {"share", "decode", "clean_generated"}
      BY <2>1, <2>2, <3>3 DEF Raised, Moved
    <3>5. q.at = "decode" => Idle(r)'
      <4>1. ASSUME GoesTo(r, "share")
            PROVE  q.at # "decode"
        <5>1. \E p \in Process : /\ p = [self[r] EXCEPT !.at = "share"] \/ Raised(self[r], p)
                                 /\ Becomes(r, p)
          BY <1>1, <4>1, GoesToEffect DEF Body
        <5>2. [self[r] EXCEPT !.at = "share"].at = "share"
          BY <1>2 DEF Process
        <5> QED
          BY <1>1, <2>2, <5>1, <5>2, SelfAfter DEF Raised
      <4>2. ASSUME Turns(s, vault[s].data, vault[s].tokens \cup {Generated(r)}, Original)
            PROVE  Idle(r)'
        <5>1. /\ vault'[s].attempt = Original
              /\ \A t \in Runs \ {s} : vault'[t] = vault[t]
          BY <1>1, <4>2, TurnsAt
        <5>2. \A t \in Runs \ {s} : vault[t].attempt # r
          BY <1>1, <1>2, <3>1 DEF AttemptInv, Healthy
        <5> QED
          BY <1>2, <5>1, <5>2 DEF Idle
      <4> QED
        BY <3>1, <4>1, <4>2
    <3>6. Knows(r)'
      BY <2>2, <2>3, <3>4, <3>5 DEF Knows, At
    <3> QED
      BY <1>3, <2>1, <3>2, <3>6
  <2>6. CASE ~Attempt(r) /\ ~Share(r)
    <3>1. Quiet
      <4>1. CASE Initialize(r)
        <5>1. PICK s \in Runs : Turns(s, "fresh", {Root(r)}, vault[s].attempt)
          BY <1>1, <4>1, RequestEffect
        <5> QED
          BY <1>1, <2>2, <5>1, QuietWhenTurned
      <4>2. CASE Restore(r)
        <5>1. PICK s \in Runs : Turns(s, "restoring", vault[s].tokens, vault[s].attempt)
          BY <1>1, <4>2, RequestEffect
        <5> QED
          BY <1>1, <2>2, <5>1, QuietWhenTurned
      <4>3. CASE Revoke(r)
        <5>1. PICK s \in Runs :
                Turns(s, vault[s].data, vault[s].tokens \ {Generated(r)}, vault[s].attempt)
          BY <1>1, <4>3, RequestEffect
        <5> QED
          BY <1>1, <2>2, <5>1, QuietWhenTurned
      <4>4. CASE UNCHANGED vault
        BY <1>1, <2>2, <4>4, QuietWhenStill
      <4> QED
        BY <1>7, <2>6, <4>1, <4>2, <4>3, <4>4
        DEF TalkStep, Reach, Fresh, Restored, Announce, Decode, Inspect, Delivered, Upgraded,
            Compare, Redelivered, Denied, Reads, HeardThen, hostVars
    <3>2. self[r].at \notin {"attempt", "share"}
      BY <1>7, <2>6 DEF TalkStep, Reach, Initialize, Fresh, Restore, Restored, Announce, Decode,
           Inspect, Delivered, Upgraded, Compare, Redelivered, Revoke, Denied, At
    <3>3. Idle(r) => Idle(r)'
      BY <3>1, QuietIdle
    <3>4. CASE Raised(self[r], q)
      <4>1. q.at \in {"rollback", "clean_generated"} /\ q.started = self[r].started
        BY <2>2, <3>4 DEF Raised
      <4>2. Knows(r)'
        BY <1>2, <2>2, <2>3, <3>3, <4>1 DEF Knows, At
      <4> QED
        BY <1>3, <2>1, <3>1, <4>2
    <3>5. CASE Moved(r, q)
      <4>1. /\ q.at \notin {"share", "decode", "done", "clean_root", "clean_container",
                            "clean_egress", "clean_scratch", "report"}
            /\ q.at = "attempt" => self[r].at = "announce" /\ q.started
            /\ self[r].at = "announce" => q.started
            /\ self[r].at \notin {"announce", "decode"} => q.started = self[r].started
        BY <2>6, <3>2, <3>5 DEF Moved
      <4>2. Knows(r)'
        BY <1>2, <2>2, <2>3, <3>3, <4>1 DEF Knows, At
      <4> QED
        BY <1>3, <2>1, <3>1, <4>2
    <3> QED
      BY <2>1, <3>4, <3>5
  <2> QED
    BY <2>4, <2>5, <2>6
<1>8. ASSUME NEW r \in Runs, Rollback(r)
      PROVE  AttemptInv'
  <2> DEFINE p == [self[r] EXCEPT !.at = "clean_generated"]
  <2>1. /\ p \in Process /\ p.at = "clean_generated"
        /\ p.started = self[r].started /\ p.cleanup = self[r].cleanup
    BY <1>2, ProcessAt DEF Process, Cleaning
  <2>2. Close(r, p, FALSE) /\ self[r].at = "rollback"
    BY <1>8 DEF Rollback, At
  <2> HIDE DEF p
  <2>3. /\ UNCHANGED <<box, vault>>
        /\ \E q \in Process : /\ Becomes(r, q) /\ q.at = p.at /\ q.started = p.started
                              /\ q.cleanup = p.cleanup
    BY <1>1, <2>1, <2>2, CloseEffect DEF Closes
  <2>4. PICK q \in Process : /\ Becomes(r, q) /\ q.at = p.at /\ q.started = p.started
                             /\ q.cleanup = p.cleanup
    BY <2>3
  <2>5. Quiet /\ self'[r] = q
    BY <1>1, <2>3, <2>4, QuietWhenStill, SelfAfter
  <2>6. Knows(r)'
    BY <1>2, <2>1, <2>2, <2>4, <2>5, QuietIdle DEF Knows, At
  <2> QED
    BY <1>3, <2>4, <2>5, <2>6
<1>9. ASSUME NEW r \in Runs, CleanGenerated(r) \/ CleanRoot(r)
      PROVE  AttemptInv'
  <2>1. Asked(r) /\ ~CleanAttempt(r)
    BY <1>1, <1>9, AskEffect DEF CleanGenerated, CleanAttempt, CleanRoot, At
  <2>2. PICK q \in Process : /\ Becomes(r, q) /\ Same(self[r], q) /\ (self[r].bad => q.bad)
                             /\ q.at \in {"clean_attempt", "clean_container"}
    <3>1. CASE CleanGenerated(r)
      <4>1. \E p \in {self[r], [self[r] EXCEPT !.generated = FALSE]}, failed \in BOOLEAN :
              Cleans(r, "clean_attempt", p, failed)
        BY <3>1 DEF CleanGenerated, Asks
      <4>2. self'[r].at = "clean_attempt"
        BY <1>1, <1>2, <4>1 DEF Cleans, TypeOK, Process
      <4> QED
        BY <1>1, <2>1, <4>2, SelfAfter DEF Asked
    <3>2. CASE CleanRoot(r)
      <4>1. \E p \in {self[r], [self[r] EXCEPT !.root = FALSE]}, failed \in BOOLEAN :
              Cleans(r, "clean_container", p, failed)
        BY <3>2 DEF CleanRoot, Asks
      <4>2. self'[r].at = "clean_container"
        BY <1>1, <1>2, <4>1 DEF Cleans, TypeOK, Process
      <4> QED
        BY <1>1, <2>1, <4>2, SelfAfter DEF Asked
    <3> QED
      BY <1>9, <3>1, <3>2
  <2>3. Quiet
    <3>1. box' = box
      BY <2>1 DEF Asked
    <3>2. CASE UNCHANGED vault
      BY <1>1, <3>1, <3>2, QuietWhenStill
    <3>3. CASE \E s \in Runs, token \in {Generated(r), Root(r)} :
                 Turns(s, vault[s].data, vault[s].tokens \ {token}, vault[s].attempt)
      BY <1>1, <3>1, <3>3, QuietWhenTurned
    <3> QED
      BY <1>1, <1>9, <2>1, <3>2, <3>3, AskVault
  <2>4. self[r].at = IF q.at = "clean_attempt" THEN "clean_generated" ELSE "clean_root"
    <3>1. self'[r].at = q.at
      BY <1>1, <2>2, SelfAfter
    <3>2. CASE CleanGenerated(r)
      <4>1. \E p \in {self[r], [self[r] EXCEPT !.generated = FALSE]}, failed \in BOOLEAN :
              Cleans(r, "clean_attempt", p, failed)
        BY <3>2 DEF CleanGenerated, Asks
      <4>2. self'[r].at = "clean_attempt"
        BY <1>1, <1>2, <4>1 DEF Cleans, TypeOK, Process
      <4> QED
        BY <3>1, <3>2, <4>2 DEF CleanGenerated, At
    <3>3. CASE CleanRoot(r)
      <4>1. \E p \in {self[r], [self[r] EXCEPT !.root = FALSE]}, failed \in BOOLEAN :
              Cleans(r, "clean_container", p, failed)
        BY <3>3 DEF CleanRoot, Asks
      <4>2. self'[r].at = "clean_container"
        BY <1>1, <1>2, <4>1 DEF Cleans, TypeOK, Process
      <4> QED
        BY <3>1, <3>3, <4>2 DEF CleanRoot, At
    <3> QED
      BY <1>9, <3>2, <3>3
  <2>5. self'[r] = q
    BY <1>1, <2>2, SelfAfter
  <2>6. Knows(r)'
    BY <1>2, <2>2, <2>3, <2>4, <2>5, QuietIdle DEF Knows, At, Same
  <2> QED
    BY <1>3, <2>2, <2>3, <2>6
<1>10. ASSUME NEW r \in Runs, CleanAttempt(r)
       PROVE  AttemptInv'
  <2>1. Asked(r) /\ self[r].at = "clean_attempt"
    BY <1>1, <1>10, AskEffect DEF CleanAttempt, At
  <2>2. \E p \in {self[r]}, failed \in BOOLEAN :
          /\ Cleans(r, "clean_root", p, failed)
          /\ \/ ~self[r].started /\ UNCHANGED vault
             \/ failed /\ UNCHANGED vault
             \/ \E s \in Runs : /\ Healthy(s)
                                /\ vault' = [vault EXCEPT ![s].attempt = Original, ![s].shares = 0]
    BY <1>10 DEF CleanAttempt, Asks, Cancel, hostVars
  <2>3. PICK failed \in BOOLEAN :
          /\ Cleans(r, "clean_root", self[r], failed)
          /\ \/ ~self[r].started /\ UNCHANGED vault
             \/ failed /\ UNCHANGED vault
             \/ \E s \in Runs : Healthy(s) /\ Turns(s, vault[s].data, vault[s].tokens, Original)
    BY <1>1, <2>2, AttemptLost
  <2>4. PICK q \in Process : /\ Becomes(r, q) /\ q.at = "clean_root" /\ Same(self[r], q)
                             /\ q.bad = (self[r].bad \/ failed)
    BY <1>1, <1>2, <2>3, CleansEffect DEF Cleaning
  <2>5. Quiet /\ (~failed => Idle(r)')
    <3>1. box' = box
      BY <2>1 DEF Asked
    <3>2. CASE UNCHANGED vault /\ (failed \/ ~self[r].started)
      BY <1>1, <1>2, <2>1, <3>1, <3>2, QuietWhenStill, QuietIdle DEF Knows, At
    <3>3. CASE \E s \in Runs : Healthy(s) /\ Turns(s, vault[s].data, vault[s].tokens, Original)
      <4>1. PICK s \in Runs : Healthy(s) /\ Turns(s, vault[s].data, vault[s].tokens, Original)
        BY <3>3
      <4>2. Quiet
        BY <1>1, <3>1, <4>1, QuietWhenTurned
      <4>3. vault'[s].attempt = Original /\ \A t \in Runs \ {s} : vault'[t] = vault[t]
        BY <1>1, <4>1, TurnsAt
      <4>4. \A t \in Runs \ {s} : vault[t].attempt = Original
        BY <1>1, <4>1 DEF AttemptInv, Healthy
      <4> QED
        BY <1>2, <4>2, <4>3, <4>4 DEF Idle
    <3> QED
      BY <2>3, <3>2, <3>3
  <2>6. self'[r] = q /\ (q.bad \/ ~failed)
    BY <1>1, <2>4, SelfAfter
  <2>7. Knows(r)'
    BY <1>2, <2>1, <2>4, <2>5, <2>6, QuietIdle DEF Knows, At, Same
  <2> QED
    BY <1>3, <2>4, <2>5, <2>7
<1>11. ASSUME NEW r \in Runs, CleanContainer(r) \/ CleanEgress(r) \/ CleanScratch(r)
       PROVE  AttemptInv'
  <2>1. PICK q \in Process :
          /\ Becomes(r, q) /\ q.at \in {"clean_egress", "clean_scratch", "report"}
          /\ q.started = self[r].started /\ q.cleanup = self[r].cleanup
          /\ (self[r].bad => q.bad)
    <3>1. CASE CleanContainer(r)
      BY <1>1, <3>1, CleanContainerEffect
    <3>2. CASE CleanEgress(r)
      BY <1>1, <3>2, CleanEgressEffect
    <3>3. CASE CleanScratch(r)
      BY <1>1, <3>3, CleanScratchEffect DEF Same
    <3> QED
      BY <1>11, <3>1, <3>2, <3>3
  <2>2. self[r].at \in {"clean_container", "clean_egress", "clean_scratch"}
    BY <1>11 DEF CleanContainer, CleanEgress, CleanScratch, At
  <2>3. Quiet
    <3>1. CASE CleanContainer(r)
      <4>1. Gone(r) \/ UNCHANGED <<box, vault>>
        BY <1>1, <3>1, CleanContainerEffect
      <4>2. CASE Gone(r)
        <5>1. Turns(r, vault[r].data, vault[r].tokens, Original)
          BY <1>1, <4>2, AttemptLost DEF Gone
        <5>2. \A t \in Runs : box'[t] = box[t] \/ (t = r /\ box'[t] # "listening")
          BY <1>1, <4>2 DEF Gone, TypeOK
        <5> QED
          BY <1>1, <5>1, <5>2, QuietWhenTurned
      <4> QED
        BY <1>1, <4>1, <4>2, QuietWhenStill
    <3>2. CASE CleanEgress(r)
      BY <1>1, <3>2, CleanEgressEffect, QuietWhenStill
    <3>3. CASE CleanScratch(r)
      <4>1. box' = box /\ (UNCHANGED vault \/ vault' = [vault EXCEPT ![r] = EmptyVault])
        <5>1. /\ box' = box
              /\ UNCHANGED <<scratch, vault>> \/ vault' = [vault EXCEPT ![r] = EmptyVault]
          BY <1>1, <3>3, CleanScratchEffect
        <5> QED
          BY <5>1
      <4>2. CASE vault' = [vault EXCEPT ![r] = EmptyVault]
        <5>1. Turns(r, "empty", {}, Original)
          <6>1. /\ EmptyVault \in VaultData /\ EmptyVault.data = "empty"
                /\ EmptyVault.tokens = {} /\ EmptyVault.attempt = Original
            BY NoShares DEF EmptyVault, VaultData
          <6> QED
            BY <4>2, <6>1 DEF Turns
        <5> QED
          BY <1>1, <4>1, <5>1, QuietWhenTurned
      <4> QED
        BY <1>1, <4>1, <4>2, QuietWhenStill
    <3> QED
      BY <1>11, <3>1, <3>2, <3>3
  <2>4. self'[r] = q
    BY <1>1, <2>1, SelfAfter
  <2>5. Knows(r)'
    BY <1>2, <2>1, <2>2, <2>3, <2>4, QuietIdle DEF Knows, At
  <2> QED
    BY <1>3, <2>1, <2>3, <2>5
<1>12. ASSUME NEW r \in Runs, Report(r) \/ Interrupted(r) \/ Kill(r)
       PROVE  AttemptInv'
  <2>1. Ends(r)
    BY <1>1, <1>12, EndEffect
  <2>2. PICK q \in Process :
          /\ Becomes(r, q) /\ q.at = "done"
          /\ q.cleanup = "passed" => \/ self[r].at = "report" /\ ~self[r].bad
                                     \/ self[r].cleanup = "passed"
    BY <2>1 DEF Ends
  <2>3. UNCHANGED <<box, vault>> /\ self[r].at # "done"
    BY <2>1 DEF Ends, hostVars
  <2>4. Quiet /\ self'[r] = q
    BY <1>1, <2>2, <2>3, QuietWhenStill, SelfAfter
  <2>5. Knows(r)'
    BY <1>2, <2>2, <2>3, <2>4, QuietIdle DEF Knows, At
  <2> QED
    BY <1>3, <2>2, <2>4, <2>5
<1>13. ASSUME NEW s \in Runs, HostStep(s)
       PROVE  AttemptInv'
  <2>1. UNCHANGED self
    BY <1>1, <1>13, HostEffect
  <2>2. ASSUME Quiet
        PROVE  AttemptInv'
    <3>1. \A r \in Runs : Knows(r)'
      BY <1>2, <2>1, <2>2, QuietOthers
    <3> QED
      BY <1>1, <2>2, <3>1 DEF AttemptInv, Quiet
  <2>3. CASE /\ box[s] = "starting" /\ UNCHANGED <<flight, vault>>
             /\ box' = [box EXCEPT ![s] = "listening"] /\ \A t \in Runs : ~Up(t)
    <3>1. \A t \in Runs : Up(t)' => t = s
      BY <1>1, <2>3 DEF Up, TypeOK
    <3>2. \A t \in Runs : vault'[t].attempt = Original
      BY <1>1, <2>3 DEF AttemptInv, Healthy
    <3>3. \A r \in Runs : Knows(r)'
      BY <1>2, <2>1, <2>3 DEF Knows, Idle, At
    <3> QED
      BY <3>1, <3>2, <3>3 DEF AttemptInv
  <2>4. CASE UNCHANGED vault /\ \A t \in Runs : Up(t)' = Up(t)
    <3>1. Quiet
      BY <1>1, <2>4 DEF Quiet, AttemptInv, Healthy
    <3> QED
      BY <2>2, <3>1
  <2>5. CASE box' = box /\ Turns(s, "restored", {}, Original)
    BY <1>1, <2>2, <2>5, QuietWhenTurned
  <2>6. CASE box' = [box EXCEPT ![s] = "exited"] /\ Turns(s, vault[s].data, vault[s].tokens, Original)
    <3>1. \A t \in Runs : box'[t] = box[t] \/ (t = s /\ box'[t] # "listening")
      BY <1>1, <2>6 DEF TypeOK
    <3> QED
      BY <1>1, <2>2, <2>6, <3>1, QuietWhenTurned
  <2>7. \/ /\ box[s] = "starting" /\ UNCHANGED <<flight, vault>>
           /\ \/ box' = [box EXCEPT ![s] = "exited"]
              \/ box' = [box EXCEPT ![s] = "listening"] /\ \A t \in Runs : ~Up(t)
        \/ box' = box /\ Turns(s, "restored", {}, Original)
        \/ /\ UNCHANGED vault
           /\ \/ flight[s] = "create" /\ box' = [box EXCEPT ![s] = "created"]
              \/ box[s] = "created" /\ box' = [box EXCEPT ![s] = "starting"]
              \/ UNCHANGED box
        \/ box' = [box EXCEPT ![s] = "exited"] /\ Turns(s, vault[s].data, vault[s].tokens, Original)
    BY <1>1, <1>13, HostEffect
  <2>8. CASE /\ UNCHANGED vault
             /\ \/ box[s] = "starting" /\ box' = [box EXCEPT ![s] = "exited"]
                \/ flight[s] = "create" /\ box' = [box EXCEPT ![s] = "created"]
                \/ box[s] = "created" /\ box' = [box EXCEPT ![s] = "starting"]
                \/ UNCHANGED box
    <3>1. flight[s] = "create" => box[s] = "absent"
      BY <1>2 DEF Fence
    <3>2. \A t \in Runs : Up(t)' = Up(t)
      BY <1>1, <2>8, <3>1 DEF Up, TypeOK
    <3> QED
      BY <2>4, <2>8, <3>2
  <2> QED
    BY <2>3, <2>5, <2>6, <2>7, <2>8
<1>14. CASE Reboot
  <2>1. \A t \in Runs : vault'[t].attempt = Original /\ ~Up(t)'
    <3>1. ASSUME NEW t \in Runs
          PROVE  [vault[t] EXCEPT !.attempt = Original, !.shares = 0].attempt = Original
      <4>1. vault[t] \in VaultData
        BY <1>1 DEF TypeOK
      <4> QED
        BY <4>1 DEF VaultData
    <3> QED
      BY <1>14, <3>1 DEF Reboot, Up, Running
  <2>2. \A r \in Runs : Idle(r)'
    BY <1>2, <2>1 DEF Idle
  <2>3. ASSUME NEW r \in Runs PROVE Knows(r)'
    <3>1. self'[r].at \in {"begin", "done"}
      BY <1>1, <1>14, RebootEffect
    <3> QED
      BY <2>2, <3>1 DEF Knows
  <2> QED
    BY <2>1, <2>3 DEF AttemptInv
<1>15. CASE UNCHANGED vars
  BY <1>1, <1>15 DEF vars, hostVars, AttemptInv, Knows, Idle, At, Up, Healthy
<1> QED
  BY <1>4, <1>5, <1>6, <1>7, <1>8, <1>9, <1>10, <1>11, <1>12, <1>13, <1>14, <1>15, NextCases

-----------------------------------------------------------------------------
(* Every step keeps where tokens can be.                                   *)

(* No run returns to where it was, and none stops a Vault that has not     *)
(* been restored.                                                          *)
Onward(s) ==
  /\ self'[s].at \in Unfenced \cup {"start_old"} => self[s].at \in Unfenced \cup {"start_old"}
  /\ self'[s].at \in Body => self[s].at \in Body
  /\ self'[s].at \in {"stop_old", "start_new"} =>
       self[s].at \in {"stop_old", "start_new"} \/ vault[s].data = "restored"
Fewer ==
  /\ \A s \in Runs : vault'[s].tokens \subseteq vault[s].tokens
  /\ \A s \in Runs : Up(s)' => Up(s)

LEMMA VaultStill ==
  ASSUME NEW s \in Runs, VaultOK(s), Onward(s),
         vault'[s].data = vault[s].data, vault'[s].tokens \subseteq vault[s].tokens,
         box'[s] \in {"created", "starting"} \/ flight'[s] = "create" =>
           vault[s].data \in {"empty", "restored"},
         sink'[s] => sink[s] \/ vault[s].data = "restored"
  PROVE  VaultOK(s)'
BY DEF VaultOK, Onward

LEMMA RootLeft ==
  ASSUME NEW r \in Runs, NEW s \in Runs, RootOK(r, s), Fewer,
         \/ /\ self'[r].at \in Cleaning \cup {"done"}
            /\ self'[r].result => self[r].result
         \/ self[r].at \notin {"fresh", "restore", "restored", "done"} \cup Cleaning
         \/ self'[r] = self[r]
  PROVE  RootOK(r, s)'
<1>1. Up(s)' /\ Root(r) \in vault'[s].tokens => Up(s) /\ Root(r) \in vault[s].tokens
  BY DEF Fewer
<1>2. "restore" \notin Cleaning \cup {"done"} /\ "restored" \notin Cleaning \cup {"done"}
  BY DEF Cleaning
<1> QED
  BY <1>1, <1>2 DEF RootOK, Root

LEMMA MintedLeft ==
  ASSUME NEW r \in Runs, Minted(r), Fewer,
         self'[r].at \in Early => self[r].at \in Early,
         self'[r].at = "denied" => self[r].at = "denied" \/ NotMinted(r)',
         self'[r].result =>
           (self[r].result \/ self[r].at = "denied") /\ self'[r].at \in Cleaning \cup {"done"}
  PROVE  Minted(r)'
<1>1. NotMinted(r) => NotMinted(r)'
  BY DEF NotMinted, Fewer, Generated
<1> QED
  BY <1>1 DEF Minted

LEMMA TokenKept ==
  ASSUME TokenInv, Fewer, NEW r \in Runs, \A t \in Runs \ {r} : self'[t] = self[t],
         \A s \in Runs : VaultOK(s)',
         \A s \in Runs : RootOK(r, s)',
         Minted(r)'
  PROVE  TokenInv'
<1>1. ASSUME NEW t \in Runs \ {r}, NEW s \in Runs
      PROVE  RootOK(t, s)'
  BY RootLeft DEF TokenInv
<1>2. ASSUME NEW t \in Runs \ {r}
      PROVE  Minted(t)'
  BY MintedLeft DEF TokenInv, Minted
<1>3. MintedOnce'
  BY DEF TokenInv, MintedOnce, Fewer, Generated
<1> QED
  BY <1>1, <1>2, <1>3 DEF TokenInv

(* A step of one run that leaves the data of every Vault, or less of it.   *)
LEMMA TokenStill ==
  ASSUME TypeOK, TokenInv, NEW r \in Runs, NEW q \in Process, Becomes(r, q), Fewer, Onward(r),
         \A s \in Runs :
           /\ vault'[s].data = vault[s].data
           /\ box'[s] \in {"created", "starting"} \/ flight'[s] = "create" =>
                vault[s].data \in {"empty", "restored"}
           /\ sink'[s] => sink[s] \/ vault[s].data = "restored",
         \A s \in Runs : RootOK(r, s)',
         Minted(r)'
  PROVE  TokenInv'
<1>1. self'[r] = q /\ \A t \in Runs \ {r} : self'[t] = self[t]
  BY SelfAfter
<1>2. \A s \in Runs : Onward(s)
  BY <1>1 DEF Onward
<1>3. \A s \in Runs : VaultOK(s)'
  BY <1>2, VaultStill DEF TokenInv, Fewer
<1> QED
  BY <1>1, <1>3, TokenKept

LEMMA TokenStep == IndInv /\ [Next]_vars => TokenInv'
<1> SUFFICES ASSUME IndInv, [Next]_vars PROVE TokenInv'
  OBVIOUS
<1>1. TypeOK /\ FenceInv /\ CleanupInv /\ AttemptInv /\ TokenInv
  BY DEF IndInv
<1>2. ASSUME NEW r \in Runs
      PROVE  /\ self[r] \in Process /\ Fence(r) /\ VaultOK(r) /\ Minted(r)
             /\ \A s \in Runs : RootOK(r, s)
  BY <1>1 DEF TypeOK, FenceInv, TokenInv
(* Steps that leave the Vaults, their containers and the sinks alone.      *)
<1>3. ASSUME NEW r \in Runs, NEW q \in Process, Becomes(r, q), UNCHANGED <<box, flight, vault, sink>>,
             Onward(r), q.result = self[r].result,
             q.at \in Cleaning \cup {"done"} \/ (~self[r].result /\ self[r].at \in Body \ {"fresh", "restore", "restored"}),
             q.at # "denied", q.at \in Early => self[r].at \in Early
      PROVE  TokenInv'
  <2>1. self'[r] = q
    BY <1>1, <1>3, SelfAfter
  <2>2. Fewer
    BY <1>3 DEF Fewer, Up
  <2>3. "done" \notin Body /\ Body \cap Cleaning = {}
    BY DEF Body, Cleaning
  <2>4. \A s \in Runs : RootOK(r, s)'
    BY <1>2, <1>3, <2>1, <2>2, <2>3, RootLeft
  <2>5. Minted(r)'
    <3>1. q.result => q.at \in Cleaning \cup {"done"}
      BY <1>3
    <3> QED
      BY <1>2, <1>3, <2>1, <2>2, <3>1, MintedLeft
  <2>6. \A s \in Runs : VaultOK(s)
    BY <1>1 DEF TokenInv
  <2>7. \A s \in Runs :
           /\ vault'[s].data = vault[s].data
           /\ box'[s] \in {"created", "starting"} \/ flight'[s] = "create" =>
                vault[s].data \in {"empty", "restored"}
           /\ sink'[s] => sink[s] \/ vault[s].data = "restored"
    BY <1>3, <2>6 DEF VaultOK
  <2> QED
    BY <1>1, <1>3, <2>2, <2>4, <2>5, <2>7, TokenStill
<1>4. ASSUME NEW r \in Runs, Begin(r) \/ Prepare(r) \/ CheckHost(r) \/ Fails(r) \/ Install(r)
      PROVE  TokenInv'
  <2>1. PICK q \in Process :
          /\ Becomes(r, q) /\ q.result = self[r].result
          /\ \/ /\ q.at \in {"done", "rollback", "clean_generated"}
                /\ q.at = "rollback" => self[r].at = "install"
             \/ /\ self[r].at \in {"begin", "prepare", "check_host", "install"}
                /\ q.at \in {"prepare", "check_host", "install", "start_old"}
    <3>1. CASE Begin(r) \/ Prepare(r) \/ CheckHost(r)
      BY <1>1, <3>1, BeginEffect DEF Begins, Raised
    <3>2. CASE Fails(r)
      BY <1>1, <3>2, FailEffect DEF Raised
    <3>3. CASE Install(r)
      <4>1. PICK family \in {"ipv4", "ipv6"}, op \in {"chain", "fill", "jump"}, next \in 1 .. 6 :
              Installs(r, family, op, next)
        BY <1>1, <3>3, InstallEffect
      <4>2. self[r].at = "install"
        BY <1>1, <3>3, InstallEffect
      <4> QED
        BY <4>1, <4>2 DEF Installs, Raised
    <3> QED
      BY <1>4, <3>1, <3>2, <3>3
  <2>2. UNCHANGED <<box, flight, vault, sink>> /\ self[r].at \in Body
    <3>1. CASE Begin(r) \/ Prepare(r) \/ CheckHost(r)
      BY <1>1, <3>1, BeginEffect DEF Begins, Body
    <3>2. CASE Fails(r)
      BY <1>1, <3>2, FailEffect DEF hostVars
    <3>3. CASE Install(r)
      BY <1>1, <3>3, InstallEffect DEF Body
    <3> QED
      BY <1>4, <3>1, <3>2, <3>3
  <2>3. ~self[r].result
    BY <1>2, <2>2 DEF Minted, Body, Cleaning
  <2>4. self'[r] = q
    BY <1>1, <2>1, SelfAfter
  <2>5. Onward(r)
    BY <2>1, <2>2, <2>4 DEF Onward, Unfenced
  <2>6. q.at # "denied" /\ (q.at \in Early => self[r].at \in Early)
    BY <2>1 DEF Early, Unfenced
  <2>7. CASE q.at \in {"done", "clean_generated"}
    <3>1. q.at \in Cleaning \cup {"done"}
      BY <2>7 DEF Cleaning
    <3> QED
      BY <1>3, <2>1, <2>2, <2>5, <2>6, <3>1
  <2>8. CASE q.at \notin {"done", "clean_generated"}
    <3>1. self[r].at \in Body \ {"fresh", "restore", "restored"}
      BY <2>1, <2>2, <2>8
    <3> QED
      BY <1>3, <2>1, <2>2, <2>3, <2>5, <2>6, <3>1
  <2> QED
    BY <2>7, <2>8
<1>5. ASSUME NEW r \in Runs, StartOld(r) \/ StartNew(r)
      PROVE  TokenInv'
  <2>1. Docks(r)
    BY <1>1, <1>5, DockEffect
  <2>2. PICK q \in Process :
          /\ Becomes(r, q) /\ q.result = self[r].result
          /\ q.at \in {"upgraded", "clean_generated"} \/ (q.at = "reach" /\ At(r, "start_old"))
          /\ \E b \in {"absent", "created", "starting"} : box' = [box EXCEPT ![r] = b]
          /\ flight' = flight \/ \E f \in {"create", "start"} : flight' = [flight EXCEPT ![r] = f]
    BY <2>1 DEF Docks
  <2>3. self[r].at \in {"start_old", "start_new"} /\ UNCHANGED <<vault, sink>> /\ self'[r] = q
    BY <1>1, <2>1, <2>2, SelfAfter DEF Docks
  <2>4. Fewer /\ \A s \in Runs \ {r} : box'[s] = box[s] /\ flight'[s] = flight[s]
    BY <1>1, <2>2, <2>3 DEF Fewer, Up, TypeOK
  <2>5. vault[r].data \in {"empty", "restored"}
    BY <1>2, <2>3 DEF VaultOK
  <2>6. \A s \in Runs :
           /\ vault'[s].data = vault[s].data
           /\ box'[s] \in {"created", "starting"} \/ flight'[s] = "create" =>
                vault[s].data \in {"empty", "restored"}
           /\ sink'[s] => sink[s] \/ vault[s].data = "restored"
    BY <1>2, <2>3, <2>4, <2>5 DEF VaultOK
  <2>7. Onward(r)
    BY <2>2, <2>3 DEF Onward, Unfenced, Body
  <2>8. self[r].at \notin {"fresh", "restore", "restored", "done"} \cup Cleaning
    BY <2>3 DEF Cleaning
  <2>9. \A s \in Runs : RootOK(r, s)'
    BY <1>2, <2>4, <2>8, RootLeft
  <2>10. ~self[r].result
    BY <1>2, <2>8 DEF Minted
  <2>11. Minted(r)'
    BY <1>2, <2>2, <2>3, <2>4, <2>10, MintedLeft DEF Early, Unfenced, At
  <2> QED
    BY <1>1, <2>2, <2>4, <2>6, <2>7, <2>9, <2>11, TokenStill
<1>6. ASSUME NEW r \in Runs, StopOld(r)
      PROVE  TokenInv'
  <2>1. PICK q \in Process :
          /\ Becomes(r, q) /\ q.at \in {"start_new", "clean_generated"}
          /\ q.result = self[r].result
    BY <1>1, <1>6, StopEffect
  <2>2. /\ self[r].at = "stop_old" /\ box' = [box EXCEPT ![r] = "absent"]
        /\ UNCHANGED <<flight, sink>>
    BY <1>1, <1>6, StopEffect
  <2>3. Turns(r, vault[r].data, vault[r].tokens, Original)
    BY <1>1, <1>6, AttemptLost DEF StopOld, Removes
  <2>4. /\ vault'[r].data = vault[r].data /\ vault'[r].tokens = vault[r].tokens
        /\ \A t \in Runs \ {r} : vault'[t] = vault[t]
    BY <1>1, <2>3, TurnsAt
  <2>5. /\ box'[r] = "absent" /\ \A s \in Runs \ {r} : box'[s] = box[s]
        /\ self'[r] = q
    BY <1>1, <2>1, <2>2, SelfAfter DEF TypeOK
  <2>6. Fewer
    BY <2>4, <2>5 DEF Fewer, Up
  <2>7. \A s \in Runs :
           /\ vault'[s].data = vault[s].data
           /\ box'[s] \in {"created", "starting"} \/ flight'[s] = "create" =>
                vault[s].data \in {"empty", "restored"}
           /\ sink'[s] => sink[s] \/ vault[s].data = "restored"
    BY <1>2, <2>2, <2>4, <2>5 DEF VaultOK
  <2>8. Onward(r)
    BY <2>1, <2>2, <2>5 DEF Onward, Unfenced, Body
  <2>9. self[r].at \notin {"fresh", "restore", "restored", "done"} \cup Cleaning
    BY <2>2 DEF Cleaning
  <2>10. \A s \in Runs : RootOK(r, s)'
    BY <1>2, <2>6, <2>9, RootLeft
  <2>11. ~self[r].result
    BY <1>2, <2>9 DEF Minted
  <2>12. Minted(r)'
    BY <1>2, <2>1, <2>5, <2>6, <2>11, MintedLeft DEF Early, Unfenced
  <2> QED
    BY <1>1, <2>1, <2>6, <2>7, <2>8, <2>10, <2>12, TokenStill
<1>7. ASSUME NEW r \in Runs, TalkStep(r)
      PROVE  TokenInv'
  <2>1. PICK q \in Process : Becomes(r, q) /\ (Raised(self[r], q) \/ Moved(r, q))
    BY <1>1, <1>7, TalkMoves
  <2>2. /\ self[r].at \in Behind /\ UNCHANGED <<box, flight>>
        /\ self'[r] = q /\ \A t \in Runs \ {r} : self'[t] = self[t]
    BY <1>1, <1>7, <2>1, TalkEffect, SelfAfter DEF Talks
  <2>3. ~self[r].result /\ self[r].at \in Body /\ self[r].at \notin Unfenced \cup Cleaning \cup {"done"}
    <3>1. self[r].at \notin Cleaning \cup {"done"}
      BY <2>2 DEF Behind, Body, Cleaning
    <3> QED
      BY <1>2, <2>2, <3>1 DEF Minted, Behind
  <2>4. Onward(r)
    <3>1. CASE Raised(self[r], q)
      <4>1. q.at = "clean_generated"
        BY <2>3, <3>1 DEF Raised, Unfenced
      <4> QED
        BY <2>2, <4>1 DEF Onward, Unfenced, Body
    <3>2. CASE Moved(r, q)
      <4>1. /\ q.at \notin Unfenced \cup {"start_old", "start_new"}
            /\ q.at = "stop_old" => Delivered(r)
        BY <3>2 DEF Moved, Unfenced
      <4>2. Delivered(r) => vault[r].data = "restored"
        BY <1>2, <2>3 DEF Delivered, HeardThen, VaultOK
      <4> QED
        BY <2>2, <2>3, <4>1, <4>2 DEF Onward
    <3> QED
      BY <2>1, <3>1, <3>2
  <2>5. \A s \in Runs : Onward(s)
    BY <2>2, <2>4 DEF Onward
  <2>6. \A s, t \in Runs : Up(s) /\ Up(t) => s = t
    BY <1>1 DEF AttemptInv
  <2>7. CASE Initialize(r)
    <3>1. PICK s \in Runs : /\ Up(s) /\ vault[s].data = "empty"
                            /\ Turns(s, "fresh", {Root(r)}, vault[s].attempt)
      BY <1>1, <2>7, RequestEffect
    <3>2. /\ vault'[s].data = "fresh" /\ vault'[s].tokens = {Root(r)}
          /\ \A t \in Runs \ {s} : vault'[t] = vault[t]
      BY <1>1, <3>1, TurnsAt
    <3>3. sink' = sink
      BY <2>7 DEF Initialize
    <3>4. VaultOK(s)'
      <4>1. box[s] = "listening" /\ flight[s] # "create" /\ self[s].at \notin {"stop_old", "start_new"}
            /\ ~(sink[s] /\ self[s].at \in Body) /\ self[s].at \notin Unfenced \cup {"start_old"}
        BY <1>2, <3>1 DEF VaultOK, Fence, Up, Unfenced, At
      <4>2. /\ self'[s].at \notin {"stop_old", "start_new"}
            /\ ~(sink[s] /\ self'[s].at \in Body) /\ self'[s].at \notin Unfenced \cup {"start_old"}
        BY <2>5, <3>1, <4>1 DEF Onward
      <4> QED
        BY <2>2, <3>2, <3>3, <4>1, <4>2 DEF VaultOK
    <3>5. \A t \in Runs : VaultOK(t)'
      <4>1. ASSUME NEW t \in Runs \ {s}
            PROVE  VaultOK(t)'
        BY <1>2, <2>2, <2>5, <3>2, <3>3, VaultStill DEF VaultOK
      <4> QED
        BY <3>4, <4>1
    <3>6. q.at \in {"fresh", "clean_generated"} /\ ~q.result
      <4>1. self[r].at = "init"
        BY <2>7 DEF Initialize, At
      <4> QED
        BY <2>1, <2>3, <4>1 DEF Raised, Moved
    <3>7. ASSUME NEW p \in Runs, NEW t \in Runs
          PROVE  RootOK(p, t)'
      <4>1. CASE p = r
        BY <2>2, <3>6, <4>1 DEF RootOK, Cleaning
      <4>2. CASE p # r /\ t = s
        BY <3>2, <4>2 DEF RootOK, Root
      <4>3. CASE p # r /\ t # s
        BY <1>2, <2>2, <3>2, <4>3 DEF RootOK, Root, Up
      <4> QED
        BY <4>1, <4>2, <4>3
    <3>8. \A p, t \in Runs : Generated(p) \in vault'[t].tokens => Generated(p) \in vault[t].tokens
      BY <3>2 DEF Generated, Root
    <3>9. MintedOnce'
      BY <1>1, <3>8 DEF TokenInv, MintedOnce, Generated
    <3>10. ASSUME NEW p \in Runs
           PROVE  Minted(p)'
      <4>1. NotMinted(p) => NotMinted(p)'
        BY <3>8 DEF NotMinted, Generated
      <4>2. CASE p = r
        <5>1. q.at # "denied" /\ self[r].at \in Early
          BY <2>7, <3>6 DEF Initialize, At, Early
        <5> QED
          BY <1>2, <2>2, <3>6, <4>1, <4>2, <5>1 DEF Minted
      <4>3. CASE p # r
        BY <1>2, <2>2, <4>1, <4>3 DEF Minted
      <4> QED
        BY <4>2, <4>3
    <3> QED
      BY <3>5, <3>7, <3>9, <3>10 DEF TokenInv
  <2>8. CASE Restore(r)
    <3>1. PICK s \in Runs : /\ Healthy(s) /\ Root(r) \in vault[s].tokens
                            /\ Turns(s, "restoring", vault[s].tokens, vault[s].attempt)
      BY <1>1, <2>8, RequestEffect
    <3>2. /\ vault'[s].data = "restoring" /\ vault'[s].tokens = vault[s].tokens
          /\ \A t \in Runs \ {s} : vault'[t] = vault[t]
      BY <1>1, <3>1, TurnsAt
    <3>3. sink' = sink /\ self[r].at = "restore"
      BY <2>8 DEF Restore, At
    <3>4. VaultOK(s)'
      <4>1. box[s] = "listening" /\ vault[s].data # "empty" /\ vault[s].data # "restored"
        BY <1>2, <3>1 DEF VaultOK, Healthy, Up
      <4>2. flight[s] # "create" /\ self[s].at \notin {"stop_old", "start_new"}
            /\ ~(sink[s] /\ self[s].at \in Body) /\ self[s].at \notin Unfenced \cup {"start_old"}
        BY <1>2, <4>1 DEF VaultOK, Fence
      <4>3. /\ self'[s].at \notin {"stop_old", "start_new"}
            /\ ~(sink[s] /\ self'[s].at \in Body) /\ self'[s].at \notin Unfenced \cup {"start_old"}
        BY <2>5, <4>1, <4>2 DEF Onward
      <4> QED
        BY <2>2, <3>2, <3>3, <4>1, <4>2, <4>3 DEF VaultOK
    <3>5. \A t \in Runs : VaultOK(t)'
      <4>1. ASSUME NEW t \in Runs \ {s}
            PROVE  VaultOK(t)'
        BY <1>2, <2>2, <2>5, <3>2, <3>3, VaultStill DEF VaultOK
      <4> QED
        BY <3>4, <4>1
    <3>6. Fewer
      BY <2>2, <3>2 DEF Fewer, Up
    <3>7. /\ q.at \in {"restored", "clean_generated"} /\ ~q.result
          /\ q.at = "restored" => q.prior = self[r].prior
      BY <2>1, <2>3, <3>3 DEF Raised, Moved
    <3>8. ASSUME NEW t \in Runs
          PROVE  RootOK(r, t)'
      BY <1>2, <2>2, <3>3, <3>6, <3>7 DEF RootOK, Fewer, Root, Cleaning
    <3>9. Minted(r)'
      BY <1>2, <2>2, <3>3, <3>6, <3>7, MintedLeft DEF Early
    <3> QED
      BY <1>1, <2>2, <3>5, <3>6, <3>8, <3>9, TokenKept
  <2>9. CASE Share(r)
    <3>1. PICK s \in Runs :
            /\ Healthy(s)
            /\ \/ /\ Turns(s, vault[s].data, vault[s].tokens, r) /\ GoesTo(r, "share")
               \/ /\ Turns(s, vault[s].data, vault[s].tokens \cup {Generated(r)}, Original)
                  /\ GoesTo(r, "decode")
      BY <1>1, <2>9, ShareEffect
    <3>2. sink' = sink /\ self[r].at = "share" /\ NotMinted(r)
      BY <1>2, <2>9 DEF Share, At, Minted, Early
    <3>3. q.at \in {"share", "decode", "clean_generated"} /\ ~q.result
      BY <2>1, <2>3, <3>2 DEF Raised, Moved
    <3>4. self[r].at \notin {"fresh", "restore", "restored", "done"} \cup Cleaning
      BY <3>2 DEF Cleaning
    <3>5. CASE Turns(s, vault[s].data, vault[s].tokens, r)
      <4>1. /\ vault'[s].data = vault[s].data /\ vault'[s].tokens = vault[s].tokens
            /\ \A t \in Runs \ {s} : vault'[t] = vault[t]
        BY <1>1, <3>5, TurnsAt
      <4>2. Fewer
        BY <2>2, <4>1 DEF Fewer, Up
      <4>3. \A t \in Runs : VaultOK(t)'
        BY <1>2, <2>2, <2>5, <3>2, <4>1, VaultStill DEF VaultOK
      <4>4. \A t \in Runs : RootOK(r, t)'
        BY <1>2, <3>4, <4>2, RootLeft
      <4>5. Minted(r)'
        BY <1>2, <2>2, <3>2, <3>3, <4>2, MintedLeft DEF Early
      <4> QED
        BY <1>1, <2>2, <4>2, <4>3, <4>4, <4>5, TokenKept
    <3>6. CASE /\ Turns(s, vault[s].data, vault[s].tokens \cup {Generated(r)}, Original)
               /\ GoesTo(r, "decode")
      <4>1. /\ vault'[s].data = vault[s].data
            /\ vault'[s].tokens = vault[s].tokens \cup {Generated(r)}
            /\ \A t \in Runs \ {s} : vault'[t] = vault[t]
        BY <1>1, <3>6, TurnsAt
      <4>2. \A p, t \in Runs : Root(p) \in vault'[t].tokens <=> Root(p) \in vault[t].tokens
        BY <4>1 DEF Generated, Root
      <4>3. \A p, t \in Runs : Generated(p) \in vault'[t].tokens <=>
                                 Generated(p) \in vault[t].tokens \/ (p = r /\ t = s)
        BY <4>1 DEF Generated
      <4>4. VaultOK(s)'
        BY <1>2, <2>2, <2>5, <3>1, <3>2, <4>1, <4>2 DEF VaultOK, Onward, Healthy, Root
      <4>5. \A t \in Runs : VaultOK(t)'
        <5>1. ASSUME NEW t \in Runs \ {s}
              PROVE  VaultOK(t)'
          BY <1>2, <2>2, <2>5, <3>2, <4>1, VaultStill DEF VaultOK
        <5> QED
          BY <4>4, <5>1
      <4>6. ASSUME NEW p \in Runs, NEW t \in Runs
            PROVE  RootOK(p, t)'
        <5>1. CASE p = r
          BY <1>2, <2>2, <3>4, <4>2, <5>1 DEF RootOK, Root, Up
        <5>2. CASE p # r
          BY <1>2, <2>2, <4>2, <5>2 DEF RootOK, Root, Up
        <5> QED
          BY <5>1, <5>2
      <4>7. MintedOnce'
        BY <1>1, <3>2, <4>3 DEF TokenInv, MintedOnce, NotMinted, Generated
      <4>8. q.at # "share"
        <5>1. PICK p \in Process : /\ p = [self[r] EXCEPT !.at = "decode"] \/ Raised(self[r], p)
                                   /\ Becomes(r, p)
          BY <1>1, <3>6, GoesToEffect DEF Body
        <5>2. [self[r] EXCEPT !.at = "decode"].at = "decode"
          BY <1>2 DEF Process
        <5> QED
          BY <1>1, <2>2, <5>1, <5>2, SelfAfter DEF Raised
      <4>9. ASSUME NEW p \in Runs
            PROVE  Minted(p)'
        <5>1. CASE p = r
          BY <2>2, <3>3, <4>8, <5>1 DEF Minted, Early, Unfenced
        <5>2. CASE p # r
          <6>1. NotMinted(p) => NotMinted(p)'
            BY <4>3, <5>2 DEF NotMinted, Generated
          <6> QED
            BY <1>2, <2>2, <5>2, <6>1 DEF Minted
        <5> QED
          BY <5>1, <5>2
      <4> QED
        BY <4>5, <4>6, <4>7, <4>9 DEF TokenInv
    <3> QED
      BY <3>1, <3>5, <3>6
  <2>10. CASE ~Initialize(r) /\ ~Restore(r) /\ ~Share(r)
    <3>1. /\ Fewer /\ \A s \in Runs : vault'[s].data = vault[s].data
          /\ Revoke(r) => NotMinted(r)'
      <4>1. CASE Attempt(r)
        <5>1. PICK s \in Runs : Turns(s, vault[s].data, vault[s].tokens, r)
          BY <1>1, <4>1, RequestEffect
        <5>2. /\ vault'[s].data = vault[s].data /\ vault'[s].tokens = vault[s].tokens
              /\ \A t \in Runs \ {s} : vault'[t] = vault[t]
          BY <1>1, <5>1, TurnsAt
        <5> QED
          BY <2>2, <4>1, <5>2 DEF Fewer, Up, Attempt, Revoke, At
      <4>2. CASE Revoke(r)
        <5>1. PICK s \in Runs :
                /\ Generated(r) \in vault[s].tokens
                /\ Turns(s, vault[s].data, vault[s].tokens \ {Generated(r)}, vault[s].attempt)
          BY <1>1, <4>2, RequestEffect
        <5>2. /\ vault'[s].data = vault[s].data
              /\ vault'[s].tokens = vault[s].tokens \ {Generated(r)}
              /\ \A t \in Runs \ {s} : vault'[t] = vault[t]
          BY <1>1, <5>1, TurnsAt
        <5>3. \A t \in Runs \ {s} : Generated(r) \notin vault[t].tokens
          BY <1>1, <5>1 DEF TokenInv, MintedOnce
        <5>4. NotMinted(r)'
          BY <5>2, <5>3 DEF NotMinted, Generated
        <5> QED
          BY <2>2, <5>2, <5>4 DEF Fewer, Up
      <4>3. CASE UNCHANGED vault /\ ~Revoke(r)
        BY <2>2, <4>3 DEF Fewer, Up
      <4>4. UNCHANGED vault \/ Attempt(r) \/ Revoke(r)
        BY <1>7, <2>10
        DEF TalkStep, Reach, Fresh, Restored, Announce, Decode, Inspect, Delivered, Upgraded,
            Compare, Redelivered, Denied, Reads, HeardThen, hostVars
      <4> QED
        BY <4>1, <4>2, <4>3, <4>4
    <3>2. \A s \in Runs : sink'[s] => sink[s] \/ vault[s].data = "restored"
      <4>1. CASE \E s \in Runs : Reads(r, s)
        BY <1>1, <4>1 DEF Reads, TypeOK
      <4>2. CASE UNCHANGED sink \/ sink' = [sink EXCEPT ![r] = FALSE]
        BY <1>1, <4>2 DEF TypeOK
      <4> QED
        BY <1>7, <2>10, <4>1, <4>2
        DEF TalkStep, Reach, Fresh, Restored, Announce, Attempt, Decode, Inspect, Delivered, Upgraded,
            Compare, Redelivered, Revoke, Denied, HeardThen, hostVars
    <3>3. \A s \in Runs :
           /\ vault'[s].data = vault[s].data
           /\ box'[s] \in {"created", "starting"} \/ flight'[s] = "create" =>
                vault[s].data \in {"empty", "restored"}
           /\ sink'[s] => sink[s] \/ vault[s].data = "restored"
      BY <1>2, <2>2, <3>1, <3>2 DEF VaultOK
    <3>4. ASSUME NEW s \in Runs
          PROVE  RootOK(r, s)'
      <4>1. CASE Raised(self[r], q)
        <5>1. q.at \in Cleaning /\ q.result = self[r].result
          BY <2>3, <4>1 DEF Raised, Unfenced, Cleaning
        <5> QED
          BY <1>2, <2>2, <3>1, <5>1, RootLeft
      <4>2. CASE Fresh(r) /\ Moved(r, q)
        <5>1. /\ q.at = "restore" /\ ~q.result
              /\ \E t \in Runs : Healthy(t) /\ q.prior = Cluster(t)
          <6>1. self[r].at = "fresh"
            BY <4>2 DEF Fresh, At
          <6> QED
            BY <2>3, <4>2, <6>1 DEF Moved
        <5>2. ASSUME Up(s)', Root(r) \in vault'[s].tokens
              PROVE  q.prior = s
          <6>1. Up(s) /\ Root(r) \in vault[s].tokens
            BY <3>1, <5>2 DEF Fewer
          <6>2. PICK t \in Runs : Healthy(t) /\ q.prior = Cluster(t)
            BY <5>1
          <6>3. t = s /\ vault[s].data # "restored"
            BY <1>2, <2>6, <6>1, <6>2 DEF Healthy, VaultOK
          <6> QED
            BY <6>2, <6>3 DEF Cluster
        <5> QED
          BY <2>2, <5>1, <5>2 DEF RootOK, Root
      <4>3. CASE Restored(r) /\ Moved(r, q)
        <5>1. PICK t \in Runs : Healthy(t) /\ Cluster(t) # self[r].prior
          BY <4>3 DEF Restored
        <5>2. ~(Up(s) /\ Root(r) \in vault[s].tokens)
          <6>1. SUFFICES ASSUME Up(s), Root(r) \in vault[s].tokens
                         PROVE  FALSE
            OBVIOUS
          <6>2. self[r].prior = s
            BY <1>2, <4>3, <6>1 DEF RootOK, Restored, At
          <6>3. t = s /\ vault[s].data # "restored"
            BY <1>2, <2>6, <5>1, <6>1 DEF Healthy, VaultOK
          <6> QED
            BY <5>1, <6>2, <6>3 DEF Cluster
        <5>3. ~(Up(s)' /\ Root(r) \in vault'[s].tokens)
          BY <3>1, <5>2 DEF Fewer
        <5> QED
          BY <5>3 DEF RootOK, Root
      <4>4. CASE ~Fresh(r) /\ ~Restored(r) /\ Moved(r, q)
        <5>1. self[r].at \notin {"fresh", "restore", "restored", "done"} \cup Cleaning
          BY <2>3, <2>10, <4>4 DEF Moved
        <5> QED
          BY <1>2, <3>1, <5>1, RootLeft
      <4> QED
        BY <2>1, <4>1, <4>2, <4>3, <4>4
    <3>5. Minted(r)'
      <4>1. CASE Raised(self[r], q)
        <5>1. q.at = "clean_generated" /\ ~q.result
          BY <2>3, <4>1 DEF Raised, Unfenced
        <5> QED
          BY <1>2, <2>2, <3>1, <5>1, MintedLeft DEF Early, Unfenced
      <4>2. CASE Moved(r, q)
        <5>1. q.at \in Early => self[r].at \in Early
          BY <2>10, <4>2 DEF Moved, Early, Unfenced
        <5>2. q.at = "denied" => NotMinted(r)'
          BY <3>1, <4>2 DEF Moved
        <5>3. q.result => self[r].at = "denied" /\ q.at \in Cleaning \cup {"done"}
          BY <2>3, <4>2 DEF Moved, Cleaning
        <5> QED
          BY <1>2, <2>2, <3>1, <5>1, <5>2, <5>3, MintedLeft
      <4> QED
        BY <2>1, <4>1, <4>2
    <3> QED
      BY <1>1, <2>1, <2>4, <3>1, <3>3, <3>4, <3>5, TokenStill
  <2> QED
    BY <2>7, <2>8, <2>9, <2>10
(* The clean-up and the end of a run, whatever becomes of its container.   *)
<1>8. ASSUME NEW r \in Runs, NEW q \in Process, Becomes(r, q), UNCHANGED <<flight, sink>>,
             q.at \in Cleaning \cup {"done"}, q.result = self[r].result,
             self[r].at \in Cleaning \cup {"rollback", "done"} \/ ~self[r].result,
             box' = box \/ box' = [box EXCEPT ![r] = "absent"],
             Fewer, \A s \in Runs : vault'[s].data = vault[s].data
      PROVE  TokenInv'
  <2>1. self'[r] = q
    BY <1>1, <1>8, SelfAfter
  <2>2. /\ q.at \notin Unfenced \cup {"start_old", "stop_old", "start_new"}
        /\ q.at \notin Body \cup Early \cup {"denied"}
    BY <1>8 DEF Unfenced, Early, Body, Cleaning
  <2>3. \A s \in Runs : box'[s] = box[s] \/ box'[s] = "absent"
    BY <1>1, <1>8 DEF TypeOK
  <2>4. \A s \in Runs :
           /\ vault'[s].data = vault[s].data
           /\ box'[s] \in {"created", "starting"} \/ flight'[s] = "create" =>
                vault[s].data \in {"empty", "restored"}
           /\ sink'[s] => sink[s] \/ vault[s].data = "restored"
    BY <1>2, <1>8, <2>3 DEF VaultOK
  <2>5. Onward(r)
    BY <2>1, <2>2 DEF Onward
  <2>6. \A s \in Runs : RootOK(r, s)'
    BY <1>2, <1>8, <2>1, RootLeft
  <2>7. Minted(r)'
    BY <1>2, <1>8, <2>1, <2>2, MintedLeft
  <2> QED
    BY <1>1, <1>8, <2>4, <2>5, <2>6, <2>7, TokenStill
<1>9. ASSUME NEW r \in Runs, Rollback(r)
      PROVE  TokenInv'
  <2> DEFINE p == [self[r] EXCEPT !.at = "clean_generated"]
  <2>1. p \in Process /\ p.at = "clean_generated" /\ p.result = self[r].result
    BY <1>2, ProcessAt DEF Process, Cleaning
  <2>2. Close(r, p, FALSE) /\ self[r].at = "rollback"
    BY <1>9 DEF Rollback, At
  <2> HIDE DEF p
  <2>3. /\ UNCHANGED <<box, flight, vault, sink>>
        /\ \E q \in Process : Becomes(r, q) /\ q.at = p.at /\ q.result = p.result
    BY <1>1, <2>1, <2>2, CloseEffect DEF Closes
  <2>4. "clean_generated" \in Cleaning
    BY DEF Cleaning
  <2>5. Fewer
    BY <2>3 DEF Fewer, Up
  <2> QED
    BY <1>8, <2>1, <2>2, <2>3, <2>4, <2>5
<1>10. ASSUME NEW r \in Runs, CleanGenerated(r) \/ CleanAttempt(r) \/ CleanRoot(r)
       PROVE  TokenInv'
  <2>1. Asked(r)
    BY <1>1, <1>10, AskEffect
  <2>2. PICK q \in Process : /\ Becomes(r, q) /\ q.result = self[r].result
                             /\ q.at \in {"clean_attempt", "clean_root", "clean_container"}
    BY <2>1 DEF Asked, Same
  <2>3. /\ UNCHANGED <<box, flight, sink>> /\ q.at \in Cleaning \cup {"done"}
        /\ self[r].at \in Cleaning \cup {"rollback", "done"}
    BY <2>1, <2>2 DEF Asked, Cleaning
  <2>4. Fewer /\ \A s \in Runs : vault'[s].data = vault[s].data
    <3>1. CASE UNCHANGED vault
      BY <2>3, <3>1 DEF Fewer, Up
    <3>2. CASE \E s \in Runs, token \in {Generated(r), Root(r)} :
                 Turns(s, vault[s].data, vault[s].tokens \ {token}, vault[s].attempt)
      <4>1. PICK s \in Runs, token \in {Generated(r), Root(r)} :
              Turns(s, vault[s].data, vault[s].tokens \ {token}, vault[s].attempt)
        BY <3>2
      <4>2. /\ vault'[s].data = vault[s].data /\ vault'[s].tokens = vault[s].tokens \ {token}
            /\ \A t \in Runs \ {s} : vault'[t] = vault[t]
        BY <1>1, <4>1, TurnsAt
      <4> QED
        BY <2>3, <4>2 DEF Fewer, Up
    <3>3. CASE \E s \in Runs : Turns(s, vault[s].data, vault[s].tokens, Original)
      <4>1. PICK s \in Runs : Turns(s, vault[s].data, vault[s].tokens, Original)
        BY <3>3
      <4>2. /\ vault'[s].data = vault[s].data /\ vault'[s].tokens = vault[s].tokens
            /\ \A t \in Runs \ {s} : vault'[t] = vault[t]
        BY <1>1, <4>1, TurnsAt
      <4> QED
        BY <2>3, <4>2 DEF Fewer, Up
    <3> QED
      BY <1>1, <1>10, <3>1, <3>2, <3>3, AskVault
  <2> QED
    BY <1>8, <2>2, <2>3, <2>4
<1>11. ASSUME NEW r \in Runs, CleanContainer(r)
       PROVE  TokenInv'
  <2>1. PICK q \in Process :
          /\ Becomes(r, q) /\ q.at = "clean_egress" /\ q.result = self[r].result
          /\ Gone(r) \/ UNCHANGED <<box, vault>>
    BY <1>1, <1>11, CleanContainerEffect
  <2>2. self[r].at = "clean_container" /\ UNCHANGED <<flight, sink>>
    BY <1>1, <1>11, CleanContainerEffect
  <2>3. q.at \in Cleaning \cup {"done"} /\ self[r].at \in Cleaning \cup {"rollback", "done"}
    BY <2>1, <2>2 DEF Cleaning
  <2>4. CASE UNCHANGED <<box, vault>>
    <3>1. Fewer
      BY <2>4 DEF Fewer, Up
    <3> QED
      BY <1>8, <2>1, <2>2, <2>3, <2>4, <3>1
  <2>5. CASE Gone(r)
    <3>1. Turns(r, vault[r].data, vault[r].tokens, Original)
      BY <1>1, <2>5, AttemptLost DEF Gone
    <3>2. /\ vault'[r].data = vault[r].data /\ vault'[r].tokens = vault[r].tokens
          /\ \A t \in Runs \ {r} : vault'[t] = vault[t]
      BY <1>1, <3>1, TurnsAt
    <3>3. box' = [box EXCEPT ![r] = "absent"]
      BY <2>5 DEF Gone
    <3>4. Fewer
      BY <1>1, <3>2, <3>3 DEF Fewer, Up, TypeOK
    <3> QED
      BY <1>8, <2>1, <2>2, <2>3, <3>2, <3>3, <3>4
  <2> QED
    BY <2>1, <2>4, <2>5
<1>12. ASSUME NEW r \in Runs, CleanEgress(r)
       PROVE  TokenInv'
  <2>1. PICK q \in Process :
          Becomes(r, q) /\ q.at = "clean_scratch" /\ q.result = self[r].result
    BY <1>1, <1>12, CleanEgressEffect
  <2>2. self[r].at = "clean_egress" /\ UNCHANGED <<box, flight, vault, sink>>
    BY <1>1, <1>12, CleanEgressEffect
  <2>3. q.at \in Cleaning \cup {"done"} /\ self[r].at \in Cleaning \cup {"rollback", "done"}
    BY <2>1, <2>2 DEF Cleaning
  <2>4. Fewer
    BY <2>2 DEF Fewer, Up
  <2> QED
    BY <1>8, <2>1, <2>2, <2>3, <2>4
<1>13. ASSUME NEW r \in Runs, CleanScratch(r)
       PROVE  TokenInv'
  <2>1. PICK q \in Process :
          /\ Becomes(r, q) /\ q.at = "report" /\ q.result = self[r].result
          /\ vault' = vault \/ vault' = [vault EXCEPT ![r] = EmptyVault]
    <3>1. PICK q \in Process :
            /\ Becomes(r, q) /\ q.at = "report" /\ Same(self[r], q)
            /\ \/ UNCHANGED <<scratch, vault>>
               \/ vault' = [vault EXCEPT ![r] = EmptyVault]
      BY <1>1, <1>13, CleanScratchEffect
    <3>2. vault' = vault \/ vault' = [vault EXCEPT ![r] = EmptyVault]
      BY <3>1
    <3>3. q.result = self[r].result
      BY <3>1 DEF Same
    <3> QED
      BY <3>1, <3>2, <3>3
  <2>2. self[r].at = "clean_scratch" /\ UNCHANGED <<box, flight, sink>> /\ self'[r] = q
    BY <1>1, <1>13, <2>1, CleanScratchEffect, SelfAfter
  <2>3. q.at \in Cleaning \cup {"done"} /\ self[r].at \in Cleaning \cup {"rollback", "done"}
    BY <2>1, <2>2 DEF Cleaning
  <2>4. CASE vault' = vault
    <3>1. Fewer
      BY <2>2, <2>4 DEF Fewer, Up
    <3> QED
      BY <1>8, <2>1, <2>2, <2>3, <2>4, <3>1
  <2>5. CASE vault' = [vault EXCEPT ![r] = EmptyVault]
    <3>1. /\ vault'[r] = EmptyVault /\ EmptyVault.data = "empty" /\ EmptyVault.tokens = {}
          /\ \A t \in Runs \ {r} : vault'[t] = vault[t]
      BY <1>1, <2>5 DEF TypeOK, EmptyVault
    <3>2. Fewer
      BY <2>2, <3>1 DEF Fewer, Up
    <3>3. VaultOK(r)'
      <4>1. q.at \notin Body /\ "stop_old" \in Body /\ "start_new" \in Body
        BY <2>1 DEF Body
      <4> QED
        BY <2>2, <3>1, <4>1 DEF VaultOK
    <3>4. \A t \in Runs : VaultOK(t)'
      <4>1. ASSUME NEW t \in Runs \ {r}
            PROVE  VaultOK(t)'
        <5>1. self'[t] = self[t]
          BY <1>1, <2>1, SelfAfter
        <5> QED
          BY <1>2, <2>2, <3>1, <5>1 DEF VaultOK
      <4> QED
        BY <3>3, <4>1
    <3>5. \A s \in Runs : RootOK(r, s)'
      BY <1>2, <2>1, <2>2, <2>3, <3>2, RootLeft
    <3>6. Minted(r)'
      BY <1>2, <2>1, <2>2, <2>3, <3>2, MintedLeft DEF Early, Unfenced
    <3> QED
      BY <1>1, <2>1, <3>2, <3>4, <3>5, <3>6, SelfAfter, TokenKept
  <2> QED
    BY <2>1, <2>4, <2>5
<1>14. ASSUME NEW r \in Runs, Report(r) \/ Interrupted(r) \/ Kill(r)
       PROVE  TokenInv'
  <2>1. Ends(r)
    BY <1>1, <1>14, EndEffect
  <2>2. PICK q \in Process : Becomes(r, q) /\ q.at = "done" /\ q.result = self[r].result
    BY <2>1 DEF Ends
  <2>3. UNCHANGED <<box, flight, vault, sink>>
    BY <2>1 DEF Ends, hostVars
  <2>4. self[r].at \in Cleaning \cup {"rollback", "done"} \/ ~self[r].result
    BY <1>2 DEF Minted
  <2>5. Fewer
    BY <2>3 DEF Fewer, Up
  <2> QED
    BY <1>8, <2>2, <2>3, <2>4, <2>5
(* What the host does by itself.                                           *)
<1>15. ASSUME UNCHANGED <<self, sink>>, Fewer, \A t \in Runs : VaultOK(t)'
       PROVE  TokenInv'
  <2>1. ASSUME NEW r \in Runs, NEW s \in Runs PROVE RootOK(r, s)'
    BY <1>2, <1>15, RootLeft
  <2>2. ASSUME NEW r \in Runs PROVE Minted(r)'
    BY <1>2, <1>15, MintedLeft DEF Minted
  <2>3. MintedOnce'
    BY <1>1, <1>15 DEF TokenInv, MintedOnce, Fewer, Generated
  <2> QED
    BY <1>15, <2>1, <2>2, <2>3 DEF TokenInv
<1>16. ASSUME NEW s \in Runs, HostStep(s)
       PROVE  TokenInv'
  <2>1. UNCHANGED <<self, sink>>
    BY <1>1, <1>16, HostEffect
  <2>2. \A t \in Runs : Onward(t)
    BY <2>1 DEF Onward
  <2>3. CASE /\ box[s] = "starting" /\ UNCHANGED <<flight, vault>>
             /\ box' = [box EXCEPT ![s] = "listening"] /\ \A t \in Runs : ~Up(t)
    <3>1. box'[s] = "listening" /\ \A t \in Runs \ {s} : box'[t] = box[t]
      BY <1>1, <2>3 DEF TypeOK
    <3>2. \A t \in Runs : VaultOK(t)'
      BY <1>2, <2>1, <2>3, <3>1 DEF VaultOK
    <3>3. ASSUME NEW r \in Runs, NEW t \in Runs PROVE RootOK(r, t)'
      <4>1. Up(t)' => t = s
        BY <2>3, <3>1 DEF Up
      <4>2. Root(r) \notin vault[s].tokens
        BY <1>2, <2>3 DEF VaultOK
      <4> QED
        BY <2>3, <4>1, <4>2 DEF RootOK, Root
    <3>4. MintedOnce' /\ \A r \in Runs : Minted(r)'
      BY <1>1, <2>1, <2>3 DEF TokenInv, MintedOnce, Minted, NotMinted, Generated
    <3> QED
      BY <3>2, <3>3, <3>4 DEF TokenInv
  <2>4. CASE /\ UNCHANGED vault
             /\ \/ box[s] = "starting" /\ box' = [box EXCEPT ![s] = "exited"] /\ UNCHANGED flight
                \/ flight[s] = "create" /\ box' = [box EXCEPT ![s] = "created"]
                     /\ flight' = [flight EXCEPT ![s] = "none"]
                \/ box[s] = "created" /\ box' = [box EXCEPT ![s] = "starting"]
                     /\ flight' = [flight EXCEPT ![s] = "none"]
                \/ UNCHANGED box /\ flight' = [flight EXCEPT ![s] = "none"]
    <3>1. /\ \A t \in Runs \ {s} : box'[t] = box[t] /\ flight'[t] = flight[t]
          /\ \/ box'[s] = "exited" /\ flight'[s] = flight[s]
             \/ flight[s] = "create" /\ box'[s] = "created" /\ flight'[s] = "none"
             \/ box[s] = "created" /\ box'[s] = "starting" /\ flight'[s] = "none"
             \/ box'[s] = box[s] /\ flight'[s] = "none"
      BY <1>1, <2>4 DEF TypeOK
    <3>2. Fewer
      BY <2>4, <3>1 DEF Fewer, Up
    <3>3. \A t \in Runs : VaultOK(t)'
      BY <1>2, <2>1, <2>4, <3>1 DEF VaultOK
    <3> QED
      BY <1>15, <2>1, <3>2, <3>3
  <2>5. CASE UNCHANGED <<box, flight>> /\ Up(s) /\ Turns(s, "restored", {}, Original)
    <3>1. /\ vault'[s].data = "restored" /\ vault'[s].tokens = {}
          /\ \A t \in Runs \ {s} : vault'[t] = vault[t]
      BY <1>1, <2>5, TurnsAt
    <3>2. Fewer
      BY <2>5, <3>1 DEF Fewer, Up
    <3>3. self[s].at \notin Unfenced \cup {"start_old"}
      BY <1>2, <2>5 DEF Fence, Up, Unfenced, At
    <3>4. VaultOK(s)'
      BY <2>1, <3>1, <3>3 DEF VaultOK
    <3>5. ASSUME NEW t \in Runs \ {s} PROVE VaultOK(t)'
      BY <1>2, <2>1, <2>5, <3>1 DEF VaultOK
    <3> QED
      BY <1>15, <2>1, <3>2, <3>4, <3>5
  <2>6. CASE /\ box' = [box EXCEPT ![s] = "exited"] /\ UNCHANGED flight
             /\ Turns(s, vault[s].data, vault[s].tokens, Original)
    <3>1. /\ vault'[s].data = vault[s].data /\ vault'[s].tokens = vault[s].tokens
          /\ \A t \in Runs \ {s} : vault'[t] = vault[t]
      BY <1>1, <2>6, TurnsAt
    <3>2. box'[s] = "exited" /\ \A t \in Runs \ {s} : box'[t] = box[t]
      BY <1>1, <2>6 DEF TypeOK
    <3>3. Fewer
      BY <3>1, <3>2 DEF Fewer, Up
    <3>4. \A t \in Runs : VaultOK(t)'
      BY <1>2, <2>1, <2>2, <2>6, <3>1, <3>2, VaultStill DEF VaultOK
    <3> QED
      BY <1>15, <2>1, <3>3, <3>4
  <2> QED
    BY <1>1, <1>16, <2>3, <2>4, <2>5, <2>6, HostEffect
<1>17. CASE Reboot
  <2>1. ASSUME NEW t \in Runs
        PROVE  /\ vault'[t].data = vault[t].data /\ vault'[t].tokens = vault[t].tokens
               /\ ~Up(t)' /\ flight'[t] = "none" /\ sink'[t] = sink[t]
               /\ box'[t] \in {"created", "starting"} => box'[t] = box[t]
    <3>1. vault[t] \in VaultData
      BY <1>1 DEF TypeOK
    <3>2. vault'[t] = [vault[t] EXCEPT !.attempt = Original, !.shares = 0]
      BY <1>17 DEF Reboot
    <3>3. vault'[t].data = vault[t].data /\ vault'[t].tokens = vault[t].tokens
      BY <3>1, <3>2 DEF VaultData
    <3> QED
      BY <1>17, <3>3 DEF Reboot, Up, Running
  <2>2. Fewer
    BY <2>1 DEF Fewer
  <2>3. ASSUME NEW r \in Runs
        PROVE  /\ (self'[r].at = "begin" /\ self[r].at = "begin") \/ self'[r].at = "done"
               /\ self'[r].result = self[r].result
    BY <1>1, <1>17, RebootEffect DEF At
  <2>4. ASSUME NEW t \in Runs PROVE VaultOK(t)'
    <3>1. Onward(t)
      BY <2>3 DEF Onward, Unfenced, Body
    <3> QED
      BY <1>2, <2>1, <3>1, VaultStill DEF VaultOK
  <2>5. \A r, s \in Runs : RootOK(r, s)'
    BY <2>1 DEF RootOK
  <2>6. ASSUME NEW r \in Runs PROVE Minted(r)'
    <3>1. /\ self'[r].at \in Early => self[r].at \in Early
          /\ self'[r].at # "denied"
          /\ self'[r].result => self[r].result /\ self'[r].at \in Cleaning \cup {"done"}
      BY <1>2, <2>3 DEF Minted, Early, Unfenced, Cleaning
    <3> QED
      BY <1>2, <2>2, <3>1, MintedLeft
  <2>7. MintedOnce'
    BY <1>1, <2>1 DEF TokenInv, MintedOnce, Generated
  <2> QED
    BY <2>4, <2>5, <2>6, <2>7 DEF TokenInv
<1>18. CASE UNCHANGED vars
  BY <1>1, <1>18 DEF vars, hostVars, TokenInv, VaultOK, RootOK, MintedOnce, Minted, NotMinted, Up,
     Root, Generated
<1> QED
  BY <1>4, <1>5, <1>6, <1>7, <1>9, <1>10, <1>11, <1>12, <1>13, <1>14, <1>16, <1>17, <1>18, NextCases

-----------------------------------------------------------------------------
(* The results.                                                            *)

LEMMA InitIndInv == Init => IndInv
<1> SUFFICES ASSUME Init PROVE IndInv
  OBVIOUS
<1>1. /\ FreshProcess \in Process /\ EmptyVault \in VaultData
      /\ FreshProcess.at = "begin" /\ FreshProcess.n = 1 /\ ~FreshProcess.container
      /\ ~FreshProcess.egress /\ ~FreshProcess.started /\ ~FreshProcess.result
      /\ FreshProcess.cleanup = "not_started" /\ FreshProcess.outcome = "none"
      /\ EmptyVault.data = "empty" /\ EmptyVault.tokens = {} /\ EmptyVault.attempt = Original
  BY NoShares DEF FreshProcess, EmptyVault, Process, VaultData, Body, InstallSteps
<1>2. << >> \in Seq(Faults) /\ Len(<< >>) <= MaxMishaps
  BY RehearsalAssumption
<1>3. TypeOK
  BY <1>1, <1>2 DEF Init, TypeOK, NoRule
<1>4. ASSUME NEW r \in Runs
      PROVE  /\ self[r] = FreshProcess /\ box[r] = "absent" /\ flight[r] = "none"
             /\ vault[r] = EmptyVault /\ ~sink[r] /\ NoJump(r)
  BY DEF Init, NoJump, NoRule
<1>5. FenceInv
  <2>1. ASSUME NEW r \in Runs PROVE Fence(r)
    <3>1. /\ "begin" \notin Behind \cup Cleaning \cup {"prepare", "check_host", "install", "done"}
          /\ ~Running(r)
      BY <1>4 DEF Behind, Unfenced, Cleaning, Running
    <3> QED
      BY <1>1, <1>4, <3>1 DEF Fence, At, Unfenced
  <2> QED
    BY <2>1 DEF FenceInv
<1>6. CleanupInv
  <2>1. ASSUME NEW r \in Runs PROVE Reports(r)
    <3>1. "begin" \notin Behind
      BY DEF Behind, Unfenced
    <3> QED
      BY <1>1, <1>4, <3>1 DEF Reports, At, NoJump
  <2> QED
    BY <2>1 DEF CleanupInv
<1>7. AttemptInv
  <2>1. \A s \in Runs : ~Up(s) /\ vault[s].attempt = Original
    BY <1>1, <1>4 DEF Up
  <2>2. ASSUME NEW r \in Runs PROVE Idle(r)
    BY <2>1, RehearsalAssumption DEF Idle
  <2>3. ASSUME NEW r \in Runs PROVE Knows(r)
    BY <1>1, <1>4, <2>2 DEF Knows, At
  <2> QED
    BY <2>1, <2>3 DEF AttemptInv
<1>8. TokenInv
  <2>1. \A s \in Runs : ~Up(s) /\ vault[s].tokens = {}
    BY <1>1, <1>4 DEF Up
  <2>2. ASSUME NEW s \in Runs PROVE VaultOK(s)
    BY <1>1, <1>4 DEF VaultOK
  <2>3. \A r, s \in Runs : RootOK(r, s)
    BY <2>1 DEF RootOK
  <2>4. ASSUME NEW r \in Runs PROVE Minted(r)
    BY <1>1, <1>4, <2>1 DEF Minted, NotMinted
  <2> QED
    BY <2>1, <2>2, <2>3, <2>4 DEF TokenInv, MintedOnce
<1> QED
  BY <1>3, <1>5, <1>6, <1>7, <1>8 DEF IndInv

(* No step leaves the inductive invariant.                                 *)
LEMMA IndInvStep == IndInv /\ [Next]_vars => IndInv'
BY TypeStep, FenceStep, CleanupInvStep, AttemptStep, TokenStep DEF IndInv

(* The inductive invariant holds in every state of the rehearsal.          *)
THEOREM Invariance == Spec => []IndInv
<1> QED
  BY InitIndInv, IndInvStep, PTL DEF Spec

(* Every variable keeps a value of its kind: the process records, Vault's  *)
(* shares below the quorum, and the count of mishaps within its bound.     *)
THEOREM TypeCorrect == Spec => []TypeOK
<1>1. IndInv => TypeOK
  BY DEF IndInv
<1> QED
  BY <1>1, Invariance, PTL

(* A container of a run, also one whose program was killed or gave up on   *)
(* docker, runs only behind that run's own complete firewall chains, and   *)
(* its directories are there (EgressGuard.close, cleanup).                 *)
THEOREM FencedAlways == Spec => []Fenced
<1>1. IndInv => Fenced
  <2> SUFFICES ASSUME IndInv, NEW s \in Runs, Running(s)
               PROVE  /\ \A f \in Families : rules[s][f] = [chain |-> "closed", jump |-> TRUE]
                      /\ s \in scratch
    BY DEF Fenced
  <2>1. Closed(s) /\ s \in scratch
    BY DEF IndInv, FenceInv, Fence
  <2>2. ASSUME NEW f \in Families
        PROVE  rules[s][f] = [chain |-> "closed", jump |-> TRUE]
    <3>1. rules[s][f] \in [chain : {"none", "open", "closed"}, jump : BOOLEAN]
      BY DEF IndInv, TypeOK
    <3> QED
      BY <2>1, <3>1 DEF Closed
  <2> QED
    BY <2>1, <2>2
<1> QED
  BY <1>1, Invariance, PTL

(* When the program reports cleanup=passed, its container, its data, its   *)
(* jumps into the firewall chains and its root generation are gone, and    *)
(* they do not come back, whatever docker still carries out for it.        *)
THEOREM CleanupTrue == Spec => []CleanupIsTrue
<1>1. IndInv => CleanupIsTrue
  <2> SUFFICES ASSUME IndInv, NEW r \in Runs, self[r].cleanup = "passed"
               PROVE  /\ box[r] = "absent" /\ r \notin scratch
                      /\ \A f \in Families : ~rules[r][f].jump
                      /\ \A s \in Runs : Up(s) => vault[s].attempt # r
    BY DEF CleanupIsTrue
  <2>1. box[r] = "absent" /\ r \notin scratch /\ NoJump(r)
    BY DEF IndInv, CleanupInv, Reports
  <2>2. Idle(r)
    BY DEF IndInv, AttemptInv, Knows
  <2> QED
    BY <2>1, <2>2 DEF NoJump, Idle
<1> QED
  BY <1>1, Invariance, PTL

(* A run that prints PASS has had a clean-up that passed; its generated    *)
(* root token is in no Vault, and its first one in none that answers.      *)
THEOREM PassClean == Spec => []PassMeansClean
<1>1. IndInv => PassMeansClean
  <2> SUFFICES ASSUME IndInv, NEW r \in Runs, self[r].outcome = "passed"
               PROVE  /\ self[r].cleanup = "passed"
                      /\ \A s \in Runs : Generated(r) \notin vault[s].tokens
                      /\ \A s \in Runs : Up(s) => Root(r) \notin vault[s].tokens
    BY DEF PassMeansClean
  <2>1. self[r].cleanup = "passed" /\ self[r].result
    BY DEF IndInv, CleanupInv, Reports
  <2>2. NotMinted(r)
    BY <2>1 DEF IndInv, TokenInv, Minted
  <2>3. \A s \in Runs : RootOK(r, s)
    BY DEF IndInv, TokenInv
  <2> QED
    BY <2>1, <2>2, <2>3 DEF NotMinted, RootOK
<1> QED
  BY <1>1, Invariance, PTL
=============================================================================
