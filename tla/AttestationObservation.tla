----------------------- MODULE AttestationObservation -----------------------
(***************************************************************************)
(* The observation of finalized duties after an activation: repeated       *)
(* passes that collect the signer's and the fence's records from an        *)
(* archive of log objects, page by page, and look up the votes on two      *)
(* Beacon chains.  Each pass knows only the files of the earlier ones, and *)
(* may end between any two steps.                                          *)
(***************************************************************************)
EXTENDS Naturals, FiniteSets, Sequences

CONSTANTS MaxEpoch,    \* bound on time
          Early,       \* epochs whose duty lies before the activation
          Intervals,   \* fence connections: the duties signed while each was open
          Roots,       \* signing roots of which the archive may have a record
          Required,    \* finalized epochs that are asked for
          Window,      \* epochs that a walk of 512 headers reaches back
          PageObjects, \* objects that one pass reads from the archive
          MaxDuties,   \* duties that the ledger holds
          MaxExtra,    \* bound on records delivered twice or signed twice
          MaxFailures  \* bound on failed or killed passes

Epochs == 1 .. MaxEpoch

ASSUME ObservationAssumption ==
  /\ MaxEpoch \in Nat \ {0} /\ Early \subseteq Epochs /\ Intervals \subseteq SUBSET Epochs
  /\ Required \in 1 .. 3 /\ Window \in Nat /\ PageObjects \in Nat \ {0}
  /\ MaxDuties \in Nat /\ MaxExtra \in Nat /\ MaxFailures \in Nat /\ {"none", "other"} \cap Roots = {}

VARIABLES head,       \* epoch of the private chain's head
          final,      \* last finalized epoch, as each Beacon source shows it
          vote,       \* root that is included for an epoch, once it is final
          archive,    \* the log objects, in the order of their keys
          extra,      \* how many of them are one too many
          cursor,     \* archive-cursor.json
          proofs,     \* workload.json and delivery.json
          checkpoint, \* epochs in finalized-attestation-observer.json
          pass,       \* the pass under way
          verdict,    \* what that pass, or the last one, printed
          failures    \* passes that failed

files == <<cursor, proofs, checkpoint>>
world == <<head, final, vote, archive, extra>>
vars == <<world, files, pass, verdict, failures>>

Sources == {"private", "public"}
NoEvidence == [e \in Epochs |-> "none"]
Has(evidence) == {e \in Epochs : evidence[e] # "none"}

NoCursor == [token |-> 0, ledger |-> {}, signed |-> {}, fences |-> {}, accepted |-> NoEvidence]
NoPass == [at |-> "idle", duties |-> {}, next |-> NoCursor, todo |-> {}, seen |-> {}]

NoVerdict == [state |-> "none", epochs |-> {}]

Init ==
  /\ head = 1
  /\ final = [s \in Sources |-> 0]
  /\ vote = NoEvidence
  /\ archive = << >>
  /\ extra = 0
  /\ cursor = NoCursor
  /\ proofs = [workload |-> NoEvidence, delivery |-> {}]
  /\ checkpoint = {}
  /\ pass = NoPass
  /\ verdict = NoVerdict
  /\ failures = 0

-----------------------------------------------------------------------------
(* The world: chains, signer, fence, and the delivery of their logs.       *)

Advance ==
  /\ head < MaxEpoch
  /\ head' = head + 1
  /\ UNCHANGED <<final, vote, archive, extra, files, pass, verdict, failures>>

Signed(e) == {archive[i].root : i \in {j \in DOMAIN archive :
                archive[j].kind = "signing" /\ archive[j].epoch = e}}

(* A vote can be final before the record of its signing is delivered; it   *)
(* may be missing, or one that this signer has no record of.               *)
Finalize(s) ==
  /\ final[s] < head
  /\ final' = [final EXCEPT ![s] = @ + 1]
  /\ IF \A t \in Sources : final[t] <= final[s]
     THEN \E root \in Roots \cup {"other", "none"} : vote' = [vote EXCEPT ![final[s] + 1] = root]
     ELSE UNCHANGED vote
  /\ UNCHANGED <<head, archive, extra, files, pass, verdict, failures>>

SigningRecord(e, root) == [kind |-> "signing", epoch |-> e, root |-> root, duties |-> {}]
FenceRecord(duties) == [kind |-> "fence", epoch |-> 0, root |-> "none", duties |-> duties]
Records ==
  {SigningRecord(e, root) : e \in 1 .. head, root \in Roots}
    \cup {FenceRecord(duties) : duties \in {d \in Intervals : d \subseteq 1 .. head}}
Archived == {archive[i] : i \in DOMAIN archive}
IsExtra(record) ==
  \/ record \in Archived
  \/ record.kind = "signing" /\ Signed(record.epoch) # {}

(* Firehose may deliver a record twice, a signer may sign twice.           *)
Deliver(record) ==
  /\ record \in Records
  /\ IF IsExtra(record) THEN extra < MaxExtra /\ extra' = extra + 1 ELSE UNCHANGED extra
  /\ archive' = Append(archive, record)
  /\ UNCHANGED <<head, final, vote, files, pass, verdict, failures>>

World ==
  \/ Advance \/ (\E s \in Sources : Finalize(s)) \/ (\E record \in Records : Deliver(record))

-----------------------------------------------------------------------------
(* A pass.  First the assignments of this epoch and the next.              *)
At(at) == pass.at = at
GoesTo(at) == pass' = [pass EXCEPT !.at = at]

Begin ==
  /\ At("idle")
  /\ pass' = [NoPass EXCEPT !.at = "collect", !.duties = {head, head + 1}]
  /\ verdict' = NoVerdict
  /\ UNCHANGED <<world, files, failures>>

(* The archive, from where the cursor stands: PageObjects objects at most. *)
Page(token) == {i \in DOMAIN archive : token < i /\ i <= token + PageObjects}
More(token) == token + PageObjects < Len(archive)
\* Mutant: every pass starts from the beginning of the listing.
NextToken_First(token) == 0
(* At the end of the listing the next pass starts again from its beginning. *)
NextToken(token) == IF More(token) THEN token + PageObjects ELSE 0

Ledger == cursor.ledger \cup pass.duties
Observed == {[epoch |-> archive[i].epoch, root |-> archive[i].root, at |-> i] : i \in
               {j \in Page(cursor.token) : archive[j].kind = "signing" /\ archive[j].epoch \in Ledger}}
SignedNow == cursor.signed \cup Observed
FencesNow == cursor.fences \cup {i \in Page(cursor.token) : archive[i].kind = "fence"}
Contradicts == \E x, y \in SignedNow : x # y /\ x.epoch = y.epoch
Matching(e) == {i \in FencesNow : e \in archive[i].duties}
\* Mutant: any interval will do.
Correlated_Any(row) == TRUE
(* Of the fence's intervals exactly one contains the time of the signing.  *)
Correlated(row) == Cardinality(Matching(row.epoch)) = 1
Accepted ==
  [e \in Epochs |-> IF \E row \in SignedNow : row.epoch = e /\ Correlated(row)
                    THEN (CHOOSE row \in SignedNow : row.epoch = e).root
                    ELSE cursor.accepted[e]]
\* Mutant: accepted records are retained as if they still waited.
Retained_All == SignedNow
Retained == {row \in SignedNow : Accepted[row.epoch] = "none"}

LedgerFull == Cardinality(Ledger) > MaxDuties
CollectNothing ==
  /\ At("collect") /\ LedgerFull
  /\ GoesTo("pending")
  /\ UNCHANGED <<world, files, verdict, failures>>
Collect ==
  /\ At("collect") /\ ~LedgerFull /\ ~Contradicts
  /\ pass' = [pass EXCEPT !.at = "workload",
       !.next = [token |-> NextToken(cursor.token), ledger |-> Ledger, signed |-> Retained,
                 fences |-> FencesNow, accepted |-> Accepted]]
  /\ UNCHANGED <<world, files, verdict, failures>>

(* Two proof files and then the cursor, each replaced atomically.          *)
WriteWorkload ==
  /\ At("workload")
  /\ proofs' = [proofs EXCEPT !.workload = pass.next.accepted]
  /\ GoesTo("delivery")
  /\ UNCHANGED <<world, cursor, checkpoint, verdict, failures>>
WriteDelivery ==
  /\ At("delivery")
  /\ proofs' = [proofs EXCEPT !.delivery = Has(pass.next.accepted)]
  /\ GoesTo("cursor")
  /\ UNCHANGED <<world, cursor, checkpoint, verdict, failures>>
\* Mutant: the cursor carries only what still waits.
WriteCursor_Waiting ==
  /\ At("cursor")
  /\ cursor' = [pass.next EXCEPT !.accepted = NoEvidence]
  /\ pass' = [pass EXCEPT !.next = NoCursor, !.at = IF Has(pass.next.accepted) = {} THEN "pending" ELSE "observe"]
  /\ UNCHANGED <<world, proofs, checkpoint, verdict, failures>>
WriteCursor ==
  /\ At("cursor")
  /\ cursor' = pass.next
  /\ pass' = [pass EXCEPT !.next = NoCursor, !.at = IF Has(pass.next.accepted) = {} THEN "pending" ELSE "observe"]
  /\ UNCHANGED <<world, proofs, checkpoint, verdict, failures>>

-----------------------------------------------------------------------------
(* The observer: every epoch with evidence, new or of the checkpoint, is   *)
(* looked up again on both chains, one after another.                      *)
Included(s, e) == vote[e] # "none" /\ e <= final[s] /\ final[s] <= e + Window
Evidence == Has(proofs.workload) \cap proofs.delivery

ReadProofs ==
  /\ At("observe")
  /\ pass' = [pass EXCEPT !.at = "epochs", !.todo = (checkpoint \cup Evidence), !.seen = {}]
  /\ UNCHANGED <<world, files, verdict, failures>>

Least(set) == CHOOSE x \in set : \A y \in set : x <= y
\* Mutant: every duty counts, also one before the activation.
Counts_Always(e) == TRUE
Counts(e) == e \notin Early
(* A record whose root is not the one included raises.                     *)
LookUp ==
  /\ At("epochs") /\ pass.todo # {}
  /\ LET e == Least(pass.todo)
         proved == Counts(e) /\ \A s \in Sources : Included(s, e)
     IN /\ proved /\ e \in Evidence => proofs.workload[e] = vote[e]
        /\ pass' = [pass EXCEPT !.todo = @ \ {e}, !.seen = IF proved THEN @ \cup {e} ELSE @]
  /\ UNCHANGED <<world, files, verdict, failures>>

(* The last run of consecutive epochs.                                     *)
LastBlock(epochs) == {e \in epochs : \A f \in epochs : f > e => e .. f \subseteq epochs}

SaveCheckpoint ==
  /\ At("epochs") /\ pass.todo = {}
  /\ checkpoint' = LastBlock(pass.seen)
  /\ pass' = [pass EXCEPT !.at = "verdict", !.seen = LastBlock(@)]
  /\ UNCHANGED <<world, cursor, proofs, verdict, failures>>

(* Complete only with enough epochs.                                       *)
Verdict ==
  /\ At("verdict")
  /\ verdict' = [state |-> IF Cardinality(pass.seen) >= Required THEN "complete" ELSE "pending",
                 epochs |-> pass.seen]
  /\ pass' = NoPass
  /\ UNCHANGED <<world, files, failures>>
Pending ==
  /\ At("pending")
  /\ verdict' = [state |-> "pending", epochs |-> {}]
  /\ pass' = NoPass
  /\ UNCHANGED <<world, files, failures>>

(* What makes a pass raise, whatever is tried again.                       *)
Raises ==
  \/ At("collect") /\ ~LedgerFull /\ Contradicts
  \/ /\ At("epochs") /\ pass.todo # {}
     /\ LET e == Least(pass.todo)
        IN /\ Counts(e) /\ e \in Evidence /\ \A s \in Sources : Included(s, e)
           /\ proofs.workload[e] # vote[e]
Raise ==
  /\ Raises
  /\ pass' = NoPass
  /\ verdict' = [state |-> "unavailable", epochs |-> {}]
  /\ UNCHANGED <<world, files, failures>>
(* A request fails, the Beacon Pod is replaced, or the process is killed.  *)
Fail ==
  /\ ~At("idle") /\ failures < MaxFailures
  /\ failures' = failures + 1
  /\ pass' = NoPass
  /\ verdict' = [state |-> "unavailable", epochs |-> {}]
  /\ UNCHANGED <<world, files>>

Step ==
  \/ Begin \/ CollectNothing \/ Collect \/ WriteWorkload \/ WriteDelivery \/ WriteCursor
  \/ ReadProofs \/ LookUp \/ SaveCheckpoint
  \/ Verdict \/ Pending \/ Raise
Next == World \/ Step \/ Fail

Spec == Init /\ [][Next]_vars

(* The Beacon nodes finalize; a record of each duty and fence connection is *)
(* delivered in the end; the supervisor repeats its passes.                *)
Due ==
  \/ Advance \/ \E s \in Sources : Finalize(s)
  \/ \E record \in Records : ~IsExtra(record) /\ Deliver(record)
Fairness == WF_vars(Step) /\ WF_vars(Due)

FairSpec == Spec /\ Fairness

-----------------------------------------------------------------------------
EvidenceType == [Epochs -> Roots \cup {"none"}]
CursorType ==
  [token : Nat, ledger : SUBSET (1 .. MaxEpoch + 1), fences : SUBSET Nat, accepted : EvidenceType,
   signed : SUBSET [epoch : Epochs, root : Roots, at : Nat]]

(* TypeOK: every variable has a value of its kind.                         *)
TypeOK ==
  /\ head \in Epochs /\ final \in [Sources -> 0 .. MaxEpoch] /\ vote \in [Epochs -> Roots \cup {"other", "none"}]
  /\ extra \in 0 .. MaxExtra /\ failures \in 0 .. MaxFailures
  /\ cursor \in CursorType /\ pass.next \in CursorType
  /\ proofs \in [workload : EvidenceType, delivery : SUBSET Epochs]
  /\ checkpoint \subseteq Epochs
  /\ pass.todo \subseteq Epochs /\ pass.seen \subseteq Epochs /\ pass.duties \subseteq 1 .. MaxEpoch + 1
  /\ verdict \in [state : {"none", "pending", "unavailable", "complete"}, epochs : SUBSET Epochs]

(* VerdictIsTrue: when a pass prints complete, it has printed as many       *)
(* consecutive epochs as were asked for, each after the activation and     *)
(* final on both chains, with the vote that is included signed according   *)
(* to a record in the archive and a fence connection that was open then.   *)
VerdictIsTrue ==
  verdict.state = "complete" =>
    /\ Cardinality(verdict.epochs) >= Required
    /\ \E a, b \in Epochs : verdict.epochs = a .. b
    /\ verdict.epochs \cap Early = {}
    /\ \A e \in verdict.epochs :
         /\ \A s \in Sources : e <= final[s]
         /\ \E root \in Signed(e) : root = vote[e]
         /\ \E duties \in Intervals : e \in duties /\ FenceRecord(duties) \in Archived

(* CheckpointBacked: the observer's checkpoint names only epochs whose      *)
(* evidence the collector's cursor still holds, although a pass can end    *)
(* between any two of the files it writes, and no record waits for a fence *)
(* connection whose duty has one already.                                  *)
CheckpointBacked ==
  /\ checkpoint \subseteq Has(cursor.accepted)
  /\ \A row \in cursor.signed : cursor.accepted[row.epoch] = "none"

(* Required consecutive epochs that can be proved.                         *)
Provable(e) ==
  /\ e \notin Early /\ e \in cursor.ledger
  /\ e <= head /\ vote[e] # "none"
  /\ \A s \in Sources : final[s] <= e + Window
  /\ Signed(e) = {vote[e]}
Possible ==
  /\ extra = 0 /\ Cardinality(cursor.ledger \cup {head, head + 1}) <= MaxDuties
  /\ \E a, b \in Epochs : b + 1 = a + Required /\ \A e \in a .. b : Provable(e)
  /\ \A e \in Epochs : vote[e] # "none" => Signed(e) \subseteq {vote[e]}

(* Completes: when the duties were done, and their records are delivered in *)
(* whatever order and read in whatever pages, repeated passes end with a   *)
(* complete observation.                                                   *)
Completes == []<>(~Possible) \/ <>(verdict.state = "complete")
=============================================================================
