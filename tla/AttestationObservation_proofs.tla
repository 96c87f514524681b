-------------------- MODULE AttestationObservation_proofs --------------------
(***************************************************************************)
(* Theorems about AttestationObservation, for every number of epochs,      *)
(* duties, connections, records and failed passes, records delivered or    *)
(* signed twice included: a complete observation is true, and the          *)
(* observer's checkpoint is backed by the collector's cursor.              *)
(***************************************************************************)
EXTENDS AttestationObservation, Integers, FiniteSetTheorems, WellFoundedInduction, TLAPS

Objects ==
  {SigningRecord(e, root) : e \in Epochs, root \in Roots}
    \cup {FenceRecord(duties) : duties \in Intervals}
Stages == {"idle", "collect", "pending", "workload", "delivery", "cursor", "observe", "epochs", "verdict"}
PassType ==
  [at : Stages, duties : SUBSET (1 .. MaxEpoch + 1), next : CursorType,
   todo : SUBSET Epochs, seen : SUBSET Epochs]

TypeInv == TypeOK /\ archive \in Seq(Objects) /\ pass \in PassType

(* The archive has a record of the signing of root for epoch e, and one of *)
(* a fence connection that was open then.                                  *)
Backed(e, root) ==
  /\ root \in Signed(e)
  /\ \E duties \in Intervals : e \in duties /\ FenceRecord(duties) \in Archived

(* What a cursor, written or not, says of the archive.                     *)
CursorTrue(c) ==
  /\ \A e \in Epochs : c.accepted[e] # "none" => Backed(e, c.accepted[e])
  /\ \A row \in c.signed : row.root \in Signed(row.epoch) /\ c.accepted[row.epoch] = "none"
  /\ \A i \in c.fences : i \in DOMAIN archive /\ archive[i].kind = "fence"
CursorInv == CursorTrue(cursor) /\ CursorTrue(pass.next)

(* The files agree at each stage of a pass: before the cursor is replaced  *)
(* the new one holds all that the old one did, and the observer reads the  *)
(* proofs that belong to the cursor.                                       *)
FilesInv ==
  /\ checkpoint \subseteq Has(cursor.accepted)
  /\ pass.at \in {"workload", "delivery", "cursor"} => Has(cursor.accepted) \subseteq Has(pass.next.accepted)
  /\ pass.at \in {"delivery", "cursor"} => proofs.workload = pass.next.accepted
  /\ pass.at = "cursor" => proofs.delivery = Has(pass.next.accepted)
  /\ pass.at \in {"observe", "epochs"} =>
       proofs.workload = cursor.accepted /\ proofs.delivery = Has(cursor.accepted)

(* Nothing that happens later makes a proved epoch untrue.                 *)
Proved(e) ==
  /\ e \in Epochs \ Early /\ \A s \in Sources : e <= final[s]
  /\ Backed(e, vote[e])
Consecutive(epochs) == epochs = {} \/ \E a, b \in Epochs : epochs = a .. b
SeenInv ==
  /\ pass.at = "epochs" => pass.todo \subseteq Has(cursor.accepted)
  /\ pass.at \in {"epochs", "verdict"} =>
       pass.seen \subseteq Has(cursor.accepted) /\ \A e \in pass.seen : Proved(e)
  /\ pass.at = "verdict" => Consecutive(pass.seen)
VerdictInv ==
  verdict.state = "complete" =>
    /\ Cardinality(verdict.epochs) >= Required /\ verdict.epochs # {} /\ Consecutive(verdict.epochs)
    /\ \A e \in verdict.epochs : Proved(e)

-----------------------------------------------------------------------------
(* Finite sets of epochs.                                                  *)

(* A nonempty set of bounded numbers has a greatest element.               *)
LEMMA Greatest ==
  ASSUME NEW n \in Nat, NEW T \in SUBSET (1 .. n), T # {}
  PROVE  \E x \in T : \A y \in T : y <= x
<1> DEFINE Above(x) == {y \in T : y > x}
<1> DEFINE F == {Above(x) : x \in T}
<1>1. F \subseteq FiniteSubsetsOf(1 .. n) /\ F # {}
  <2>1. \A x \in T : Above(x) \in SUBSET (1 .. n)
    OBVIOUS
  <2>2. IsFiniteSet(1 .. n)
    BY FS_Interval
  <2>3. \A U \in SUBSET (1 .. n) : IsFiniteSet(U)
    BY <2>2, FS_Subset
  <2>. QED BY <2>1, <2>3 DEF FiniteSubsetsOf
<1>2. PICK U \in F : \A V \in F : ~ (<<V, U>> \in StrictSubsetOrdering(1 .. n))
  <2> HIDE DEF F
  <2>. QED BY <1>1, FS_StrictSubsetOrderingWellFounded, WFMin
<1>3. PICK x \in T : U = Above(x)
  BY <1>2
<1>4. ASSUME NEW y \in T, y > x PROVE FALSE
  <2>1. Above(y) \in F
    OBVIOUS
  <2>2. Above(y) \subseteq U
    <3>1. \A z \in T : z \in Int
      OBVIOUS
    <3>2. \A z \in T : z > y => z > x
      BY <1>4, <3>1
    <3>. QED BY <1>3, <3>2
  <2>3. y \in U /\ y \notin Above(y)
    BY <1>3, <1>4
  <2>4. Above(y) # U
    BY <2>3
  <2>5. Above(y) \in SUBSET (1 .. n) /\ U \in SUBSET (1 .. n)
    BY <1>3
  <2>. QED BY <1>2, <2>1, <2>2, <2>4, <2>5 DEF StrictSubsetOrdering
<1>. QED BY <1>4

LEMMA Smallest ==
  ASSUME NEW n \in Nat, NEW T \in SUBSET (1 .. n), T # {}
  PROVE  \E x \in T : \A y \in T : x <= y
<1> DEFINE U == {n + 1 - y : y \in T}
<1>1. U \in SUBSET (1 .. n) /\ U # {}
  <2>1. \A y \in T : n + 1 - y \in 1 .. n
    <3>1. \A y \in T : y \in 1 .. n
      OBVIOUS
    <3>. QED BY <3>1
  <2>. QED BY <2>1
<1> HIDE DEF U
<1>2. PICK u \in U : \A v \in U : v <= u
  BY <1>1, Greatest
<1>3. PICK x \in T : u = n + 1 - x
  BY <1>2 DEF U
<1>4. \A y \in T : n + 1 - y \in U
  BY DEF U
<1>. QED BY <1>2, <1>3, <1>4

(* Least chooses an element of the set that is left to look up.            *)
LEMMA LeastIn ==
  ASSUME NEW T \in SUBSET Epochs, T # {}
  PROVE  Least(T) \in T /\ \A y \in T : Least(T) <= y
<1>1. MaxEpoch \in Nat /\ T \in SUBSET (1 .. MaxEpoch)
  BY ObservationAssumption DEF Epochs
<1>2. \E x \in T : \A y \in T : x <= y
  BY <1>1, Smallest
<1>. QED BY <1>2 DEF Least

(* The last block of a set of epochs is an interval.                       *)
LEMMA LastBlockConsecutive ==
  ASSUME NEW T \in SUBSET Epochs
  PROVE  LastBlock(T) \subseteq T /\ Consecutive(LastBlock(T))
<1>1. LastBlock(T) \subseteq T
  BY DEF LastBlock
<1>2. CASE LastBlock(T) = {}
  BY <1>1, <1>2 DEF Consecutive
<1>3. CASE LastBlock(T) # {}
  <2> DEFINE B == LastBlock(T)
  <2>1. B \in SUBSET Epochs /\ B # {} /\ Epochs = 1 .. MaxEpoch /\ MaxEpoch \in Nat /\ T # {}
    BY <1>1, <1>3, ObservationAssumption DEF Epochs
  <2>2. PICK b \in T : \A y \in T : y <= b
    BY <2>1, Greatest
  <2>3. PICK a \in B : \A y \in B : a <= y
    BY <2>1, LeastIn
  <2>4. a .. b \subseteq T
    <3>1. a \in T /\ \A f \in T : f > a => a .. f \subseteq T
      BY <2>3 DEF LastBlock
    <3>2. a \in Nat /\ b \in Nat /\ a <= b
      BY <2>1, <2>2, <3>1
    <3>3. CASE a = b
      BY <3>1, <3>2, <3>3
    <3>4. CASE a < b
      BY <2>2, <3>1, <3>2, <3>4
    <3>. QED BY <3>2, <3>3, <3>4
  <2>5. \A x \in a .. b : x \in B
    <3>1. SUFFICES ASSUME NEW x \in a .. b, NEW f \in T, f > x PROVE x .. f \subseteq T
      BY <2>4 DEF LastBlock
    <3>2. f \in Nat /\ f <= b /\ a \in Nat /\ b \in Nat
      BY <2>1, <2>2, <2>3, <1>1
    <3>3. x .. f \subseteq a .. b
      BY <3>1, <3>2
    <3>. QED BY <2>4, <3>3
  <2>6. \A x \in B : x \in a .. b
    <3>1. \A x \in B : x \in Nat /\ a <= x /\ x <= b
      BY <1>1, <2>1, <2>2, <2>3
    <3>. QED BY <3>1, <2>1, <2>2, <2>3
  <2>7. B = a .. b
    BY <2>5, <2>6
  <2>8. a \in Epochs /\ b \in Epochs
    BY <2>1, <2>2, <2>3
  <2>. QED BY <1>1, <2>7, <2>8 DEF Consecutive
<1>. QED BY <1>2, <1>3

-----------------------------------------------------------------------------
(* The archive.                                                            *)

LEMMA Consts ==
  /\ MaxEpoch \in Nat \ {0} /\ Epochs = 1 .. MaxEpoch /\ Epochs \subseteq Nat
  /\ Required \in 1 .. 3 /\ PageObjects \in Nat
  /\ "none" \notin Roots /\ "other" \notin Roots
  /\ 1 \in Epochs /\ \A e \in Epochs : e \in 1 .. MaxEpoch + 1
BY ObservationAssumption DEF Epochs

LEMMA ArchiveFacts ==
  ASSUME TypeInv
  PROVE  /\ Len(archive) \in Nat /\ DOMAIN archive = 1 .. Len(archive)
         /\ \A i \in DOMAIN archive : i \in Nat /\ archive[i] \in Objects
         /\ \A i \in DOMAIN archive : archive[i].kind = "signing" =>
              archive[i].epoch \in Epochs /\ archive[i].root \in Roots
         /\ \A i \in DOMAIN archive : archive[i].kind = "fence" =>
              archive[i].duties \in Intervals /\ FenceRecord(archive[i].duties) = archive[i]
<1> DEFINE S == Objects
<1>1. archive \in Seq(S)
  BY DEF TypeInv
<1> HIDE DEF S
<1>2. Len(archive) \in Nat /\ DOMAIN archive = 1 .. Len(archive) /\ \A i \in DOMAIN archive : i \in Nat /\ archive[i] \in S
  BY <1>1
<1>3. \A r \in Objects : /\ r.kind = "signing" => r.epoch \in Epochs /\ r.root \in Roots
                         /\ r.kind = "fence" => r.duties \in Intervals /\ FenceRecord(r.duties) = r
  BY DEF Objects, SigningRecord, FenceRecord
<1>. QED BY <1>2, <1>3 DEF S

(* Records are only added.                                                 *)
LEMMA ArchiveGrows ==
  ASSUME TypeInv,
         archive' = archive \/ \E record \in Objects : archive' = Append(archive, record)
  PROVE  /\ archive' \in Seq(Objects)
         /\ \A i \in DOMAIN archive : i \in DOMAIN archive' /\ archive'[i] = archive[i]
         /\ Archived \subseteq Archived'
         /\ \A e : Signed(e) \subseteq Signed(e)'
         /\ \A e, root : Backed(e, root) => Backed(e, root)'
         /\ \A c : CursorTrue(c) => CursorTrue(c)'
<1> DEFINE S == Objects
<1>1. archive \in Seq(S)
  BY DEF TypeInv
<1> HIDE DEF S
<1>2. archive' = archive \/ \E record \in S : archive' = Append(archive, record)
  BY DEF S
<1>3. archive' \in Seq(S) /\ \A i \in DOMAIN archive : i \in DOMAIN archive' /\ archive'[i] = archive[i]
  BY <1>1, <1>2
<1>4. Archived \subseteq Archived'
  BY <1>3 DEF Archived
<1>5. ASSUME NEW e, NEW root \in Signed(e) PROVE root \in Signed(e)'
  <2>1. PICK i \in DOMAIN archive : archive[i].kind = "signing" /\ archive[i].epoch = e /\ root = archive[i].root
    BY <1>5 DEF Signed
  <2>2. i \in DOMAIN archive' /\ archive'[i] = archive[i]
    BY <1>3, <2>1
  <2>. QED BY <2>1, <2>2 DEF Signed
<1>6. \A e, root : Backed(e, root) => Backed(e, root)'
  BY <1>4, <1>5 DEF Backed
<1>7. ASSUME NEW c, CursorTrue(c) PROVE CursorTrue(c)'
  BY <1>3, <1>5, <1>6, <1>7 DEF CursorTrue
<1>. QED BY <1>3, <1>4, <1>5, <1>6, <1>7 DEF S

(* What the page shows of the duties in the ledger.                        *)
LEMMA CollectFacts ==
  ASSUME TypeInv, CursorInv
  PROVE  /\ SignedNow \subseteq [epoch : Epochs, root : Roots, at : Nat]
         /\ \A row \in SignedNow : row.root \in Signed(row.epoch)
         /\ FencesNow \subseteq Nat
         /\ \A i \in FencesNow : i \in DOMAIN archive /\ archive[i].kind = "fence"
         /\ Ledger \subseteq 1 .. MaxEpoch + 1 /\ NextToken(cursor.token) \in Nat
<1>1. /\ cursor \in CursorType /\ pass \in PassType
  BY DEF TypeInv, TypeOK
<1>2. Page(cursor.token) \subseteq DOMAIN archive
  BY DEF Page
<1>3. ASSUME NEW i \in Page(cursor.token), archive[i].kind = "signing"
      PROVE  /\ [epoch |-> archive[i].epoch, root |-> archive[i].root, at |-> i]
                  \in [epoch : Epochs, root : Roots, at : Nat]
             /\ archive[i].root \in Signed(archive[i].epoch)
  <2>1. i \in DOMAIN archive /\ i \in Nat /\ archive[i].epoch \in Epochs /\ archive[i].root \in Roots
    BY <1>2, <1>3, ArchiveFacts
  <2>2. archive[i].root \in Signed(archive[i].epoch)
    BY <2>1, <1>3 DEF Signed
  <2>. QED BY <2>1, <2>2
<1>4. /\ Observed \subseteq [epoch : Epochs, root : Roots, at : Nat]
      /\ \A row \in Observed : row.root \in Signed(row.epoch)
  BY <1>3 DEF Observed
<1>5. /\ cursor.signed \subseteq [epoch : Epochs, root : Roots, at : Nat]
      /\ \A row \in cursor.signed : row.root \in Signed(row.epoch)
  BY <1>1 DEF CursorInv, CursorTrue, CursorType
<1>6. \A i \in FencesNow : i \in DOMAIN archive /\ archive[i].kind = "fence"
  BY <1>2 DEF FencesNow, CursorInv, CursorTrue
<1>7. FencesNow \subseteq Nat
  BY <1>6, ArchiveFacts
<1>8. Ledger \subseteq 1 .. MaxEpoch + 1
  BY <1>1 DEF Ledger, CursorType, PassType
<1>9. NextToken(cursor.token) \in Nat
  BY <1>1, Consts DEF NextToken, CursorType
<1>. QED BY <1>4, <1>5, <1>6, <1>7, <1>8, <1>9 DEF SignedNow

(* What Collect accepts is backed, and what it retains still waits.        *)
LEMMA AcceptedFacts ==
  ASSUME TypeInv, CursorInv
  PROVE  /\ Accepted \in EvidenceType
         /\ \A e \in Epochs : Accepted[e] # "none" => Backed(e, Accepted[e])
         /\ Has(cursor.accepted) \subseteq Has(Accepted)
         /\ Retained \subseteq SignedNow /\ \A row \in Retained : Accepted[row.epoch] = "none"
<1>1. cursor.accepted \in EvidenceType
  BY DEF TypeInv, TypeOK, CursorType
<1> DEFINE Now(e) == \E row \in SignedNow : row.epoch = e /\ Correlated(row)
<1> DEFINE Row(e) == CHOOSE row \in SignedNow : row.epoch = e
<1>2. ASSUME NEW e \in Epochs, Now(e)
      PROVE  Row(e).root \in Roots /\ Backed(e, Row(e).root)
  <2>1. PICK row \in SignedNow : row.epoch = e /\ Correlated(row)
    BY <1>2
  <2>2. Row(e) \in SignedNow /\ Row(e).epoch = e
    BY <2>1
  <2> HIDE DEF Row
  <2>3. Row(e).root \in Roots /\ Row(e).root \in Signed(e)
    BY <2>2, CollectFacts
  <2>4. Matching(e) # {}
    BY <2>1, FS_EmptySet DEF Correlated
  <2>5. PICK i \in FencesNow : e \in archive[i].duties
    BY <2>4 DEF Matching
  <2>6. archive[i].duties \in Intervals /\ FenceRecord(archive[i].duties) = archive[i] /\ i \in DOMAIN archive
    BY CollectFacts, ArchiveFacts
  <2>7. FenceRecord(archive[i].duties) \in Archived
    BY <2>6 DEF Archived
  <2>. QED BY <2>3, <2>5, <2>6, <2>7 DEF Backed
<1>3. Accepted = [e \in Epochs |-> IF Now(e) THEN Row(e).root ELSE cursor.accepted[e]]
  BY DEF Accepted
<1> HIDE DEF Now, Row
<1>4. Accepted \in EvidenceType
  BY <1>1, <1>2, <1>3 DEF EvidenceType
<1>5. \A e \in Epochs : Accepted[e] # "none" => Backed(e, Accepted[e])
  BY <1>2, <1>3 DEF CursorInv, CursorTrue
<1>6. Has(cursor.accepted) \subseteq Has(Accepted)
  BY <1>2, <1>3, Consts DEF Has
<1>. QED BY <1>4, <1>5, <1>6 DEF Retained

-----------------------------------------------------------------------------
(* Type correctness, and what the steps of a pass do to it.                *)

LEMMA TypeParts ==
  ASSUME TypeInv
  PROVE  /\ head \in Epochs /\ final \in [Sources -> 0 .. MaxEpoch]
         /\ vote \in [Epochs -> Roots \cup {"other", "none"}]
         /\ archive \in Seq(Objects) /\ extra \in 0 .. MaxExtra /\ failures \in 0 .. MaxFailures
         /\ cursor \in CursorType /\ proofs \in [workload : EvidenceType, delivery : SUBSET Epochs]
         /\ checkpoint \in SUBSET Epochs /\ pass \in PassType
         /\ verdict \in [state : {"none", "pending", "unavailable", "complete"}, epochs : SUBSET Epochs]
         /\ pass.next \in CursorType /\ pass.todo \in SUBSET Epochs /\ pass.seen \in SUBSET Epochs
         /\ pass.at \in Stages /\ pass.duties \in SUBSET (1 .. MaxEpoch + 1)
         /\ cursor.accepted \in EvidenceType /\ pass.next.accepted \in EvidenceType
BY DEF TypeInv, TypeOK, PassType, CursorType

(* TypeInv is that each variable has a value of its kind.                  *)
LEMMA TypeWhole ==
  ASSUME head' \in Epochs, final' \in [Sources -> 0 .. MaxEpoch],
         vote' \in [Epochs -> Roots \cup {"other", "none"}],
         archive' \in Seq(Objects), extra' \in 0 .. MaxExtra, failures' \in 0 .. MaxFailures,
         cursor' \in CursorType, proofs' \in [workload : EvidenceType, delivery : SUBSET Epochs],
         checkpoint' \in SUBSET Epochs, pass' \in PassType,
         verdict' \in [state : {"none", "pending", "unavailable", "complete"}, epochs : SUBSET Epochs]
  PROVE  TypeInv'
BY DEF TypeInv, TypeOK, PassType

(* The empty cursor and the pass that is not under way.                    *)
LEMMA Nothing ==
  /\ NoCursor \in CursorType /\ NoEvidence \in EvidenceType /\ NoPass \in PassType
  /\ Has(NoEvidence) = {} /\ NoCursor.accepted = NoEvidence
  /\ NoPass.at = "idle" /\ NoPass.next = NoCursor
<1>1. NoEvidence \in EvidenceType /\ Has(NoEvidence) = {}
  BY DEF NoEvidence, EvidenceType, Has
<1>2. NoCursor \in CursorType /\ NoCursor.accepted = NoEvidence
  BY <1>1 DEF NoCursor, CursorType
<1>. QED BY <1>1, <1>2 DEF NoPass, PassType, Stages

(* The empty cursor is true of any archive.                                *)
LEMMA NothingTrue == CursorTrue(NoCursor) /\ CursorTrue(NoCursor)'
BY DEF CursorTrue, NoCursor, NoEvidence

LEMMA InitType == Init => TypeInv
<1> SUFFICES ASSUME Init PROVE TypeInv
  OBVIOUS
<1>1. head \in Epochs /\ final \in [Sources -> 0 .. MaxEpoch] /\ vote \in [Epochs -> Roots \cup {"other", "none"}]
  BY Consts DEF Init, NoEvidence
<1>2. archive \in Seq(Objects) /\ extra \in 0 .. MaxExtra /\ failures \in 0 .. MaxFailures
  BY ObservationAssumption DEF Init
<1>3. cursor \in CursorType /\ proofs \in [workload : EvidenceType, delivery : SUBSET Epochs] /\ pass \in PassType
  BY Nothing DEF Init
<1>4. verdict \in [state : {"none", "pending", "unavailable", "complete"}, epochs : SUBSET Epochs]
  BY DEF Init, NoVerdict
<1>5. checkpoint = {}
  BY DEF Init
<1>. QED BY <1>1, <1>2, <1>3, <1>4, <1>5 DEF TypeInv, TypeOK, PassType

(* A pass that only goes on to its next stage.                             *)
LEMMA Goes ==
  ASSUME TypeInv, NEW at \in Stages, GoesTo(at)
  PROVE  /\ pass' \in PassType /\ pass'.at = at /\ pass'.duties = pass.duties
         /\ pass'.next = pass.next /\ pass'.todo = pass.todo /\ pass'.seen = pass.seen
BY TypeParts DEF GoesTo, PassType

(* The other steps, each as what it makes of the pass and of the files.    *)
LEMMA BeginEffect ==
  ASSUME TypeInv, Begin
  PROVE  /\ pass' \in PassType /\ pass'.at = "collect" /\ pass'.next = NoCursor
         /\ verdict' = NoVerdict /\ UNCHANGED <<world, files, failures>>
<1>1. {head, head + 1} \in SUBSET (1 .. MaxEpoch + 1)
  BY TypeParts, Consts
<1>2. pass' = [at |-> "collect", duties |-> {head, head + 1}, next |-> NoCursor, todo |-> {}, seen |-> {}]
  BY DEF Begin, NoPass
<1>. QED BY <1>1, <1>2, Nothing DEF Begin, PassType, Stages

LEMMA CollectEffect ==
  ASSUME TypeInv, CursorInv, Collect
  PROVE  /\ pass' \in PassType /\ pass'.at = "workload"
         /\ pass'.next.accepted = Accepted /\ pass'.next.signed = Retained /\ pass'.next.fences = FencesNow
         /\ UNCHANGED <<world, files, verdict, failures>>
<1> DEFINE c == [token |-> NextToken(cursor.token), ledger |-> Ledger, signed |-> Retained,
                 fences |-> FencesNow, accepted |-> Accepted]
<1>1. c \in CursorType
  BY CollectFacts, AcceptedFacts DEF CursorType
<1>2. pass' = [pass EXCEPT !.at = "workload", !.next = c]
  BY DEF Collect
<1>3. c.accepted = Accepted /\ c.signed = Retained /\ c.fences = FencesNow
  OBVIOUS
<1> HIDE DEF c
<1>4. pass' \in PassType /\ pass'.at = "workload" /\ pass'.next = c
  BY <1>1, <1>2, TypeParts DEF PassType, Stages
<1>. QED BY <1>3, <1>4 DEF Collect

LEMMA WriteCursorEffect ==
  ASSUME TypeInv, WriteCursor
  PROVE  /\ pass' \in PassType /\ pass'.at \in {"pending", "observe"} /\ pass'.next = NoCursor
         /\ cursor' = pass.next
         /\ UNCHANGED <<world, proofs, checkpoint, verdict, failures>>
<1>1. pass' = [pass EXCEPT !.next = NoCursor,
                           !.at = IF Has(pass.next.accepted) = {} THEN "pending" ELSE "observe"]
  BY DEF WriteCursor
<1>. QED BY <1>1, TypeParts, Nothing DEF WriteCursor, PassType, Stages

LEMMA ReadProofsEffect ==
  ASSUME TypeInv, ReadProofs
  PROVE  /\ pass' \in PassType /\ pass'.at = "epochs" /\ pass'.next = pass.next
         /\ pass'.todo = checkpoint \cup Evidence /\ pass'.seen = {}
         /\ UNCHANGED <<world, files, verdict, failures>>
<1>1. checkpoint \cup Evidence \in SUBSET Epochs
  BY TypeParts DEF Evidence, Has
<1>. QED BY <1>1, TypeParts DEF ReadProofs, PassType, Stages

LEMMA LookUpEffect ==
  ASSUME TypeInv, LookUp
  PROVE  LET e == Least(pass.todo)
             proved == Counts(e) /\ \A s \in Sources : Included(s, e)
         IN  /\ e \in pass.todo /\ (proved /\ e \in Evidence => proofs.workload[e] = vote[e])
             /\ pass' \in PassType /\ pass'.at = "epochs" /\ pass'.next = pass.next
             /\ pass'.todo \subseteq pass.todo
             /\ pass'.seen = IF proved THEN pass.seen \cup {e} ELSE pass.seen
             /\ UNCHANGED <<world, files, verdict, failures>>
<1> DEFINE e == Least(pass.todo)
           proved == Counts(e) /\ \A s \in Sources : Included(s, e)
<1>1. e \in pass.todo /\ pass.todo \in SUBSET Epochs
  BY TypeParts, LeastIn DEF LookUp
<1>2. /\ proved /\ e \in Evidence => proofs.workload[e] = vote[e]
      /\ pass' = [pass EXCEPT !.todo = @ \ {e}, !.seen = IF proved THEN @ \cup {e} ELSE @]
      /\ pass.at = "epochs" /\ UNCHANGED <<world, files, verdict, failures>>
  BY DEF LookUp, At
<1> HIDE DEF e, proved
<1>3. pass' \in PassType /\ pass'.at = "epochs" /\ pass'.next = pass.next
      /\ pass'.todo \subseteq pass.todo
      /\ pass'.seen = IF proved THEN pass.seen \cup {e} ELSE pass.seen
  <2> DEFINE seen == IF proved THEN pass.seen \cup {e} ELSE pass.seen
             todo == pass.todo \ {e}
  <2>1. pass' = [pass EXCEPT !.todo = todo, !.seen = seen]
    BY <1>2
  <2>2. seen \in SUBSET Epochs /\ todo \in SUBSET Epochs /\ todo \subseteq pass.todo
    BY <1>1, TypeParts
  <2> HIDE DEF seen, todo
  <2>3. /\ pass' \in PassType /\ pass'.at = "epochs" /\ pass'.next = pass.next
        /\ pass'.todo \subseteq pass.todo /\ pass'.seen = seen
    BY <1>1, <1>2, <2>1, <2>2, TypeParts DEF PassType
  <2>. QED BY <2>3 DEF seen
<1>. QED BY <1>1, <1>2, <1>3 DEF e, proved

LEMMA SaveEffect ==
  ASSUME TypeInv, SaveCheckpoint
  PROVE  /\ pass.at = "epochs" /\ checkpoint' = LastBlock(pass.seen)
         /\ LastBlock(pass.seen) \subseteq pass.seen /\ Consecutive(LastBlock(pass.seen))
         /\ pass' \in PassType /\ pass'.at = "verdict" /\ pass'.next = pass.next
         /\ pass'.seen = LastBlock(pass.seen)
         /\ UNCHANGED <<world, cursor, proofs, verdict, failures>>
<1>1. LastBlock(pass.seen) \subseteq pass.seen /\ Consecutive(LastBlock(pass.seen)) /\ pass.seen \in SUBSET Epochs
  BY TypeParts, LastBlockConsecutive
<1>2. pass' = [pass EXCEPT !.at = "verdict", !.seen = LastBlock(pass.seen)]
  BY DEF SaveCheckpoint
<1>. QED BY <1>1, <1>2, TypeParts DEF SaveCheckpoint, At, PassType, Stages

(* The steps of the chains and of the log delivery.                        *)
LEMMA WorldEffect ==
  ASSUME TypeInv, World
  PROVE  /\ head' \in Epochs /\ final' \in [Sources -> 0 .. MaxEpoch]
         /\ vote' \in [Epochs -> Roots \cup {"other", "none"}] /\ extra' \in 0 .. MaxExtra
         /\ archive' = archive \/ \E record \in Objects : archive' = Append(archive, record)
         /\ UNCHANGED <<files, pass, verdict, failures>>
         /\ \A s \in Sources : final[s] <= final'[s]
         /\ \A e \in Epochs : (\A s \in Sources : e <= final[s]) => vote'[e] = vote[e]
<1>0. /\ head \in 1 .. MaxEpoch /\ MaxEpoch \in Nat /\ final \in [Sources -> 0 .. MaxEpoch]
      /\ vote \in [Epochs -> Roots \cup {"other", "none"}] /\ extra \in 0 .. MaxExtra /\ MaxExtra \in Nat
  BY TypeParts, Consts, ObservationAssumption
<1>1. CASE Advance
  BY <1>0, <1>1, Consts DEF Advance
<1>2. ASSUME NEW s \in Sources, Finalize(s)
      PROVE  /\ head' \in Epochs /\ final' \in [Sources -> 0 .. MaxEpoch]
             /\ vote' \in [Epochs -> Roots \cup {"other", "none"}] /\ extra' \in 0 .. MaxExtra
             /\ archive' = archive
             /\ UNCHANGED <<files, pass, verdict, failures>>
             /\ \A t \in Sources : final[t] <= final'[t]
             /\ \A e \in Epochs : (\A t \in Sources : e <= final[t]) => vote'[e] = vote[e]
  <2>1. final[s] \in Nat /\ final[s] + 1 <= MaxEpoch /\ final' = [final EXCEPT ![s] = @ + 1]
    BY <1>0, <1>2 DEF Finalize
  <2>2. final' \in [Sources -> 0 .. MaxEpoch] /\ \A t \in Sources : final[t] <= final'[t]
    BY <1>0, <2>1
  <2>3. vote' = vote \/ \E root \in Roots \cup {"other", "none"} : vote' = [vote EXCEPT ![final[s] + 1] = root]
    BY <1>2 DEF Finalize
  <2>4. vote' \in [Epochs -> Roots \cup {"other", "none"}]
        /\ \A e \in Epochs : e # final[s] + 1 => vote'[e] = vote[e]
    BY <1>0, <2>3
  <2>5. \A e \in Epochs : e <= final[s] => e # final[s] + 1
    BY <2>1, Consts
  <2>. QED BY <1>0, <1>2, <2>2, <2>4, <2>5, Consts DEF Finalize
<1>3. ASSUME NEW record \in Records, Deliver(record)
      PROVE  /\ head' \in Epochs /\ final' \in [Sources -> 0 .. MaxEpoch]
             /\ vote' \in [Epochs -> Roots \cup {"other", "none"}] /\ extra' \in 0 .. MaxExtra
             /\ \E r \in Objects : archive' = Append(archive, r)
             /\ UNCHANGED <<files, pass, verdict, failures>>
             /\ \A t \in Sources : final[t] <= final'[t]
             /\ \A e \in Epochs : (\A t \in Sources : e <= final[t]) => vote'[e] = vote[e]
  <2>1. record \in Objects
    <3>1. \A e \in 1 .. head : e \in Epochs
      BY <1>0, Consts
    <3>. QED BY <3>1 DEF Records, Objects
  <2>2. extra' \in 0 .. MaxExtra
    BY <1>0, <1>3 DEF Deliver
  <2>3. archive' = Append(archive, record) /\ UNCHANGED <<head, final, vote, files, pass, verdict, failures>>
    BY <1>3 DEF Deliver
  <2>. QED BY <1>0, <2>1, <2>2, <2>3, Consts
<1>. QED BY <1>1, <1>2, <1>3 DEF World

(* The writes of the proof files, and the ends of a pass.                  *)
LEMMA WriteEffect ==
  ASSUME TypeInv
  PROVE  /\ WriteWorkload => /\ pass' \in PassType /\ pass.at = "workload" /\ pass'.at = "delivery"
                             /\ pass'.next = pass.next
                             /\ proofs'.workload = pass.next.accepted
                             /\ proofs' \in [workload : EvidenceType, delivery : SUBSET Epochs]
                             /\ UNCHANGED <<world, cursor, checkpoint, verdict, failures>>
         /\ WriteDelivery => /\ pass' \in PassType /\ pass.at = "delivery" /\ pass'.at = "cursor"
                             /\ pass'.next = pass.next
                             /\ proofs'.workload = proofs.workload
                             /\ proofs'.delivery = Has(pass.next.accepted)
                             /\ proofs' \in [workload : EvidenceType, delivery : SUBSET Epochs]
                             /\ UNCHANGED <<world, cursor, checkpoint, verdict, failures>>
<1>1. proofs \in [workload : EvidenceType, delivery : SUBSET Epochs] /\ pass.next.accepted \in EvidenceType
      /\ Has(pass.next.accepted) \in SUBSET Epochs
  BY TypeParts DEF Has
<1>2. ASSUME WriteWorkload
      PROVE  /\ proofs'.workload = pass.next.accepted
             /\ proofs' \in [workload : EvidenceType, delivery : SUBSET Epochs]
  BY <1>1, <1>2 DEF WriteWorkload
<1>3. ASSUME WriteDelivery
      PROVE  /\ proofs'.workload = proofs.workload
             /\ proofs'.delivery = Has(pass.next.accepted)
             /\ proofs' \in [workload : EvidenceType, delivery : SUBSET Epochs]
  BY <1>1, <1>3 DEF WriteDelivery
<1>4. "delivery" \in Stages /\ "cursor" \in Stages
  BY DEF Stages
<1>5. ASSUME WriteWorkload
      PROVE /\ pass' \in PassType /\ pass.at = "workload" /\ pass'.at = "delivery" /\ pass'.next = pass.next
            /\ UNCHANGED <<world, cursor, checkpoint, verdict, failures>>
  BY <1>4, <1>5, Goes DEF WriteWorkload, At
<1>6. ASSUME WriteDelivery
      PROVE /\ pass' \in PassType /\ pass.at = "delivery" /\ pass'.at = "cursor" /\ pass'.next = pass.next
            /\ UNCHANGED <<world, cursor, checkpoint, verdict, failures>>
  BY <1>4, <1>6, Goes DEF WriteDelivery, At
<1>. QED BY <1>2, <1>3, <1>5, <1>6

(* The steps that end a pass without a verdict on its epochs.              *)
Ends == CollectNothing \/ Pending \/ Raise \/ Fail
LEMMA EndEffect ==
  ASSUME TypeInv, Ends
  PROVE  /\ pass' \in PassType /\ pass'.at \in {"idle", "pending"}
         /\ pass'.next = pass.next \/ pass'.next = NoCursor
         /\ verdict' = verdict
              \/ (verdict' \in [state : {"pending", "unavailable"}, epochs : SUBSET Epochs])
         /\ failures' \in 0 .. MaxFailures
         /\ UNCHANGED <<world, files>>
<1>1. CASE CollectNothing
  <2>1. GoesTo("pending") /\ "pending" \in Stages
    BY <1>1 DEF CollectNothing, Stages
  <2>. QED BY <1>1, <2>1, Goes, TypeParts DEF CollectNothing
<1>2. CASE Pending
  BY <1>2, Nothing, TypeParts DEF Pending
<1>3. CASE Raise
  BY <1>3, Nothing, TypeParts DEF Raise
<1>4. CASE Fail
  BY <1>4, Nothing, TypeParts, ObservationAssumption DEF Fail
<1>. QED BY <1>1, <1>2, <1>3, <1>4 DEF Ends

(* A complete observation has at least as many epochs as were asked for.   *)
LEMMA VerdictEffect ==
  ASSUME TypeInv, Verdict
  PROVE  /\ pass' = NoPass /\ pass.at = "verdict"
         /\ verdict' \in [state : {"none", "pending", "unavailable", "complete"}, epochs : SUBSET Epochs]
         /\ verdict'.epochs = pass.seen
         /\ verdict'.state = "complete" => Cardinality(pass.seen) >= Required /\ pass.seen # {}
         /\ UNCHANGED <<world, files, failures>>
<1>1. Cardinality(pass.seen) >= Required => pass.seen # {}
  <2>1. Cardinality({}) = 0 /\ Required \in Nat /\ Required >= 1
    BY FS_EmptySet, Consts
  <2>. QED BY <2>1
<1>2. CASE Cardinality(pass.seen) >= Required
  <2>1. verdict' = [state |-> "complete", epochs |-> pass.seen]
    BY <1>2 DEF Verdict
  <2>. QED BY <1>1, <1>2, <2>1, TypeParts DEF Verdict, At
<1>3. CASE ~(Cardinality(pass.seen) >= Required)
  <2>1. verdict' = [state |-> "pending", epochs |-> pass.seen]
    BY <1>3 DEF Verdict
  <2>. QED BY <2>1, TypeParts DEF Verdict, At
<1>. QED BY <1>2, <1>3

LEMMA TypeStep == TypeInv /\ CursorInv /\ [Next]_vars => TypeInv'
<1> SUFFICES ASSUME TypeInv, CursorInv, [Next]_vars PROVE TypeInv'
  OBVIOUS
<1>1. CASE World
  <2>1. archive' \in Seq(Objects)
    BY <1>1, WorldEffect, ArchiveGrows
  <2>. QED BY <1>1, <2>1, WorldEffect, TypeParts, TypeWhole DEF files
<1>2. CASE Begin
  <2>1. NoVerdict \in [state : {"none", "pending", "unavailable", "complete"}, epochs : SUBSET Epochs]
    BY DEF NoVerdict
  <2>. QED BY <1>2, <2>1, BeginEffect, TypeParts, TypeWhole DEF world, files
<1>3. CASE Collect
  BY <1>3, CollectEffect, TypeParts, TypeWhole DEF world, files
<1>4. CASE WriteWorkload \/ WriteDelivery
  BY <1>4, WriteEffect, TypeParts, TypeWhole DEF world
<1>5. CASE WriteCursor
  BY <1>5, WriteCursorEffect, TypeParts, TypeWhole DEF world
<1>6. CASE ReadProofs
  BY <1>6, ReadProofsEffect, TypeParts, TypeWhole DEF world, files
<1>7. CASE LookUp
  BY <1>7, LookUpEffect, TypeParts, TypeWhole DEF world, files
<1>8. CASE SaveCheckpoint
  BY <1>8, SaveEffect, TypeParts, TypeWhole DEF world
<1>9. CASE Verdict
  BY <1>9, VerdictEffect, Nothing, TypeParts, TypeWhole DEF world, files
<1>10. CASE Ends
  <2>1. verdict' \in [state : {"none", "pending", "unavailable", "complete"}, epochs : SUBSET Epochs]
    BY <1>10, EndEffect, TypeParts
  <2>. QED BY <1>10, <2>1, EndEffect, TypeParts, TypeWhole DEF world, files
<1>11. CASE UNCHANGED vars
  BY <1>11, TypeParts, TypeWhole DEF vars, world, files
<1>. QED BY <1>1, <1>2, <1>3, <1>4, <1>5, <1>6, <1>7, <1>8, <1>9, <1>10, <1>11 DEF Next, Step, Ends

-----------------------------------------------------------------------------
(* Cursor, files, looked-up epochs and verdict, step by step.              *)

IndInv == CursorInv /\ FilesInv /\ SeenInv /\ VerdictInv

(* What is backed or proved stays so.                                      *)
LEMMA Stable ==
  ASSUME TypeInv, World \/ UNCHANGED world
  PROVE  /\ \A c : CursorTrue(c) => CursorTrue(c)'
         /\ \A e : Proved(e) => Proved(e)'
<1>1. archive' = archive \/ \E record \in Objects : archive' = Append(archive, record)
  BY WorldEffect DEF world
<1>2. /\ \A s \in Sources : final[s] <= final'[s]
      /\ \A e \in Epochs : (\A s \in Sources : e <= final[s]) => vote'[e] = vote[e]
  <2>1. CASE World
    BY <2>1, WorldEffect
  <2>2. CASE UNCHANGED world
    <3>1. \A s \in Sources : final[s] \in Nat
      BY TypeParts
    <3>. QED BY <2>2, <3>1 DEF world
  <2>. QED BY <2>1, <2>2
<1>3. ASSUME NEW e, Proved(e) PROVE Proved(e)'
  <2>1. e \in Epochs /\ e \in Nat /\ \A s \in Sources : e <= final[s] /\ final[s] \in Nat
    BY <1>3, TypeParts, Consts DEF Proved
  <2>2. \A s \in Sources : final'[s] \in Nat
    BY WorldEffect, TypeParts DEF world
  <2>3. \A s \in Sources : e <= final'[s]
    BY <1>2, <2>1, <2>2
  <2>4. vote'[e] = vote[e]
    BY <1>2, <2>1
  <2>5. \A root : Backed(e, root) => Backed(e, root)'
    BY <1>1, ArchiveGrows
  <2>6. ASSUME NEW root, root = vote[e] PROVE Backed(e, root)'
    BY <1>3, <2>5, <2>6 DEF Proved
  <2>. QED BY <1>3, <2>3, <2>4, <2>6 DEF Proved
<1>. QED BY <1>1, <1>3, ArchiveGrows

(* The cursors stay true when each is an old one, or the empty one.        *)
LEMMA CursorKept ==
  ASSUME TypeInv, CursorInv, World \/ UNCHANGED world,
         cursor' \in {cursor, pass.next},
         pass'.next \in {pass.next, NoCursor}
  PROVE  CursorInv'
<1>1. ASSUME NEW c, c \in {cursor, pass.next, NoCursor} PROVE CursorTrue(c)'
  <2>1. CursorTrue(c)
    BY <1>1, NothingTrue DEF CursorInv
  <2>. QED BY <2>1, Stable
<1>2. CursorTrue(cursor)'
  BY <1>1 DEF CursorTrue
<1>3. CursorTrue(pass.next)'
  BY <1>1 DEF CursorTrue
<1>. QED BY <1>2, <1>3 DEF CursorInv

LEMMA CursorCollect ==
  ASSUME TypeInv, CursorInv, Collect
  PROVE  CursorInv'
<1>1. /\ pass'.next.accepted = Accepted /\ pass'.next.signed = Retained /\ pass'.next.fences = FencesNow
      /\ UNCHANGED <<world, files>>
  BY CollectEffect
<1>2. UNCHANGED <<archive, cursor>>
  BY <1>1 DEF world, files
<1>3. CursorTrue(cursor)'
  BY <1>2 DEF CursorInv, CursorTrue, Backed, Signed, Archived
<1>4. \A e, root : Backed(e, root) => Backed(e, root)'
  BY <1>2 DEF Backed, Signed, Archived
<1>5. \A e \in Epochs : pass'.next.accepted[e] # "none" => Backed(e, Accepted[e])
  BY <1>1, AcceptedFacts
<1>6. \A e \in Epochs : pass'.next.accepted[e] # "none" => Backed(e, pass.next.accepted[e])'
  <2>1. SUFFICES ASSUME NEW e \in Epochs, pass'.next.accepted[e] # "none" PROVE Backed(e, pass.next.accepted[e])'
    OBVIOUS
  <2>2. ASSUME NEW root, root = Accepted[e] PROVE Backed(e, root)'
    BY <1>4, <1>5, <2>1, <2>2
  <2>. QED BY <1>1, <2>2
<1>7. \A row \in Retained : row.root \in Signed(row.epoch) /\ Accepted[row.epoch] = "none"
  BY CollectFacts, AcceptedFacts
<1>8. \A row \in Retained : row.root \in Signed(row.epoch)'
  BY <1>2, <1>7 DEF Signed
<1>9. \A i \in FencesNow : i \in DOMAIN archive /\ archive[i].kind = "fence"
  BY CollectFacts
<1>10. CursorTrue(pass.next)'
  BY <1>1, <1>2, <1>6, <1>7, <1>8, <1>9 DEF CursorTrue
<1>. QED BY <1>3, <1>10 DEF CursorInv

LEMMA CursorStep == TypeInv /\ CursorInv /\ [Next]_vars => CursorInv'
<1> SUFFICES ASSUME TypeInv, CursorInv, [Next]_vars PROVE CursorInv'
  OBVIOUS
<1>1. CASE Collect
  BY <1>1, CursorCollect
<1>2. CASE World
  BY <1>2, CursorKept, WorldEffect DEF files
<1>3. CASE Begin
  BY <1>3, CursorKept, BeginEffect DEF files
<1>4. CASE WriteWorkload \/ WriteDelivery
  BY <1>4, CursorKept, WriteEffect
<1>5. CASE WriteCursor
  BY <1>5, CursorKept, WriteCursorEffect
<1>6. CASE ReadProofs
  BY <1>6, CursorKept, ReadProofsEffect DEF files
<1>7. CASE LookUp
  BY <1>7, CursorKept, LookUpEffect DEF files
<1>8. CASE SaveCheckpoint
  BY <1>8, CursorKept, SaveEffect
<1>9. CASE Verdict
  BY <1>9, CursorKept, VerdictEffect, Nothing DEF files
<1>10. CASE Ends
  BY <1>10, CursorKept, EndEffect DEF files
<1>11. CASE UNCHANGED vars
  BY <1>11, CursorKept DEF vars, files
<1>. QED BY <1>1, <1>2, <1>3, <1>4, <1>5, <1>6, <1>7, <1>8, <1>9, <1>10, <1>11 DEF Next, Step, Ends

(* The observer and the files.                                             *)
LEMMA FilesStep == TypeInv /\ CursorInv /\ FilesInv /\ SeenInv /\ [Next]_vars => FilesInv'
<1> SUFFICES ASSUME TypeInv, CursorInv, FilesInv, SeenInv, [Next]_vars PROVE FilesInv'
  OBVIOUS
<1>1. CASE Collect
  <2>1. Has(cursor.accepted) \subseteq Has(Accepted)
    BY AcceptedFacts
  <2>. QED BY <1>1, <2>1, CollectEffect DEF FilesInv, files, Has
<1>2. CASE World \/ UNCHANGED vars
  <2>1. UNCHANGED <<files, pass>>
    BY <1>2, WorldEffect DEF vars
  <2>. QED BY <2>1 DEF FilesInv, files, Has
<1>3. CASE Begin
  BY <1>3, BeginEffect DEF FilesInv, files, Has
<1>4. CASE WriteWorkload
  BY <1>4, WriteEffect DEF FilesInv, Has
<1>5. CASE WriteDelivery
  BY <1>5, WriteEffect DEF FilesInv, Has
<1>6. CASE WriteCursor
  <2>1. pass.at = "cursor"
    BY <1>6 DEF WriteCursor, At
  <2>2. /\ cursor' = pass.next /\ proofs' = proofs /\ checkpoint' = checkpoint
        /\ pass'.at \in {"pending", "observe"}
    BY <1>6, WriteCursorEffect
  <2>. QED BY <2>1, <2>2 DEF FilesInv, Has
<1>7. CASE ReadProofs
  <2>1. pass.at = "observe"
    BY <1>7 DEF ReadProofs, At
  <2>. QED BY <1>7, <2>1, ReadProofsEffect DEF FilesInv, files, Has
<1>8. CASE LookUp
  <2>1. pass.at = "epochs"
    BY <1>8 DEF LookUp, At
  <2>. QED BY <1>8, <2>1, LookUpEffect DEF FilesInv, files, Has
<1>9. CASE SaveCheckpoint
  BY <1>9, SaveEffect DEF FilesInv, SeenInv, Has
<1>10. CASE Verdict
  BY <1>10, VerdictEffect, Nothing DEF FilesInv, files, Has
<1>11. CASE Ends
  BY <1>11, EndEffect DEF FilesInv, files, Has
<1>. QED BY <1>1, <1>2, <1>3, <1>4, <1>5, <1>6, <1>7, <1>8, <1>9, <1>10, <1>11 DEF Next, Step, Ends

(* An epoch that is looked up with success is proved: the observer has the *)
(* evidence of every epoch, those of the checkpoint included, because the  *)
(* checkpoint never runs ahead of the cursor.                              *)
LEMMA LookUpProves ==
  ASSUME TypeInv, CursorInv, FilesInv, SeenInv, pass.at = "epochs",
         NEW e \in pass.todo, Counts(e), \A s \in Sources : Included(s, e),
         e \in Evidence => proofs.workload[e] = vote[e]
  PROVE  e \in Has(cursor.accepted) /\ Proved(e)
<1>1. e \in Has(cursor.accepted) /\ e \in Epochs
  BY TypeParts DEF SeenInv
<1>2. e \in Evidence /\ proofs.workload = cursor.accepted
  BY <1>1 DEF FilesInv, Evidence
<1>3. Backed(e, vote[e])
  BY <1>1, <1>2 DEF CursorInv, CursorTrue, Has
<1>. QED BY <1>1, <1>3 DEF Proved, Counts, Included

(* Time, new records and new votes leave what was looked up proved.        *)
LEMMA SeenKept ==
  ASSUME TypeInv, SeenInv, World \/ UNCHANGED world, cursor' = cursor, pass' = pass
  PROVE  SeenInv'
<1>1. \A e \in pass.seen : Proved(e) => Proved(e)'
  BY Stable
<1>. QED BY <1>1 DEF SeenInv, Has

LEMMA SeenStep == TypeInv /\ CursorInv /\ FilesInv /\ SeenInv /\ [Next]_vars => SeenInv'
<1> SUFFICES ASSUME TypeInv, CursorInv, FilesInv, SeenInv, [Next]_vars PROVE SeenInv'
  OBVIOUS
<1>1. CASE World \/ UNCHANGED vars
  <2>1. (World \/ UNCHANGED world) /\ cursor' = cursor /\ pass' = pass
    BY <1>1, WorldEffect DEF vars, files
  <2>. QED BY <2>1, SeenKept
<1>2. CASE ReadProofs
  <2>1. pass.at = "observe"
    BY <1>2 DEF ReadProofs, At
  <2>2. checkpoint \cup Evidence \subseteq Has(cursor.accepted)
    BY <2>1 DEF FilesInv, Evidence
  <2>3. pass'.at = "epochs" /\ pass'.todo = checkpoint \cup Evidence /\ cursor' = cursor /\ pass'.seen = {}
    BY <1>2, ReadProofsEffect DEF files
  <2>. QED BY <2>2, <2>3 DEF SeenInv, Has
<1>3. CASE LookUp
  <2> DEFINE e == Least(pass.todo)
             proved == Counts(e) /\ \A s \in Sources : Included(s, e)
  <2>1. pass.at = "epochs"
    BY <1>3 DEF LookUp, At
  <2>2. /\ e \in pass.todo /\ (proved /\ e \in Evidence => proofs.workload[e] = vote[e])
        /\ pass'.at = "epochs" /\ pass'.todo \subseteq pass.todo
        /\ pass'.seen = IF proved THEN pass.seen \cup {e} ELSE pass.seen
        /\ cursor' = cursor /\ UNCHANGED world
    BY <1>3, LookUpEffect DEF files
  <2>3. proved => e \in Has(cursor.accepted) /\ Proved(e)
    BY <2>1, <2>2, LookUpProves
  <2> HIDE DEF e, proved
  <2>4. \A x \in pass'.seen : x \in Has(cursor.accepted) /\ Proved(x)
    BY <2>1, <2>2, <2>3 DEF SeenInv
  <2>5. \A x \in pass'.seen : Proved(x)'
    BY <2>2, <2>4, Stable
  <2>. QED BY <2>1, <2>2, <2>4, <2>5 DEF SeenInv, Has
<1>4. CASE SaveCheckpoint
  <2>1. /\ pass.at = "epochs" /\ pass'.at = "verdict" /\ pass'.seen \subseteq pass.seen
        /\ Consecutive(pass'.seen) /\ cursor' = cursor /\ UNCHANGED world
    BY <1>4, SaveEffect
  <2>2. \A x \in pass'.seen : x \in Has(cursor.accepted) /\ Proved(x)'
    BY <2>1, Stable DEF SeenInv
  <2>. QED BY <2>1, <2>2 DEF SeenInv, Has, Consecutive
<1>5. CASE Begin \/ Collect \/ WriteWorkload \/ WriteDelivery \/ WriteCursor \/ Verdict \/ Ends
  <2>1. pass'.at \notin {"epochs", "verdict"}
    BY <1>5, BeginEffect, CollectEffect, WriteEffect, WriteCursorEffect, VerdictEffect, EndEffect, Nothing
  <2>. QED BY <2>1 DEF SeenInv
<1>. QED BY <1>1, <1>2, <1>3, <1>4, <1>5 DEF Next, Step, Ends

LEMMA VerdictStep == TypeInv /\ CursorInv /\ SeenInv /\ VerdictInv /\ [Next]_vars => VerdictInv'
<1> SUFFICES ASSUME TypeInv, CursorInv, SeenInv, VerdictInv, [Next]_vars PROVE VerdictInv'
  OBVIOUS
<1>1. CASE verdict' = verdict /\ (World \/ UNCHANGED world)
  <2>1. \A e \in verdict.epochs : Proved(e) => Proved(e)'
    BY <1>1, Stable
  <2>. QED BY <1>1, <2>1 DEF VerdictInv, Consecutive
<1>2. CASE World \/ UNCHANGED vars
  BY <1>1, <1>2, WorldEffect DEF vars
<1>3. CASE Collect \/ WriteWorkload \/ WriteDelivery \/ WriteCursor \/ ReadProofs \/ LookUp \/ SaveCheckpoint
  BY <1>1, <1>3, CollectEffect, WriteEffect, WriteCursorEffect, ReadProofsEffect, LookUpEffect, SaveEffect
<1>4. CASE Begin
  BY <1>4, BeginEffect DEF VerdictInv, NoVerdict
<1>5. CASE Verdict
  <2>1. /\ pass.at = "verdict" /\ verdict'.epochs = pass.seen /\ UNCHANGED world
        /\ verdict'.state = "complete" => Cardinality(pass.seen) >= Required /\ pass.seen # {}
    BY <1>5, VerdictEffect
  <2>2. Consecutive(pass.seen) /\ \A e \in pass.seen : Proved(e)'
    BY <2>1, Stable DEF SeenInv
  <2>. QED BY <2>1, <2>2 DEF VerdictInv, Consecutive
<1>6. CASE Ends
  <2>1. UNCHANGED world
    BY <1>6, EndEffect
  <2>2. verdict' = verdict \/ verdict'.state # "complete"
    BY <1>6, EndEffect
  <2>. QED BY <1>1, <2>1, <2>2 DEF VerdictInv
<1>. QED BY <1>2, <1>3, <1>4, <1>5, <1>6 DEF Next, Step, Ends

LEMMA InitInv == Init => IndInv
<1> SUFFICES ASSUME Init PROVE IndInv
  OBVIOUS
<1>1. cursor = NoCursor /\ pass.next = NoCursor /\ pass.at = "idle" /\ checkpoint = {} /\ verdict.state = "none"
  BY Nothing DEF Init, NoVerdict
<1>2. CursorInv
  BY <1>1, NothingTrue DEF CursorInv, CursorTrue
<1>. QED BY <1>1, <1>2 DEF IndInv, FilesInv, SeenInv, VerdictInv

(* Invariance: what the cursor accepted is backed by the archive, the      *)
(* files agree at every stage of a pass, and what was looked up and        *)
(* printed is proved.                                                      *)
THEOREM Invariance == Spec => [](TypeInv /\ IndInv)
<1>1. Init => TypeInv /\ IndInv
  BY InitType, InitInv
<1>2. TypeInv /\ IndInv /\ [Next]_vars => TypeInv' /\ IndInv'
  BY TypeStep, CursorStep, FilesStep, SeenStep, VerdictStep DEF IndInv
<1>. QED BY <1>1, <1>2, PTL DEF Spec

(* TypeCorrect: every variable has a value of its kind; with it, the       *)
(* archive holds only records that signer and fence can log.               *)
THEOREM TypeCorrect == Spec => []TypeOK
BY Invariance, PTL DEF TypeInv

(* CheckpointIsBacked: the observer's checkpoint names only epochs whose   *)
(* evidence the collector's cursor holds, wherever a pass ended between    *)
(* two of its files, and an accepted record does not wait any more.        *)
THEOREM CheckpointIsBacked == Spec => []CheckpointBacked
<1>1. IndInv => CheckpointBacked
  BY DEF IndInv, FilesInv, CursorInv, CursorTrue, CheckpointBacked
<1>. QED BY <1>1, Invariance, PTL

(* CompleteIsTrue: a complete observation shows as many consecutive epochs *)
(* as were asked for, each after the activation, final on both chains,     *)
(* with the vote that was signed and a fence connection in the archive.    *)
THEOREM CompleteIsTrue == Spec => []VerdictIsTrue
<1>1. TypeInv /\ IndInv => VerdictIsTrue
  <2>1. SUFFICES ASSUME TypeInv, IndInv, verdict.state = "complete"
                 PROVE  /\ Cardinality(verdict.epochs) >= Required
                        /\ \E a, b \in Epochs : verdict.epochs = a .. b
                        /\ \A e \in verdict.epochs : Proved(e)
    <3>1. \A e : Proved(e) => /\ e \notin Early /\ \A s \in Sources : e <= final[s]
                              /\ \E root \in Signed(e) : root = vote[e]
                              /\ \E duties \in Intervals : e \in duties /\ FenceRecord(duties) \in Archived
      BY DEF Proved, Backed
    <3>. QED BY <3>1 DEF VerdictIsTrue
  <2>. QED BY <2>1 DEF IndInv, VerdictInv, Consecutive
<1>. QED BY <1>1, Invariance, PTL
=============================================================================
