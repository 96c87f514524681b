----------------------- MODULE ResourceDeletion_proofs -----------------------
(***************************************************************************)
(* Proofs about ResourceDeletion, for any resources and relations between  *)
(* them that satisfy its assumptions, and any number and kind of faults.   *)
(***************************************************************************)
EXTENDS ResourceDeletion, TLAPS

-----------------------------------------------------------------------------
(* The inductive invariant.                                                *)

(* Everything but what the barrier protects is gone.                       *)
Clean(b) ==
  \A r \in Resources : Visible(r) /\ Kind[r] \notin Allowed(b) => cloud[r] = "gone"

(* A cluster is asked for only when its node groups are gone.              *)
NodesInv ==
  \A n, c \in Resources :
    Kind[n] = "nodegroup" /\ c \in Uses[n] /\ Kind[c] = "eks" /\ cloud[n] # "gone" =>
      cloud[c] = "present"

(* The item is one of the inventory, where the handlers expect it; one     *)
(* behind a barrier is handled only in a run without a residual.           *)
ItemInv ==
  /\ run.at \notin {"idle", "next"} => run.item \in Resources /\ Kind[run.item] \notin Nested
  /\ run.at = "wait" => Kind[run.item] \in Waits \cup {"eks"}
  /\ run.at = "children" => Kind[run.item] = "eks"
  /\ run.at \in {"gateways", "network"} => Kind[run.item] = "vpc"
  /\ run.at = "handle" /\ Kind[run.item] \in Retained =>
       ~run.bad /\ Barrier(run.item) \subseteq run.verified
  /\ \A r \in run.todo : Kind[r] \notin Nested

(* What a barrier has found stays true as long as the run has no residual. *)
BarrierInv == \A b \in run.verified : run.bad \/ Clean(b)

IndInv == TypeOK /\ NodesInv /\ ItemInv /\ BarrierInv /\ RecoveryStateLast /\ SuccessIsTrue
-----------------------------------------------------------------------------
(* Steps that are harmless: what was gone stays gone, and what of the      *)
(* given kinds is there, or waits to be deleted, stays so.                 *)
Shrinks ==
  /\ foreign \subseteq foreign' /\ foreign' \subseteq Resources
  /\ \A r \in Resources :
       /\ cloud[r] = "gone" => cloud'[r] = "gone"
       /\ cloud'[r] = "present" => cloud[r] \in {"present", "deleting"}
Holds(kinds) ==
  \A k \in Resources :
    Kind[k] \in kinds /\ cloud[k] \in {"present", "pending"} => cloud'[k] = cloud[k]

(* What is visible after such a step was visible before.                   *)
LEMMA VisibleBefore ==
  ASSUME TypeOK, Shrinks, NEW r \in Resources, Visible(r)'
  PROVE  Visible(r)
<1>1. r \notin foreign /\ Kind[r] # "group" /\ (Kind[r] = "nodegroup" => Uses[r] \cap foreign = {})
  BY DEF Shrinks, Visible
<1>2. ASSUME Kind[r] \in {"schedule", "config"}
      PROVE  cloud[r] = "present" /\ Proven(r)
  <2>1. cloud'[r] = "present" /\ \A p \in Proof[r] : p \notin foreign' /\ cloud'[p] # "gone"
    BY <1>2 DEF Visible, Proven, Ours
  <2>2. cloud[r] = "present"
    BY <1>2, <2>1 DEF Shrinks, TypeOK, Waits, Backend
  <2>3. \A p \in Proof[r] : p \in Resources /\ p \notin foreign /\ cloud[p] # "gone"
    BY <2>1, ProofAssumption DEF Shrinks
  <2> QED
    BY <2>2, <2>3 DEF Proven, Ours
<1> QED
  BY <1>1, <1>2 DEF Visible

(* What a barrier has found stays true.                                    *)
LEMMA CleanKept ==
  ASSUME TypeOK, Shrinks, NEW b, Clean(b)
  PROVE  Clean(b)'
<1> SUFFICES ASSUME NEW r \in Resources, Visible(r)', Kind[r] \notin Allowed(b)
             PROVE  cloud'[r] = "gone"
  BY DEF Clean, Allowed
<1>1. Visible(r)
  BY VisibleBefore
<1> QED
  BY <1>1 DEF Clean, Shrinks

(* State and keys are kept.                                                *)
LEMMA StateKept ==
  ASSUME TypeOK, RecoveryStateLast, Shrinks, Holds(Backend \cup {"kms"})
  PROVE  RecoveryStateLast'
<1> SUFFICES ASSUME NEW r \in Resources, Visible(r)', cloud'[r] # "gone"
             PROVE  /\ Kind[r] \notin Backend \cup {"kms"} =>
                         \A b \in Resources \ foreign' : Kind[b] \in Backend => cloud'[b] = "present"
                    /\ Kind[r] # "kms" =>
                         \A k \in Of("kms") \ foreign' : cloud'[k] = "present"
  BY DEF RecoveryStateLast, Of
<1>1. Visible(r) /\ cloud[r] # "gone"
  BY VisibleBefore DEF Shrinks
<1> QED
  BY <1>1 DEF RecoveryStateLast, Shrinks, Holds, Of

(* What was reported stays true.                                           *)
LEMMA SuccessKept ==
  ASSUME TypeOK, SuccessIsTrue, Shrinks, Holds({"kms"}), status' \in {status, "none", "residual"}
  PROVE  SuccessIsTrue'
<1> SUFFICES ASSUME status' = status, status \in {"complete", "pending"},
                    NEW r \in Resources, Visible(r)'
             PROVE  cloud'[r] = "gone" \/ (status = "pending" /\ cloud'[r] = "pending")
  BY DEF SuccessIsTrue
<1>1. Visible(r)
  BY VisibleBefore
<1>2. CASE cloud[r] = "gone"
  BY <1>1, <1>2 DEF Shrinks
<1>3. CASE status = "pending" /\ cloud[r] = "pending"
  BY <1>3 DEF Holds, TypeOK
<1> QED
  BY <1>1, <1>2, <1>3 DEF SuccessIsTrue

(* Node groups stay inside their clusters.                                 *)
LEMMA NodesKept ==
  ASSUME NodesInv, Shrinks, Holds({"eks"})
  PROVE  NodesInv'
BY DEF NodesInv, Shrinks, Holds

(* When an inventory finds nothing left over, all that is visible has      *)
(* gone, but for what is allowed to be there and keys that wait.           *)
LEMMA NothingRemains ==
  ASSUME TypeOK, NodesInv, NEW allowed \in SUBSET (Backend \cup {"kms"}), ~Remains(allowed),
         NEW r \in Resources, Visible(r), Kind[r] \notin allowed
  PROVE  cloud[r] \in {"gone", "pending"}
<1>1. \A o \in Resources : Kind[o] \notin Nested \cup {"schedule", "config"} /\ Ours(o) /\ Kind[o] \notin allowed =>
        cloud[o] = "pending"
  BY DEF Remains, Selected
<1>2. CASE Kind[r] = "nodegroup"
  <2>1. PICK c \in Resources : c \in Uses[r] /\ Kind[c] = "eks"
    BY <1>2, NodeGroupAssumption, UsesAssumption
  <2>2. c \notin foreign
    BY <1>2, <2>1 DEF Visible
  <2>3. cloud[c] # "pending" /\ Kind[c] \notin allowed
    BY <2>1 DEF TypeOK, Backend
  <2>4. cloud[c] = "gone"
    BY <1>1, <2>1, <2>2, <2>3 DEF Ours, Nested
  <2> QED
    BY <1>2, <2>1, <2>4 DEF NodesInv
<1>3. CASE Kind[r] = "nat"
  <2> SUFFICES ASSUME cloud[r] # "gone" PROVE FALSE
    OBVIOUS
  <2>1. Ours(r) /\ ~Unclear
    BY DEF Ours, Visible, Remains
  <2>2. PICK v \in Uses[r] \cap Of("vpc") : Ours(v)
    BY <1>3, <2>1 DEF Unclear, Of
  <2>3. v \in Resources /\ Kind[v] = "vpc"
    BY <2>2 DEF Of
  <2>4. cloud[v] # "pending" /\ Kind[v] \notin allowed
    BY <2>3 DEF TypeOK, Backend
  <2> QED
    BY <1>1, <2>2, <2>3, <2>4 DEF Nested
<1>4. CASE Kind[r] \in {"schedule", "config"}
  <2>1. cloud[r] = "present" /\ Proven(r)
    BY <1>4 DEF Visible
  <2>2. r \in Selected /\ Kind[r] \notin allowed
    BY <1>4, <2>1 DEF Selected, Nested
  <2> QED
    BY <2>1, <2>2 DEF Remains
<1>5. CASE Kind[r] \notin {"nodegroup", "nat", "schedule", "config"}
  <2>1. Kind[r] \notin Nested \cup {"schedule", "config"} /\ r \notin foreign
    BY <1>5 DEF Visible, Nested
  <2> QED
    BY <1>1, <2>1 DEF Ours
<1> QED
  BY <1>2, <1>3, <1>4, <1>5

(* So a barrier that finds no residual has found everything else gone.     *)
LEMMA BarrierFinds ==
  ASSUME TypeOK, NodesInv, NEW b \in {"backend", "kms"}, ~Remains(Allowed(b))
  PROVE  Clean(b)
<1> SUFFICES ASSUME NEW r \in Resources, Visible(r), Kind[r] \notin Allowed(b)
             PROVE  cloud[r] = "gone"
  BY DEF Clean
<1>1. Allowed(b) \in SUBSET (Backend \cup {"kms"}) /\ "kms" \in Allowed(b)
  BY DEF Allowed
<1>2. cloud[r] \in {"gone", "pending"}
  BY <1>1, NothingRemains
<1> QED
  BY <1>1, <1>2 DEF TypeOK

-----------------------------------------------------------------------------
(* How a run goes on.                                                      *)
Passes(at, item, bad) ==
  /\ run' \in Run /\ run'.todo = run.todo /\ run'.found = run.found
  /\ run'.verified = run.verified
  /\ run'.at = at /\ run'.item = item /\ (run'.bad <=> run.bad \/ bad)

LEMMA LeaveEffect ==
  ASSUME TypeOK, NEW bad \in BOOLEAN, Leave(bad)
  PROVE  Passes("next", "none", bad)
BY DEF TypeOK, Leave, Run, Passes

LEMMA GoesEffect ==
  ASSUME TypeOK, NEW at \in {"wait", "children", "gateways", "network"}, Goes(at)
  PROVE  Passes(at, run.item, FALSE)
BY DEF TypeOK, Goes, Run, Passes

(* Where a run stops, there is nothing left of it.                         *)
LEMMA NoRunFacts ==
  /\ NoRun \in Run /\ NoRun.at = "idle" /\ NoRun.todo = {} /\ NoRun.found = {}
  /\ NoRun.verified = {} /\ ~NoRun.bad
BY DEF NoRun, Run
-----------------------------------------------------------------------------
(* The parts of a step that most steps have in common.                     *)

CloudOK ==
  /\ cloud \in [Resources -> {"present", "deleting", "half", "pending", "gone"}]
  /\ \A r \in Resources :
       /\ cloud[r] = "half" => Kind[r] = "config"
       /\ cloud[r] = "pending" => Kind[r] = "kms"
       /\ cloud[r] = "deleting" => Kind[r] \in Waits \cup {"eks", "nodegroup", "nat"}
RunOK == run \in Run /\ run.todo \subseteq run.found
Counted == mishaps' \in 0..MaxMishaps
Quieter == status' \in {status, "none", "residual"}
GoesOn == run'.verified = {} \/ (run'.verified = run.verified /\ (run.bad => run'.bad))

LEMMA TypeParts ==
  ASSUME TypeOK, CloudOK', RunOK', foreign' \subseteq Resources, Counted,
         status' \in {"none", "residual", "pending", "complete"}
  PROVE  TypeOK'
BY DEF TypeOK, CloudOK, RunOK, Counted

(* A run that keeps its findings keeps what they say.                      *)
LEMMA BarrierKept ==
  ASSUME TypeOK, BarrierInv, Shrinks, GoesOn
  PROVE  BarrierInv'
<1> SUFFICES ASSUME NEW b \in run'.verified, ~run'.bad PROVE Clean(b)'
  BY DEF BarrierInv
<1>1. Clean(b)
  BY DEF BarrierInv, GoesOn
<1> QED
  BY <1>1, CleanKept

(* Most steps: nothing comes back, state, keys and clusters are left       *)
(* alone, the last report stands, and the run goes on or is over.          *)
LEMMA HarmlessStep ==
  ASSUME IndInv, CloudOK', RunOK', Counted, ItemInv',
         Shrinks, Holds(Backend \cup {"kms", "eks"}), Quieter, GoesOn
  PROVE  IndInv'
<1>1. TypeOK'
  BY TypeParts DEF IndInv, Shrinks, Quieter, TypeOK
<1>2. Holds({"kms"}) /\ Holds({"eks"}) /\ Holds(Backend \cup {"kms"})
  BY DEF Holds
<1> QED
  BY <1>1, <1>2, NodesKept, StateKept, SuccessKept, BarrierKept DEF IndInv, Quieter

(* A step of the run alone.                                                *)
LEMMA Still ==
  ASSUME TypeOK, UNCHANGED <<cloud, foreign>>
  PROVE  Shrinks /\ CloudOK' /\ \A kinds : Holds(kinds)
BY DEF TypeOK, CloudOK, Shrinks, Holds

(* A run between two items, or none.                                       *)
LEMMA ItemFree ==
  ASSUME ItemInv, run'.at \in {"idle", "next"}, run'.todo \subseteq run.todo
  PROVE  ItemInv'
BY DEF ItemInv

(* The end of a handler.                                                   *)
LEMMA Leaves ==
  ASSUME IndInv, NEW bad \in BOOLEAN, Leave(bad)
  PROVE  RunOK' /\ ItemInv' /\ GoesOn
<1>1. Passes("next", "none", bad)
  BY LeaveEffect DEF IndInv
<1> QED
  BY <1>1, ItemFree DEF IndInv, Passes, RunOK, TypeOK, GoesOn

-----------------------------------------------------------------------------
(* The run by itself.                                                      *)

(* A run that ends, or is none.                                            *)
LEMMA Ends ==
  ASSUME IndInv, run' = NoRun
  PROVE  RunOK' /\ ItemInv' /\ GoesOn
BY NoRunFacts, ItemFree DEF IndInv, RunOK, GoesOn

LEMMA StartStep ==
  ASSUME IndInv, Start, Counted
  PROVE  IndInv'
<1>1. TypeOK /\ ItemInv /\ UNCHANGED <<cloud, foreign>> /\ Quieter
  BY DEF IndInv, Start, Quieter
<1>2. CASE UNCHANGED run
  <2>1. RunOK' /\ ItemInv' /\ GoesOn
    BY <1>1, <1>2 DEF TypeOK, RunOK, ItemInv, GoesOn, Barrier
  <2> QED
    BY <1>1, <2>1, Still, HarmlessStep
<1>3. CASE run' = [NoRun EXCEPT !.at = "next", !.todo = Selected, !.found = Selected]
  <2>1. Selected \subseteq Resources /\ \A r \in Selected : Kind[r] \notin Nested
    BY DEF Selected, Nested
  <2>2. /\ run' \in Run /\ run'.at = "next" /\ run'.todo = Selected
        /\ run'.found = Selected /\ run'.verified = {}
    BY <1>3, <2>1 DEF NoRun, Run
  <2>3. RunOK' /\ ItemInv' /\ GoesOn
    BY <2>1, <2>2 DEF RunOK, ItemInv, GoesOn
  <2> QED
    BY <1>1, <2>3, Still, HarmlessStep
<1> QED
  BY <1>2, <1>3 DEF Start

LEMMA KilledStep ==
  ASSUME IndInv, Killed, Counted
  PROVE  IndInv'
<1>1. TypeOK /\ UNCHANGED <<cloud, foreign>> /\ Quieter /\ run' = NoRun
  BY DEF IndInv, Killed, Quieter
<1> QED
  BY <1>1, Ends, Still, HarmlessStep

(* Steps that end a handler without asking for anything.                   *)
LEMMA LeaveStep ==
  ASSUME IndInv, NEW bad \in BOOLEAN, Leave(bad), UNCHANGED <<cloud, foreign, status>>, Counted
  PROVE  IndInv'
BY Leaves, Still, HarmlessStep DEF IndInv, Quieter

LEMMA PassStep ==
  ASSUME IndInv, Decline \/ Waited \/ Denied \/ GiveUp \/ VpcGatewaysGone, Counted
  PROVE  IndInv'
<1>1. CASE \/ run.at = "gateways" /\ run' = [run EXCEPT !.at = "network", !.bad = TRUE]
           \/ run.at = "gateways" /\ Goes("network")
  <2>1. /\ run' \in Run /\ run'.at = "network" /\ run'.item = run.item /\ run'.todo = run.todo
        /\ run'.found = run.found /\ run'.verified = run.verified /\ (run.bad => run'.bad)
    BY <1>1 DEF IndInv, TypeOK, Run, Goes
  <2>2. ItemInv'
    BY <1>1, <2>1 DEF IndInv, ItemInv, Nested
  <2>3. UNCHANGED <<cloud, foreign, status>>
    BY <1>1 DEF Decline, Waited, Denied, GiveUp, VpcGatewaysGone
  <2> QED
    BY <2>1, <2>2, <2>3, Still, HarmlessStep DEF IndInv, TypeOK, RunOK, GoesOn, Quieter
<1>2. CASE \E bad \in BOOLEAN : Leave(bad)
  <2>1. UNCHANGED <<cloud, foreign, status>>
    BY DEF Decline, Waited, Denied, GiveUp, VpcGatewaysGone
  <2> QED
    BY <1>2, <2>1, LeaveStep
<1> QED
  BY <1>1, <1>2 DEF Decline, Waited, Denied, GiveUp, VpcGatewaysGone

LEMMA FinishStep ==
  ASSUME IndInv, Finish, Counted
  PROVE  IndInv'
<1>1. TypeOK /\ NodesInv /\ UNCHANGED <<cloud, foreign>> /\ run' = NoRun
  BY DEF IndInv, Finish
<1>2. Shrinks /\ CloudOK' /\ \A kinds : Holds(kinds)
  BY <1>1, Still
<1>3. SuccessIsTrue'
  <2> SUFFICES ASSUME status' \in {"complete", "pending"}, NEW r \in Resources, Visible(r)'
               PROVE  cloud[r] = "gone" \/ (status' = "pending" /\ cloud[r] = "pending")
    BY <1>1 DEF SuccessIsTrue
  <2>1. ~Remains({}) /\ (status' = "complete" => Selected = {})
    BY DEF Finish
  <2>2. Visible(r)
    BY <1>1, <1>2, VisibleBefore
  <2>3. cloud[r] \in {"gone", "pending"}
    BY <1>1, <2>1, <2>2, NothingRemains
  <2>4. ASSUME cloud[r] = "pending" PROVE r \in Selected
    <3>1. Kind[r] = "kms"
      BY <1>1, <2>4 DEF TypeOK
    <3> QED
      BY <2>2, <2>4, <3>1 DEF Selected, Ours, Visible, Nested
  <2> QED
    BY <2>1, <2>3, <2>4
<1>4. status' \in {"none", "residual", "pending", "complete"}
  BY DEF Finish
<1>5. RunOK' /\ ItemInv' /\ GoesOn
  BY <1>1, Ends
<1> QED
  BY <1>1, <1>2, <1>3, <1>4, <1>5, TypeParts, NodesKept, StateKept, BarrierKept DEF IndInv, Shrinks

(* A barrier: what it finds is noted, or there is a residual.              *)
LEMMA BarrierStep ==
  ASSUME IndInv, UNCHANGED <<cloud, foreign, status>>, Counted, run.at = "next",
         NEW r \in run.todo, NEW b \in Barrier(r), NEW bad \in BOOLEAN, Remains(Allowed(b)) => bad,
         run' = [run EXCEPT !.bad = run.bad \/ bad, !.verified = run.verified \cup {b}]
  PROVE  IndInv'
<1>1. TypeOK /\ NodesInv /\ BarrierInv /\ b \in {"backend", "kms"}
  BY DEF IndInv, Barrier
<1>2. /\ run' \in Run /\ run'.at = "next" /\ run'.todo = run.todo /\ run'.found = run.found
      /\ run'.verified = run.verified \cup {b} /\ (run'.bad <=> run.bad \/ bad)
  BY <1>1 DEF TypeOK, Run
<1>3. Shrinks /\ CloudOK' /\ \A kinds : Holds(kinds)
  BY <1>1, Still
<1>4. BarrierInv'
  <2> SUFFICES ASSUME NEW c \in run'.verified, ~run'.bad PROVE Clean(c)'
    BY DEF BarrierInv
  <2>1. Clean(c)
    BY <1>1, <1>2, BarrierFinds DEF BarrierInv
  <2> QED
    BY <1>1, <1>3, <2>1, CleanKept
<1>5. ItemInv' /\ RunOK'
  BY <1>1, <1>2, ItemFree DEF IndInv, RunOK, TypeOK
<1>6. TypeOK'
  BY <1>1, <1>3, <1>5, TypeParts DEF TypeOK
<1> QED
  BY <1>3, <1>4, <1>5, <1>6, NodesKept, StateKept, SuccessKept DEF IndInv
LEMMA VerifyStep ==
  ASSUME IndInv, NEW r \in Resources, Verify(r), Counted
  PROVE  IndInv'
<1>1. PICK b \in Barrier(r) : run' = [run EXCEPT !.bad = @ \/ Remains(Allowed(b)), !.verified = @ \cup {b}]
  BY DEF Verify
<1> DEFINE bad == Remains(Allowed(b))
<1>2. bad \in BOOLEAN
  BY DEF Remains, Unclear
<1>3. /\ run' = [run EXCEPT !.bad = run.bad \/ bad, !.verified = run.verified \cup {b}]
      /\ r \in run.todo /\ run.at = "next" /\ UNCHANGED <<cloud, foreign, status>>
  BY <1>1 DEF Verify, First
<1> QED
  BY <1>2, <1>3, BarrierStep

LEMMA InventoryFailsStep ==
  ASSUME IndInv, InventoryFails, Counted
  PROVE  IndInv'
<1>1. TypeOK /\ UNCHANGED <<cloud, foreign>>
  BY DEF IndInv, InventoryFails
<1>2. CASE status' = "residual" /\ UNCHANGED run
  <2>1. RunOK' /\ ItemInv' /\ GoesOn
    BY <1>1, <1>2 DEF IndInv, TypeOK, RunOK, ItemInv, GoesOn, Barrier
  <2> QED
    BY <1>1, <1>2, <2>1, Still, HarmlessStep DEF Quieter
<1>3. CASE status' = "residual" /\ run' = NoRun
  BY <1>1, <1>3, Ends, Still, HarmlessStep DEF Quieter
<1>4. CASE /\ run.at = "next" /\ UNCHANGED status
           /\ \E r \in run.todo : First(r) /\ \E b \in Barrier(r) \ run.verified :
                run' = [run EXCEPT !.bad = TRUE, !.verified = @ \cup {b}]
  <2>0. PICK r \in run.todo :
          \E b \in Barrier(r) : run' = [run EXCEPT !.bad = TRUE, !.verified = @ \cup {b}]
    BY <1>4
  <2>1. PICK b \in Barrier(r) : run' = [run EXCEPT !.bad = TRUE, !.verified = @ \cup {b}]
    BY <2>0
  <2>2. run' = [run EXCEPT !.bad = run.bad \/ TRUE, !.verified = run.verified \cup {b}]
    BY <2>1
  <2> QED
    BY <1>1, <1>4, <2>2, BarrierStep
<1> QED
  BY <1>2, <1>3, <1>4 DEF InventoryFails

(* What is kept after a residual is left out; all else is taken, and       *)
(* behind a barrier only when that has found no residual.                  *)
LEMMA TakeStep ==
  ASSUME IndInv, NEW r \in Resources, Skip(r) \/ Take(r), Counted
  PROVE  IndInv'
<1>1. /\ TypeOK /\ ItemInv /\ UNCHANGED <<cloud, foreign, status>> /\ r \in run.todo
      /\ Barrier(r) \subseteq run.verified
  BY DEF IndInv, Skip, Take, Due, First
<1>2. CASE Skip(r)
  <2>1. /\ run' \in Run /\ run'.at = "next" /\ run'.todo = run.todo \ {r} /\ run'.found = run.found
        /\ run'.verified = run.verified /\ run'.bad = run.bad
    BY <1>1, <1>2 DEF TypeOK, Run, Skip, Due
  <2>2. RunOK' /\ ItemInv' /\ GoesOn
    BY <1>1, <2>1, ItemFree DEF RunOK, TypeOK, GoesOn
  <2> QED
    BY <1>1, <2>2, Still, HarmlessStep DEF Quieter
<1>3. CASE Take(r)
  <2>1. /\ run' \in Run /\ run'.at = "handle" /\ run'.item = r /\ run'.todo = run.todo \ {r}
        /\ run'.found = run.found /\ run'.verified = run.verified /\ run'.bad = run.bad
    BY <1>1, <1>3 DEF TypeOK, Run, Take
  <2>2. ~(run.bad /\ Kind[r] \in Retained)
    BY <1>3 DEF Take
  <2>3. Barrier(r)' = Barrier(r)
    BY DEF Barrier
  <2>4. ItemInv'
    BY <1>1, <2>1, <2>2, <2>3 DEF ItemInv
  <2>5. RunOK' /\ GoesOn
    BY <1>1, <2>1 DEF RunOK, TypeOK, GoesOn
  <2> QED
    BY <1>1, <2>4, <2>5, Still, HarmlessStep DEF Quieter
<1> QED
  BY <1>2, <1>3

-----------------------------------------------------------------------------
(* The handlers.                                                           *)

(* A handler that takes something away, or asks for it.                    *)
LEMMA AllEffect ==
  ASSUME TypeOK, NEW rs, NEW state, All(rs, state)
  PROVE  /\ \A r \in Resources : cloud'[r] = IF r \in rs THEN state ELSE cloud[r]
         /\ state \in {"present", "deleting", "half", "pending", "gone"} =>
              cloud' \in [Resources -> {"present", "deleting", "half", "pending", "gone"}]
BY DEF All, TypeOK

(* What a handler may do to what is neither state nor key nor cluster.     *)
LEMMA Harmless ==
  ASSUME IndInv, NEW rs \in SUBSET Resources, NEW state, All(rs, state), UNCHANGED foreign,
         \/ state = "gone"
         \/ /\ state = "deleting" /\ \A r \in rs : cloud[r] # "gone"
            /\ \A r \in rs : Kind[r] \in Waits \cup {"eks", "nodegroup", "nat"}
         \/ state = "half" /\ \A r \in rs : Kind[r] = "config" /\ cloud[r] = "present"
  PROVE  /\ Shrinks /\ CloudOK'
         /\ \A kinds : (\A r \in rs : Kind[r] \notin kinds \/ cloud[r] = "deleting") => Holds(kinds)
<1>1. /\ \A r \in Resources : cloud'[r] = IF r \in rs THEN state ELSE cloud[r]
      /\ cloud' \in [Resources -> {"present", "deleting", "half", "pending", "gone"}]
  BY AllEffect DEF IndInv
<1>2. Shrinks
  <2>1. foreign \subseteq foreign' /\ foreign' \subseteq Resources
    BY DEF IndInv, TypeOK
  <2>2. state # "present"
    OBVIOUS
  <2>3. \A r \in Resources : cloud[r] = "gone" => cloud'[r] = "gone"
    BY <1>1
  <2>4. \A r \in Resources : cloud'[r] = "present" => cloud[r] = "present"
    BY <1>1, <2>2
  <2> QED
    BY <2>1, <2>3, <2>4 DEF Shrinks
<1>3. CloudOK'
  BY <1>1 DEF CloudOK, IndInv, TypeOK
<1> QED
  BY <1>1, <1>2, <1>3 DEF Holds

(* The item of a handler.                                                  *)
LEMMA ItemType ==
  ASSUME IndInv, run.at \notin {"idle", "next"}
  PROVE  run.item \in Resources /\ Kind[run.item] \notin Nested
BY DEF IndInv, ItemInv

LEMMA AtOnceStep ==
  ASSUME IndInv, DeleteAtOnce, Counted
  PROVE  IndInv'
<1>1. /\ run.item \in Resources
      /\ Kind[run.item] \in {"codebuild", "config", "schedule", "volume", "eip", "profile"}
      /\ All({run.item}, "gone") /\ UNCHANGED <<foreign, status>> /\ Leave(FALSE)
  BY DEF DeleteAtOnce, Accepts, Handling
<1>2. Kind[run.item] \notin Backend \cup {"kms", "eks"}
  BY <1>1 DEF Backend
<1>3. Shrinks /\ CloudOK' /\ Holds(Backend \cup {"kms", "eks"})
  BY <1>1, <1>2, Harmless
<1> QED
  BY <1>1, <1>3, Leaves, HarmlessStep DEF Quieter

(* State is asked for only when all but state and keys is gone; the keys   *)
(* are there still.                                                        *)
LEMMA BackendAsked ==
  ASSUME IndInv, run.at = "handle", run.item \in Resources, Kind[run.item] \in Backend,
         Shrinks, Holds({"kms"})
  PROVE  RecoveryStateLast'
<1>1. Clean("backend")
  BY DEF IndInv, ItemInv, BarrierInv, Retained, Barrier
<1> SUFFICES ASSUME NEW r \in Resources, Visible(r)', cloud'[r] # "gone"
             PROVE  /\ Kind[r] \in Backend \cup {"kms"}
                    /\ Kind[r] # "kms" =>
                         \A k \in Of("kms") \ foreign' : cloud'[k] = "present"
  BY DEF RecoveryStateLast, Of
<1>2. Visible(r) /\ cloud[r] # "gone"
  BY VisibleBefore DEF IndInv, Shrinks
<1>3. Kind[r] \in Backend \cup {"kms"}
  BY <1>1, <1>2 DEF Clean, Allowed
<1>4. Kind[r] # "kms" => \A k \in Of("kms") \ foreign : cloud[k] = "present"
  BY <1>2 DEF IndInv, RecoveryStateLast
<1> QED
  BY <1>3, <1>4 DEF Shrinks, Holds, Of

(* A request for something that is waited for.                             *)
LEMMA RequestStep ==
  ASSUME IndInv, Counted, run.at = "handle", run.item \in Resources, Kind[run.item] \in Waits,
         cloud[run.item] # "gone", All({run.item}, "deleting"), UNCHANGED <<foreign, status>>,
         RunOK', ItemInv', GoesOn
  PROVE  IndInv'
<1>1. Kind[run.item] \notin {"kms", "eks"}
  BY DEF Waits, Backend
<1>2. Shrinks /\ CloudOK' /\ Holds({"kms", "eks"})
  BY <1>1, Harmless
<1>3. CASE Kind[run.item] \in Backend
  <2>1. Holds({"kms"}) /\ Holds({"eks"})
    BY <1>2 DEF Holds
  <2>2. TypeOK'
    BY <1>2, TypeParts DEF IndInv, Shrinks, TypeOK
  <2> QED
    BY <1>2, <1>3, <2>1, <2>2, BackendAsked, NodesKept, SuccessKept, BarrierKept DEF IndInv
<1>4. CASE Kind[run.item] \notin Backend
  <2>1. Holds(Backend \cup {"kms", "eks"})
    BY <1>1, <1>4, Harmless
  <2> QED
    BY <1>2, <2>1, HarmlessStep DEF Quieter
<1> QED
  BY <1>3, <1>4

LEMMA AskStep ==
  ASSUME IndInv, Ask, Counted
  PROVE  IndInv'
<1>1. /\ run.at = "handle" /\ run.item \in Resources /\ Kind[run.item] \in Waits
      /\ Admitted(run.item) /\ UNCHANGED <<foreign, status>>
  BY DEF Ask, Accepts, Handling
<1>2. CASE Free(run.item)
  <2>1. All({run.item}, "deleting") /\ Goes("wait")
    BY <1>2 DEF Ask
  <2>2. cloud[run.item] # "gone"
    BY <1>1 DEF Admitted, Ours, Waits, Backend
  <2>3. Passes("wait", run.item, FALSE)
    BY <2>1, GoesEffect DEF IndInv
  <2>4. Kind[run.item] \notin Nested /\ ItemInv
    BY <1>1, ItemType DEF IndInv
  <2>5. ItemInv'
    BY <1>1, <2>3, <2>4 DEF ItemInv, Passes
  <2>6. RunOK' /\ GoesOn
    BY <2>3 DEF IndInv, TypeOK, Passes, RunOK, GoesOn
  <2> QED
    BY <1>1, <2>1, <2>2, <2>5, <2>6, RequestStep
<1>3. CASE ~Free(run.item)
  <2>1. Leave(TRUE) /\ UNCHANGED <<cloud, foreign, status>>
    BY <1>3 DEF Ask
  <2> QED
    BY <2>1, LeaveStep
<1> QED
  BY <1>2, <1>3

(* The key is scheduled when all that is visible but keys is gone.         *)
LEMMA KeyStep ==
  ASSUME IndInv, ScheduleKey, Counted
  PROVE  IndInv'
<1> DEFINE key == run.item
<1>1. /\ run.at = "handle" /\ key \in Resources /\ Kind[key] = "kms"
      /\ Admitted(key) /\ All({key}, "pending") /\ UNCHANGED <<foreign, status>> /\ Leave(FALSE)
  BY DEF ScheduleKey, Accepts, Handling
<1>2. key \notin foreign /\ cloud[key] # "gone"
  BY <1>1 DEF Admitted, Ours
<1>3. Clean("kms")
  BY <1>1 DEF IndInv, ItemInv, BarrierInv, Retained, Barrier, Backend
<1>4. /\ \A r \in Resources : cloud'[r] = IF r = key THEN "pending" ELSE cloud[r]
      /\ cloud' \in [Resources -> {"present", "deleting", "half", "pending", "gone"}]
  BY <1>1, AllEffect DEF IndInv
<1>5. Shrinks /\ CloudOK' /\ Holds({"eks"})
  BY <1>1, <1>2, <1>4 DEF Shrinks, CloudOK, Holds, IndInv, TypeOK
<1>6. RecoveryStateLast'
  <2> SUFFICES ASSUME NEW r \in Resources, Visible(r)', cloud'[r] # "gone" PROVE Kind[r] = "kms"
    BY DEF RecoveryStateLast
  <2>1. Visible(r) /\ cloud[r] # "gone"
    BY <1>5, VisibleBefore DEF IndInv, Shrinks
  <2> QED
    BY <1>3, <2>1 DEF Clean, Allowed
<1>7. SuccessIsTrue'
  <2> SUFFICES ASSUME status \in {"complete", "pending"}, NEW r \in Resources, Visible(r)'
               PROVE  cloud'[r] = "gone" \/ (status = "pending" /\ cloud'[r] = "pending")
    BY <1>1 DEF SuccessIsTrue
  <2>1. Visible(key)
    BY <1>1, <1>2 DEF Visible
  <2>2. status = "pending"
    BY <1>1, <1>2, <2>1 DEF IndInv, SuccessIsTrue
  <2>3. cloud[r] \in {"gone", "pending"}
    BY <1>5, VisibleBefore DEF IndInv, SuccessIsTrue
  <2> QED
    BY <1>4, <2>2, <2>3
<1>8. RunOK' /\ ItemInv' /\ GoesOn
  BY <1>1, Leaves
<1>9. TypeOK'
  BY <1>1, <1>5, <1>8, TypeParts DEF IndInv, Shrinks, TypeOK
<1> QED
  BY <1>5, <1>6, <1>7, <1>8, <1>9, NodesKept, BarrierKept DEF IndInv

LEMMA LostStep ==
  ASSUME IndInv, Lost, Counted
  PROVE  IndInv'
<1>1. /\ run.at = "handle" /\ run.item \in Resources /\ Kind[run.item] \notin {"eks", "vpc", "kms"}
      /\ Admitted(run.item) /\ UNCHANGED <<foreign, status>> /\ Leave(TRUE)
  BY DEF Lost, Accepts, Handling
<1>2. RunOK' /\ ItemInv' /\ GoesOn
  BY <1>1, Leaves
<1>3. CASE /\ Kind[run.item] = "config" /\ cloud[run.item] = "present"
           /\ All({run.item}, "half")
  <2>1. Kind[run.item] \notin Backend \cup {"kms", "eks"}
    BY <1>3 DEF Backend
  <2>2. Shrinks /\ CloudOK' /\ Holds(Backend \cup {"kms", "eks"})
    BY <1>1, <1>3, <2>1, Harmless
  <2> QED
    BY <1>1, <1>2, <2>2, HarmlessStep DEF Quieter
<1>4. CASE Kind[run.item] \in Waits /\ All({run.item}, "deleting")
  <2>1. cloud[run.item] # "gone"
    BY <1>1, <1>4 DEF Admitted, Ours, Waits, Backend
  <2> QED
    BY <1>1, <1>2, <1>4, <2>1, RequestStep
<1>5. CASE Kind[run.item] \notin Waits /\ All({run.item}, "gone")
  <2>1. Kind[run.item] \notin Backend \cup {"kms", "eks"}
    BY <1>1, <1>5 DEF Waits
  <2>2. Shrinks /\ CloudOK' /\ Holds(Backend \cup {"kms", "eks"})
    BY <1>1, <1>5, <2>1, Harmless
  <2> QED
    BY <1>1, <1>2, <2>2, HarmlessStep DEF Quieter
<1> QED
  BY <1>3, <1>4, <1>5 DEF Lost

(* The parts of a cluster or a network are asked for first, all of them or *)
(* some.                                                                   *)
LEMMA PartsStep ==
  ASSUME IndInv, Counted, NEW kind \in {"nodegroup", "nat"}, NEW at \in {"children", "gateways"},
         NEW asked \in SUBSET Inside(run.item, kind), NEW bad \in BOOLEAN,
         run.at = "handle", run.item \in Resources, All(asked, "deleting"),
         UNCHANGED <<foreign, status>>,
         at = "children" => Kind[run.item] = "eks", at = "gateways" => Kind[run.item] = "vpc",
         Passes(at, run.item, bad)
  PROVE  IndInv'
<1>1. Shrinks /\ CloudOK' /\ Holds(Backend \cup {"kms", "eks"})
  <2>1. \A r \in Inside(run.item, kind) : r \in Resources /\ cloud[r] # "gone" /\ Kind[r] = kind
    BY DEF Inside, Of
  <2> QED
    BY <2>1, Harmless DEF Backend
<1>2. RunOK' /\ GoesOn /\ Quieter
  BY DEF IndInv, TypeOK, RunOK, GoesOn, Quieter, Passes
<1>3. ItemInv'
  BY ItemType DEF IndInv, ItemInv, Passes
<1> QED
  BY <1>1, <1>2, <1>3, HarmlessStep

LEMMA EksStep ==
  ASSUME IndInv, Counted, NEW asked \in SUBSET Inside(run.item, "nodegroup"),
         NEW noted \in SUBSET Of("group"), NEW bad \in BOOLEAN, EksAsk(asked, noted, bad)
  PROVE  IndInv'
<1>1. /\ run.at = "handle" /\ run.item \in Resources /\ Kind[run.item] = "eks"
      /\ UNCHANGED <<foreign, status>> /\ All(asked, "deleting")
      /\ run' = [run EXCEPT !.at = "children", !.bad = run.bad \/ bad, !.groups = run.groups \cup noted]
  BY DEF EksAsk, Accepts, Handling
<1>2. Passes("children", run.item, bad)
  BY <1>1 DEF IndInv, TypeOK, Run, Passes
<1> QED
  BY <1>1, <1>2, PartsStep

LEMMA VpcStep ==
  ASSUME IndInv, Counted, NEW asked \in SUBSET Inside(run.item, "nat"), NEW bad \in BOOLEAN,
         VpcAsk(asked, bad)
  PROVE  IndInv'
<1>1. /\ run.at = "handle" /\ run.item \in Resources /\ Kind[run.item] = "vpc"
      /\ UNCHANGED <<foreign, status>> /\ All(asked, "deleting")
      /\ run' = [run EXCEPT !.at = "gateways", !.bad = run.bad \/ bad]
  BY DEF VpcAsk, Accepts, Handling
<1>2. Passes("gateways", run.item, bad)
  BY <1>1 DEF IndInv, TypeOK, Run, Passes
<1> QED
  BY <1>1, <1>2, PartsStep

LEMMA ChildrenStep ==
  ASSUME IndInv, EksChildren \/ VpcGateways, Counted
  PROVE  IndInv'
<1>1. GroupsOf(run.item) \in SUBSET Of("group")
  BY DEF GroupsOf
<1>2. CASE EksChildren
  BY <1>1, <1>2, EksStep DEF EksChildren
<1>3. CASE VpcGateways
  BY <1>3, VpcStep DEF VpcGateways
<1> QED
  BY <1>2, <1>3

(* A cluster is asked for when its node groups are gone.                   *)
LEMMA ClusterStep ==
  ASSUME IndInv, EksCluster, Counted
  PROVE  IndInv'
<1> DEFINE left == {c \in {run.item} : cloud[c] # "gone"}
<1>1. /\ run.item \in Resources /\ Kind[run.item] = "eks" /\ Inside(run.item, "nodegroup") = {}
      /\ All(left, "deleting") /\ Goes("wait") /\ UNCHANGED <<foreign, status>>
  BY DEF EksCluster, Handling
<1>2. Passes("wait", run.item, FALSE)
  BY <1>1, GoesEffect DEF IndInv
<1>3. Shrinks /\ CloudOK' /\ Holds(Backend \cup {"kms"})
  BY <1>1, Harmless DEF Backend
<1>4. NodesInv'
  <2> SUFFICES ASSUME NEW n \in Resources, NEW c \in Resources, Kind[n] = "nodegroup",
                      c \in Uses[n], Kind[c] = "eks", cloud'[n] # "gone"
               PROVE  cloud'[c] = "present"
    BY DEF NodesInv
  <2>1. cloud[n] # "gone"
    BY <1>3 DEF Shrinks
  <2>2. c # run.item
    BY <1>1, <2>1 DEF Inside, Of
  <2>3. cloud'[c] = cloud[c]
    BY <1>1, <2>2, AllEffect DEF IndInv
  <2> QED
    BY <2>1, <2>3 DEF IndInv, NodesInv
<1>5. RunOK' /\ GoesOn /\ Holds({"kms"})
  BY <1>2, <1>3 DEF IndInv, TypeOK, RunOK, Passes, GoesOn, Holds
<1>6. ItemInv'
  BY <1>1, <1>2 DEF IndInv, ItemInv, Passes, Nested
<1>7. TypeOK'
  BY <1>1, <1>3, <1>5, TypeParts DEF IndInv, Shrinks, TypeOK
<1> QED
  BY <1>1, <1>3, <1>4, <1>5, <1>6, <1>7, StateKept, SuccessKept, BarrierKept DEF IndInv

LEMMA NetworkStep ==
  ASSUME IndInv, VpcNetwork, Counted
  PROVE  IndInv'
<1>1. run.item \in Resources /\ Kind[run.item] = "vpc"
  BY DEF VpcNetwork, IndInv, ItemInv
<1>2. PICK rs \in SUBSET Resources, bad \in BOOLEAN :
        /\ All(rs, "gone") /\ Leave(bad) /\ \A r \in rs : Kind[r] \in {"group", "vpc"}
  <2> DEFINE groups == KnownGroups(run.item)
             empty == \A u \in Resources \ groups : run.item \in Uses[u] => cloud[u] = "gone"
             rs == IF empty THEN groups \cup {run.item} ELSE groups
  <2>1. All(rs, "gone") /\ Leave(~empty) /\ (~empty) \in BOOLEAN
    BY DEF VpcNetwork
  <2>2. \A g \in groups : g \in Resources /\ Kind[g] = "group"
    BY DEF KnownGroups, Inside, Of
  <2>3. rs \in SUBSET Resources /\ \A r \in rs : Kind[r] \in {"group", "vpc"}
    BY <1>1, <2>2
  <2> QED
    BY <2>1, <2>3
<1>3. UNCHANGED <<foreign, status>>
  BY DEF VpcNetwork
<1>4. Shrinks /\ CloudOK' /\ Holds(Backend \cup {"kms", "eks"})
  BY <1>2, <1>3, Harmless DEF Backend
<1> QED
  BY <1>2, <1>3, <1>4, Leaves, HarmlessStep DEF Quieter

(* Some of its parts only, when requests are denied.                       *)
LEMMA InPartStep ==
  ASSUME IndInv, DeniedInPart, Counted
  PROVE  IndInv'
<1>1. CASE \E asked \in SUBSET (Inside(run.item, "nodegroup") \ foreign),
              noted \in SUBSET GroupsOf(run.item) : EksAsk(asked, noted, TRUE)
  <2>1. PICK asked \in SUBSET (Inside(run.item, "nodegroup") \ foreign),
             noted \in SUBSET GroupsOf(run.item) : EksAsk(asked, noted, TRUE)
    BY <1>1
  <2>2. asked \in SUBSET Inside(run.item, "nodegroup") /\ noted \in SUBSET Of("group")
    BY DEF GroupsOf
  <2> QED
    BY <2>1, <2>2, EksStep
<1>2. CASE \E asked \in SUBSET (Inside(run.item, "nat") \ foreign) : VpcAsk(asked, TRUE)
  BY <1>2, VpcStep
<1>3. CASE /\ run.at = "network" /\ \E groups \in SUBSET KnownGroups(run.item) : All(groups, "gone")
           /\ Leave(TRUE) /\ UNCHANGED <<foreign, status>>
  <2>1. PICK groups \in SUBSET KnownGroups(run.item) : All(groups, "gone")
    BY <1>3
  <2>2. groups \in SUBSET Resources /\ \A g \in groups : Kind[g] = "group"
    BY DEF KnownGroups, Inside, Of
  <2>3. Shrinks /\ CloudOK' /\ Holds(Backend \cup {"kms", "eks"})
    BY <1>3, <2>1, <2>2, Harmless DEF Backend
  <2> QED
    BY <1>3, <2>3, Leaves, HarmlessStep DEF Quieter
<1> QED
  BY <1>1, <1>2, <1>3 DEF DeniedInPart

-----------------------------------------------------------------------------
(* AWS and the others.                                                     *)

(* A run that is left alone.                                               *)
LEMMA Alone ==
  ASSUME IndInv, UNCHANGED run
  PROVE  RunOK' /\ ItemInv' /\ GoesOn
BY DEF IndInv, TypeOK, RunOK, ItemInv, Barrier, GoesOn

LEMMA WorldStep ==
  ASSUME IndInv, NEW r \in Resources, Vanish(r) \/ Retains(r), Counted
  PROVE  IndInv'
<1>1. cloud[r] = "deleting" /\ UNCHANGED <<foreign, run, status>>
  BY DEF Vanish, Retains
<1>2. CASE Vanish(r)
  <2>1. PICK rs \in SUBSET Resources :
          All(rs, "gone") /\ \A o \in rs : o = r \/ Kind[o] = "group"
    BY <1>2 DEF Vanish, Of
  <2>2. \A o \in rs : Kind[o] \notin Backend \cup {"kms", "eks"} \/ cloud[o] = "deleting"
    BY <1>1, <2>1 DEF Backend
  <2>3. Shrinks /\ CloudOK' /\ Holds(Backend \cup {"kms", "eks"})
    BY <1>1, <2>1, <2>2, Harmless
  <2> QED
    BY <1>1, <2>3, Alone, HarmlessStep DEF Quieter
<1>3. CASE Retains(r)
  <2>1. /\ \A o \in Resources : cloud'[o] = IF o = r THEN "present" ELSE cloud[o]
        /\ cloud' \in [Resources -> {"present", "deleting", "half", "pending", "gone"}]
    BY <1>3, AllEffect DEF IndInv, Retains
  <2>2. Shrinks /\ CloudOK' /\ Holds(Backend \cup {"kms", "eks"})
    BY <1>1, <2>1 DEF Shrinks, CloudOK, Holds, IndInv, TypeOK
  <2> QED
    BY <1>1, <2>2, Alone, HarmlessStep DEF Quieter
<1> QED
  BY <1>2, <1>3

LEMMA HandOverStep ==
  ASSUME IndInv, NEW r \in Resources, HandOver(r), Counted
  PROVE  IndInv'
<1>1. Shrinks /\ CloudOK' /\ Holds(Backend \cup {"kms", "eks"}) /\ UNCHANGED <<run, status>>
  BY DEF HandOver, Shrinks, CloudOK, Holds, IndInv, TypeOK
<1> QED
  BY <1>1, Alone, HarmlessStep DEF Quieter

(* Something is created only while a cluster of the deployment is there:   *)
(* then no barrier has found all gone, state and keys are present, and no  *)
(* run has reported success.                                               *)
LEMMA CreateStep ==
  ASSUME IndInv, NEW r \in Resources, Create(r), Counted
  PROVE  IndInv'
<1>1. /\ cloud[r] = "gone" /\ UNCHANGED <<foreign, run, status>>
      /\ Kind[r] \notin Backend \cup {"kms", "eks", "nodegroup"}
  BY LateAssumption DEF Create
<1>2. PICK c \in Resources \ foreign : Kind[c] = "eks" /\ cloud[c] = "present"
  BY DEF Create, Of
<1>3. Visible(c) /\ Kind[c] \notin Backend \cup {"kms"}
  BY <1>2 DEF Visible, Backend
<1>4. /\ \A o \in Resources : cloud'[o] = IF o = r THEN "present" ELSE cloud[o]
      /\ cloud' \in [Resources -> {"present", "deleting", "half", "pending", "gone"}]
  BY AllEffect DEF IndInv, Create
<1>5. CloudOK' /\ RunOK' /\ ItemInv'
  BY <1>1, <1>4, Alone DEF CloudOK, IndInv, TypeOK
<1>6. TypeOK'
  BY <1>1, <1>5, TypeParts DEF IndInv, TypeOK
<1>7. NodesInv'
  BY <1>1, <1>4 DEF NodesInv, IndInv
<1>8. BarrierInv'
  <2>1. \A b \in run.verified : ~Clean(b)
    BY <1>2, <1>3 DEF Clean, Allowed, IndInv, TypeOK, Run
  <2> QED
    BY <1>1, <2>1 DEF IndInv, BarrierInv
<1>9. RecoveryStateLast'
  <2>1. /\ \A b \in Resources \ foreign : Kind[b] \in Backend => cloud[b] = "present"
        /\ \A k \in Of("kms") \ foreign : cloud[k] = "present"
    BY <1>2, <1>3 DEF IndInv, RecoveryStateLast
  <2> QED
    BY <1>1, <1>4, <2>1 DEF RecoveryStateLast, Of
<1>10. SuccessIsTrue'
  <2>1. status \notin {"complete", "pending"}
    BY <1>2, <1>3 DEF IndInv, SuccessIsTrue
  <2> QED
    BY <1>1, <2>1 DEF SuccessIsTrue
<1> QED
  BY <1>5, <1>6, <1>7, <1>8, <1>9, <1>10 DEF IndInv

-----------------------------------------------------------------------------
(* The results.                                                            *)

(* At the start everything is there but what controllers will create.      *)
LEMMA InitIndInv == Init => IndInv
<1> SUFFICES ASSUME Init PROVE IndInv
  OBVIOUS
<1>1. \A r \in Resources : cloud[r] = IF r \in Late THEN "gone" ELSE "present"
  BY DEF Init
<1>2. TypeOK
  BY MaxMishapsAssumption, NoRunFacts DEF Init, TypeOK
<1>3. NodesInv
  BY <1>1, LateAssumption DEF NodesInv
<1>4. ItemInv /\ BarrierInv
  BY NoRunFacts DEF Init, ItemInv, BarrierInv
<1>5. RecoveryStateLast
  BY <1>1, LateAssumption DEF RecoveryStateLast, Of
<1>6. SuccessIsTrue
  BY DEF Init, SuccessIsTrue
<1> QED
  BY <1>2, <1>3, <1>4, <1>5, <1>6 DEF IndInv

(* No step leaves the inductive invariant.                                 *)
LEMMA IndInvStep == IndInv /\ [Next]_vars => IndInv'
<1> SUFFICES ASSUME IndInv, [Next]_vars PROVE IndInv'
  OBVIOUS
<1>1. CASE Next
  <2>1. Counted
    BY <1>1, MaxMishapsAssumption DEF Next, Counted, IndInv, TypeOK
  <2>2. CASE RunStep
    BY <2>1, <2>2, StartStep, FinishStep, PassStep, AtOnceStep, KeyStep, AskStep, ChildrenStep,
       ClusterStep, NetworkStep, VerifyStep, TakeStep DEF RunStep, WaitInVain
  <2>3. CASE GoesWrong
    BY <2>1, <2>3, PassStep, InPartStep, LostStep, InventoryFailsStep, KilledStep, WorldStep, HandOverStep,
       CreateStep DEF GoesWrong, TimesOut
  <2>4. CASE \E r \in Resources : Vanish(r)
    BY <2>1, <2>4, WorldStep
  <2> QED
    BY <1>1, <2>2, <2>3, <2>4 DEF Next
<1>2. CASE UNCHANGED vars
  <2>1. Counted
    BY <1>2 DEF vars, Counted, IndInv, TypeOK
  <2> QED
    BY <1>2, <2>1, Alone, Still, HarmlessStep DEF vars, Quieter, IndInv
<1> QED
  BY <1>1, <1>2

(* The inductive invariant holds in every state.                           *)
THEOREM Invariance == Spec => []IndInv
<1> QED
  BY InitIndInv, IndInvStep, PTL DEF Spec

(* Every variable keeps a value of its kind, and every resource is only in *)
(* states that its own handler can bring it to.                            *)
THEOREM TypeCorrect == Spec => []TypeOK
<1>1. IndInv => TypeOK
  BY DEF IndInv
<1> QED
  BY <1>1, Invariance, PTL

(* Terraform state, lock and keys are there as long as an inventory could  *)
(* find anything else of the deployment, by its own tags or by those of    *)
(* what proves it, however often the command fails, is killed or is        *)
(* repeated (delete-all-node-operator-resources.sh:1804-1816).             *)
THEOREM StateGoesLast == Spec => []RecoveryStateLast
<1>1. IndInv => RecoveryStateLast
  BY DEF IndInv
<1> QED
  BY <1>1, Invariance, PTL

(* A report of success is true when it is made, and stays true until the   *)
(* next one (delete-all-node-operator-resources.sh:1858).                  *)
THEOREM SuccessTrue == Spec => []SuccessIsTrue
<1>1. IndInv => SuccessIsTrue
  BY DEF IndInv
<1> QED
  BY <1>1, Invariance, PTL
=============================================================================
