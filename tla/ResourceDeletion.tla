-------------------------- MODULE ResourceDeletion --------------------------
(***************************************************************************)
(* The deletion of one deployment, by a command that finds its resources   *)
(* by their tags, deletes consumers before what they use, and keeps the    *)
(* Terraform state, its lock and the keys to the last.  It remembers       *)
(* nothing between runs: the operator repeats it until it succeeds, and    *)
(* AWS finishes, or fails, deletions meanwhile.                            *)
(***************************************************************************)
EXTENDS Naturals

CONSTANTS Resources, \* what the deployment consists of
          Kind,      \* the handler of each resource
          Uses,      \* Uses[r]: what AWS does not delete while r exists
          Proof,     \* Proof[r]: whose tags prove r, which has none itself
          Late,      \* what the cluster's controllers create, if anything
          Faults,    \* what may go wrong
          MaxMishaps \* bound: how often anything goes wrong

(* The order of the handlers.  A node group and a NAT gateway are deleted  *)
(* with their cluster and VPC, a cluster's security group with its VPC.    *)
Rank == [codebuild |-> 0, config |-> 1, schedule |-> 5, eks |-> 10, instance |-> 11,
         volume |-> 12, vpc |-> 20, eip |-> 25, profile |-> 40, iam |-> 42, dynamodb |-> 60,
         s3 |-> 70, backend_dynamodb |-> 91, backend_s3 |-> 92, kms |-> 99]
Nested == {"nodegroup", "nat", "group"}
Untagged == {"config", "schedule", "group"}
Backend == {"backend_dynamodb", "backend_s3"}
Retained == {"dynamodb", "s3", "kms"} \cup Backend
Waits == {"instance", "iam", "dynamodb", "s3"} \cup Backend

ASSUME KindAssumption == Kind \in [Resources -> DOMAIN Rank \cup Nested]
ASSUME UsesAssumption == Uses \in [Resources -> SUBSET Resources]
ASSUME ProofAssumption == Proof \in [Resources -> SUBSET Resources]
(* Every node group has a cluster; controllers create neither of these,    *)
(* and neither state nor keys.                                             *)
ASSUME NodeGroupAssumption ==
  \A n \in Resources : Kind[n] = "nodegroup" => \E c \in Uses[n] : Kind[c] = "eks"
ASSUME LateAssumption ==
  Late \subseteq {r \in Resources : Kind[r] \notin Backend \cup {"kms", "eks", "nodegroup"}}
ASSUME FaultsAssumption == Faults \subseteq
  {"denied", "lost", "timeout", "kill", "retained", "handover", "create"}
ASSUME MaxMishapsAssumption == MaxMishaps \in Nat

VARIABLES cloud,   \* every resource in AWS; "half": part of it is gone
          foreign, \* resources whose tags now name another owner
          run,     \* the command, when one is under way
          status,  \* what the last run said
          mishaps  \* how often something went wrong

vars == <<cloud, foreign, run, status, mishaps>>

Of(kind) == {r \in Resources : Kind[r] = kind}
Tagged(r) == Kind[r] \notin Untagged
NoRun == [at |-> "idle", item |-> "none", todo |-> {}, found |-> {},
          bad |-> FALSE, verified |-> {}, groups |-> {}]

Init ==
  /\ cloud = [r \in Resources |-> IF r \in Late THEN "gone" ELSE "present"]
  /\ foreign = {} /\ run = NoRun /\ status = "none" /\ mishaps = 0

-----------------------------------------------------------------------------
(* One inventory, by tags.  Nothing but Late is ever created, so an        *)
(* inventory at one moment stands for one that takes its time.             *)

Ours(r) == r \notin foreign /\ cloud[r] # "gone"
(* A schedule is selected through its role, the Config recorder and        *)
(* channel through role and bucket, and only while both are there.         *)
Proven(r) == \A p \in Proof[r] : Ours(p)
Selected ==
  {r \in Resources :
     CASE Kind[r] \in Nested -> FALSE
       [] Kind[r] = "schedule" -> cloud[r] = "present" /\ Proven(r)
       [] Kind[r] = "config" -> cloud[r] = "present" /\ Proven(r)
       [] OTHER -> Ours(r)}
(* What an inventory itself reports: a Config role that is gone, ownership *)
(* that is proven in part, a NAT gateway in a VPC of somebody else.        *)
Unclear ==
  \/ \E r \in Of("config") : cloud[r] = "present" /\
       \/ \E p \in Proof[r] : Kind[p] = "iam" /\ cloud[p] = "gone"
       \/ ~Proven(r) /\ \E p \in Proof[r] : Ours(p)
  \/ \E r \in Of("nat") : Ours(r) /\ \A v \in Uses[r] \cap Of("vpc") : ~Ours(v)

\* Mutant: of the second inventory only the errors count.
Remains_Errors(allowed) == Unclear
(* The independent second inventory; a key that is scheduled is expected.  *)
Remains(allowed) ==
  Unclear \/ \E r \in Selected : Kind[r] \notin allowed /\ cloud[r] # "pending"

-----------------------------------------------------------------------------
(* The run: inventory, every item in order, and a last inventory.          *)

Start ==
  /\ run.at = "idle"
  /\ IF Unclear
     THEN status' = "residual" /\ UNCHANGED run
     ELSE /\ run' = [NoRun EXCEPT !.at = "next", !.todo = Selected, !.found = Selected]
          /\ UNCHANGED status
  /\ UNCHANGED <<cloud, foreign>>

First(r) == r \in run.todo /\ \A o \in run.todo : Rank[Kind[r]] <= Rank[Kind[o]]
\* Mutant: the absence of the rest is not checked before the state goes.
Barrier_KeysOnly(r) == IF Kind[r] = "kms" THEN {"kms"} ELSE {}
Barrier(r) == IF Kind[r] \in Backend THEN {"backend"}
              ELSE IF Kind[r] = "kms" THEN {"kms"} ELSE {}
\* Mutant: what the barrier protects counts as left over.
Allowed_Nothing(b) == {}
Allowed(b) == IF b = "kms" THEN {"kms"} ELSE Backend \cup {"kms"}

(* Before the first backend and the first key: is all the rest gone?       *)
Verify(r) ==
  /\ run.at = "next" /\ First(r)
  /\ \E b \in Barrier(r) \ run.verified :
       run' = [run EXCEPT !.bad = @ \/ Remains(Allowed(b)), !.verified = @ \cup {b}]
  /\ UNCHANGED <<cloud, foreign, status>>
Due(r) == run.at = "next" /\ First(r) /\ Barrier(r) \subseteq run.verified
(* Data, state and keys stay after any residual; identities do not.        *)
Skip(r) ==
  /\ Due(r) /\ run.bad /\ Kind[r] \in Retained
  /\ run' = [run EXCEPT !.todo = @ \ {r}]
  /\ UNCHANGED <<cloud, foreign, status>>
Take(r) ==
  /\ Due(r) /\ ~(run.bad /\ Kind[r] \in Retained)
  /\ run' = [run EXCEPT !.todo = @ \ {r}, !.at = "handle", !.item = r]
  /\ UNCHANGED <<cloud, foreign, status>>

Finish ==
  /\ run.at = "next" /\ run.todo = {}
  /\ status' = IF run.bad \/ Remains({}) THEN "residual"
               ELSE IF Selected = {} THEN "complete" ELSE "pending"
  /\ run' = NoRun
  /\ UNCHANGED <<cloud, foreign>>

-----------------------------------------------------------------------------
(* The handlers.  Each reads the tags again before it asks.                *)

Handling(at, kinds) == run.at = at /\ run.item \in Resources /\ Kind[run.item] \in kinds
Leave(bad) == run' = [run EXCEPT !.at = "next", !.item = "none", !.bad = @ \/ bad]
Goes(at) == run' = [run EXCEPT !.at = at]
Free(r) == \A u \in Resources : r \in Uses[u] => cloud[u] = "gone"
Inside(r, kind) == {n \in Of(kind) : r \in Uses[n] /\ cloud[n] # "gone"}
All(rs, state) == cloud' = [r \in Resources |-> IF r \in rs THEN state ELSE cloud[r]]

(* Config is not read again; a profile goes only with roles of the         *)
(* deployment; an attached address or volume stays.                        *)
Admitted(r) ==
  CASE Kind[r] = "config" -> TRUE
    [] Kind[r] = "schedule" -> Proof[r] \subseteq run.found /\ Proven(r)
    [] Kind[r] = "profile" -> Ours(r) /\ \A role \in Uses[r] : Ours(role)
    [] Kind[r] \in {"eip", "volume"} -> Ours(r) /\ Free(r)
    [] OTHER -> Ours(r)
Decline ==
  /\ Handling("handle", DOMAIN Rank) /\ ~Admitted(run.item)
  /\ Leave(TRUE) /\ UNCHANGED <<cloud, foreign, status>>
Accepts(kinds) == Handling("handle", kinds) /\ Admitted(run.item)

(* Gone with the request.                                                  *)
DeleteAtOnce ==
  /\ Accepts({"codebuild", "config", "schedule", "volume", "eip", "profile"})
  /\ All({run.item}, "gone")
  /\ Leave(FALSE) /\ UNCHANGED <<foreign, status>>
ScheduleKey ==
  /\ Accepts({"kms"})
  /\ All({run.item}, "pending")
  /\ Leave(FALSE) /\ UNCHANGED <<foreign, status>>
(* Tables, roles, buckets and instances are waited for; one that is on its *)
(* way out already is asked for again without effect.                      *)
Ask ==
  /\ Accepts(Waits)
  /\ IF Free(run.item)
     THEN All({run.item}, "deleting") /\ Goes("wait")
     ELSE Leave(TRUE) /\ UNCHANGED cloud
  /\ UNCHANGED <<foreign, status>>
Waited ==
  /\ run.at = "wait" /\ cloud[run.item] = "gone"
  /\ Leave(FALSE) /\ UNCHANGED <<cloud, foreign, status>>

(* The cluster's own security group is noted before the cluster goes.      *)
GroupsOf(cluster) == {g \in Of("group") : cluster \in Proof[g]}
EksAsk(asked, noted, bad) ==
  /\ Accepts({"eks"}) /\ All(asked, "deleting")
  /\ run' = [run EXCEPT !.at = "children", !.bad = @ \/ bad, !.groups = @ \cup noted]
  /\ UNCHANGED <<foreign, status>>
EksChildren ==
  LET inside == Inside(run.item, "nodegroup") IN
  EksAsk(inside \ foreign, GroupsOf(run.item), inside \cap foreign # {})
(* A cluster that has gone by then is no error.                            *)
EksCluster ==
  /\ Handling("children", {"eks"}) /\ Inside(run.item, "nodegroup") = {}
  /\ All({c \in {run.item} : cloud[c] # "gone"}, "deleting")
  /\ Goes("wait") /\ UNCHANGED <<foreign, status>>

VpcAsk(asked, bad) ==
  /\ Accepts({"vpc"}) /\ All(asked, "deleting")
  /\ run' = [run EXCEPT !.at = "gateways", !.bad = @ \/ bad]
  /\ UNCHANGED <<foreign, status>>
VpcGateways ==
  LET inside == Inside(run.item, "nat") IN
  VpcAsk(inside \ foreign, inside \cap foreign # {})
VpcGatewaysGone ==
  /\ run.at = "gateways" /\ Inside(run.item, "nat") \subseteq foreign
  /\ Goes("network") /\ UNCHANGED <<cloud, foreign, status>>
(* Untagged groups go only when this run knows their cluster.              *)
KnownGroups(vpc) ==
  {g \in Inside(vpc, "group") \cap run.groups : \A c \in Proof[g] : cloud[c] = "gone"}
VpcNetwork ==
  /\ run.at = "network"
  /\ LET vpc == run.item
         groups == KnownGroups(vpc)
         empty == \A u \in Resources \ groups : vpc \in Uses[u] => cloud[u] = "gone"
     IN /\ All(IF empty THEN groups \cup {vpc} ELSE groups, "gone")
        /\ Leave(~empty)
  /\ UNCHANGED <<foreign, status>>

(* Every wait is bounded.  After its gateways the network is tried anyway. *)
GiveUp ==
  /\ \/ run.at \in {"wait", "children"} /\ Leave(TRUE)
     \/ run.at = "gateways" /\ run' = [run EXCEPT !.at = "network", !.bad = TRUE]
  /\ UNCHANGED <<cloud, foreign, status>>
Awaited ==
  CASE run.at = "wait" -> {run.item}
    [] run.at = "children" -> Inside(run.item, "nodegroup")
    [] run.at = "gateways" -> Inside(run.item, "nat") \ foreign
    [] OTHER -> {}
WaitInVain == (\E r \in Awaited : cloud[r] = "present") /\ GiveUp

-----------------------------------------------------------------------------
(* AWS, other owners, and what goes wrong.                                 *)

(* A cluster usually takes its security group along.                       *)
Vanish(r) ==
  /\ cloud[r] = "deleting"
  /\ \/ All({r}, "gone")
     \/ All({r} \cup {g \in Of("group") : r \in Proof[g]}, "gone")
  /\ UNCHANGED <<foreign, run, status>>
Retains(r) ==
  /\ "retained" \in Faults /\ cloud[r] = "deleting"
  /\ All({r}, "present")
  /\ UNCHANGED <<foreign, run, status>>
HandOver(r) ==
  /\ "handover" \in Faults /\ Tagged(r) /\ r \notin foreign /\ cloud[r] = "present"
  /\ foreign' = foreign \cup {r}
  /\ UNCHANGED <<cloud, run, status>>
Create(r) ==
  /\ "create" \in Faults /\ r \in Late /\ cloud[r] = "gone"
  /\ \E c \in Of("eks") \ foreign : cloud[c] = "present"
  /\ All({r}, "present")
  /\ UNCHANGED <<foreign, run, status>>

(* A read or a request fails before anything is asked.                     *)
Denied ==
  /\ "denied" \in Faults /\ run.at \in {"handle", "children", "network"}
  /\ Leave(TRUE) /\ UNCHANGED <<cloud, foreign, status>>
(* Of a handler with several requests some are denied, and it goes on with *)
(* the others: a list that fails is an empty one, a failed answer only a   *)
(* residual.                                                               *)
DeniedInPart ==
  /\ "denied" \in Faults
  /\ \/ \E asked \in SUBSET (Inside(run.item, "nodegroup") \ foreign),
           noted \in SUBSET GroupsOf(run.item) : EksAsk(asked, noted, TRUE)
     \/ \E asked \in SUBSET (Inside(run.item, "nat") \ foreign) : VpcAsk(asked, TRUE)
     \/ /\ run.at = "network"
        /\ \E groups \in SUBSET KnownGroups(run.item) : All(groups, "gone")
        /\ Leave(TRUE) /\ UNCHANGED <<foreign, status>>
(* The request took effect, but its answer is an error; of the Config      *)
(* recorder and channel only one may be gone.                              *)
Lost ==
  /\ "lost" \in Faults /\ Accepts(DOMAIN Rank \ {"eks", "vpc", "kms"}) /\ Free(run.item)
  /\ \/ Kind[run.item] = "config" /\ cloud[run.item] = "present" /\ All({run.item}, "half")
     \/ All({run.item}, IF Kind[run.item] \in Waits THEN "deleting" ELSE "gone")
  /\ Leave(TRUE) /\ UNCHANGED <<foreign, status>>
TimesOut == "timeout" \in Faults /\ GiveUp
(* The inventory at the start or the end fails, or a barrier's: for a      *)
(* barrier the run goes on, and keeps data, state and keys.                *)
InventoryFails ==
  /\ "denied" \in Faults
  /\ \/ run.at = "idle" /\ status' = "residual" /\ UNCHANGED run
     \/ run.at = "next" /\ run.todo = {} /\ status' = "residual" /\ run' = NoRun
     \/ /\ run.at = "next"
        /\ \E r \in run.todo : First(r) /\ \E b \in Barrier(r) \ run.verified :
             run' = [run EXCEPT !.bad = TRUE, !.verified = @ \cup {b}]
        /\ UNCHANGED status
  /\ UNCHANGED <<cloud, foreign>>
(* A run that is killed has said nothing.                                  *)
Killed ==
  /\ "kill" \in Faults /\ run.at # "idle"
  /\ run' = NoRun /\ status' = "none"
  /\ UNCHANGED <<cloud, foreign>>

RunStep ==
  \/ Start \/ Finish \/ Decline \/ DeleteAtOnce \/ ScheduleKey \/ Ask \/ Waited
  \/ EksChildren \/ EksCluster \/ VpcGateways \/ VpcGatewaysGone \/ VpcNetwork
  \/ WaitInVain
  \/ \E r \in Resources : Verify(r) \/ Skip(r) \/ Take(r)
GoesWrong ==
  \/ Denied \/ DeniedInPart \/ Lost \/ TimesOut \/ InventoryFails \/ Killed
  \/ \E r \in Resources : Retains(r) \/ HandOver(r) \/ Create(r)
Next ==
  \/ RunStep /\ UNCHANGED mishaps
  \/ \E r \in Resources : Vanish(r) /\ UNCHANGED mishaps
  \/ mishaps < MaxMishaps /\ GoesWrong /\ mishaps' = mishaps + 1
Spec == Init /\ [][Next]_vars

-----------------------------------------------------------------------------
Run ==
  [at : {"idle", "next", "handle", "wait", "children", "gateways", "network"},
   item : Resources \cup {"none"}, todo : SUBSET Resources, found : SUBSET Resources,
   bad : BOOLEAN, verified : SUBSET {"backend", "kms"}, groups : SUBSET Of("group")]
(* Every variable has a value of its kind, and a resource only the states  *)
(* that its handler can bring it to.                                       *)
TypeOK ==
  /\ cloud \in [Resources -> {"present", "deleting", "half", "pending", "gone"}]
  /\ \A r \in Resources :
       /\ cloud[r] = "half" => Kind[r] = "config"
       /\ cloud[r] = "pending" => Kind[r] = "kms"
       /\ cloud[r] = "deleting" => Kind[r] \in Waits \cup {"eks", "nodegroup", "nat"}
  /\ foreign \subseteq Resources
  /\ status \in {"none", "residual", "pending", "complete"}
  /\ run \in Run /\ run.todo \subseteq run.found
  /\ mishaps \in 0..MaxMishaps

(* What an inventory can find or has to look for: what has tags of this    *)
(* deployment, and for as long as role and bucket prove whose they are, a  *)
(* schedule, and a Config recorder with its channel.  Not the security     *)
(* group of a cluster, which holds back its VPC, nor a node group in the   *)
(* cluster of somebody else.                                               *)
Visible(r) ==
  /\ r \notin foreign
  /\ Kind[r] # "group"
  /\ Kind[r] \in {"schedule", "config"} => cloud[r] = "present" /\ Proven(r)
  /\ Kind[r] = "nodegroup" => Uses[r] \cap foreign = {}

(* As long as an inventory could find anything of the deployment, its      *)
(* Terraform state and lock are there to recover its ownership, and its    *)
(* keys to read its data, however many runs fail, die or are repeated, and *)
(* whatever controllers create meanwhile (lines 1802-1828).  Not so for a  *)
(* schedule that lost its proof, or half of Config: when the schedule's    *)
(* deletion is denied, its role is deleted all the same, and the next run  *)
(* does not look for it any more.                                          *)
RecoveryStateLast ==
  \A r \in Resources : Visible(r) /\ cloud[r] # "gone" =>
    /\ Kind[r] \notin Backend \cup {"kms"} =>
         \A b \in Resources \ foreign : Kind[b] \in Backend => cloud[b] = "present"
    /\ Kind[r] # "kms" => \A k \in Of("kms") \ foreign : cloud[k] = "present"

(* A run that reports success leaves nothing that an inventory could find, *)
(* but for keys that wait for their deletion, and says so: the second      *)
(* inventory decides, not the answers to the deletions (1829-1855).        *)
SuccessIsTrue ==
  status \in {"complete", "pending"} =>
    \A r \in Resources : Visible(r) =>
      cloud[r] = "gone" \/ (status = "pending" /\ cloud[r] = "pending")

(* Repeated runs finish the deletion, unless ownership was handed over, or *)
(* an earlier run removed the evidence: the role of a Config recorder that *)
(* is still there, or the memory of a cluster whose security group is.     *)
Stranded ==
  \/ \E r \in Of("config") : cloud[r] = "present" /\ \E p \in Proof[r] : cloud[p] = "gone"
  \/ \E g \in Of("group") \ run.groups : cloud[g] # "gone" /\ \A c \in Proof[g] : cloud[c] = "gone"
Recovers == [](~Stranded /\ foreign = {}) => <>(status \in {"complete", "pending"})
Fairness == WF_vars(RunStep /\ UNCHANGED mishaps)
  /\ \A r \in Resources : WF_vars(Vanish(r) /\ UNCHANGED mishaps)
FairSpec == Spec /\ Fairness
=============================================================================
