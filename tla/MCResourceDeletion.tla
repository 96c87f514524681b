------------------------- MODULE MCResourceDeletion -------------------------
(* One resource for each handler and each relation between them.           *)
EXTENDS ResourceDeletion

MCKind ==
  [project |-> "codebuild", recorder |-> "config", stop |-> "schedule",
   cluster |-> "eks", nodes |-> "nodegroup", clusterGroup |-> "group", host |-> "instance",
   claim |-> "volume", network |-> "vpc", gateway |-> "nat", address |-> "eip",
   hostProfile |-> "profile", role |-> "iam", audit |-> "s3",
   lock |-> "backend_dynamodb", state |-> "backend_s3", key |-> "kms"]
MCResources == DOMAIN MCKind
MCUses ==
  [r \in MCResources |->
     CASE r \in {"cluster", "clusterGroup", "host"} -> {"network"}
       [] r = "nodes" -> {"cluster", "claim"}
       [] r = "gateway" -> {"network", "address"}
       [] r = "hostProfile" -> {"role"}
       [] OTHER -> {}]
MCProof ==
  [r \in MCResources |->
     CASE r = "stop" -> {"role"}
       [] r = "recorder" -> {"role", "audit"}
       [] r = "clusterGroup" -> {"cluster"}
       [] OTHER -> {}]
=============================================================================
