--------------------------- MODULE MCPodReconcile ---------------------------
(* Small instances of PodReconcile for TLC. *)
EXTENDS PodReconcile

OneRole == {"worker"}
TwoRoles == {"ps", "worker"}

OnFailure == [r \in Roles |-> "OnFailure"]
ExitCode == [r \in Roles |-> "ExitCode"]
Mixed == [r \in Roles |-> IF r = "ps" THEN "Never" ELSE "OnFailure"]

OneReplica == [r \in Roles |-> 1]
TwoReplicas == [r \in Roles |-> 2]
ThreeReplicas == [r \in Roles |-> 3]
=============================================================================
