---------------------------- MODULE MCJobStatus ----------------------------
(* Small instances of JobStatus for TLC. *)
EXTENDS JobStatus

OneRole == {"worker"}
TwoRoles == {"ps", "worker"}

OneReplica == [r \in Roles |-> 1]
TwoWorkers == [r \in Roles |-> IF r = "worker" THEN 2 ELSE 1]

RoleWith(restart, failed, succeeded, nodeDown) ==
    [restart |-> restart, failed |-> failed, succeeded |-> succeeded,
     nodeDownAsFailed |-> nodeDown]

(* A parameter server that never restarts and workers that do. *)
PsWorker == [r \in Roles |-> IF r = "ps" THEN RoleWith("Never", "AnyPod", "None", TRUE)
                             ELSE RoleWith("OnFailure", "None", "AllPods", FALSE)]
(* A pair of roles that never restart. *)
Static == [r \in Roles |-> IF r = "ps" THEN RoleWith("Never", "AnyPod", "AllPods", TRUE)
                           ELSE RoleWith("Never", "AllPods", "AnyPod", FALSE)]

(* The job fails with any role and succeeds with the workers. *)
WorkersDecide == [failed |-> {{r} : r \in Roles}, succeeded |-> {{"worker"}}]
AllDecide == [failed |-> {{r} : r \in Roles}, succeeded |-> {Roles}]

NoDependence == [r \in Roles |-> {}]
WorkerWaits == [r \in Roles |-> IF r = "worker" THEN {"ps"} ELSE {}]
=============================================================================
