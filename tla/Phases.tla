------------------------------- MODULE Phases -------------------------------
(***************************************************************************)
(* Phase deduction of AresJob: how the pods of a role are counted, how the *)
(* counts and the role's policy give the phase of the role, and how the    *)
(* phases of the roles and the job's policy give the phase of the job      *)
(* (reconciler/phase.go, reconciler/utils.go, api/v1/phase_policy.go).     *)
(* Everything here is a pure operator.                                     *)
(***************************************************************************)
EXTENDS Integers, FiniteSets

(* Jobs and roles have the same five phases. *)
JobPhase == {"Pending", "Starting", "Running", "Failed", "Succeeded"}
RolePhase == JobPhase

RestartPolicy == {"Never", "OnFailure", "Always", "ExitCode"}

(* A nil *RolePhaseCondition is "None". *)
RolePhaseCondition == {"None", "AnyPod", "AllPods"}

(* The fields of RoleSpec that the deduction reads. *)
RoleSpec == [restart : RestartPolicy,
             failed : RolePhaseCondition,
             succeeded : RolePhaseCondition,
             nodeDownAsFailed : BOOLEAN]

(* The phases of a pod.  A failed pod is told apart by its exit code:      *)
(* "FailedRetryable" when train.IsRetryableExitCode accepts it.            *)
PodPhase == {"Pending", "Running", "Succeeded", "Failed", "FailedRetryable", "Unknown"}
PodFailed == {"Failed", "FailedRetryable"}

-----------------------------------------------------------------------------
IsFinished(phase) == phase \in {"Failed", "Succeeded"}

IsRoleFinished(phase) == phase \in {"Failed", "Succeeded"}

IsRoleStarted(phase) == phase = "Running" \/ IsRoleFinished(phase)

-----------------------------------------------------------------------------
(* The counters of aresv1.ReplicaStatus; the first three are the ones      *)
(* of commonv1.ReplicaStatus, copied into JobStatus.ReplicaStatuses.       *)
Counter == {"active", "succeeded", "failed", "pending", "unknown", "terminating"}
SharedCounter == {"active", "succeeded", "failed"}

updateRoleReplicaStatuses(podPhase) ==
    CASE podPhase = "Pending" -> "pending"
      [] podPhase = "Running" -> "active"
      [] podPhase = "Succeeded" -> "succeeded"
      [] podPhase \in PodFailed -> "failed"
      [] podPhase = "Unknown" -> "unknown"

(* The counter that one pod increments. *)
updateReplicaStatus(spec, podPhase, terminating, nodeDown) ==
    IF terminating THEN "terminating"
    ELSE IF spec.nodeDownAsFailed /\ nodeDown THEN "failed"
    ELSE updateRoleReplicaStatuses(podPhase)

(* The counters start from zero and every pod p increments counterOf[p]. *)
UpdateRoleReplicas(counterOf) ==
    [c \in Counter |-> Cardinality({p \in DOMAIN counterOf : counterOf[p] = c})]

-----------------------------------------------------------------------------
(* Does the number n of pods meet a condition of the role's policy? *)
MeetsCondition(cond, n, replicas) ==
    \/ cond = "AnyPod" /\ n > 0
    \/ cond = "AllPods" /\ n >= replicas

(* Every replica that exists and is not being deleted. *)
ActualReplicas(count) ==
    count["active"] + count["succeeded"] + count["failed"]
        + count["unknown"] + count["pending"]

GetRolePhase(spec, replicas, count, lastPhase) ==
    IF MeetsCondition(spec.failed, count["failed"], replicas) THEN "Failed"
    ELSE IF MeetsCondition(spec.succeeded, count["succeeded"], replicas) THEN "Succeeded"
    ELSE IF count["active"] >= replicas THEN "Running"
    ELSE IF lastPhase = "Pending" THEN "Starting"
    ELSE IF /\ spec.restart = "Never"
            /\ lastPhase = "Running"
            /\ ActualReplicas(count) < replicas THEN "Failed"
    ELSE lastPhase

(* A condition of the job is a set of sets of roles: some set has all      *)
(* its roles in the phase.                                                 *)
SatisfyPolicy(conds, rolePhases, phase) ==
    \E roleNames \in conds : \A r \in roleNames : rolePhases[r] = phase

GetJobPhase(lastPhase, policy, rolePhases) ==
    IF SatisfyPolicy(policy.failed, rolePhases, "Failed") THEN "Failed"
    ELSE IF SatisfyPolicy(policy.succeeded, rolePhases, "Succeeded") THEN "Succeeded"
    ELSE IF SatisfyPolicy({DOMAIN rolePhases}, rolePhases, "Running") THEN "Running"
    ELSE IF lastPhase = "Pending" THEN "Starting"
    ELSE lastPhase

=============================================================================
