----------------------------- MODULE JobPromise -----------------------------
(***************************************************************************)
(* What a user may rely on of the stored status of an AresJob: how the     *)
(* phases of the roles may move, and that the phase of the job is always   *)
(* the one deduced from them (reconciler/phase.go), or Failed because the  *)
(* gang was evicted (reconciler/podgroup.go) or a pod or a service was     *)
(* refused as invalid (controllers/aresjob_controller.go).  There are no   *)
(* pods, copies, caches, workers or restarts here; JobStatus implements    *)
(* this specification in spite of them.  The definition of the job is not  *)
(* edited; edits, and what is found of them, are in JobDefinition.         *)
(***************************************************************************)
EXTENDS Phases

CONSTANTS
    Roles,          \* the keys of spec.roleSpecs
    Spec4Role,      \* Spec4Role[r]: restart policy and phase policy of role r
    Policy,         \* spec.jobPhasePolicy
    Gang            \* whether the job is gang scheduled

VARIABLES
    phase,          \* status.phase
    roles           \* roles[r]: status.roleStatuses[r].phase

vars == <<phase, roles>>

Init ==
    /\ phase = "Pending"
    /\ roles = [r \in Roles |-> "Pending"]

(* The moves of a role: it starts, runs (again), fails under its failed    *)
(* condition or because a pod that is never restarted got lost, succeeds   *)
(* under its succeeded condition.  No move leads back before Running.      *)
MayMove(r, from, to) ==
    \/ to = from
    \/ to = "Starting" /\ from = "Pending"
    \/ to = "Running"
    \/ to = "Failed" /\ \/ Spec4Role[r].failed # "None"
                        \/ Spec4Role[r].restart = "Never" /\ from = "Running"
    \/ to = "Succeeded" /\ Spec4Role[r].succeeded # "None"

(* Roles of an unfinished job move, and the phase of the job follows. *)
Deduce ==
    /\ ~IsFinished(phase)
    /\ roles' \in [Roles -> RolePhase]
    /\ \A r \in Roles : MayMove(r, roles[r], roles'[r])
    /\ phase' = GetJobPhase(phase, Policy, roles')

(* The gang is evicted; the phases of the roles are left as they were. *)
Evict ==
    /\ Gang /\ phase' = "Failed"
    /\ UNCHANGED roles

(* The API server refuses a pod or a service of an unfinished job as       *)
(* invalid; the roles that were reconciled before it have moved.           *)
Invalidate ==
    /\ ~IsFinished(phase)
    /\ roles' \in [Roles -> RolePhase]
    /\ \A r \in Roles : MayMove(r, roles[r], roles'[r])
    /\ phase' = "Failed"

Next == Deduce \/ Evict \/ Invalidate

Spec == Init /\ [][Next]_vars
=============================================================================
