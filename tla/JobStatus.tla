----------------------------- MODULE JobStatus -----------------------------
(***************************************************************************)
(* The status of one AresJob: how Reconcile deduces the phases of the      *)
(* roles and of the job from the pods it lists, writes them through a      *)
(* cached copy of the job, follows the job's PodGroup, publishes the role  *)
(* phases to the role cache and has a finished job cleaned up              *)
(* (controllers/aresjob_controller.go, controllers/job.go,                 *)
(* reconciler/phase.go, reconciler/job.go, reconciler/podgroup.go).        *)
(*                                                                         *)
(* The pods are those the informer's cache shows.  PodReconcile shows that *)
(* an index has one live pod and that Reconcile waits for the pods it      *)
(* creates and deletes to be reported; here both are taken as given, so an *)
(* index is a slot, and the number of replicas is fixed.                   *)
(***************************************************************************)
EXTENDS Phases

CONSTANTS
    Roles,          \* the keys of spec.roleSpecs
    Replicas,       \* Replicas[r]: spec.roleSpecs[r].replicas
    Spec4Role,      \* Spec4Role[r]: restart policy and phase policy of role r
    Policy,         \* spec.jobPhasePolicy: [failed, succeeded], sets of sets of roles
    Dependence,     \* Dependence[r]: the roles that the pods of role r wait for
    Gang,           \* whether the job is gang scheduled, that is has a PodGroup
    Refusable,      \* roles whose pods or services the API server may refuse as invalid
    MaxDisturb,     \* bound: pods that fail, are lost, preempted or deleted by others
    MaxFault,       \* bound: failed calls to the API server, updates by others
    MaxRestart      \* bound: restarts of the operator process

(* One slot for every index of a role. *)
SlotsOf(r) == {r} \X (0 .. (Replicas[r] - 1))
Slot == UNION {SlotsOf(r) : r \in Roles}

ASSUME StatusRoles == IsFiniteSet(Roles) /\ Roles # {}
ASSUME StatusSpec ==
    /\ Replicas \in [Roles -> Nat \ {0}]
    /\ Spec4Role \in [Roles -> RoleSpec]
    /\ Policy \in [failed : SUBSET SUBSET Roles, succeeded : SUBSET SUBSET Roles]
    /\ Dependence \in [Roles -> SUBSET Roles]
    /\ Gang \in BOOLEAN /\ Refusable \subseteq Roles
ASSUME StatusBounds == MaxDisturb \in Nat /\ MaxFault \in Nat /\ MaxRestart \in Nat

VARIABLES
    pods,           \* pods[p]: the pod of slot p, see PodState
    podGroup,       \* the PodGroup, see PodGroupState
    job,            \* the status of the AresJob in the API server
    vjob, fresh,    \* its copy in the informer's cache; that copy is the latest version
    queued,         \* the job's key is in the work queue
    pc,             \* where the reconcile worker is
    old,            \* the job as the worker read it
    snap,           \* the worker's own copy, which it changes
    snapFresh,      \* the copy has the latest resourceVersion
    cache,          \* the role cache
    cleanup,        \* the job's key is in the CleanUpQueue
    disturbs, faults, restarts

jobCache == <<vjob, fresh>>
worker == <<pc, old, snap, snapFresh>>
outside == <<cache, cleanup>>
bounds == <<disturbs, faults, restarts>>
vars == <<pods, podGroup, job, jobCache, queued, worker, outside, bounds>>

(* "Created" and "Replaced": created or deleted by Reconcile, and not yet  *)
(* reported so.  "Lost": running on a node that is down and that the       *)
(* NodeManager has marked so; "Unmarked": the mark was forgotten.          *)
(* "Preempted": running, its condition PodReady is false because of a      *)
(* preemption.                                                             *)
PodState == {"Absent", "Created", "Pending", "Running", "Lost", "Unmarked", "Succeeded", "Failed",
             "Preempted", "Terminating", "Replaced"}

(* "Scheduled" and "Evicted" are conditions of a PodGroup that has left    *)
(* the phase Pending.                                                      *)
PodGroupState == {"None", "Pending", "Inqueue", "Scheduled", "Evicted"}

(* The reasons of the condition Failed that are told apart; "None" stands *)
(* for none and for any other.                                             *)
FailedReason == {"None", "Preempted", "InvalidDefinition"}

Count == [SharedCounter -> Nat]
Status == [phase : JobPhase, roles : [Roles -> RolePhase], count : [Roles -> Count],
           scheduled : BOOLEAN, reason : FailedReason]

TypeOK ==
    /\ pods \in [Slot -> PodState] /\ podGroup \in PodGroupState
    /\ job \in Status /\ vjob \in Status /\ old \in Status /\ snap \in Status
    /\ fresh \in BOOLEAN /\ snapFresh \in BOOLEAN /\ queued \in BOOLEAN /\ cleanup \in BOOLEAN
    /\ pc \in {"idle", "podgroup", "jobs", "write", "sync", "handle"}
    /\ cache \in [Roles -> RolePhase \union {"None"}]
    /\ disturbs \in 0 .. MaxDisturb /\ faults \in 0 .. MaxFault /\ restarts \in 0 .. MaxRestart

-----------------------------------------------------------------------------
(* A job without status: its phase and those of its roles are Pending. *)
NewStatus == [phase |-> "Pending", roles |-> [r \in Roles |-> "Pending"],
              count |-> [r \in Roles |-> [c \in SharedCounter |-> 0]],
              scheduled |-> FALSE, reason |-> "None"]

(* status.Evicted(): phase Failed, and the condition Failed has the reason *)
(* Preempted.                                                              *)
Evicted(status) == status.phase = "Failed" /\ status.reason = "Preempted"

IsInvalidDefinition(status) == status.reason = "InvalidDefinition"

Init ==
    /\ pods = [p \in Slot |-> "Absent"] /\ podGroup = "None"
    /\ job = NewStatus /\ vjob = NewStatus /\ fresh = TRUE /\ queued = TRUE
    /\ pc = "idle" /\ old = NewStatus /\ snap = NewStatus /\ snapFresh = TRUE
    /\ cache = [r \in Roles |-> "None"] /\ cleanup = FALSE
    /\ disturbs = 0 /\ faults = 0 /\ restarts = 0

-----------------------------------------------------------------------------
(* The cluster.  Every change of a pod is an event that enqueues the job.  *)

Becomes(p, from, to) ==
    /\ pods[p] \in from /\ pods' = [pods EXCEPT ![p] = to]
    /\ queued' = TRUE
    /\ UNCHANGED <<podGroup, job, jobCache, worker, outside, faults, restarts>>

PodAppears(p) == Becomes(p, {"Created"}, "Pending") /\ UNCHANGED disturbs

(* The init container of a pod waits until the observer reports, from the  *)
(* job's status, that the roles it depends on are running; a gang is       *)
(* started when its PodGroup is scheduled.                                 *)
PodStarts(p) ==
    /\ \A d \in Dependence[p[1]] : job.roles[d] = "Running"
    /\ Gang => podGroup \in {"Scheduled", "Evicted"}
    /\ Becomes(p, {"Pending"}, "Running") /\ UNCHANGED disturbs

PodSucceeds(p) ==
    /\ Spec4Role[p[1]].succeeded # "None"
    /\ Becomes(p, {"Running"}, "Succeeded") /\ UNCHANGED disturbs

PodVanishes(p) ==
    Becomes(p, {"Terminating", "Replaced"}, "Absent") /\ UNCHANGED disturbs

(* The container fails, the node goes down, someone deletes the pod. *)
PodDisturbed(p) ==
    /\ disturbs < MaxDisturb /\ disturbs' = disturbs + 1
    /\ \/ Becomes(p, {"Running"}, "Failed")
       \/ Becomes(p, {"Running"}, "Lost")
       \/ Becomes(p, {"Pending", "Running", "Succeeded", "Failed", "Lost", "Unmarked"},
                  "Terminating")

(* UpdateObject drops the update of a pod that could not be scheduled. *)
UnschedulablePodDeleted(p) ==
    /\ disturbs < MaxDisturb /\ disturbs' = disturbs + 1
    /\ pods[p] = "Pending" /\ pods' = [pods EXCEPT ![p] = "Terminating"]
    /\ UNCHANGED <<podGroup, job, jobCache, queued, worker, outside, faults, restarts>>

(* Mutant: the jobs of its pods are not enqueued. *)
NodeMarkedOnly(p) ==
    /\ pods[p] = "Unmarked" /\ pods' = [pods EXCEPT ![p] = "Lost"]
    /\ UNCHANGED <<podGroup, job, jobCache, queued, worker, outside, bounds>>

(* An update of a node that is down marks it again, and the jobs of its    *)
(* pods are enqueued.                                                      *)
NodeReported(p) == Becomes(p, {"Unmarked"}, "Lost") /\ UNCHANGED disturbs

(* The node is up again: its mark is removed and nothing is enqueued. *)
NodeRecovers(p) ==
    /\ pods[p] \in {"Lost", "Unmarked"} /\ pods' = [pods EXCEPT ![p] = "Running"]
    /\ UNCHANGED <<podGroup, job, jobCache, queued, worker, outside, bounds>>

(* The scheduler marks a pod as preempted, and later deletes it. *)
PodPreempted(p) ==
    /\ Gang /\ podGroup \in {"Scheduled", "Evicted"}
    /\ disturbs < MaxDisturb /\ disturbs' = disturbs + 1
    /\ Becomes(p, {"Running"}, "Preempted")

PreemptedPodVanishes(p) == Becomes(p, {"Preempted"}, "Absent") /\ UNCHANGED disturbs

(* The PodGroup is let into the queue, and scheduled when all the pods of  *)
(* the gang are there.  UpdateObject drops the update of a PodGroup whose  *)
(* only condition says that it cannot be scheduled.                        *)
PodGroupMoves ==
    /\ \/ podGroup = "Pending" /\ podGroup' = "Inqueue" /\ queued' \in {queued, TRUE}
       \/ /\ podGroup = "Inqueue" /\ \A p \in Slot : pods[p] \in {"Created", "Pending"}
          /\ podGroup' = "Scheduled" /\ queued' = TRUE
    /\ UNCHANGED <<pods, job, jobCache, worker, outside, bounds>>

PodGroupEvicted ==
    /\ podGroup = "Scheduled" /\ podGroup' = "Evicted"
    /\ disturbs < MaxDisturb /\ disturbs' = disturbs + 1
    /\ queued' = TRUE
    /\ UNCHANGED <<pods, job, jobCache, worker, outside, faults, restarts>>

(* Someone else updates the spec or the metadata of the job: a new version *)
(* with the same status.                                                   *)
TouchJob ==
    /\ faults < MaxFault /\ faults' = faults + 1
    /\ fresh' = FALSE /\ snapFresh' = (snapFresh /\ pc = "idle")
    /\ UNCHANGED <<pods, podGroup, job, vjob, queued, pc, old, snap, outside, disturbs, restarts>>

DeliverJob ==
    /\ ~fresh /\ fresh' = TRUE /\ vjob' = job /\ queued' = TRUE
    /\ UNCHANGED <<pods, podGroup, job, worker, outside, bounds>>

-----------------------------------------------------------------------------
(* The reconcile worker. *)

Return == pc' = "idle" /\ old' = NewStatus /\ snap' = NewStatus /\ snapFresh' = TRUE
Requeue == Return /\ queued' = TRUE

(* A new process: queues, role cache, expectations and marks of nodes are  *)
(* empty, and the informers know every object.  The create event of a node *)
(* says nothing of its condition.                                          *)
Restart ==
    /\ restarts < MaxRestart /\ restarts' = restarts + 1
    /\ pods' = [p \in Slot |-> CASE pods[p] = "Created" -> "Pending"
                                 [] pods[p] = "Replaced" -> "Terminating"
                                 [] pods[p] = "Lost" -> "Unmarked"
                                 [] OTHER -> pods[p]]
    /\ vjob' = job /\ fresh' = TRUE /\ queued' = TRUE
    /\ Return
    /\ cache' = [r \in Roles |-> "None"] /\ cleanup' = FALSE
    /\ UNCHANGED <<podGroup, job, disturbs, faults>>

SatisfiedExpectations == \A p \in Slot : pods[p] \notin {"Created", "Replaced"}

(* The reconcile of a job whose definition was refused ends at once. *)
Reconcile ==
    /\ pc = "idle" /\ queued /\ queued' = FALSE
    /\ IF ~IsInvalidDefinition(vjob) /\ SatisfiedExpectations
       THEN pc' = "podgroup" /\ old' = vjob /\ snap' = vjob /\ snapFresh' = fresh
       ELSE UNCHANGED worker
    /\ UNCHANGED <<pods, podGroup, job, jobCache, outside, bounds>>

(* Mutant: the write overwrites whatever version is stored. *)
OverwriteStatus(status) ==
    /\ job' = status /\ fresh' = (fresh /\ status = job)
    /\ UNCHANGED vjob

(* Status().Update: accepted if the copy has the latest resourceVersion.   *)
(* An update that changes nothing makes no new version.                    *)
StatusWrite(status) ==
    /\ snapFresh
    /\ job' = status /\ fresh' = (fresh /\ status = job)
    /\ UNCHANGED vjob

IsPodPreempted(p) == pods[p] = "Preempted"

(* The library leaves the conditions of a failed job alone: it gets no     *)
(* condition Scheduled, and the reason of its failure stays.               *)
setScheduledCondition(status) ==
    [status EXCEPT !.scheduled = @ \/ status.phase # "Failed"]

FailFor(status, reason) ==
    [status EXCEPT !.reason = IF status.phase = "Failed" THEN @ ELSE reason,
                   !.phase = "Failed"]

setEvictedCondition(status) == FailFor(status, "Preempted")
SetInvalidDefinition(status) == FailFor(status, "InvalidDefinition")

HasPodGroup == Gang /\ podGroup # "None"

(* Mutant: the PodGroup is asked only after a pod was preempted. *)
MustMarkPreempted ==
    ~Evicted(snap) /\ podGroup = "Evicted" /\ \E p \in Slot : IsPodPreempted(p)

(* updateScheduledByPodGroup *)
MustMarkScheduled == ~snap.scheduled /\ podGroup \in {"Scheduled", "Evicted"}
MustMarkEvicted == ~MustMarkScheduled /\ ~Evicted(snap) /\ podGroup = "Evicted"

(* SyncFromPodGroup writes a condition and the reconcile ends (Break), in  *)
(* every reconcile if the job had failed before and so gets no condition,  *)
(* ...                                                                     *)
PodGroupBreaks ==
    /\ pc = "podgroup" /\ HasPodGroup
    /\ \/ MustMarkScheduled /\ StatusWrite(setScheduledCondition(snap))
       \/ MustMarkEvicted /\ StatusWrite(setEvictedCondition(snap))
    /\ Return
    /\ UNCHANGED <<pods, podGroup, queued, outside, bounds>>

(* ... or the write is refused or fails ... *)
PodGroupWriteFails ==
    /\ pc = "podgroup" /\ HasPodGroup /\ (MustMarkScheduled \/ MustMarkEvicted)
    /\ \/ ~snapFresh /\ UNCHANGED faults
       \/ faults < MaxFault /\ faults' = faults + 1
    /\ Requeue
    /\ UNCHANGED <<pods, podGroup, job, jobCache, outside, disturbs, restarts>>

(* ... or the job is or may be evicted and its pods are left alone (Skip), *)
(* or it is reconciled (Continue).                                         *)
SyncFromPodGroup ==
    /\ pc = "podgroup"
    /\ HasPodGroup => ~MustMarkScheduled /\ ~MustMarkEvicted
    /\ pc' = IF HasPodGroup /\ (Evicted(snap) \/ \E p \in Slot : IsPodPreempted(p))
             THEN "sync" ELSE "jobs"
    /\ UNCHANGED <<pods, podGroup, job, jobCache, queued, old, snap, snapFresh, outside, bounds>>

-----------------------------------------------------------------------------
(* ReconcileJobs *)

(* Mutant: a job that waits for its gang waits for an event. *)
WaitForEvent ==
    /\ pc = "jobs" /\ Gang /\ ~IsFinished(snap.phase)
    /\ podGroup \in {"None", "Pending"} /\ podGroup' = "Pending"
    /\ Return
    /\ UNCHANGED <<pods, queued, job, jobCache, outside, bounds>>

(* A job that waits for its gang is tried again after a second. *)
WaitForPodGroup ==
    /\ pc = "jobs" /\ Gang /\ ~IsFinished(snap.phase)
    /\ podGroup \in {"None", "Pending"} /\ podGroup' = "Pending"
    /\ Requeue
    /\ UNCHANGED <<pods, job, jobCache, outside, bounds>>

(* The library leaves the pods of a finished job alone and counts the pods *)
(* that still run as succeeded if the job has.                             *)
FinishedCount(status) ==
    IF status.phase # "Succeeded" THEN status.count
    ELSE [r \in Roles |-> [active |-> 0, failed |-> status.count[r]["failed"],
                           succeeded |-> status.count[r]["succeeded"] + status.count[r]["active"]]]

LeaveFinishedJob ==
    /\ pc = "jobs" /\ IsFinished(snap.phase)
    /\ snap' = [snap EXCEPT !.count = FinishedCount(snap)]
    /\ pc' = "write"
    /\ UNCHANGED <<pods, podGroup, job, jobCache, queued, old, snapFresh, outside, bounds>>

Never(r) == Spec4Role[r].restart = "Never"

(* ReconcilePods creates a pod for an index without one.  A pod that is    *)
(* being deleted fills its index only if the role never restarts.          *)
MustCreate(p) ==
    /\ pods[p] = "Absent" \/ (pods[p] = "Terminating" /\ ~Never(p[1]))
    /\ ~(Never(p[1]) /\ IsRoleStarted(snap.roles[p[1]]))

MustReplace(p) ==
    pods[p] = "Failed" /\ Spec4Role[p[1]].restart \in {"Always", "OnFailure"}

Replaced(p) == IF MustCreate(p) THEN "Created" ELSE IF MustReplace(p) THEN "Replaced" ELSE pods[p]

(* The counter of the pod of a slot. *)
CounterOf(p) ==
    updateReplicaStatus(Spec4Role[p[1]],
        CASE pods[p] = "Pending" -> "Pending" [] pods[p] = "Succeeded" -> "Succeeded"
          [] pods[p] = "Failed" -> "Failed" [] OTHER -> "Running",
        pods[p] = "Terminating", pods[p] = "Lost")

(* validatedPods: the pods that are neither created nor restarted now. *)
ValidatedPods(r) ==
    {p \in SlotsOf(r) : pods[p] # "Absent" /\ ~MustCreate(p) /\ ~MustReplace(p)}

Counters(r) == [p \in ValidatedPods(r) |-> CounterOf(p)]

(* The phase of a role is deduced only when its pods are complete. *)
UpdateRolePhase(r, count) ==
    IF \E p \in SlotsOf(r) : MustCreate(p) \/ MustReplace(p) THEN snap.roles[r]
    ELSE GetRolePhase(Spec4Role[r], Replicas[r], count, snap.roles[r])

(* Mutant: all the counters are copied into the shared status. *)
CopyAllCounters ==
    [snap EXCEPT !.count = [r \in Roles |-> UpdateRoleReplicas(Counters(r))]]

(* Mutant: the phase of the job is deduced before those of the roles. *)
PhaseBeforeRoles ==
    LET counts == [r \in Roles |-> UpdateRoleReplicas(Counters(r))]
    IN  [snap EXCEPT !.roles = [r \in Roles |-> UpdateRolePhase(r, counts[r])],
                     !.count = [r \in Roles |-> [c \in SharedCounter |-> counts[r][c]]],
                     !.phase = GetJobPhase(snap.phase, Policy, snap.roles)]

(* ReconcilePods for every role, then UpdatePhases. *)
UpdatePhases ==
    LET counts == [r \in Roles |-> UpdateRoleReplicas(Counters(r))]
        phases == [r \in Roles |-> UpdateRolePhase(r, counts[r])]
    IN  [snap EXCEPT !.roles = phases,
                     !.count = [r \in Roles |-> [c \in SharedCounter |-> counts[r][c]]],
                     !.phase = GetJobPhase(snap.phase, Policy, phases)]

(* Mutant: a finished job is reconciled like any other. *)
ReconcileFinishedJobs == pc = "jobs" /\ (Gang => podGroup \notin {"None", "Pending"})

MayReconcileJobs ==
    /\ pc = "jobs" /\ ~IsFinished(snap.phase)
    /\ Gang => podGroup \notin {"None", "Pending"}

ReconcileJobs ==
    /\ MayReconcileJobs
    /\ pods' = [p \in Slot |-> Replaced(p)]
    /\ snap' = UpdatePhases /\ pc' = "write"
    /\ UNCHANGED <<podGroup, job, jobCache, queued, old, snapFresh, outside, bounds>>

(* The roles are reconciled one after the other, in any order.  The pods   *)
(* and the status when the roles done are, and the slots before p.         *)
PodsUntil(done, p) ==
    [q \in Slot |-> IF q[1] \in done \/ (q[1] = p[1] /\ q[2] < p[2])
                     THEN Replaced(q) ELSE pods[q]]

StatusUntil(done) ==
    [snap EXCEPT !.roles = [r \in Roles |-> IF r \in done THEN UpdatePhases.roles[r] ELSE @[r]],
                 !.count = [r \in Roles |-> IF r \in done THEN UpdatePhases.count[r] ELSE @[r]]]

(* The pod of slot p cannot be created or deleted, or a service of its     *)
(* role, whose pods are done, cannot.                                      *)
ReconcileJobsFails ==
    /\ MayReconcileJobs /\ faults < MaxFault /\ faults' = faults + 1
    /\ \E done \in SUBSET Roles, p \in Slot :
          /\ p[1] \in done \/ MustCreate(p) \/ MustReplace(p)
          /\ pods' = PodsUntil(done, p)
    /\ Requeue
    /\ UNCHANGED <<podGroup, job, jobCache, outside, disturbs, restarts>>

(* The pod of slot p, or a service of its role, is refused as invalid: the *)
(* job is stored as failed for that reason.  The reconcile is not tried    *)
(* again, not even if the status could not be stored.                      *)
ReconcileJobsRefused ==
    /\ MayReconcileJobs
    /\ \E done \in SUBSET Roles, p \in Slot :
          /\ p[1] \in Refusable /\ (p[1] \in done \/ MustCreate(p))
          /\ pods' = PodsUntil(done, p)
          /\ \/ StatusWrite(SetInvalidDefinition(StatusUntil(done))) /\ UNCHANGED faults
             \/ ~snapFresh /\ UNCHANGED <<job, jobCache, faults>>
             \/ /\ faults < MaxFault /\ faults' = faults + 1
                /\ UNCHANGED <<job, jobCache>>
    /\ Return
    /\ UNCHANGED <<podGroup, queued, outside, disturbs, restarts>>

(* The library compares JobStatus only: conditions and counters, and not   *)
(* the phases of the roles.                                                *)
JobStatusChanged == <<snap.phase, snap.count>> # <<old.phase, old.count>>

(* Mutant: Reconcile goes on after a refused write. *)
IgnoreConflict ==
    /\ pc = "write" /\ pc' = "sync"
    /\ IF JobStatusChanged /\ snapFresh THEN StatusWrite(snap) ELSE UNCHANGED <<job, jobCache>>
    /\ UNCHANGED <<pods, podGroup, queued, old, snap, snapFresh, outside, bounds>>

UpdateJobStatusInApiServer ==
    /\ pc = "write" /\ pc' = "sync"
    /\ IF JobStatusChanged THEN StatusWrite(snap) ELSE UNCHANGED <<job, jobCache>>
    /\ UNCHANGED <<pods, podGroup, queued, old, snap, snapFresh, outside, bounds>>

UpdateJobStatusFails ==
    /\ pc = "write" /\ JobStatusChanged
    /\ \/ ~snapFresh /\ UNCHANGED faults
       \/ faults < MaxFault /\ faults' = faults + 1
    /\ Requeue
    /\ UNCHANGED <<pods, podGroup, job, jobCache, outside, disturbs, restarts>>

-----------------------------------------------------------------------------
(* SyncFromJob patches the metadata of the PodGroup and of the pods. *)
SyncFromJob ==
    /\ pc = "sync" /\ pc' = "handle"
    /\ UNCHANGED <<pods, podGroup, job, jobCache, queued, old, snap, snapFresh, outside, bounds>>

SyncFromJobFails ==
    /\ pc = "sync" /\ faults < MaxFault /\ faults' = faults + 1
    /\ Requeue
    /\ UNCHANGED <<pods, podGroup, job, jobCache, outside, disturbs, restarts>>

HasDependence == \E r \in Roles : Dependence[r] # {}

(* Mutant: only a change is published. *)
PublishChangesOnly(r) == HasDependence /\ old.roles[r] # snap.roles[r]

OnRolePhaseChanged(r) ==
    HasDependence /\ (old.roles[r] # snap.roles[r] \/ snap.roles[r] = "Running")

(* Mutant: the job is queued for cleanup only when its phase has changed. *)
CleanUpOnChangeOnly ==
    /\ pc = "handle"
    /\ cache' = [r \in Roles |-> IF OnRolePhaseChanged(r) THEN snap.roles[r] ELSE cache[r]]
    /\ cleanup' = (cleanup \/ (IsFinished(snap.phase) /\ ~IsFinished(old.phase)))
    /\ Return
    /\ UNCHANGED <<pods, podGroup, job, jobCache, queued, bounds>>

(* HandleRolePhases publishes the roles whose phase has changed, and every *)
(* running one; OnJobFinished puts a finished job into the CleanUpQueue.   *)
HandleRolePhases ==
    /\ pc = "handle"
    /\ cache' = [r \in Roles |-> IF OnRolePhaseChanged(r) THEN snap.roles[r] ELSE cache[r]]
    /\ cleanup' = (cleanup \/ IsFinished(snap.phase))
    /\ Return
    /\ UNCHANGED <<pods, podGroup, job, jobCache, queued, bounds>>

(* A role to be published cannot be, after some of the others were: the    *)
(* reconcile is tried again and does not get to OnJobFinished.             *)
HandleRolePhasesFails ==
    /\ pc = "handle" /\ faults < MaxFault /\ faults' = faults + 1
    /\ \E done \in SUBSET {r \in Roles : OnRolePhaseChanged(r)} :
          /\ \E r \in Roles \ done : OnRolePhaseChanged(r)
          /\ cache' = [r \in Roles |-> IF r \in done THEN snap.roles[r] ELSE cache[r]]
    /\ Requeue
    /\ UNCHANGED <<pods, podGroup, job, jobCache, cleanup, disturbs, restarts>>

(* CleanUpResources deletes the pods that the cache shows and the PodGroup *)
(* of whatever job has the name, ...                                       *)
Deleted(p) ==
    IF pods[p] \in {"Absent", "Created", "Replaced", "Preempted"} THEN pods[p] ELSE "Terminating"

cleanupNextItem ==
    /\ cleanup /\ cleanup' = FALSE
    /\ pods' = [p \in Slot |-> Deleted(p)]
    /\ podGroup' = "None"
    /\ queued' = (queued \/ <<pods', podGroup'>> # <<pods, podGroup>>)
    /\ UNCHANGED <<job, jobCache, worker, cache, bounds>>

(* ... stops at the first call that fails and is tried again. *)
CleanUpFails ==
    /\ cleanup /\ faults < MaxFault /\ faults' = faults + 1
    /\ \E done \in SUBSET Slot :
          pods' = [p \in Slot |-> IF p \in done THEN Deleted(p) ELSE pods[p]]
    /\ queued' = (queued \/ pods' # pods)
    /\ UNCHANGED <<podGroup, job, jobCache, worker, outside, disturbs, restarts>>

-----------------------------------------------------------------------------
(* The informers' periodic resync. *)
Resync ==
    /\ ~queued /\ queued' = TRUE
    /\ UNCHANGED <<pods, podGroup, job, jobCache, worker, outside, bounds>>

Worker ==
    \/ Reconcile
    \/ PodGroupBreaks \/ PodGroupWriteFails \/ SyncFromPodGroup
    \/ WaitForPodGroup \/ LeaveFinishedJob
    \/ ReconcileJobs \/ ReconcileJobsFails \/ ReconcileJobsRefused
    \/ UpdateJobStatusInApiServer \/ UpdateJobStatusFails
    \/ SyncFromJob \/ SyncFromJobFails \/ HandleRolePhases \/ HandleRolePhasesFails

CleanUp == cleanupNextItem \/ CleanUpFails

Cluster ==
    \/ \E p \in Slot :
          \/ PodAppears(p) \/ PodStarts(p) \/ PodSucceeds(p) \/ PodVanishes(p)
          \/ PodDisturbed(p) \/ UnschedulablePodDeleted(p)
          \/ NodeReported(p) \/ NodeRecovers(p) \/ PodPreempted(p) \/ PreemptedPodVanishes(p)
    \/ PodGroupMoves \/ PodGroupEvicted \/ TouchJob

Next == Cluster \/ DeliverJob \/ Resync \/ Worker \/ CleanUp \/ Restart

Spec == Init /\ [][Next]_vars

(* Fairness.  Workers run to their end, informers deliver, delayed items   *)
(* come due; pods that can start do, grace periods end, and the scheduler  *)
(* gets to the gang.  No pod need ever succeed, no node come back, and no  *)
(* periodic resync is relied on.                                           *)
Fairness ==
    /\ WF_vars(Worker) /\ WF_vars(DeliverJob) /\ WF_vars(CleanUp) /\ WF_vars(PodGroupMoves)
    /\ \A p \in Slot : /\ WF_vars(PodAppears(p)) /\ WF_vars(PodStarts(p))
                        /\ WF_vars(PodVanishes(p)) /\ WF_vars(PreemptedPodVanishes(p))

FairSpec == Spec /\ Fairness

(* Nodes are reported again, by the resync at the latest. *)
NodeFairness == \A p \in Slot : WF_vars(NodeReported(p))

-----------------------------------------------------------------------------
(* Properties *)

(* No phase of a status is back before Running in another one. *)
NotBack(from, to) ==
    /\ \A r \in Roles : IsRoleStarted(from.roles[r]) => IsRoleStarted(to.roles[r])
    /\ IsRoleStarted(from.phase) => IsRoleStarted(to.phase)

(* The stored status never goes back: a role or a job that was running or  *)
(* finished is never Pending or Starting again, although every status is   *)
(* computed from a copy that may be old.  For a role that never restarts   *)
(* this is what keeps ReconcilePods from creating its pods a second time.  *)
StatusNeverGoesBack == [][NotBack(job, job')]_vars

(* The stored status moves as JobPromise says: a role only along the moves *)
(* its policy allows, the job to the phase deduced from exactly the roles  *)
(* stored with it, or to Failed because a pod or a service was refused as  *)
(* invalid, and not at all once it is finished, but for the eviction of    *)
(* its gang.                                                               *)
Promise == INSTANCE JobPromise WITH phase <- job.phase, roles <- job.roles
ImplementsPromise == Promise!Spec

(* What the worker is about to write comes from the latest version or will *)
(* be refused, and nothing it does to its copy takes a phase back.         *)
CopyIsLatest ==
    /\ fresh => vjob = job
    /\ pc \in {"podgroup", "jobs", "write"} /\ snapFresh => old = job
    /\ pc \in {"podgroup", "jobs"} => snap = old
    /\ pc # "idle" => NotBack(old, snap)

(* A finished job keeps its phase; only the eviction of its PodGroup makes *)
(* a succeeded job fail.  This is for a definition that is not edited:     *)
(* JobDefinition has the edits, and one that is found invalid makes any    *)
(* job fail.                                                               *)
FinishedIsFinal ==
    [][IsFinished(job.phase) =>
         \/ job.phase' = job.phase
         \/ job.phase' = "Failed" /\ podGroup = "Evicted"]_vars

(* HandleRolePhases tells the role cache that a role runs only after that  *)
(* was stored in the job's status, from which the observer answers.        *)
PublishedIsStored ==
    \A r \in Roles : cache[r] = "Running" => IsRoleStarted(job.roles[r])

(* The worker changes nothing in a status, or deduces it as JobPromise     *)
(* says.                                                                   *)
Deduced(from, to) ==
    \/ to.roles = from.roles /\ to.phase = from.phase
    \/ /\ ~IsFinished(from.phase)
       /\ \A r \in Roles : Promise!MayMove(r, from.roles[r], to.roles[r])
       /\ to.phase = GetJobPhase(from.phase, Policy, to.roles)

(* A role all of whose replicas are counted as active has started. *)
CountedIsStarted(status) ==
    \A r \in Roles :
        status.count[r]["active"] >= Replicas[r] => IsRoleStarted(status.roles[r])

(* A role begins to run only when all its replicas are counted as active. *)
RunningIsCounted(from, to) ==
    \A r \in Roles :
        to.roles[r] = "Running" /\ ~IsRoleStarted(from.roles[r])
            => to.count[r]["active"] >= Replicas[r]

(* Every copy of the status is behind the stored one.  The library writes  *)
(* the status only if counters or the phase of the job have changed, and   *)
(* not because the phase of a role has; that no Running is published which *)
(* was not stored rests on the counters: a role that begins to run changes *)
(* them.                                                                   *)
CopiesAreBehind ==
    /\ NotBack(vjob, job)
    /\ pc # "idle" => NotBack(old, job)
    /\ \A status \in {job, vjob, old, snap} : CountedIsStarted(status)
    /\ pc = "write" => Deduced(old, snap) /\ RunningIsCounted(old, snap)
    /\ pc \in {"sync", "handle"} =>
          \A r \in Roles : snap.roles[r] = "Running" => IsRoleStarted(job.roles[r])

(* The inductive invariant behind the properties of the stored status: the *)
(* worker writes, and publishes, from copies that may be old, and what is  *)
(* stored and published is right nevertheless.                             *)
StatusInv == TypeOK /\ CopyIsLatest /\ CopiesAreBehind /\ PublishedIsStored

(* The start of a job completes: roles that wait for others, the gang, the *)
(* expectations and refused writes do not wait for each other for ever.    *)
EventuallyRunning == <>[](IsRoleStarted(job.phase))

(* A role of an unfinished job that stays running is published for good,   *)
(* even if SyncFromJob failed or the process stopped after the phase was   *)
(* stored.                                                                 *)
RunningIsPublished ==
    \A r \in Roles :
        <>[](job.roles[r] = "Running" /\ ~IsFinished(job.phase)) => <>[](cache[r] = "Running")

(* Every other phase of a role is published when it is reached, too.       *)
FinishedRoleIsPublished ==
    \A r \in Roles : <>[](IsRoleFinished(job.roles[r])) => <>(cache[r] = job.roles[r])

(* A pod on a node that stays down is not waited for: its role fails if    *)
(* its policy counts such a pod as failed and any failed pod as a failure. *)
NodeDownFailsRole ==
    \A p \in Slot :
        Spec4Role[p[1]].nodeDownAsFailed /\ Spec4Role[p[1]].failed = "AnyPod" =>
            (NodeFairness /\ <>[](pods[p] \in {"Lost", "Unmarked"})
                => <>[](IsFinished(job.phase) \/ IsRoleFinished(job.roles[p[1]])))

(* The job of an evicted PodGroup fails. *)
EvictionFailsJob ==
    (podGroup = "Evicted") ~> (job.phase = "Failed" \/ podGroup = "None")

CleanedUp == (\A p \in Slot : pods[p] = "Absent") /\ podGroup = "None"

(* The failed jobs whose reconciles all end before OnJobFinished: the one  *)
(* whose definition was refused, the one that failed before its gang was   *)
(* recorded as scheduled, and the one that failed before its gang was      *)
(* evicted.                                                                *)
NeverReachesCleanUp ==
    /\ job.phase = "Failed"
    /\ \/ IsInvalidDefinition(job)
       \/ podGroup \in {"Scheduled", "Evicted"} /\ ~job.scheduled
       \/ podGroup = "Evicted" /\ ~Evicted(job)

(* The pods and the PodGroup of every other finished job are cleaned up in *)
(* the end, even if the process stopped before the job's key came due in   *)
(* the CleanUpQueue.  That a job which failed before the eviction of its   *)
(* gang may keep its pods is shown by FailedIsCleanedUp.                   *)
FinishedIsCleanedUp ==
    <>[](IsFinished(job.phase) /\ ~NeverReachesCleanUp) => <>[]CleanedUp

(* The pods of a failed job are deleted some time after its failure, as    *)
(* the comment in OnJobFinished says.                                      *)
FailedIsCleanedUp ==
    <>[](job.phase = "Failed") => <>[](\A p \in Slot : pods[p] = "Absent")
=============================================================================
