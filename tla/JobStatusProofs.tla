-------------------------- MODULE JobStatusProofs --------------------------
(***************************************************************************)
(* Proofs about JobStatus, for every set of roles, every number of         *)
(* replicas, every policy of roles and job, gang scheduled or not.         *)
(***************************************************************************)
EXTENDS JobStatus, FiniteSetTheorems, TLAPS

-----------------------------------------------------------------------------
(* The phases that are deduced. *)

(* A role that has started is not deduced to be Pending or Starting again, *)
(* whatever its pods do.                                                   *)
LEMMA RolePhaseKeepsStarted ==
    ASSUME NEW spec, NEW replicas, NEW count, NEW last \in RolePhase
    PROVE  /\ GetRolePhase(spec, replicas, count, last) \in RolePhase
           /\ IsRoleStarted(last) => IsRoleStarted(GetRolePhase(spec, replicas, count, last))
  BY DEF GetRolePhase, RolePhase, JobPhase, IsRoleStarted, IsRoleFinished

LEMMA JobPhaseKeepsStarted ==
    ASSUME NEW policy, NEW phases, NEW last \in JobPhase
    PROVE  /\ GetJobPhase(last, policy, phases) \in JobPhase
           /\ IsRoleStarted(last) => IsRoleStarted(GetJobPhase(last, policy, phases))
  BY DEF GetJobPhase, JobPhase, IsRoleStarted, IsRoleFinished

LEMMA SlotsFinite == ASSUME NEW r \in Roles PROVE IsFiniteSet(SlotsOf(r))
<1>1. IsFiniteSet({r})
  BY FS_Singleton
<1>2. IsFiniteSet(0 .. (Replicas[r] - 1))
  BY FS_Interval, StatusSpec
<1> QED
  BY <1>1, <1>2, FS_Product DEF SlotsOf

LEMMA CountType ==
    ASSUME NEW r \in Roles, NEW c \in Counter
    PROVE  UpdateRoleReplicas(Counters(r))[c] \in Nat
<1> DEFINE S == {p \in DOMAIN Counters(r) : Counters(r)[p] = c}
<1>1. S \in SUBSET SlotsOf(r)
  BY DEF Counters, ValidatedPods
<1>2. IsFiniteSet(S)
  BY <1>1, SlotsFinite, FS_Subset
<1>3. Cardinality(S) \in Nat
  BY <1>2, FS_CardinalityType
<1> QED
  BY <1>3 DEF UpdateRoleReplicas

(* UpdatePhases gives a status, and one that does not go back. *)
LEMMA UpdatePhasesStep ==
    ASSUME snap \in Status
    PROVE  UpdatePhases \in Status /\ NotBack(snap, UpdatePhases)
<1> DEFINE counts == [r \in Roles |-> UpdateRoleReplicas(Counters(r))]
           phases == [r \in Roles |-> UpdateRolePhase(r, counts[r])]
           shared == [r \in Roles |-> [c \in SharedCounter |-> counts[r][c]]]
           next == GetJobPhase(snap.phase, Policy, phases)
<1>1. ASSUME NEW r \in Roles
      PROVE  /\ phases[r] \in RolePhase
             /\ IsRoleStarted(snap.roles[r]) => IsRoleStarted(phases[r])
  <2>1. snap.roles[r] \in RolePhase
    BY DEF Status
  <2> HIDE DEF counts
  <2> QED
    BY <2>1, RolePhaseKeepsStarted DEF UpdateRolePhase
<1>2. shared \in [Roles -> Count]
  <2>1. SharedCounter \subseteq Counter
    BY DEF SharedCounter, Counter
  <2>2. \A r \in Roles, c \in SharedCounter : counts[r][c] \in Nat
    BY <2>1, CountType
  <2> HIDE DEF counts
  <2> QED
    BY <2>2 DEF Count
<1>3. /\ next \in JobPhase
      /\ IsRoleStarted(snap.phase) => IsRoleStarted(next)
  <2>1. snap.phase \in JobPhase
    BY DEF Status
  <2> HIDE DEF phases
  <2> QED
    BY <2>1, JobPhaseKeepsStarted
<1>4. phases \in [Roles -> RolePhase]
  <2> HIDE DEF counts
  <2> QED
    BY <1>1
<1>5. UpdatePhases = [snap EXCEPT !.roles = phases, !.count = shared, !.phase = next]
  BY DEF UpdatePhases
<1> HIDE DEF counts, phases, shared, next
<1>6. /\ UpdatePhases \in Status
      /\ UpdatePhases.roles = phases /\ UpdatePhases.phase = next
  BY <1>2, <1>3, <1>4, <1>5 DEF Status
<1> QED
  BY <1>1, <1>3, <1>6 DEF NotBack

-----------------------------------------------------------------------------
(* Types. *)

LEMMA NewStatusType == NewStatus \in Status
<1>1. [r \in Roles |-> [c \in SharedCounter |-> 0]] \in [Roles -> Count]
  BY DEF Count
<1> QED
  BY <1>1 DEF NewStatus, Status, FailedReason, JobPhase, RolePhase

LEMMA ReturnType ==
    ASSUME Return
    PROVE  pc' = "idle" /\ old' \in Status /\ snap' \in Status /\ snapFresh' \in BOOLEAN
  BY NewStatusType DEF Return

(* The statuses that are written hold the types and take nothing back. *)
LEMMA ScheduledStep ==
    ASSUME NEW s \in Status
    PROVE  LET t == setScheduledCondition(s)
           IN  /\ t \in Status /\ NotBack(s, t)
               /\ t.roles = s.roles /\ t.phase = s.phase /\ t.count = s.count
<1> DEFINE b == s.scheduled \/ s.phase # "Failed"
           t == [s EXCEPT !.scheduled = b]
<1>1. b \in BOOLEAN /\ t = setScheduledCondition(s)
  BY DEF setScheduledCondition, Status
<1> HIDE DEF b
<1>2. t \in Status /\ t.roles = s.roles /\ t.phase = s.phase /\ t.count = s.count
  BY <1>1 DEF Status
<1> QED
  BY <1>1, <1>2 DEF NotBack

LEMMA FailStep ==
    ASSUME NEW s \in Status, NEW reason \in FailedReason
    PROVE  LET t == FailFor(s, reason)
           IN  /\ t \in Status /\ NotBack(s, t)
               /\ t.roles = s.roles /\ t.phase = "Failed" /\ t.count = s.count
<1> DEFINE why == IF s.phase = "Failed" THEN s.reason ELSE reason
           t == [s EXCEPT !.reason = why, !.phase = "Failed"]
<1>1. why \in FailedReason /\ t = FailFor(s, reason)
  BY DEF FailFor, Status
<1> HIDE DEF why
<1>2. t \in Status /\ t.roles = s.roles /\ t.phase = "Failed" /\ t.count = s.count
  BY <1>1 DEF Status, JobPhase
<1> QED
  BY <1>1, <1>2 DEF NotBack, IsRoleStarted, IsRoleFinished

LEMMA EvictedStep ==
    ASSUME NEW s \in Status
    PROVE  LET t == setEvictedCondition(s)
           IN  /\ t \in Status /\ NotBack(s, t)
               /\ t.roles = s.roles /\ t.phase = "Failed" /\ t.count = s.count
  BY FailStep DEF setEvictedCondition, FailedReason

(* The status of a job of which only some roles were reconciled. *)
LEMMA UntilStep ==
    ASSUME snap \in Status, NEW done \in SUBSET Roles
    PROVE  LET t == StatusUntil(done)
           IN  /\ t \in Status /\ NotBack(snap, t) /\ t.phase = snap.phase
               /\ \A r \in Roles :
                     \/ t.roles[r] = snap.roles[r] /\ t.count[r] = snap.count[r]
                     \/ /\ t.roles[r] = UpdatePhases.roles[r]
                        /\ t.count[r] = UpdatePhases.count[r]
<1> DEFINE roles == [r \in Roles |-> IF r \in done THEN UpdatePhases.roles[r]
                                     ELSE snap.roles[r]]
           count == [r \in Roles |-> IF r \in done THEN UpdatePhases.count[r]
                                     ELSE snap.count[r]]
           t == [snap EXCEPT !.roles = roles, !.count = count]
<1>1. UpdatePhases \in Status /\ NotBack(snap, UpdatePhases)
  BY UpdatePhasesStep
<1>2. roles \in [Roles -> RolePhase] /\ count \in [Roles -> Count]
  BY <1>1 DEF Status
<1>3. t = StatusUntil(done)
  BY DEF StatusUntil
<1>4. \A r \in Roles : \/ roles[r] = snap.roles[r] /\ count[r] = snap.count[r]
                       \/ roles[r] = UpdatePhases.roles[r] /\ count[r] = UpdatePhases.count[r]
  OBVIOUS
<1> HIDE DEF roles, count
<1>5. t \in Status /\ t.roles = roles /\ t.count = count /\ t.phase = snap.phase
  BY <1>2 DEF Status
<1> HIDE DEF t
<1>6. NotBack(snap, t)
  BY <1>1, <1>4, <1>5 DEF NotBack
<1> QED
  BY <1>3, <1>4, <1>5, <1>6

(* What is stored when a pod or a service is refused. *)
LEMMA RefusedStep ==
    ASSUME snap \in Status, NEW done \in SUBSET Roles
    PROVE  LET t == SetInvalidDefinition(StatusUntil(done))
           IN  /\ t \in Status /\ NotBack(snap, t) /\ t.phase = "Failed"
               /\ t.roles = StatusUntil(done).roles /\ t.count = StatusUntil(done).count
<1> DEFINE u == StatusUntil(done)
           t == SetInvalidDefinition(u)
<1>1. u \in Status /\ NotBack(snap, u)
  BY UntilStep
<1> HIDE DEF u
<1>2. t \in Status /\ NotBack(u, t) /\ t.roles = u.roles /\ t.phase = "Failed"
      /\ t.count = u.count
  BY <1>1, FailStep DEF SetInvalidDefinition, FailedReason
<1>3. NotBack(snap, t)
  BY <1>1, <1>2 DEF NotBack
<1> QED
  BY <1>2, <1>3 DEF u

LEMMA FinishedStep ==
    ASSUME NEW s \in Status
    PROVE  /\ [s EXCEPT !.count = FinishedCount(s)] \in Status
           /\ NotBack(s, [s EXCEPT !.count = FinishedCount(s)])
<1>1. FinishedCount(s) \in [Roles -> Count]
  <2>1. s.count \in [Roles -> Count]
    BY DEF Status
  <2>2. ASSUME NEW r \in Roles
        PROVE  [active |-> 0, failed |-> s.count[r]["failed"],
                succeeded |-> s.count[r]["succeeded"] + s.count[r]["active"]] \in Count
    <3>1. /\ s.count[r]["failed"] \in Nat /\ s.count[r]["succeeded"] \in Nat
          /\ s.count[r]["active"] \in Nat
      BY <2>1 DEF Count, SharedCounter
    <3>2. s.count[r]["succeeded"] + s.count[r]["active"] \in Nat
      BY <3>1
    <3> QED
      BY <3>1, <3>2 DEF Count, SharedCounter
  <2> QED
    BY <2>1, <2>2 DEF FinishedCount
<1>2. /\ [s EXCEPT !.count = FinishedCount(s)] \in Status
      /\ [s EXCEPT !.count = FinishedCount(s)].roles = s.roles
      /\ [s EXCEPT !.count = FinishedCount(s)].phase = s.phase
  BY <1>1 DEF Status
<1> QED
  BY <1>2 DEF NotBack

LEMMA SlotRole == ASSUME NEW p \in Slot PROVE p[1] \in Roles
  BY DEF Slot, SlotsOf

LEMMA TypeInit == Init => TypeOK
<1> SUFFICES ASSUME Init PROVE TypeOK
  OBVIOUS
<1>1. pods \in [Slot -> PodState] /\ cache \in [Roles -> RolePhase \union {"None"}]
  BY DEF Init, PodState
<1>2. job \in Status /\ vjob \in Status /\ old \in Status /\ snap \in Status
  BY NewStatusType DEF Init
<1>3. disturbs \in 0 .. MaxDisturb /\ faults \in 0 .. MaxFault /\ restarts \in 0 .. MaxRestart
  <2>1. disturbs = 0 /\ faults = 0 /\ restarts = 0
    BY DEF Init
  <2> QED
    BY <2>1, StatusBounds
<1> QED
  BY <1>1, <1>2, <1>3 DEF Init, TypeOK, PodGroupState

LEMMA TypeCluster == TypeOK /\ Cluster => TypeOK'
<1> SUFFICES ASSUME TypeOK, Cluster PROVE TypeOK'
  OBVIOUS
<1> USE DEF jobCache, worker, outside
<1>1. ASSUME NEW p \in Slot, NEW from, NEW to \in PodState, Becomes(p, from, to),
             disturbs' \in 0 .. MaxDisturb
      PROVE  TypeOK'
  BY <1>1 DEF TypeOK, Becomes
<1>2. CASE \E p \in Slot : \/ PodAppears(p) \/ PodStarts(p) \/ PodSucceeds(p) \/ PodVanishes(p)
                           \/ NodeReported(p) \/ PreemptedPodVanishes(p)
  <2>1. disturbs' \in 0 .. MaxDisturb
    BY <1>2 DEF PodAppears, PodStarts, PodSucceeds, PodVanishes, NodeReported,
                PreemptedPodVanishes, TypeOK
  <2> QED
    BY <1>1, <1>2, <2>1 DEF PodAppears, PodStarts, PodSucceeds, PodVanishes, NodeReported,
                            PreemptedPodVanishes, PodState
<1>3. CASE \E p \in Slot : PodDisturbed(p) \/ PodPreempted(p)
  <2>1. disturbs' \in 0 .. MaxDisturb
    BY <1>3, StatusBounds DEF PodDisturbed, PodPreempted, TypeOK
  <2> QED
    BY <1>1, <1>3, <2>1 DEF PodDisturbed, PodPreempted, PodState
<1>4. CASE PodGroupMoves
  <2>1. podGroup' \in PodGroupState /\ queued' \in BOOLEAN
    BY <1>4 DEF PodGroupMoves, TypeOK, PodGroupState
  <2> QED
    BY <1>4, <2>1 DEF PodGroupMoves, TypeOK, bounds
<1>5. CASE PodGroupEvicted
  BY <1>5, StatusBounds DEF PodGroupEvicted, TypeOK, PodGroupState
<1>6. CASE TouchJob
  <2>1. faults \in 0 .. MaxFault /\ faults < MaxFault /\ faults' = faults + 1
    BY <1>6 DEF TouchJob, TypeOK
  <2>2. faults' \in 0 .. MaxFault
    BY <2>1, StatusBounds
  <2>3. fresh' \in BOOLEAN /\ snapFresh' \in BOOLEAN
    BY <1>6 DEF TouchJob
  <2> QED
    BY <1>6, <2>2, <2>3 DEF TouchJob, TypeOK
<1>7. CASE \E p \in Slot : NodeRecovers(p)
  <2>1. pods' \in [Slot -> PodState]
    BY <1>7 DEF NodeRecovers, TypeOK, PodState
  <2> QED
    BY <1>7, <2>1 DEF NodeRecovers, TypeOK, bounds
<1>8. CASE \E p \in Slot : UnschedulablePodDeleted(p)
  <2>1. disturbs' \in 0 .. MaxDisturb
    BY <1>8, StatusBounds DEF UnschedulablePodDeleted, TypeOK
  <2>2. pods' \in [Slot -> PodState]
    BY <1>8 DEF UnschedulablePodDeleted, TypeOK, PodState
  <2> QED
    BY <1>8, <2>1, <2>2 DEF UnschedulablePodDeleted, TypeOK
<1> QED
  BY <1>2, <1>3, <1>4, <1>5, <1>6, <1>7, <1>8 DEF Cluster

LEMMA TypeOthers ==
    TypeOK /\ (DeliverJob \/ Resync \/ CleanUp \/ Restart) => TypeOK'
<1> SUFFICES ASSUME TypeOK, DeliverJob \/ Resync \/ CleanUp \/ Restart PROVE TypeOK'
  OBVIOUS
<1> USE DEF jobCache, worker, outside, bounds
<1>1. CASE DeliverJob \/ Resync
  BY <1>1 DEF DeliverJob, Resync, TypeOK
<1>2. ASSUME NEW p \in Slot PROVE Deleted(p) \in PodState
  BY DEF TypeOK, Deleted, PodState
<1>3. CASE cleanupNextItem
  BY <1>2, <1>3 DEF cleanupNextItem, TypeOK, PodGroupState
<1>4. CASE CleanUpFails
  BY <1>2, <1>4, StatusBounds DEF CleanUpFails, TypeOK
<1>5. CASE Restart
  <2>1. pods' \in [Slot -> PodState]
    BY <1>5 DEF Restart, TypeOK, PodState
  <2>2. Return /\ restarts' \in 0 .. MaxRestart
    BY <1>5, StatusBounds DEF Restart, TypeOK
  <2> QED
    BY <1>5, <2>1, <2>2, ReturnType DEF Restart, TypeOK
<1> QED
  BY <1>1, <1>3, <1>4, <1>5 DEF CleanUp

LEMMA TypeWorker == TypeOK /\ Worker => TypeOK'
<1> SUFFICES ASSUME TypeOK, Worker PROVE TypeOK'
  OBVIOUS
<1> USE DEF jobCache, worker, outside, bounds
<1>1. CASE Reconcile
  BY <1>1 DEF Reconcile, TypeOK
<1>2. CASE PodGroupBreaks
  <2>1. job' \in Status
    BY <1>2, ScheduledStep, EvictedStep DEF PodGroupBreaks, StatusWrite, TypeOK
  <2>2. fresh' \in BOOLEAN /\ vjob' = vjob
    BY <1>2 DEF PodGroupBreaks, StatusWrite, TypeOK
  <2>3. Return /\ UNCHANGED <<pods, podGroup, queued, outside, bounds>>
    BY <1>2 DEF PodGroupBreaks
  <2> QED
    BY <2>1, <2>2, <2>3, ReturnType DEF TypeOK
<1>3. CASE PodGroupWriteFails \/ UpdateJobStatusFails \/ SyncFromJobFails
  <2>1. Return /\ queued' = TRUE /\ faults' \in 0 .. MaxFault
    BY <1>3, StatusBounds DEF PodGroupWriteFails, UpdateJobStatusFails, SyncFromJobFails,
                              Requeue, TypeOK
  <2>2. UNCHANGED <<pods, podGroup, job, jobCache, outside, disturbs, restarts>>
    BY <1>3 DEF PodGroupWriteFails, UpdateJobStatusFails, SyncFromJobFails
  <2> QED
    BY <2>1, <2>2, ReturnType DEF TypeOK
<1>4. CASE SyncFromPodGroup \/ SyncFromJob
  BY <1>4 DEF SyncFromPodGroup, SyncFromJob, TypeOK
<1>5. CASE WaitForPodGroup
  BY <1>5, ReturnType DEF WaitForPodGroup, Requeue, TypeOK, PodGroupState
<1>6. CASE LeaveFinishedJob
  <2>1. snap' \in Status
    BY <1>6, FinishedStep DEF LeaveFinishedJob, TypeOK
  <2> QED
    BY <1>6, <2>1 DEF LeaveFinishedJob, TypeOK
<1>7. ASSUME NEW p \in Slot PROVE Replaced(p) \in PodState
  BY DEF Replaced, TypeOK, PodState
<1>8. CASE ReconcileJobs
  <2>1. snap' \in Status
    BY <1>8, UpdatePhasesStep DEF ReconcileJobs, TypeOK
  <2> QED
    BY <1>7, <1>8, <2>1 DEF ReconcileJobs, MayReconcileJobs, TypeOK
<1>9. CASE ReconcileJobsFails
  <2>1. Return /\ queued' = TRUE /\ faults' \in 0 .. MaxFault
    BY <1>9, StatusBounds DEF ReconcileJobsFails, Requeue, TypeOK
  <2>2. pods' \in [Slot -> PodState]
    BY <1>7, <1>9 DEF ReconcileJobsFails, PodsUntil, TypeOK
  <2>3. UNCHANGED <<podGroup, job, jobCache, outside, disturbs, restarts>>
    BY <1>9 DEF ReconcileJobsFails
  <2> QED
    BY <2>1, <2>2, <2>3, ReturnType DEF TypeOK
<1>10. CASE ReconcileJobsRefused
  <2>1. Return /\ UNCHANGED <<podGroup, queued, outside, disturbs, restarts, vjob>>
    BY <1>10 DEF ReconcileJobsRefused, StatusWrite
  <2>2. pods' \in [Slot -> PodState]
    BY <1>7, <1>10 DEF ReconcileJobsRefused, PodsUntil, TypeOK
  <2>3. job' \in Status
    BY <1>10, RefusedStep DEF ReconcileJobsRefused, StatusWrite, TypeOK
  <2>4. fresh' \in BOOLEAN
    BY <1>10 DEF ReconcileJobsRefused, StatusWrite, TypeOK
  <2>5. faults' \in 0 .. MaxFault
    BY <1>10, StatusBounds DEF ReconcileJobsRefused, TypeOK
  <2> QED
    BY <2>1, <2>2, <2>3, <2>4, <2>5, ReturnType DEF TypeOK
<1>11. CASE UpdateJobStatusInApiServer
  BY <1>11 DEF UpdateJobStatusInApiServer, StatusWrite, TypeOK
<1>12. CASE HandleRolePhases
  <2>1. cache' \in [Roles -> RolePhase \union {"None"}]
    BY <1>12 DEF HandleRolePhases, TypeOK, Status
  <2>2. cleanup' \in BOOLEAN
    BY <1>12 DEF HandleRolePhases, TypeOK
  <2>3. Return /\ UNCHANGED <<pods, podGroup, job, jobCache, queued, bounds>>
    BY <1>12 DEF HandleRolePhases
  <2> QED
    BY <2>1, <2>2, <2>3, ReturnType DEF TypeOK
<1>13. CASE HandleRolePhasesFails
  <2>1. cache' \in [Roles -> RolePhase \union {"None"}]
    BY <1>13 DEF HandleRolePhasesFails, TypeOK, Status
  <2>2. Return /\ queued' = TRUE /\ faults' \in 0 .. MaxFault
    BY <1>13, StatusBounds DEF HandleRolePhasesFails, Requeue, TypeOK
  <2>3. UNCHANGED <<pods, podGroup, job, jobCache, cleanup, disturbs, restarts>>
    BY <1>13 DEF HandleRolePhasesFails
  <2> QED
    BY <2>1, <2>2, <2>3, ReturnType DEF TypeOK
<1> QED
  BY <1>1, <1>2, <1>3, <1>4, <1>5, <1>6, <1>8, <1>9, <1>10, <1>11, <1>12, <1>13
  DEF Worker

-----------------------------------------------------------------------------
(* The worker's copy. *)

LEMMA NotBackReflexive == ASSUME NEW s PROVE NotBack(s, s)
  BY DEF NotBack

LEMMA CopyReturn ==
    ASSUME CopyIsLatest, Return, fresh' => vjob' = job'
    PROVE  CopyIsLatest'
  BY DEF CopyIsLatest, Return

LEMMA CopyFrame ==
    ASSUME CopyIsLatest, UNCHANGED <<job, jobCache, worker>>
    PROVE  CopyIsLatest'
  BY DEF CopyIsLatest, jobCache, worker, NotBack

(* A write stores what the worker has, and that is not back. *)
LEMMA CopyStep == ASSUME TypeOK, CopyIsLatest, Next PROVE CopyIsLatest' /\ NotBack(job, job')
<1> USE DEF jobCache, worker
<1>1. CASE Cluster
  <2>1. CASE TouchJob
    BY <2>1, NotBackReflexive DEF TouchJob, CopyIsLatest, NotBack
  <2>2. CASE ~TouchJob
    BY <1>1, <2>2, CopyFrame, NotBackReflexive
    DEF Cluster, PodAppears, PodStarts, PodSucceeds, PodVanishes, PodDisturbed,
        UnschedulablePodDeleted, NodeReported, NodeRecovers, PodPreempted, PreemptedPodVanishes, Becomes, PodGroupMoves, PodGroupEvicted
  <2> QED
    BY <2>1, <2>2
<1>2. CASE DeliverJob
  BY <1>2, NotBackReflexive DEF DeliverJob, CopyIsLatest, NotBack
<1>3. CASE Resync \/ CleanUp
  BY <1>3, CopyFrame, NotBackReflexive DEF Resync, CleanUp, cleanupNextItem, CleanUpFails
<1>4. CASE Restart
  BY <1>4, CopyReturn, NotBackReflexive DEF Restart
<1>5. CASE Worker
  <2>1. CASE Reconcile
    BY <2>1, NotBackReflexive DEF Reconcile, CopyIsLatest, NotBack
  <2>2. CASE PodGroupBreaks
    <3>1. snap = job /\ snap \in Status
      BY <2>2 DEF PodGroupBreaks, StatusWrite, CopyIsLatest, TypeOK
    <3>2. NotBack(job, job')
      BY <2>2, <3>1, ScheduledStep, EvictedStep DEF PodGroupBreaks, StatusWrite
    <3>3. fresh' => vjob' = job'
      BY <2>2 DEF PodGroupBreaks, StatusWrite, CopyIsLatest
    <3> QED
      BY <2>2, <3>2, <3>3, CopyReturn DEF PodGroupBreaks
  <2>3. CASE \/ PodGroupWriteFails \/ WaitForPodGroup \/ ReconcileJobsFails
             \/ UpdateJobStatusFails \/ SyncFromJobFails
             \/ HandleRolePhases \/ HandleRolePhasesFails
    <3>1. Return /\ UNCHANGED <<job, jobCache>>
      BY <2>3 DEF PodGroupWriteFails, WaitForPodGroup, ReconcileJobsFails,
                  UpdateJobStatusFails, SyncFromJobFails, HandleRolePhases,
                  HandleRolePhasesFails, Requeue
    <3> QED
      BY <3>1, CopyReturn, NotBackReflexive DEF CopyIsLatest
  <2>4. CASE SyncFromPodGroup \/ SyncFromJob
    BY <2>4, NotBackReflexive DEF SyncFromPodGroup, SyncFromJob, CopyIsLatest, NotBack
  <2>5. CASE LeaveFinishedJob
    BY <2>5, FinishedStep, NotBackReflexive DEF LeaveFinishedJob, CopyIsLatest, TypeOK
  <2>6. CASE ReconcileJobs
    BY <2>6, UpdatePhasesStep, NotBackReflexive
    DEF ReconcileJobs, MayReconcileJobs, CopyIsLatest, TypeOK
  <2>7. CASE UpdateJobStatusInApiServer
    <3>1. NotBack(old, snap)
      BY <2>7 DEF UpdateJobStatusInApiServer, CopyIsLatest
    <3>2. job' = job \/ (old = job /\ job' = snap)
      BY <2>7 DEF UpdateJobStatusInApiServer, StatusWrite, CopyIsLatest
    <3>3. NotBack(job, job')
      BY <3>1, <3>2, NotBackReflexive
    <3>4. fresh' => vjob' = job'
      BY <2>7 DEF UpdateJobStatusInApiServer, StatusWrite, CopyIsLatest
    <3> QED
      BY <2>7, <3>1, <3>3, <3>4 DEF UpdateJobStatusInApiServer, CopyIsLatest, NotBack
  <2>8. CASE ReconcileJobsRefused
    <3>1. job' = job \/ (snap = job /\ snap \in Status
             /\ \E done \in SUBSET Roles : job' = SetInvalidDefinition(StatusUntil(done)))
      BY <2>8 DEF ReconcileJobsRefused, MayReconcileJobs, StatusWrite, CopyIsLatest, TypeOK
    <3>2. NotBack(job, job')
      BY <3>1, RefusedStep, NotBackReflexive
    <3>3. fresh' => vjob' = job'
      BY <2>8 DEF ReconcileJobsRefused, StatusWrite, CopyIsLatest
    <3> QED
      BY <2>8, <3>2, <3>3, CopyReturn DEF ReconcileJobsRefused
  <2> QED
    BY <1>5, <2>1, <2>2, <2>3, <2>4, <2>5, <2>6, <2>7, <2>8 DEF Worker
<1> QED
  BY <1>1, <1>2, <1>3, <1>4, <1>5 DEF Next

-----------------------------------------------------------------------------
(* What is deduced, what is counted, and what is published. *)

LEMMA SlotCount ==
    ASSUME NEW r \in Roles
    PROVE  Cardinality(SlotsOf(r)) = Replicas[r]
<1>1. Replicas[r] \in Nat /\ Replicas[r] > 0
  BY StatusSpec
<1>2. Cardinality({r}) = 1 /\ IsFiniteSet({r})
  BY FS_Singleton
<1>3. /\ IsFiniteSet(0 .. (Replicas[r] - 1))
      /\ Cardinality(0 .. (Replicas[r] - 1)) = Replicas[r]
  <2> DEFINE n == Replicas[r] - 1
  <2>1. 0 \in Int /\ n \in Int /\ ~(0 > n) /\ n - 0 + 1 = Replicas[r]
    BY <1>1
  <2> HIDE DEF n
  <2>2. IsFiniteSet(0 .. n) /\ Cardinality(0 .. n) = IF 0 > n THEN 0 ELSE n - 0 + 1
    BY <2>1, FS_Interval, Zenon
  <2>3. Cardinality(0 .. n) = Replicas[r]
    BY <2>1, <2>2
  <2> QED
    BY <2>2, <2>3 DEF n
<1>4. Cardinality({r} \X (0 .. (Replicas[r] - 1))) = 1 * Replicas[r]
  <2>1. Cardinality({r} \X (0 .. (Replicas[r] - 1)))
          = Cardinality({r}) * Cardinality(0 .. (Replicas[r] - 1))
    BY <1>2, <1>3, FS_Product
  <2> QED
    BY <1>2, <1>3, <2>1
<1> QED
  BY <1>1, <1>4 DEF SlotsOf

(* A role of which a pod must be created or replaced is not counted as     *)
(* complete.                                                               *)
LEMMA IncompleteIsNotCounted ==
    ASSUME NEW r \in Roles, NEW q \in SlotsOf(r), MustCreate(q) \/ MustReplace(q)
    PROVE  UpdateRoleReplicas(Counters(r))["active"] < Replicas[r]
<1> DEFINE S == {p \in DOMAIN Counters(r) : Counters(r)[p] = "active"}
<1>1. S \subseteq SlotsOf(r) /\ q \notin S
  BY DEF Counters, ValidatedPods
<1>2. IsFiniteSet(SlotsOf(r)) /\ Cardinality(SlotsOf(r)) = Replicas[r]
  BY SlotsFinite, SlotCount
<1>3. S \subseteq SlotsOf(r) /\ S # SlotsOf(r)
  BY <1>1
<1>4. Cardinality(S) < Cardinality(SlotsOf(r))
  <2> HIDE DEF S
  <2>1. /\ IsFiniteSet(S) /\ Cardinality(S) <= Cardinality(SlotsOf(r))
        /\ Cardinality(SlotsOf(r)) = Cardinality(S) => S = SlotsOf(r)
    BY <1>2, <1>3, FS_Subset
  <2>2. Cardinality(S) \in Nat /\ Cardinality(SlotsOf(r)) \in Nat
    BY <2>1, <1>2, FS_CardinalityType
  <2> QED
    BY <2>1, <2>2, <1>3
<1>5. UpdateRoleReplicas(Counters(r))["active"] = Cardinality(S)
  BY DEF UpdateRoleReplicas, Counter
<1> QED
  BY <1>2, <1>4, <1>5

(* GetRolePhase moves a role as JobPromise says, and to Running only when  *)
(* all its replicas are active, in which case it has started.              *)
LEMMA RolePhaseMoves ==
    ASSUME NEW r \in Roles, NEW count, NEW last \in RolePhase,
           count["active"] \in Nat
    PROVE  LET next == GetRolePhase(Spec4Role[r], Replicas[r], count, last)
           IN  /\ Promise!MayMove(r, last, next)
               /\ count["active"] >= Replicas[r] => IsRoleStarted(next)
               /\ next = "Running" /\ ~IsRoleStarted(last) => count["active"] >= Replicas[r]
<1>1. Replicas[r] \in Nat
  BY StatusSpec
<1> QED
  BY <1>1 DEF GetRolePhase, Promise!MayMove, MeetsCondition, IsRoleStarted, IsRoleFinished,
              RolePhase, JobPhase

(* UpdatePhases deduces a status as JobPromise says, and its counters      *)
(* cover the roles that start.                                             *)
LEMMA UpdatePhasesDeduces ==
    ASSUME snap \in Status, CountedIsStarted(snap), ~IsFinished(snap.phase)
    PROVE  /\ Deduced(snap, UpdatePhases)
           /\ RunningIsCounted(snap, UpdatePhases)
           /\ CountedIsStarted(UpdatePhases)
<1> DEFINE counts == [r \in Roles |-> UpdateRoleReplicas(Counters(r))]
           phases == [r \in Roles |-> UpdateRolePhase(r, counts[r])]
           shared == [r \in Roles |-> [c \in SharedCounter |-> counts[r][c]]]
           next == GetJobPhase(snap.phase, Policy, phases)
<1>1. ASSUME NEW r \in Roles
      PROVE  /\ Promise!MayMove(r, snap.roles[r], phases[r])
             /\ counts[r]["active"] >= Replicas[r] => IsRoleStarted(phases[r])
             /\ phases[r] = "Running" /\ ~IsRoleStarted(snap.roles[r])
                  => counts[r]["active"] >= Replicas[r]
  <2>1. snap.roles[r] \in RolePhase /\ Replicas[r] \in Nat
    BY StatusSpec DEF Status
  <2>2. counts[r]["active"] \in Nat
    BY CountType DEF Counter
  <2>3. CASE \E q \in SlotsOf(r) : MustCreate(q) \/ MustReplace(q)
    <3>1. counts[r]["active"] < Replicas[r]
      BY <2>3, IncompleteIsNotCounted
    <3>2. phases[r] = snap.roles[r]
      BY <2>3 DEF UpdateRolePhase
    <3> HIDE DEF counts, phases
    <3> QED
      BY <2>1, <2>2, <3>1, <3>2 DEF Promise!MayMove, IsRoleStarted
  <2>4. CASE ~\E q \in SlotsOf(r) : MustCreate(q) \/ MustReplace(q)
    <3> HIDE DEF counts
    <3>1. phases[r] = GetRolePhase(Spec4Role[r], Replicas[r], counts[r], snap.roles[r])
      BY <2>4 DEF UpdateRolePhase
    <3> HIDE DEF phases
    <3> QED
      BY <2>1, <2>2, <3>1, RolePhaseMoves
  <2> QED
    BY <2>3, <2>4
<1>2. ASSUME NEW r \in Roles PROVE shared[r]["active"] = counts[r]["active"]
  <2> HIDE DEF counts
  <2> QED
    BY DEF SharedCounter
<1>3. UpdatePhases = [snap EXCEPT !.roles = phases, !.count = shared, !.phase = next]
  BY DEF UpdatePhases
<1> HIDE DEF counts, phases, shared
<1>4. /\ UpdatePhases.roles = phases /\ UpdatePhases.count = shared
      /\ UpdatePhases.phase = GetJobPhase(snap.phase, Policy, phases)
  <2>1. /\ [snap EXCEPT !.roles = phases, !.count = shared, !.phase = next].roles = phases
        /\ [snap EXCEPT !.roles = phases, !.count = shared, !.phase = next].count = shared
        /\ [snap EXCEPT !.roles = phases, !.count = shared, !.phase = next].phase = next
    <3> HIDE DEF next
    <3> QED
      BY DEF Status
  <2> QED
    BY <1>3, <2>1
<1>5. Deduced(snap, UpdatePhases)
  BY <1>1, <1>4 DEF Deduced
<1>6. RunningIsCounted(snap, UpdatePhases)
  BY <1>1, <1>2, <1>4 DEF RunningIsCounted
<1>7. CountedIsStarted(UpdatePhases)
  BY <1>1, <1>2, <1>4 DEF CountedIsStarted
<1> QED
  BY <1>5, <1>6, <1>7

LEMMA NotBackTransitive ==
    ASSUME NEW s, NEW t, NEW u, NotBack(s, t), NotBack(t, u)
    PROVE  NotBack(s, u)
  BY DEF NotBack

LEMMA NewStatusIsNotCounted == CountedIsStarted(NewStatus)
<1> SUFFICES ASSUME NEW r \in Roles PROVE ~(NewStatus.count[r]["active"] >= Replicas[r])
  BY DEF CountedIsStarted
<1>1. NewStatus.count[r]["active"] = 0
  BY DEF NewStatus, SharedCounter
<1> QED
  BY <1>1, StatusSpec

LEMMA BehindReturn ==
    ASSUME Return, NotBack(vjob', job'), CountedIsStarted(job'), CountedIsStarted(vjob')
    PROVE  CopiesAreBehind'
<1>1. pc' = "idle" /\ old' = NewStatus /\ snap' = NewStatus
  BY DEF Return
<1>2. CountedIsStarted(old)' /\ CountedIsStarted(snap)'
  BY <1>1, NewStatusIsNotCounted DEF CountedIsStarted
<1>3. NotBack(vjob, job)' /\ CountedIsStarted(job)' /\ CountedIsStarted(vjob)'
  BY DEF NotBack, CountedIsStarted
<1> QED
  BY <1>1, <1>2, <1>3 DEF CopiesAreBehind

LEMMA BehindFrame ==
    ASSUME CopiesAreBehind, UNCHANGED <<job, vjob, worker>>
    PROVE  CopiesAreBehind'
  BY DEF CopiesAreBehind, worker, NotBack, CountedIsStarted, RunningIsCounted, Deduced,
         Promise!MayMove

(* UpdatePhases of some of the roles moves them as JobPromise says. *)
LEMMA RefusedMoves ==
    ASSUME snap \in Status, CountedIsStarted(snap), ~IsFinished(snap.phase),
           NEW done \in SUBSET Roles
    PROVE  LET t == SetInvalidDefinition(StatusUntil(done))
           IN  /\ \A r \in Roles : Promise!MayMove(r, snap.roles[r], t.roles[r])
               /\ CountedIsStarted(t)
<1> DEFINE u == StatusUntil(done)
           t == SetInvalidDefinition(u)
<1>1. t.roles = u.roles /\ t.count = u.count
  BY RefusedStep
<1>2. \A r \in Roles : \/ u.roles[r] = snap.roles[r] /\ u.count[r] = snap.count[r]
                       \/ /\ u.roles[r] = UpdatePhases.roles[r]
                          /\ u.count[r] = UpdatePhases.count[r]
  BY UntilStep
<1>3. Deduced(snap, UpdatePhases) /\ CountedIsStarted(UpdatePhases)
  BY UpdatePhasesDeduces
<1> HIDE DEF u, t
<1>4. \A r \in Roles : Promise!MayMove(r, snap.roles[r], UpdatePhases.roles[r])
  BY <1>3 DEF Deduced, Promise!MayMove
<1>5. \A r \in Roles : Promise!MayMove(r, snap.roles[r], snap.roles[r])
  BY DEF Promise!MayMove
<1>6. \A r \in Roles : Promise!MayMove(r, snap.roles[r], t.roles[r])
  BY <1>1, <1>2, <1>4, <1>5
<1>7. CountedIsStarted(t)
  BY <1>1, <1>2, <1>3 DEF CountedIsStarted
<1> QED
  BY <1>6, <1>7 DEF t, u

(* What a step does to the stored status.  An eviction, and a pod or a     *)
(* service that is refused, are the only ways to change it other than by   *)
(* the deduction.                                                          *)
StoredMoves ==
    \/ Deduced(job, job') /\ CountedIsStarted(job')
    \/ /\ Gang /\ podGroup = "Evicted"
       /\ job'.phase = "Failed" /\ job'.roles = job.roles /\ job'.count = job.count
    \/ /\ ~IsFinished(job.phase) /\ job'.phase = "Failed"
       /\ \A r \in Roles : Promise!MayMove(r, job.roles[r], job'.roles[r])
       /\ CountedIsStarted(job')

LEMMA StoredUnchanged ==
    ASSUME CopiesAreBehind, job' = job
    PROVE  StoredMoves
  BY DEF StoredMoves, CopiesAreBehind, CountedIsStarted, Deduced

LEMMA StoredStep == ASSUME StatusInv, Next PROVE StoredMoves
<1> USE DEF StatusInv
<1>1. CASE PodGroupBreaks
  <2>1. snap = job /\ snap \in Status /\ CountedIsStarted(job)
    BY <1>1 DEF PodGroupBreaks, StatusWrite, CopyIsLatest, CopiesAreBehind, TypeOK
  <2>2. CASE MustMarkScheduled /\ StatusWrite(setScheduledCondition(snap))
    <3>1. job'.roles = job.roles /\ job'.phase = job.phase /\ job'.count = job.count
      BY <2>1, <2>2, ScheduledStep DEF StatusWrite
    <3> QED
      BY <2>1, <3>1 DEF StoredMoves, Deduced, CountedIsStarted
  <2>3. CASE MustMarkEvicted /\ StatusWrite(setEvictedCondition(snap))
    <3>1. job'.roles = job.roles /\ job'.phase = "Failed" /\ job'.count = job.count
      BY <2>1, <2>3, EvictedStep DEF StatusWrite
    <3>2. Gang /\ podGroup = "Evicted"
      BY <1>1, <2>3 DEF PodGroupBreaks, HasPodGroup, MustMarkEvicted
    <3> QED
      BY <3>1, <3>2 DEF StoredMoves
  <2> QED
    BY <1>1, <2>2, <2>3 DEF PodGroupBreaks
<1>2. CASE UpdateJobStatusInApiServer
  <2>1. job' = job \/ (old = job /\ job' = snap)
    BY <1>2 DEF UpdateJobStatusInApiServer, StatusWrite, CopyIsLatest
  <2>2. Deduced(old, snap) /\ CountedIsStarted(snap)
    BY <1>2 DEF UpdateJobStatusInApiServer, CopiesAreBehind
  <2> QED
    BY <2>1, <2>2, StoredUnchanged DEF StoredMoves
<1>3. CASE ReconcileJobsRefused
  <2>1. job' = job
        \/ /\ snap = job /\ snap \in Status /\ CountedIsStarted(snap) /\ ~IsFinished(snap.phase)
           /\ \E done \in SUBSET Roles : job' = SetInvalidDefinition(StatusUntil(done))
    BY <1>3 DEF ReconcileJobsRefused, MayReconcileJobs, StatusWrite, CopyIsLatest,
                CopiesAreBehind, TypeOK
  <2>2. CASE job' = job
    BY <2>2, StoredUnchanged
  <2>3. CASE job' # job
    <3>1. PICK done \in SUBSET Roles : job' = SetInvalidDefinition(StatusUntil(done))
      BY <2>1, <2>3
    <3>2. snap = job /\ snap \in Status /\ CountedIsStarted(snap) /\ ~IsFinished(job.phase)
      BY <2>1, <2>3
    <3>3. job'.phase = "Failed"
      BY <3>1, <3>2, RefusedStep
    <3>4. /\ \A r \in Roles : Promise!MayMove(r, job.roles[r], job'.roles[r])
          /\ CountedIsStarted(job')
      BY <3>1, <3>2, RefusedMoves
    <3> QED
      BY <3>2, <3>3, <3>4 DEF StoredMoves
  <2> QED
    BY <2>2, <2>3
<1>4. CASE ~PodGroupBreaks /\ ~UpdateJobStatusInApiServer /\ ~ReconcileJobsRefused
  <2>1. job' = job
    BY <1>4 DEF Next, Cluster, PodAppears, PodStarts, PodSucceeds, PodVanishes, PodDisturbed,
        UnschedulablePodDeleted, NodeReported, NodeRecovers, PodPreempted, PreemptedPodVanishes,
        Becomes, PodGroupMoves, PodGroupEvicted, TouchJob, DeliverJob, Resync, CleanUp,
        cleanupNextItem, CleanUpFails, Restart, Worker, Reconcile, PodGroupWriteFails,
        SyncFromPodGroup, WaitForPodGroup, LeaveFinishedJob, ReconcileJobs, ReconcileJobsFails,
        UpdateJobStatusFails, SyncFromJob, SyncFromJobFails, HandleRolePhases,
        HandleRolePhasesFails
  <2> QED
    BY <2>1, StoredUnchanged
<1> QED
  BY <1>1, <1>2, <1>3, <1>4

(* Copies stay behind, and what is published is stored. *)
LEMMA BehindStep ==
    ASSUME StatusInv, Next, NotBack(job, job')
    PROVE  CopiesAreBehind' /\ PublishedIsStored'
<1> USE DEF StatusInv, jobCache, worker
<1>1. CountedIsStarted(job')
  BY StoredStep DEF StoredMoves, CopiesAreBehind, CountedIsStarted
<1>2. NotBack(vjob, job') /\ (pc # "idle" => NotBack(old, job'))
  BY NotBackTransitive DEF CopiesAreBehind
<1>3. ASSUME cache' = cache PROVE PublishedIsStored'
  BY <1>3 DEF PublishedIsStored, NotBack
<1>4. CASE Cluster
  <2>1. UNCHANGED <<job, vjob, pc, old, snap, cache>>
    BY <1>4 DEF Cluster, PodAppears, PodStarts, PodSucceeds, PodVanishes, PodDisturbed,
        UnschedulablePodDeleted, NodeReported, NodeRecovers, PodPreempted, PreemptedPodVanishes,
        Becomes, PodGroupMoves, PodGroupEvicted, TouchJob, outside
  <2> QED
    BY <2>1, <1>3 DEF CopiesAreBehind, NotBack, CountedIsStarted, RunningIsCounted, Deduced,
                      Promise!MayMove
<1>5. CASE DeliverJob
  <2>1. UNCHANGED <<job, pc, old, snap, cache>> /\ vjob' = job
    BY <1>5 DEF DeliverJob, outside
  <2> QED
    BY <2>1, <1>3 DEF CopiesAreBehind, NotBack, CountedIsStarted, RunningIsCounted, Deduced,
                      Promise!MayMove
<1>6. CASE Resync \/ CleanUp
  <2>1. UNCHANGED <<job, vjob, worker, cache>>
    BY <1>6 DEF Resync, CleanUp, cleanupNextItem, CleanUpFails, outside
  <2> QED
    BY <2>1, <1>3, BehindFrame
<1>7. CASE Restart
  <2>1. Return /\ vjob' = job' /\ cache' = [r \in Roles |-> "None"]
    BY <1>7 DEF Restart
  <2>2. CountedIsStarted(vjob') /\ NotBack(vjob', job')
    BY <1>1, <2>1, NotBackReflexive
  <2>3. PublishedIsStored'
    BY <2>1 DEF PublishedIsStored
  <2> QED
    BY <1>1, <2>1, <2>2, <2>3, BehindReturn
<1>8. CASE Worker
  <2>1. ASSUME Return, vjob' = vjob, cache' = cache PROVE CopiesAreBehind' /\ PublishedIsStored'
    <3>1. NotBack(vjob', job') /\ CountedIsStarted(vjob')
      BY <1>2, <2>1 DEF CopiesAreBehind
    <3> QED
      BY <1>1, <1>3, <2>1, <3>1, BehindReturn
  <2>2. CASE Reconcile
    <3>1. UNCHANGED <<job, vjob, cache>>
      BY <2>2 DEF Reconcile, outside
    <3>2. CASE UNCHANGED worker
      BY <3>1, <3>2, <1>3, BehindFrame
    <3>3. CASE pc' = "podgroup" /\ old' = vjob /\ snap' = vjob
      BY <3>1, <3>3, <1>3 DEF CopiesAreBehind, NotBack, CountedIsStarted
    <3> QED
      BY <2>2, <3>2, <3>3 DEF Reconcile
  <2>3. CASE \/ PodGroupBreaks \/ PodGroupWriteFails \/ WaitForPodGroup \/ ReconcileJobsFails
             \/ ReconcileJobsRefused \/ UpdateJobStatusFails \/ SyncFromJobFails
    BY <2>1, <2>3 DEF PodGroupBreaks, PodGroupWriteFails, WaitForPodGroup, ReconcileJobsFails,
        ReconcileJobsRefused, UpdateJobStatusFails, SyncFromJobFails, Requeue, StatusWrite, outside
  <2>4. CASE SyncFromPodGroup
    <3>1. UNCHANGED <<job, vjob, old, snap, cache>> /\ pc' \in {"sync", "jobs"} /\ snap = old
          /\ NotBack(old, job)
      BY <2>4 DEF SyncFromPodGroup, CopyIsLatest, CopiesAreBehind, outside
    <3>2. \A r \in Roles : snap.roles[r] = "Running" => IsRoleStarted(job.roles[r])
      BY <3>1 DEF NotBack, IsRoleStarted
    <3> QED
      BY <3>1, <3>2, <1>3 DEF CopiesAreBehind, NotBack, CountedIsStarted
  <2>5. CASE SyncFromJob
    <3>1. UNCHANGED <<job, vjob, old, snap, cache>> /\ pc = "sync" /\ pc' = "handle"
      BY <2>5 DEF SyncFromJob, outside
    <3> QED
      BY <3>1, <1>3 DEF CopiesAreBehind, NotBack, CountedIsStarted
  <2>6. CASE LeaveFinishedJob
    <3>1. UNCHANGED <<job, vjob, old, cache>> /\ pc' = "write" /\ snap = old /\ snap \in Status
          /\ snap' = [snap EXCEPT !.count = FinishedCount(snap)]
      BY <2>6 DEF LeaveFinishedJob, CopyIsLatest, TypeOK, outside
    <3>2. snap'.roles = old.roles /\ snap'.phase = old.phase /\ snap'.count = FinishedCount(snap)
      BY <3>1 DEF Status
    <3>3. CountedIsStarted(snap')
      <4> SUFFICES ASSUME NEW r \in Roles, FinishedCount(snap)[r]["active"] >= Replicas[r]
                   PROVE  IsRoleStarted(snap.roles[r])
        BY <3>1, <3>2 DEF CountedIsStarted
      <4>1. FinishedCount(snap)[r]["active"] \in {0, snap.count[r]["active"]}
        BY DEF FinishedCount
      <4> QED
        BY <4>1, StatusSpec DEF CopiesAreBehind, CountedIsStarted
    <3>4. Deduced(old, snap')
      BY <3>2 DEF Deduced
    <3>5. RunningIsCounted(old, snap')
      BY <3>2 DEF RunningIsCounted, IsRoleStarted
    <3>6. pc = "jobs"
      BY <2>6 DEF LeaveFinishedJob
    <3> QED
      BY <3>1, <3>3, <3>4, <3>5, <3>6, <1>3
      DEF CopiesAreBehind, NotBack, CountedIsStarted, Deduced, RunningIsCounted, Promise!MayMove
  <2>7. CASE ReconcileJobs
    <3>1. /\ UNCHANGED <<job, vjob, old, cache>> /\ pc = "jobs" /\ pc' = "write"
          /\ snap = old /\ snap \in Status /\ snap' = UpdatePhases
          /\ ~IsFinished(snap.phase) /\ CountedIsStarted(snap)
      BY <2>7 DEF ReconcileJobs, MayReconcileJobs, CopyIsLatest, CopiesAreBehind, TypeOK, outside
    <3>2. Deduced(old, snap') /\ RunningIsCounted(old, snap') /\ CountedIsStarted(snap')
      BY <3>1, UpdatePhasesDeduces
    <3> QED
      BY <3>1, <3>2, <1>3
      DEF CopiesAreBehind, NotBack, CountedIsStarted, Deduced, RunningIsCounted, Promise!MayMove
  <2>8. CASE UpdateJobStatusInApiServer
    <3>1. UNCHANGED <<vjob, old, snap, cache>> /\ pc = "write" /\ pc' = "sync"
      BY <2>8 DEF UpdateJobStatusInApiServer, StatusWrite, outside
    <3>2. \A r \in Roles : snap.roles[r] = "Running" => IsRoleStarted(job'.roles[r])
      <4> SUFFICES ASSUME NEW r \in Roles, snap.roles[r] = "Running"
                   PROVE  IsRoleStarted(job'.roles[r])
        OBVIOUS
      <4>1. CASE JobStatusChanged
        BY <2>8, <4>1 DEF UpdateJobStatusInApiServer, StatusWrite, IsRoleStarted
      <4>2. CASE ~JobStatusChanged
        <5>1. snap.count = old.count
          BY <4>2 DEF JobStatusChanged
        <5>2. IsRoleStarted(old.roles[r])
          BY <3>1, <5>1 DEF CopiesAreBehind, RunningIsCounted, CountedIsStarted
        <5> QED
          BY <1>2, <3>1, <5>2 DEF NotBack
      <4> QED
        BY <4>1, <4>2
    <3>3. \A status \in {job', vjob, old, snap} : CountedIsStarted(status)
      BY <1>1 DEF CopiesAreBehind
    <3> QED
      BY <1>2, <1>3, <3>1, <3>2, <3>3 DEF CopiesAreBehind, NotBack, CountedIsStarted
  <2>9. CASE HandleRolePhases \/ HandleRolePhasesFails
    <3>1. /\ Return /\ UNCHANGED <<job, vjob>> /\ pc = "handle"
          /\ \A r \in Roles : cache'[r] \in {snap.roles[r], cache[r]}
      BY <2>9 DEF HandleRolePhases, HandleRolePhasesFails, Requeue, TypeOK
    <3>2. CopiesAreBehind'
      <4>1. NotBack(vjob', job') /\ CountedIsStarted(vjob')
        BY <1>2, <3>1 DEF CopiesAreBehind
      <4> QED
        BY <1>1, <3>1, <4>1, BehindReturn
    <3>3. PublishedIsStored'
      BY <3>1 DEF PublishedIsStored, CopiesAreBehind
    <3> QED
      BY <3>2, <3>3
  <2> QED
    BY <1>8, <2>2, <2>3, <2>4, <2>5, <2>6, <2>7, <2>8, <2>9 DEF Worker
<1> QED
  BY <1>4, <1>5, <1>6, <1>7, <1>8 DEF Next

-----------------------------------------------------------------------------
(* The status and the theorems about it. *)

(* What one step may do to the stored status. *)
StoredStepIsRight == NotBack(job, job') /\ StoredMoves

LEMMA StatusInvStep ==
    StatusInv /\ [Next]_vars => StatusInv' /\ [StoredStepIsRight]_vars
<1> SUFFICES ASSUME StatusInv, [Next]_vars
             PROVE  StatusInv' /\ [StoredStepIsRight]_vars
  OBVIOUS
<1>1. CASE Next
  <2>1. TypeOK' /\ CopyIsLatest' /\ NotBack(job, job')
    BY <1>1, TypeCluster, TypeOthers, TypeWorker, CopyStep DEF Next, StatusInv
  <2>2. CopiesAreBehind' /\ PublishedIsStored'
    BY <1>1, <2>1, BehindStep
  <2>3. StoredMoves
    BY <1>1, StoredStep
  <2> QED
    BY <2>1, <2>2, <2>3 DEF StatusInv, StoredStepIsRight
<1>2. CASE UNCHANGED vars
  <2>1. CopyIsLatest'
    BY <1>2, CopyFrame DEF StatusInv, vars
  <2>2. TypeOK'
    BY <1>2 DEF StatusInv, TypeOK, vars, jobCache, worker, outside, bounds
  <2>3. CopiesAreBehind'
    BY <1>2, BehindFrame DEF StatusInv, vars, jobCache
  <2>4. PublishedIsStored'
    BY <1>2 DEF StatusInv, PublishedIsStored, vars, outside
  <2> QED
    BY <1>2, <2>1, <2>2, <2>3, <2>4 DEF StatusInv
<1> QED
  BY <1>1, <1>2

LEMMA StatusInvInit == Init => StatusInv
<1> SUFFICES ASSUME Init PROVE StatusInv
  OBVIOUS
<1>1. TypeOK /\ CopyIsLatest
  BY TypeInit DEF Init, CopyIsLatest
<1>2. CopiesAreBehind
  BY NewStatusIsNotCounted, NotBackReflexive DEF Init, CopiesAreBehind
<1>3. PublishedIsStored
  BY DEF Init, PublishedIsStored
<1> QED
  BY <1>1, <1>2, <1>3 DEF StatusInv

(* The invariant behind the theorems that follow: the worker's copies are  *)
(* behind the stored status, a write that is accepted starts from the      *)
(* latest status, and what is deduced agrees with what is counted.         *)
THEOREM StatusInvariant == Spec => []StatusInv
  BY StatusInvInit, StatusInvStep, PTL DEF Spec

(* Every variable of JobStatus always has its type: in particular the      *)
(* phases that are deduced are phases, whatever pods are listed.           *)
THEOREM StatusTypeCorrect == Spec => []TypeOK
<1>1. StatusInv => TypeOK
  BY DEF StatusInv
<1> QED
  BY <1>1, StatusInvariant, PTL

(* For every number of roles, replicas, failures, refused writes and       *)
(* restarts: no status that Reconcile stores takes a role or the job back  *)
(* to a phase before Running.                                              *)
THEOREM StatusIsMonotone == Spec => StatusNeverGoesBack
<1>1. [StoredStepIsRight]_vars => [NotBack(job, job')]_vars
  BY DEF StoredStepIsRight
<1> QED
  BY <1>1, StatusInvInit, StatusInvStep, PTL DEF Spec, StatusNeverGoesBack

(* HandleRolePhases tells the role cache that a role runs only after that  *)
(* was stored, although the library does not write a status of which only  *)
(* the phase of a role has changed.                                        *)
THEOREM PublishedWasStored == Spec => []PublishedIsStored
<1>1. StatusInv => PublishedIsStored
  BY DEF StatusInv
<1> QED
  BY <1>1, StatusInvariant, PTL

(* A finished job keeps its phase, whatever copies are written back and    *)
(* whatever its pods do later; only an eviction makes a succeeded job      *)
(* fail, as long as nobody edits the definition.                           *)
THEOREM FinishedPhaseIsFinal == Spec => FinishedIsFinal
<1> DEFINE Final == IsFinished(job.phase) =>
                      \/ job.phase' = job.phase
                      \/ job.phase' = "Failed" /\ podGroup = "Evicted"
<1>1. [StoredStepIsRight]_vars => [Final]_vars
  BY DEF StoredStepIsRight, StoredMoves, Deduced
<1> QED
  BY <1>1, StatusInvInit, StatusInvStep, PTL DEF Spec, FinishedIsFinal

(* JobStatus implements JobPromise: a user who sees nothing but the stored *)
(* status sees roles that move as their policies allow and a job whose     *)
(* phase is the one deduced from them, or Failed by an eviction or because *)
(* a pod or a service was refused as invalid.                              *)
THEOREM StatusImplementsPromise == Spec => ImplementsPromise
<1>1. Init => Promise!Init
  BY DEF Init, Promise!Init, NewStatus
<1>2. StatusInv' /\ [StoredStepIsRight]_vars => [Promise!Next]_Promise!vars
  <2> SUFFICES ASSUME StatusInv', [StoredStepIsRight]_vars
               PROVE  [Promise!Next]_Promise!vars
    OBVIOUS
  <2>1. CASE Deduced(job, job')
    <3>1. job'.roles \in [Roles -> RolePhase]
      BY DEF StatusInv, TypeOK, Status
    <3>2. /\ Promise!IsFinished(job.phase) = IsFinished(job.phase)
          /\ Promise!RolePhase = RolePhase
          /\ Promise!GetJobPhase(job.phase, Policy, job'.roles)
               = GetJobPhase(job.phase, Policy, job'.roles)
      BY DEF Promise!IsFinished, IsFinished, Promise!RolePhase, RolePhase, Promise!JobPhase,
             JobPhase, Promise!GetJobPhase, GetJobPhase, Promise!SatisfyPolicy, SatisfyPolicy
    <3> QED
      BY <2>1, <3>1, <3>2 DEF Deduced, Promise!Next, Promise!Deduce, Promise!vars
  <2>2. CASE Gang /\ job'.phase = "Failed" /\ job'.roles = job.roles
    BY <2>2 DEF Promise!Next, Promise!Evict
  <2>3. CASE /\ ~IsFinished(job.phase) /\ job'.phase = "Failed"
             /\ \A r \in Roles : Promise!MayMove(r, job.roles[r], job'.roles[r])
    <3>1. job'.roles \in [Roles -> RolePhase]
      BY DEF StatusInv, TypeOK, Status
    <3>2. Promise!IsFinished(job.phase) = IsFinished(job.phase) /\ Promise!RolePhase = RolePhase
      BY DEF Promise!IsFinished, IsFinished, Promise!RolePhase, RolePhase, Promise!JobPhase,
             JobPhase
    <3> QED
      BY <2>3, <3>1, <3>2 DEF Promise!Next, Promise!Invalidate
  <2>4. CASE UNCHANGED vars
    BY <2>4 DEF vars, Promise!vars
  <2> QED
    BY <2>1, <2>2, <2>3, <2>4 DEF StoredStepIsRight, StoredMoves
<1> QED
  BY <1>1, <1>2, StatusInvInit, StatusInvStep, PTL DEF Spec, ImplementsPromise, Promise!Spec
=============================================================================
