------------------------- MODULE PodReconcileProofs -------------------------
(***************************************************************************)
(* Proofs about PodReconcile, for every set of roles, every restart        *)
(* policy, every bound.                                                    *)
(***************************************************************************)
EXTENDS PodReconcile, FiniteSetTheorems, TLAPS

(* The types of the records that the worker writes when it returns. *)
LEMMA NewJobType == NewJob \in JobObject /\ AnyRole \in Roles
  BY RolesAssumption, SpecAssumption DEF NewJob, JobObject, AnyRole

LEMMA ReturnType ==
    ASSUME TypeOK, Return
    PROVE  /\ snap' \in JobObject /\ lstage' \in [Pod -> Stage] /\ lphase' \in [Pod -> Phase]
           /\ pc' \in Pc /\ todo' \subseteq Roles /\ cur' \in Roles /\ idx' \in Nat
           /\ snapFresh' \in BOOLEAN
  BY NewJobType DEF Return, Stage, Phase, Pc

(* TypeOK holds of the initial state. *)
LEMMA TypeInit == Init => TypeOK
  BY NewJobType, BoundsAssumption DEF Init, TypeOK, Stage, Phase, Heard, Pc

(* What the cluster does keeps TypeOK. *)
LEMMA TypeCluster == TypeOK /\ Cluster => TypeOK'
<1> SUFFICES ASSUME TypeOK, Cluster PROVE TypeOK'
  OBVIOUS
<1>1. CASE \E p \in Pod, result \in Exits : Fail(p, result)
  BY <1>1, SpecAssumption, BoundsAssumption
  DEF TypeOK, Fail, Disturb, podCache, jobCache, expVars, locals, Phase
<1>2. CASE \E p \in Pod : EvictPod(p)
  BY <1>2, BoundsAssumption DEF TypeOK, EvictPod, Disturb, podCache, jobCache, expVars, locals, Stage
<1>3. CASE \E p \in Pod : Vanish(p)
  BY <1>3 DEF TypeOK, Vanish, podCache, jobCache, expVars, locals, bounds, Stage
<1>4. CASE \E r \in Roles, n \in 1 .. MaxReplicas : ScaleRole(r, n)
  <2> PICK r \in Roles, n \in 1 .. MaxReplicas : ScaleRole(r, n)
    BY <1>4
  <2>1. job' \in JobObject
    BY DEF TypeOK, ScaleRole, JobObject
  <2>2. fresh' \in BOOLEAN /\ snapFresh' \in BOOLEAN
    BY DEF ScaleRole
  <2>3. scales' \in 0 .. MaxScale
    BY BoundsAssumption DEF TypeOK, ScaleRole
  <2>4. UNCHANGED <<podVars, podCache, vjob, queued, expVars, pc, locals, trusted, disturbs,
                    restarts, faults>>
    BY DEF ScaleRole
  <2> QED
    BY <2>1, <2>2, <2>3, <2>4 DEF TypeOK, podVars, podCache, expVars, locals
<1> QED
  BY <1>1, <1>2, <1>3, <1>4 DEF Cluster

(* What the informers and the clock do keeps TypeOK. *)
LEMMA TypeInformers == TypeOK /\ Informers => TypeOK'
<1> SUFFICES ASSUME TypeOK, Informers PROVE TypeOK'
  OBVIOUS
<1>1. CASE \E p \in Pod : UpdateObject(p)
  BY <1>1 DEF TypeOK, UpdateObject, podVars, jobCache, expVars, locals, bounds
<1>2. CASE \E p \in Pod : MissPod(p)
  BY <1>2, BoundsAssumption DEF TypeOK, MissPod, podVars, jobCache, expVars, locals, Stage, Heard
<1>3. CASE \E p \in Pod : AddObject(p)
  <2> PICK p \in Pod : AddObject(p)
    BY <1>3
  <2>1. expAdd' \in [Roles -> Int] /\ heard' \in [Pod -> Heard] /\ trusted' \in BOOLEAN
    BY DEF TypeOK, AddObject, Lowered, Pod, RoleOf, Heard
  <2> QED
    BY <2>1 DEF TypeOK, AddObject, podVars, jobCache, locals, bounds
<1>4. CASE \E p \in Pod : DeleteObject(p)
  <2> PICK p \in Pod : DeleteObject(p)
    BY <1>4
  <2>1. expDel' \in [Roles -> Int] /\ heard' \in [Pod -> Heard]
    BY DEF TypeOK, DeleteObject, Lowered, Pod, RoleOf, Heard
  <2> QED
    BY <2>1 DEF TypeOK, DeleteObject, podVars, jobCache, locals, bounds
<1>5. CASE DeliverJob
  BY <1>5 DEF TypeOK, DeliverJob, podVars, podCache, expVars, locals, bounds
<1>6. CASE Resync
  BY <1>6 DEF TypeOK, Resync, podVars, podCache, jobCache, expVars, locals, bounds
<1>7. CASE \E r \in Roles : Expire(r)
  BY <1>7 DEF TypeOK, Expire, podVars, podCache, jobCache, locals, bounds
<1> QED
  BY <1>1, <1>2, <1>3, <1>4, <1>5, <1>6, <1>7 DEF Informers

(* A restart of the process keeps TypeOK. *)
LEMMA TypeRestart == TypeOK /\ Restart => TypeOK'
<1> SUFFICES ASSUME TypeOK, Restart PROVE TypeOK'
  OBVIOUS
<1>1. heard' \in [Pod -> Heard]
  BY DEF Restart, Heard
<1> QED
  BY <1>1, ReturnType, BoundsAssumption DEF TypeOK, Restart, podVars

(* Every step of the worker keeps TypeOK. *)
LEMMA TypeWorker == TypeOK /\ Worker => TypeOK'
<1> SUFFICES ASSUME TypeOK, Worker PROVE TypeOK'
  OBVIOUS
<1> USE DEF podVars, podCache, jobCache, expVars, locals, bounds
<1>1. CASE Reconcile \/ SkipReconcile
  BY <1>1 DEF TypeOK, Reconcile, SkipReconcile, Pc
<1>2. CASE ResetExpectations
  BY <1>2 DEF TypeOK, ResetExpectations, Pc
<1>3. CASE GetPodsForJob
  BY <1>3 DEF TypeOK, GetPodsForJob, Pc
<1>4. CASE LeaveFinishedJob
  BY <1>4, ReturnType DEF TypeOK, LeaveFinishedJob
<1>5. CASE \E r \in Roles : ReconcilePods(r)
  BY <1>5 DEF TypeOK, ReconcilePods, Pc
<1>6. CASE SkipIndex
  BY <1>6 DEF TypeOK, SkipIndex, NextIndex, Pc
<1>7. CASE RaiseCreation
  BY <1>7 DEF TypeOK, RaiseCreation, Pc
<1>8. CASE CreateNewPod
  <2>1. stage' \in [Pod -> Stage]
    BY <1>8 DEF TypeOK, CreateNewPod, NewPods, Stage
  <2> QED
    BY <1>8, <2>1 DEF TypeOK, CreateNewPod, NextIndex, Pc
<1>9. CASE CreateTimesOut
  BY <1>9, BoundsAssumption DEF TypeOK, CreateTimesOut, NextIndex, Pc
<1>10. CASE CreateFails
  <2>1. faults' \in 0 .. MaxFault /\ expAdd' \in [Roles -> Int]
    BY <1>10, BoundsAssumption DEF TypeOK, CreateFails, Lowered
  <2>2. Return /\ queued' = TRUE
    BY <1>10 DEF CreateFails, Requeue
  <2> QED
    BY <1>10, <2>1, <2>2, ReturnType DEF TypeOK, CreateFails
<1>11. CASE \E p \in Pod : TrimPod(p) \/ RestartPod(p)
  <2>1. stage' \in [Pod -> Stage]
    BY <1>11 DEF TypeOK, TrimPod, RestartPod, DeletePod, Stage
  <2> QED
    BY <1>11, <2>1 DEF TypeOK, TrimPod, RestartPod, Pc
<1>12. CASE RaiseTrim \/ RaiseRestart
  BY <1>12 DEF TypeOK, RaiseTrim, RaiseRestart, NextIndex, Pc
<1>13. CASE \E p \in Pod : KeepPod(p)
  BY <1>13 DEF TypeOK, KeepPod, NextIndex, Pc
<1>14. CASE FinishRole
  BY <1>14 DEF TypeOK, FinishRole, Pc
<1>15. CASE CallFails
  <2>1. faults' \in 0 .. MaxFault
    BY <1>15, BoundsAssumption DEF TypeOK, CallFails
  <2>2. Return /\ queued' = TRUE
    BY <1>15 DEF CallFails, Requeue
  <2> QED
    BY <1>15, <2>1, <2>2, ReturnType DEF TypeOK, CallFails
<1>16. CASE UpdateJobStatus
  <2>1. job' \in JobObject /\ fresh' \in BOOLEAN
    <3>1. CASE UNCHANGED <<job, fresh>>
      BY <3>1 DEF TypeOK
    <3>2. CASE \E s \in SUBSET {r \in Roles : Never(r)}, f \in {FALSE, MayFinish} :
                 job' = [job EXCEPT !.started = @ \union s, !.finished = @ \/ f]
      BY <1>16, <3>1, <3>2, SpecAssumption DEF TypeOK, UpdateJobStatus, JobObject
    <3> QED
      BY <1>16, <3>1, <3>2 DEF UpdateJobStatus
  <2>2. Return
    BY <1>16 DEF UpdateJobStatus
  <2>3. UNCHANGED <<podVars, podCache, vjob, queued, expVars, trusted, bounds>>
    BY <1>16 DEF UpdateJobStatus
  <2> QED
    BY <2>1, <2>2, <2>3, ReturnType DEF TypeOK
<1>17. CASE UpdateConflicts
  BY <1>17, ReturnType DEF TypeOK, UpdateConflicts, Requeue
<1> QED
  BY <1>1, <1>2, <1>3, <1>4, <1>5, <1>6, <1>7, <1>8, <1>9, <1>10, <1>11, <1>12, <1>13,
     <1>14, <1>15, <1>16, <1>17 DEF Worker

LEMMA TypeStutter == TypeOK /\ UNCHANGED vars => TypeOK'
  BY DEF TypeOK, vars, podVars, podCache, jobCache, expVars, locals, bounds

(* Every variable of PodReconcile always has its type; in particular the   *)
(* worker never leaves the roles and the expectations stay integers.       *)
THEOREM TypeCorrect == Spec => []TypeOK
<1>1. TypeOK /\ [Next]_vars => TypeOK'
  BY TypeCluster, TypeInformers, TypeRestart, TypeWorker, TypeStutter DEF Next
<1> QED
  BY <1>1, TypeInit, PTL DEF Spec

-----------------------------------------------------------------------------
(* Finiteness, and what a step can do to the unreported pods. *)

LEMMA PodFinite == IsFiniteSet(Pod)
<1> DEFINE T == (Roles \X Index) \X (1 .. MaxGen)
           f == [p \in Pod |-> <<<<p[1], p[2]>>, p[3]>>]
<1>1. IsFiniteSet(Index) /\ IsFiniteSet(1 .. MaxGen)
  BY FS_Interval, BoundsAssumption DEF Index
<1>2. IsFiniteSet(Roles \X Index)
  BY <1>1, FS_Product, RolesAssumption
<1>3. IsFiniteSet(T)
  BY <1>1, <1>2, FS_Product
<1>4. f \in Injection(Pod, T)
  BY DEF Injection, IsInjective, Pod
<1> QED
  BY <1>3, <1>4, FS_Injection

LEMMA UnheardFinite ==
    ASSUME NEW r
    PROVE  /\ IsFiniteSet(Unheard(r)) /\ Cardinality(Unheard(r)) \in Nat
           /\ Cardinality(Unheard(r)) = 0 <=> Unheard(r) = {}
<1>1. Unheard(r) \in SUBSET Pod
  BY DEF Unheard
<1>2. IsFiniteSet(Unheard(r))
  BY <1>1, PodFinite, FS_Subset
<1> QED
  BY <1>2, FS_CardinalityType, FS_EmptySet

LEMMA PodType ==
    ASSUME NEW p \in Pod
    PROVE  RoleOf(p) \in Roles /\ IndexOf(p) \in Nat /\ GenOf(p) \in Nat
  BY BoundsAssumption DEF Pod, RoleOf, IndexOf, GenOf, Index

(* A history variable: trust once lost is not regained. *)
LEMMA TrustedStep == ASSUME Next PROVE trusted' => trusted
<1> USE DEF expVars, locals, bounds, podVars, podCache, jobCache
<1>1. CASE Cluster
  BY <1>1 DEF Cluster, Fail, EvictPod, Vanish, ScaleRole
<1>2. CASE Informers
  BY <1>2 DEF Informers, UpdateObject, MissPod, AddObject, DeleteObject, DeliverJob, Resync, Expire
<1>3. CASE Worker
  BY <1>3 DEF Worker, Reconcile, SkipReconcile, ResetExpectations, GetPodsForJob,
     LeaveFinishedJob, ReconcilePods, SkipIndex, RaiseCreation, CreateNewPod, CreateTimesOut,
     CreateFails, TrimPod, RestartPod, KeepPod, RaiseTrim, RaiseRestart, FinishRole, CallFails,
     UpdateJobStatus, UpdateConflicts
<1>4. CASE Restart
  BY <1>4 DEF Restart
<1> QED
  BY <1>1, <1>2, <1>3, <1>4 DEF Next

(* Which steps touch which part of the state.  Every step but a creation   *)
(* leaves the set of created pods, and brings no pod back to life.         *)
LEMMA StageStep ==
    ASSUME TypeOK, Next, ~CreateNewPod
    PROVE  \A p \in Pod : /\ stage'[p] = "none" <=> stage[p] = "none"
                          /\ stage'[p] = "alive" => stage[p] = "alive"
<1> USE DEF podVars
<1>1. CASE stage' = stage
  BY <1>1
<1>2. CASE \E p \in Pod : EvictPod(p) \/ Vanish(p)
  BY <1>2 DEF TypeOK, EvictPod, Vanish
<1>3. CASE \E p \in Pod : DeletePod(p)
  BY <1>3 DEF TypeOK, DeletePod
<1>4. Cluster => stage' = stage \/ \E p \in Pod : EvictPod(p) \/ Vanish(p)
  BY DEF Cluster, Fail, ScaleRole
<1>5. Informers \/ Restart => stage' = stage
  BY DEF Informers, UpdateObject, MissPod, AddObject, DeleteObject, DeliverJob, Resync, Expire, Restart
<1>6. Worker => stage' = stage \/ \E p \in Pod : DeletePod(p)
  BY DEF Worker, Reconcile, SkipReconcile, ResetExpectations, GetPodsForJob,
     LeaveFinishedJob, ReconcilePods, SkipIndex, RaiseCreation, CreateTimesOut,
     CreateFails, TrimPod, RestartPod, KeepPod, RaiseTrim, RaiseRestart, FinishRole, CallFails,
     UpdateJobStatus, UpdateConflicts
<1> QED
  BY <1>1, <1>2, <1>3, <1>4, <1>5, <1>6 DEF Next

(* A creation makes one pod of the role and index at hand, and the loop    *)
(* goes on with the next index.                                            *)
LEMMA CreateStep ==
    ASSUME TypeOK, CreateNewPod
    PROVE  \E p \in Pod :
              /\ RoleOf(p) = cur /\ IndexOf(p) = idx /\ stage[p] = "none" /\ ~NameTaken(p)
              /\ stage'[p] = "alive" /\ \A q \in Pod \ {p} : stage'[q] = stage[q]
              /\ pc = "create" /\ pc' = "index" /\ idx' = idx + 1
              /\ UNCHANGED <<vstage, heard, known, expAdd, lstage, todo, cur, trusted>>
<1> PICK p \in NewPods : ~NameTaken(p) /\ stage' = [stage EXCEPT ![p] = "alive"]
  BY DEF CreateNewPod
<1>1. p \in Pod /\ RoleOf(p) = cur /\ IndexOf(p) = idx /\ stage[p] = "none"
  BY DEF NewPods
<1>2. stage'[p] = "alive" /\ \A q \in Pod \ {p} : stage'[q] = stage[q]
  BY <1>1 DEF TypeOK
<1> QED
  BY <1>1, <1>2 DEF CreateNewPod, NextIndex, podCache, expVars

(* The informer's cache of a pod stays or takes the present state, and the *)
(* handlers run only for pods in the cache.                                *)
LEMMA ViewStep ==
    ASSUME TypeOK, Next
    PROVE  \A p \in Pod : /\ \/ vstage'[p] = vstage[p]
                             \/ vstage'[p] = stage[p] /\ stage'[p] = stage[p]
                          /\ \/ heard'[p] = heard[p] \/ heard'[p] = "none"
                             \/ vstage'[p] # "none"
<1> USE DEF podVars, podCache
<1>1. CASE UNCHANGED <<vstage, heard>>
  BY <1>1
<1>2. CASE \E p \in Pod : UpdateObject(p)
  BY <1>2 DEF TypeOK, UpdateObject
<1>3. CASE \E p \in Pod : MissPod(p)
  BY <1>3 DEF TypeOK, MissPod
<1>4. CASE \E p \in Pod : AddObject(p) \/ DeleteObject(p)
  BY <1>4 DEF TypeOK, AddObject, DeleteObject
<1>5. CASE Restart
  BY <1>5 DEF TypeOK, Restart
<1>6. Cluster => UNCHANGED <<vstage, heard>>
  BY DEF Cluster, Fail, EvictPod, Vanish, ScaleRole
<1>7. DeliverJob \/ Resync \/ (\E r \in Roles : Expire(r)) => UNCHANGED <<vstage, heard>>
  BY DEF DeliverJob, Resync, Expire
<1>8. Worker => UNCHANGED <<vstage, heard>>
  BY DEF Worker, Reconcile, SkipReconcile, ResetExpectations, GetPodsForJob,
     LeaveFinishedJob, ReconcilePods, SkipIndex, RaiseCreation, CreateNewPod, CreateTimesOut,
     CreateFails, TrimPod, RestartPod, KeepPod, RaiseTrim, RaiseRestart, FinishRole, CallFails,
     UpdateJobStatus, UpdateConflicts
<1> QED
  BY <1>1, <1>2, <1>3, <1>4, <1>5, <1>6, <1>7, <1>8 DEF Next, Informers

(* How the worker comes to walk through the roles, and how it goes on. *)
LEMMA WalkStep ==
    ASSUME TypeOK, Next, Walking', ~GetPodsForJob
    PROVE  /\ Walking /\ lstage' = lstage
           /\ \/ UNCHANGED <<pc, cur, todo, idx>>
              \/ \E r \in Roles : ReconcilePods(r)
              \/ FinishRole
              \/ RaiseCreation
              \/ /\ InRole /\ InRole' /\ pc' # "create" /\ UNCHANGED <<cur, todo>>
                 /\ idx' \in {idx, idx + 1}
<1> USE DEF locals, InRole, Walking
<1>1. Cluster => UNCHANGED <<pc, cur, todo, idx, lstage>>
  BY DEF Cluster, Fail, EvictPod, Vanish, ScaleRole
<1>2. Informers => UNCHANGED <<pc, cur, todo, idx, lstage>>
  BY DEF Informers, UpdateObject, MissPod, AddObject, DeleteObject, DeliverJob, Resync, Expire
<1>3. ~Restart
  BY DEF Restart, Return
<1>4. CASE Worker
  <2>1. ~(Reconcile \/ ResetExpectations)
    BY DEF Reconcile, ResetExpectations
  <2>2. ~(LeaveFinishedJob \/ CreateFails \/ CallFails \/ UpdateJobStatus \/ UpdateConflicts)
    BY DEF LeaveFinishedJob, CreateFails, CallFails, UpdateJobStatus, UpdateConflicts, Requeue, Return
  <2>3. CASE SkipReconcile
    BY <2>3 DEF SkipReconcile
  <2>4. CASE \E r \in Roles : ReconcilePods(r)
    BY <2>4 DEF ReconcilePods
  <2>5. CASE SkipIndex \/ CreateNewPod \/ CreateTimesOut \/ \E p \in Pod : KeepPod(p)
    <3>1. pc \in {"index", "create", "inspect"}
      BY <2>5 DEF SkipIndex, CreateNewPod, CreateTimesOut, KeepPod, Inspecting
    <3>2. UNCHANGED <<cur, todo, lstage>> /\ NextIndex
      BY <2>5 DEF SkipIndex, CreateNewPod, CreateTimesOut, KeepPod
    <3> QED
      BY <3>1, <3>2 DEF NextIndex
  <2>6. CASE RaiseCreation \/ FinishRole
    BY <2>6 DEF RaiseCreation, FinishRole
  <2>7. CASE \E p \in Pod : TrimPod(p) \/ RestartPod(p)
    BY <2>7 DEF TrimPod, RestartPod, OutOfRange, Inspecting
  <2>8. CASE RaiseTrim \/ RaiseRestart
    BY <2>8 DEF RaiseTrim, RaiseRestart, NextIndex
  <2> QED
    BY <1>4, <2>1, <2>2, <2>3, <2>4, <2>5, <2>6, <2>7, <2>8 DEF Worker
<1> QED
  BY <1>1, <1>2, <1>3, <1>4 DEF Next

-----------------------------------------------------------------------------
(* The parts of IInv, one by one. *)

LEMMA CachesLagStep == ASSUME TypeOK, CachesLag, Next PROVE CachesLag'
<1> SUFFICES ASSUME NEW p \in Pod
             PROVE  (/\ stage[p] = "none" => vstage[p] = "none"
                     /\ vstage[p] = "none" => heard[p] = "none"
                     /\ stage[p] = "alive" => vstage[p] \in {"none", "alive"}
                     /\ Walking /\ stage[p] = "alive" => lstage[p] \in {"none", "alive"}
                     /\ Walking /\ stage[p] = "none" => lstage[p] = "none")'
  BY DEF CachesLag
<1>1. /\ stage'[p] = "none" => stage[p] = "none"
      /\ stage'[p] = "alive" => stage[p] \in {"none", "alive"}
  BY StageStep, CreateStep
<1>2. \/ vstage'[p] = vstage[p]
      \/ vstage'[p] = stage[p] /\ stage'[p] = stage[p]
  BY ViewStep
<1>3. heard'[p] = heard[p] \/ heard'[p] = "none" \/ vstage'[p] # "none"
  BY ViewStep
<1>4. Walking' => \/ Walking /\ lstage' = lstage
                  \/ lstage' = vstage /\ stage' = stage
  BY WalkStep DEF GetPodsForJob, podVars
<1> QED
  BY <1>1, <1>2, <1>3, <1>4 DEF CachesLag

LEMMA ListCoversStep ==
    ASSUME TypeOK, CachesLag, ExpectationsCover, ListCovers, Next
    PROVE  ListCovers'
<1> USE DEF InRole, Walking
<1>1. CASE GetPodsForJob
  <2>1. ASSUME trusted', NEW p \in Pod, stage'[p] = "alive"
        PROVE  lstage'[p] # "none"
    <3>1. trusted /\ pc = "list" /\ stage' = stage /\ lstage' = vstage
      BY <1>1, TrustedStep, <2>1 DEF GetPodsForJob, podVars
    <3>2. Unheard(RoleOf(p)) = {}
      BY <3>1, PodType DEF ExpectationsCover
    <3>3. heard[p] # "none"
      BY <2>1, <3>1, <3>2 DEF Unheard
    <3> QED
      BY <3>1, <3>3 DEF CachesLag
  <2> QED
    BY <1>1, <2>1 DEF ListCovers, GetPodsForJob
<1>2. CASE ~GetPodsForJob /\ Walking'
  <2>1. /\ Walking /\ lstage' = lstage
        /\ \/ UNCHANGED <<pc, cur, todo, idx>>
           \/ \E r \in Roles : ReconcilePods(r)
           \/ FinishRole
           \/ RaiseCreation
           \/ /\ InRole /\ InRole' /\ pc' # "create" /\ UNCHANGED <<cur, todo>>
              /\ idx' \in {idx, idx + 1}
    BY <1>2, WalkStep
  <2>2. InRole' => cur' \in todo'
    BY <2>1 DEF ListCovers, ReconcilePods, FinishRole, RaiseCreation, locals
  <2>3. pc' = "create" => /\ GetPodSlices(idx) = {} /\ UNCHANGED <<cur, idx>>
    BY <2>1 DEF ListCovers, ReconcilePods, FinishRole, RaiseCreation, locals
  <2>4. pc' = "create" => GetPodSlices(idx)' = {}
    BY <2>1, <2>3 DEF GetPodSlices, ReconcilingPods, FilterPodsForReplicaType, FilterAlivePods
  <2>5. ASSUME trusted', NEW p \in Pod, stage'[p] = "alive", lstage'[p] = "none",
               RoleOf(p) \in todo'
        PROVE  InRole' /\ RoleOf(p) = cur' /\ IndexOf(p) < idx'
    <3>1. trusted
      BY <2>5, TrustedStep
    <3>2. CASE stage[p] = "alive"
      <4>1. RoleOf(p) \in todo
        BY <2>1, <2>5 DEF ReconcilePods, FinishRole, RaiseCreation, locals
      <4>2. InRole /\ RoleOf(p) = cur /\ IndexOf(p) < idx
        BY <2>1, <2>5, <3>1, <3>2, <4>1 DEF ListCovers
      <4>3. ~FinishRole /\ ~\E r \in Roles : ReconcilePods(r)
        BY <2>5, <4>2 DEF FinishRole, ReconcilePods
      <4> QED
        BY <2>1, <4>2, <4>3, PodType DEF TypeOK, RaiseCreation, locals
    <3>3. CASE stage[p] # "alive"
      <4>1. CreateNewPod
        BY <2>5, <3>3, StageStep
      <4>2. /\ RoleOf(p) = cur /\ IndexOf(p) = idx
            /\ pc' = "index" /\ cur' = cur /\ idx' = idx + 1
        BY <2>5, <3>3, <4>1, CreateStep
      <4> QED
        BY <4>2, PodType
    <3> QED
      BY <3>2, <3>3
  <2> QED
    BY <2>2, <2>4, <2>5 DEF ListCovers
<1>3. CASE ~Walking'
  BY <1>3 DEF ListCovers
<1> QED
  BY <1>1, <1>2, <1>3

LEMMA NoDuplicateStep ==
    ASSUME TypeOK, CachesLag, ListCovers, NoDuplicatePods, Next
    PROVE  NoDuplicatePods'
<1> SUFFICES ASSUME trusted', NEW p \in Pod, NEW q \in Pod, stage'[p] = "alive",
                    stage'[q] = "alive", SamePlace(p, q), p # q
             PROVE  FALSE
  BY DEF NoDuplicatePods
<1>1. trusted
  BY TrustedStep
<1>2. CreateNewPod
  BY <1>1, StageStep DEF NoDuplicatePods
<1>3. PICK n \in Pod :
         /\ RoleOf(n) = cur /\ IndexOf(n) = idx /\ stage[n] = "none" /\ ~NameTaken(n)
         /\ stage'[n] = "alive" /\ \A m \in Pod \ {n} : stage'[m] = stage[m]
         /\ pc = "create"
  BY <1>2, CreateStep
(* One of the two pods is the new one; o is the other one. *)
<1>4. PICK o \in Pod : SamePlace(n, o) /\ stage[o] = "alive"
  BY <1>1, <1>3 DEF NoDuplicatePods, SamePlace
<1>5. ~Never(cur)
  BY <1>3, <1>4 DEF NameTaken
<1>6. lstage[o] \in {"none", "alive"}
  BY <1>3, <1>4 DEF CachesLag, Walking, InRole
<1>7. lstage[o] # "alive"
  BY <1>3, <1>4, <1>5 DEF ListCovers, GetPodSlices, ReconcilingPods, FilterAlivePods,
                          FilterPodsForReplicaType, SamePlace
<1>8. lstage[o] # "none"
  BY <1>1, <1>3, <1>4, PodType DEF ListCovers, SamePlace, Walking, InRole
<1> QED
  BY <1>6, <1>7, <1>8

(* ExpectationsCover, for one role. *)
Covered(r) ==
    /\ Unheard(r) # {} => r \in known /\ Outstanding(r) <= expAdd[r]
    /\ pc \in {"reset", "list"} => Unheard(r) = {}
    /\ pc \notin {"idle", "reset"} => r \in known /\ Outstanding(r) <= expAdd[r]

(* A step that touches neither the unreported pods nor the records keeps   *)
(* a role covered, unless it starts a reconcile or a creation.             *)
LEMMA CoveredFrame ==
    ASSUME NEW r \in Roles, TypeOK, TypeOK', Covered(r), Unheard(r)' = Unheard(r),
           UNCHANGED <<known, expAdd>>,
           pc' \in {"reset", "list"} => pc \in {"reset", "list"},
           pc' \notin {"idle", "reset"} => pc \notin {"idle", "reset"},
           pc' = "create" => pc = "create" /\ cur' = cur
    PROVE  Covered(r)'
  BY UnheardFinite DEF Covered, Outstanding, TypeOK

LEMMA UnheardFrame ==
    ASSUME NEW r \in Roles, TypeOK, Next, ~CreateNewPod, heard' = heard
    PROVE  Unheard(r)' = Unheard(r)
  BY StageStep DEF Unheard

(* An addition lowers the record of a pod that was outstanding.  For a pod *)
(* of the initial list, trust is kept only if nothing is outstanding.      *)
LEMMA CoveredAdd ==
    ASSUME NEW r \in Roles, TypeOK, TypeOK', CachesLag, Covered(r), trusted',
           NEW p \in Pod, AddObject(p)
    PROVE  Covered(r)'
<1>1. /\ heard[p] \in {"none", "listed"} /\ vstage[p] # "none" /\ stage[p] # "none"
      /\ heard'[p] = "added" /\ \A q \in Pod \ {p} : heard'[q] = heard[q]
      /\ UNCHANGED <<stage, known, pc, cur>>
  BY DEF AddObject, CachesLag, TypeOK, podVars, locals
<1>2. expAdd'[r] = IF r = RoleOf(p) /\ r \in known THEN expAdd[r] - 1 ELSE expAdd[r]
  BY PodType DEF AddObject, Lowered, TypeOK
<1>3. CASE heard[p] = "none" /\ RoleOf(p) = r
  <2>1. p \in Unheard(r) /\ Unheard(r)' = Unheard(r) \ {p}
    BY <1>1, <1>3 DEF Unheard
  <2>2. Cardinality(Unheard(r)') = Cardinality(Unheard(r)) - 1
    BY <2>1, UnheardFinite, FS_RemoveElement
  <2>3. r \in known /\ Outstanding(r) <= expAdd[r]
    BY <2>1 DEF Covered
  <2> QED
    BY <1>1, <1>2, <1>3, <2>1, <2>2, <2>3, UnheardFinite DEF Covered, Outstanding, TypeOK
<1>4. CASE ~(heard[p] = "none" /\ RoleOf(p) = r)
  <2>1. Unheard(r)' = Unheard(r)
    BY <1>1, <1>4 DEF Unheard
  <2>2. CASE expAdd'[r] = expAdd[r]
    BY <1>1, <2>1, <2>2 DEF Covered, Outstanding
  <2>3. CASE expAdd'[r] # expAdd[r]
    <3>1. expAdd[r] <= 0 /\ pc \in {"idle", "reset"}
      BY <1>1, <1>2, <1>4, <2>3 DEF AddObject, LateAddIsHarmless
    <3>2. Unheard(r) = {}
      BY <3>1, UnheardFinite DEF Covered, Outstanding, TypeOK
    <3> QED
      BY <1>1, <2>1, <3>1, <3>2 DEF Covered
  <2> QED
    BY <2>2, <2>3
<1> QED
  BY <1>3, <1>4

LEMMA CoveredMiss ==
    ASSUME NEW r \in Roles, TypeOK, TypeOK', CachesLag, Covered(r), NEW p \in Pod, MissPod(p)
    PROVE  Covered(r)'
<1>1. /\ heard'[p] = "deleted" /\ \A q \in Pod \ {p} : heard'[q] = heard[q]
      /\ UNCHANGED <<stage, known, expAdd, pc, cur>>
  BY DEF MissPod, TypeOK, podVars, expVars, locals
<1>2. Unheard(r)' = Unheard(r) \ {p}
  BY <1>1 DEF Unheard
<1>3. Unheard(r) \ {p} \in SUBSET Unheard(r)
  OBVIOUS
<1>4. /\ IsFiniteSet(Unheard(r) \ {p})
      /\ Cardinality(Unheard(r) \ {p}) <= Cardinality(Unheard(r))
  BY <1>3, UnheardFinite, FS_Subset
<1>5. Cardinality(Unheard(r) \ {p}) \in Nat
  BY <1>4, FS_CardinalityType
<1> QED
  BY <1>1, <1>2, <1>4, <1>5, UnheardFinite DEF Covered, Outstanding, TypeOK

(* Reconcile goes on only when no pod of the role is unreported. *)
LEMMA CoveredReconcile ==
    ASSUME NEW r \in Roles, TypeOK, Covered(r), Unheard(r)' = Unheard(r), trusted', Reconcile
    PROVE  Covered(r)'
<1>1. Unheard(r) = {}
  <2>1. CASE r \notin known
    BY <2>1 DEF Covered
  <2>2. CASE r \in expired
    BY <2>2 DEF Reconcile
  <2>3. CASE Fulfilled(r)
    BY <2>3, UnheardFinite DEF Covered, Fulfilled, Outstanding, TypeOK
  <2> QED
    BY <2>1, <2>2, <2>3 DEF Reconcile, SatisfiedExpectations, Satisfied
<1> QED
  BY <1>1 DEF Covered, Reconcile

(* A creation takes the place that RaiseCreation reserved in the record. *)
LEMMA CoveredCreate ==
    ASSUME NEW r \in Roles, TypeOK, TypeOK', CachesLag, Covered(r), CreateNewPod
    PROVE  Covered(r)'
<1> PICK p \in Pod :
        /\ RoleOf(p) = cur /\ stage[p] = "none" /\ stage'[p] = "alive"
        /\ \A q \in Pod \ {p} : stage'[q] = stage[q]
        /\ pc = "create" /\ pc' = "index"
        /\ UNCHANGED <<heard, known, expAdd, cur>>
  BY CreateStep
<1>1. CASE r = cur
  <2>1. heard[p] = "none"
    BY DEF CachesLag
  <2>2. p \notin Unheard(r) /\ Unheard(r)' = Unheard(r) \cup {p}
    BY <1>1, <2>1 DEF Unheard
  <2>3. Cardinality(Unheard(r)') = Cardinality(Unheard(r)) + 1
    BY <2>2, UnheardFinite, FS_AddElement
  <2> QED
    BY <1>1, <2>3, UnheardFinite DEF Covered, Outstanding, TypeOK
<1>2. CASE r # cur
  <2>1. Unheard(r)' = Unheard(r)
    BY <1>2 DEF Unheard
  <2> QED
    BY <2>1, CoveredFrame
<1> QED
  BY <1>1, <1>2

LEMMA ExpectationsStep ==
    ASSUME TypeOK, TypeOK', CachesLag, ExpectationsCover, Next
    PROVE  ExpectationsCover'
<1> SUFFICES ASSUME trusted', NEW r \in Roles PROVE Covered(r)'
  BY DEF ExpectationsCover, Covered
<1>c. Covered(r)
  BY TrustedStep DEF ExpectationsCover, Covered
<1> USE DEF podCache, expVars, locals
<1>1. CASE Cluster
  <2>1. ~CreateNewPod /\ UNCHANGED <<heard, known, expAdd, pc, cur>>
    <3>1. UNCHANGED <<heard, known, expAdd, pc, cur>>
      BY <1>1 DEF Cluster, Fail, EvictPod, Vanish, ScaleRole
    <3> QED
      BY <3>1 DEF CreateNewPod, NextIndex
  <2> QED
    BY <1>c, <2>1, UnheardFrame, CoveredFrame
<1>2. CASE \E p \in Pod : UpdateObject(p) \/ DeleteObject(p)
  <2>1. UNCHANGED <<stage, known, expAdd, pc, cur>>
    BY <1>2 DEF UpdateObject, DeleteObject, podVars
  <2>2. Unheard(r)' = Unheard(r)
    BY <1>2, <2>1 DEF Unheard, UpdateObject, DeleteObject, TypeOK
  <2> QED
    BY <1>c, <2>1, <2>2, CoveredFrame
<1>3. CASE \E p \in Pod : MissPod(p) \/ AddObject(p)
  BY <1>c, <1>3, CoveredMiss, CoveredAdd
<1>4. CASE DeliverJob \/ Resync \/ \E s \in Roles : Expire(s)
  <2>1. UNCHANGED <<stage, heard, known, expAdd, pc, cur>>
    BY <1>4 DEF DeliverJob, Resync, Expire, podVars
  <2> QED
    BY <1>c, <2>1, CoveredFrame DEF Unheard
<1>5. CASE Restart
  <2>1. Unheard(r)' = {}
    BY <1>5 DEF Restart, Unheard, podVars
  <2> QED
    BY <1>5, <2>1 DEF Restart, Return, Covered
<1>6. CASE Worker
  <2>1. CASE Reconcile
    BY <1>c, <2>1, CoveredReconcile DEF Reconcile, Unheard, podVars
  <2>2. CASE ResetExpectations
    <3>1. Unheard(r)' = {}
      BY <1>c, <2>2 DEF Covered, ResetExpectations, Unheard, podVars
    <3> QED
      BY <2>2, <3>1, FS_EmptySet DEF ResetExpectations, Covered, Outstanding
  <2>3. CASE CreateNewPod
    BY <1>c, <2>3, CoveredCreate
  <2>4. CASE RaiseCreation
    <3>1. Unheard(r)' = Unheard(r)
      BY <2>4 DEF RaiseCreation, Unheard, podVars
    <3> QED
      BY <1>c, <2>4, <3>1, UnheardFinite DEF RaiseCreation, Covered, Outstanding, TypeOK
  <2>5. CASE CreateFails
    <3>1. Unheard(r)' = Unheard(r)
      BY <2>5 DEF CreateFails, Unheard, podVars
    <3>2. pc = "create" /\ pc' = "idle" /\ known' = known
          /\ expAdd'[r] = IF r = cur /\ r \in known THEN expAdd[r] - 1 ELSE expAdd[r]
      BY <2>5 DEF CreateFails, Lowered, TypeOK, Requeue, Return
    <3> QED
      BY <1>c, <3>1, <3>2, UnheardFinite DEF Covered, Outstanding, TypeOK
  <2>6. CASE \/ GetPodsForJob \/ LeaveFinishedJob \/ SkipReconcile
             \/ \E s \in Roles : ReconcilePods(s)
    <3>1. UNCHANGED <<stage, heard, known, expAdd>>
      BY <2>6 DEF GetPodsForJob, LeaveFinishedJob, SkipReconcile, ReconcilePods, podVars
    <3>2. /\ pc' \in {"reset", "list"} => pc \in {"reset", "list"}
          /\ pc' \notin {"idle", "reset"} => pc \notin {"idle", "reset"}
          /\ pc' # "create"
      BY <2>6 DEF GetPodsForJob, LeaveFinishedJob, SkipReconcile, ReconcilePods, Return
    <3> QED
      BY <1>c, <3>1, <3>2, CoveredFrame DEF Unheard
  <2>7. CASE \/ SkipIndex \/ CreateTimesOut \/ RaiseTrim \/ RaiseRestart \/ FinishRole
             \/ \E p \in Pod : TrimPod(p) \/ RestartPod(p) \/ KeepPod(p)
    <3>1. UNCHANGED <<heard, known, expAdd>>
      BY <2>7 DEF SkipIndex, CreateTimesOut, RaiseTrim, RaiseRestart, FinishRole, TrimPod,
                  RestartPod, KeepPod
    <3>2. InRole /\ pc' \in {"index", "trimmed", "inspect", "restarted", "role", "status"}
      BY <2>7 DEF SkipIndex, CreateTimesOut, RaiseTrim, RaiseRestart, FinishRole, TrimPod,
                  RestartPod, KeepPod, OutOfRange, Inspecting, InRole, NextIndex
    <3>3. Unheard(r)' = Unheard(r)
      BY <2>7, <3>1
      DEF SkipIndex, CreateTimesOut, RaiseTrim, RaiseRestart, FinishRole, KeepPod, podVars,
          Unheard, TrimPod, RestartPod, DeletePod, TypeOK
    <3> QED
      BY <1>c, <3>1, <3>2, <3>3, CoveredFrame DEF InRole
  <2>8. CASE CallFails \/ UpdateJobStatus \/ UpdateConflicts
    <3>1. UNCHANGED <<stage, heard, known, expAdd>> /\ pc' = "idle"
      BY <2>8 DEF CallFails, UpdateJobStatus, UpdateConflicts, Requeue, Return, podVars
    <3> QED
      BY <1>c, <3>1, CoveredFrame DEF Unheard
  <2> QED
    BY <1>6, <2>1, <2>2, <2>3, <2>4, <2>5, <2>6, <2>7, <2>8 DEF Worker
<1> QED
  BY <1>1, <1>2, <1>3, <1>4, <1>5, <1>6 DEF Next, Informers

-----------------------------------------------------------------------------
LEMMA IInvInit == Init => IInv
<1> SUFFICES ASSUME Init PROVE IInv
  OBVIOUS
<1>1. \A r \in Roles : Unheard(r) = {}
  BY DEF Init, Unheard
<1>2. ExpectationsCover
  BY <1>1 DEF Init, ExpectationsCover
<1> QED
  BY <1>2, TypeInit DEF Init, IInv, CachesLag, ListCovers, NoDuplicatePods, InRole, Walking

(* Every step keeps IInv. *)
LEMMA IInvStep == IInv /\ [Next]_vars => IInv'
<1> SUFFICES ASSUME IInv, [Next]_vars PROVE IInv'
  OBVIOUS
<1>1. CASE Next
  <2>1. TypeOK'
    BY <1>1, TypeCluster, TypeInformers, TypeRestart, TypeWorker DEF Next, IInv
  <2> QED
    BY <1>1, <2>1, CachesLagStep, ListCoversStep, ExpectationsStep, NoDuplicateStep DEF IInv
<1>2. CASE UNCHANGED vars
  <2>1. TypeOK'
    BY <1>2, TypeStutter DEF IInv
  <2>2. UNCHANGED <<stage, vstage, heard, lstage, pc, cur, idx, todo, known, expAdd, trusted>>
    BY <1>2 DEF vars, podVars, podCache, expVars, locals
  <2>3. \A r \in Roles : Unheard(r)' = Unheard(r)
    BY <2>2 DEF Unheard
  <2>4. ExpectationsCover'
    BY <2>2, <2>3 DEF IInv, ExpectationsCover, Outstanding
  <2>5. CachesLag' /\ NoDuplicatePods'
    BY <2>2 DEF IInv, CachesLag, NoDuplicatePods, Walking, InRole
  <2>6. ListCovers'
    BY <2>2 DEF IInv, ListCovers, GetPodSlices, ReconcilingPods, FilterPodsForReplicaType,
                FilterAlivePods, Walking, InRole
  <2> QED
    BY <2>1, <2>4, <2>5, <2>6 DEF IInv
<1> QED
  BY <1>1, <1>2

(* The inductive invariant holds in every reachable state. *)
THEOREM Invariance == Spec => []IInv
  BY IInvInit, IInvStep, PTL DEF Spec

(* Whatever the number of roles, replicas, pods, failures and restarts:    *)
(* while no expectation expires over an unreported pod or is spent on a    *)
(* pod of an earlier process, ReconcilePods never gives an index of a role *)
(* two live pods, from however old a cache it works.                       *)
THEOREM NoDuplicates == Spec => []NoDuplicatePods
<1>1. IInv => NoDuplicatePods
  BY DEF IInv
<1> QED
  BY <1>1, Invariance, PTL

(* The records that CreateNewPod raises and AddObject lowers always cover  *)
(* the created pods that were not reported, and Reconcile clears a record  *)
(* and lists the pods only when there are none.                            *)
THEOREM Expectations == Spec => []ExpectationsCover
<1>1. IInv => ExpectationsCover
  BY DEF IInv
<1> QED
  BY <1>1, Invariance, PTL
=============================================================================
