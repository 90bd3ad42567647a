---------------------------- MODULE PodReconcile ----------------------------
(***************************************************************************)
(* The pods of one AresJob: how Reconcile creates, restarts and trims them *)
(* from an informer cache that lags behind the API server, and how the     *)
(* expectations keep it from acting twice on the same observation          *)
(* (controllers/aresjob_controller.go, reconciler/pod.go,                  *)
(* reconciler/expectation.go, controllers/event_handler.go).               *)
(*                                                                         *)
(* Four parties interleave: the reconcile worker (at most one per job, the *)
(* work queue sees to that), the pod informer and its event handlers, the  *)
(* job informer, and the cluster (kubelet, user, evictions).  What the     *)
(* reconcile computes for the job's status is the subject of JobStatus;    *)
(* here a status write only decides which roles are marked started and     *)
(* whether the job is marked finished, in any way the phases may.          *)
(***************************************************************************)
EXTENDS Phases

CONSTANTS
    Roles,          \* the keys of spec.roleSpecs
    Restart4Role,   \* Restart4Role[r]: spec.roleSpecs[r].restartPolicy
    InitReplicas,   \* InitReplicas[r]: replicas of role r when the job is submitted
    Exits,          \* the ways a container may fail: a subset of PodFailed
    MayFinish,      \* whether the job may finish
    MaxReplicas,    \* bound: replicas the user may scale a role to
    MaxGen,         \* bound: pods ever created for one index of one role
    MaxDisturb,     \* bound: pods that fail or that others delete
    MaxScale,       \* bound: spec updates by the user
    MaxRestart,     \* bound: restarts of the operator process
    MaxFault        \* bound: failed API calls and lost watch events

Index == 0 .. (MaxReplicas - 1)

(* The k-th pod ever created for index i of role r.  The tuple plays the   *)
(* part of the UID; the role and the index are labels of the pod.          *)
Pod == Roles \X Index \X (1 .. MaxGen)
RoleOf(p) == p[1]
IndexOf(p) == p[2]
GenOf(p) == p[3]
SamePlace(p, q) == RoleOf(p) = RoleOf(q) /\ IndexOf(p) = IndexOf(q)

ASSUME RolesAssumption == IsFiniteSet(Roles) /\ Roles # {}
ASSUME BoundsAssumption ==
    /\ MaxReplicas \in Nat \ {0}
    /\ MaxGen \in Nat /\ MaxDisturb \in Nat /\ MaxScale \in Nat /\ MaxRestart \in Nat /\ MaxFault \in Nat
ASSUME SpecAssumption ==
    /\ Restart4Role \in [Roles -> RestartPolicy]
    /\ InitReplicas \in [Roles -> 1 .. MaxReplicas]
    /\ Exits \subseteq PodFailed /\ MayFinish \in BOOLEAN

VARIABLES
    \* ---- API server ----
    stage,          \* stage[p]: "none", "alive", "terminating" (deletionTimestamp set), "gone"
    phase,          \* phase[p]: "Running" until the pod fails
    job,            \* the AresJob: [replicas, started, finished]
    \* ---- pod informer ----
    vstage, vphase, \* the pod as the informer's cache has it
    heard,          \* which handlers ran for the pod: see Heard
    \* ---- job informer and work queue ----
    vjob,           \* the AresJob in the informer's cache
    fresh,          \* vjob has the resourceVersion of the API server's job
    queued,         \* the job's key is in the work queue
    \* ---- expectations of the pods, one record per role ----
    known,          \* roles that have a record
    expAdd, expDel, \* outstanding creations and deletions
    expired,        \* roles whose record is older than its time to live
    \* ---- the reconcile worker ----
    pc,             \* where it is: see Pc
    snap,           \* the job it works on (a deep copy of vjob)
    snapFresh,      \* snap still has the API server's resourceVersion
    lstage, lphase, \* the pods it listed
    todo,           \* roles not yet reconciled
    cur, idx,       \* the role and the index at hand
    \* ---- bookkeeping ----
    trusted,        \* history: no expectation was given up or spent on another pod
    disturbs, scales, restarts, faults

podVars == <<stage, phase>>
podCache == <<vstage, vphase, heard>>
jobCache == <<vjob, fresh>>
expVars == <<known, expAdd, expDel, expired>>
locals == <<snap, lstage, lphase, todo, cur, idx>>
bounds == <<disturbs, scales, restarts, faults>>
vars == <<podVars, job, podCache, jobCache, queued, expVars, pc, snapFresh, locals,
          trusted, bounds>>

(* "listed": the pod was in the initial list of a restarted informer, and  *)
(* AddObject has still to be called for it.                                *)
Heard == {"none", "listed", "added", "deleted"}
Stage == {"none", "alive", "terminating", "gone"}
Phase == {"Running"} \union PodFailed
Pc == {"idle", "reset", "list", "role", "index", "create",
       "trimmed", "inspect", "restarted", "status"}
JobObject == [replicas : [Roles -> 1 .. MaxReplicas], started : SUBSET Roles,
              finished : BOOLEAN]

TypeOK ==
    /\ stage \in [Pod -> Stage] /\ phase \in [Pod -> Phase]
    /\ vstage \in [Pod -> Stage] /\ vphase \in [Pod -> Phase]
    /\ lstage \in [Pod -> Stage] /\ lphase \in [Pod -> Phase]
    /\ job \in JobObject /\ vjob \in JobObject /\ snap \in JobObject
    /\ heard \in [Pod -> Heard]
    /\ fresh \in BOOLEAN /\ snapFresh \in BOOLEAN /\ queued \in BOOLEAN
    /\ known \subseteq Roles /\ expired \subseteq known
    /\ expAdd \in [Roles -> Int] /\ expDel \in [Roles -> Int]
    /\ pc \in Pc /\ todo \subseteq Roles /\ cur \in Roles /\ idx \in Nat
    /\ trusted \in BOOLEAN
    /\ disturbs \in 0 .. MaxDisturb /\ scales \in 0 .. MaxScale
    /\ restarts \in 0 .. MaxRestart /\ faults \in 0 .. MaxFault

-----------------------------------------------------------------------------
(* Mutant: Default leaves the replicas at zero. *)
NoDefaultReplicas == [replicas |-> [r \in Roles |-> 0], started |-> {}, finished |-> FALSE]

(* AresJob.Default: a new job. *)
NewJob == [replicas |-> InitReplicas, started |-> {}, finished |-> FALSE]

AnyRole == CHOOSE r \in Roles : TRUE

Init ==
    /\ stage = [p \in Pod |-> "none"] /\ phase = [p \in Pod |-> "Running"]
    /\ job = NewJob
    /\ vstage = stage /\ vphase = phase /\ heard = [p \in Pod |-> "none"]
    /\ vjob = NewJob /\ fresh = TRUE /\ queued = TRUE
    /\ known = {} /\ expired = {}
    /\ expAdd = [r \in Roles |-> 0] /\ expDel = [r \in Roles |-> 0]
    /\ pc = "idle" /\ snap = NewJob /\ snapFresh = TRUE
    /\ lstage = stage /\ lphase = phase /\ todo = {} /\ cur = AnyRole /\ idx = 0
    /\ trusted = TRUE /\ disturbs = 0 /\ scales = 0 /\ restarts = 0 /\ faults = 0

(* A created pod whose AddObject has not run in this process. *)
Unheard(r) == {p \in Pod : RoleOf(p) = r /\ stage[p] # "none" /\ heard[p] = "none"}

Never(r) == Restart4Role[r] = "Never"

-----------------------------------------------------------------------------
(* The cluster. *)

(* Pods fail and are deleted by others while the bound on generations      *)
(* leaves room for the pod that would replace them.                        *)
Disturb(p) ==
    /\ disturbs < MaxDisturb /\ disturbs' = disturbs + 1
    /\ GenOf(p) < MaxGen \/ IndexOf(p) >= job.replicas[RoleOf(p)]

Fail(p, result) ==
    /\ stage[p] = "alive" /\ phase[p] = "Running" /\ Disturb(p)
    /\ phase' = [phase EXCEPT ![p] = result]
    /\ UNCHANGED <<stage, job, podCache, jobCache, queued, expVars, pc, snapFresh, locals,
                   trusted, scales, restarts, faults>>

(* Someone else deletes the pod: a user, an eviction, a drained node. *)
EvictPod(p) ==
    /\ stage[p] = "alive" /\ Disturb(p)
    /\ stage' = [stage EXCEPT ![p] = "terminating"]
    /\ UNCHANGED <<phase, job, podCache, jobCache, queued, expVars, pc, snapFresh, locals,
                   trusted, scales, restarts, faults>>

(* The grace period of a terminating pod ends. *)
Vanish(p) ==
    /\ stage[p] = "terminating"
    /\ stage' = [stage EXCEPT ![p] = "gone"]
    /\ UNCHANGED <<phase, job, podCache, jobCache, queued, expVars, pc, snapFresh, locals,
                   trusted, bounds>>

(* The user changes the replicas of a role. *)
ScaleRole(r, n) ==
    /\ scales < MaxScale /\ scales' = scales + 1
    /\ n # job.replicas[r]
    /\ job' = [job EXCEPT !.replicas[r] = n]
    /\ fresh' = FALSE /\ snapFresh' = FALSE
    /\ UNCHANGED <<podVars, podCache, vjob, queued, expVars, pc, locals,
                   trusted, disturbs, restarts, faults>>

-----------------------------------------------------------------------------
(* The pod informer.  A watch event first updates the cache; the handlers  *)
(* are called later, in order, from a queue of their own.                  *)

(* The cache takes the pod's present state.  The update of a pod enqueues  *)
(* the job's key; UpdateObject drops it if the pod could not be scheduled, *)
(* that is, has never run and is deleted.                                  *)
UpdateObject(p) ==
    /\ <<vstage[p], vphase[p]>> # <<stage[p], phase[p]>>
    /\ vstage' = [vstage EXCEPT ![p] = stage[p]]
    /\ vphase' = [vphase EXCEPT ![p] = phase[p]]
    /\ \/ queued' = (queued \/ vstage[p] # "none")
       \/ phase[p] = "Running" /\ queued' = queued
    /\ UNCHANGED <<podVars, job, heard, jobCache, expVars, pc, snapFresh, locals,
                   trusted, bounds>>

(* The watch breaks and the informer lists anew: a pod that came and went  *)
(* in between is never reported.                                           *)
MissPod(p) ==
    /\ faults < MaxFault /\ faults' = faults + 1
    /\ stage[p] = "gone" /\ vstage[p] = "none"
    /\ vstage' = [vstage EXCEPT ![p] = "gone"]
    /\ vphase' = [vphase EXCEPT ![p] = phase[p]]
    /\ heard' = [heard EXCEPT ![p] = "deleted"]
    /\ UNCHANGED <<podVars, job, jobCache, queued, expVars, pc, snapFresh, locals,
                   trusted, disturbs, scales, restarts>>

(* LowerExpectations: only a record that exists is lowered. *)
Lowered(exp, r) == [exp EXCEPT ![r] = IF r \in known THEN @ - 1 ELSE @]

(* The addition of a pod of the initial list is of no account when nothing *)
(* is outstanding and the next reconcile will clear the record.            *)
LateAddIsHarmless(r) ==
    r \notin known \/ (expAdd[r] <= 0 /\ pc \in {"idle", "reset"})

(* AddObject, the predicate of the create event, then the key is queued. *)
AddObject(p) ==
    /\ heard[p] \in {"none", "listed"} /\ vstage[p] # "none"
    /\ heard' = [heard EXCEPT ![p] = "added"]
    /\ expAdd' = Lowered(expAdd, RoleOf(p))
    /\ queued' = TRUE
    /\ trusted' = (trusted /\ (heard[p] = "none" \/ LateAddIsHarmless(RoleOf(p))))
    /\ UNCHANGED <<podVars, job, vstage, vphase, jobCache, known, expDel, expired, pc,
                   snapFresh, locals, bounds>>

(* Mutant: the report of a deletion lowers the expected creations.         *)
DeleteLowersCreations(p) ==
    /\ heard[p] = "added" /\ vstage[p] = "gone"
    /\ heard' = [heard EXCEPT ![p] = "deleted"]
    /\ expAdd' = Lowered(expAdd, RoleOf(p))
    /\ queued' = TRUE
    /\ UNCHANGED <<podVars, job, vstage, vphase, jobCache, known, expDel, expired, pc,
                   snapFresh, locals, trusted, bounds>>

(* DeleteObject, the predicate of the delete event, then the key is queued. *)
DeleteObject(p) ==
    /\ heard[p] = "added" /\ vstage[p] = "gone"
    /\ heard' = [heard EXCEPT ![p] = "deleted"]
    /\ expDel' = Lowered(expDel, RoleOf(p))
    /\ queued' = TRUE
    /\ UNCHANGED <<podVars, job, vstage, vphase, jobCache, known, expAdd, expired, pc,
                   snapFresh, locals, trusted, bounds>>

-----------------------------------------------------------------------------
(* The job informer, the clock and the process. *)

DeliverJob ==
    /\ ~fresh /\ fresh' = TRUE
    /\ vjob' = job /\ queued' = TRUE
    /\ UNCHANGED <<podVars, job, podCache, expVars, pc, snapFresh, locals, trusted, bounds>>

(* Mutants: one of the two counts is enough; one satisfied role is enough. *)
EitherFulfilled(r) == expAdd[r] <= 0 \/ expDel[r] <= 0
AnyRoleSatisfied ==
    \E r \in Roles : r \notin known \/ r \in expired \/ (expAdd[r] <= 0 /\ expDel[r] <= 0)

(* Fulfilled by its counts; SatisfiedExpectations also accepts a role      *)
(* without a record and one whose record has expired.  The records of the  *)
(* services, which it asks for as well, are left out: no pod is decided by *)
(* them, and JobLifetime has both.                                         *)
Fulfilled(r) == expAdd[r] <= 0 /\ expDel[r] <= 0
Satisfied(r) == r \notin known \/ r \in expired \/ Fulfilled(r)
SatisfiedExpectations == \A r \in Roles : Satisfied(r)

(* The record of role r gets older than ExpectationsTimeout. *)
Expire(r) ==
    /\ r \in known \ expired /\ ~Fulfilled(r)
    /\ expired' = expired \union {r}
    /\ UNCHANGED <<podVars, job, podCache, jobCache, queued, known, expAdd, expDel, pc,
                   snapFresh, locals, trusted, bounds>>

(* The informers' periodic resync reports every object again. *)
Resync ==
    /\ ~queued /\ queued' = TRUE
    /\ UNCHANGED <<podVars, job, podCache, jobCache, expVars, pc, snapFresh, locals,
                   trusted, bounds>>

(* Reconcile returns; its local variables are forgotten. *)
Return ==
    /\ pc' = "idle" /\ snap' = NewJob /\ snapFresh' = TRUE
    /\ lstage' = [p \in Pod |-> "none"] /\ lphase' = [p \in Pod |-> "Running"]
    /\ todo' = {} /\ cur' = AnyRole /\ idx' = 0

(* The operator stops at any point and a new process starts: expectations, *)
(* queue and worker are lost, the informers list the present objects.      *)
Restart ==
    /\ restarts < MaxRestart /\ restarts' = restarts + 1
    /\ vstage' = stage /\ vphase' = phase
    /\ heard' = [p \in Pod |-> CASE stage[p] = "none" -> "none"
                                 [] stage[p] = "gone" -> "deleted"
                                 [] OTHER -> "listed"]
    /\ vjob' = job /\ fresh' = TRUE /\ queued' = TRUE
    /\ known' = {} /\ expired' = {}
    /\ expAdd' = [r \in Roles |-> 0] /\ expDel' = [r \in Roles |-> 0]
    /\ Return
    /\ UNCHANGED <<podVars, job, trusted, disturbs, scales, faults>>

-----------------------------------------------------------------------------
(* The reconcile worker. *)

(* An error returns to the work queue, which tries again. *)
Requeue == Return /\ queued' = TRUE

(* Reconcile takes the key and the cached job, and goes on only if the     *)
(* expectations are satisfied ...                                          *)
Reconcile ==
    /\ pc = "idle" /\ queued /\ SatisfiedExpectations
    /\ queued' = FALSE /\ pc' = "reset"
    /\ snap' = vjob /\ snapFresh' = fresh
    /\ trusted' = (trusted /\ \A r \in expired : Unheard(r) = {})
    /\ UNCHANGED <<podVars, job, podCache, jobCache, expVars, lstage, lphase, todo, cur, idx,
                   bounds>>

(* ... and otherwise returns, without asking to be called again. *)
SkipReconcile ==
    /\ pc = "idle" /\ queued /\ ~SatisfiedExpectations
    /\ queued' = FALSE
    /\ UNCHANGED <<podVars, job, podCache, jobCache, expVars, pc, snapFresh, locals,
                   trusted, bounds>>

ResetExpectations ==
    /\ pc = "reset" /\ pc' = "list"
    /\ known' = Roles /\ expired' = {}
    /\ expAdd' = [r \in Roles |-> 0] /\ expDel' = [r \in Roles |-> 0]
    /\ UNCHANGED <<podVars, job, podCache, jobCache, queued, snapFresh, locals, trusted, bounds>>

(* JobController.ReconcileJobs lists the pods of an unfinished job once,   *)
(* for all its roles ...                                                   *)
GetPodsForJob ==
    /\ pc = "list" /\ ~snap.finished
    /\ lstage' = vstage /\ lphase' = vphase
    /\ todo' = Roles /\ pc' = "role"
    /\ UNCHANGED <<podVars, job, podCache, jobCache, queued, expVars, snap, snapFresh, cur, idx,
                   trusted, bounds>>

(* ... and leaves the pods of a finished one alone (cleanPodPolicy None).  *)
LeaveFinishedJob ==
    /\ pc = "list" /\ snap.finished
    /\ Return
    /\ UNCHANGED <<podVars, job, podCache, jobCache, queued, expVars, trusted, bounds>>

-----------------------------------------------------------------------------
(* ReconcilePods, role by role in any order and index by index. *)

(* Mutant: a failed pod does not count as a pod of its index. *)
FilterRunningPods(pods) == {p \in pods : lstage[p] = "alive" /\ lphase[p] = "Running"}

FilterPodsForReplicaType(r) ==
    {p \in Pod : RoleOf(p) = r /\ lstage[p] \in {"alive", "terminating"}}
FilterAlivePods(pods) == {p \in pods : lstage[p] = "alive"}

(* A Never role counts the pods that are being deleted as its pods. *)
ReconcilingPods(r) ==
    IF Never(r) THEN FilterPodsForReplicaType(r)
    ELSE FilterAlivePods(FilterPodsForReplicaType(r))

GetPodSlices(i) == {p \in ReconcilingPods(cur) : IndexOf(p) = i}

(* Mutant: the loop runs over the replicas only. *)
InReplicas(i) == i < snap.replicas[cur]

(* The loop runs over the replicas and over every index up to the last     *)
(* that has a pod.                                                         *)
InSlices(i) == i < snap.replicas[cur] \/ \E p \in ReconcilingPods(cur) : i <= IndexOf(p)

ReconcilePods(r) ==
    /\ pc = "role" /\ r \in todo
    /\ cur' = r /\ idx' = 0 /\ pc' = "index"
    /\ UNCHANGED <<podVars, job, podCache, jobCache, queued, expVars, snap, snapFresh,
                   lstage, lphase, todo, trusted, bounds>>

NextIndex == pc' = "index" /\ idx' = idx + 1

MayNotCreate == Never(cur) /\ cur \in snap.started

(* Two pods of one index, or the missing pod of a Never role that has      *)
(* started: a warning.                                                     *)
SkipIndex ==
    /\ pc = "index" /\ InSlices(idx)
    /\ \/ Cardinality(GetPodSlices(idx)) > 1
       \/ GetPodSlices(idx) = {} /\ MayNotCreate
    /\ NextIndex
    /\ UNCHANGED <<podVars, job, podCache, jobCache, queued, expVars, snap, snapFresh,
                   lstage, lphase, todo, cur, trusted, bounds>>

(* CreateNewPod raises the expectation, then calls the API server. *)
RaiseCreation ==
    /\ pc = "index" /\ InSlices(idx) /\ GetPodSlices(idx) = {} /\ ~MayNotCreate
    /\ expAdd' = [expAdd EXCEPT ![cur] = @ + 1]
    /\ pc' = "create"
    /\ UNCHANGED <<podVars, job, podCache, jobCache, queued, known, expDel, expired,
                   snapFresh, locals, trusted, bounds>>

(* The pod the API server would make: its generation is the next one. *)
NewPods == {p \in Pod : /\ RoleOf(p) = cur /\ IndexOf(p) = idx /\ stage[p] = "none"
                        /\ \A q \in Pod : SamePlace(p, q) /\ GenOf(q) < GenOf(p)
                                            => stage[q] # "none"}

(* The name of a pod of a Never role is fixed, so the API server refuses   *)
(* it while a pod of that name exists; other pods get a generated name.    *)
NameTaken(p) ==
    /\ Never(RoleOf(p))
    /\ \E q \in Pod : SamePlace(p, q) /\ stage[q] \in {"alive", "terminating"}

(* The pod is created.  The call may still report a timeout: that is       *)
(* treated in the same way.                                                *)
CreateNewPod ==
    /\ pc = "create"
    /\ \E p \in NewPods : ~NameTaken(p) /\ stage' = [stage EXCEPT ![p] = "alive"]
    /\ NextIndex
    /\ UNCHANGED <<phase, job, podCache, jobCache, queued, expVars, snap, snapFresh,
                   lstage, lphase, todo, cur, trusted, bounds>>

(* The call times out and no pod was created: the expectation stays. *)
CreateTimesOut ==
    /\ pc = "create" /\ faults < MaxFault /\ faults' = faults + 1
    /\ NextIndex
    /\ UNCHANGED <<podVars, job, podCache, jobCache, queued, expVars, snap, snapFresh,
                   lstage, lphase, todo, cur, trusted, disturbs, scales, restarts>>

(* The call fails, among others because the name is taken or because the   *)
(* bound on pods is reached: the expectation is taken back and the error   *)
(* ends the reconcile.                                                     *)
CreateFails ==
    /\ pc = "create"
    /\ \/ (\A p \in NewPods : NameTaken(p)) /\ faults' = faults
       \/ faults < MaxFault /\ faults' = faults + 1
    /\ expAdd' = Lowered(expAdd, cur)
    /\ Requeue
    /\ UNCHANGED <<podVars, job, podCache, jobCache, known, expDel, expired, trusted,
                   disturbs, scales, restarts>>

(* DeletePod goes by name and does nothing to a pod that is being deleted. *)
DeletePod(p) ==
    stage' = [q \in Pod |-> IF /\ stage[q] = "alive"
                               /\ q = p \/ (Never(RoleOf(p)) /\ SamePlace(p, q))
                            THEN "terminating" ELSE stage[q]]

(* The only pod of an index beyond the replicas ... *)
OutOfRange(p) ==
    pc = "index" /\ GetPodSlices(idx) = {p} /\ idx >= snap.replicas[cur]

(* ... is deleted ... *)
TrimPod(p) ==
    /\ OutOfRange(p)
    /\ DeletePod(p) /\ pc' = "trimmed"
    /\ UNCHANGED <<phase, job, podCache, jobCache, queued, expVars, snapFresh, locals,
                   trusted, bounds>>

(* ... its deletion expected, and the loop goes on with the same pod. *)
RaiseTrim ==
    /\ pc = "trimmed" /\ pc' = "inspect"
    /\ expDel' = [expDel EXCEPT ![cur] = @ + 1]
    /\ UNCHANGED <<podVars, job, podCache, jobCache, queued, known, expAdd, expired,
                   snapFresh, locals, trusted, bounds>>

(* The only pod of the index, when its phase is looked at. *)
Inspecting(p) ==
    /\ GetPodSlices(idx) = {p}
    /\ pc = "inspect" \/ (pc = "index" /\ idx < snap.replicas[cur])

NeedsRestart(p) ==
    /\ lphase[p] \in PodFailed
    /\ \/ Restart4Role[cur] \in {"Always", "OnFailure"}
       \/ Restart4Role[cur] = "ExitCode" /\ lphase[p] = "FailedRetryable"

(* A failed pod that may be tried again is deleted ... *)
RestartPod(p) ==
    /\ Inspecting(p) /\ NeedsRestart(p)
    /\ DeletePod(p) /\ pc' = "restarted"
    /\ UNCHANGED <<phase, job, podCache, jobCache, queued, expVars, snapFresh, locals,
                   trusted, bounds>>

(* ... and its deletion expected. *)
RaiseRestart ==
    /\ pc = "restarted" /\ NextIndex
    /\ expDel' = [expDel EXCEPT ![cur] = @ + 1]
    /\ UNCHANGED <<podVars, job, podCache, jobCache, queued, known, expAdd, expired, snap,
                   snapFresh, lstage, lphase, todo, cur, trusted, bounds>>

(* Any other pod is left as it is. *)
KeepPod(p) ==
    /\ Inspecting(p) /\ ~NeedsRestart(p)
    /\ NextIndex
    /\ UNCHANGED <<podVars, job, podCache, jobCache, queued, expVars, snap, snapFresh,
                   lstage, lphase, todo, cur, trusted, bounds>>

(* After the last index the role is done: its service is there or is       *)
(* created, and the next role follows.                                     *)
FinishRole ==
    /\ pc = "index" /\ ~InSlices(idx)
    /\ todo' = todo \ {cur} /\ idx' = 0
    /\ pc' = IF todo' = {} THEN "status" ELSE "role"
    /\ UNCHANGED <<podVars, job, podCache, jobCache, queued, expVars, snap, snapFresh,
                   lstage, lphase, cur, trusted, bounds>>

(* A deletion or the creation of a service fails: that ends the reconcile. *)
CallFails ==
    /\ \/ \E p \in Pod : OutOfRange(p) \/ (Inspecting(p) /\ NeedsRestart(p))
       \/ pc = "index" /\ ~InSlices(idx)
    /\ faults < MaxFault /\ faults' = faults + 1
    /\ Requeue
    /\ UNCHANGED <<podVars, job, podCache, jobCache, expVars, trusted, disturbs, scales, restarts>>

(* The status that the phases give marks no other role or job, or the      *)
(* write carries the resourceVersion of the snapshot and is accepted ...   *)
UpdateJobStatus ==
    /\ pc = "status" /\ Return
    /\ \/ UNCHANGED <<job, fresh>>
       \/ /\ snapFresh /\ fresh' = FALSE
          /\ \E s \in SUBSET {r \in Roles : Never(r)}, f \in {FALSE, MayFinish} :
                job' = [job EXCEPT !.started = @ \union s, !.finished = @ \/ f]
          /\ job' # job
    /\ UNCHANGED <<podVars, podCache, vjob, queued, expVars, trusted, bounds>>

(* ... or is refused, because the snapshot is not the latest version. *)
UpdateConflicts ==
    /\ pc = "status" /\ ~snapFresh
    /\ Requeue
    /\ UNCHANGED <<podVars, job, podCache, jobCache, expVars, trusted, bounds>>

-----------------------------------------------------------------------------
Cluster ==
    \/ \E p \in Pod : EvictPod(p) \/ Vanish(p) \/ \E result \in Exits : Fail(p, result)
    \/ \E r \in Roles, n \in 1 .. MaxReplicas : ScaleRole(r, n)

Informers ==
    \/ \E p \in Pod : UpdateObject(p) \/ MissPod(p) \/ AddObject(p) \/ DeleteObject(p)
    \/ DeliverJob \/ Resync
    \/ \E r \in Roles : Expire(r)

Worker ==
    \/ Reconcile \/ SkipReconcile \/ ResetExpectations \/ GetPodsForJob \/ LeaveFinishedJob
    \/ \E r \in Roles : ReconcilePods(r)
    \/ SkipIndex \/ RaiseCreation \/ CreateNewPod \/ CreateTimesOut \/ CreateFails
    \/ \E p \in Pod : TrimPod(p) \/ RestartPod(p) \/ KeepPod(p)
    \/ RaiseTrim \/ RaiseRestart \/ FinishRole \/ CallFails
    \/ UpdateJobStatus \/ UpdateConflicts

Next == Cluster \/ Informers \/ Worker \/ Restart

Spec == Init /\ [][Next]_vars

(* Fairness.  The work queue hands out a queued key and a reconcile that   *)
(* was started runs to its end; informers deliver what the API server      *)
(* stores and call the handlers; grace periods end.                        *)
EventFairness ==
    /\ WF_vars(Worker)
    /\ \A p \in Pod : /\ WF_vars(UpdateObject(p)) /\ WF_vars(AddObject(p))
                       /\ WF_vars(DeleteObject(p)) /\ WF_vars(Vanish(p))
    /\ WF_vars(DeliverJob)

(* Time passes: records expire, and the informers resync. *)
TimerFairness == WF_vars(Resync) /\ \A r \in Roles : WF_vars(Expire(r))

EventSpec == Spec /\ EventFairness
TimerSpec == Spec /\ EventFairness /\ TimerFairness

-----------------------------------------------------------------------------
(* Properties *)

(* No index of a role ever has two live pods, although pods of restartable *)
(* roles get generated names and Reconcile decides from a cache that may   *)
(* not show the pods it created before.  The exceptions are the two ways   *)
(* in which trusted is lost: Reconcile went on after the expectation of an *)
(* unreported pod had expired, and the report of a pod that was there      *)
(* before the process started lowered the expectation of a new one.        *)
NoDuplicatePods ==
    trusted => \A p, q \in Pod :
        stage[p] = "alive" /\ stage[q] = "alive" /\ SamePlace(p, q) => p = q

(* The expectations account for every pod that Reconcile created and that  *)
(* AddObject has not reported yet, whatever the order of raising, creating *)
(* and observing; and when Reconcile goes on to clear them and to list the *)
(* pods, none is left unreported.                                          *)
Outstanding(r) == Cardinality(Unheard(r)) + (IF pc = "create" /\ cur = r THEN 1 ELSE 0)
ExpectationsCover ==
    trusted => \A r \in Roles :
        /\ Unheard(r) # {} => r \in known /\ Outstanding(r) <= expAdd[r]
        /\ pc \in {"reset", "list"} => Unheard(r) = {}
        /\ pc \notin {"idle", "reset"} => r \in known /\ Outstanding(r) <= expAdd[r]

(* While Reconcile walks through the roles, a live pod that its list does  *)
(* not show is one it has just created itself, behind the present index;   *)
(* and when it creates a pod, its list has none for the index.             *)
InRole == pc \in {"index", "create", "trimmed", "inspect", "restarted"}
Walking == InRole \/ pc \in {"role", "status"}
ListCovers ==
    /\ InRole => cur \in todo
    /\ trusted /\ Walking => \A p \in Pod :
           stage[p] = "alive" /\ lstage[p] = "none" /\ RoleOf(p) \in todo
             => InRole /\ RoleOf(p) = cur /\ IndexOf(p) < idx
    /\ pc = "create" => GetPodSlices(idx) = {}

(* The caches and the list are late, never wrong: they show no pod that    *)
(* was not created and none alive that is already being deleted.           *)
CachesLag ==
    \A p \in Pod :
        /\ stage[p] = "none" => vstage[p] = "none"
        /\ vstage[p] = "none" => heard[p] = "none"
        /\ stage[p] = "alive" => vstage[p] \in {"none", "alive"}
        /\ Walking /\ stage[p] = "alive" => lstage[p] \in {"none", "alive"}
        /\ Walking /\ stage[p] = "none" => lstage[p] = "none"

(* The inductive invariant behind NoDuplicatePods. *)
IInv == TypeOK /\ CachesLag /\ ExpectationsCover /\ ListCovers /\ NoDuplicatePods

(* A pod is created only for an index that the replicas of the job at hand *)
(* include.  The comment in ReconcilePods has pods out of range deleted.   *)
CreatesInRange ==
    [][\A p \in Pod : stage[p] = "none" /\ stage'[p] = "alive" => IndexOf(p) < snap.replicas[cur]]_vars

(* An unfinished job ends up with a live pod for every index of every role *)
(* that may be populated: no failed, evicted or unreported pod leaves the  *)
(* job waiting for ever on an expectation.  Events alone see to that as    *)
(* long as no call times out and no event is lost; otherwise it takes the  *)
(* expiry of the expectations and the resync.  This is for a job that is   *)
(* not scaled: a failed pod beyond the replicas is expected to be deleted  *)
(* twice, and then it takes the expiry even without a fault (see           *)
(* EventuallyTrimmed).                                                     *)
Populated ==
    \A r \in Roles : \A i \in 0 .. (job.replicas[r] - 1) :
        \/ job.finished \/ r \in job.started
        \/ \E p \in Pod : RoleOf(p) = r /\ IndexOf(p) = i /\ stage[p] = "alive"
EventuallyPopulated == ([](faults = 0) \/ TimerFairness) => <>[]Populated

(* A pod beyond the replicas does not stay, even when it had failed and    *)
(* its deletion is expected twice.                                         *)
Trimmed ==
    job.finished \/ \A p \in Pod : stage[p] = "alive" => IndexOf(p) < job.replicas[RoleOf(p)]
EventuallyTrimmed == <>[]Trimmed

=============================================================================
