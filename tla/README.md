# Verification of AresOperator

AresOperator is a Kubernetes operator for distributed training jobs. A user
submits an `AresJob` with several roles (parameter servers, workers, a
launcher, ...); the operator creates the pods and services of every role, keeps
the phases of the roles and of the job in the job's status, lets roles wait for
each other, follows the PodGroup of a gang-scheduled job, and cleans up after
the job. This directory holds TLA+ models of its core, the TLC runs that check
them on small instances, and TLAPS proofs of their main safety properties for
every value of the constants.

## Inventory

| Component | State | Operations | Why it is hard |
|---|---|---|---|
| Pod reconciliation (`reconciler/pod.go`, `reconciler/control`) | pods in the API server, a list of them from the informer's cache | create, trim, restart pods, index by index and role by role | decisions are taken from a late cache; calls fail or time out half-way |
| Expectations (`reconciler/expectation.go`, `controllers/event_handler.go`) | per role: creations and deletions not yet reported | raised by the worker, lowered by event handlers, reset, expire | two actors; events of the previous process; lost events |
| Phase deduction (`reconciler/phase.go`, `reconciler/utils.go`, `api/v1/phase_policy.go`) | none (pure), reads the last phase | count pods, deduce role and job phases | the result depends on the previous, possibly old phase |
| Reconcile loop and status (`controllers/aresjob_controller.go`, `reconciler/job.go`) | the job in the API server, its cached copy, the worker's copy | one reconcile per key at a time, optimistic writes | stale copies, refused writes, a failure between two of its steps |
| PodGroup (`reconciler/podgroup.go`) | conditions Scheduled and Evicted | Break, Skip, Continue | events of pods and PodGroup in any order, also after the job has finished |
| Cleanup (`controllers/job.go`) | the in-memory CleanUpQueue | OnJobFinished, cleanupNextItem | lost at a restart; fails half-way |
| Role cache and observer (`cache`, `observer`) | phases of the roles for dependent pods | HandleRolePhases, GetJobCache | published after being stored, by another step |
| Node manager (`reconciler/node`) | in-memory marks of nodes that are down | marked and unmarked by node events | lost at a restart |
| Deletion (`controllers/job.go`, `reconciler/reconciler.go`) | finalizer, expectations and cache kept by name | finalize, CleanForJob | a job recreated under the same name |
| Defaults and validation (`api/v1/aresjob_webhook.go`, `controllers/aresjob_controller.go`) | the spec | setDefault, Default, validate, setInvalidDefinition | must reach a fixed point; run on an old copy; defaults come before validation |
| Frameworks (`frameworks`) | none (pure), read the spec | SetDefault, Validate, SetClusterSpec, ReconcileServices of eight frameworks | ranks, ports and addresses are computed pod by pod and must fit together, also after scaling |
| Services, metadata (`reconciler/service.go`, `reconciler/metadata.go`) | one service per role, annotations and labels | create, patch | partial failure |

Components talk through the API server: the reconcile worker writes to it, and
the informers bring every change back to caches and event handlers, later and
in an order of their own. Inside the process they share the expectations, the
work queue, the CleanUpQueue, the role cache and the node marks, none of which
survives a restart.

What makes the components correct:

* no index of a role has two live pods, and every index gets one in the end;
* pods beyond the replicas do not stay;
* the stored phases never go back, although they are computed from old copies;
* a finished job keeps its phase, its resources are cleaned up in the end;
* start-up completes: dependences, gang, expectations and refused writes do not
  wait for each other for ever;
* dependent roles learn what was stored, and only after it was stored;
* an evicted gang and a pod on a lost node do not leave the job waiting;
* a definition is completed once, a wrong one is reported, and the pods of a
  right one are told ranks, ports and addresses that fit together;
* what is left of a deleted job does not stand in the way of the next job of
  the name.

`PROJECT.json` lists the hazards at their lines, with the properties that cover
them.

## Modules

* **Phases** - pure operators: the counter a pod is counted by
  (`updateReplicaStatus`), the phase of a role (`GetRolePhase`) and of the job
  (`GetJobPhase`).
* **PodReconcile** - the pods of one job. The reconcile worker is a process
  with a program counter whose steps are the calls that others can interleave
  with: check the expectations, reset them, list the pods, then for every index
  raise-then-create, delete-then-raise, and the status write. `stage`/`phase`
  are the pods in the API server, `vstage`/`vphase` the informer's cache,
  `lstage`/`lphase` the list the worker took; `heard` says which event handlers
  have run for a pod. A pod is identified by role, index and generation, which
  plays the part of the UID. The status write is abstract here: it may mark
  roles of restart policy Never as started and the job as finished.
* **JobStatus** - the status of one job. The pods are seen as the cache shows
  them, one slot per index (PodReconcile shows that an index has one live pod
  and that a reconcile waits until what it did is reported; both are taken as
  given). One reconcile has the steps `podgroup` (SyncFromPodGroup), `jobs`
  (ReconcileJobs), `write` (UpdateJobStatusInApiServer), `sync` (SyncFromJob),
  `handle` (HandleRolePhases and OnJobFinished). Each can fail, ReconcileJobs
  at any pod or service and after any set of other roles; one that fails because
  the pod or service is refused as invalid (`ReconcileJobsRefused`) stores the
  job as failed and is not tried again. The cleanup worker, the
  scheduler, the nodes, the informers and restarts interleave.
* **JobPromise** - the abstract specification of the stored status: two
  variables, the phase of the job and those of its roles. Roles move as their
  policies allow and never back before Running, the phase of the job is the one
  deduced from the roles in the same step, or Failed because the gang was
  evicted (`Evict`) or because the API server refused a pod or a service as
  invalid (`Invalidate`). JobStatus implements it with `phase <- job.phase` and
  `roles <- job.roles` (`ImplementsPromise`): caches, copies, refused writes and
  restarts do not show in what is stored.
* **Frameworks** - pure operators on a definition: `Default` and
  `ValidateCreate`, and SetDefault, Validate, SetClusterSpec and the services of
  bagua, dask, mpi, pytorch, standalone, tensorflow, custom and demo. A
  definition keeps what these read: which roles there are, their replicas,
  policies and dependences, whether the container and the port the framework
  looks for are there, the option of the framework, the number of ports on the
  host.
* **JobDefinition** - from the submitted definition to the pods: setDefault,
  validate and setInvalidDefinition on the informer's copy, the pods and
  services ReconcileJobs creates from it, the user who scales roles. A panic
  ends the process (nothing in the operator recovers from one), which is
  restarted.
* **JobLifetime** - jobs that come and go under one name. `stored` and `seen`
  are the job and the informer's copy, `pod`/`listed` and
  `service`/`listedService` the objects that carry the name, `news` the
  creations not yet reported. Expectations, role cache, CleanUpQueue and work
  queue are kept by name, as in the code; ghost UIDs say on whose account.
  One reconcile is one step.
* **PodReconcileProofs**, **JobStatusProofs**, **JobLifetimeProofs**,
  **JobDefinitionProofs** - the proofs about these modules;
  **FrameworksProofs** - the lemmas about the operators of Frameworks, which
  the last one rests on.
* **MCPodReconcile**, **MCJobStatus**, **MCJobDefinition**, **MCJobLifetime** -
  the instances for TLC.

The modules meet at their abstractions. PodReconcile's status write is any
status; JobStatus computes it and sees pods as PodReconcile delivers them;
JobPromise is what JobStatus shows of itself; JobDefinition computes the
constants that JobStatus takes as given (roles, policies, dependence);
JobLifetime strings such jobs together.

The library kubeflow/common (expectations, JobController.ReconcileJobs) and
Kubernetes itself are outside the repository; they are modelled from how the
code uses them and marked external in the map. Definitions introduced by a
comment "Mutant" are mistakes one could make in the definition that follows
them; replacing that definition by its mutant violates a property, which shows
that the property says something about the code.

## Runs

| Run | Checks | Instance | Result |
|---|---|---|---|
| faults | IInv | one role, policy ExitCode, 2 faults, 1 disturbed pod, 1 restart, the job may finish | holds |
| roles | TypeOK, NoDuplicatePods, ExpectationsCover | two roles (Never and OnFailure), 1 disturbed pod | holds |
| events | EventuallyPopulated | one replica, 1 disturbed pod, 2 faults | holds |
| trim | EventuallyTrimmed | 2 replicas, one scaling, 1 disturbed pod, 1 fault | holds |
| range | CreatesInRange | 3 replicas, one scaling, 1 fault | violated |
| phases | TypeOK, PublishedIsStored, StatusInv, StatusNeverGoesBack, FinishedIsFinal, ImplementsPromise | gang of a ps and two dependent workers, which may be refused, 1 disturbance, 1 fault, 1 restart | holds |
| start | EventuallyRunning, RunningIsPublished, EvictionFailsJob, NodeDownFailsRole, FinishedIsCleanedUp | gang of a ps and a dependent worker, 1 disturbance, 1 fault, 1 restart | holds |
| evicted | FailedIsCleanedUp | gang of one, 2 disturbances, 1 restart | violated |
| published | FinishedRoleIsPublished | two roles, 1 fault | violated |
| definitions | TypeOK, DefaultsSettle, StoredIsSettled, DefaultsDecideJob, RanksAreDistinct, PortsAreDisjoint, AddressesResolve, DynamicWorkersStayRight, WrongIsReported, AllRolesStart | some 360 definitions of all frameworks, 1 disturbance, 2 for nine of them | holds |
| missing | MissingRolesAreRejected | dask and bagua jobs with any of their roles | violated |
| lifetime | TypeOK, CacheDiesWithJob, FinalizerHolds, LastJobIsServed, FinishedLeavesNothing, DeletedIsGone | two jobs of one name, 1 failed call, timeout or restart | holds |

**Bounds.** `MaxDisturb` counts pods that fail, are lost or deleted by others,
`MaxFault` failed calls, lost events and updates by others, `MaxRestart`
restarts, `Refusable` holds the roles whose pods or services may be refused as
invalid, `MaxScale` spec updates, `MaxGen` the pods ever created for one
index. One disturbance with one restart, or one fault with another, already
gives every pair of events that the expectations must survive: a second
generation of a pod, an event of the old process after the new one has acted,
a write refused once. Two roles are needed where records or phases of roles
could be confused, two replicas where an index before the present one matters.
The proofs cover all values of all the bounds.

In JobDefinition `Submissions` holds a plain job for every subset of the roles
each framework knows, with one or three workers and every option, and for one
full job per framework and mode every definition that differs from it in one
place: another restart policy, two replicas of a role that should have one, a
dependence, no container or one of another name, no port, pods the API server
refuses, a policy, a role whose name is not legal. `Sizes` are the replicas a
role is scaled to, 0 for one that is stopped and 3 for a gap in the middle;
`MaxDisturb(d)` counts scalings, refused writes and lost pods. Three workers are
enough for ranks and ports to collide that are computed from an index and an
offset of one role. In JobLifetime two jobs are enough for one to meet what is
left of another. The first has a dependence and lacks defaults, so that it gets
the finalizer; the second has all defaults, with or without a dependence.

**Fairness.** The work queue hands out queued keys and a reconcile runs to its
end (weak fairness of the worker); informers deliver and call handlers; grace
periods end; `RequeueAfter` and delayed queue items come due. EventuallyPopulated
assumes no more as long as no call fails and no event is lost; after a fault it
also uses the expiry of expectations (five minutes in the library) and the
informers' resync, and so does `trim`. In JobStatus no resync is relied on,
except by NodeDownFailsRole (`NodeFairness`), where an update of the node after a
restart comes from the resync at the latest. Pods that may start do, and the
scheduler gets to a gang whose pods are all there; no pod need ever succeed and
no node need come back. The runs *start*, *evicted* and *published* have no
refused pods: a refusal ends the reconcile with nothing queued even if the status
could not be stored, so that only a resync goes on from there. That it does is
what WrongIsReported shows in JobDefinition.

JobDefinition adds the restart of a process that ended (by its Deployment) and
the resync, without which a refused setInvalidDefinition would be lost: its
error is dropped and nothing is queued. Nothing is assumed about users.
JobLifetime relies on both workers, the informers, which report objects of one
kind in the order in which they were created, the resync, the expiry of
expectations and the garbage collector; not on users or pods, and not on a
restart.

**What the violated runs show.**

* *range*: `ReconcilePods` compares the index with the replicas only for an
  index that has a pod. When a role is scaled down while a pod in the middle is
  missing, a pod is created beyond the replicas (and deleted later:
  EventuallyTrimmed holds).
* *evicted*: the library leaves the conditions of a failed job alone. A job that
  failed by its own policy before its gang was recorded as scheduled never gets
  that condition, and one whose PodGroup is evicted after the failure never gets
  the reason Preempted. In both cases SyncFromPodGroup ends every reconcile
  before OnJobFinished, and if the process stopped before the item of the
  CleanUpQueue came due the job is never cleaned up. TLC prints one or the other
  form.
* *published*: SyncFromJob, or HandleRolePhases itself, can fail after the new phases were stored; the retry
  sees no change, so the phase of a role that finished is never published. The
  phase Running is published again in every reconcile (RunningIsPublished).
* *missing*: SetDefault of dask and bagua dereferences roles whose presence only
  Validate checks, and Validate comes later. A job without one of them brings
  the process down in every reconcile, after every restart, instead of being
  marked as invalid.

**What the exceptions in the other properties mean.**

* `NeverReachesCleanUp` in FinishedIsCleanedUp: the failed jobs whose reconciles
  all end before OnJobFinished. The two forms of the run *evicted*, and the job
  of which a pod or service was refused as invalid: its later reconciles return
  at `controllers/aresjob_controller.go:104`, and the pods of its other roles
  stay until the job is deleted.
* FinishedIsFinal is about a definition that is not edited. An edit that is found
  invalid makes any job Failed (`reconciler/utils.go:145`), a succeeded one too.
* `Undecided`: mpi without a launcher and standalone without a worker are
  accepted, and the default policy names the role that is not there;
  GetJobPhase panics when it comes to it. Tensorflow without master, chief and
  workers is accepted with no condition of success.
* `Unscaled`: ranks, sizes of the world, ports and addresses are computed when a
  pod is created and not again when a role is scaled, so the pods of a scaled
  job disagree. Tensorflow with dynamic workers is made for that, and
  DynamicWorkersStayRight holds.
* `WorkersOnly` in DynamicWorkersStayRight: a job whose only role (of those
  tensorflow knows) is worker is distributed if it has more than one of them
  (`frameworks/tensorflow/tensorflow.go:215`). When one worker is scaled to three,
  the first keeps no TF_CONFIG and the others get one; when it is scaled back, a
  pod has one that a pod created now would not have. Nothing else may differ.
* AddressesResolve rests on LosePod sparing roles of restart policy Never: once
  such a role has started a lost pod is not created again (`reconciler/pod.go:199`), and
  its address stays with the others. In the code such a role fails, or finishes
  without it; here no role finishes.
* EventuallyPopulated is about a role that is not scaled. Scaling down can expect
  one deletion twice, and then the expiry is needed even without a fault; that
  is what EventuallyTrimmed is about.
* `Ranked` in RanksAreDistinct: the roles that share a world. Dask tells a pod of
  any other role but the scheduler rank 0, which is that of the leadworker.
* `<>[]up` in AllRolesStart: a pod created beyond the replicas (run *range*) is
  out of the range of the endpoints of tensorflow with dynamic workers and ends
  the process. A host file outside mpi ends it, too, but is not a plain
  definition.
* `finalized` in CacheDiesWithJob: setDefault compares specs only, so a job that
  is submitted complete never gets the finalizer, and what it published in the
  role cache stays for the next job of the name.
* `finished` in LastJobIsServed: pods are listed by the name of their owner, so those of a predecessor are
  counted for the new job, which can finish or fail on their account
  (`reconciler/pod.go:51`); and an item of the CleanUpQueue left by the
  predecessor deletes the pods of the new job.

**The exceptions in NoDuplicatePods.** The history variable `trusted` becomes
false in exactly two ways: a reconcile goes on because the expectation of a pod
that has not been reported has expired, and the create event of a pod that
existed before the process started lowers an expectation raised by the new
process. In both a second pod can be created for an index; the property says
that there is no third way. Pods created for an index with two pods are left
alone with a warning.

## Proofs

*PodReconcileProofs* proves, for every set of roles, replicas and bounds,
`Spec => []TypeOK`, `[]IInv`, `[]NoDuplicatePods` and `[]ExpectationsCover`.
NoDuplicatePods is not inductive. `IInv` adds: caches and lists are late but
never wrong (`CachesLag`); the expectations cover every pod that was created and
not reported, and when the worker resets them and lists there is none
(`ExpectationsCover`); while it walks through the indices a live pod missing in
its list is one it created itself, behind the present index (`ListCovers`). A
pod is created only for an index for which the list has none, hence for one
without a live pod. The counting argument (one report lowers the set of
unreported pods and the expectation by one) uses the cardinality theorems for
finite sets.

*JobStatusProofs* proves `[]StatusInv`, `[]TypeOK`, `[]PublishedIsStored`,
`StatusNeverGoesBack`, `FinishedIsFinal` and `ImplementsPromise`, each from
`Spec`. `StatusInv` has two strengthenings.

* `CopyIsLatest`: the cached job is the stored one if it has its version; the
  worker's copy is the stored one as long as its version is the latest, so that
  a write that is accepted starts from the latest status; nothing the worker
  does to its copy takes a phase back, which rests on the lemmas about
  GetRolePhase and GetJobPhase. It gives StatusNeverGoesBack.
* `CopiesAreBehind`: every copy is behind what is stored, and a status about to
  be written was deduced from the one the worker read in the way JobPromise
  allows. PublishedIsStored needs more than one expects: the library writes the
  status only if counters or the phase of the job have changed, and not because
  the phase of a role has. That no Running is published which was never stored
  rests on the counters: a role begins to run only when all its replicas are
  counted as active, and a stored status with that count says that it has
  started, so the counters of the new status differ from the old ones.

The refinement goes step by step: only the write of the worker changes `job.phase`
and `job.roles`. If it is accepted it starts from the stored status
(CopyIsLatest), to which the worker applied UpdatePhases, which is a `Deduce` of
JobPromise, or setEvictedCondition, which is an `Evict`, or SetInvalidDefinition
on a status with the phases of the roles done so far, which is an `Invalidate`;
every other step is a stutter.

*JobLifetimeProofs* proves `[]TypeOK`, `[]FinalizerHolds` and `[]CacheDiesWithJob`,
for any number of jobs of the name. `FinalizerHolds` says
why a job with the finalizer is gone only by finalize and why nothing is
published afterwards. The lower bound on the records of expectations is not
inductive, either: `RecordsAreBounded` adds the creations that are still to be
reported, whose number is lowered with the record.

*FrameworksProofs* and *JobDefinitionProofs* prove all safety invariants of the
run *definitions*, for every set of definitions (any roles, among them those of
the frameworks; any replicas, ports, policies, dependences and options), any
sizes to scale to and any number of scalings, lost pods and refused writes.

* `[]TypeOK`, `[]StoredIsSettled`, `[]DefaultsSettle`. That Defaulted is idempotent is split in two
  for each framework: the defaults yield a settled definition (`IsSettled`), and
  they leave a settled one alone. Unlike `d = Defaulted(d)`, being settled can
  be read off role by role, and is kept when a role is scaled. `StoredIsSettled`
  says that the stored job is settled once it was updated, and counts versions,
  so that a second update could come only from an old copy and would be refused.
* `[]RanksAreDistinct`, `[]PortsAreDisjoint`. While no role was scaled, the
  copies of the job are the submitted definition or that with its defaults
  (`CopiesOfGiven`), and every pod is one that SetClusterSpec makes of the latter
  and that Validate has let pass (`PodsOfGiven`); then they are facts about
  SetClusterSpec and Validate.
* `[]DefaultsDecideJob`. The stored policy is that of SetDefault
  (`PolicyOfGiven`), which names roles that Validate asks for or that are
  present; the conditions of success come with it.
* `[]AddressesResolve`. When nothing is left to do, the pods of every role are
  complete (`IdleIsComplete`), which for a role that never restarts rests on
  `StartedStay`; what a pod is told of are pods of roles with a service.
* `[]DynamicWorkersStayRight`. Every pod was made from a definition that differs
  from the present one in the number of workers only (`PodsOfTemplates`), which
  the sparse cluster specification does not show in. The number of workers does
  decide whether a job of workers only is distributed, which is why the property
  has its exception; with a ps, a master or a chief it decides nothing.

SliceSize and Outcome take the maximum and the minimum of sets of numbers. Their
lemmas (`MinOfNats`, `MaxOfNats`) rest on the well-foundedness of the order of the
natural numbers in the library.

The proofs found two mistakes in the models, a CASE with overlapping guards in
LastStarted and another in Creation: TLC takes the first guard that holds, which
is what the code does, but TLA+ does not say so. Both are IF chains now. RanksAreDistinct
did not say about which roles it is; no instance had another.

Assumptions: the named ASSUMEs, which TLC evaluates in every run. PodReconcile
and JobStatus: a finite, nonempty set of roles, positive replicas, a policy and
dependences over these roles, natural bounds. JobLifetime: a sequence of kinds of
jobs, a natural bound. JobDefinition: the names of roles include those the
frameworks know (`RolesAssumption`), every definition is one by type
(`SubmissionsAssumption`), sizes and bounds are natural numbers.

**Only model-checked.** All liveness properties: EventuallyPopulated,
EventuallyTrimmed, EventuallyRunning, RunningIsPublished, EvictionFailsJob,
NodeDownFailsRole, FinishedIsCleanedUp, WrongIsReported, AllRolesStart,
LastJobIsServed, FinishedLeavesNothing, DeletedIsGone. The prover has no rules for fairness and ENABLED.
Every safety property of a passing run is proved; those of the other runs are
violated.

## Abstractions

* PodReconcile: templates, names and labels of pods are left out; a role of
  policy Never has fixed pod names, which the API server refuses to reuse while
  a pod of the name exists, others have generated names. Services are one call
  after the pods of the role, and their own records of expectations
  (`reconciler/expectation.go:22`), which can only hold a reconcile back longer,
  are left out. The status write is nondeterministic. Replicas are positive, as
  ValidateCreate demands.
* JobStatus: fixed replicas; exit codes and the pod phase Unknown are not
  distinguished; a preempted pod is deleted in one step; a PodGroup does not go
  back to Pending; it is scheduled when all pods of the gang are there; times to
  live after failure and success are set; times of conditions are left out. The
  definition is not edited, and whether a pod or service is refused as invalid is
  nondeterministic for the roles in `Refusable`.
* Frameworks: names of containers and ports are reduced to whether the one the
  framework looks for is there; the environment of a pod to its rank, the size
  of its world, its ports and the pods and services it is told of. The text of
  environment variables, host files and command lines is left out. Every role has
  a ReplicaSpec; one without template, replicas and restart policy would be
  dereferenced by SetDefault of standalone, custom, tensorflow and dask before
  Default fills it in. The tests of dask (`frameworks/dask/dask_test.go`) still
  call "master" the role that the code calls "leadworker"; the model has the
  code's name.
* JobDefinition: pods and services are seen as they are, at once; a role starts
  in one step and no role finishes; the roles of one reconcile are taken
  together, or, when one stops it, after any set of the others, as the order is
  that of a Go map. Pods are refused as invalid, and services fail for their
  ports; the service that is refused as invalid is in JobStatus, where it does
  the same as a pod that is.
* JobLifetime: one role of restart policy Never with one pod and one service,
  both with the names the code derives from that of the job. Pending and
  Starting are one phase, Succeeded and Failed are Finished. The
  cleanPodPolicy is the default None, so that only the CleanUpQueue deletes.
* Except in JobLifetime there is one job; reconciles of different jobs share no
  state that is modelled.

## Not modelled

* The inner workings of the role cache: MemoryCache is a Go map that ten workers
  and the observer use without a lock. Go defines no outcome but the end of the
  process; the modules have restarts at every step.
* The node manager beyond one mark per node: several conditions of a node are
  joined by "or", and a node has no state that another one reads.
* The diff of annotations and labels (`reconciler/metadata.go`): it is computed
  in full by every reconcile and keeps nothing. That its patch can fail between
  the status write and HandleRolePhases is modelled.
* Texts: environment variables, command lines, reasons, events, the port list of
  a service, the addresses of the observer. They keep no state.
* Configuration, command line, HTTP server: start-up and plumbing. Generated
  code.

## Plan

1. Phases, PodReconcile, JobStatus with their proofs: done.
2. JobPromise and the refinement, Frameworks, JobDefinition, JobLifetime: done.
3. Proofs of every safety property of the runs of JobStatus, JobLifetime and
   JobDefinition, and of the refinement of JobPromise: done.
4. Left: the steps that the liveness properties take, as action properties
   and invariants that can be proved (a settled job that is valid and queued
   creates a pod, starts a role or is done; the default dependences of every
   framework are acyclic and on roles that exist, which AllRolesStart rests on;
   a finished job is queued for cleanup whenever a reconcile reaches its end).
