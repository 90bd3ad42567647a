---------------------------- MODULE JobDefinition ----------------------------
(***************************************************************************)
(* From the definition a user submits to the pods that run it: the first   *)
(* half of AresJobReconciler.Reconcile (unknown framework, setDefault,     *)
(* validate, setInvalidDefinition), what ReconcileJobs creates from the    *)
(* definition it read, and the user who scales a role meanwhile.           *)
(*                                                                         *)
(* The worker works on the informer's copy of the job.  A write is refused *)
(* when that copy is old.  Pods and services are seen as they are and      *)
(* change at once, how they are listed late is the subject of              *)
(* PodReconcile.  That a role starts is one step, how its phase is         *)
(* deduced, stored and published is the subject of JobStatus.              *)
(*                                                                         *)
(* The operator has no recover(): a panic in a reconcile ends the process. *)
(***************************************************************************)
EXTENDS Frameworks, FiniteSetsExt, Sequences

CONSTANTS
    Roles,          \* the names of roles
    Submissions,    \* the definitions users submit
    Sizes,          \* the numbers of replicas a role is scaled to
    MaxDisturb(_)   \* how often, at most, a job of this definition is
                    \* disturbed: a role is scaled, a write of the job
                    \* fails or a pod is lost

ASSUME RolesAssumption == FrameworkRoles \subseteq Roles
ASSUME SubmissionsAssumption == \A d \in Submissions : IsDefinition(d, Roles)
ASSUME SizesAssumption == Sizes \subseteq Nat
ASSUME MaxDisturbAssumption == \A d \in Submissions : MaxDisturb(d) \in Nat

VARIABLES
    given,      \* the definition as it was submitted
    job,        \* the job in the API server
    seen,       \* the informer's copy of it
    queued,     \* the key of the job is in the work queue
    up,         \* the process of the operator is running
    pods,       \* pods: role, index, env, and the roles they wait for
    services,   \* roles that have a service
    started,    \* roles whose pods are all running
    updates,    \* times setDefault stored the definition
    scaled,     \* the roles the user scaled, one after the other
    faults, lost

vars == <<given, job, seen, queued, up, pods, services, started, updates, scaled, faults, lost>>
events == <<scaled, faults, lost>>

Disturbances == Len(scaled) + faults + lost
Names(policy) == UNION (policy.failed \union policy.succeeded)

Job(spec, finalizer, invalid, version) ==
    [spec |-> spec, finalizer |-> finalizer, invalid |-> invalid, version |-> version]

Init ==
    /\ given \in Submissions
    /\ job = Job(given, FALSE, FALSE, 0)
    /\ seen = job
    /\ queued = TRUE
    /\ up = TRUE
    /\ pods = {}
    /\ services = {}
    /\ started = {}
    /\ updates = 0
    /\ scaled = <<>> /\ faults = 0 /\ lost = 0

-----------------------------------------------------------------------------
(* The first half of Reconcile *)

(* A job with an invalid definition is left alone for good. *)
Ignore ==
    /\ up /\ queued /\ seen.invalid
    /\ queued' = FALSE
    /\ UNCHANGED <<given, job, seen, up, pods, services, started, updates, events>>

Begun == up /\ queued /\ ~seen.invalid
Known == seen.spec.framework \in Registered
Settled == /\ Known
           /\ ~SetDefaultPanics(seen.spec)
           /\ Defaulted(seen.spec) = seen.spec

(* The write is refused: the copy is old or the call fails. *)
Refused == \/ seen # job /\ UNCHANGED faults
           \/ seen = job /\ Disturbances < MaxDisturb(given) /\ faults' = faults + 1

(* setDefault updates the job if the defaults change its spec, and with it *)
(* the finalizer.  The reconcile ends there, and is retried if the update  *)
(* failed.                                                                 *)
StoreDefaults ==
    /\ Begun /\ Known /\ ~SetDefaultPanics(seen.spec) /\ ~Settled
    /\ \/ /\ seen = job
          /\ LET spec == Defaulted(seen.spec)
             IN  job' = Job(spec, job.finalizer \/ HasDependence(spec), FALSE, job.version + 1)
          /\ updates' = updates + 1
          /\ queued' = FALSE
          /\ UNCHANGED faults
       \/ /\ Refused
          /\ UNCHANGED <<job, updates, queued>>
    /\ UNCHANGED <<given, seen, up, pods, services, started, scaled, lost>>

SetDefaultCrashes ==
    /\ Begun /\ Known /\ SetDefaultPanics(seen.spec)
    /\ up' = FALSE
    /\ queued' = FALSE
    /\ UNCHANGED <<given, job, seen, pods, services, started, updates, events>>

(* The error of the status update is dropped and nothing is queued. *)
setInvalidDefinition ==
    /\ \/ /\ seen = job
          /\ job' = [job EXCEPT !.invalid = TRUE, !.version = @ + 1]
          /\ UNCHANGED faults
       \/ Refused /\ UNCHANGED job
    /\ queued' = FALSE

(* Mutant: an unknown framework is only logged. *)
LogUnknown ==
    /\ Begun
    /\ IF Known THEN Settled /\ ~Valid(seen.spec) /\ setInvalidDefinition
       ELSE queued' = FALSE /\ UNCHANGED <<job, faults>>
    /\ UNCHANGED <<given, seen, up, pods, services, started, updates, scaled, lost>>

Reject ==
    /\ Begun
    /\ Known => Settled /\ ~Valid(seen.spec)
    /\ setInvalidDefinition
    /\ UNCHANGED <<given, seen, up, pods, services, started, updates, scaled, lost>>

-----------------------------------------------------------------------------
(* What ReconcileJobs does with the definition *)

PodsOf(r) == {p \in pods : p.role = r}
Indexes(r) == {p.index : p \in PodsOf(r)}

(* calculatePodSliceSize *)
SliceSize(r) == Max({seen.spec.roles[r].replicas} \union {i + 1 : i \in Indexes(r)})

(* The indexes ReconcilePods creates a pod for: a role that is not         *)
(* restarted gets none once it has started.                                *)
Missing(r) ==
    IF seen.spec.roles[r].restart = "Never" /\ r \in started THEN {}
    ELSE (0 .. (SliceSize(r) - 1)) \ Indexes(r)

(* CreateNewPod: the cluster specification, then the dependence, then the  *)
(* call to the API server.                                                 *)
CreateNewPod(r, i) ==
    [role |-> r, index |-> i, env |-> SetClusterSpec(seen.spec, r, i),
     waits |-> seen.spec.roles[r].dependence.on]

Creation(r, i) ==
    IF GetPortFails(seen.spec, r) THEN "error"
    ELSE IF CreateNewPodPanics(seen.spec, r, i) THEN "panic"
    ELSE IF seen.spec.roles[r].legal THEN "done"
    ELSE "refused"

Halting(r) == {i \in Missing(r) : Creation(r, i) # "done"}
Outcome(r) ==
    IF Halting(r) # {} THEN Creation(r, Min(Halting(r)))
    ELSE IF r \notin services /\ GetPortsFromJobFails(seen.spec, r) THEN "error"
    ELSE "done"

(* ReconcilePods goes through the indexes in order, up to the first one it *)
(* cannot create, and deletes the pods beyond the replicas.                *)
ReconcilePods(r) ==
    LET reached == IF Halting(r) # {} THEN Min(Halting(r)) ELSE SliceSize(r)
    IN  {p \in PodsOf(r) : p.index < reached => p.index < seen.spec.roles[r].replicas}
          \union {CreateNewPod(r, i) : i \in {j \in Missing(r) : j < reached}}

ReconcileRoles(rs, stopped) ==
    /\ pods' = {p \in pods : p.role \notin rs \union stopped}
                  \union UNION {ReconcilePods(r) : r \in rs \union stopped}
    /\ services' = services \union {r \in rs : NeedsService(seen.spec, r)}

Accepted == Begun /\ Settled /\ Valid(seen.spec)

(* Demo only logs.                                                         *)
ReconcileDemo ==
    /\ Accepted /\ seen.spec.framework = "demo"
    /\ queued' = FALSE
    /\ UNCHANGED <<given, job, seen, up, pods, services, started, updates, events>>

(* All roles are reconciled.  The events of what was created and deleted   *)
(* queue the job again.  Then the phase of the job is deduced, which       *)
(* panics when it comes to a role of the policy that does not exist; it    *)
(* may be spared that, depending on the phases of the others.              *)
ReconcileJobs ==
    /\ Accepted /\ seen.spec.framework # "demo"
    /\ \A r \in DOMAIN seen.spec.roles : Outcome(r) = "done"
    /\ ReconcileRoles(DOMAIN seen.spec.roles, {})
    /\ \/ up' = TRUE /\ queued' = (pods' # pods \/ services' # services)
       \/ /\ ~(Names(seen.spec.policy) \subseteq DOMAIN seen.spec.roles)
          /\ up' = FALSE /\ queued' = FALSE
    /\ UNCHANGED <<given, job, seen, started, updates, events>>

(* A role stops it, after some of the others (the order is that of a map): *)
(* the process dies, the definition is invalid because the API server      *)
(* refuses the pod, or the reconcile is retried.                           *)
ReconcileJobsStops(r) ==
    /\ Accepted /\ seen.spec.framework # "demo"
    /\ Outcome(r) # "done"
    /\ \E others \in SUBSET (DOMAIN seen.spec.roles \ {r}) :
          /\ \A o \in others : Outcome(o) = "done"
          /\ ReconcileRoles(others, {r})
    /\ \/ Outcome(r) = "panic" /\ up' = FALSE /\ queued' = FALSE /\ UNCHANGED <<job, faults>>
       \/ Outcome(r) = "refused" /\ setInvalidDefinition /\ UNCHANGED up
       \/ Outcome(r) = "error" /\ UNCHANGED <<up, queued, job, faults>>
    /\ UNCHANGED <<given, seen, started, updates, scaled, lost>>

-----------------------------------------------------------------------------
(* The rest of the system *)

(* All pods of the role run and what they wait for has started; the        *)
(* reconcile stores it.                                                    *)
RoleStarts(r) ==
    /\ up /\ r \in DOMAIN job.spec.roles \ started
    /\ job.spec.roles[r].replicas > 0
    /\ 0 .. (job.spec.roles[r].replicas - 1) \subseteq Indexes(r)
    /\ \A p \in PodsOf(r) : p.waits \subseteq started
    /\ started' = started \union {r}
    /\ UNCHANGED <<given, job, seen, queued, up, pods, services, updates, events>>

Deliver ==
    /\ up /\ seen # job
    /\ seen' = job
    /\ queued' = TRUE
    /\ UNCHANGED <<given, job, up, pods, services, started, updates, events>>

(* The informer resyncs. *)
Resync ==
    /\ up /\ ~queued
    /\ queued' = TRUE
    /\ UNCHANGED <<given, job, seen, up, pods, services, started, updates, events>>

Restart ==
    /\ ~up
    /\ up' = TRUE
    /\ seen' = job
    /\ queued' = TRUE
    /\ UNCHANGED <<given, job, pods, services, started, updates, events>>

ScaleRole(r, n) ==
    /\ Disturbances < MaxDisturb(given)
    /\ r \in DOMAIN job.spec.roles /\ n # job.spec.roles[r].replicas
    /\ job' = [job EXCEPT !.spec.roles[r].replicas = n, !.version = @ + 1]
    /\ scaled' = Append(scaled, r)
    /\ UNCHANGED <<given, seen, queued, up, pods, services, started, updates, faults, lost>>

(* A pod of a role that is restarted is gone, with its node for example.   *)
(* A role that is never restarted is not given a lost pod back once it has *)
(* started: the role fails, which JobStatus models and this module not.    *)
LosePod(p) ==
    /\ Disturbances < MaxDisturb(given)
    /\ p.role \in DOMAIN job.spec.roles /\ job.spec.roles[p.role].restart # "Never"
    /\ pods' = pods \ {p}
    /\ queued' = up
    /\ lost' = lost + 1
    /\ UNCHANGED <<given, job, seen, up, services, started, updates, scaled, faults>>

Reconcile ==
    \/ Ignore \/ StoreDefaults \/ SetDefaultCrashes \/ Reject
    \/ ReconcileDemo \/ ReconcileJobs
    \/ \E r \in DOMAIN seen.spec.roles : ReconcileJobsStops(r)

Next ==
    \/ Reconcile
    \/ \E r \in Roles : RoleStarts(r)
    \/ Deliver \/ Resync \/ Restart
    \/ \E r \in Roles, n \in Sizes : ScaleRole(r, n)
    \/ \E p \in pods : LosePod(p)

Spec == Init /\ [][Next]_vars

(* The worker takes what is queued, informers deliver, pods come to run,   *)
(* the informer resyncs, and the process is restarted.                     *)
FairSpec ==
    /\ Spec
    /\ WF_vars(Reconcile) /\ WF_vars(Deliver) /\ WF_vars(Resync) /\ WF_vars(Restart)
    /\ \A r \in Roles : WF_vars(RoleStarts(r))
-----------------------------------------------------------------------------
(* Properties *)

(* The types of the variables. *)
TypeOK ==
    /\ \A j \in {job, seen} :
          /\ IsDefinition(j.spec, Roles)
          /\ j.spec.framework = given.framework /\ DOMAIN j.spec.roles = DOMAIN given.roles
          /\ j.finalizer \in BOOLEAN /\ j.invalid \in BOOLEAN
          /\ j.version \in 0 .. (2 + MaxDisturb(given))
    /\ queued \in BOOLEAN /\ up \in BOOLEAN
    /\ \A p \in pods : p.role \in DOMAIN given.roles /\ p.index \in Nat
    /\ services \subseteq DOMAIN given.roles /\ started \subseteq DOMAIN given.roles
    /\ updates \in Nat /\ Disturbances \in 0 .. MaxDisturb(given)

(* The defaults of every framework, applied before the common ones, reach  *)
(* a fixed point in one update: however the user's changes, old copies and  *)
(* refused updates are interleaved, setDefault stores a definition once,   *)
(* and does not update it for ever against its own result.                 *)
DefaultsSettle == updates <= 1

(* Why it does: what is stored is settled, and stays so when a role is     *)
(* scaled.  The version of the job counts the updates.                     *)
StoredIsSettled ==
    /\ updates <= 1
    /\ updates = 1 => IsSettled(job.spec)
    /\ job.version = updates + Len(scaled) + (IF job.invalid THEN 1 ELSE 0)
    /\ seen.version <= job.version

(* Mpi without a launcher and standalone without a worker are accepted     *)
(* with a policy about a role that does not exist; tensorflow with         *)
(* neither of these has no condition of success; demo has no defaults.     *)
Undecided(d) ==
    \/ d.framework = "mpi" /\ ~HasRole(d, "launcher")
    \/ d.framework = "standalone" /\ ~HasRole(d, "worker")
    \/ d.framework = "tensorflow" /\ Present(d, {"master", "chief", "worker"}) = {}
    \/ d.framework = "demo"

(* A job that is accepted with the policy SetDefault gave it can be        *)
(* decided: its policy names roles that exist, which GetJobPhase           *)
(* dereferences, and some condition of success consists of roles that have *)
(* a condition of success themselves.                                      *)
DefaultsDecideJob ==
    updates > 0 /\ ~given.policy.given /\ Valid(job.spec) /\ ~Undecided(given) =>
        /\ Names(job.spec.policy) \subseteq DOMAIN job.spec.roles
        /\ \E rs \in job.spec.policy.succeeded :
              \A r \in rs : job.spec.roles[r].succeeded # "None"

(* The pods were all created from one number of replicas. *)
Unscaled == scaled = <<>>

(* The roles that share a world.  Any other role but the scheduler gets    *)
(* rank 0 from dask, like the leadworker, and no rank from the others.     *)
Ranked == IF given.framework = "dask" THEN {"leadworker", "worker", "launcher"}
          ELSE {"master", "worker"}

(* In a job of which no role was scaled, no two of the pods that share a   *)
(* world (pytorch, dask, static bagua) are told the same rank, and all     *)
(* ranks are below the size of the world.  The ranks are computed from     *)
(* index and role, and only right because of what Validate asks of the     *)
(* replicas.                                                               *)
RanksAreDistinct ==
    Unscaled =>
        \A p, q \in {m \in pods : m.env.rank # Unset /\ m.role \in Ranked} :
            /\ p.env.rank < p.env.world
            /\ p # q => p.env.rank # q.env.rank

(* In an elastic bagua job of which no role was scaled, every worker and   *)
(* etcd has a port of its own on the host network, and no port is dealt    *)
(* out twice (getPrivatePorts).  A pod of any other role has the ports of  *)
(* the worker of its index.                                                *)
PortsAreDisjoint ==
    Unscaled /\ given.framework = "bagua" /\ given.option = "on" =>
        \A p, q \in PodsOf("worker") \union PodsOf("etcd") :
            /\ p.env.ports # {}
            /\ p # q => p.env.ports \intersect q.env.ports = {}

(* Nothing is left to do for an accepted job, and nothing stopped it. *)
Idle ==
    /\ up /\ ~queued /\ seen = job
    /\ Settled /\ Valid(job.spec) /\ ~job.invalid
    /\ \A r \in DOMAIN job.spec.roles : Outcome(r) = "done"

(* When nothing is left to do, every pod another one is told to talk to    *)
(* exists and its role has the service that resolves its name              *)
(* (GetPodDomainName, ReconcileServices of the frameworks), in a job of    *)
(* which no role was scaled and no pod of a role that is never restarted   *)
(* was lost: such a pod is not created again, and the others keep its      *)
(* address until their role or the job has failed.                         *)
AddressesResolve ==
    Idle /\ Unscaled =>
        \A p \in pods : \A a \in p.env.pods :
            /\ \E q \in pods : <<q.role, q.index>> = a
            /\ a[1] \in services

(* Of the roles that count for isDistributed the job has workers only. *)
WorkersOnly(d) == Present(d, SpecificRoles) = {"worker"}

(* What a pod of tensorflow with dynamic workers was told stays right when *)
(* only the workers are scaled: it is what a pod created now would be      *)
(* told, although it was created from an older definition.  That is what   *)
(* the sparse cluster specification is for.  It fails where a job of       *)
(* workers only becomes distributed, or ceases to be: a single worker has  *)
(* no TF_CONFIG, one of three has, and neither is created anew when the    *)
(* number changes.  Even there a worker that was told of a cluster was     *)
(* told the right one.                                                     *)
DynamicWorkersStayRight ==
    given.framework = "tensorflow" /\ given.option = "on"
        /\ Range(scaled) \subseteq {"worker"} /\ Valid(Defaulted(job.spec)) =>
        \A p \in pods :
            LET now == SetClusterSpec(job.spec, p.role, p.index)
            IN  \/ p.env = now
                \/ WorkersOnly(given) /\ NoEnv \in {p.env, now}

(* A definition whose defaults cannot be computed, that no framework knows *)
(* or that is not valid. *)
Wrong(d) == d.framework \notin Registered \/ SetDefaultPanics(d) \/ ~Valid(Defaulted(d))

(* A wrong definition is reported in the status of the job, or brings the  *)
(* operator down; although the error of setInvalidDefinition is dropped    *)
(* and nothing is queued, the resync makes up for it.                      *)
WrongIsReported == <>[]Wrong(job.spec) => <>(job.invalid \/ ~up)

(* The roles that Validate looks for with CheckRolesExist. *)
Required(d) ==
    CASE d.framework = "dask" -> {"launcher", "scheduler"}
      [] d.framework = "bagua" -> IF d.option = "on" THEN {"worker", "etcd"} ELSE {"master"}
      [] OTHER -> {}

(* A definition that lacks a role which Validate looks for is rejected     *)
(* with the error of CheckRolesExist; it does not bring the operator down. *)
MissingRolesAreRejected == ~up => CheckRolesExist(job.spec, Required(job.spec))

(* Definitions that leave the dependences to the defaults and have the     *)
(* containers and ports the framework asks for.                            *)
Plain(d) ==
    \A r \in DOMAIN d.roles :
        /\ ~d.roles[r].dependence.given
        /\ d.roles[r].containers = "default" /\ d.roles[r].named /\ d.roles[r].legal

(* The roles of a job whose dependences are those SetDefault added all     *)
(* start: no role waits for a role that does not exist or, through others, *)
(* for itself, whatever is scaled, lost or refused on the way - unless the *)
(* definition becomes invalid or the operator goes down again and again.   *)
AllRolesStart ==
    Plain(given) /\ ~Wrong(given) /\ given.framework # "demo"
        /\ [](~Wrong(job.spec)) /\ <>[]up
        => <>(started = DOMAIN given.roles)
=============================================================================
