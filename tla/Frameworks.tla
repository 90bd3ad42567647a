----------------------------- MODULE Frameworks -----------------------------
(***************************************************************************)
(* What the operator does with the definition of an AresJob before and     *)
(* while it creates pods: the defaults and the validation common to all    *)
(* jobs (api/v1/aresjob_webhook.go), the defaults, the validation and the  *)
(* cluster specification of each framework (frameworks/...), and which     *)
(* roles get a service.  Everything here is a pure operator on a           *)
(* definition.                                                             *)
(*                                                                         *)
(* A definition is reduced to what these operators read.  Of the           *)
(* containers of a role it says whether there are any and whether one has  *)
(* the name the framework looks for, how many ports that one declares and  *)
(* whether one of them has the name the framework looks for.  The          *)
(* environment of a pod is reduced to its rank, the size of its world, its *)
(* ports and the pods and services it is told to talk to.                  *)
(***************************************************************************)
EXTENDS Phases

Registered == {"bagua", "custom", "dask", "demo", "mpi", "pytorch", "standalone", "tensorflow"}

(* The roles the frameworks know. *)
FrameworkRoles == {"chief", "etcd", "evaluator", "launcher", "leadworker", "master", "ps",
                   "scheduler", "worker"}

(* A nil *int32. *)
Unset == -1

(* A nil *DependenceSpec has given FALSE. *)
NoDependence == [given |-> FALSE, on |-> {}, hostFile |-> FALSE]
WaitsFor(roles) == [given |-> TRUE, on |-> roles, hostFile |-> FALSE]
HostFileOf(roles) == [given |-> TRUE, on |-> roles, hostFile |-> TRUE]

(* A nil *JobPhasePolicy. *)
NoPolicy == [given |-> FALSE, failed |-> {}, succeeded |-> {}]

(* The definition of a job:                                                *)
(*   framework, roles (a function from names to role definitions), policy, *)
(*   option: framework.bagua.enableElastic, framework.mpi.implementation   *)
(*     (ompi is "off", mpich is "on", anything else "bad") or              *)
(*     framework.tensorflow.enableDynamicWorker; "nil" if it has none,     *)
(*   ports: the number of availablePorts,                                  *)
(*   complete: cleanPodPolicy and the controllers of the roles are set.    *)
(* A role: replicas, restart ("" if unset), failed, succeeded and          *)
(* nodeDownAsFailed of its phase policy, dependence, containers, declared  *)
(* and named ports, and whether the API server takes its pods (legal).     *)
Replicas == {Unset} \union Nat
RoleDefinition(names) ==
    [replicas : Replicas, restart : RestartPolicy \union {""},
     failed : RolePhaseCondition, succeeded : RolePhaseCondition, nodeDownAsFailed : BOOLEAN,
     dependence : [given : BOOLEAN, on : SUBSET names, hostFile : BOOLEAN],
     containers : {"none", "other", "default"}, declared : Nat, named : BOOLEAN,
     legal : BOOLEAN]

PolicyDefinition(names) ==
    [given : BOOLEAN, failed : SUBSET (SUBSET names), succeeded : SUBSET (SUBSET names)]

IsDefinition(d, names) ==
    /\ DOMAIN d.roles \subseteq names
    /\ d \in [framework : Registered \union {"unknown"},
              roles : [DOMAIN d.roles -> RoleDefinition(names)],
              policy : PolicyDefinition(names), option : {"nil", "off", "on", "bad"},
              ports : Nat, complete : BOOLEAN]

HasRole(job, r) == r \in DOMAIN job.roles
Present(job, names) == names \intersect DOMAIN job.roles
GetRoleReplicas(job, r) == IF HasRole(job, r) THEN job.roles[r].replicas ELSE 0
HasDependence(job) == \E r \in DOMAIN job.roles : job.roles[r].dependence.given

-----------------------------------------------------------------------------
(* Defaults *)

Each(names) == {{r} : r \in names}

WithPolicy(job, failed, succeeded) ==
    IF job.policy.given THEN job
    ELSE [job EXCEPT !.policy = [given |-> TRUE, failed |-> failed, succeeded |-> succeeded]]

WithFailed(role, cond) == [role EXCEPT !.failed = IF @ = "None" THEN cond ELSE @]
WithSucceeded(role, cond) == [role EXCEPT !.succeeded = IF @ = "None" THEN cond ELSE @]

(* Mutant: the condition of failure is none that exists. *)
WithUnknownCondition(role) == WithSucceeded(WithFailed(role, "AnyPods"), "AllPods")

WithConditions(role) == WithSucceeded(WithFailed(role, "AnyPod"), "AllPods")

WaitingFor(role, dependence) ==
    IF role.dependence.given THEN role ELSE [role EXCEPT !.dependence = dependence]

(* Fails with a pod if its pods are not restarted in place. *)
WithFailedUnlessRestarted(role) ==
    IF role.restart \in {"Never", "ExitCode"} THEN WithFailed(role, "AnyPod") ELSE role

(* AresJob.Default *)
DefaultRole(role) ==
    LET restarting == [role EXCEPT !.restart = IF @ = "" THEN "Never" ELSE @,
                                   !.replicas = IF @ = Unset THEN 1 ELSE @]
    IN  IF restarting.restart = "Never" THEN WithConditions(restarting) ELSE restarting

Default(job) ==
    [job EXCEPT !.complete = TRUE,
                !.roles = [r \in DOMAIN job.roles |-> DefaultRole(job.roles[r])]]

(* Elastic: the workers decide and wait for etcd.  Static: master and      *)
(* workers decide and the workers wait for the master, unless the user     *)
(* gave a policy, which turns all these defaults off.                      *)
BaguaRole(job, r) ==
    LET elastic == job.option = "on"
        mine == IF elastic THEN {"worker", "etcd"}
                ELSE IF job.policy.given THEN {} ELSE {"worker", "master"}
        leader == IF elastic THEN "etcd" ELSE "master"
    IN  CASE r \notin mine -> job.roles[r]
          [] r \in mine /\ r = "worker" ->
               WaitingFor(WithConditions(job.roles[r]), WaitsFor({leader}))
          [] r \in mine /\ r # "worker" -> WithConditions(job.roles[r])

BaguaSetDefault(job) ==
    LET elastic == job.option = "on"
        deciding == {"master"} \union Present(job, {"worker"})
    IN  WithPolicy([job EXCEPT !.option = IF @ = "nil" THEN "off" ELSE @,
                               !.roles = [r \in DOMAIN job.roles |-> BaguaRole(job, r)]],
                   Each(IF elastic THEN {"worker", "etcd"} ELSE deciding),
                   {IF elastic THEN {"worker"} ELSE deciding})

LastStarted(job) == IF HasRole(job, "worker") THEN "worker"
                    ELSE IF HasRole(job, "leadworker") THEN "leadworker"
                    ELSE "scheduler"

(* Every role waits for the one before it: scheduler, leadworker, worker,  *)
(* launcher; the dependence of the launcher is overwritten.                *)
DaskRole(job, r) ==
    LET role == WithConditions(job.roles[r])
    IN  CASE r = "scheduler" -> [role EXCEPT !.dependence = NoDependence, !.restart = "OnFailure"]
          [] r = "leadworker" -> WaitingFor(role, WaitsFor({"scheduler"}))
          [] r = "worker" -> WaitingFor(role, WaitsFor({"leadworker"}))
          [] r = "launcher" -> [role EXCEPT !.dependence = WaitsFor({LastStarted(job)})]
          [] OTHER -> job.roles[r]

DaskSetDefault(job) ==
    WithPolicy([job EXCEPT !.roles = [r \in DOMAIN job.roles |-> DaskRole(job, r)]],
               Each({"launcher", "scheduler"} \union Present(job, {"leadworker", "worker"})),
               {{"launcher"}})

(* Mutant: the workers wait for the workers, too. *)
AllWaitForWorkers(job) ==
    WithPolicy([job EXCEPT !.option = IF @ = "nil" THEN "off" ELSE @,
                           !.roles = [r \in DOMAIN job.roles |->
                               WaitingFor(WithConditions(job.roles[r]), HostFileOf({"worker"}))]],
               Each({"launcher"} \union Present(job, {"worker"})), {{"launcher"}})

(* A lost node fails launcher and workers unless the user gave a policy;   *)
(* the launcher waits for the workers to write its host file.              *)
MPIRole(job, r) ==
    LET failing == IF job.roles[r].failed # "None" THEN job.roles[r]
                   ELSE [job.roles[r] EXCEPT !.failed = "AnyPod", !.nodeDownAsFailed = TRUE]
        launching == WithSucceeded(failing, "AllPods")
    IN  CASE r = "worker" -> failing
          [] r = "launcher" -> IF HasRole(job, "worker")
                               THEN WaitingFor(launching, HostFileOf({"worker"})) ELSE launching
          [] OTHER -> job.roles[r]

MPISetDefault(job) ==
    WithPolicy([job EXCEPT !.option = IF @ = "nil" THEN "off" ELSE @,
                           !.roles = [r \in DOMAIN job.roles |-> MPIRole(job, r)]],
               Each({"launcher"} \union Present(job, {"worker"})), {{"launcher"}})

(* Mutant: the workers decide whether or not there are any. *)
DecideByWorkers(job) ==
    WithPolicy([job EXCEPT !.roles = [r \in DOMAIN job.roles |->
                   IF r = "worker" /\ HasRole(job, "master")
                   THEN WaitingFor(WithConditions(job.roles[r]), WaitsFor({"master"}))
                   ELSE WithConditions(job.roles[r])]],
               Each({"master", "worker"}), {{"master", "worker"}})

PytorchRole(job, r) ==
    CASE r = "master" -> WithConditions(job.roles[r])
      [] r = "worker" -> IF HasRole(job, "master")
                         THEN WaitingFor(WithConditions(job.roles[r]), WaitsFor({"master"}))
                         ELSE WithConditions(job.roles[r])
      [] OTHER -> job.roles[r]

PytorchSetDefault(job) ==
    LET deciding == {"master"} \union Present(job, {"worker"})
    IN  WithPolicy([job EXCEPT !.roles = [r \in DOMAIN job.roles |-> PytorchRole(job, r)]],
                   Each(deciding), {deciding})

(* The default of a role of standalone, custom and tensorflow. *)
Deciding(role) == WithFailedUnlessRestarted(WithSucceeded(role, "AllPods"))

StandaloneSetDefault(job) ==
    WithPolicy([job EXCEPT !.roles = [r \in DOMAIN job.roles |->
                                        IF r = "worker" THEN Deciding(job.roles[r])
                                        ELSE job.roles[r]]],
               Each({"worker"}), {{"worker"}})

CustomSetDefault(job) ==
    WithPolicy([job EXCEPT !.roles = [r \in DOMAIN job.roles |-> Deciding(job.roles[r])]],
               Each(DOMAIN job.roles), {DOMAIN job.roles})

SpecificRoles == {"chief", "evaluator", "master", "ps", "worker"}

(* Mutant: the port is appended whether or not it is there. *)
AppendDefaultPort(role) ==
    IF role.containers # "default" THEN role
    ELSE [role EXCEPT !.declared = @ + 1, !.named = TRUE]

setDefaultPort(role) ==
    IF role.containers # "default" \/ role.named THEN role
    ELSE [role EXCEPT !.declared = @ + 1, !.named = TRUE]

(* With a chief the workers are restarted and cannot fail the job. *)
TensorflowRole(job, r) ==
    LET restarting ==
          IF HasRole(job, "chief") /\ r = "worker" /\ job.roles[r].restart # "Always"
          THEN [job.roles[r] EXCEPT !.restart = "OnFailure"] ELSE job.roles[r]
    IN  IF r \in SpecificRoles THEN setDefaultPort(Deciding(restarting)) ELSE job.roles[r]

TensorflowSetDefault(job) ==
    LET mine == Present(job, SpecificRoles)
        deciding == Present(job, {"master", "chief", "worker"})
    IN  WithPolicy([job EXCEPT !.option = IF @ = "nil" THEN "off" ELSE @,
                               !.roles = [r \in DOMAIN job.roles |-> TensorflowRole(job, r)]],
                   Each(IF HasRole(job, "chief") THEN mine \ {"worker"} ELSE mine),
                   IF deciding = {} THEN {} ELSE {deciding})

(* setDefault: the defaults of the framework, then the common ones. *)
SetDefault(job) ==
    CASE job.framework = "bagua" -> BaguaSetDefault(job)
      [] job.framework = "custom" -> CustomSetDefault(job)
      [] job.framework = "dask" -> DaskSetDefault(job)
      [] job.framework = "mpi" -> MPISetDefault(job)
      [] job.framework = "pytorch" -> PytorchSetDefault(job)
      [] job.framework = "standalone" -> StandaloneSetDefault(job)
      [] job.framework = "tensorflow" -> TensorflowSetDefault(job)
      [] job.framework = "demo" -> job
Defaulted(job) == Default(SetDefault(job))

(* The roles whose definition SetDefault dereferences without asking       *)
(* whether it is there.  Every role that is there has a ReplicaSpec (one   *)
(* of template, replicas and restartPolicy is written); one that has none  *)
(* of them is outside of what a definition is here.                        *)
Dereferenced(job) ==
    CASE job.framework = "dask" -> {"scheduler", "launcher"}
      [] job.framework = "bagua" /\ job.option = "on" -> {"worker", "etcd"}
      [] job.framework = "bagua" /\ job.option # "on" /\ ~job.policy.given -> {"master"}
      [] OTHER -> {}
SetDefaultPanics(job) == ~(Dereferenced(job) \subseteq DOMAIN job.roles)

(* What the defaults come to: nothing is left that they would change.      *)
HasConditions(role) == role.failed # "None" /\ role.succeeded # "None"
IsDecided(role) ==
    /\ role.succeeded # "None"
    /\ role.restart \in {"Never", "ExitCode"} => role.failed # "None"

RoleIsSettled(role) ==
    /\ role.restart # "" /\ role.replicas # Unset
    /\ role.restart = "Never" => HasConditions(role)

BaguaIsSettled(job) ==
    /\ job.option # "nil"
    /\ job.option = "on" =>
          /\ \A r \in Present(job, {"worker", "etcd"}) : HasConditions(job.roles[r])
          /\ HasRole(job, "worker") => job.roles["worker"].dependence.given

DaskIsSettled(job) ==
    /\ \A r \in Present(job, {"scheduler", "leadworker", "worker", "launcher"}) :
          HasConditions(job.roles[r])
    /\ \A r \in Present(job, {"leadworker", "worker"}) : job.roles[r].dependence.given
    /\ HasRole(job, "scheduler") => /\ job.roles["scheduler"].dependence = NoDependence
                                    /\ job.roles["scheduler"].restart = "OnFailure"
    /\ HasRole(job, "launcher") => job.roles["launcher"].dependence = WaitsFor({LastStarted(job)})

MPIIsSettled(job) ==
    /\ job.option # "nil"
    /\ \A r \in Present(job, {"launcher", "worker"}) : job.roles[r].failed # "None"
    /\ HasRole(job, "launcher") =>
          /\ job.roles["launcher"].succeeded # "None"
          /\ HasRole(job, "worker") => job.roles["launcher"].dependence.given

PytorchIsSettled(job) ==
    /\ \A r \in Present(job, {"master", "worker"}) : HasConditions(job.roles[r])
    /\ {"master", "worker"} \subseteq DOMAIN job.roles => job.roles["worker"].dependence.given

TensorflowIsSettled(job) ==
    /\ job.option # "nil"
    /\ \A r \in Present(job, SpecificRoles) :
          IsDecided(job.roles[r]) /\ (job.roles[r].containers = "default" => job.roles[r].named)
    /\ {"chief", "worker"} \subseteq DOMAIN job.roles =>
          job.roles["worker"].restart \in {"Always", "OnFailure"}

IsSettled(job) ==
    /\ job.complete
    /\ \A r \in DOMAIN job.roles : RoleIsSettled(job.roles[r])
    /\ job.framework # "demo" => job.policy.given
    /\ job.framework = "bagua" => BaguaIsSettled(job)
    /\ job.framework = "custom" => \A r \in DOMAIN job.roles : IsDecided(job.roles[r])
    /\ job.framework = "dask" => DaskIsSettled(job)
    /\ job.framework = "mpi" => MPIIsSettled(job)
    /\ job.framework = "pytorch" => PytorchIsSettled(job)
    /\ job.framework = "standalone" =>
          \A r \in Present(job, {"worker"}) : IsDecided(job.roles[r])
    /\ job.framework = "tensorflow" => TensorflowIsSettled(job)

-----------------------------------------------------------------------------
(* Validation *)

MatchDNS1123(name) == name # "Illegal_Name"

ValidateCreate(job) ==
    /\ DOMAIN job.roles # {}
    /\ \A r \in DOMAIN job.roles :
          LET role == job.roles[r]
          IN  /\ MatchDNS1123(r)
              /\ role.replicas > 0
              /\ role.containers # "none"
              /\ role.dependence.given /\ ~role.dependence.hostFile => role.dependence.on # {}

CheckRolesExist(job, names) == names \subseteq DOMAIN job.roles

(* Mutant: one port for all the workers is enough. *)
ValidateAnyPorts(job) ==
    IF job.option # "on"
    THEN CheckRolesExist(job, {"master"}) /\ GetRoleReplicas(job, "master") = 1 /\ job.ports >= 2
    ELSE CheckRolesExist(job, {"worker", "etcd"}) /\ GetRoleReplicas(job, "etcd") = 1
            /\ job.ports >= 3

BaguaValidate(job) ==
    IF job.option # "on"
    THEN CheckRolesExist(job, {"master"}) /\ GetRoleReplicas(job, "master") = 1 /\ job.ports >= 2
    ELSE CheckRolesExist(job, {"worker", "etcd"}) /\ GetRoleReplicas(job, "etcd") = 1
            /\ job.ports >= 2 + GetRoleReplicas(job, "worker")

getPodDefaultContainerPorts(role) == IF role.containers = "default" THEN role.declared ELSE 0

DaskValidate(job) ==
    /\ CheckRolesExist(job, {"launcher", "scheduler"})
    /\ GetRoleReplicas(job, "launcher") = 1 /\ GetRoleReplicas(job, "scheduler") = 1
    /\ HasRole(job, "worker") => CheckRolesExist(job, {"leadworker"})
    /\ HasRole(job, "leadworker") =>
          /\ job.roles["leadworker"].replicas = 1
          /\ getPodDefaultContainerPorts(job.roles["leadworker"]) = 1
    /\ getPodDefaultContainerPorts(job.roles["scheduler"]) = 2
    /\ getPodDefaultContainerPorts(job.roles["launcher"]) > 0

MPIValidate(job) == job.option # "bad"

(* Mutant: any number of masters is accepted. *)
ValidateManyMasters(job) == HasRole(job, "master")

PytorchValidate(job) == HasRole(job, "master") /\ job.roles["master"].replicas = 1

TensorflowValidate(job) ==
    /\ \A r \in Present(job, SpecificRoles) : job.roles[r].containers = "default"
    /\ \A r \in Present(job, {"master", "chief"}) : job.roles[r].replicas <= 1

FrameworkValidate(job) ==
    CASE job.framework = "bagua" -> BaguaValidate(job)
      [] job.framework = "dask" -> DaskValidate(job)
      [] job.framework = "mpi" -> MPIValidate(job)
      [] job.framework = "pytorch" -> PytorchValidate(job)
      [] job.framework = "tensorflow" -> TensorflowValidate(job)
      [] job.framework \in {"custom", "demo", "standalone"} -> TRUE

Valid(job) == ValidateCreate(job) /\ FrameworkValidate(job)

-----------------------------------------------------------------------------
(* The cluster specification: what the pod of index i of role r is told. *)

NoEnv == [rank |-> Unset, world |-> 0, ports |-> {}, pods |-> {}, services |-> {}]

GetRolesDomainNames(job, names) ==
    UNION {{r} \X (0 .. (job.roles[r].replicas - 1)) : r \in Present(job, names)}

(* The remaining ports are dealt out by index, as many to each worker. *)
getPrivatePorts(job, i) ==
    LET replicas == GetRoleReplicas(job, "worker")
        each == (job.ports - 2) \div replicas
    IN  IF i < replicas THEN {2 + each * i + k : k \in 1 .. each} ELSE {}

(* Static mode also names the service of a role launcher, which bagua does *)
(* not have.                                                               *)
BaguaClusterSpec(job, r, i) ==
    IF job.option = "on"
    THEN [NoEnv EXCEPT !.ports = IF r = "etcd" THEN 1 .. 2 ELSE getPrivatePorts(job, i),
                       !.pods = IF r = "worker" THEN {<<"etcd", 0>>} ELSE {},
                       !.services = IF r = "worker" THEN {"worker"} ELSE {}]
    ELSE IF r \notin {"master", "worker"} THEN [NoEnv EXCEPT !.ports = 1 .. job.ports]
    ELSE [rank |-> IF r = "worker" THEN i + 1 ELSE 0,
          world |-> GetRoleReplicas(job, "worker") + 1,
          ports |-> 1 .. job.ports,
          pods |-> {<<"master", 0>>} \union GetRolesDomainNames(job, {"master", "worker"}),
          services |-> {"worker", "launcher"}]

getWorldSize(job) ==
    GetRoleReplicas(job, "leadworker") + GetRoleReplicas(job, "launcher")
        + GetRoleReplicas(job, "worker")

DaskClusterSpec(job, r, i) ==
    LET launching == r = "launcher" /\ HasRole(job, "leadworker")
    IN  IF r = "scheduler" THEN [NoEnv EXCEPT !.services = {"scheduler"}]
        ELSE [NoEnv EXCEPT !.rank = CASE r = "worker" -> i + 1
                                      [] launching -> getWorldSize(job) - 1
                                      [] OTHER -> 0,
                           !.world = getWorldSize(job),
                           !.services = IF r = "worker" \/ launching
                                        THEN {"scheduler", "leadworker"} ELSE {"scheduler"}]

PytorchClusterSpec(job, r, i) ==
    IF r \notin {"master", "worker"} THEN NoEnv
    ELSE [NoEnv EXCEPT !.rank = IF r = "worker" THEN i + 1 ELSE i,
                       !.world = GetRoleReplicas(job, "worker") + 1,
                       !.pods = IF r = "worker" THEN {<<"master", 0>>} ELSE {}]

isDistributed(job) == Cardinality(GetRolesDomainNames(job, SpecificRoles)) > 1

(* Mutant: a worker is told of all workers. *)
DenseClusterSpec(job, r, i) ==
    CASE r = "ps" -> {<<r, i>>}
      [] r = "worker" -> GetRolesDomainNames(job, {"ps", "worker"})
      [] OTHER -> {}

convertClusterSpecToSparseClusterSpec(job, r, i) ==
    CASE r = "ps" -> {<<r, i>>}
      [] r = "worker" -> GetRolesDomainNames(job, {"ps"}) \union {<<r, i>>}
      [] OTHER -> {}

TensorflowClusterSpec(job, r, i) ==
    IF ~isDistributed(job) THEN NoEnv
    ELSE [NoEnv EXCEPT !.pods = IF job.option = "on"
                                THEN convertClusterSpecToSparseClusterSpec(job, r, i)
                                ELSE GetRolesDomainNames(job, SpecificRoles)]

CustomClusterSpec(job) == [NoEnv EXCEPT !.pods = GetRolesDomainNames(job, DOMAIN job.roles)]

SetClusterSpec(job, r, i) ==
    CASE job.framework = "bagua" -> BaguaClusterSpec(job, r, i)
      [] job.framework = "custom" -> CustomClusterSpec(job)
      [] job.framework = "dask" -> DaskClusterSpec(job, r, i)
      [] job.framework = "pytorch" -> PytorchClusterSpec(job, r, i)
      [] job.framework = "tensorflow" -> TensorflowClusterSpec(job, r, i)
      [] job.framework \in {"mpi", "standalone", "demo"} -> NoEnv

(* CreateNewPod goes out of the range of the endpoints, or asks a job      *)
(* without an MPI specification for it.                                    *)
CreateNewPodPanics(job, r, i) ==
    \/ /\ job.framework = "tensorflow" /\ job.option = "on" /\ isDistributed(job)
       /\ r \in {"ps", "worker"} /\ i >= job.roles[r].replicas
    \/ job.framework # "mpi" /\ job.roles[r].dependence.hostFile

-----------------------------------------------------------------------------
(* Services *)

(* Mutant: pytorch creates no service at all. *)
NoPytorchService(job, r) ==
    r \notin CASE job.framework \in {"dask", "mpi"} -> {"launcher", "worker"}
               [] job.framework = "pytorch" -> {"master", "worker"}
               [] job.framework = "standalone" -> {"worker"}
               [] OTHER -> {}

(* The frameworks that keep roles from getting a service. *)
NeedsService(job, r) ==
    r \notin CASE job.framework \in {"dask", "mpi"} -> {"launcher", "worker"}
               [] job.framework \in {"pytorch", "standalone"} -> {"worker"}
               [] OTHER -> {}

(* GetPort: the port of the master that the pods of pytorch are told. *)
GetPortFails(job, r) ==
    job.framework = "pytorch" /\ r \in {"master", "worker"} /\ ~job.roles["master"].named

(* The ports of a service come from the container that the framework       *)
(* names; custom names none and takes the first one.                       *)
GetPortsFromJobFails(job, r) ==
    job.framework # "custom" /\ NeedsService(job, r) /\ job.roles[r].containers # "default"
=============================================================================
