-------------------------- MODULE FrameworksProofs --------------------------
(***************************************************************************)
(* Proofs about the operators of Frameworks, for every definition a user   *)
(* can submit: any roles with any names and replicas.                      *)
(***************************************************************************)
EXTENDS Frameworks, FiniteSetTheorems, TLAPS

-----------------------------------------------------------------------------
(* Roles *)

Dependence(N) == [given : {TRUE}, on : SUBSET N, hostFile : BOOLEAN]

(* AresJob.Default leaves a settled role alone and settles any other; what *)
(* a framework has set before stays.                                       *)
LEMMA DefaultRoleSettles ==
    ASSUME NEW N, NEW x \in RoleDefinition(N)
    PROVE  /\ DefaultRole(x) \in RoleDefinition(N)
           /\ RoleIsSettled(DefaultRole(x))
           /\ RoleIsSettled(x) => DefaultRole(x) = x
           /\ DefaultRole(x).dependence = x.dependence /\ DefaultRole(x).containers = x.containers
           /\ DefaultRole(x).named = x.named
           /\ x.restart # "" => DefaultRole(x).restart = x.restart
           /\ x.failed # "None" => DefaultRole(x).failed = x.failed
           /\ x.succeeded # "None" => DefaultRole(x).succeeded = x.succeeded
           /\ DefaultRole(x).restart \in {x.restart, "Never"}
<1>0. 1 \in Replicas /\ 1 # Unset
  BY DEF Replicas, Unset
<1> DEFINE y == [x EXCEPT !.restart = IF @ = "" THEN "Never" ELSE @,
                          !.replicas = IF @ = Unset THEN 1 ELSE @]
<1>1. /\ y \in RoleDefinition(N) /\ y.restart # "" /\ y.replicas # Unset
      /\ y.dependence = x.dependence /\ y.containers = x.containers /\ y.named = x.named
      /\ y.failed = x.failed /\ y.succeeded = x.succeeded
      /\ y.restart = IF x.restart = "" THEN "Never" ELSE x.restart
  BY <1>0 DEF RoleDefinition, RestartPolicy
<1>2. x.restart # "" /\ x.replicas # Unset => y = x
  BY DEF RoleDefinition
<1>3. DefaultRole(x) = IF y.restart = "Never" THEN WithConditions(y) ELSE y
  BY DEF DefaultRole
<1> HIDE DEF y
<1>4. /\ WithConditions(y) \in RoleDefinition(N) /\ HasConditions(WithConditions(y))
      /\ WithConditions(y).dependence = y.dependence /\ WithConditions(y).containers = y.containers
      /\ WithConditions(y).named = y.named /\ WithConditions(y).restart = y.restart
      /\ WithConditions(y).replicas = y.replicas
      /\ y.failed # "None" => WithConditions(y).failed = y.failed
      /\ y.succeeded # "None" => WithConditions(y).succeeded = y.succeeded
      /\ HasConditions(y) => WithConditions(y) = y
  BY <1>1 DEF WithConditions, WithFailed, WithSucceeded, HasConditions, RoleDefinition,
              RolePhaseCondition
<1> QED
  BY <1>1, <1>2, <1>3, <1>4 DEF RoleIsSettled, HasConditions

(* The steps the defaults of the frameworks consist of. *)
LEMMA WithConditionsRole ==
    ASSUME NEW N, NEW x \in RoleDefinition(N)
    PROVE  /\ WithConditions(x) \in RoleDefinition(N) /\ HasConditions(WithConditions(x))
           /\ HasConditions(x) => WithConditions(x) = x
  BY DEF WithConditions, WithFailed, WithSucceeded, HasConditions, RoleDefinition,
         RolePhaseCondition

LEMMA WaitingForRole ==
    ASSUME NEW N, NEW x \in RoleDefinition(N), NEW w \in Dependence(N)
    PROVE  /\ WaitingFor(x, w) \in RoleDefinition(N) /\ WaitingFor(x, w).dependence.given
           /\ x.dependence.given => WaitingFor(x, w) = x
           /\ WaitingFor(x, w).failed = x.failed /\ WaitingFor(x, w).succeeded = x.succeeded
           /\ WaitingFor(x, w).restart = x.restart
  BY DEF WaitingFor, RoleDefinition, Dependence

LEMMA DecidingRole ==
    ASSUME NEW N, NEW x \in RoleDefinition(N)
    PROVE  /\ Deciding(x) \in RoleDefinition(N) /\ IsDecided(Deciding(x))
           /\ IsDecided(x) => Deciding(x) = x
           /\ Deciding(x).restart = x.restart
  BY DEF Deciding, WithFailedUnlessRestarted, WithFailed, WithSucceeded, IsDecided,
         RoleDefinition, RolePhaseCondition

LEMMA DefaultPortRole ==
    ASSUME NEW N, NEW x \in RoleDefinition(N)
    PROVE  /\ setDefaultPort(x) \in RoleDefinition(N)
           /\ setDefaultPort(x).containers = "default" => setDefaultPort(x).named
           /\ (x.containers = "default" => x.named) => setDefaultPort(x) = x
           /\ setDefaultPort(x).restart = x.restart /\ setDefaultPort(x).failed = x.failed
           /\ setDefaultPort(x).succeeded = x.succeeded
<1>1. x.declared + 1 \in Nat
  <2>1. x.declared \in Nat
    BY DEF RoleDefinition
  <2> QED
    BY <2>1
<1> QED
  BY <1>1 DEF setDefaultPort, RoleDefinition

LEMMA Dependences ==
    ASSUME NEW N, FrameworkRoles \subseteq N, NEW n \in FrameworkRoles
    PROVE  WaitsFor({n}) \in Dependence(N) /\ HostFileOf({n}) \in Dependence(N)
  BY DEF WaitsFor, HostFileOf, Dependence

LEMMA NoDependenceType ==
    ASSUME NEW N
    PROVE  NoDependence \in [given : BOOLEAN, on : SUBSET N, hostFile : BOOLEAN]
  BY DEF NoDependence

LEMMA LastStartedType == ASSUME NEW d PROVE LastStarted(d) \in FrameworkRoles
  BY DEF LastStarted, FrameworkRoles

-----------------------------------------------------------------------------
(* What SetDefault makes of the roles, framework by framework. *)

LEMMA DaskRoleSettles ==
    ASSUME NEW N, FrameworkRoles \subseteq N, NEW d, NEW r, d.roles[r] \in RoleDefinition(N)
    PROVE  /\ DaskRole(d, r) \in RoleDefinition(N)
           /\ r \in {"scheduler", "leadworker", "worker", "launcher"} => HasConditions(DaskRole(d, r))
           /\ r \in {"leadworker", "worker"} => DaskRole(d, r).dependence.given
           /\ r = "scheduler" => /\ DaskRole(d, r).dependence = NoDependence
                                 /\ DaskRole(d, r).restart = "OnFailure"
           /\ r = "launcher" => DaskRole(d, r).dependence = WaitsFor({LastStarted(d)})
<1> DEFINE x == WithConditions(d.roles[r])
<1>1. x \in RoleDefinition(N) /\ HasConditions(x)
  BY WithConditionsRole
<1>2. WaitsFor({LastStarted(d)}) \in Dependence(N)
  BY LastStartedType, Dependences
<1> HIDE DEF x
<1>3. CASE r = "scheduler"
  <2>1. DaskRole(d, r) = [x EXCEPT !.dependence = NoDependence, !.restart = "OnFailure"]
    BY <1>3 DEF DaskRole, x
  <2>2. NoDependence \in [given : BOOLEAN, on : SUBSET N, hostFile : BOOLEAN]
    BY NoDependenceType
  <2>3. DaskRole(d, r) \in RoleDefinition(N)
    BY <1>1, <2>1, <2>2 DEF RoleDefinition, RestartPolicy
  <2>4. /\ DaskRole(d, r).dependence = NoDependence /\ DaskRole(d, r).restart = "OnFailure"
        /\ DaskRole(d, r).failed = x.failed /\ DaskRole(d, r).succeeded = x.succeeded
    BY <1>1, <2>1 DEF RoleDefinition
  <2> QED
    BY <1>1, <1>3, <2>3, <2>4 DEF HasConditions
<1>4. CASE r \in {"leadworker", "worker"}
  <2>1. PICK n \in FrameworkRoles : DaskRole(d, r) = WaitingFor(x, WaitsFor({n}))
    <3>1. CASE r = "leadworker"
      BY <3>1 DEF DaskRole, x, FrameworkRoles
    <3>2. CASE r = "worker"
      BY <3>2 DEF DaskRole, x, FrameworkRoles
    <3> QED
      BY <1>4, <3>1, <3>2
  <2>2. /\ DaskRole(d, r) \in RoleDefinition(N) /\ DaskRole(d, r).dependence.given
        /\ DaskRole(d, r).failed = x.failed /\ DaskRole(d, r).succeeded = x.succeeded
    <3>1. WaitsFor({n}) \in Dependence(N)
      BY Dependences
    <3> QED
      BY <1>1, <2>1, <3>1, WaitingForRole
  <2> QED
    BY <1>1, <1>4, <2>2 DEF HasConditions
<1>5. CASE r = "launcher"
  <2>1. DaskRole(d, r) = [x EXCEPT !.dependence = WaitsFor({LastStarted(d)})]
    BY <1>5 DEF DaskRole, x
  <2> QED
    BY <1>1, <1>2, <1>5, <2>1 DEF RoleDefinition, HasConditions, Dependence
<1>6. CASE r \notin {"scheduler", "leadworker", "worker", "launcher"}
  BY <1>6 DEF DaskRole
<1> QED
  BY <1>3, <1>4, <1>5, <1>6

LEMMA SameFields ==
    ASSUME NEW N, NEW x \in RoleDefinition(N)
    PROVE  /\ [x EXCEPT !.dependence = x.dependence] = x
           /\ [x EXCEPT !.dependence = x.dependence, !.restart = x.restart] = x
  BY DEF RoleDefinition

LEMMA DaskRoleFixed ==
    ASSUME NEW N, FrameworkRoles \subseteq N, NEW d, NEW r \in DOMAIN d.roles,
           d.roles[r] \in RoleDefinition(N), DaskIsSettled(d)
    PROVE  DaskRole(d, r) = d.roles[r]
<1>1. CASE r \in {"scheduler", "leadworker", "worker", "launcher"}
  <2>1. HasConditions(d.roles[r])
    BY <1>1 DEF DaskIsSettled, Present
  <2>2. WithConditions(d.roles[r]) = d.roles[r]
    BY <2>1, WithConditionsRole
  <2>3. CASE r = "scheduler"
    <3>1. d.roles[r].dependence = NoDependence /\ d.roles[r].restart = "OnFailure"
      BY <2>3 DEF DaskIsSettled, HasRole
    <3>2. DaskRole(d, r) = [d.roles[r] EXCEPT !.dependence = NoDependence, !.restart = "OnFailure"]
      BY <2>2, <2>3 DEF DaskRole
    <3> QED
      BY <3>1, <3>2, SameFields, Zenon
  <2>4. CASE r \in {"leadworker", "worker"}
    <3>1. d.roles[r].dependence.given
      BY <2>4 DEF DaskIsSettled, Present
    <3>2. CASE r = "leadworker"
      BY <2>2, <3>1, <3>2 DEF DaskRole, WaitingFor
    <3>3. CASE r = "worker"
      BY <2>2, <3>1, <3>3 DEF DaskRole, WaitingFor
    <3> QED
      BY <2>4, <3>2, <3>3
  <2>5. CASE r = "launcher"
    <3>1. d.roles[r].dependence = WaitsFor({LastStarted(d)})
      BY <2>5 DEF DaskIsSettled, HasRole
    <3>2. DaskRole(d, r) = [d.roles[r] EXCEPT !.dependence = WaitsFor({LastStarted(d)})]
      BY <2>2, <2>5 DEF DaskRole
    <3> QED
      BY <3>1, <3>2, SameFields, Zenon
  <2> QED
    BY <1>1, <2>3, <2>4, <2>5
<1>2. CASE r \notin {"scheduler", "leadworker", "worker", "launcher"}
  BY <1>2 DEF DaskRole
<1> QED
  BY <1>1, <1>2

LEMMA BaguaRoleSettles ==
    ASSUME NEW N, FrameworkRoles \subseteq N, NEW d, NEW r, d.roles[r] \in RoleDefinition(N)
    PROVE  /\ BaguaRole(d, r) \in RoleDefinition(N)
           /\ d.option = "on" =>
                /\ r \in {"worker", "etcd"} => HasConditions(BaguaRole(d, r))
                /\ r = "worker" => BaguaRole(d, r).dependence.given
           /\ d.option # "on" /\ ~d.policy.given /\ r \in {"worker", "master"} =>
                HasConditions(BaguaRole(d, r))
<1> DEFINE x == WithConditions(d.roles[r])
           leader == IF d.option = "on" THEN "etcd" ELSE "master"
           w == WaitsFor({leader})
           mine == IF d.option = "on" THEN {"worker", "etcd"}
                   ELSE IF d.policy.given THEN {} ELSE {"worker", "master"}
<1>1. x \in RoleDefinition(N) /\ HasConditions(x)
  BY WithConditionsRole
<1>2. w \in Dependence(N)
  <2>1. leader \in FrameworkRoles
    BY DEF FrameworkRoles
  <2> QED
    BY <2>1, Dependences
<1>3. BaguaRole(d, r) = CASE r \notin mine -> d.roles[r]
                          [] r \in mine /\ r = "worker" -> WaitingFor(x, w)
                          [] r \in mine /\ r # "worker" -> x
  BY DEF BaguaRole
<1>4. mine \in {{"worker", "etcd"}, {"worker", "master"}, {}}
  OBVIOUS
<1>5. /\ d.option = "on" => mine = {"worker", "etcd"}
      /\ d.option # "on" /\ ~d.policy.given => mine = {"worker", "master"}
  OBVIOUS
<1> HIDE DEF x, w, mine
<1>6. /\ WaitingFor(x, w) \in RoleDefinition(N) /\ HasConditions(WaitingFor(x, w))
      /\ WaitingFor(x, w).dependence.given
  BY <1>1, <1>2, WaitingForRole DEF HasConditions
<1>7. CASE r \notin mine
  BY <1>3, <1>5, <1>7
<1>8. CASE r \in mine /\ r = "worker"
  BY <1>3, <1>6, <1>8
<1>9. CASE r \in mine /\ r # "worker"
  BY <1>1, <1>3, <1>9
<1> QED
  BY <1>7, <1>8, <1>9

LEMMA BaguaRoleFixed ==
    ASSUME NEW N, NEW d, NEW r \in DOMAIN d.roles, d.roles[r] \in RoleDefinition(N),
           d.policy.given, BaguaIsSettled(d)
    PROVE  BaguaRole(d, r) = d.roles[r]
<1>1. CASE d.option = "on" /\ r = "worker"
  <2>1. HasConditions(d.roles[r]) /\ d.roles[r].dependence.given
    BY <1>1 DEF BaguaIsSettled, Present, HasRole
  <2>2. WithConditions(d.roles[r]) = d.roles[r]
    BY <2>1, WithConditionsRole
  <2> QED
    BY <1>1, <2>1, <2>2 DEF BaguaRole, WaitingFor
<1>2. CASE d.option = "on" /\ r = "etcd"
  <2>1. HasConditions(d.roles[r])
    BY <1>2 DEF BaguaIsSettled, Present
  <2> QED
    BY <1>2, <2>1, WithConditionsRole DEF BaguaRole
<1>3. CASE d.option # "on" \/ r \notin {"worker", "etcd"}
  BY <1>3 DEF BaguaRole
<1> QED
  BY <1>1, <1>2, <1>3

LEMMA MPIRoleSettles ==
    ASSUME NEW N, FrameworkRoles \subseteq N, NEW d, NEW r, d.roles[r] \in RoleDefinition(N)
    PROVE  /\ MPIRole(d, r) \in RoleDefinition(N)
           /\ r \in {"launcher", "worker"} => MPIRole(d, r).failed # "None"
           /\ r = "launcher" => MPIRole(d, r).succeeded # "None"
           /\ r = "launcher" /\ HasRole(d, "worker") => MPIRole(d, r).dependence.given
<1> DEFINE x == IF d.roles[r].failed # "None" THEN d.roles[r]
                ELSE [d.roles[r] EXCEPT !.failed = "AnyPod", !.nodeDownAsFailed = TRUE]
           y == WithSucceeded(x, "AllPods")
           w == HostFileOf({"worker"})
<1>1. x \in RoleDefinition(N) /\ x.failed # "None"
  BY DEF RoleDefinition, RolePhaseCondition
<1>2. w \in Dependence(N)
  <2>1. "worker" \in FrameworkRoles
    BY DEF FrameworkRoles
  <2> QED
    BY <2>1, Dependences
<1>3. MPIRole(d, r) = CASE r = "worker" -> x
                        [] r = "launcher" -> IF HasRole(d, "worker") THEN WaitingFor(y, w) ELSE y
                        [] OTHER -> d.roles[r]
  BY DEF MPIRole
<1> HIDE DEF x, w
<1>4. y \in RoleDefinition(N) /\ HasConditions(y)
  BY <1>1 DEF WithSucceeded, RoleDefinition, RolePhaseCondition, HasConditions
<1> HIDE DEF y
<1>5. /\ WaitingFor(y, w) \in RoleDefinition(N) /\ HasConditions(WaitingFor(y, w))
      /\ WaitingFor(y, w).dependence.given
  BY <1>2, <1>4, WaitingForRole DEF HasConditions
<1>6. CASE r = "worker"
  BY <1>1, <1>3, <1>6
<1>7. CASE r = "launcher"
  BY <1>3, <1>4, <1>5, <1>7 DEF HasConditions
<1>8. CASE r \notin {"worker", "launcher"}
  BY <1>3, <1>8
<1> QED
  BY <1>6, <1>7, <1>8

LEMMA MPIRoleFixed ==
    ASSUME NEW N, NEW d, NEW r \in DOMAIN d.roles, d.roles[r] \in RoleDefinition(N), MPIIsSettled(d)
    PROVE  MPIRole(d, r) = d.roles[r]
<1>1. CASE r = "worker"
  BY <1>1 DEF MPIRole, MPIIsSettled, Present
<1>2. CASE r = "launcher"
  <2>1. /\ d.roles[r].failed # "None" /\ d.roles[r].succeeded # "None"
        /\ HasRole(d, "worker") => d.roles[r].dependence.given
    BY <1>2 DEF MPIIsSettled, Present, HasRole
  <2>2. WithSucceeded(d.roles[r], "AllPods") = d.roles[r]
    BY <2>1 DEF WithSucceeded, RoleDefinition
  <2> QED
    BY <1>2, <2>1, <2>2 DEF MPIRole, WaitingFor
<1>3. CASE r \notin {"worker", "launcher"}
  BY <1>3 DEF MPIRole
<1> QED
  BY <1>1, <1>2, <1>3

LEMMA PytorchRoleSettles ==
    ASSUME NEW N, FrameworkRoles \subseteq N, NEW d, NEW r, d.roles[r] \in RoleDefinition(N)
    PROVE  /\ PytorchRole(d, r) \in RoleDefinition(N)
           /\ r \in {"master", "worker"} => HasConditions(PytorchRole(d, r))
           /\ r = "worker" /\ HasRole(d, "master") => PytorchRole(d, r).dependence.given
<1> DEFINE x == WithConditions(d.roles[r])
           w == WaitsFor({"master"})
<1>1. x \in RoleDefinition(N) /\ HasConditions(x)
  BY WithConditionsRole
<1>2. w \in Dependence(N)
  <2>1. "master" \in FrameworkRoles
    BY DEF FrameworkRoles
  <2> QED
    BY <2>1, Dependences
<1>3. PytorchRole(d, r) = CASE r = "master" -> x
                            [] r = "worker" -> IF HasRole(d, "master") THEN WaitingFor(x, w) ELSE x
                            [] OTHER -> d.roles[r]
  BY DEF PytorchRole
<1> HIDE DEF x, w
<1>4. /\ WaitingFor(x, w) \in RoleDefinition(N) /\ HasConditions(WaitingFor(x, w))
      /\ WaitingFor(x, w).dependence.given
  BY <1>1, <1>2, WaitingForRole DEF HasConditions
<1>5. CASE r = "master"
  BY <1>1, <1>3, <1>5
<1>6. CASE r = "worker"
  BY <1>1, <1>3, <1>4, <1>6
<1>7. CASE r \notin {"worker", "master"}
  BY <1>3, <1>7
<1> QED
  BY <1>5, <1>6, <1>7

LEMMA PytorchRoleFixed ==
    ASSUME NEW N, NEW d, NEW r \in DOMAIN d.roles, d.roles[r] \in RoleDefinition(N),
           PytorchIsSettled(d)
    PROVE  PytorchRole(d, r) = d.roles[r]
<1>1. CASE r \in {"master", "worker"}
  <2>1. HasConditions(d.roles[r])
    BY <1>1 DEF PytorchIsSettled, Present
  <2>2. WithConditions(d.roles[r]) = d.roles[r]
    BY <2>1, WithConditionsRole
  <2>3. r = "worker" /\ HasRole(d, "master") => d.roles[r].dependence.given
    BY DEF PytorchIsSettled, HasRole
  <2> QED
    BY <1>1, <2>2, <2>3 DEF PytorchRole, WaitingFor
<1>2. CASE r \notin {"master", "worker"}
  BY <1>2 DEF PytorchRole
<1> QED
  BY <1>1, <1>2

LEMMA TensorflowRoleSettles ==
    ASSUME NEW N, NEW d, NEW r, d.roles[r] \in RoleDefinition(N)
    PROVE  /\ TensorflowRole(d, r) \in RoleDefinition(N)
           /\ r \in SpecificRoles =>
                /\ IsDecided(TensorflowRole(d, r))
                /\ TensorflowRole(d, r).containers = "default" => TensorflowRole(d, r).named
           /\ r = "worker" /\ HasRole(d, "chief") =>
                TensorflowRole(d, r).restart \in {"Always", "OnFailure"}
<1> DEFINE x == IF HasRole(d, "chief") /\ r = "worker" /\ d.roles[r].restart # "Always"
                THEN [d.roles[r] EXCEPT !.restart = "OnFailure"] ELSE d.roles[r]
<1>1. /\ x \in RoleDefinition(N)
      /\ r = "worker" /\ HasRole(d, "chief") => x.restart \in {"Always", "OnFailure"}
  BY DEF RoleDefinition, RestartPolicy
<1>2. TensorflowRole(d, r) = IF r \in SpecificRoles THEN setDefaultPort(Deciding(x)) ELSE d.roles[r]
  BY DEF TensorflowRole
<1> HIDE DEF x
<1>3. Deciding(x) \in RoleDefinition(N) /\ IsDecided(Deciding(x)) /\ Deciding(x).restart = x.restart
  BY <1>1, DecidingRole
<1> DEFINE y == Deciding(x)
<1> HIDE DEF y
<1>4. /\ setDefaultPort(y) \in RoleDefinition(N)
      /\ setDefaultPort(y).containers = "default" => setDefaultPort(y).named
      /\ setDefaultPort(y).restart = y.restart /\ setDefaultPort(y).failed = y.failed
      /\ setDefaultPort(y).succeeded = y.succeeded
  BY <1>3, DefaultPortRole DEF y
<1>5. IsDecided(setDefaultPort(y))
  BY <1>3, <1>4 DEF IsDecided, y
<1>6. "worker" \in SpecificRoles
  BY DEF SpecificRoles
<1> QED
  BY <1>1, <1>2, <1>3, <1>4, <1>5, <1>6 DEF y

LEMMA TensorflowRoleFixed ==
    ASSUME NEW N, NEW d, NEW r \in DOMAIN d.roles, d.roles[r] \in RoleDefinition(N),
           TensorflowIsSettled(d)
    PROVE  TensorflowRole(d, r) = d.roles[r]
<1>1. CASE r \in SpecificRoles
  <2>1. IsDecided(d.roles[r]) /\ (d.roles[r].containers = "default" => d.roles[r].named)
    BY <1>1 DEF TensorflowIsSettled, Present
  <2>2. Deciding(d.roles[r]) = d.roles[r] /\ setDefaultPort(d.roles[r]) = d.roles[r]
    BY <2>1, DecidingRole, DefaultPortRole
  <2>3. HasRole(d, "chief") /\ r = "worker" /\ d.roles[r].restart # "Always" =>
          [d.roles[r] EXCEPT !.restart = "OnFailure"] = d.roles[r]
    BY DEF TensorflowIsSettled, HasRole, RoleDefinition
  <2> QED
    BY <1>1, <2>2, <2>3 DEF TensorflowRole
<1>2. CASE r \notin SpecificRoles
  BY <1>2 DEF TensorflowRole
<1> QED
  BY <1>1, <1>2

-----------------------------------------------------------------------------
(* What SetDefault makes of a definition. *)

FrameworkRole(d, r) ==
    CASE d.framework = "bagua" -> BaguaRole(d, r)
      [] d.framework = "custom" -> Deciding(d.roles[r])
      [] d.framework = "dask" -> DaskRole(d, r)
      [] d.framework = "mpi" -> MPIRole(d, r)
      [] d.framework = "pytorch" -> PytorchRole(d, r)
      [] d.framework = "standalone" -> IF r = "worker" THEN Deciding(d.roles[r]) ELSE d.roles[r]
      [] d.framework = "tensorflow" -> TensorflowRole(d, r)
      [] d.framework = "demo" -> d.roles[r]

FrameworkOption(d) ==
    IF d.option = "nil" /\ d.framework \in {"bagua", "mpi", "tensorflow"} THEN "off" ELSE d.option

(* The roles of the conditions of failure and of success. *)
Failing(d) ==
    CASE d.framework = "bagua" -> IF d.option = "on" THEN {"worker", "etcd"}
                                  ELSE {"master"} \union Present(d, {"worker"})
      [] d.framework = "custom" -> DOMAIN d.roles
      [] d.framework = "dask" -> {"launcher", "scheduler"} \union Present(d, {"leadworker", "worker"})
      [] d.framework = "mpi" -> {"launcher"} \union Present(d, {"worker"})
      [] d.framework = "pytorch" -> {"master"} \union Present(d, {"worker"})
      [] d.framework = "standalone" -> {"worker"}
      [] d.framework = "tensorflow" -> IF HasRole(d, "chief")
                                       THEN Present(d, SpecificRoles) \ {"worker"}
                                       ELSE Present(d, SpecificRoles)
Succeeding(d) ==
    CASE d.framework = "bagua" -> IF d.option = "on" THEN {"worker"}
                                  ELSE {"master"} \union Present(d, {"worker"})
      [] d.framework = "custom" -> DOMAIN d.roles
      [] d.framework \in {"dask", "mpi"} -> {"launcher"}
      [] d.framework = "pytorch" -> {"master"} \union Present(d, {"worker"})
      [] d.framework = "standalone" -> {"worker"}
      [] d.framework = "tensorflow" -> Present(d, {"master", "chief", "worker"})

LEMMA FrameworkRoleType ==
    ASSUME NEW N, FrameworkRoles \subseteq N, NEW d, d.framework \in Registered, NEW r,
           d.roles[r] \in RoleDefinition(N)
    PROVE  FrameworkRole(d, r) \in RoleDefinition(N)
<1>1. CASE d.framework = "bagua"
  BY <1>1, BaguaRoleSettles DEF FrameworkRole
<1>2. CASE d.framework = "custom"
  BY <1>2, DecidingRole DEF FrameworkRole
<1>3. CASE d.framework = "dask"
  BY <1>3, DaskRoleSettles DEF FrameworkRole
<1>4. CASE d.framework = "mpi"
  BY <1>4, MPIRoleSettles DEF FrameworkRole
<1>5. CASE d.framework = "pytorch"
  BY <1>5, PytorchRoleSettles DEF FrameworkRole
<1>6. CASE d.framework = "standalone"
  BY <1>6, DecidingRole DEF FrameworkRole
<1>7. CASE d.framework = "tensorflow"
  BY <1>7, TensorflowRoleSettles DEF FrameworkRole
<1>8. CASE d.framework = "demo"
  BY <1>8 DEF FrameworkRole
<1> QED
  BY <1>1, <1>2, <1>3, <1>4, <1>5, <1>6, <1>7, <1>8 DEF Registered

Redefined(d, o, rs, f, g) == WithPolicy([d EXCEPT !.option = o, !.roles = rs], f, g)

LEMMA RedefinedFields ==
    ASSUME NEW N, NEW d, IsDefinition(d, N), NEW o \in {"nil", "off", "on", "bad"},
           NEW rs \in [DOMAIN d.roles -> RoleDefinition(N)],
           NEW f \in SUBSET (SUBSET N), NEW g \in SUBSET (SUBSET N)
    PROVE  LET j == Redefined(d, o, rs, f, g)
           IN  /\ IsDefinition(j, N)
               /\ j.framework = d.framework /\ j.ports = d.ports /\ j.option = o /\ j.roles = rs
               /\ j.policy = IF d.policy.given THEN d.policy
                             ELSE [given |-> TRUE, failed |-> f, succeeded |-> g]
<1> DEFINE e == [d EXCEPT !.option = o, !.roles = rs]
           p == [given |-> TRUE, failed |-> f, succeeded |-> g]
<1>1. p \in PolicyDefinition(N)
  BY DEF PolicyDefinition
<1>2. /\ IsDefinition(e, N) /\ e.policy = d.policy /\ e.framework = d.framework
      /\ e.ports = d.ports /\ e.option = o /\ e.roles = rs
  BY DEF IsDefinition
<1>3. Redefined(d, o, rs, f, g) = IF e.policy.given THEN e ELSE [e EXCEPT !.policy = p]
  BY DEF Redefined, WithPolicy
<1> HIDE DEF e, p
<1>4. /\ IsDefinition([e EXCEPT !.policy = p], N) /\ [e EXCEPT !.policy = p].policy = p
      /\ [e EXCEPT !.policy = p].framework = e.framework /\ [e EXCEPT !.policy = p].ports = e.ports
      /\ [e EXCEPT !.policy = p].option = e.option /\ [e EXCEPT !.policy = p].roles = e.roles
  BY <1>1, <1>2 DEF IsDefinition
<1> QED
  BY <1>2, <1>3, <1>4 DEF p

LEMMA RedefinedSame ==
    ASSUME NEW N, NEW d, IsDefinition(d, N), d.policy.given, NEW f, NEW g
    PROVE  Redefined(d, d.option, d.roles, f, g) = d
  BY DEF Redefined, WithPolicy, IsDefinition

FrameworkRoleMap(d) == [r \in DOMAIN d.roles |-> FrameworkRole(d, r)]

(* Tensorflow without a role that decides has no condition of success. *)
FrameworkSucceeded(d) ==
    IF d.framework = "tensorflow" /\ Succeeding(d) = {} THEN {} ELSE {Succeeding(d)}

LEMMA SetDefaultRedefines ==
    ASSUME NEW N, NEW d, IsDefinition(d, N), d.framework \in Registered \ {"demo"}
    PROVE  SetDefault(d) = Redefined(d, FrameworkOption(d), FrameworkRoleMap(d), Each(Failing(d)),
                                     FrameworkSucceeded(d))
<1> DEFINE rs == FrameworkRoleMap(d)
<1>1. [d EXCEPT !.roles = rs] = [d EXCEPT !.option = d.option, !.roles = rs]
  BY DEF IsDefinition
<1>2. CASE d.framework = "bagua"
  <2>1. rs = [r \in DOMAIN d.roles |-> BaguaRole(d, r)]
    BY <1>2 DEF FrameworkRoleMap, FrameworkRole
  <2>2. FrameworkOption(d) = IF d.option = "nil" THEN "off" ELSE d.option
    BY <1>2 DEF FrameworkOption
  <2>3. Failing(d) = IF d.option = "on" THEN {"worker", "etcd"}
                     ELSE {"master"} \union Present(d, {"worker"})
    BY <1>2 DEF Failing
  <2>4. FrameworkSucceeded(d) = {IF d.option = "on" THEN {"worker"}
                                 ELSE {"master"} \union Present(d, {"worker"})}
    BY <1>2 DEF FrameworkSucceeded, Succeeding
  <2>5. SetDefault(d) = BaguaSetDefault(d)
    BY <1>2 DEF SetDefault
  <2> QED
    BY <2>1, <2>2, <2>3, <2>4, <2>5 DEF BaguaSetDefault, Redefined
<1>3. CASE d.framework = "custom"
  <2>1. rs = [r \in DOMAIN d.roles |-> Deciding(d.roles[r])]
    BY <1>3 DEF FrameworkRoleMap, FrameworkRole
  <2>2. FrameworkOption(d) = d.option
    BY <1>3 DEF FrameworkOption
  <2>3. Failing(d) = DOMAIN d.roles /\ FrameworkSucceeded(d) = {DOMAIN d.roles}
    BY <1>3 DEF Failing, FrameworkSucceeded, Succeeding
  <2>4. SetDefault(d) = CustomSetDefault(d)
    BY <1>3 DEF SetDefault
  <2> QED
    BY <1>1, <2>1, <2>2, <2>3, <2>4 DEF CustomSetDefault, Redefined
<1>4. CASE d.framework = "dask"
  <2>1. rs = [r \in DOMAIN d.roles |-> DaskRole(d, r)]
    BY <1>4 DEF FrameworkRoleMap, FrameworkRole
  <2>2. FrameworkOption(d) = d.option
    BY <1>4 DEF FrameworkOption
  <2>3. /\ Failing(d) = {"launcher", "scheduler"} \union Present(d, {"leadworker", "worker"})
        /\ FrameworkSucceeded(d) = {{"launcher"}}
    BY <1>4 DEF Failing, FrameworkSucceeded, Succeeding
  <2>4. SetDefault(d) = DaskSetDefault(d)
    BY <1>4 DEF SetDefault
  <2> QED
    BY <1>1, <2>1, <2>2, <2>3, <2>4 DEF DaskSetDefault, Redefined
<1>5. CASE d.framework = "mpi"
  <2>1. rs = [r \in DOMAIN d.roles |-> MPIRole(d, r)]
    BY <1>5 DEF FrameworkRoleMap, FrameworkRole
  <2>2. FrameworkOption(d) = IF d.option = "nil" THEN "off" ELSE d.option
    BY <1>5 DEF FrameworkOption
  <2>3. /\ Failing(d) = {"launcher"} \union Present(d, {"worker"})
        /\ FrameworkSucceeded(d) = {{"launcher"}}
    BY <1>5 DEF Failing, FrameworkSucceeded, Succeeding
  <2>4. SetDefault(d) = MPISetDefault(d)
    BY <1>5 DEF SetDefault
  <2> QED
    BY <2>1, <2>2, <2>3, <2>4 DEF MPISetDefault, Redefined
<1>6. CASE d.framework = "pytorch"
  <2>1. rs = [r \in DOMAIN d.roles |-> PytorchRole(d, r)]
    BY <1>6 DEF FrameworkRoleMap, FrameworkRole
  <2>2. FrameworkOption(d) = d.option
    BY <1>6 DEF FrameworkOption
  <2>3. /\ Failing(d) = {"master"} \union Present(d, {"worker"})
        /\ FrameworkSucceeded(d) = {{"master"} \union Present(d, {"worker"})}
    BY <1>6 DEF Failing, FrameworkSucceeded, Succeeding
  <2>4. SetDefault(d) = PytorchSetDefault(d)
    BY <1>6 DEF SetDefault
  <2> QED
    BY <1>1, <2>1, <2>2, <2>3, <2>4 DEF PytorchSetDefault, Redefined
<1>7. CASE d.framework = "standalone"
  <2>1. rs = [r \in DOMAIN d.roles |-> IF r = "worker" THEN Deciding(d.roles[r]) ELSE d.roles[r]]
    BY <1>7 DEF FrameworkRoleMap, FrameworkRole
  <2>2. FrameworkOption(d) = d.option
    BY <1>7 DEF FrameworkOption
  <2>3. Failing(d) = {"worker"} /\ FrameworkSucceeded(d) = {{"worker"}}
    BY <1>7 DEF Failing, FrameworkSucceeded, Succeeding
  <2>4. SetDefault(d) = StandaloneSetDefault(d)
    BY <1>7 DEF SetDefault
  <2> QED
    BY <1>1, <2>1, <2>2, <2>3, <2>4 DEF StandaloneSetDefault, Redefined
<1>8. CASE d.framework = "tensorflow"
  <2>1. rs = [r \in DOMAIN d.roles |-> TensorflowRole(d, r)]
    BY <1>8 DEF FrameworkRoleMap, FrameworkRole
  <2>2. FrameworkOption(d) = IF d.option = "nil" THEN "off" ELSE d.option
    BY <1>8 DEF FrameworkOption
  <2>3. Failing(d) = IF HasRole(d, "chief") THEN Present(d, SpecificRoles) \ {"worker"}
                     ELSE Present(d, SpecificRoles)
    BY <1>8 DEF Failing
  <2>4. Succeeding(d) = Present(d, {"master", "chief", "worker"})
    BY <1>8 DEF Succeeding
  <2>5. FrameworkSucceeded(d) = IF Succeeding(d) = {} THEN {} ELSE {Succeeding(d)}
    BY <1>8 DEF FrameworkSucceeded
  <2>6. SetDefault(d) = TensorflowSetDefault(d)
    BY <1>8 DEF SetDefault
  <2> QED
    BY <2>1, <2>2, <2>3, <2>4, <2>5, <2>6 DEF TensorflowSetDefault, Redefined
<1> QED
  BY <1>2, <1>3, <1>4, <1>5, <1>6, <1>7, <1>8 DEF Registered

LEMMA ConditionRoles ==
    ASSUME NEW N, FrameworkRoles \subseteq N, NEW d, IsDefinition(d, N),
           d.framework \in Registered \ {"demo"}
    PROVE  Failing(d) \subseteq N /\ Succeeding(d) \subseteq N
<1>1. DOMAIN d.roles \subseteq N
  BY DEF IsDefinition
<1> USE <1>1 DEF Failing, Succeeding, Present, FrameworkRoles
<1>2. CASE d.framework = "bagua"
  BY <1>2
<1>3. CASE d.framework = "custom"
  BY <1>3
<1>4. CASE d.framework = "dask"
  BY <1>4
<1>5. CASE d.framework = "mpi"
  BY <1>5
<1>6. CASE d.framework = "pytorch"
  BY <1>6
<1>7. CASE d.framework = "standalone"
  BY <1>7
<1>8. CASE d.framework = "tensorflow"
  BY <1>8
<1> QED
  BY <1>2, <1>3, <1>4, <1>5, <1>6, <1>7, <1>8 DEF Registered

LEMMA DefaultFields ==
    ASSUME NEW N, NEW j, IsDefinition(j, N)
    PROVE  /\ IsDefinition(Default(j), N)
           /\ Default(j).framework = j.framework /\ Default(j).ports = j.ports
           /\ Default(j).option = j.option /\ Default(j).policy = j.policy /\ Default(j).complete
           /\ DOMAIN Default(j).roles = DOMAIN j.roles
           /\ \A r \in DOMAIN j.roles : Default(j).roles[r] = DefaultRole(j.roles[r])
           /\ j.complete /\ (\A r \in DOMAIN j.roles : RoleIsSettled(j.roles[r])) => Default(j) = j
<1> DEFINE rs == [r \in DOMAIN j.roles |-> DefaultRole(j.roles[r])]
<1>1. j.roles \in [DOMAIN j.roles -> RoleDefinition(N)]
  BY DEF IsDefinition
<1>2. rs \in [DOMAIN j.roles -> RoleDefinition(N)]
  BY <1>1, DefaultRoleSettles
<1>3. Default(j) = [j EXCEPT !.complete = TRUE, !.roles = rs]
  BY DEF Default
<1>4. ASSUME \A r \in DOMAIN j.roles : RoleIsSettled(j.roles[r]) PROVE rs = j.roles
  <2>1. \A r \in DOMAIN j.roles : DefaultRole(j.roles[r]) = j.roles[r]
    BY <1>1, <1>4, DefaultRoleSettles
  <2> QED
    BY <1>1, <2>1
<1>5. \A r \in DOMAIN j.roles : rs[r] = DefaultRole(j.roles[r])
  OBVIOUS
<1> HIDE DEF rs
<1>6. DOMAIN rs = DOMAIN j.roles
  BY <1>2
<1>7. /\ IsDefinition(Default(j), N)
      /\ Default(j).framework = j.framework /\ Default(j).ports = j.ports
      /\ Default(j).option = j.option /\ Default(j).policy = j.policy /\ Default(j).complete
      /\ Default(j).roles = rs
  BY <1>2, <1>3, <1>6 DEF IsDefinition
<1>8. j.complete /\ rs = j.roles => Default(j) = j
  BY <1>3 DEF IsDefinition
<1> QED
  BY <1>4, <1>5, <1>6, <1>7, <1>8

LEMMA SetDefaultFields ==
    ASSUME NEW N, FrameworkRoles \subseteq N, NEW d, IsDefinition(d, N), d.framework \in Registered
    PROVE  LET j == SetDefault(d)
           IN  /\ IsDefinition(j, N)
               /\ j.framework = d.framework /\ j.ports = d.ports /\ j.option = FrameworkOption(d)
               /\ DOMAIN j.roles = DOMAIN d.roles
               /\ \A r \in DOMAIN d.roles : j.roles[r] = FrameworkRole(d, r)
               /\ d.framework # "demo" => j.policy.given
               /\ d.policy.given => j.policy = d.policy
               /\ d.framework # "demo" /\ ~d.policy.given =>
                    /\ j.policy.failed = Each(Failing(d))
                    /\ j.policy.succeeded = FrameworkSucceeded(d)
<1>1. CASE d.framework = "demo"
  <2>1. SetDefault(d) = d /\ FrameworkOption(d) = d.option
    BY <1>1 DEF SetDefault, FrameworkOption
  <2>2. \A r \in DOMAIN d.roles : d.roles[r] = FrameworkRole(d, r)
    BY <1>1 DEF FrameworkRole
  <2> QED
    BY <1>1, <2>1, <2>2
<1>2. CASE d.framework # "demo"
  <2> DEFINE o == FrameworkOption(d)
             rs == FrameworkRoleMap(d)
             f == Each(Failing(d))
             g == FrameworkSucceeded(d)
  <2>1. o \in {"nil", "off", "on", "bad"}
    BY DEF FrameworkOption, IsDefinition
  <2>2. rs \in [DOMAIN d.roles -> RoleDefinition(N)]
    <3>1. ASSUME NEW r \in DOMAIN d.roles PROVE FrameworkRole(d, r) \in RoleDefinition(N)
      <4>1. d.roles[r] \in RoleDefinition(N)
        BY DEF IsDefinition
      <4> QED
        BY <4>1, FrameworkRoleType
    <3> QED
      BY <3>1 DEF FrameworkRoleMap
  <2>3. f \in SUBSET (SUBSET N) /\ g \in SUBSET (SUBSET N)
    BY <1>2, ConditionRoles DEF Each, FrameworkSucceeded
  <2>4. \A r \in DOMAIN d.roles : rs[r] = FrameworkRole(d, r)
    BY DEF FrameworkRoleMap
  <2>5. SetDefault(d) = Redefined(d, o, rs, f, g)
    BY <1>2, SetDefaultRedefines
  <2> HIDE DEF o, rs, f, g
  <2> DEFINE j == Redefined(d, o, rs, f, g)
  <2>6. /\ IsDefinition(j, N)
        /\ j.framework = d.framework /\ j.ports = d.ports /\ j.option = o /\ j.roles = rs
        /\ j.policy = IF d.policy.given THEN d.policy
                      ELSE [given |-> TRUE, failed |-> f, succeeded |-> g]
    BY <2>1, <2>2, <2>3, RedefinedFields
  <2>7. DOMAIN rs = DOMAIN d.roles
    BY <2>2
  <2> HIDE DEF j
  <2>8. /\ j.policy.given
        /\ d.policy.given => j.policy = d.policy
        /\ ~d.policy.given => j.policy.failed = f /\ j.policy.succeeded = g
    BY <2>6
  <2> QED
    BY <2>4, <2>5, <2>6, <2>7, <2>8 DEF j, o, f, g
<1> QED
  BY <1>1, <1>2

(* What setDefault stores. *)
LEMMA DefaultedFields ==
    ASSUME NEW N, FrameworkRoles \subseteq N, NEW d, IsDefinition(d, N), d.framework \in Registered
    PROVE  LET j == Defaulted(d)
           IN  /\ IsDefinition(j, N)
               /\ j.framework = d.framework /\ j.ports = d.ports /\ j.option = FrameworkOption(d)
               /\ DOMAIN j.roles = DOMAIN d.roles /\ j.complete
               /\ \A r \in DOMAIN d.roles :
                     /\ FrameworkRole(d, r) \in RoleDefinition(N)
                     /\ j.roles[r] = DefaultRole(FrameworkRole(d, r))
                     /\ RoleIsSettled(j.roles[r])
               /\ d.framework # "demo" => j.policy.given
               /\ d.policy.given => j.policy = d.policy
               /\ d.framework # "demo" /\ ~d.policy.given =>
                    /\ j.policy.failed = Each(Failing(d))
                    /\ j.policy.succeeded = FrameworkSucceeded(d)
<1> DEFINE k == SetDefault(d)
<1>1. /\ IsDefinition(k, N)
      /\ k.framework = d.framework /\ k.ports = d.ports /\ k.option = FrameworkOption(d)
      /\ DOMAIN k.roles = DOMAIN d.roles
      /\ \A r \in DOMAIN d.roles : k.roles[r] = FrameworkRole(d, r)
      /\ d.framework # "demo" => k.policy.given
      /\ d.policy.given => k.policy = d.policy
      /\ d.framework # "demo" /\ ~d.policy.given =>
                    /\ k.policy.failed = Each(Failing(d))
                    /\ k.policy.succeeded = FrameworkSucceeded(d)
  BY SetDefaultFields
<1>2. Defaulted(d) = Default(k)
  BY DEF Defaulted
<1> HIDE DEF k
<1>3. /\ IsDefinition(Default(k), N)
      /\ Default(k).framework = k.framework /\ Default(k).ports = k.ports
      /\ Default(k).option = k.option /\ Default(k).policy = k.policy /\ Default(k).complete
      /\ DOMAIN Default(k).roles = DOMAIN k.roles
      /\ \A r \in DOMAIN k.roles : Default(k).roles[r] = DefaultRole(k.roles[r])
  BY <1>1, DefaultFields
<1>4. ASSUME NEW r \in DOMAIN d.roles
      PROVE  FrameworkRole(d, r) \in RoleDefinition(N) /\ RoleIsSettled(DefaultRole(FrameworkRole(d, r)))
  <2>1. d.roles[r] \in RoleDefinition(N)
    BY DEF IsDefinition
  <2>2. FrameworkRole(d, r) \in RoleDefinition(N)
    BY <2>1, FrameworkRoleType
  <2> QED
    BY <2>2, DefaultRoleSettles
<1> QED
  BY <1>1, <1>2, <1>3, <1>4

LEMMA DefaultRoleKeeps ==
    ASSUME NEW N, NEW x \in RoleDefinition(N)
    PROVE  /\ HasConditions(x) => HasConditions(DefaultRole(x))
           /\ IsDecided(x) => IsDecided(DefaultRole(x))
           /\ x.failed # "None" => DefaultRole(x).failed # "None"
           /\ x.succeeded # "None" => DefaultRole(x).succeeded # "None"
           /\ x.dependence.given => DefaultRole(x).dependence.given
           /\ DefaultRole(x).dependence = x.dependence
           /\ (x.containers = "default" => x.named) =>
                (DefaultRole(x).containers = "default" => DefaultRole(x).named)
           /\ x.restart # "" => DefaultRole(x).restart = x.restart
<1> DEFINE y == DefaultRole(x)
<1>1. /\ RoleIsSettled(y)
      /\ y.dependence = x.dependence /\ y.containers = x.containers /\ y.named = x.named
      /\ x.restart # "" => y.restart = x.restart
      /\ x.failed # "None" => y.failed = x.failed
      /\ x.succeeded # "None" => y.succeeded = x.succeeded
      /\ y.restart \in {x.restart, "Never"}
  BY DefaultRoleSettles
<1> HIDE DEF y
<1>2. /\ HasConditions(x) => HasConditions(y) /\ (IsDecided(x) => IsDecided(y))
      /\ x.dependence.given => y.dependence.given
      /\ (x.containers = "default" => x.named) => (y.containers = "default" => y.named)
  BY <1>1 DEF HasConditions, IsDecided, RoleIsSettled
<1>3. IsDecided(x) => IsDecided(y)
  BY <1>1 DEF HasConditions, IsDecided, RoleIsSettled
<1> QED
  BY <1>1, <1>2, <1>3 DEF y

(* The defaults of every framework, followed by the common ones, leave     *)
(* nothing to be set.                                                      *)
LEMMA DefaultedSettles ==
    ASSUME NEW N, FrameworkRoles \subseteq N, NEW d, IsDefinition(d, N), d.framework \in Registered
    PROVE  IsSettled(Defaulted(d))
<1> DEFINE j == Defaulted(d)
           x(r) == FrameworkRole(d, r)
<1>1. /\ j.framework = d.framework /\ j.option = FrameworkOption(d)
      /\ DOMAIN j.roles = DOMAIN d.roles /\ j.complete
      /\ \A r \in DOMAIN d.roles : /\ x(r) \in RoleDefinition(N)
                                   /\ j.roles[r] = DefaultRole(x(r))
                                   /\ RoleIsSettled(j.roles[r])
      /\ d.framework # "demo" => j.policy.given
  BY DefaultedFields
<1>2. ASSUME NEW r \in DOMAIN d.roles PROVE d.roles[r] \in RoleDefinition(N)
  BY DEF IsDefinition
<1>3. /\ \A n : HasRole(j, n) <=> HasRole(d, n)
      /\ \A S : Present(j, S) = Present(d, S)
      /\ \A S : Present(d, S) \subseteq DOMAIN d.roles /\ Present(d, S) \subseteq S
  BY <1>1 DEF HasRole, Present
<1>4. ASSUME NEW r \in DOMAIN d.roles
      PROVE  /\ HasConditions(x(r)) => HasConditions(j.roles[r])
             /\ IsDecided(x(r)) => IsDecided(j.roles[r])
             /\ x(r).failed # "None" => j.roles[r].failed # "None"
             /\ x(r).succeeded # "None" => j.roles[r].succeeded # "None"
             /\ x(r).dependence.given => j.roles[r].dependence.given
             /\ j.roles[r].dependence = x(r).dependence
             /\ (x(r).containers = "default" => x(r).named) =>
                  (j.roles[r].containers = "default" => j.roles[r].named)
             /\ x(r).restart # "" => j.roles[r].restart = x(r).restart
  BY <1>1, DefaultRoleKeeps
<1> HIDE DEF j, x
<1>5. CASE d.framework = "bagua"
  <2>1. \A r : x(r) = BaguaRole(d, r)
    BY <1>5 DEF x, FrameworkRole
  <2>2. j.option # "nil" /\ (j.option = "on" => d.option = "on")
    BY <1>1, <1>5 DEF FrameworkOption
  <2>3. ASSUME j.option = "on", NEW r \in DOMAIN d.roles
        PROVE  /\ r \in {"worker", "etcd"} => HasConditions(j.roles[r])
               /\ r = "worker" => j.roles[r].dependence.given
    BY <1>2, <1>4, <2>1, <2>2, <2>3, BaguaRoleSettles
  <2>4. BaguaIsSettled(j)
    BY <1>1, <1>3, <2>2, <2>3 DEF BaguaIsSettled, HasRole
  <2> QED
    BY <1>1, <1>5, <2>4 DEF IsSettled, j
<1>6. CASE d.framework = "custom"
  <2>1. \A r : x(r) = Deciding(d.roles[r])
    BY <1>6 DEF x, FrameworkRole
  <2>2. \A r \in DOMAIN d.roles : IsDecided(j.roles[r])
    BY <1>2, <1>4, <2>1, DecidingRole
  <2> QED
    BY <1>1, <1>6, <2>2 DEF IsSettled, j
<1>7. CASE d.framework = "dask"
  <2>1. \A r : x(r) = DaskRole(d, r)
    BY <1>7 DEF x, FrameworkRole
  <2>2. LastStarted(j) = LastStarted(d)
    BY <1>3 DEF LastStarted
  <2>3. ASSUME NEW r \in DOMAIN d.roles
        PROVE  /\ r \in {"scheduler", "leadworker", "worker", "launcher"} => HasConditions(j.roles[r])
               /\ r \in {"leadworker", "worker"} => j.roles[r].dependence.given
               /\ r = "scheduler" => /\ j.roles[r].dependence = NoDependence
                                     /\ j.roles[r].restart = "OnFailure"
               /\ r = "launcher" => j.roles[r].dependence = WaitsFor({LastStarted(j)})
    <3>1. /\ r \in {"scheduler", "leadworker", "worker", "launcher"} => HasConditions(x(r))
          /\ r \in {"leadworker", "worker"} => x(r).dependence.given
          /\ r = "scheduler" => x(r).dependence = NoDependence /\ x(r).restart = "OnFailure"
          /\ r = "launcher" => x(r).dependence = WaitsFor({LastStarted(d)})
      BY <1>2, <2>1, DaskRoleSettles
    <3> QED
      BY <1>4, <2>2, <3>1
  <2>4. DaskIsSettled(j)
    BY <1>1, <1>3, <2>3 DEF DaskIsSettled, HasRole
  <2> QED
    BY <1>1, <1>7, <2>4 DEF IsSettled, j
<1>8. CASE d.framework = "mpi"
  <2>1. \A r : x(r) = MPIRole(d, r)
    BY <1>8 DEF x, FrameworkRole
  <2>2. j.option # "nil"
    BY <1>1, <1>8 DEF FrameworkOption
  <2>3. ASSUME NEW r \in DOMAIN d.roles
        PROVE  /\ r \in {"launcher", "worker"} => j.roles[r].failed # "None"
               /\ r = "launcher" => j.roles[r].succeeded # "None"
               /\ r = "launcher" /\ HasRole(d, "worker") => j.roles[r].dependence.given
    <3>1. /\ r \in {"launcher", "worker"} => x(r).failed # "None"
          /\ r = "launcher" => x(r).succeeded # "None"
          /\ r = "launcher" /\ HasRole(d, "worker") => x(r).dependence.given
      BY <1>2, <2>1, MPIRoleSettles
    <3> QED
      BY <1>4, <3>1
  <2>4. MPIIsSettled(j)
    BY <1>1, <1>3, <2>2, <2>3 DEF MPIIsSettled, HasRole
  <2> QED
    BY <1>1, <1>8, <2>4 DEF IsSettled, j
<1>9. CASE d.framework = "pytorch"
  <2>1. \A r : x(r) = PytorchRole(d, r)
    BY <1>9 DEF x, FrameworkRole
  <2>2. ASSUME NEW r \in DOMAIN d.roles
        PROVE  /\ r \in {"master", "worker"} => HasConditions(j.roles[r])
               /\ r = "worker" /\ HasRole(d, "master") => j.roles[r].dependence.given
    BY <1>2, <1>4, <2>1, PytorchRoleSettles
  <2>3. PytorchIsSettled(j)
    BY <1>1, <1>3, <2>2 DEF PytorchIsSettled, HasRole
  <2> QED
    BY <1>1, <1>9, <2>3 DEF IsSettled, j
<1>10. CASE d.framework = "standalone"
  <2>1. x("worker") = Deciding(d.roles["worker"])
    BY <1>10 DEF x, FrameworkRole
  <2>2. HasRole(d, "worker") => IsDecided(j.roles["worker"])
    <3>1. HasRole(d, "worker") => IsDecided(x("worker"))
      BY <1>2, <2>1, DecidingRole DEF HasRole
    <3> QED
      BY <1>4, <3>1 DEF HasRole
  <2>3. \A r \in Present(j, {"worker"}) : IsDecided(j.roles[r])
    BY <1>3, <2>2 DEF HasRole
  <2> QED
    BY <1>1, <1>10, <2>3 DEF IsSettled, j
<1>11. CASE d.framework = "tensorflow"
  <2>1. \A r : x(r) = TensorflowRole(d, r)
    BY <1>11 DEF x, FrameworkRole
  <2>2. j.option # "nil"
    BY <1>1, <1>11 DEF FrameworkOption
  <2>3. ASSUME NEW r \in DOMAIN d.roles
        PROVE  /\ r \in SpecificRoles =>
                     /\ IsDecided(j.roles[r])
                     /\ j.roles[r].containers = "default" => j.roles[r].named
               /\ r = "worker" /\ HasRole(d, "chief") => j.roles[r].restart \in {"Always", "OnFailure"}
    <3>1. /\ r \in SpecificRoles => /\ IsDecided(x(r))
                                    /\ x(r).containers = "default" => x(r).named
          /\ r = "worker" /\ HasRole(d, "chief") => x(r).restart \in {"Always", "OnFailure"}
      BY <1>2, <2>1, TensorflowRoleSettles
    <3>2. r \in SpecificRoles => /\ IsDecided(j.roles[r])
                                 /\ j.roles[r].containers = "default" => j.roles[r].named
      BY <1>4, <3>1
    <3>3. x(r).restart \in {"Always", "OnFailure"} => j.roles[r].restart \in {"Always", "OnFailure"}
      BY <1>4
    <3> QED
      BY <3>1, <3>2, <3>3
  <2>4. TensorflowIsSettled(j)
    BY <1>1, <1>3, <2>2, <2>3 DEF TensorflowIsSettled, HasRole
  <2> QED
    BY <1>1, <1>11, <2>4 DEF IsSettled, j
<1>12. CASE d.framework = "demo"
  BY <1>1, <1>12 DEF IsSettled, j
<1> QED
  BY <1>5, <1>6, <1>7, <1>8, <1>9, <1>10, <1>11, <1>12 DEF Registered

(* And they leave alone what is settled. *)
LEMMA SettledIsFixed ==
    ASSUME NEW N, FrameworkRoles \subseteq N, NEW d, IsDefinition(d, N), d.framework \in Registered,
           IsSettled(d)
    PROVE  Defaulted(d) = d
<1>1. ASSUME NEW r \in DOMAIN d.roles PROVE d.roles[r] \in RoleDefinition(N)
  BY DEF IsDefinition
<1>2. ASSUME NEW r \in DOMAIN d.roles, d.framework # "demo" PROVE FrameworkRole(d, r) = d.roles[r]
  <2>1. CASE d.framework = "bagua"
    BY <1>1, <2>1, BaguaRoleFixed DEF FrameworkRole, IsSettled
  <2>2. CASE d.framework = "custom"
    BY <1>1, <2>2, DecidingRole DEF FrameworkRole, IsSettled
  <2>3. CASE d.framework = "dask"
    BY <1>1, <2>3, DaskRoleFixed DEF FrameworkRole, IsSettled
  <2>4. CASE d.framework = "mpi"
    BY <1>1, <2>4, MPIRoleFixed DEF FrameworkRole, IsSettled
  <2>5. CASE d.framework = "pytorch"
    BY <1>1, <2>5, PytorchRoleFixed DEF FrameworkRole, IsSettled
  <2>6. CASE d.framework = "standalone"
    BY <1>1, <2>6, DecidingRole DEF FrameworkRole, IsSettled, Present
  <2>7. CASE d.framework = "tensorflow"
    BY <1>1, <2>7, TensorflowRoleFixed DEF FrameworkRole, IsSettled
  <2> QED
    BY <1>2, <2>1, <2>2, <2>3, <2>4, <2>5, <2>6, <2>7 DEF Registered
<1>3. SetDefault(d) = d
  <2>1. CASE d.framework = "demo"
    BY <2>1 DEF SetDefault
  <2>2. CASE d.framework # "demo"
    <3>1. d.roles \in [DOMAIN d.roles -> RoleDefinition(N)]
      BY DEF IsDefinition
    <3>2. FrameworkRoleMap(d) = d.roles
      BY <1>2, <2>2, <3>1 DEF FrameworkRoleMap
    <3>3. FrameworkOption(d) = d.option /\ d.option \in {"nil", "off", "on", "bad"}
      BY DEF FrameworkOption, IsSettled, BaguaIsSettled, MPIIsSettled, TensorflowIsSettled,
             IsDefinition
    <3>4. d.policy.given
      BY <2>2 DEF IsSettled
    <3>5. SetDefault(d) = Redefined(d, d.option, d.roles, Each(Failing(d)), FrameworkSucceeded(d))
      BY <2>2, <3>2, <3>3, SetDefaultRedefines
    <3>6. Redefined(d, d.option, d.roles, Each(Failing(d)), FrameworkSucceeded(d)) = d
      BY <3>4, RedefinedSame
    <3> QED
      BY <3>5, <3>6
  <2> QED
    BY <2>1, <2>2
<1>4. Default(d) = d
  BY DefaultFields DEF IsSettled
<1> QED
  BY <1>3, <1>4 DEF Defaulted

(* The roles of the condition of success that SetDefault gives a job have  *)
(* a condition of success themselves, as far as they exist.                *)
LEMMA DefaultsDecide ==
    ASSUME NEW N, FrameworkRoles \subseteq N, NEW d, IsDefinition(d, N),
           d.framework \in Registered \ {"demo"}, ~d.policy.given,
           NEW r \in Succeeding(d) \intersect DOMAIN d.roles
    PROVE  Defaulted(d).roles[r].succeeded # "None"
<1> DEFINE j == Defaulted(d)
<1>1. /\ j.framework = d.framework /\ j.option = FrameworkOption(d)
      /\ DOMAIN j.roles = DOMAIN d.roles
      /\ FrameworkRole(d, r) \in RoleDefinition(N)
      /\ j.roles[r] = DefaultRole(FrameworkRole(d, r))
  BY DefaultedFields
<1>2. IsSettled(j)
  BY DefaultedSettles
<1>3. d.roles[r] \in RoleDefinition(N)
  BY DEF IsDefinition
<1> HIDE DEF j
<1> USE <1>1, <1>2 DEF Succeeding, Present
<1>4. CASE d.framework = "bagua" /\ d.option = "on"
  BY <1>4 DEF IsSettled, BaguaIsSettled, FrameworkOption, HasConditions, j
<1>5. CASE d.framework = "bagua" /\ d.option # "on"
  <2>1. r \in {"worker", "master"}
    BY <1>5
  <2>2. HasConditions(FrameworkRole(d, r))
    BY <1>3, <1>5, <2>1, BaguaRoleSettles DEF FrameworkRole
  <2> QED
    BY <2>2, DefaultRoleKeeps DEF HasConditions, j
<1>6. CASE d.framework = "custom"
  BY <1>6 DEF IsSettled, IsDecided, j
<1>7. CASE d.framework = "dask"
  BY <1>7 DEF IsSettled, DaskIsSettled, HasConditions, j
<1>8. CASE d.framework = "mpi"
  BY <1>8 DEF IsSettled, MPIIsSettled, HasRole, j
<1>9. CASE d.framework = "pytorch"
  BY <1>9 DEF IsSettled, PytorchIsSettled, HasConditions, j
<1>10. CASE d.framework = "standalone"
  BY <1>10 DEF IsSettled, IsDecided, j
<1>11. CASE d.framework = "tensorflow"
  BY <1>11 DEF IsSettled, TensorflowIsSettled, IsDecided, SpecificRoles, j
<1> QED
  BY <1>4, <1>5, <1>6, <1>7, <1>8, <1>9, <1>10, <1>11 DEF Registered

(* Which roles they are depends on framework, option and names only. *)
LEMMA SameConditions ==
    ASSUME NEW d, NEW e, e.framework = d.framework, e.option = d.option,
           DOMAIN e.roles = DOMAIN d.roles, d.framework \in Registered \ {"demo"}
    PROVE  /\ FrameworkOption(e) = FrameworkOption(d) /\ Failing(e) = Failing(d)
           /\ Succeeding(e) = Succeeding(d) /\ FrameworkSucceeded(e) = FrameworkSucceeded(d)
<1>1. /\ \A n : HasRole(e, n) <=> HasRole(d, n)
      /\ \A S : Present(e, S) = Present(d, S)
  BY DEF HasRole, Present
<1>2. FrameworkOption(e) = FrameworkOption(d)
  BY DEF FrameworkOption
<1>3. Failing(e) = Failing(d) /\ Succeeding(e) = Succeeding(d)
  <2>1. CASE d.framework = "bagua"
    BY <1>1, <2>1 DEF Failing, Succeeding
  <2>2. CASE d.framework = "custom"
    BY <1>1, <2>2 DEF Failing, Succeeding
  <2>3. CASE d.framework = "dask"
    BY <1>1, <2>3 DEF Failing, Succeeding
  <2>4. CASE d.framework = "mpi"
    BY <1>1, <2>4 DEF Failing, Succeeding
  <2>5. CASE d.framework = "pytorch"
    BY <1>1, <2>5 DEF Failing, Succeeding
  <2>6. CASE d.framework = "standalone"
    BY <1>1, <2>6 DEF Failing, Succeeding
  <2>7. CASE d.framework = "tensorflow"
    BY <1>1, <2>7 DEF Failing, Succeeding
  <2> QED
    BY <2>1, <2>2, <2>3, <2>4, <2>5, <2>6, <2>7 DEF Registered
<1> QED
  BY <1>2, <1>3 DEF FrameworkSucceeded

(* Scaling a role leaves a settled definition settled. *)
Scaled(d, r, n) == [d EXCEPT !.roles[r].replicas = n]

LEMMA ScaledFields ==
    ASSUME NEW N, NEW d, IsDefinition(d, N), NEW r \in DOMAIN d.roles, NEW n \in Nat
    PROVE  LET e == Scaled(d, r, n)
           IN  /\ IsDefinition(e, N)
               /\ e.framework = d.framework /\ e.ports = d.ports /\ e.option = d.option
               /\ e.policy = d.policy /\ e.complete = d.complete
               /\ DOMAIN e.roles = DOMAIN d.roles
               /\ e.roles[r] = [d.roles[r] EXCEPT !.replicas = n] /\ e.roles[r].replicas = n
               /\ \A q \in DOMAIN d.roles \ {r} : e.roles[q] = d.roles[q]
<1> DEFINE role == [d.roles[r] EXCEPT !.replicas = n]
           rs == [d.roles EXCEPT ![r] = role]
<1>1. d.roles \in [DOMAIN d.roles -> RoleDefinition(N)]
  BY DEF IsDefinition
<1>2. n \in Replicas
  BY DEF Replicas
<1>3. role \in RoleDefinition(N) /\ role.replicas = n
  BY <1>1, <1>2 DEF RoleDefinition
<1> HIDE DEF role
<1>4. /\ rs \in [DOMAIN d.roles -> RoleDefinition(N)] /\ rs[r] = role
      /\ \A q \in DOMAIN d.roles \ {r} : rs[q] = d.roles[q]
  BY <1>1, <1>3
<1>5. Scaled(d, r, n) = [d EXCEPT !.roles = rs]
  BY DEF Scaled, role
<1> HIDE DEF rs
<1>6. DOMAIN rs = DOMAIN d.roles
  BY <1>4
<1>7. /\ IsDefinition(Scaled(d, r, n), N) /\ Scaled(d, r, n).roles = rs
      /\ Scaled(d, r, n).framework = d.framework /\ Scaled(d, r, n).ports = d.ports
      /\ Scaled(d, r, n).option = d.option /\ Scaled(d, r, n).policy = d.policy
      /\ Scaled(d, r, n).complete = d.complete
  BY <1>4, <1>5, <1>6 DEF IsDefinition
<1> QED
  BY <1>3, <1>4, <1>6, <1>7 DEF role

(* Two definitions with the same roles, up to their replicas. *)
SameButReplicas(d, e) ==
    /\ e.framework = d.framework /\ e.option = d.option /\ e.policy = d.policy
    /\ e.complete = d.complete
    /\ DOMAIN e.roles = DOMAIN d.roles
    /\ \A r \in DOMAIN d.roles :
          /\ e.roles[r].restart = d.roles[r].restart
          /\ e.roles[r].failed = d.roles[r].failed /\ e.roles[r].succeeded = d.roles[r].succeeded
          /\ e.roles[r].dependence = d.roles[r].dependence
          /\ e.roles[r].containers = d.roles[r].containers /\ e.roles[r].named = d.roles[r].named
          /\ e.roles[r].replicas = d.roles[r].replicas \/ e.roles[r].replicas \in Nat

LEMMA ScaledIsSame ==
    ASSUME NEW N, NEW d, IsDefinition(d, N), NEW r \in DOMAIN d.roles, NEW n \in Nat
    PROVE  SameButReplicas(d, Scaled(d, r, n))
<1> DEFINE e == Scaled(d, r, n)
<1>1. /\ e.framework = d.framework /\ e.option = d.option
      /\ e.policy = d.policy /\ e.complete = d.complete
      /\ DOMAIN e.roles = DOMAIN d.roles
      /\ e.roles[r] = [d.roles[r] EXCEPT !.replicas = n] /\ e.roles[r].replicas = n
      /\ \A q \in DOMAIN d.roles \ {r} : e.roles[q] = d.roles[q]
  BY ScaledFields
<1>2. d.roles[r] \in RoleDefinition(N)
  BY DEF IsDefinition
<1> HIDE DEF e
<1>3. /\ e.roles[r].restart = d.roles[r].restart
      /\ e.roles[r].failed = d.roles[r].failed /\ e.roles[r].succeeded = d.roles[r].succeeded
      /\ e.roles[r].dependence = d.roles[r].dependence
      /\ e.roles[r].containers = d.roles[r].containers /\ e.roles[r].named = d.roles[r].named
  BY <1>1, <1>2 DEF RoleDefinition
<1> QED
  BY <1>1, <1>3 DEF SameButReplicas, e

LEMMA SameStaysSettled ==
    ASSUME NEW d, NEW e, IsSettled(d), SameButReplicas(d, e)
    PROVE  IsSettled(e)
<1>1. \A n \in Nat : n # Unset
  BY DEF Unset
<1>2. ASSUME NEW r \in DOMAIN d.roles PROVE RoleIsSettled(e.roles[r])
  BY <1>1 DEF IsSettled, SameButReplicas, RoleIsSettled, HasConditions
<1>3. /\ \A n : HasRole(e, n) <=> HasRole(d, n)
      /\ \A S : Present(e, S) = Present(d, S)
      /\ \A S : Present(d, S) \subseteq DOMAIN d.roles
      /\ LastStarted(e) = LastStarted(d)
  BY DEF SameButReplicas, HasRole, Present, LastStarted
<1>4. ASSUME NEW r \in DOMAIN d.roles
      PROVE  /\ HasConditions(d.roles[r]) => HasConditions(e.roles[r])
             /\ IsDecided(d.roles[r]) => IsDecided(e.roles[r])
  BY DEF SameButReplicas, HasConditions, IsDecided
<1>5. d.framework = "bagua" => BaguaIsSettled(e)
  BY <1>3, <1>4 DEF IsSettled, BaguaIsSettled, SameButReplicas, HasRole
<1>6. d.framework = "dask" => DaskIsSettled(e)
  BY <1>3, <1>4 DEF IsSettled, DaskIsSettled, SameButReplicas, HasRole
<1>7. d.framework = "mpi" => MPIIsSettled(e)
  BY <1>3, <1>4 DEF IsSettled, MPIIsSettled, SameButReplicas, HasRole
<1>8. d.framework = "pytorch" => PytorchIsSettled(e)
  BY <1>3, <1>4 DEF IsSettled, PytorchIsSettled, SameButReplicas, HasRole
<1>9. d.framework = "tensorflow" => TensorflowIsSettled(e)
  BY <1>3, <1>4 DEF IsSettled, TensorflowIsSettled, SameButReplicas, HasRole
<1> QED
  BY <1>2, <1>3, <1>4, <1>5, <1>6, <1>7, <1>8, <1>9 DEF IsSettled, SameButReplicas

-----------------------------------------------------------------------------
(* What the pods are told. *)

LEMMA ValidReplicas ==
    ASSUME NEW N, NEW d, IsDefinition(d, N), Valid(d), NEW r \in DOMAIN d.roles
    PROVE  d.roles[r].replicas \in Nat /\ d.roles[r].replicas > 0
<1>1. d.roles[r].replicas \in Replicas
  BY DEF IsDefinition, RoleDefinition
<1>2. d.roles[r].replicas > 0
  BY DEF Valid, ValidateCreate
<1> QED
  BY <1>1, <1>2 DEF Replicas, Unset

LEMMA ReplicasNat ==
    ASSUME NEW N, NEW d, IsDefinition(d, N), Valid(d), NEW r
    PROVE  /\ GetRoleReplicas(d, r) \in Nat
           /\ r \in DOMAIN d.roles => GetRoleReplicas(d, r) = d.roles[r].replicas
           /\ r \notin DOMAIN d.roles => GetRoleReplicas(d, r) = 0
  BY ValidReplicas DEF GetRoleReplicas, HasRole

RankedRoles(framework) ==
    IF framework = "dask" THEN {"leadworker", "worker", "launcher"} ELSE {"master", "worker"}

LEMMA PytorchRanks ==
    ASSUME NEW N, NEW d, IsDefinition(d, N), Valid(d), d.framework = "pytorch",
           NEW r \in DOMAIN d.roles \intersect {"master", "worker"},
           NEW i \in 0 .. (d.roles[r].replicas - 1)
    PROVE  LET env == SetClusterSpec(d, r, i)
           IN  /\ env.rank = IF r = "worker" THEN i + 1 ELSE 0
               /\ env.rank < env.world
<1>1. d.roles["master"].replicas = 1
  BY DEF Valid, FrameworkValidate, PytorchValidate
<1>2. SetClusterSpec(d, r, i) = PytorchClusterSpec(d, r, i)
  BY DEF SetClusterSpec
<1>3. /\ PytorchClusterSpec(d, r, i).rank = (IF r = "worker" THEN i + 1 ELSE i)
      /\ PytorchClusterSpec(d, r, i).world = GetRoleReplicas(d, "worker") + 1
  BY DEF PytorchClusterSpec, NoEnv
<1>4. d.roles[r].replicas \in Nat /\ GetRoleReplicas(d, "worker") \in Nat
  BY ValidReplicas, ReplicasNat
<1>5. CASE r = "worker"
  <2>1. GetRoleReplicas(d, "worker") = d.roles[r].replicas
    BY <1>5, ReplicasNat
  <2> QED
    BY <1>2, <1>3, <1>4, <1>5, <2>1
<1>6. CASE r = "master"
  <2>1. i = 0
    BY <1>1, <1>6
  <2> QED
    BY <1>2, <1>3, <1>4, <1>6, <2>1
<1> QED
  BY <1>5, <1>6

LEMMA BaguaRanks ==
    ASSUME NEW N, NEW d, IsDefinition(d, N), Valid(d), d.framework = "bagua", d.option # "on",
           NEW r \in DOMAIN d.roles \intersect {"master", "worker"},
           NEW i \in 0 .. (d.roles[r].replicas - 1)
    PROVE  LET env == SetClusterSpec(d, r, i)
           IN  /\ env.rank = IF r = "worker" THEN i + 1 ELSE 0
               /\ env.rank < env.world
               /\ r = "master" => i = 0
<1>1. GetRoleReplicas(d, "master") = 1
  BY DEF Valid, FrameworkValidate, BaguaValidate
<1>2. SetClusterSpec(d, r, i) = BaguaClusterSpec(d, r, i)
  BY DEF SetClusterSpec
<1>3. /\ BaguaClusterSpec(d, r, i).rank = (IF r = "worker" THEN i + 1 ELSE 0)
      /\ BaguaClusterSpec(d, r, i).world = GetRoleReplicas(d, "worker") + 1
  BY DEF BaguaClusterSpec
<1>4. d.roles[r].replicas \in Nat /\ GetRoleReplicas(d, "worker") \in Nat
  BY ValidReplicas, ReplicasNat
<1>5. GetRoleReplicas(d, r) = d.roles[r].replicas
  BY ReplicasNat
<1>6. CASE r = "worker"
  BY <1>2, <1>3, <1>4, <1>5, <1>6
<1>7. CASE r = "master"
  BY <1>1, <1>2, <1>3, <1>4, <1>5, <1>7
<1> QED
  BY <1>6, <1>7

LEMMA DaskRanks ==
    ASSUME NEW N, NEW d, IsDefinition(d, N), Valid(d), d.framework = "dask",
           NEW r \in DOMAIN d.roles \intersect {"leadworker", "worker", "launcher"},
           NEW i \in 0 .. (d.roles[r].replicas - 1)
    PROVE  LET env == SetClusterSpec(d, r, i)
               workers == GetRoleReplicas(d, "worker")
           IN  /\ env.rank = CASE r = "worker" -> i + 1
                               [] r = "launcher" /\ HasRole(d, "leadworker") -> workers + 1
                               [] OTHER -> 0
               /\ env.rank < env.world
               /\ r # "worker" => i = 0
               /\ HasRole(d, "leadworker") \/ (r = "launcher")
               /\ r = "worker" => i < workers
<1>1. /\ GetRoleReplicas(d, "launcher") = 1
      /\ HasRole(d, "worker") => HasRole(d, "leadworker")
      /\ HasRole(d, "leadworker") => d.roles["leadworker"].replicas = 1
  BY DEF Valid, FrameworkValidate, DaskValidate, CheckRolesExist, HasRole
<1>2. SetClusterSpec(d, r, i) = DaskClusterSpec(d, r, i)
  BY DEF SetClusterSpec
<1>3. /\ DaskClusterSpec(d, r, i).rank =
            (CASE r = "worker" -> i + 1
               [] r = "launcher" /\ HasRole(d, "leadworker") -> getWorldSize(d) - 1
               [] OTHER -> 0)
      /\ DaskClusterSpec(d, r, i).world = getWorldSize(d)
  BY DEF DaskClusterSpec, NoEnv
<1>4. d.roles[r].replicas \in Nat /\ GetRoleReplicas(d, "worker") \in Nat
      /\ GetRoleReplicas(d, r) = d.roles[r].replicas
  BY ValidReplicas, ReplicasNat
<1>5. /\ HasRole(d, "leadworker") => GetRoleReplicas(d, "leadworker") = 1
      /\ ~HasRole(d, "leadworker") => /\ GetRoleReplicas(d, "leadworker") = 0
                                      /\ GetRoleReplicas(d, "worker") = 0
  BY <1>1, ReplicasNat DEF HasRole
<1>6. getWorldSize(d) = IF HasRole(d, "leadworker") THEN GetRoleReplicas(d, "worker") + 2 ELSE 1
  BY <1>1, <1>4, <1>5 DEF getWorldSize
<1>7. CASE r = "worker"
  <2>1. HasRole(d, "leadworker")
    BY <1>1, <1>7 DEF HasRole
  <2> QED
    BY <1>2, <1>3, <1>4, <1>6, <1>7, <2>1
<1>8. CASE r = "launcher" /\ HasRole(d, "leadworker")
  BY <1>1, <1>2, <1>3, <1>4, <1>6, <1>8
<1>9. CASE r = "launcher" /\ ~HasRole(d, "leadworker")
  BY <1>1, <1>2, <1>3, <1>4, <1>6, <1>9
<1>10. CASE r = "leadworker"
  <2>1. HasRole(d, "leadworker")
    BY <1>10 DEF HasRole
  <2> QED
    BY <1>1, <1>2, <1>3, <1>4, <1>5, <1>6, <1>10, <2>1
<1> QED
  BY <1>7, <1>8, <1>9, <1>10

HasRanks(d) == d.framework \in {"pytorch", "dask"} \/ (d.framework = "bagua" /\ d.option # "on")

LEMMA OthersHaveNoRank ==
    ASSUME NEW d, d.framework \in Registered, ~HasRanks(d), NEW r, NEW i
    PROVE  SetClusterSpec(d, r, i).rank = Unset
<1>1. CASE d.framework = "bagua"
  <2>1. d.option = "on"
    BY <1>1 DEF HasRanks
  <2> QED
    BY <1>1, <2>1 DEF SetClusterSpec, BaguaClusterSpec, NoEnv
<1>2. CASE d.framework = "custom"
  BY <1>2 DEF SetClusterSpec, CustomClusterSpec, NoEnv
<1>3. CASE d.framework = "tensorflow"
  BY <1>3 DEF SetClusterSpec, TensorflowClusterSpec, NoEnv
<1>4. CASE d.framework \in {"mpi", "standalone", "demo"}
  BY <1>4 DEF SetClusterSpec, NoEnv
<1> QED
  BY <1>1, <1>2, <1>3, <1>4 DEF Registered, HasRanks

(* In a valid definition, different pods of a world have different ranks   *)
(* below the size of the world.                                            *)
LEMMA RanksDiffer ==
    ASSUME NEW N, NEW d, IsDefinition(d, N), Valid(d), HasRanks(d),
           NEW r \in DOMAIN d.roles \intersect RankedRoles(d.framework),
           NEW q \in DOMAIN d.roles \intersect RankedRoles(d.framework),
           NEW i \in 0 .. (d.roles[r].replicas - 1), NEW k \in 0 .. (d.roles[q].replicas - 1)
    PROVE  /\ SetClusterSpec(d, r, i).rank < SetClusterSpec(d, r, i).world
           /\ SetClusterSpec(d, r, i).rank = SetClusterSpec(d, q, k).rank => r = q /\ i = k
<1>1. i \in Nat /\ k \in Nat
  BY ValidReplicas
<1>2. CASE d.framework = "pytorch"
  <2>1. r \in {"master", "worker"} /\ q \in {"master", "worker"}
    BY <1>2 DEF RankedRoles
  <2>2. /\ SetClusterSpec(d, r, i).rank < SetClusterSpec(d, r, i).world
        /\ SetClusterSpec(d, r, i).rank = IF r = "worker" THEN i + 1 ELSE 0
        /\ SetClusterSpec(d, q, k).rank = IF q = "worker" THEN k + 1 ELSE 0
    BY <1>2, <2>1, PytorchRanks
  <2>3. (r = "master" => i = 0) /\ (q = "master" => k = 0)
    BY <1>2 DEF Valid, FrameworkValidate, PytorchValidate
  <2> QED
    BY <1>1, <2>1, <2>2, <2>3
<1>3. CASE d.framework = "bagua" /\ d.option # "on"
  <2>1. r \in {"master", "worker"} /\ q \in {"master", "worker"}
    BY <1>3 DEF RankedRoles
  <2>2. /\ SetClusterSpec(d, r, i).rank < SetClusterSpec(d, r, i).world
        /\ SetClusterSpec(d, r, i).rank = IF r = "worker" THEN i + 1 ELSE 0
        /\ SetClusterSpec(d, q, k).rank = IF q = "worker" THEN k + 1 ELSE 0
        /\ (r = "master" => i = 0) /\ (q = "master" => k = 0)
    BY <1>3, <2>1, BaguaRanks
  <2> QED
    BY <1>1, <2>1, <2>2
<1>4. CASE d.framework = "dask"
  <2> DEFINE workers == GetRoleReplicas(d, "worker")
             Rank(n, m) == CASE n = "worker" -> m + 1
                             [] n = "launcher" /\ HasRole(d, "leadworker") -> workers + 1
                             [] OTHER -> 0
  <2>1. r \in {"leadworker", "worker", "launcher"} /\ q \in {"leadworker", "worker", "launcher"}
    BY <1>4 DEF RankedRoles
  <2>2. workers \in Nat
    BY ReplicasNat
  <2>3. /\ SetClusterSpec(d, r, i).rank < SetClusterSpec(d, r, i).world
        /\ SetClusterSpec(d, r, i).rank = Rank(r, i)
        /\ r # "worker" => i = 0
        /\ HasRole(d, "leadworker") \/ r = "launcher"
        /\ r = "worker" => i < workers
    BY <1>4, <2>1, DaskRanks
  <2>4. /\ SetClusterSpec(d, q, k).rank = Rank(q, k)
        /\ q # "worker" => k = 0
        /\ HasRole(d, "leadworker") \/ q = "launcher"
        /\ q = "worker" => k < workers
    BY <1>4, <2>1, DaskRanks
  <2> HIDE DEF workers
  <2>5. Rank(r, i) = Rank(q, k) => r = q /\ i = k
    <3>1. CASE HasRole(d, "leadworker")
      BY <1>1, <2>1, <2>2, <2>3, <2>4, <3>1
    <3>2. CASE ~HasRole(d, "leadworker")
      BY <2>3, <2>4, <3>2
    <3> QED
      BY <3>1, <3>2
  <2> QED
    BY <2>3, <2>4, <2>5
<1> QED
  BY <1>2, <1>3, <1>4 DEF HasRanks

-----------------------------------------------------------------------------
(* The ports of elastic bagua. *)

LEMMA Products ==
    /\ \A a \in Nat, b \in Nat : a * b \in Nat
    /\ \A e \in Nat, i \in Nat, k \in Nat : i < k => e * k >= e * i + e
<1>1. \A a \in Nat, b \in Nat : a * b \in Nat
  OBVIOUS
<1>2. ASSUME NEW e \in Nat, NEW i \in Nat, NEW k \in Nat, i < k PROVE e * k >= e * i + e
  <2>1. k - i - 1 \in Nat
    BY <1>2
  <2>2. e * (k - i - 1) \in Nat
    BY <2>1, <1>1
  <2>3. e * (k - i - 1) = e * k - e * i - e
    OBVIOUS
  <2> QED
    BY <2>2, <2>3
<1> QED
  BY <1>1, <1>2

LEMMA PortsPerWorker ==
    ASSUME NEW n \in Nat, n > 0, NEW p \in Nat, p >= 2 + n
    PROVE  (p - 2) \div n \in Nat /\ (p - 2) \div n >= 1
  OBVIOUS

PortsFrom(e, i) == {2 + e * i + x : x \in 1 .. e}

LEMMA PortsFromType ==
    ASSUME NEW e \in Nat, e >= 1, NEW i \in Nat
    PROVE  PortsFrom(e, i) # {} /\ PortsFrom(e, i) \intersect 1 .. 2 = {}
<1>1. e * i \in Nat
  BY Products
<1>2. PortsFrom(e, i) # {}
  <2>1. 1 \in 1 .. e
    OBVIOUS
  <2> QED
    BY <2>1 DEF PortsFrom
<1>3. PortsFrom(e, i) \intersect 1 .. 2 = {}
  <2> SUFFICES ASSUME NEW x \in 1 .. e, 2 + e * i + x \in 1 .. 2 PROVE FALSE
    BY DEF PortsFrom
  <2> QED
    BY <1>1
<1> QED
  BY <1>2, <1>3

LEMMA PortsFromDiffer ==
    ASSUME NEW e \in Nat, e >= 1, NEW i \in Nat, NEW k \in Nat, i # k
    PROVE  PortsFrom(e, i) \intersect PortsFrom(e, k) = {}
<1>1. e * i \in Nat /\ e * k \in Nat
  BY Products
<1>2. e * i >= e * k + e \/ e * k >= e * i + e
  BY Products
<1> SUFFICES ASSUME NEW x \in 1 .. e, NEW y \in 1 .. e, 2 + e * i + x = 2 + e * k + y PROVE FALSE
  BY DEF PortsFrom
<1> QED
  BY <1>1, <1>2

(* In a valid definition of an elastic job, no two of its workers and etcd *)
(* get the same port, and each gets one.                                   *)
LEMMA ElasticPortsDiffer ==
    ASSUME NEW N, NEW d, IsDefinition(d, N), Valid(d), d.framework = "bagua", d.option = "on",
           NEW r \in {"worker", "etcd"}, NEW q \in {"worker", "etcd"},
           NEW i \in 0 .. (d.roles[r].replicas - 1), NEW k \in 0 .. (d.roles[q].replicas - 1)
    PROVE  /\ SetClusterSpec(d, r, i).ports # {}
           /\ r # q \/ i # k =>
                SetClusterSpec(d, r, i).ports \intersect SetClusterSpec(d, q, k).ports = {}
<1> DEFINE n == d.roles["worker"].replicas
           e == (d.ports - 2) \div n
<1>1. /\ "worker" \in DOMAIN d.roles /\ "etcd" \in DOMAIN d.roles
      /\ GetRoleReplicas(d, "etcd") = 1 /\ d.ports >= 2 + GetRoleReplicas(d, "worker")
  BY DEF Valid, FrameworkValidate, BaguaValidate, CheckRolesExist
<1>2. /\ n \in Nat /\ n > 0 /\ d.roles["etcd"].replicas = 1
      /\ GetRoleReplicas(d, "worker") = n
  BY <1>1, ValidReplicas, ReplicasNat
<1>3. d.ports \in Nat
  BY DEF IsDefinition
<1>4. e \in Nat /\ e >= 1
  BY <1>1, <1>2, <1>3, PortsPerWorker
<1>5. ASSUME NEW m \in 0 .. (n - 1)
      PROVE  SetClusterSpec(d, "worker", m).ports = PortsFrom(e, m)
  <2>1. SetClusterSpec(d, "worker", m).ports = getPrivatePorts(d, m)
    BY DEF SetClusterSpec, BaguaClusterSpec, NoEnv
  <2>2. m < n
    BY <1>2
  <2> QED
    BY <1>2, <2>1, <2>2 DEF getPrivatePorts, PortsFrom
<1>6. \A m : SetClusterSpec(d, "etcd", m).ports = 1 .. 2
  BY DEF SetClusterSpec, BaguaClusterSpec, NoEnv
<1> HIDE DEF n, e
<1>7. i \in Nat /\ k \in Nat
  BY <1>1, ValidReplicas
<1>8. 1 .. 2 # {}
  <2>1. 1 \in 1 .. 2
    OBVIOUS
  <2> QED
    BY <2>1
<1>9. CASE r = "worker" /\ q = "worker"
  <2>1. i \in 0 .. (n - 1) /\ k \in 0 .. (n - 1)
    BY <1>9 DEF n
  <2> QED
    BY <1>4, <1>5, <1>7, <1>9, <2>1, PortsFromType, PortsFromDiffer
<1>10. CASE r = "worker" /\ q = "etcd"
  <2>1. i \in 0 .. (n - 1)
    BY <1>10 DEF n
  <2> QED
    BY <1>4, <1>5, <1>6, <1>7, <1>10, <2>1, PortsFromType
<1>11. CASE r = "etcd" /\ q = "worker"
  <2>1. k \in 0 .. (n - 1)
    BY <1>11 DEF n
  <2>2. PortsFrom(e, k) \intersect 1 .. 2 = {}
    BY <1>4, <1>7, PortsFromType
  <2> QED
    BY <1>5, <1>6, <1>8, <1>11, <2>1, <2>2
<1>12. CASE r = "etcd" /\ q = "etcd"
  <2>1. i = 0 /\ k = 0
    BY <1>2, <1>12
  <2> QED
    BY <1>6, <1>8, <1>12, <2>1
<1> QED
  BY <1>9, <1>10, <1>11, <1>12

-----------------------------------------------------------------------------
(* Whom a pod is told to talk to. *)

LEMMA DomainNames ==
    ASSUME NEW d, NEW S, NEW a
    PROVE  a \in GetRolesDomainNames(d, S) <=>
             \E r \in S \intersect DOMAIN d.roles : \E i \in 0 .. (d.roles[r].replicas - 1) : a = <<r, i>>
  BY DEF GetRolesDomainNames, Present

(* All of them are pods of the job, of roles that have a service. *)
LEMMA AddressesExist ==
    ASSUME NEW N, NEW d, IsDefinition(d, N), d.framework \in Registered, Valid(d),
           NEW r \in DOMAIN d.roles, NEW i \in 0 .. (d.roles[r].replicas - 1),
           NEW a \in SetClusterSpec(d, r, i).pods
    PROVE  \E q \in DOMAIN d.roles : \E k \in 0 .. (d.roles[q].replicas - 1) :
                a = <<q, k>> /\ NeedsService(d, q)
<1>1. ASSUME NEW S, a \in GetRolesDomainNames(d, S), \A q : NeedsService(d, q)
      PROVE  \E q \in DOMAIN d.roles : \E k \in 0 .. (d.roles[q].replicas - 1) :
                a = <<q, k>> /\ NeedsService(d, q)
  BY <1>1, DomainNames
<1>2. ASSUME NEW q \in DOMAIN d.roles PROVE 0 \in 0 .. (d.roles[q].replicas - 1)
  <2>1. d.roles[q].replicas \in Nat /\ d.roles[q].replicas > 0
    BY ValidReplicas
  <2> QED
    BY <2>1
<1>3. FrameworkValidate(d)
  BY DEF Valid
<1>4. CASE d.framework = "bagua"
  <2>1. \A q : NeedsService(d, q)
    BY <1>4 DEF NeedsService
  <2>2. SetClusterSpec(d, r, i) = BaguaClusterSpec(d, r, i)
    BY <1>4 DEF SetClusterSpec
  <2>3. CASE d.option = "on"
    <3>1. a = <<"etcd", 0>> /\ "etcd" \in DOMAIN d.roles
      BY <1>3, <1>4, <2>2, <2>3 DEF BaguaClusterSpec, NoEnv, FrameworkValidate, BaguaValidate,
                                    CheckRolesExist
    <3> QED
      BY <1>2, <2>1, <3>1
  <2>4. CASE d.option # "on"
    <3>1. a = <<"master", 0>> \/ a \in GetRolesDomainNames(d, {"master", "worker"})
      BY <2>2, <2>4 DEF BaguaClusterSpec, NoEnv
    <3>2. "master" \in DOMAIN d.roles
      BY <1>3, <1>4, <2>4 DEF FrameworkValidate, BaguaValidate, CheckRolesExist
    <3>3. CASE a = <<"master", 0>>
      BY <1>2, <2>1, <3>2, <3>3
    <3> QED
      BY <1>1, <2>1, <3>1, <3>3
  <2> QED
    BY <2>3, <2>4
<1>5. CASE d.framework = "custom"
  <2>1. \A q : NeedsService(d, q)
    BY <1>5 DEF NeedsService
  <2>2. a \in GetRolesDomainNames(d, DOMAIN d.roles)
    BY <1>5 DEF SetClusterSpec, CustomClusterSpec, NoEnv
  <2> QED
    BY <1>1, <2>1, <2>2
<1>6. CASE d.framework = "pytorch"
  <2>1. a = <<"master", 0>>
    BY <1>6 DEF SetClusterSpec, PytorchClusterSpec, NoEnv
  <2>2. NeedsService(d, "master")
    BY <1>6 DEF NeedsService
  <2>3. "master" \in DOMAIN d.roles
    BY <1>3, <1>6 DEF FrameworkValidate, PytorchValidate, HasRole
  <2> QED
    BY <1>2, <2>1, <2>2, <2>3
<1>7. CASE d.framework = "tensorflow"
  <2>1. \A q : NeedsService(d, q)
    BY <1>7 DEF NeedsService
  <2>2. SetClusterSpec(d, r, i) = TensorflowClusterSpec(d, r, i)
    BY <1>7 DEF SetClusterSpec
  <2>3. \/ a \in GetRolesDomainNames(d, SpecificRoles)
        \/ a \in convertClusterSpecToSparseClusterSpec(d, r, i)
    BY <2>2 DEF TensorflowClusterSpec, NoEnv
  <2>4. \/ a \in GetRolesDomainNames(d, SpecificRoles)
        \/ a \in GetRolesDomainNames(d, {"ps"})
        \/ a = <<r, i>>
    BY <2>3 DEF convertClusterSpecToSparseClusterSpec
  <2>5. CASE a = <<r, i>>
    BY <2>1, <2>5
  <2> QED
    BY <1>1, <2>1, <2>4, <2>5
<1>8. CASE d.framework \in {"dask", "mpi", "standalone", "demo"}
  BY <1>8 DEF SetClusterSpec, DaskClusterSpec, NoEnv
<1> QED
  BY <1>4, <1>5, <1>6, <1>7, <1>8 DEF Registered

-----------------------------------------------------------------------------
(* Tensorflow with dynamic workers. *)

LEMMA FiniteDomainNames ==
    ASSUME NEW N, NEW d, IsDefinition(d, N), Valid(d)
    PROVE  IsFiniteSet(GetRolesDomainNames(d, SpecificRoles))
<1> DEFINE part(r) == IF HasRole(d, r) THEN {r} \X (0 .. (d.roles[r].replicas - 1)) ELSE {}
<1>1. ASSUME NEW r PROVE IsFiniteSet(part(r))
  <2>1. CASE HasRole(d, r)
    <3>1. d.roles[r].replicas - 1 \in Int
      BY <2>1, ValidReplicas DEF HasRole
    <3>2. IsFiniteSet(0 .. (d.roles[r].replicas - 1))
      BY <3>1, FS_Interval
    <3>3. IsFiniteSet({r})
      BY FS_Singleton
    <3> QED
      BY <2>1, <3>2, <3>3, FS_Product
  <2>2. CASE ~HasRole(d, r)
    BY <2>2, FS_EmptySet
  <2> QED
    BY <2>1, <2>2
<1>2. GetRolesDomainNames(d, SpecificRoles) =
        part("chief") \union (part("evaluator") \union (part("master") \union (part("ps") \union part("worker"))))
  BY DEF GetRolesDomainNames, Present, SpecificRoles, HasRole
<1> HIDE DEF part
<1>3. IsFiniteSet(part("ps") \union part("worker"))
  BY <1>1, FS_Union
<1>4. IsFiniteSet(part("master") \union (part("ps") \union part("worker")))
  BY <1>1, <1>3, FS_Union
<1>5. IsFiniteSet(part("evaluator") \union (part("master") \union (part("ps") \union part("worker"))))
  BY <1>1, <1>4, FS_Union
<1> QED
  BY <1>1, <1>2, <1>5, FS_Union

(* A job with workers and another of the specific roles is distributed. *)
LEMMA ServersAndWorkers ==
    ASSUME NEW N, NEW d, IsDefinition(d, N), Valid(d), HasRole(d, "worker"),
           NEW q \in SpecificRoles \ {"worker"}, HasRole(d, q)
    PROVE  isDistributed(d)
<1> DEFINE S == GetRolesDomainNames(d, SpecificRoles)
           T == {<<q, 0>>} \union {<<"worker", 0>>}
<1>1. ASSUME NEW r \in {q, "worker"} PROVE <<r, 0>> \in S
  <2>1. r \in DOMAIN d.roles /\ r \in SpecificRoles
    BY DEF HasRole, SpecificRoles
  <2>2. d.roles[r].replicas \in Nat /\ d.roles[r].replicas > 0
    BY <2>1, ValidReplicas
  <2>3. 0 \in 0 .. (d.roles[r].replicas - 1)
    BY <2>2
  <2> QED
    BY <2>1, <2>3, DomainNames
<1>2. IsFiniteSet(S)
  BY FiniteDomainNames
<1>3. Cardinality(T) = 2
  <2>1. <<"worker", 0>> \notin {<<q, 0>>}
    OBVIOUS
  <2>2. IsFiniteSet({<<q, 0>>}) /\ Cardinality({<<q, 0>>}) = 1
    BY FS_Singleton
  <2> DEFINE ps == {<<q, 0>>}
             w == <<"worker", 0>>
  <2> HIDE DEF ps, w
  <2>3. IsFiniteSet(ps) /\ Cardinality(ps) = 1 /\ w \notin ps
    BY <2>1, <2>2 DEF ps, w
  <2>4. Cardinality(ps \union {w}) = 1 + 1
    BY <2>3, FS_AddElement
  <2> QED
    BY <2>4 DEF ps, w
<1>4. T \in SUBSET S
  BY <1>1
<1> HIDE DEF S, T
<1>5. Cardinality(T) <= Cardinality(S) /\ Cardinality(S) \in Nat
  BY <1>2, <1>4, FS_Subset, FS_CardinalityType
<1>6. Cardinality(S) > 1
  BY <1>3, <1>5
<1> QED
  BY <1>6 DEF isDistributed, S

(* What a pod is told with dynamic workers does not depend on their       *)
(* number, unless there is no other role and the job is distributed with   *)
(* one of the numbers only.                                                *)
LEMMA SparseIsStable ==
    ASSUME NEW N, NEW d, NEW e, IsDefinition(d, N), IsDefinition(e, N), Valid(d), Valid(e),
           d.framework = "tensorflow", e.framework = "tensorflow", d.option = "on", e.option = "on",
           DOMAIN e.roles = DOMAIN d.roles,
           \A r \in DOMAIN d.roles \ {"worker"} : e.roles[r].replicas = d.roles[r].replicas,
           NEW r, NEW i
    PROVE  \/ SetClusterSpec(e, r, i) = SetClusterSpec(d, r, i)
           \/ /\ Present(d, SpecificRoles) = {"worker"}
              /\ NoEnv \in {SetClusterSpec(e, r, i), SetClusterSpec(d, r, i)}
<1>1. ASSUME NEW S, "worker" \notin S \intersect DOMAIN d.roles
      PROVE  GetRolesDomainNames(e, S) = GetRolesDomainNames(d, S)
  <2>1. ASSUME NEW a PROVE a \in GetRolesDomainNames(e, S) <=> a \in GetRolesDomainNames(d, S)
    <3>1. \A q \in S \intersect DOMAIN d.roles : e.roles[q].replicas = d.roles[q].replicas
      BY <1>1
    <3>2. a \in GetRolesDomainNames(e, S) <=>
            \E q \in S \intersect DOMAIN e.roles : \E k \in 0 .. (e.roles[q].replicas - 1) : a = <<q, k>>
      BY DomainNames
    <3>3. a \in GetRolesDomainNames(d, S) <=>
            \E q \in S \intersect DOMAIN d.roles : \E k \in 0 .. (d.roles[q].replicas - 1) : a = <<q, k>>
      BY DomainNames
    <3> QED
      BY <3>1, <3>2, <3>3
  <2> QED
    BY <2>1
<1>2. Present(d, SpecificRoles) = {"worker"} \/ (isDistributed(e) <=> isDistributed(d))
  <2>1. CASE HasRole(d, "worker") /\ Present(d, SpecificRoles) # {"worker"}
    <3>1. PICK q \in SpecificRoles \ {"worker"} : HasRole(d, q)
      BY <2>1 DEF Present, HasRole, SpecificRoles
    <3>2. HasRole(e, "worker") /\ HasRole(e, q)
      BY <2>1, <3>1 DEF HasRole
    <3>3. isDistributed(d)
      BY <2>1, <3>1, ServersAndWorkers
    <3>4. isDistributed(e)
      BY <3>1, <3>2, ServersAndWorkers
    <3> QED
      BY <3>3, <3>4
  <2>2. CASE ~HasRole(d, "worker")
    BY <1>1, <2>2 DEF isDistributed, HasRole
  <2> QED
    BY <2>1, <2>2
<1>3. GetRolesDomainNames(e, {"ps"}) = GetRolesDomainNames(d, {"ps"})
  BY <1>1
<1>4. convertClusterSpecToSparseClusterSpec(e, r, i) = convertClusterSpecToSparseClusterSpec(d, r, i)
  BY <1>3 DEF convertClusterSpecToSparseClusterSpec
<1>5. CASE isDistributed(e) <=> isDistributed(d)
  BY <1>4, <1>5 DEF SetClusterSpec, TensorflowClusterSpec
<1>6. CASE ~(isDistributed(e) <=> isDistributed(d))
  <2>1. NoEnv \in {SetClusterSpec(e, r, i), SetClusterSpec(d, r, i)}
    BY <1>6 DEF SetClusterSpec, TensorflowClusterSpec
  <2> QED
    BY <1>2, <1>6, <2>1
<1> QED
  BY <1>5, <1>6

(* The defaults of tensorflow leave a number of replicas alone. *)
LEMMA TensorflowReplicas ==
    ASSUME NEW N, FrameworkRoles \subseteq N, NEW d, IsDefinition(d, N), d.framework = "tensorflow",
           NEW r \in DOMAIN d.roles
    PROVE  Defaulted(d).roles[r].replicas = IF d.roles[r].replicas = Unset THEN 1 ELSE d.roles[r].replicas
<1>1. d.framework \in Registered
  BY DEF Registered
<1>2. /\ FrameworkRole(d, r) \in RoleDefinition(N)
      /\ Defaulted(d).roles[r] = DefaultRole(FrameworkRole(d, r))
  BY <1>1, DefaultedFields
<1>3. d.roles[r] \in RoleDefinition(N)
  BY DEF IsDefinition
<1>4. FrameworkRole(d, r).replicas = d.roles[r].replicas
  <2> DEFINE x == IF HasRole(d, "chief") /\ r = "worker" /\ d.roles[r].restart # "Always"
                  THEN [d.roles[r] EXCEPT !.restart = "OnFailure"] ELSE d.roles[r]
  <2>1. x.replicas = d.roles[r].replicas /\ x \in RoleDefinition(N)
    BY <1>3 DEF RoleDefinition, RestartPolicy
  <2>2. FrameworkRole(d, r) = IF r \in SpecificRoles THEN setDefaultPort(Deciding(x)) ELSE d.roles[r]
    BY DEF FrameworkRole, TensorflowRole
  <2> HIDE DEF x
  <2>3. Deciding(x).replicas = x.replicas /\ Deciding(x) \in RoleDefinition(N)
    <3>1. Deciding(x) \in RoleDefinition(N)
      BY <2>1, DecidingRole
    <3>2. Deciding(x).replicas = x.replicas
      BY <2>1 DEF Deciding, WithFailedUnlessRestarted, WithFailed, WithSucceeded, RoleDefinition
    <3> QED
      BY <3>1, <3>2
  <2>4. setDefaultPort(Deciding(x)).replicas = Deciding(x).replicas
    BY <2>3 DEF setDefaultPort, RoleDefinition
  <2> QED
    BY <2>1, <2>2, <2>3, <2>4
<1>5. ASSUME NEW y \in RoleDefinition(N)
      PROVE  DefaultRole(y).replicas = IF y.replicas = Unset THEN 1 ELSE y.replicas
  BY DEF DefaultRole, WithConditions, WithFailed, WithSucceeded, RoleDefinition
<1> QED
  BY <1>2, <1>4, <1>5
============================================================================
