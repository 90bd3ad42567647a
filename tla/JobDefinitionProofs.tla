------------------------ MODULE JobDefinitionProofs ------------------------
(***************************************************************************)
(* Proofs about JobDefinition, for all definitions users can submit, any   *)
(* names and numbers of roles, any sizes they are scaled to and any number *)
(* of disturbances.                                                        *)
(***************************************************************************)
EXTENDS JobDefinition, FrameworksProofs, WellFoundedInduction

-----------------------------------------------------------------------------
(* Types *)

(* A copy of the job. *)
IsCopy(j) ==
    /\ j = Job(j.spec, j.finalizer, j.invalid, j.version)
    /\ IsDefinition(j.spec, Roles)
    /\ j.spec.framework = given.framework /\ DOMAIN j.spec.roles = DOMAIN given.roles
    /\ j.finalizer \in BOOLEAN /\ j.invalid \in BOOLEAN /\ j.version \in Nat

JobTypes ==
    /\ given \in Submissions
    /\ IsCopy(job) /\ IsCopy(seen)
    /\ queued \in BOOLEAN /\ up \in BOOLEAN
    /\ updates \in Nat /\ scaled \in Seq(Roles) /\ faults \in Nat /\ lost \in Nat
    /\ Disturbances <= MaxDisturb(given)

(* The indexes of a role are bounded, so that SliceSize is a number. *)
PodTypes ==
    /\ \A p \in pods : p.role \in DOMAIN given.roles /\ p.index \in Nat
    /\ \A r \in DOMAIN given.roles : \E b \in Nat : \A p \in PodsOf(r) : p.index < b
    /\ services \subseteq DOMAIN given.roles /\ started \subseteq DOMAIN given.roles

(* What a step may do to the job in the API server. *)
Stores(spec, finalizer) ==
    /\ seen = job /\ ~seen.invalid /\ updates' = updates + 1
    /\ job' = Job(spec, finalizer, FALSE, job.version + 1)
Invalidates == /\ ~job.invalid /\ UNCHANGED updates
               /\ job' = [job EXCEPT !.invalid = TRUE, !.version = @ + 1]
Scales(r, n) == /\ r \in DOMAIN job.spec.roles /\ scaled' = Append(scaled, r) /\ UNCHANGED updates
                /\ job' = [job EXCEPT !.spec.roles[r].replicas = n, !.version = @ + 1]

(* A step stores the defaults, invalidates the job, scales a role or       *)
(* leaves the job alone.                                                   *)
LEMMA JobSteps ==
    ASSUME Next
    PROVE  /\ UNCHANGED given
           /\ \/ UNCHANGED <<job, updates, scaled>>
              \/ /\ Begun /\ Known /\ ~SetDefaultPanics(seen.spec) /\ ~Settled /\ UNCHANGED <<scaled, seen, pods>>
                 /\ Stores(Defaulted(seen.spec), job.finalizer \/ HasDependence(Defaulted(seen.spec)))
              \/ Invalidates /\ UNCHANGED <<scaled, seen>>
              \/ /\ \E r \in Roles, n \in Sizes : Scales(r, n)
                 /\ UNCHANGED <<seen, pods, queued, up, services, started>>
           /\ UNCHANGED seen \/ (seen' = job /\ UNCHANGED job)
<1>1. CASE StoreDefaults
  BY <1>1 DEF StoreDefaults, Stores, Begun
<1>2. CASE Reject \/ \E r \in DOMAIN seen.spec.roles : ReconcileJobsStops(r)
  <2>1. UNCHANGED <<given, seen, updates, scaled>>
    BY <1>2 DEF Reject, ReconcileJobsStops
  <2>2. ~seen.invalid
    BY <1>2 DEF Reject, ReconcileJobsStops, Accepted, Begun
  <2>3. UNCHANGED job \/ setInvalidDefinition
    BY <1>2 DEF Reject, ReconcileJobsStops
  <2>4. setInvalidDefinition => UNCHANGED job \/ (seen = job /\ job' = [job EXCEPT !.invalid = TRUE, !.version = @ + 1])
    BY DEF setInvalidDefinition
  <2> QED
    BY <2>1, <2>2, <2>3, <2>4 DEF Invalidates
<1>3. CASE \E r \in Roles, n \in Sizes : ScaleRole(r, n)
  BY <1>3 DEF ScaleRole, Scales
<1>4. CASE \/ Ignore \/ SetDefaultCrashes \/ ReconcileDemo \/ ReconcileJobs
           \/ (\E r \in Roles : RoleStarts(r)) \/ Resync \/ (\E p \in pods : LosePod(p))
  BY <1>4 DEF Ignore, SetDefaultCrashes, ReconcileDemo, ReconcileJobs, RoleStarts, Resync, LosePod,
              events
<1>5. CASE Deliver \/ Restart
  BY <1>5 DEF Deliver, Restart, events
<1> QED
  BY <1>1, <1>2, <1>3, <1>4, <1>5 DEF Next, Reconcile

(* At most one disturbance is counted, within the bound. *)
LEMMA CountSteps ==
    ASSUME Next
    PROVE  \/ UNCHANGED <<scaled, faults, lost>>
           \/ /\ Disturbances < MaxDisturb(given)
              /\ \/ faults' = faults + 1 /\ UNCHANGED <<scaled, lost>>
                 \/ lost' = lost + 1 /\ UNCHANGED <<scaled, faults>>
                 \/ /\ \E r \in Roles : scaled' = Append(scaled, r)
                    /\ UNCHANGED <<faults, lost>>
<1>1. CASE StoreDefaults \/ Reject \/ \E r \in DOMAIN seen.spec.roles : ReconcileJobsStops(r)
  <2>1. UNCHANGED <<scaled, lost>>
    BY <1>1 DEF StoreDefaults, Reject, ReconcileJobsStops
  <2>2. UNCHANGED faults \/ (Disturbances < MaxDisturb(given) /\ faults' = faults + 1)
    BY <1>1 DEF StoreDefaults, Reject, ReconcileJobsStops, setInvalidDefinition, Refused
  <2> QED
    BY <2>1, <2>2
<1>2. CASE \E r \in Roles, n \in Sizes : ScaleRole(r, n)
  BY <1>2 DEF ScaleRole
<1>3. CASE \E p \in pods : LosePod(p)
  BY <1>3 DEF LosePod
<1>4. CASE \/ Ignore \/ SetDefaultCrashes \/ ReconcileDemo \/ ReconcileJobs
           \/ (\E r \in Roles : RoleStarts(r)) \/ Resync \/ Deliver \/ Restart
  BY <1>4 DEF Ignore, SetDefaultCrashes, ReconcileDemo, ReconcileJobs, RoleStarts, Resync, Deliver,
              Restart, events
<1> QED
  BY <1>1, <1>2, <1>3, <1>4 DEF Next, Reconcile

LEMMA FlagTypes ==
    ASSUME queued \in BOOLEAN, up \in BOOLEAN, Next
    PROVE  queued' \in BOOLEAN /\ up' \in BOOLEAN
<1>1. CASE StoreDefaults \/ Reject \/ ReconcileJobs
           \/ \E r \in DOMAIN seen.spec.roles : ReconcileJobsStops(r)
  BY <1>1, Zenon DEF StoreDefaults, Reject, ReconcileJobs, ReconcileJobsStops, setInvalidDefinition
<1>2. CASE \/ Ignore \/ SetDefaultCrashes \/ ReconcileDemo
           \/ (\E r \in Roles : RoleStarts(r)) \/ Resync \/ Deliver \/ Restart
           \/ (\E r \in Roles, n \in Sizes : ScaleRole(r, n)) \/ (\E p \in pods : LosePod(p))
  BY <1>2, Zenon DEF Ignore, SetDefaultCrashes, ReconcileDemo, RoleStarts, Resync, Deliver, Restart,
                     ScaleRole, LosePod
<1> QED
  BY <1>1, <1>2, Zenon DEF Next, Reconcile

LEMMA GivenType ==
    ASSUME given \in Submissions
    PROVE  IsDefinition(given, Roles) /\ MaxDisturb(given) \in Nat /\ FrameworkRoles \subseteq Roles
  BY SubmissionsAssumption, MaxDisturbAssumption, RolesAssumption

(* The job after each kind of step. *)
LEMMA StoredType ==
    ASSUME given \in Submissions, IsCopy(job), seen = job, Known,
           NEW f \in BOOLEAN, Stores(Defaulted(seen.spec), f), UNCHANGED given
    PROVE  /\ IsCopy(job)' /\ job'.spec = Defaulted(job.spec) /\ IsSettled(job'.spec)
           /\ job'.version = job.version + 1 /\ job'.invalid = FALSE
<1> DEFINE d == Defaulted(job.spec)
<1>1. /\ IsDefinition(d, Roles) /\ d.framework = job.spec.framework
      /\ DOMAIN d.roles = DOMAIN job.spec.roles /\ IsSettled(d)
  BY GivenType, DefaultedFields, DefaultedSettles DEF IsCopy, Known
<1>2. job' = Job(d, f, FALSE, job.version + 1)
  BY DEF Stores
<1> HIDE DEF d
<1>3. /\ job'.spec = d /\ job'.finalizer = f /\ job'.invalid = FALSE
      /\ job'.version = job.version + 1
  BY <1>2 DEF Job
<1>4. job.version + 1 \in Nat
  BY DEF IsCopy
<1>5. FALSE \in BOOLEAN
  OBVIOUS
<1> QED
  BY <1>1, <1>2, <1>3, <1>4, <1>5 DEF IsCopy, d

LEMMA InvalidatedType ==
    ASSUME IsCopy(job), Invalidates, UNCHANGED given
    PROVE  IsCopy(job)' /\ job'.spec = job.spec /\ job'.version = job.version + 1 /\ job'.invalid = TRUE
<1>1. job.version + 1 \in Nat
  BY DEF IsCopy
<1>2. job' = Job(job.spec, job.finalizer, TRUE, job.version + 1)
  BY DEF Invalidates, IsCopy, Job
<1>3. /\ job'.spec = job.spec /\ job'.finalizer = job.finalizer /\ job'.invalid = TRUE
      /\ job'.version = job.version + 1
  BY <1>2 DEF Job
<1> QED
  BY <1>1, <1>2, <1>3 DEF IsCopy

LEMMA ScaledDefinition ==
    ASSUME NEW d, IsDefinition(d, Roles), NEW r \in DOMAIN d.roles, NEW n \in Nat
    PROVE  /\ IsDefinition(Scaled(d, r, n), Roles) /\ Scaled(d, r, n).framework = d.framework
           /\ DOMAIN Scaled(d, r, n).roles = DOMAIN d.roles
<1> DEFINE e == Scaled(d, r, n)
<1>1. /\ IsDefinition(e, Roles)
      /\ e.framework = d.framework /\ e.ports = d.ports /\ e.option = d.option
      /\ e.policy = d.policy /\ e.complete = d.complete
      /\ DOMAIN e.roles = DOMAIN d.roles
      /\ e.roles[r] = [d.roles[r] EXCEPT !.replicas = n] /\ e.roles[r].replicas = n
      /\ \A q \in DOMAIN d.roles \ {r} : e.roles[q] = d.roles[q]
  BY ScaledFields
<1> QED
  BY <1>1

LEMMA ScaledOthers ==
    ASSUME NEW d, IsDefinition(d, Roles), NEW r \in DOMAIN d.roles, NEW n \in Nat
    PROVE  /\ Scaled(d, r, n).option = d.option
           /\ \A q \in DOMAIN d.roles \ {r} : Scaled(d, r, n).roles[q] = d.roles[q]
<1> DEFINE e == Scaled(d, r, n)
<1>1. /\ IsDefinition(e, Roles)
      /\ e.framework = d.framework /\ e.ports = d.ports /\ e.option = d.option
      /\ e.policy = d.policy /\ e.complete = d.complete
      /\ DOMAIN e.roles = DOMAIN d.roles
      /\ e.roles[r] = [d.roles[r] EXCEPT !.replicas = n] /\ e.roles[r].replicas = n
      /\ \A q \in DOMAIN d.roles \ {r} : e.roles[q] = d.roles[q]
  BY ScaledFields
<1> QED
  BY <1>1

LEMMA ScaledType ==
    ASSUME IsCopy(job), UNCHANGED given, NEW r \in Roles, NEW n \in Sizes, Scales(r, n)
    PROVE  /\ IsCopy(job)' /\ job'.spec = Scaled(job.spec, r, n) /\ r \in DOMAIN job.spec.roles
           /\ job'.version = job.version + 1 /\ job'.invalid = job.invalid
<1> DEFINE d == Scaled(job.spec, r, n)
<1>1. n \in Nat /\ r \in DOMAIN job.spec.roles /\ job.version + 1 \in Nat
  BY SizesAssumption DEF Scales, IsCopy
<1>2. IsDefinition(d, Roles) /\ d.framework = job.spec.framework /\ DOMAIN d.roles = DOMAIN job.spec.roles
  <2>1. IsDefinition(job.spec, Roles)
    BY DEF IsCopy
  <2> QED
    BY <1>1, <2>1, ScaledDefinition
<1>3. job' = [job EXCEPT !.spec = d, !.version = @ + 1]
  BY DEF Scales, Scaled
<1> HIDE DEF d
<1>4. job' = Job(d, job.finalizer, job.invalid, job.version + 1)
  BY <1>3 DEF IsCopy, Job
<1>5. /\ job'.spec = d /\ job'.finalizer = job.finalizer /\ job'.invalid = job.invalid
      /\ job'.version = job.version + 1
  BY <1>4 DEF Job
<1> QED
  BY <1>1, <1>2, <1>4, <1>5 DEF IsCopy, d

(* What a step does to the copies of the job: version counts the steps     *)
(* that change the job.                                                    *)
LEMMA JobTypesStep ==
    ASSUME JobTypes, Next
    PROVE  JobTypes'
<1>1. UNCHANGED given
  BY JobSteps
<1>2. IsCopy(job)'
  <2>1. CASE UNCHANGED job
    BY <1>1, <2>1 DEF JobTypes, IsCopy
  <2>2. CASE Begun /\ Known /\ Stores(Defaulted(seen.spec), job.finalizer \/ HasDependence(Defaulted(seen.spec)))
    <3>1. (job.finalizer \/ HasDependence(Defaulted(seen.spec))) \in BOOLEAN
      BY Zenon DEF JobTypes, IsCopy
    <3>2. given \in Submissions /\ IsCopy(job) /\ seen = job /\ Known
      BY <2>2 DEF JobTypes, Stores
    <3> QED
      BY <1>1, <2>2, <3>1, <3>2, StoredType
  <2>3. CASE Invalidates
    BY <1>1, <2>3, InvalidatedType DEF JobTypes
  <2>4. CASE \E r \in Roles, n \in Sizes : Scales(r, n)
    BY <1>1, <2>4, ScaledType DEF JobTypes
  <2> QED
    BY <2>1, <2>2, <2>3, <2>4, JobSteps
<1>3. IsCopy(seen)'
  <2>1. UNCHANGED seen \/ seen' = job
    BY JobSteps
  <2> QED
    BY <1>1, <2>1 DEF JobTypes, IsCopy
<1>4. queued' \in BOOLEAN /\ up' \in BOOLEAN
  BY FlagTypes DEF JobTypes
<1>5. updates' \in Nat
  <2>1. updates' = updates \/ updates' = updates + 1
    BY JobSteps DEF Stores, Invalidates, Scales
  <2> QED
    BY <2>1 DEF JobTypes
<1>6. /\ scaled' \in Seq(Roles) /\ faults' \in Nat /\ lost' \in Nat
      /\ Len(scaled') + faults' + lost' <= MaxDisturb(given)
  <2>1. /\ scaled \in Seq(Roles) /\ faults \in Nat /\ lost \in Nat /\ MaxDisturb(given) \in Nat
        /\ Len(scaled) + faults + lost <= MaxDisturb(given)
    BY GivenType DEF JobTypes, Disturbances
  <2>2. Len(scaled) \in Nat
    BY <2>1
  <2>3. ASSUME NEW r \in Roles, scaled' = Append(scaled, r)
        PROVE  scaled' \in Seq(Roles) /\ Len(scaled') = Len(scaled) + 1
    BY <2>1, <2>3
  <2>4. \/ UNCHANGED <<scaled, faults, lost>>
        \/ /\ Len(scaled) + faults + lost < MaxDisturb(given)
           /\ \/ faults' = faults + 1 /\ UNCHANGED <<scaled, lost>>
              \/ lost' = lost + 1 /\ UNCHANGED <<scaled, faults>>
              \/ /\ scaled' \in Seq(Roles) /\ Len(scaled') = Len(scaled) + 1
                 /\ UNCHANGED <<faults, lost>>
    BY <2>3, CountSteps DEF Disturbances
  <2> QED
    BY <2>1, <2>2, <2>4
<1> QED
  BY <1>1, <1>2, <1>3, <1>4, <1>5, <1>6 DEF JobTypes, Disturbances

(* The numbers are well ordered, so that minimum and maximum exist. *)
LEMMA SmallestNat ==
    ASSUME NEW T \in SUBSET Nat, T # {}
    PROVE  \E x \in T : \A y \in T : x <= y
<1>1. \E x \in T : \A y \in T : ~ (<<y, x>> \in OpToRel(<, Nat))
  BY NatLessThanWellFounded, WFMin
<1>2. PICK x \in T : \A y \in T : ~ (<<y, x>> \in OpToRel(<, Nat))
  BY <1>1
<1>3. ASSUME NEW y \in T PROVE x <= y
  <2>1. <<y, x>> \in Nat \X Nat /\ <<y, x>>[1] = y /\ <<y, x>>[2] = x
    OBVIOUS
  <2>2. ~ (y < x)
    <3>1. SUFFICES ASSUME y < x PROVE <<y, x>> \in OpToRel(<, Nat)
      BY <1>2
    <3> DEFINE p == <<y, x>>
    <3>2. p \in Nat \X Nat /\ p[1] < p[2]
      BY <2>1, <3>1
    <3> HIDE DEF p
    <3>3. p \in OpToRel(<, Nat)
      BY <3>2 DEF OpToRel
    <3> QED
      BY <3>3 DEF p
  <2> QED
    BY <2>2
<1> QED
  BY <1>3

LEMMA MinOfNats ==
    ASSUME NEW T \in SUBSET Nat, T # {}
    PROVE  Min(T) \in T /\ \A y \in T : Min(T) <= y
  BY SmallestNat DEF Min

LEMMA MaxOfNats ==
    ASSUME NEW T \in SUBSET Nat, T # {}, NEW b \in Nat, \A y \in T : y <= b
    PROVE  Max(T) \in T /\ \A y \in T : y <= Max(T)
<1> DEFINE U == {u \in Nat : \A y \in T : y <= u}
<1>1. PICK u \in U : \A w \in U : u <= w
  BY SmallestNat
<1>2. u \in T
  <2>1. SUFFICES ASSUME u \notin T PROVE FALSE
    OBVIOUS
  <2>2. \A y \in T : y < u
    BY <2>1
  <2>3. PICK t \in T : t < u
    BY <2>2
  <2>4. u > 0 /\ u - 1 \in Nat /\ \A y \in T : y <= u - 1
    BY <2>2, <2>3
  <2> QED
    BY <1>1, <2>4
<1>3. \E x \in T : \A y \in T : x >= y
  BY <1>2
<1>4. Max(T) \in T /\ \A y \in T : Max(T) >= y
  BY <1>3 DEF Max
<1> QED
  BY <1>4

(* What ReconcilePods goes through. *)
LEMMA SliceSizes ==
    ASSUME JobTypes, PodTypes, Valid(seen.spec), NEW r \in DOMAIN seen.spec.roles
    PROVE  /\ SliceSize(r) \in Nat /\ SliceSize(r) >= seen.spec.roles[r].replicas
           /\ seen.spec.roles[r].replicas \in Nat /\ seen.spec.roles[r].replicas > 0
           /\ Indexes(r) \subseteq Nat /\ \A i \in Indexes(r) : i < SliceSize(r)
           /\ SliceSize(r) = seen.spec.roles[r].replicas \/ SliceSize(r) - 1 \in Indexes(r)
           /\ Missing(r) \subseteq 0 .. (SliceSize(r) - 1)
           /\ Missing(r) \subseteq Nat
<1> DEFINE n == seen.spec.roles[r].replicas
           T == {n} \union {i + 1 : i \in Indexes(r)}
<1>1. n \in Nat /\ n > 0
  <2>1. IsDefinition(seen.spec, Roles)
    BY DEF JobTypes, IsCopy
  <2> QED
    BY <2>1, ValidReplicas
<1>2. Indexes(r) \subseteq Nat
  BY DEF PodTypes, Indexes, PodsOf
<1>3. PICK b \in Nat : \A p \in PodsOf(r) : p.index < b
  BY DEF PodTypes, JobTypes, IsCopy
<1>4. \A i \in Indexes(r) : i + 1 <= b
  BY <1>2, <1>3 DEF Indexes
<1> HIDE DEF n
<1>5. T \in SUBSET Nat /\ T # {} /\ n + b \in Nat /\ \A y \in T : y <= n + b
  BY <1>1, <1>2, <1>4
<1>6. Max(T) \in T /\ \A y \in T : y <= Max(T)
  <2> HIDE DEF T
  <2> QED
    BY <1>5, MaxOfNats
<1>7. SliceSize(r) = Max(T)
  BY DEF SliceSize, n
<1>8. Missing(r) \subseteq 0 .. (SliceSize(r) - 1)
  BY DEF Missing
<1>9. /\ Max(T) \in Nat /\ Max(T) >= n /\ \A i \in Indexes(r) : i < Max(T)
      /\ Max(T) = n \/ \E i \in Indexes(r) : Max(T) = i + 1
  <2> DEFINE M == Max(T)
  <2> HIDE DEF M
  <2>1. M \in T /\ \A y \in T : y <= M
    BY <1>6 DEF M
  <2>2. M \in Nat /\ n <= M /\ \A i \in Indexes(r) : i + 1 <= M
    BY <1>5, <2>1
  <2>3. M = n \/ \E i \in Indexes(r) : M = i + 1
    BY <2>1
  <2>4. M >= n /\ \A i \in Indexes(r) : i < M
    BY <1>1, <1>2, <2>2
  <2> QED
    BY <2>2, <2>3, <2>4 DEF M
<1> HIDE DEF T
<1>10. Max(T) = n \/ Max(T) - 1 \in Indexes(r)
  BY <1>2, <1>9
<1> QED
  BY <1>1, <1>2, <1>7, <1>8, <1>9, <1>10 DEF n

(* What a step does to the pods and services. *)
LEMMA PodSteps ==
    ASSUME Next
    PROVE  \/ UNCHANGED <<pods, services>>
           \/ /\ Accepted /\ seen.spec.framework # "demo" /\ UNCHANGED <<scaled, seen, started>>
              /\ \E rs \in SUBSET DOMAIN seen.spec.roles : \E stopped \in SUBSET DOMAIN seen.spec.roles :
                    /\ \A r \in rs : Outcome(r) = "done"
                    /\ ReconcileRoles(rs, stopped)
           \/ UNCHANGED services /\ \E p \in pods : LosePod(p) /\ pods' = pods \ {p}
<1>1. CASE ReconcileJobs
  <2>1. {} \in SUBSET DOMAIN seen.spec.roles
    OBVIOUS
  <2> QED
    BY <1>1, <2>1 DEF ReconcileJobs, events
<1>2. CASE \E r \in DOMAIN seen.spec.roles : ReconcileJobsStops(r)
  <2>1. PICK r \in DOMAIN seen.spec.roles : ReconcileJobsStops(r)
    BY <1>2
  <2>2. PICK others \in SUBSET (DOMAIN seen.spec.roles \ {r}) :
          /\ \A o \in others : Outcome(o) = "done"
          /\ ReconcileRoles(others, {r})
    BY <2>1 DEF ReconcileJobsStops
  <2>3. /\ others \in SUBSET DOMAIN seen.spec.roles /\ {r} \in SUBSET DOMAIN seen.spec.roles
        /\ Accepted /\ seen.spec.framework # "demo" /\ UNCHANGED <<scaled, seen, started>>
    BY <2>1 DEF ReconcileJobsStops
  <2> QED
    BY <2>2, <2>3
<1>3. CASE \E p \in pods : LosePod(p)
  BY <1>3 DEF LosePod
<1>4. CASE \/ StoreDefaults \/ Reject \/ Ignore \/ SetDefaultCrashes \/ ReconcileDemo
           \/ (\E r \in Roles : RoleStarts(r)) \/ Resync \/ Deliver \/ Restart
           \/ (\E r \in Roles, n \in Sizes : ScaleRole(r, n))
  BY <1>4 DEF StoreDefaults, Reject, Ignore, SetDefaultCrashes, ReconcileDemo, RoleStarts, Resync,
              Deliver, Restart, ScaleRole
<1> QED
  BY <1>1, <1>2, <1>3, <1>4 DEF Next, Reconcile

(* A pod is created for an index that misses one, and only if nothing      *)
(* stops it.                                                               *)
LEMMA NewPods ==
    ASSUME JobTypes, PodTypes, Valid(seen.spec),
           NEW rs \in SUBSET DOMAIN seen.spec.roles, NEW stopped \in SUBSET DOMAIN seen.spec.roles,
           ReconcileRoles(rs, stopped), NEW m \in pods', m \notin pods
    PROVE  \E r \in rs \union stopped : \E i \in Missing(r) :
                m = CreateNewPod(r, i) /\ Creation(r, i) = "done"
<1>1. PICK r \in rs \union stopped : m \in ReconcilePods(r)
  BY DEF ReconcileRoles
<1>2. PICK i \in Missing(r) : /\ m = CreateNewPod(r, i)
                              /\ i < IF Halting(r) # {} THEN Min(Halting(r)) ELSE SliceSize(r)
  BY <1>1 DEF ReconcilePods, PodsOf
<1>3. Creation(r, i) = "done"
  <2>1. SUFFICES ASSUME i \in Halting(r) PROVE FALSE
    BY DEF Halting
  <2>2. Halting(r) \in SUBSET Nat
    BY SliceSizes DEF Halting
  <2>3. Min(Halting(r)) <= i /\ Min(Halting(r)) \in Nat /\ i \in Nat
    BY <2>1, <2>2, MinOfNats
  <2> QED
    BY <1>2, <2>1, <2>3
<1> QED
  BY <1>1, <1>2, <1>3

(* A step lets at most one role start. *)
LEMMA StartSteps ==
    ASSUME Next
    PROVE  \/ UNCHANGED started
           \/ \E r \in Roles : RoleStarts(r)
<1>1. CASE StoreDefaults \/ Reject \/ \E r \in DOMAIN seen.spec.roles : ReconcileJobsStops(r)
  BY <1>1 DEF StoreDefaults, Reject, ReconcileJobsStops
<1>2. CASE \/ Ignore \/ SetDefaultCrashes \/ ReconcileDemo \/ ReconcileJobs \/ Resync \/ Deliver
           \/ Restart \/ (\E r \in Roles, n \in Sizes : ScaleRole(r, n)) \/ (\E p \in pods : LosePod(p))
  BY <1>2 DEF Ignore, SetDefaultCrashes, ReconcileDemo, ReconcileJobs, Resync, Deliver, Restart,
              ScaleRole, LosePod
<1> QED
  BY <1>1, <1>2 DEF Next, Reconcile

LEMMA PodTypesStep ==
    ASSUME JobTypes, PodTypes, Next
    PROVE  PodTypes'
<1>1. UNCHANGED given /\ DOMAIN seen.spec.roles = DOMAIN given.roles /\ DOMAIN job.spec.roles = DOMAIN given.roles
  BY JobSteps DEF JobTypes, IsCopy
<1>2. CASE pods' \subseteq pods /\ UNCHANGED services
  <2>1. started' \subseteq DOMAIN given.roles
    BY <1>1, StartSteps DEF RoleStarts, PodTypes
  <2>2. ASSUME NEW r \in DOMAIN given.roles PROVE \E b \in Nat : \A p \in PodsOf(r)' : p.index < b
    <3>1. PICK b \in Nat : \A p \in PodsOf(r) : p.index < b
      BY DEF PodTypes
    <3>2. PodsOf(r)' \subseteq PodsOf(r)
      BY <1>2 DEF PodsOf
    <3> QED
      BY <3>1, <3>2
  <2> QED
    BY <1>1, <1>2, <2>1, <2>2 DEF PodTypes
<1>3. CASE /\ Accepted /\ UNCHANGED started
           /\ \E rs \in SUBSET DOMAIN seen.spec.roles : \E stopped \in SUBSET DOMAIN seen.spec.roles :
                 ReconcileRoles(rs, stopped)
  <2>1. PICK rs \in SUBSET DOMAIN seen.spec.roles : \E stopped \in SUBSET DOMAIN seen.spec.roles :
                 ReconcileRoles(rs, stopped)
    BY <1>3
  <2>2. PICK stopped \in SUBSET DOMAIN seen.spec.roles : ReconcileRoles(rs, stopped)
    BY <2>1
  <2>3. Valid(seen.spec)
    BY <1>3 DEF Accepted
  <2>4. ASSUME NEW m \in pods', m \notin pods
        PROVE  /\ m.role \in DOMAIN seen.spec.roles /\ m.index \in Nat
               /\ m.index < SliceSize(m.role)
    <3>1. PICK r \in rs \union stopped : \E i \in Missing(r) :
                m = CreateNewPod(r, i) /\ Creation(r, i) = "done"
      BY <2>2, <2>3, <2>4, NewPods
    <3>2. PICK i \in Missing(r) : m = CreateNewPod(r, i)
      BY <3>1
    <3>3. m.role = r /\ m.index = i
      BY <3>2 DEF CreateNewPod
    <3>4. SliceSize(r) \in Nat /\ Missing(r) \subseteq 0 .. (SliceSize(r) - 1) /\ Missing(r) \subseteq Nat
      BY <2>3, SliceSizes
    <3> QED
      BY <3>3, <3>4
  <2>5. \A m \in pods' : m.role \in DOMAIN given.roles /\ m.index \in Nat
    BY <1>1, <2>4 DEF PodTypes
  <2>6. ASSUME NEW r \in DOMAIN given.roles PROVE \E b \in Nat : \A p \in PodsOf(r)' : p.index < b
    <3>1. PICK b \in Nat : \A p \in PodsOf(r) : p.index < b
      BY DEF PodTypes
    <3>2. SliceSize(r) \in Nat
      BY <1>1, <2>3, SliceSizes
    <3>3. ASSUME NEW m \in PodsOf(r)' PROVE m.index < b + SliceSize(r)
      <4>1. m \in pods' /\ m.role = r /\ m.index \in Nat
        BY <2>5 DEF PodsOf
      <4>2. CASE m \in pods
        <5>1. m.index < b
          BY <3>1, <4>1, <4>2 DEF PodsOf
        <5> QED
          BY <3>2, <4>1, <5>1
      <4>3. CASE m \notin pods
        <5>1. m.index < SliceSize(r)
          BY <2>4, <4>1, <4>3
        <5> QED
          BY <3>2, <4>1, <5>1
      <4> QED
        BY <4>2, <4>3
    <3>4. b + SliceSize(r) \in Nat
      BY <3>2
    <3> QED
      BY <3>3, <3>4
  <2>7. services' \subseteq DOMAIN given.roles
    BY <1>1, <2>2 DEF ReconcileRoles, PodTypes
  <2> QED
    BY <1>1, <1>3, <2>5, <2>6, <2>7 DEF PodTypes
<1> QED
  BY <1>2, <1>3, PodSteps

(* A settled definition is not stored again, and scaling leaves it so. *)
LEMMA StoredIsSettledStep ==
    ASSUME JobTypes, StoredIsSettled, Next
    PROVE  StoredIsSettled'
<1>1. /\ updates \in Nat /\ scaled \in Seq(Roles) /\ Len(scaled) \in Nat
      /\ job.version \in Nat /\ seen.version \in Nat
  BY DEF JobTypes, IsCopy
<1>2. CASE UNCHANGED <<job, updates, scaled>>
  <2>1. UNCHANGED seen \/ seen' = job
    BY JobSteps
  <2> QED
    BY <1>1, <1>2, <2>1 DEF StoredIsSettled
<1>3. CASE /\ Begun /\ Known /\ ~SetDefaultPanics(seen.spec) /\ ~Settled /\ UNCHANGED <<scaled, seen>>
           /\ Stores(Defaulted(seen.spec), job.finalizer \/ HasDependence(Defaulted(seen.spec)))
  <2>1. given \in Submissions /\ IsCopy(job) /\ seen = job /\ ~job.invalid /\ updates' = updates + 1
    BY <1>3 DEF JobTypes, Stores
  <2>2. (job.finalizer \/ HasDependence(Defaulted(seen.spec))) \in BOOLEAN
    BY Zenon DEF JobTypes, IsCopy
  <2>3. UNCHANGED given
    BY JobSteps
  <2>4. /\ IsSettled(job'.spec) /\ job'.version = job.version + 1 /\ job'.invalid = FALSE
    BY <1>3, <2>1, <2>2, <2>3, StoredType
  <2>5. updates = 0
    <3>1. SUFFICES ASSUME updates = 1 PROVE FALSE
      BY <1>1 DEF StoredIsSettled
    <3>2. IsSettled(job.spec)
      BY <3>1 DEF StoredIsSettled
    <3>3. IsDefinition(job.spec, Roles) /\ FrameworkRoles \subseteq Roles /\ job.spec.framework \in Registered
      BY <1>3, <2>1, RolesAssumption DEF IsCopy, Known
    <3>4. Defaulted(job.spec) = job.spec
      BY <3>2, <3>3, SettledIsFixed
    <3> QED
      BY <1>3, <2>1, <3>4 DEF Settled
  <2>6. /\ UNCHANGED <<scaled, seen>>
        /\ job.version = Len(scaled) /\ seen.version = job.version
    BY <1>1, <1>3, <2>1, <2>5 DEF StoredIsSettled
  <2> QED
    BY <1>1, <2>1, <2>4, <2>5, <2>6 DEF StoredIsSettled
<1>4. CASE Invalidates /\ UNCHANGED <<scaled, seen>>
  <2>1. job'.spec = job.spec /\ job'.version = job.version + 1 /\ job'.invalid = TRUE /\ ~job.invalid
    BY <1>4, InvalidatedType, JobSteps DEF JobTypes, Invalidates
  <2>2. UNCHANGED <<scaled, seen, updates>>
    BY <1>4 DEF Invalidates
  <2>3. job.version = updates + Len(scaled)
    <3>1. (IF job.invalid THEN 1 ELSE 0) = 0
      BY <2>1
    <3> QED
      BY <1>1, <3>1 DEF StoredIsSettled
  <2> QED
    BY <1>1, <2>1, <2>2, <2>3 DEF StoredIsSettled
<1>5. CASE (\E r \in Roles, n \in Sizes : Scales(r, n)) /\ UNCHANGED seen
  <2>1. PICK r \in Roles : \E n \in Sizes : Scales(r, n)
    BY <1>5
  <2>2. PICK n \in Sizes : Scales(r, n)
    BY <2>1
  <2>3. IsCopy(job) /\ UNCHANGED given /\ n \in Nat
    BY JobSteps, SizesAssumption DEF JobTypes
  <2>4. /\ job'.spec = Scaled(job.spec, r, n) /\ r \in DOMAIN job.spec.roles
        /\ job'.version = job.version + 1 /\ job'.invalid = job.invalid
    BY <2>2, <2>3, ScaledType
  <2>5. IsDefinition(job.spec, Roles)
    BY <2>3 DEF IsCopy
  <2>6. SameButReplicas(job.spec, job'.spec)
    BY <2>3, <2>4, <2>5, ScaledIsSame
  <2>7. updates = 1 => IsSettled(job'.spec)
    BY <2>6, SameStaysSettled DEF StoredIsSettled
  <2>8. Len(scaled') = Len(scaled) + 1 /\ UNCHANGED <<updates, seen>>
    BY <1>1, <1>5, <2>2 DEF Scales
  <2>9. (IF job'.invalid THEN 1 ELSE 0) = IF job.invalid THEN 1 ELSE 0
    BY <2>4
  <2> QED
    BY <1>1, <2>4, <2>7, <2>8, <2>9 DEF StoredIsSettled
<1> QED
  BY <1>2, <1>3, <1>4, <1>5, JobSteps

DefinitionInv == JobTypes /\ PodTypes /\ StoredIsSettled

LEMMA DefinitionInvHolds == Spec => []DefinitionInv
<1>1. Init => DefinitionInv
  <2> SUFFICES ASSUME Init PROVE DefinitionInv
    OBVIOUS
  <2>1. given \in Submissions /\ IsDefinition(given, Roles) /\ MaxDisturb(given) \in Nat
    BY GivenType DEF Init
  <2>2. /\ job = Job(given, FALSE, FALSE, 0) /\ seen = job
        /\ job.spec = given /\ job.finalizer = FALSE /\ job.invalid = FALSE /\ job.version = 0
    BY DEF Init, Job
  <2>3. IsCopy(job) /\ IsCopy(seen)
    <3>1. job = Job(job.spec, job.finalizer, job.invalid, job.version)
      BY <2>2, Zenon
    <3>2. FALSE \in BOOLEAN /\ 0 \in Nat
      OBVIOUS
    <3>3. job.finalizer \in BOOLEAN /\ job.invalid \in BOOLEAN /\ job.version \in Nat
      BY <2>2, <3>2, Zenon
    <3> QED
      BY <2>1, <2>2, <3>1, <3>3, Zenon DEF IsCopy
  <2>4. scaled = <<>> /\ faults = 0 /\ lost = 0 /\ updates = 0 /\ Len(scaled) = 0 /\ scaled \in Seq(Roles)
    BY DEF Init
  <2>5. JobTypes
    <3>1. Disturbances <= MaxDisturb(given) /\ 0 \in Nat
      BY <2>1, <2>4 DEF Disturbances
    <3>2. queued \in BOOLEAN /\ up \in BOOLEAN
      BY Zenon DEF Init
    <3> QED
      BY <2>1, <2>3, <2>4, <3>1, <3>2, Zenon DEF JobTypes
  <2>6. PodTypes
    BY DEF PodTypes, PodsOf, Init
  <2>7. StoredIsSettled
    <3>1. (IF job.invalid THEN 1 ELSE 0) = 0 /\ job.version = 0 /\ seen.version = 0
      BY <2>2, Zenon
    <3> QED
      BY <2>4, <3>1 DEF StoredIsSettled
  <2> QED
    BY <2>5, <2>6, <2>7 DEF DefinitionInv
<1>2. DefinitionInv /\ [Next]_vars => DefinitionInv'
  <2>1. CASE UNCHANGED vars
    BY <2>1 DEF DefinitionInv, JobTypes, PodTypes, PodsOf, StoredIsSettled, IsCopy, Disturbances, vars
  <2>2. CASE Next
    BY <2>2, JobTypesStep, PodTypesStep, StoredIsSettledStep DEF DefinitionInv
  <2> QED
    BY <2>1, <2>2
<1> QED
  BY <1>1, <1>2, PTL DEF Spec

(* The variables of JobDefinition keep their types: however defaults,      *)
(* scaling and refused writes are interleaved, the definition stays one,   *)
(* with the roles of the one submitted.                                    *)
THEOREM DefinitionTypeCorrect == Spec => []TypeOK
<1>1. DefinitionInv => TypeOK
  <2> SUFFICES ASSUME DefinitionInv PROVE TypeOK
    OBVIOUS
  <2>1. JobTypes /\ PodTypes /\ StoredIsSettled /\ MaxDisturb(given) \in Nat
    BY GivenType DEF DefinitionInv, JobTypes
  <2>2. /\ updates \in Nat /\ Len(scaled) \in Nat /\ faults \in Nat /\ lost \in Nat
        /\ job.version \in Nat /\ seen.version \in Nat
        /\ Len(scaled) + faults + lost <= MaxDisturb(given)
        /\ updates <= 1 /\ seen.version <= job.version
        /\ job.version = updates + Len(scaled) + (IF job.invalid THEN 1 ELSE 0)
    BY <2>1 DEF JobTypes, IsCopy, StoredIsSettled, Disturbances
  <2>3. /\ job.version \in 0 .. (2 + MaxDisturb(given)) /\ seen.version \in 0 .. (2 + MaxDisturb(given))
        /\ Disturbances \in 0 .. MaxDisturb(given)
    BY <2>1, <2>2 DEF Disturbances
  <2> QED
    BY <2>1, <2>3 DEF TypeOK, JobTypes, IsCopy, PodTypes
<1> QED
  BY <1>1, DefinitionInvHolds, PTL

(* Once setDefault has stored a definition, the stored one has nothing     *)
(* left that the defaults of its framework would change, however its roles *)
(* are scaled.                                                             *)
THEOREM StoredStaysSettled == Spec => []StoredIsSettled
  BY DefinitionInvHolds, PTL DEF DefinitionInv

(* setDefault stores a definition once: what it stored is a fixed point of *)
(* the defaults of every framework, and scaling a role does not unsettle   *)
(* it, so that a later reconcile, from whatever copy, has nothing to store.*)
THEOREM DefaultsAreStoredOnce == Spec => []DefaultsSettle
  BY DefinitionInvHolds, PTL DEF DefinitionInv, StoredIsSettled, DefaultsSettle

-----------------------------------------------------------------------------
(* Jobs of which no role was scaled *)

(* What the job comes to, and its pods. *)
Target == Defaulted(given)
PodOf(r, i) ==
    [role |-> r, index |-> i, env |-> SetClusterSpec(Target, r, i),
     waits |-> Target.roles[r].dependence.on]

LEMMA TargetType ==
    ASSUME given \in Submissions, given.framework \in Registered
    PROVE  /\ IsDefinition(Target, Roles) /\ Target.framework = given.framework
           /\ DOMAIN Target.roles = DOMAIN given.roles /\ Defaulted(Target) = Target
           /\ given.option = "on" => Target.option = "on"
<1>1. IsDefinition(given, Roles) /\ FrameworkRoles \subseteq Roles
  BY GivenType
<1>2. /\ IsDefinition(Target, Roles) /\ Target.framework = given.framework
      /\ Target.option = FrameworkOption(given) /\ DOMAIN Target.roles = DOMAIN given.roles
  BY <1>1, DefaultedFields DEF Target
<1>3. IsSettled(Target)
  BY <1>1, DefaultedSettles DEF Target
<1>4. Defaulted(Target) = Target
  BY <1>1, <1>2, <1>3, SettledIsFixed
<1>5. given.option = "on" => FrameworkOption(given) = "on"
  BY DEF FrameworkOption
<1> QED
  BY <1>2, <1>4, <1>5

(* The copies of the job are as submitted or have their defaults, and the  *)
(* stored one has them if the informer's has.                              *)
CopiesOfGiven ==
    Unscaled /\ given.framework \in Registered =>
        /\ job.spec \in {given, Target} /\ seen.spec \in {given, Target}
        /\ (seen.spec = Target => job.spec = Target)

(* Every pod is one of the definition with its defaults. *)
PodsOfGiven ==
    Unscaled => \A p \in pods :
        /\ given.framework \in Registered /\ Valid(Target) /\ job.spec = Target
        /\ p.role \in DOMAIN given.roles /\ p.index \in 0 .. (Target.roles[p.role].replicas - 1)
        /\ p = PodOf(p.role, p.index)

LEMMA StaysUnscaled ==
    ASSUME JobTypes, Next, Unscaled'
    PROVE  Unscaled /\ ~(\E r \in Roles, n \in Sizes : Scales(r, n))
<1>1. ASSUME NEW r, scaled' = Append(scaled, r) PROVE FALSE
  BY <1>1 DEF JobTypes, Unscaled
<1>2. ~(\E r \in Roles, n \in Sizes : Scales(r, n))
  BY <1>1 DEF Scales
<1> QED
  BY <1>2, JobSteps DEF Unscaled

LEMMA CopiesOfGivenStep ==
    ASSUME JobTypes, CopiesOfGiven, Next
    PROVE  CopiesOfGiven'
<1> SUFFICES ASSUME Unscaled', given.framework \in Registered PROVE CopiesOfGiven'
  BY JobSteps DEF CopiesOfGiven
<1>1. UNCHANGED given /\ Target' = Target
  BY JobSteps DEF Target
<1>2. /\ job.spec \in {given, Target} /\ seen.spec \in {given, Target}
      /\ (seen.spec = Target => job.spec = Target)
  BY StaysUnscaled DEF CopiesOfGiven
<1>3. Defaulted(given) = Target /\ Defaulted(Target) = Target
  BY TargetType DEF Target, JobTypes
<1>4. ~\E r \in Roles, n \in Sizes : Scales(r, n)
  BY StaysUnscaled
<1>5. job'.spec = job.spec \/ job'.spec = Target
  <2>1. CASE seen = job /\ job' = Job(Defaulted(seen.spec), job.finalizer \/ HasDependence(Defaulted(seen.spec)), FALSE, job.version + 1)
    BY <1>2, <1>3, <2>1 DEF Job
  <2>2. CASE Invalidates
    BY <1>1, <2>2, InvalidatedType DEF JobTypes
  <2>3. CASE UNCHANGED job
    BY <2>3
  <2> QED
    BY <1>4, <2>1, <2>2, <2>3, JobSteps DEF Stores
<1>6. UNCHANGED seen \/ (seen' = job /\ UNCHANGED job)
  BY JobSteps
<1> QED
  BY <1>1, <1>2, <1>5, <1>6 DEF CopiesOfGiven

(* What is settled of an unscaled job is the definition with its defaults. *)
LEMMA SettledIsTarget ==
    ASSUME JobTypes, CopiesOfGiven, Unscaled, Settled
    PROVE  given.framework \in Registered /\ seen.spec = Target /\ job.spec = Target
<1>1. given.framework \in Registered /\ Defaulted(seen.spec) = seen.spec
  BY DEF JobTypes, IsCopy, Settled, Known
<1>2. seen.spec = given => seen.spec = Target
  BY <1>1 DEF Target
<1> QED
  BY <1>1, <1>2 DEF CopiesOfGiven

LEMMA TargetStays ==
    ASSUME JobTypes, Next, Unscaled', job.spec = Target, given.framework \in Registered
    PROVE  job'.spec = Target
<1>1. CASE job'.spec = job.spec
  BY <1>1
<1>2. CASE seen = job /\ job' = Job(Defaulted(seen.spec), job.finalizer \/ HasDependence(Defaulted(seen.spec)), FALSE, job.version + 1)
  BY <1>2, TargetType DEF Job, JobTypes
<1>3. Invalidates => job'.spec = job.spec
  BY InvalidatedType, JobSteps DEF JobTypes
<1>4. ~\E r \in Roles, n \in Sizes : Scales(r, n)
  BY StaysUnscaled
<1> QED
  BY <1>1, <1>2, <1>3, <1>4, JobSteps DEF Stores

(* No pod of an unscaled job is beyond the replicas. *)
LEMMA UnscaledSlices ==
    ASSUME JobTypes, PodTypes, PodsOfGiven, Unscaled, Valid(seen.spec), seen.spec = Target,
           NEW r \in DOMAIN seen.spec.roles
    PROVE  /\ SliceSize(r) = Target.roles[r].replicas
           /\ Target.roles[r].replicas \in Nat /\ Target.roles[r].replicas > 0
           /\ Missing(r) \subseteq 0 .. (Target.roles[r].replicas - 1)
           /\ Indexes(r) \subseteq 0 .. (Target.roles[r].replicas - 1)
<1>1. ASSUME NEW i \in Indexes(r) PROVE i \in 0 .. (Target.roles[r].replicas - 1)
  BY <1>1 DEF Indexes, PodsOf, PodsOfGiven
<1>2. /\ SliceSize(r) \in Nat /\ SliceSize(r) >= Target.roles[r].replicas
      /\ Target.roles[r].replicas \in Nat /\ Target.roles[r].replicas > 0
      /\ SliceSize(r) = Target.roles[r].replicas \/ SliceSize(r) - 1 \in Indexes(r)
      /\ Missing(r) \subseteq 0 .. (SliceSize(r) - 1)
  BY SliceSizes
<1>3. SliceSize(r) = Target.roles[r].replicas
  BY <1>1, <1>2
<1> QED
  BY <1>1, <1>2, <1>3

LEMMA PodsOfGivenStep ==
    ASSUME JobTypes, PodTypes, CopiesOfGiven, PodsOfGiven, Next
    PROVE  PodsOfGiven'
<1> SUFFICES ASSUME Unscaled', NEW m \in pods'
             PROVE  /\ given.framework \in Registered /\ Valid(Target) /\ job'.spec = Target
                    /\ m.role \in DOMAIN given.roles
                    /\ m.index \in 0 .. (Target.roles[m.role].replicas - 1)
                    /\ m = PodOf(m.role, m.index)
  BY JobSteps DEF PodsOfGiven, Target, PodOf
<1>1. Unscaled
  BY StaysUnscaled
<1>2. ASSUME job.spec = Target, given.framework \in Registered PROVE job'.spec = Target
  BY <1>2, TargetStays
<1>3. CASE m \in pods
  BY <1>1, <1>2, <1>3 DEF PodsOfGiven
<1>4. CASE m \notin pods
  <2>1. /\ Accepted
        /\ \E rs \in SUBSET DOMAIN seen.spec.roles : \E stopped \in SUBSET DOMAIN seen.spec.roles :
              ReconcileRoles(rs, stopped)
    BY <1>4, PodSteps
  <2>2. PICK rs \in SUBSET DOMAIN seen.spec.roles : \E stopped \in SUBSET DOMAIN seen.spec.roles :
              ReconcileRoles(rs, stopped)
    BY <2>1
  <2>3. PICK stopped \in SUBSET DOMAIN seen.spec.roles : ReconcileRoles(rs, stopped)
    BY <2>2
  <2>4. given.framework \in Registered /\ seen.spec = Target /\ job.spec = Target /\ Valid(Target)
    BY <1>1, <2>1, SettledIsTarget DEF Accepted
  <2>5. PICK r \in rs \union stopped : \E i \in Missing(r) :
                m = CreateNewPod(r, i) /\ Creation(r, i) = "done"
    BY <1>4, <2>3, <2>4, NewPods
  <2>6. PICK i \in Missing(r) : m = CreateNewPod(r, i)
    BY <2>5
  <2>7. m = PodOf(r, i) /\ m.role = r /\ m.index = i
    BY <2>4, <2>6 DEF CreateNewPod, PodOf
  <2>8. r \in DOMAIN given.roles
    BY DEF JobTypes, IsCopy
  <2>9. i \in 0 .. (Target.roles[r].replicas - 1)
    BY <1>1, <2>4, UnscaledSlices
  <2> QED
    BY <1>2, <2>4, <2>7, <2>8, <2>9
<1> QED
  BY <1>3, <1>4

UnscaledInv == DefinitionInv /\ CopiesOfGiven /\ PodsOfGiven

LEMMA UnscaledInvHolds == Spec => []UnscaledInv
<1>1. Init => CopiesOfGiven /\ PodsOfGiven
  BY DEF Init, CopiesOfGiven, PodsOfGiven, Job
<1>2. DefinitionInv /\ CopiesOfGiven /\ PodsOfGiven /\ [Next]_vars => CopiesOfGiven' /\ PodsOfGiven'
  <2>1. CASE UNCHANGED vars
    BY <2>1 DEF CopiesOfGiven, PodsOfGiven, Unscaled, Target, PodOf, vars
  <2>2. CASE Next
    BY <2>2, CopiesOfGivenStep, PodsOfGivenStep DEF DefinitionInv
  <2> QED
    BY <2>1, <2>2
<1> QED
  BY <1>1, <1>2, DefinitionInvHolds, PTL DEF Spec, UnscaledInv

(* In a job of which no role was scaled, whatever was lost, refused and    *)
(* read late, no two pods of a world have the same rank, and no rank is    *)
(* outside of it: they were all told what the one definition says that     *)
(* Validate accepted.                                                      *)
THEOREM RanksStayDistinct == Spec => []RanksAreDistinct
<1>1. UnscaledInv => RanksAreDistinct
  <2> SUFFICES ASSUME UnscaledInv, Unscaled, NEW p \in pods, NEW q \in pods,
                      p.env.rank # Unset, p.role \in Ranked, q.env.rank # Unset, q.role \in Ranked
               PROVE  p.env.rank < p.env.world /\ (p # q => p.env.rank # q.env.rank)
    BY DEF RanksAreDistinct
  <2>1. /\ given.framework \in Registered /\ Valid(Target)
        /\ p.role \in DOMAIN given.roles /\ p.index \in 0 .. (Target.roles[p.role].replicas - 1)
        /\ q.role \in DOMAIN given.roles /\ q.index \in 0 .. (Target.roles[q.role].replicas - 1)
        /\ p = PodOf(p.role, p.index) /\ q = PodOf(q.role, q.index)
    BY DEF UnscaledInv, PodsOfGiven
  <2>2. /\ IsDefinition(Target, Roles) /\ Target.framework = given.framework
        /\ DOMAIN Target.roles = DOMAIN given.roles
    BY <2>1, TargetType DEF UnscaledInv, DefinitionInv, JobTypes
  <2>3. /\ p.env = SetClusterSpec(Target, p.role, p.index)
        /\ q.env = SetClusterSpec(Target, q.role, q.index)
    BY <2>1 DEF PodOf
  <2>4. HasRanks(Target)
    BY <2>1, <2>2, <2>3, OthersHaveNoRank
  <2>5. /\ p.role \in DOMAIN Target.roles \intersect RankedRoles(Target.framework)
        /\ q.role \in DOMAIN Target.roles \intersect RankedRoles(Target.framework)
    BY <2>1, <2>2 DEF Ranked, RankedRoles
  <2>6. /\ p.env.rank < p.env.world
        /\ p.env.rank = q.env.rank => p.role = q.role /\ p.index = q.index
    BY <2>1, <2>2, <2>3, <2>4, <2>5, RanksDiffer
  <2> QED
    BY <2>1, <2>6
<1> QED
  BY <1>1, UnscaledInvHolds, PTL

(* In an elastic bagua job of which no role was scaled every worker and    *)
(* etcd keeps ports of its own, for any number of workers and ports that   *)
(* Validate accepts.                                                       *)
THEOREM PortsStayDisjoint == Spec => []PortsAreDisjoint
<1>1. UnscaledInv => PortsAreDisjoint
  <2> SUFFICES ASSUME UnscaledInv, Unscaled, given.framework = "bagua", given.option = "on",
                      NEW p \in PodsOf("worker") \union PodsOf("etcd"),
                      NEW q \in PodsOf("worker") \union PodsOf("etcd")
               PROVE  p.env.ports # {} /\ (p # q => p.env.ports \intersect q.env.ports = {})
    BY DEF PortsAreDisjoint
  <2>1. /\ p \in pods /\ q \in pods
        /\ p.role \in {"worker", "etcd"} /\ q.role \in {"worker", "etcd"}
    BY DEF PodsOf
  <2>2. /\ Valid(Target) /\ p.index \in 0 .. (Target.roles[p.role].replicas - 1)
        /\ q.index \in 0 .. (Target.roles[q.role].replicas - 1)
        /\ p = PodOf(p.role, p.index) /\ q = PodOf(q.role, q.index)
    BY <2>1 DEF UnscaledInv, PodsOfGiven
  <2>3. given.framework \in Registered /\ given \in Submissions
    BY DEF Registered, UnscaledInv, DefinitionInv, JobTypes
  <2>4. IsDefinition(Target, Roles) /\ Target.framework = "bagua" /\ Target.option = "on"
    BY <2>3, TargetType
  <2>5. /\ p.env = SetClusterSpec(Target, p.role, p.index)
        /\ q.env = SetClusterSpec(Target, q.role, q.index)
    BY <2>2 DEF PodOf
  <2>6. /\ p.env.ports # {}
        /\ p.role # q.role \/ p.index # q.index => p.env.ports \intersect q.env.ports = {}
    BY <2>1, <2>2, <2>4, <2>5, ElasticPortsDiffer
  <2> QED
    BY <2>2, <2>6
<1> QED
  BY <1>1, UnscaledInvHolds, PTL

-----------------------------------------------------------------------------
(* The policy of the job *)

(* Until it is stored, policy and option are those submitted, then those   *)
(* of SetDefault.                                                          *)
PolicyOfGiven ==
    /\ updates = 0 => job.spec.policy = given.policy /\ job.spec.option = given.option
    /\ updates = 1 => /\ given.framework \in Registered
                      /\ given.framework # "demo" => job.spec.option = FrameworkOption(given)
    /\ updates = 1 /\ ~given.policy.given /\ given.framework # "demo" =>
          /\ job.spec.policy.failed = Each(Failing(given))
          /\ job.spec.policy.succeeded = FrameworkSucceeded(given)
          /\ \A r \in Succeeding(given) \intersect DOMAIN given.roles :
                job.spec.roles[r].succeeded # "None"

LEMMA PolicyOfGivenStep ==
    ASSUME JobTypes, StoredIsSettled, PolicyOfGiven, Next
    PROVE  PolicyOfGiven'
<1>1. UNCHANGED given
  BY JobSteps
<1>2. CASE UNCHANGED <<job.spec, updates>>
  BY <1>1, <1>2 DEF PolicyOfGiven
<1>3. CASE Known /\ Stores(Defaulted(seen.spec), job.finalizer \/ HasDependence(Defaulted(seen.spec)))
  <2> DEFINE d == job.spec
             j == Defaulted(d)
  <2>1. updates' = updates + 1 /\ seen = job /\ job'.spec = j
    BY <1>3 DEF Stores, Job
  <2>2. updates = 0 /\ updates' = 1
    BY <2>1, StoredIsSettledStep DEF StoredIsSettled, JobTypes
  <2>3. /\ IsDefinition(d, Roles) /\ FrameworkRoles \subseteq Roles /\ d.framework \in Registered
        /\ d.framework = given.framework /\ DOMAIN d.roles = DOMAIN given.roles
    BY <1>3, <2>1, RolesAssumption DEF JobTypes, IsCopy, Known
  <2>4. d.policy = given.policy /\ d.option = given.option
    BY <2>2 DEF PolicyOfGiven
  <2> HIDE DEF d
  <2>5. /\ j.option = FrameworkOption(d)
        /\ d.framework # "demo" /\ ~d.policy.given =>
             j.policy.failed = Each(Failing(d)) /\ j.policy.succeeded = FrameworkSucceeded(d)
    BY <2>3, DefaultedFields
  <2>6. d.framework # "demo" /\ ~d.policy.given =>
          \A r \in Succeeding(d) \intersect DOMAIN d.roles : j.roles[r].succeeded # "None"
    BY <2>3, DefaultsDecide
  <2>7. given.framework # "demo" =>
          /\ FrameworkOption(d) = FrameworkOption(given) /\ Failing(d) = Failing(given)
          /\ Succeeding(d) = Succeeding(given) /\ FrameworkSucceeded(d) = FrameworkSucceeded(given)
    BY <2>3, <2>4, SameConditions
  <2> HIDE DEF j
  <2> QED
    BY <1>1, <2>1, <2>2, <2>3, <2>4, <2>5, <2>6, <2>7 DEF PolicyOfGiven
<1>4. CASE \E r \in Roles, n \in Sizes : Scales(r, n)
  <2>1. PICK r \in Roles : \E n \in Sizes : Scales(r, n)
    BY <1>4
  <2>2. PICK n \in Sizes : Scales(r, n)
    BY <2>1
  <2>3. IsCopy(job) /\ n \in Nat /\ UNCHANGED updates /\ DOMAIN job.spec.roles = DOMAIN given.roles
    BY <2>2, SizesAssumption DEF JobTypes, Scales, IsCopy
  <2>4. job'.spec = Scaled(job.spec, r, n) /\ r \in DOMAIN job.spec.roles
    BY <1>1, <2>2, <2>3, ScaledType
  <2>5. IsDefinition(job.spec, Roles)
    BY <2>3 DEF IsCopy
  <2>6. SameButReplicas(job.spec, job'.spec)
    BY <2>3, <2>4, <2>5, ScaledIsSame
  <2>7. /\ job'.spec.policy = job.spec.policy /\ job'.spec.option = job.spec.option
        /\ \A q \in DOMAIN given.roles : job'.spec.roles[q].succeeded = job.spec.roles[q].succeeded
    BY <2>3, <2>6 DEF SameButReplicas
  <2> QED
    BY <1>1, <2>3, <2>7 DEF PolicyOfGiven
<1>5. Invalidates => UNCHANGED <<job.spec, updates>>
  BY <1>1, InvalidatedType DEF JobTypes, Invalidates
<1> QED
  BY <1>2, <1>3, <1>4, <1>5, JobSteps

(* The roles of the policy exist: Validate asks for those that SetDefault  *)
(* names without looking for them, but for the jobs that are Undecided.    *)
LEMMA ConditionsExist ==
    ASSUME NEW d, Valid(d), d.framework = given.framework, d.option = FrameworkOption(given),
           DOMAIN d.roles = DOMAIN given.roles, given.framework \in Registered, ~Undecided(given)
    PROVE  /\ Failing(given) \subseteq DOMAIN given.roles /\ Succeeding(given) \subseteq DOMAIN given.roles
           /\ FrameworkSucceeded(given) = {Succeeding(given)}
<1>1. given.framework \in Registered \ {"demo"} /\ FrameworkValidate(d)
  BY DEF Undecided, Valid
<1> USE DEF Failing, Succeeding, Present, FrameworkSucceeded
<1>2. CASE given.framework = "bagua" /\ given.option = "on"
  BY <1>1, <1>2 DEF FrameworkValidate, BaguaValidate, CheckRolesExist, FrameworkOption
<1>3. CASE given.framework = "bagua" /\ given.option # "on"
  BY <1>1, <1>3 DEF FrameworkValidate, BaguaValidate, CheckRolesExist, FrameworkOption
<1>4. CASE given.framework = "custom"
  BY <1>4
<1>5. CASE given.framework = "dask"
  BY <1>1, <1>5 DEF FrameworkValidate, DaskValidate, CheckRolesExist
<1>6. CASE given.framework = "mpi"
  BY <1>6 DEF Undecided, HasRole
<1>7. CASE given.framework = "pytorch"
  BY <1>1, <1>7 DEF FrameworkValidate, PytorchValidate, HasRole
<1>8. CASE given.framework = "standalone"
  BY <1>8 DEF Undecided, HasRole
<1>9. CASE given.framework = "tensorflow"
  BY <1>9 DEF Undecided
<1> QED
  BY <1>1, <1>2, <1>3, <1>4, <1>5, <1>6, <1>7, <1>8, <1>9 DEF Registered

(* A job that is accepted with the policy of SetDefault can be decided, in *)
(* all frameworks and with all sets of roles but those of Undecided: its   *)
(* policy names no role that GetJobPhase would not find, and all roles of  *)
(* its condition of success have one themselves.                           *)
THEOREM DefaultsAlwaysDecide == Spec => []DefaultsDecideJob
<1>1. Init => PolicyOfGiven
  BY DEF Init, PolicyOfGiven, Job
<1>2. DefinitionInv /\ PolicyOfGiven /\ [Next]_vars => PolicyOfGiven'
  <2>1. CASE UNCHANGED vars
    BY <2>1 DEF PolicyOfGiven, vars
  <2>2. CASE Next
    BY <2>2, PolicyOfGivenStep DEF DefinitionInv
  <2> QED
    BY <2>1, <2>2
<1>3. DefinitionInv /\ PolicyOfGiven => DefaultsDecideJob
  <2> SUFFICES ASSUME DefinitionInv, PolicyOfGiven, updates > 0, ~given.policy.given, Valid(job.spec),
                      ~Undecided(given)
               PROVE  /\ Names(job.spec.policy) \subseteq DOMAIN job.spec.roles
                      /\ \E rs \in job.spec.policy.succeeded :
                            \A r \in rs : job.spec.roles[r].succeeded # "None"
    BY DEF DefaultsDecideJob
  <2>1. updates = 1
    BY DEF DefinitionInv, JobTypes, StoredIsSettled
  <2>2. job.spec.framework = given.framework /\ DOMAIN job.spec.roles = DOMAIN given.roles
    BY DEF DefinitionInv, JobTypes, IsCopy
  <2>3. given.framework # "demo"
    BY DEF Undecided
  <2>4. /\ given.framework \in Registered /\ job.spec.option = FrameworkOption(given)
        /\ job.spec.policy.failed = Each(Failing(given))
        /\ job.spec.policy.succeeded = FrameworkSucceeded(given)
        /\ \A r \in Succeeding(given) \intersect DOMAIN given.roles :
              job.spec.roles[r].succeeded # "None"
    BY <2>1, <2>3 DEF PolicyOfGiven
  <2>5. /\ Failing(given) \subseteq DOMAIN given.roles /\ Succeeding(given) \subseteq DOMAIN given.roles
        /\ FrameworkSucceeded(given) = {Succeeding(given)}
    BY <2>2, <2>4, ConditionsExist
  <2>6. Names(job.spec.policy) \subseteq DOMAIN job.spec.roles
    BY <2>2, <2>4, <2>5 DEF Names, Each
  <2> QED
    BY <2>4, <2>5, <2>6
<1> QED
  BY <1>1, <1>2, <1>3, DefinitionInvHolds, PTL DEF Spec

-----------------------------------------------------------------------------
(* When nothing is left to do *)

(* A role that is not restarted has all its pods once it has started. *)
StartedStay ==
    Unscaled => \A r \in started :
        /\ given.framework \in Registered /\ job.spec = Target
        /\ (Target.roles[r].restart = "Never" =>
               (0 .. (Target.roles[r].replicas - 1)) \subseteq Indexes(r))

Complete ==
    \A r \in DOMAIN job.spec.roles :
        /\ (0 .. (job.spec.roles[r].replicas - 1)) \subseteq Indexes(r)
        /\ (NeedsService(job.spec, r) => r \in services)

IdleIsComplete == Idle /\ Unscaled /\ given.framework # "demo" => Complete

LEMMA PodsStay ==
    ASSUME JobTypes, PodTypes, PodsOfGiven, Unscaled, seen.spec = Target,
           NEW rs \in SUBSET DOMAIN seen.spec.roles, NEW stopped \in SUBSET DOMAIN seen.spec.roles,
           ReconcileRoles(rs, stopped)
    PROVE  pods \subseteq pods'
<1> SUFFICES ASSUME NEW p \in pods, p.role \in rs \union stopped PROVE p \in ReconcilePods(p.role)
  BY DEF ReconcileRoles
<1>1. p.index \in 0 .. (Target.roles[p.role].replicas - 1)
  BY DEF PodsOfGiven
<1>2. p.index < Target.roles[p.role].replicas
  <2>1. Target.roles[p.role].replicas \in Int
    <3>1. given \in Submissions /\ given.framework \in Registered /\ p.role \in DOMAIN given.roles
      BY DEF PodsOfGiven, JobTypes
    <3>2. IsDefinition(Target, Roles) /\ DOMAIN Target.roles = DOMAIN given.roles
      BY <3>1, TargetType
    <3>3. Target.roles[p.role] \in RoleDefinition(Roles)
      BY <3>1, <3>2 DEF IsDefinition
    <3>4. Target.roles[p.role].replicas \in Replicas
      BY <3>3 DEF RoleDefinition
    <3> QED
      BY <3>4 DEF Replicas, Unset
  <2> QED
    BY <1>1, <2>1
<1> QED
  BY <1>2 DEF ReconcilePods, PodsOf

LEMMA StartedStayStep ==
    ASSUME JobTypes, PodTypes, CopiesOfGiven, PodsOfGiven, StartedStay, Next
    PROVE  StartedStay'
<1> SUFFICES ASSUME Unscaled', NEW r \in started'
             PROVE  /\ given.framework \in Registered /\ job'.spec = Target
                    /\ (Target.roles[r].restart = "Never" =>
                           (0 .. (Target.roles[r].replicas - 1)) \subseteq Indexes(r)')
  BY JobSteps DEF StartedStay, Target
<1>1. Unscaled
  BY StaysUnscaled
<1>2. CASE r \in started
  <2>1. /\ given.framework \in Registered /\ job.spec = Target
        /\ (Target.roles[r].restart = "Never" =>
               (0 .. (Target.roles[r].replicas - 1)) \subseteq Indexes(r))
    BY <1>1, <1>2 DEF StartedStay
  <2>2. job'.spec = Target
    BY <2>1, TargetStays
  <2>3. Target.roles[r].restart = "Never" => PodsOf(r) \subseteq pods'
    <3>1. CASE UNCHANGED pods
      BY <3>1 DEF PodsOf
    <3>2. CASE \E p \in pods : LosePod(p) /\ pods' = pods \ {p}
      BY <2>1, <3>2 DEF LosePod, PodsOf
    <3>3. CASE /\ Accepted
               /\ \E rs \in SUBSET DOMAIN seen.spec.roles : \E stopped \in SUBSET DOMAIN seen.spec.roles :
                     ReconcileRoles(rs, stopped)
      <4>1. PICK rs \in SUBSET DOMAIN seen.spec.roles : \E stopped \in SUBSET DOMAIN seen.spec.roles :
                     ReconcileRoles(rs, stopped)
        BY <3>3
      <4>2. PICK stopped \in SUBSET DOMAIN seen.spec.roles : ReconcileRoles(rs, stopped)
        BY <4>1
      <4>3. seen.spec = Target
        BY <1>1, <3>3, SettledIsTarget DEF Accepted
      <4>4. pods \subseteq pods'
        BY <1>1, <4>2, <4>3, PodsStay
      <4> QED
        BY <4>4 DEF PodsOf
    <3> QED
      BY <3>1, <3>2, <3>3, PodSteps
  <2>4. PodsOf(r) \subseteq pods' => Indexes(r) \subseteq Indexes(r)'
    BY DEF Indexes, PodsOf
  <2> QED
    BY <2>1, <2>2, <2>3, <2>4
<1>3. CASE r \notin started
  <2>1. RoleStarts(r)
    BY <1>3, StartSteps DEF RoleStarts
  <2>2. /\ job.spec.roles[r].replicas > 0 /\ (0 .. (job.spec.roles[r].replicas - 1)) \subseteq Indexes(r)
        /\ r \in DOMAIN job.spec.roles
        /\ UNCHANGED <<job, pods>>
    BY <2>1 DEF RoleStarts
  <2>3. 0 \in Indexes(r)
    <3>1. job.spec.roles[r].replicas \in Int
      <4>1. job.spec.roles[r] \in RoleDefinition(Roles)
        BY <2>2 DEF JobTypes, IsCopy, IsDefinition
      <4>2. job.spec.roles[r].replicas \in Replicas
        BY <4>1 DEF RoleDefinition
      <4> QED
        BY <4>2 DEF Replicas, Unset
    <3> QED
      BY <2>2, <3>1
  <2>4. job.spec = Target /\ given.framework \in Registered
    BY <1>1, <2>3 DEF Indexes, PodsOf, PodsOfGiven
  <2>5. Indexes(r)' = Indexes(r)
    BY <2>2 DEF Indexes, PodsOf
  <2> QED
    BY <2>2, <2>4, <2>5
<1> QED
  BY <1>2, <1>3

(* The first index that stops ReconcilePods decides the outcome. *)
LEMMA HaltingStops ==
    ASSUME JobTypes, PodTypes, Valid(seen.spec), NEW r \in DOMAIN seen.spec.roles
    PROVE  /\ Outcome(r) = "done" => Halting(r) = {}
           /\ Outcome(r) = "refused" => Halting(r) # {}
<1>1. Halting(r) \in SUBSET Nat
  BY SliceSizes DEF Halting
<1>2. Halting(r) # {} => Min(Halting(r)) \in Halting(r)
  BY <1>1, MinOfNats
<1>3. \A i \in Halting(r) : Creation(r, i) # "done"
  BY DEF Halting
<1>4. Halting(r) # {} => Outcome(r) = Creation(r, Min(Halting(r)))
  BY DEF Outcome
<1>5. Halting(r) = {} => Outcome(r) \in {"error", "done"}
  BY DEF Outcome
<1> QED
  BY <1>2, <1>3, <1>4, <1>5

(* A reconcile that changes nothing found everything there. *)
LEMMA NothingIsMissing ==
    ASSUME JobTypes, PodTypes, PodsOfGiven, StartedStay, Unscaled, Valid(seen.spec),
           seen.spec = Target, job.spec = Target,
           \A r \in DOMAIN seen.spec.roles : Outcome(r) = "done",
           ReconcileRoles(DOMAIN seen.spec.roles, {}), pods' = pods, services' = services
    PROVE  Complete
<1> SUFFICES ASSUME NEW r \in DOMAIN seen.spec.roles
             PROVE  /\ (0 .. (Target.roles[r].replicas - 1)) \subseteq Indexes(r)
                    /\ (NeedsService(Target, r) => r \in services)
  BY DEF Complete
<1>1. NeedsService(Target, r) => r \in services
  BY DEF ReconcileRoles
<1>2. Halting(r) = {}
  BY HaltingStops
<1>3. /\ SliceSize(r) = Target.roles[r].replicas /\ SliceSize(r) \in Nat
      /\ Missing(r) \subseteq 0 .. (SliceSize(r) - 1)
  BY UnscaledSlices
<1>4. ASSUME NEW i \in Missing(r) PROVE FALSE
  <2>1. i < SliceSize(r)
    BY <1>3
  <2>2. CreateNewPod(r, i) \in ReconcilePods(r)
    BY <1>2, <2>1 DEF ReconcilePods
  <2>3. CreateNewPod(r, i) \in pods
    BY <2>2 DEF ReconcileRoles
  <2>4. CreateNewPod(r, i).role = r /\ CreateNewPod(r, i).index = i
    BY DEF CreateNewPod
  <2>5. i \in Indexes(r)
    BY <2>3, <2>4 DEF Indexes, PodsOf
  <2> QED
    BY <2>5 DEF Missing
<1>5. CASE Target.roles[r].restart = "Never" /\ r \in started
  BY <1>1, <1>5 DEF StartedStay
<1>6. CASE ~(Target.roles[r].restart = "Never" /\ r \in started)
  <2>1. Missing(r) = (0 .. (SliceSize(r) - 1)) \ Indexes(r)
    BY <1>6 DEF Missing
  <2> QED
    BY <1>1, <1>3, <1>4, <2>1
<1> QED
  BY <1>5, <1>6

(* Pods within the replicas. *)
LEMMA SliceOfReplicas ==
    ASSUME NEW n \in Nat, NEW I \in SUBSET (0 .. (n - 1))
    PROVE  Max({n} \union {i + 1 : i \in I}) = n
<1> DEFINE T == {n} \union {i + 1 : i \in I}
<1>1. T \in SUBSET Nat /\ T # {} /\ n \in T /\ \A y \in T : y <= n
  OBVIOUS
<1> HIDE DEF T
<1>2. Max(T) \in T /\ \A y \in T : y <= Max(T)
  BY <1>1, MaxOfNats
<1>3. Max(T) <= n /\ n <= Max(T) /\ Max(T) \in Nat
  BY <1>1, <1>2, Zenon
<1>4. Max(T) = n
  BY <1>3
<1> QED
  BY <1>4 DEF T

(* A pod that the API server refuses is missing still after the reconcile. *)
LEMMA RefusedStays ==
    ASSUME JobTypes, PodTypes, CopiesOfGiven, PodsOfGiven, Unscaled, Accepted,
           PodsOfGiven', Unscaled', UNCHANGED <<given, seen, started>>,
           NEW r \in DOMAIN seen.spec.roles, Outcome(r) = "refused",
           NEW rs \in SUBSET DOMAIN seen.spec.roles, ReconcileRoles(rs, {r})
    PROVE  Outcome(r)' # "done"
<1>1. /\ given.framework \in Registered /\ seen.spec = Target /\ job.spec = Target
      /\ Valid(seen.spec)
  BY SettledIsTarget DEF Accepted
<1>2. Halting(r) # {}
  BY <1>1, HaltingStops
<1>3. PICK h \in Missing(r) : Creation(r, h) # "done"
  BY <1>2 DEF Halting
<1> DEFINE n == Target.roles[r].replicas
<1>4. n \in Nat /\ h \in 0 .. (n - 1) /\ h \notin Indexes(r)
  BY <1>1, UnscaledSlices DEF Missing
<1>5. h \notin Indexes(r)'
  <2>1. SUFFICES ASSUME NEW m \in pods', m.role = r, m.index = h PROVE FALSE
    BY DEF Indexes, PodsOf
  <2>2. m \notin pods
    BY <1>4, <2>1 DEF Indexes, PodsOf
  <2>3. {r} \in SUBSET DOMAIN seen.spec.roles
    OBVIOUS
  <2>4. PICK q \in rs \union {r} : \E i \in Missing(q) :
                m = CreateNewPod(q, i) /\ Creation(q, i) = "done"
    BY <1>1, <2>1, <2>2, <2>3, NewPods
  <2>5. PICK i \in Missing(q) : m = CreateNewPod(q, i) /\ Creation(q, i) = "done"
    BY <2>4
  <2>6. q = r /\ i = h
    BY <2>1, <2>5 DEF CreateNewPod
  <2> QED
    BY <1>3, <2>5, <2>6
<1>6. SliceSize(r)' = n
  <2>1. Indexes(r)' \in SUBSET (0 .. (n - 1))
    BY DEF Indexes, PodsOf, PodsOfGiven, Target
  <2>2. SliceSize(r)' = Max({n} \union {i + 1 : i \in Indexes(r)'})
    BY <1>1 DEF SliceSize
  <2> QED
    BY <1>4, <2>1, <2>2, SliceOfReplicas
<1>7. Missing(r)' = (0 .. (n - 1)) \ Indexes(r)'
  <2>1. ~(seen.spec.roles[r].restart = "Never" /\ r \in started)
    BY <1>3 DEF Missing
  <2> QED
    BY <1>6, <2>1 DEF Missing
<1>8. h \in Halting(r)' /\ Halting(r)' \in SUBSET Nat
  <2>1. Creation(r, h)' = Creation(r, h)
    BY DEF Creation
  <2> QED
    BY <1>3, <1>4, <1>5, <1>7, <2>1 DEF Halting
<1>9. PICK k \in Halting(r)' : k = Min(Halting(r)')
  BY <1>8, MinOfNats
<1>10. Creation(r, k)' # "done"
  BY <1>9 DEF Halting
<1>11. Outcome(r)' = Creation(r, k)'
  BY <1>8, <1>9 DEF Outcome, Creation
<1> QED
  BY <1>10, <1>11

(* That a role starts does not change what is missing. *)
LEMMA StartChangesNoOutcome ==
    ASSUME JobTypes, PodTypes, CopiesOfGiven, PodsOfGiven, Unscaled, Settled, Valid(seen.spec),
           NEW r \in Roles, RoleStarts(r), NEW q \in DOMAIN seen.spec.roles
    PROVE  Outcome(q)' = Outcome(q)
<1>1. UNCHANGED <<seen, pods, services>> /\ started' = started \union {r}
  BY DEF RoleStarts
<1>2. given.framework \in Registered /\ seen.spec = Target /\ job.spec = Target
  BY SettledIsTarget
<1>3. Missing(q)' = Missing(q)
  <2>1. SliceSize(q)' = SliceSize(q) /\ Indexes(q)' = Indexes(q)
    BY <1>1 DEF SliceSize, Indexes, PodsOf
  <2>2. CASE q # r
    BY <1>1, <2>1, <2>2 DEF Missing
  <2>3. CASE q = r
    <3>1. SliceSize(q) = Target.roles[q].replicas
      BY <1>2, UnscaledSlices
    <3>2. (0 .. (SliceSize(q) - 1)) \ Indexes(q) = {}
      BY <1>2, <2>3, <3>1 DEF RoleStarts
    <3> QED
      BY <1>1, <2>1, <3>2 DEF Missing
  <2> QED
    BY <2>2, <2>3
<1>4. Halting(q)' = Halting(q)
  BY <1>1, <1>3 DEF Halting, Creation
<1> QED
  BY <1>1, <1>4 DEF Outcome, Creation

LEMMA IdleIsCompleteStep ==
    ASSUME JobTypes, PodTypes, CopiesOfGiven, PodsOfGiven, StartedStay, IdleIsComplete, Next
    PROVE  IdleIsComplete'
<1> SUFFICES ASSUME Idle', Unscaled', given.framework # "demo" PROVE Complete'
  BY JobSteps DEF IdleIsComplete
<1>1. /\ up' /\ ~queued' /\ seen' = job' /\ Settled' /\ Valid(job'.spec) /\ ~job'.invalid
      /\ \A r \in DOMAIN job'.spec.roles : Outcome(r)' = "done"
  BY DEF Idle
<1>2. Unscaled /\ PodsOfGiven' /\ UNCHANGED given
  BY StaysUnscaled, PodsOfGivenStep, JobSteps
<1>3. ASSUME UNCHANGED <<job, pods, services>>, Complete PROVE Complete'
  BY <1>3 DEF Complete, Indexes, PodsOf
<1>4. seen.spec.framework = given.framework /\ job.spec.framework = given.framework
  BY DEF JobTypes, IsCopy
<1>5. ASSUME seen = job, job' = [job EXCEPT !.invalid = TRUE, !.version = @ + 1], UNCHANGED seen PROVE FALSE
  <2>1. job = Job(job.spec, job.finalizer, job.invalid, job.version)
    BY DEF JobTypes, IsCopy
  <2>2. job'.invalid = TRUE
    BY <1>5, <2>1 DEF Job
  <2> QED
    BY <1>1, <2>2
<1>6. CASE Ignore \/ SetDefaultCrashes \/ ReconcileDemo \/ Deliver \/ Resync \/ Restart
  BY <1>1, <1>4, <1>6, Zenon DEF Ignore, SetDefaultCrashes, ReconcileDemo, Deliver, Resync, Restart
<1>7. CASE StoreDefaults
  <2>1. seen = job /\ UNCHANGED seen /\ job' = Job(Defaulted(seen.spec), job.finalizer \/ HasDependence(Defaulted(seen.spec)), FALSE, job.version + 1)
    BY <1>1, <1>7, Zenon DEF StoreDefaults, Begun
  <2>2. job'.version = job.version + 1
    BY <2>1 DEF Job
  <2>3. job.version \in Nat
    BY DEF JobTypes, IsCopy
  <2> QED
    BY <1>1, <2>1, <2>2, <2>3
<1>8. CASE Reject
  <2>1. UNCHANGED seen /\ Begun /\ (Known => Settled /\ ~Valid(seen.spec)) /\ setInvalidDefinition
    BY <1>8 DEF Reject
  <2>2. Known'
    BY <1>1 DEF Settled
  <2>3. Known
    BY <2>1, <2>2 DEF Known
  <2>4. Valid(seen'.spec)
    BY <1>1
  <2> QED
    BY <2>1, <2>3, <2>4
<1>9. CASE ReconcileJobs
  <2>1. /\ Accepted /\ UNCHANGED <<job, seen>> /\ \A r \in DOMAIN seen.spec.roles : Outcome(r) = "done"
        /\ ReconcileRoles(DOMAIN seen.spec.roles, {})
    BY <1>9 DEF ReconcileJobs
  <2>2. pods' = pods /\ services' = services
    BY <1>1, <1>9, Zenon DEF ReconcileJobs
  <2>3. seen.spec = Target /\ job.spec = Target /\ Valid(seen.spec)
    BY <1>2, <2>1, SettledIsTarget DEF Accepted
  <2>4. Complete
    BY <1>2, <2>1, <2>2, <2>3, NothingIsMissing
  <2> QED
    BY <1>3, <2>1, <2>2, <2>4
<1>10. CASE \E r \in DOMAIN seen.spec.roles : ReconcileJobsStops(r)
  <2>1. PICK r \in DOMAIN seen.spec.roles : ReconcileJobsStops(r)
    BY <1>10
  <2>2. /\ Accepted /\ UNCHANGED <<given, seen, started>> /\ Outcome(r) # "done"
        /\ \E others \in SUBSET (DOMAIN seen.spec.roles \ {r}) : ReconcileRoles(others, {r})
    BY <2>1 DEF ReconcileJobsStops
  <2>3. PICK others \in SUBSET (DOMAIN seen.spec.roles \ {r}) : ReconcileRoles(others, {r})
    BY <2>2
  <2>4. others \in SUBSET DOMAIN seen.spec.roles
    OBVIOUS
  <2>5. Outcome(r) = "refused"
    BY <1>1, <2>1, Zenon DEF ReconcileJobsStops, Accepted, Begun
  <2>6. Outcome(r)' # "done"
    BY <1>2, <2>2, <2>3, <2>4, <2>5, RefusedStays
  <2>7. DOMAIN job'.spec.roles = DOMAIN seen.spec.roles
    BY <1>1, <2>2
  <2> QED
    BY <1>1, <2>6, <2>7
<1>11. CASE \E r \in Roles : RoleStarts(r)
  <2>1. PICK r \in Roles : RoleStarts(r)
    BY <1>11
  <2>2. UNCHANGED <<given, job, seen, queued, up, pods, services>>
    BY <2>1 DEF RoleStarts
  <2>3. up /\ ~queued /\ seen = job /\ Settled /\ Valid(job.spec) /\ ~job.invalid
    <3>1. Settled
      BY <1>1, <2>2 DEF Settled, Known
    <3> QED
      BY <1>1, <2>2, <3>1
  <2>4. ASSUME NEW q \in DOMAIN job.spec.roles PROVE Outcome(q) = "done"
    <3>1. Outcome(q)' = Outcome(q)
      BY <1>2, <2>1, <2>3, StartChangesNoOutcome
    <3>2. q \in DOMAIN job'.spec.roles
      BY <2>2
    <3> QED
      BY <1>1, <3>1, <3>2
  <2>5. Idle
    BY <2>3, <2>4 DEF Idle
  <2> QED
    BY <1>2, <1>3, <2>2, <2>5 DEF IdleIsComplete
<1>12. CASE \E r \in Roles, n \in Sizes : ScaleRole(r, n)
  <2>1. \E r \in Roles, n \in Sizes : Scales(r, n)
    BY <1>12 DEF ScaleRole, Scales
  <2> QED
    BY <2>1, StaysUnscaled
<1>13. CASE \E p \in pods : LosePod(p)
  <2>1. queued' = up /\ up' = up
    BY <1>13 DEF LosePod
  <2>2. queued' = up'
    BY <2>1
  <2> QED
    BY <1>1, <2>2, Zenon
<1> QED
  BY <1>6, <1>7, <1>8, <1>9, <1>10, <1>11, <1>12, <1>13 DEF Next, Reconcile

(* When nothing is left to do for an accepted job of which no role was     *)
(* scaled, every pod that another one is told to talk to exists and its    *)
(* role has a service, whatever was lost, refused or read late on the way. *)
THEOREM AddressesAlwaysResolve == Spec => []AddressesResolve
<1> DEFINE Inv == StartedStay /\ IdleIsComplete
<1>1. Init => Inv
  BY Zenon DEF Init, StartedStay, IdleIsComplete, Idle
<1>2. UnscaledInv /\ Inv /\ [Next]_vars => Inv'
  <2>1. CASE UNCHANGED vars
    <3>1. UNCHANGED <<given, job, seen, queued, up, pods, services, started, scaled>>
      BY <2>1 DEF vars
    <3>2. /\ UNCHANGED <<Target, Unscaled, Settled>>
          /\ \A r : Indexes(r)' = Indexes(r)
      BY <3>1 DEF Target, Unscaled, Settled, Known, Indexes, PodsOf
    <3>3. ASSUME NEW r PROVE Outcome(r)' = Outcome(r)
      <4>1. Missing(r)' = Missing(r)
        BY <3>1, <3>2 DEF Missing, SliceSize
      <4>2. Halting(r)' = Halting(r)
        BY <3>1, <4>1 DEF Halting, Creation
      <4> QED
        BY <3>1, <4>2 DEF Outcome, Creation
    <3>4. Idle' = Idle
      BY <3>1, <3>2, <3>3 DEF Idle
    <3>5. Complete' = Complete
      BY <3>1, <3>2 DEF Complete
    <3>6. StartedStay => StartedStay'
      BY <3>1, <3>2 DEF StartedStay
    <3> QED
      BY <3>1, <3>2, <3>4, <3>5, <3>6, Zenon DEF IdleIsComplete
  <2>2. CASE Next
    BY <2>2, StartedStayStep, IdleIsCompleteStep DEF UnscaledInv, DefinitionInv
  <2> QED
    BY <2>1, <2>2
<1>3. UnscaledInv /\ Inv => AddressesResolve
  <2> SUFFICES ASSUME UnscaledInv, IdleIsComplete, Idle, Unscaled, NEW p \in pods, NEW a \in p.env.pods
               PROVE  (\E q \in pods : <<q.role, q.index>> = a) /\ a[1] \in services
    BY DEF AddressesResolve
  <2>1. /\ given.framework \in Registered /\ Valid(Target) /\ job.spec = Target
        /\ p.role \in DOMAIN given.roles /\ p.index \in 0 .. (Target.roles[p.role].replicas - 1)
        /\ p = PodOf(p.role, p.index)
    BY DEF UnscaledInv, PodsOfGiven
  <2>2. /\ IsDefinition(Target, Roles) /\ Target.framework = given.framework
        /\ DOMAIN Target.roles = DOMAIN given.roles
    BY <2>1, TargetType DEF UnscaledInv, DefinitionInv, JobTypes
  <2>3. a \in SetClusterSpec(Target, p.role, p.index).pods
    BY <2>1 DEF PodOf
  <2>4. PICK r \in DOMAIN Target.roles : \E k \in 0 .. (Target.roles[r].replicas - 1) :
                a = <<r, k>> /\ NeedsService(Target, r)
    BY <2>1, <2>2, <2>3, AddressesExist
  <2>5. PICK k \in 0 .. (Target.roles[r].replicas - 1) : a = <<r, k>> /\ NeedsService(Target, r)
    BY <2>4
  <2>6. given.framework # "demo"
    <3>1. SUFFICES ASSUME given.framework = "demo" PROVE FALSE
      OBVIOUS
    <3>2. SetClusterSpec(Target, p.role, p.index) = NoEnv
      BY <2>2, <3>1 DEF SetClusterSpec
    <3> QED
      BY <2>3, <3>2 DEF NoEnv
  <2>7. Complete
    BY <2>6 DEF IdleIsComplete
  <2>8. k \in Indexes(r) /\ r \in services
    BY <2>1, <2>5, <2>7 DEF Complete
  <2> QED
    BY <2>5, <2>8 DEF Indexes, PodsOf
<1> QED
  BY <1>1, <1>2, <1>3, UnscaledInvHolds, PTL DEF Spec

-----------------------------------------------------------------------------
(* Jobs of which the workers were scaled *)

(* The stored job is settled as soon as a copy is that pods are made from. *)
SettledFirst ==
    /\ (IsSettled(seen.spec) => IsSettled(job.spec))
    /\ (pods # {} => IsSettled(job.spec))

LEMMA SettledFirstStep ==
    ASSUME JobTypes, SettledFirst, Next
    PROVE  SettledFirst'
<1>1. ASSUME IsSettled(job.spec) PROVE IsSettled(job'.spec)
  <2>1. CASE job'.spec = job.spec
    BY <1>1, <2>1
  <2>2. CASE Known /\ Stores(Defaulted(seen.spec), job.finalizer \/ HasDependence(Defaulted(seen.spec)))
    <3>1. seen = job /\ job'.spec = Defaulted(job.spec)
      BY <2>2 DEF Stores, Job
    <3>2. IsDefinition(job.spec, Roles) /\ FrameworkRoles \subseteq Roles /\ job.spec.framework \in Registered
      BY <2>2, <3>1, RolesAssumption DEF JobTypes, IsCopy, Known
    <3> QED
      BY <3>1, <3>2, DefaultedSettles
  <2>3. CASE \E r \in Roles, n \in Sizes : Scales(r, n)
    <3>1. PICK r \in Roles : \E n \in Sizes : Scales(r, n)
      BY <2>3
    <3>2. PICK n \in Sizes : Scales(r, n)
      BY <3>1
    <3>3. IsCopy(job) /\ n \in Nat /\ UNCHANGED given
      BY SizesAssumption, JobSteps DEF JobTypes
    <3>4. job'.spec = Scaled(job.spec, r, n) /\ r \in DOMAIN job.spec.roles
      BY <3>2, <3>3, ScaledType
    <3>5. IsDefinition(job.spec, Roles)
      BY <3>3 DEF IsCopy
    <3>6. SameButReplicas(job.spec, job'.spec)
      BY <3>3, <3>4, <3>5, ScaledIsSame
    <3> QED
      BY <1>1, <3>6, SameStaysSettled
  <2>4. Invalidates => job'.spec = job.spec
    BY InvalidatedType, JobSteps DEF JobTypes
  <2> QED
    BY <2>1, <2>2, <2>3, <2>4, JobSteps
<1>2. IsSettled(seen'.spec) => IsSettled(job'.spec)
  <2>1. UNCHANGED seen \/ (seen' = job /\ UNCHANGED job)
    BY JobSteps
  <2> QED
    BY <1>1, <2>1 DEF SettledFirst
<1>3. pods' # {} => IsSettled(job'.spec)
  <2>1. CASE pods # {}
    BY <1>1, <2>1 DEF SettledFirst
  <2>2. CASE pods = {} /\ Accepted
    <3>1. Defaulted(seen.spec) = seen.spec /\ seen.spec.framework \in Registered
      BY <2>2 DEF Accepted, Settled, Known
    <3>2. IsDefinition(seen.spec, Roles) /\ FrameworkRoles \subseteq Roles
      BY RolesAssumption DEF JobTypes, IsCopy
    <3>3. IsSettled(seen.spec)
      BY <3>1, <3>2, DefaultedSettles
    <3> QED
      BY <1>1, <3>3 DEF SettledFirst
  <2> QED
    BY <2>1, <2>2, PodSteps
<1> QED
  BY <1>2, <1>3 DEF SettledFirst

(* Tensorflow with dynamic workers, of which only these were scaled. *)
Dynamic ==
    /\ given.framework = "tensorflow" /\ given.option = "on"
    /\ Range(scaled) \subseteq {"worker"}

DefaultReplicas(r) == IF given.roles[r].replicas = Unset THEN 1 ELSE given.roles[r].replicas

(* The other roles have the replicas they were given, or the default. *)
OthersKeep ==
    Dynamic =>
        /\ job.spec.option = "on" /\ seen.spec.option = "on"
        /\ \A r \in DOMAIN given.roles \ {"worker"} :
              /\ job.spec.roles[r].replicas \in {given.roles[r].replicas, DefaultReplicas(r)}
              /\ seen.spec.roles[r].replicas \in {given.roles[r].replicas, DefaultReplicas(r)}

(* A definition that differs from the job with its defaults in the number  *)
(* of workers only.                                                        *)
IsTemplate(d) ==
    /\ IsDefinition(d, Roles) /\ Valid(d) /\ d.framework = "tensorflow" /\ d.option = "on"
    /\ DOMAIN d.roles = DOMAIN given.roles
    /\ \A r \in DOMAIN given.roles \ {"worker"} : d.roles[r].replicas = DefaultReplicas(r)

PodsOfTemplates ==
    Dynamic => \A p \in pods : \E d : IsTemplate(d) /\ p.env = SetClusterSpec(d, p.role, p.index)

LEMMA StaysDynamic ==
    ASSUME JobTypes, Next, Dynamic'
    PROVE  Dynamic /\ \A r \in Roles, n \in Sizes : Scales(r, n) => r = "worker"
<1>1. ASSUME NEW r \in Roles, scaled' = Append(scaled, r)
      PROVE  Range(scaled) \subseteq Range(scaled') /\ r \in Range(scaled')
  <2>1. scaled \in Seq(Roles)
    BY DEF JobTypes
  <2>2. /\ DOMAIN scaled = 1 .. Len(scaled) /\ DOMAIN scaled' = 1 .. (Len(scaled) + 1)
        /\ Len(scaled) \in Nat
        /\ \A i \in 1 .. Len(scaled) : scaled'[i] = scaled[i]
        /\ scaled'[Len(scaled) + 1] = r
    BY <1>1, <2>1
  <2>3. DOMAIN scaled \subseteq DOMAIN scaled' /\ Len(scaled) + 1 \in DOMAIN scaled'
    BY <2>2
  <2>4. Range(scaled) \subseteq Range(scaled')
    <3>1. ASSUME NEW i \in DOMAIN scaled PROVE scaled[i] \in Range(scaled')
      BY <2>2, <2>3, <3>1 DEF Range
    <3> QED
      BY <3>1 DEF Range
  <2>5. r \in Range(scaled')
    BY <2>2, <2>3 DEF Range
  <2> QED
    BY <2>4, <2>5
<1>2. UNCHANGED given
  BY JobSteps
<1>3. ASSUME NEW r \in Roles, NEW n \in Sizes, Scales(r, n)
      PROVE  r = "worker" /\ Range(scaled) \subseteq {"worker"}
  BY <1>1, <1>3 DEF Scales, Dynamic
<1>4. UNCHANGED scaled \/ \E r \in Roles, n \in Sizes : Scales(r, n)
  BY JobSteps
<1> QED
  BY <1>2, <1>3, <1>4 DEF Dynamic

LEMMA OthersKeepStep ==
    ASSUME JobTypes, OthersKeep, Next
    PROVE  OthersKeep'
<1> SUFFICES ASSUME Dynamic' PROVE OthersKeep'
  BY DEF OthersKeep
<1>1. Dynamic /\ (\A r \in Roles, n \in Sizes : Scales(r, n) => r = "worker") /\ UNCHANGED given
  BY StaysDynamic, JobSteps
<1>2. /\ job.spec.option = "on" /\ seen.spec.option = "on"
      /\ \A r \in DOMAIN given.roles \ {"worker"} :
            /\ job.spec.roles[r].replicas \in {given.roles[r].replicas, DefaultReplicas(r)}
            /\ seen.spec.roles[r].replicas \in {given.roles[r].replicas, DefaultReplicas(r)}
  BY <1>1 DEF OthersKeep
<1>3. \A r : DefaultReplicas(r)' = DefaultReplicas(r)
  BY <1>1 DEF DefaultReplicas
<1>4. /\ job'.spec.option = "on"
      /\ \A r \in DOMAIN given.roles \ {"worker"} :
            job'.spec.roles[r].replicas \in {given.roles[r].replicas, DefaultReplicas(r)}
  <2>1. CASE job'.spec = job.spec
    BY <1>2, <2>1
  <2>2. CASE seen = job /\ job' = Job(Defaulted(seen.spec), job.finalizer \/ HasDependence(Defaulted(seen.spec)), FALSE, job.version + 1)
    <3>1. job'.spec = Defaulted(job.spec)
      BY <2>2 DEF Job
    <3>2. /\ IsDefinition(job.spec, Roles) /\ FrameworkRoles \subseteq Roles
          /\ job.spec.framework = "tensorflow" /\ DOMAIN job.spec.roles = DOMAIN given.roles
      BY <1>1, RolesAssumption DEF JobTypes, IsCopy, Dynamic
    <3>3. job.spec.framework \in Registered
      BY <3>2 DEF Registered
    <3>4. Defaulted(job.spec).option = FrameworkOption(job.spec)
      BY <3>2, <3>3, DefaultedFields
    <3>5. FrameworkOption(job.spec) = "on"
      BY <1>2 DEF FrameworkOption
    <3>6. ASSUME NEW r \in DOMAIN given.roles \ {"worker"}
          PROVE  Defaulted(job.spec).roles[r].replicas \in {given.roles[r].replicas, DefaultReplicas(r)}
      <4>1. Defaulted(job.spec).roles[r].replicas =
              IF job.spec.roles[r].replicas = Unset THEN 1 ELSE job.spec.roles[r].replicas
        BY <3>2, TensorflowReplicas
      <4> QED
        BY <1>2, <4>1 DEF DefaultReplicas, Unset
    <3> QED
      BY <3>1, <3>4, <3>5, <3>6
  <2>3. CASE \E r \in Roles, n \in Sizes : Scales(r, n)
    <3>1. PICK r \in Roles : \E n \in Sizes : Scales(r, n)
      BY <2>3
    <3>2. PICK n \in Sizes : Scales(r, n)
      BY <3>1
    <3>3. IsCopy(job) /\ n \in Nat /\ r = "worker"
      BY <1>1, <3>2, SizesAssumption DEF JobTypes
    <3>4. job'.spec = Scaled(job.spec, r, n) /\ r \in DOMAIN job.spec.roles
      BY <1>1, <3>2, <3>3, ScaledType
    <3>5. IsDefinition(job.spec, Roles) /\ DOMAIN job.spec.roles = DOMAIN given.roles
      BY <3>3 DEF IsCopy
    <3>6. /\ job'.spec.option = job.spec.option
          /\ \A q \in DOMAIN job.spec.roles \ {r} : job'.spec.roles[q] = job.spec.roles[q]
      BY <3>3, <3>4, <3>5, ScaledOthers
    <3> QED
      BY <1>2, <3>3, <3>5, <3>6
  <2>4. Invalidates => job'.spec = job.spec
    BY <1>1, InvalidatedType DEF JobTypes
  <2> QED
    BY <2>1, <2>2, <2>3, <2>4, JobSteps DEF Stores
<1>5. UNCHANGED seen \/ seen' = job
  BY JobSteps
<1> QED
  BY <1>1, <1>2, <1>3, <1>4, <1>5 DEF OthersKeep

(* What is settled and valid is a template. *)
LEMMA SettledIsTemplate ==
    ASSUME JobTypes, OthersKeep, Dynamic, NEW j \in {job, seen}, IsSettled(j.spec), Valid(j.spec)
    PROVE  IsTemplate(j.spec)
<1>1. /\ IsDefinition(j.spec, Roles) /\ DOMAIN j.spec.roles = DOMAIN given.roles
      /\ j.spec.framework = "tensorflow" /\ j.spec.option = "on"
  BY DEF JobTypes, IsCopy, OthersKeep, Dynamic
<1>2. ASSUME NEW r \in DOMAIN given.roles \ {"worker"} PROVE j.spec.roles[r].replicas = DefaultReplicas(r)
  <2>1. j.spec.roles[r].replicas # Unset
    BY <1>1 DEF IsSettled, RoleIsSettled
  <2>2. j.spec.roles[r].replicas \in {given.roles[r].replicas, DefaultReplicas(r)}
    BY DEF OthersKeep
  <2> QED
    BY <2>1, <2>2 DEF DefaultReplicas
<1> QED
  BY <1>1, <1>2 DEF IsTemplate

LEMMA PodsOfTemplatesStep ==
    ASSUME JobTypes, PodTypes, OthersKeep, PodsOfTemplates, Next
    PROVE  PodsOfTemplates'
<1> SUFFICES ASSUME Dynamic', NEW m \in pods'
             PROVE  \E d : IsTemplate(d) /\ m.env = SetClusterSpec(d, m.role, m.index)
  BY JobSteps DEF PodsOfTemplates, IsTemplate, DefaultReplicas
<1>1. Dynamic
  BY StaysDynamic
<1>2. CASE m \in pods
  BY <1>1, <1>2 DEF PodsOfTemplates
<1>3. CASE m \notin pods
  <2>1. /\ Accepted
        /\ \E rs \in SUBSET DOMAIN seen.spec.roles : \E stopped \in SUBSET DOMAIN seen.spec.roles :
              ReconcileRoles(rs, stopped)
    BY <1>3, PodSteps
  <2>2. PICK rs \in SUBSET DOMAIN seen.spec.roles : \E stopped \in SUBSET DOMAIN seen.spec.roles :
              ReconcileRoles(rs, stopped)
    BY <2>1
  <2>3. PICK stopped \in SUBSET DOMAIN seen.spec.roles : ReconcileRoles(rs, stopped)
    BY <2>2
  <2>4. Valid(seen.spec) /\ Defaulted(seen.spec) = seen.spec /\ seen.spec.framework \in Registered
    BY <2>1 DEF Accepted, Settled, Known
  <2>5. IsDefinition(seen.spec, Roles) /\ FrameworkRoles \subseteq Roles
    BY RolesAssumption DEF JobTypes, IsCopy
  <2>6. IsSettled(seen.spec)
    BY <2>4, <2>5, DefaultedSettles
  <2>7. IsTemplate(seen.spec)
    BY <1>1, <2>4, <2>6, SettledIsTemplate
  <2>8. PICK r \in rs \union stopped : \E i \in Missing(r) :
                m = CreateNewPod(r, i) /\ Creation(r, i) = "done"
    BY <1>3, <2>3, <2>4, NewPods
  <2>9. PICK i \in Missing(r) : m = CreateNewPod(r, i)
    BY <2>8
  <2>10. m.env = SetClusterSpec(seen.spec, m.role, m.index)
    BY <2>9 DEF CreateNewPod
  <2> QED
    BY <2>7, <2>10
<1> QED
  BY <1>2, <1>3

(* What the pods of tensorflow with dynamic workers were told stays right  *)
(* however often the workers are scaled: none is told of a worker but      *)
(* itself, and with another role the job is distributed for any number of  *)
(* workers.  A job of workers only becomes distributed, or ceases to be,   *)
(* with their number: there a pod may lack what it would be told now, or   *)
(* have been told what it would not.                                       *)
THEOREM DynamicWorkersAreRight == Spec => []DynamicWorkersStayRight
<1> DEFINE Inv == SettledFirst /\ OthersKeep /\ PodsOfTemplates
<1>1. Init => Inv
  BY DEF Init, SettledFirst, OthersKeep, PodsOfTemplates, Dynamic, Job
<1>2. DefinitionInv /\ Inv /\ [Next]_vars => Inv'
  <2>1. CASE UNCHANGED vars
    BY <2>1 DEF SettledFirst, OthersKeep, PodsOfTemplates, Dynamic, DefaultReplicas, IsTemplate, vars
  <2>2. CASE Next
    BY <2>2, SettledFirstStep, OthersKeepStep, PodsOfTemplatesStep DEF DefinitionInv
  <2> QED
    BY <2>1, <2>2
<1>3. DefinitionInv /\ Inv => DynamicWorkersStayRight
  <2> SUFFICES ASSUME DefinitionInv, Inv, Dynamic, Valid(Defaulted(job.spec)), NEW p \in pods
               PROVE  \/ p.env = SetClusterSpec(job.spec, p.role, p.index)
                      \/ /\ WorkersOnly(given)
                         /\ NoEnv \in {p.env, SetClusterSpec(job.spec, p.role, p.index)}
    BY DEF DynamicWorkersStayRight, Dynamic
  <2>1. JobTypes /\ IsSettled(job.spec)
    BY DEF DefinitionInv, SettledFirst
  <2>2. /\ IsDefinition(job.spec, Roles) /\ FrameworkRoles \subseteq Roles
        /\ job.spec.framework \in Registered
    BY <2>1, RolesAssumption DEF JobTypes, IsCopy, Dynamic, Registered
  <2>3. Valid(job.spec)
    BY <2>1, <2>2, SettledIsFixed
  <2>4. IsTemplate(job.spec)
    BY <2>1, <2>3, SettledIsTemplate
  <2>5. PICK d : IsTemplate(d) /\ p.env = SetClusterSpec(d, p.role, p.index)
    BY DEF PodsOfTemplates
  <2>6. /\ IsDefinition(d, Roles) /\ Valid(d) /\ d.framework = "tensorflow" /\ d.option = "on"
        /\ job.spec.framework = "tensorflow" /\ job.spec.option = "on"
        /\ DOMAIN job.spec.roles = DOMAIN d.roles /\ DOMAIN d.roles = DOMAIN given.roles
        /\ \A r \in DOMAIN d.roles \ {"worker"} : job.spec.roles[r].replicas = d.roles[r].replicas
    BY <2>4, <2>5 DEF IsTemplate
  <2>7. \/ SetClusterSpec(job.spec, p.role, p.index) = p.env
        \/ /\ Present(d, SpecificRoles) = {"worker"}
           /\ NoEnv \in {SetClusterSpec(job.spec, p.role, p.index), p.env}
    BY <2>2, <2>3, <2>5, <2>6, SparseIsStable
  <2>8. Present(d, SpecificRoles) = Present(given, SpecificRoles)
    BY <2>6 DEF Present
  <2> QED
    BY <2>7, <2>8 DEF WorkersOnly
<1> QED
  BY <1>1, <1>2, <1>3, DefinitionInvHolds, PTL DEF Spec
=============================================================================
