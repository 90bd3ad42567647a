---------------------------- MODULE JobLifetime ----------------------------
(***************************************************************************)
(* The jobs that users create and delete under one name, one after the     *)
(* other.  Each has a UID of its own, but the operator keeps most of what  *)
(* it knows by name: the work queue, the expectations, the role cache, the *)
(* CleanUpQueue and the lists of pods and services.  What it still knows   *)
(* of a job that is gone meets the next job of the name.                   *)
(*                                                                         *)
(* A job has one role that is not restarted, with one pod and one service, *)
(* both with names derived from that of the job.  A reconcile is one step; *)
(* PodReconcile and JobStatus model its inner steps for a single job.      *)
(***************************************************************************)
EXTENDS Integers, Sequences

CONSTANTS
    Submissions,    \* what is submitted under the name, in this order
    MaxDisturb      \* number of calls that fail or time out, and of restarts

ASSUME SubmissionsAssumption ==
    Submissions \in Seq(SUBSET [complete : BOOLEAN, dependent : BOOLEAN])
ASSUME BoundsAssumption == MaxDisturb \in Nat

VARIABLES
    stored,     \* the job in the API server, or NoJob
    seen,       \* the informer's copy of it
    uids,       \* UIDs given out
    pod,        \* the pod of the name: UID of its owner, and stage
    listed,     \* the informer's copy of it
    service,    \* UID of the owner of the service, 0 if there is none
    listedService,
    news,       \* creations that are still to be reported: <<key, owner>>
    expected,   \* expected[k]: creations still to be reported, k a key
    records,    \* the records of the keys, which are always reset together
    roleCache,  \* UID of the job that published its role, 0 if none did
    cleanUp,    \* UIDs of the jobs that put the name into the CleanUpQueue
    queued,     \* the name is in the work queue
    finalized,  \* UIDs of jobs stored with a finalizer
    finished,   \* UIDs of jobs whose phase was stored as finished
    disturbed

jobs == <<stored, seen, uids, finalized, finished>>
objects == <<pod, listed, service, listedService, news>>
expectations == <<expected, records>>
vars == <<jobs, objects, expectations, roleCache, cleanUp, queued, disturbed>>

MaxUid == Len(Submissions)
Uid == 1 .. MaxUid
Keys == {"pods", "services"}
NoPod == [owner |-> 0, stage |-> "None"]
Pods == [owner : Uid, stage : {"Running", "Succeeded"}]

(* A job: whether its deletion was asked for, whether it has the           *)
(* finalizer, whether its spec has all defaults, whether a role depends on *)
(* another (HasDependence), and the phase in its status.                   *)
NoJob == [uid |-> 0, deleting |-> FALSE, finalizer |-> FALSE, complete |-> FALSE,
          dependent |-> FALSE, phase |-> "Pending"]
Jobs == [uid : Uid, deleting : BOOLEAN, finalizer : BOOLEAN, complete : BOOLEAN,
         dependent : BOOLEAN, phase : {"Pending", "Running", "Finished"}]

Init ==
    /\ stored = NoJob /\ seen = NoJob /\ uids = 0
    /\ pod = NoPod /\ listed = NoPod
    /\ service = 0 /\ listedService = 0
    /\ news = {}
    /\ expected = [k \in Keys |-> 0] /\ records = "None"
    /\ roleCache = 0
    /\ cleanUp = {}
    /\ queued = FALSE
    /\ finalized = {} /\ finished = {}
    /\ disturbed = 0

-----------------------------------------------------------------------------
(* Users, the API server, its garbage collector, and the pods *)

Submit ==
    /\ stored = NoJob /\ uids < MaxUid
    /\ \E s \in Submissions[uids + 1] :
          stored' = [NoJob EXCEPT !.uid = uids + 1, !.complete = s.complete,
                                  !.dependent = s.dependent]
    /\ uids' = uids + 1
    /\ UNCHANGED <<seen, finalized, finished, objects, expectations, roleCache, cleanUp, queued,
                   disturbed>>

(* A job without a finalizer is gone at once. *)
Delete ==
    /\ stored # NoJob /\ ~stored.deleting
    /\ stored' = IF stored.finalizer THEN [stored EXCEPT !.deleting = TRUE] ELSE NoJob
    /\ UNCHANGED <<seen, uids, finalized, finished, objects, expectations, roleCache, cleanUp,
                   queued, disturbed>>

(* Pods and services whose owner is gone are deleted, some time later. *)
CollectPod ==
    /\ pod.owner \notin {0, stored.uid}
    /\ pod' = NoPod
    /\ UNCHANGED <<jobs, listed, service, listedService, news, expectations, roleCache, cleanUp,
                   queued, disturbed>>

CollectService ==
    /\ service \notin {0, stored.uid}
    /\ service' = 0
    /\ UNCHANGED <<jobs, pod, listed, listedService, news, expectations, roleCache, cleanUp, queued,
                   disturbed>>

PodSucceeds ==
    /\ pod.stage = "Running"
    /\ pod' = [pod EXCEPT !.stage = "Succeeded"]
    /\ UNCHANGED <<jobs, listed, service, listedService, news, expectations, roleCache, cleanUp,
                   queued, disturbed>>

-----------------------------------------------------------------------------
(* Informers and event handlers *)

JobEvent ==
    /\ seen # stored
    /\ seen' = stored
    /\ queued' = TRUE
    /\ UNCHANGED <<stored, uids, finalized, finished, objects, expectations, roleCache, cleanUp,
                   disturbed>>

(* AddObject lowers the record of the key if the owner is the job the      *)
(* informer has now; the name of the owner is queued in any case.          *)
ResolveOwner(uid) == seen.uid = uid
AddObject(k, uid) ==
    /\ news' = news \ {<<k, uid>>}
    /\ expected' = IF ResolveOwner(uid) /\ records # "None"
                   THEN [expected EXCEPT ![k] = @ - 1] ELSE expected
    /\ queued' = TRUE

Oldest(k, uid) == <<k, uid>> \in news /\ \A v \in 1 .. (uid - 1) : <<k, v>> \notin news

PodAdded(uid) ==
    /\ Oldest("pods", uid) /\ listed = NoPod
    /\ listed' = [owner |-> uid, stage |-> "Running"]
    /\ AddObject("pods", uid)
    /\ UNCHANGED <<jobs, pod, service, listedService, records, roleCache, cleanUp, disturbed>>

ServiceAdded(uid) ==
    /\ Oldest("services", uid) /\ listedService = 0
    /\ listedService' = uid
    /\ AddObject("services", uid)
    /\ UNCHANGED <<jobs, pod, listed, service, records, roleCache, cleanUp, disturbed>>

(* UpdateObject and DeleteObject *)
PodChanged ==
    /\ listed # NoPod /\ listed # pod
    /\ listed' = IF pod.owner = listed.owner THEN pod ELSE NoPod
    /\ queued' = TRUE
    /\ UNCHANGED <<jobs, pod, service, listedService, news, expectations, roleCache, cleanUp, disturbed>>

ServiceDeleted ==
    /\ listedService \notin {0, service}
    /\ listedService' = 0
    /\ queued' = TRUE
    /\ UNCHANGED <<jobs, pod, listed, service, news, expectations, roleCache, cleanUp, disturbed>>

Resync ==
    /\ ~queued /\ seen # NoJob
    /\ queued' = TRUE
    /\ UNCHANGED <<jobs, objects, expectations, roleCache, cleanUp, disturbed>>

Expire ==
    /\ records = "Valid"
    /\ records' = "Expired"
    /\ UNCHANGED <<jobs, objects, expected, roleCache, cleanUp, queued, disturbed>>

-----------------------------------------------------------------------------
(* Reconcile *)

(* A write of the copy is refused when it is old, or the call fails. *)
WriteFails == \/ seen # stored /\ UNCHANGED disturbed
              \/ seen = stored /\ disturbed < MaxDisturb /\ disturbed' = disturbed + 1

(* The job is not found: nothing is cleaned. *)
NotFound ==
    /\ queued /\ seen = NoJob
    /\ queued' = FALSE
    /\ UNCHANGED <<jobs, objects, expectations, roleCache, cleanUp, disturbed>>

(* Mutant: the role cache is left to the next job. *)
KeepJobCache == UNCHANGED roleCache

deleteJobCache == roleCache' = 0

(* Mutant: the finalizer is removed from the copy, which is not stored. *)
FinalizerNotStored ==
    /\ queued /\ seen # NoJob /\ seen.deleting
    /\ queued' = FALSE
    /\ expected' = [k \in Keys |-> 0] /\ records' = "None"
    /\ deleteJobCache
    /\ UNCHANGED <<jobs, objects, cleanUp, disturbed>>

(* CleanForJob, then the role cache, then the finalizer; with it the job   *)
(* is gone.                                                                *)
finalize ==
    /\ queued /\ seen # NoJob /\ seen.deleting
    /\ expected' = [k \in Keys |-> 0] /\ records' = "None"
    /\ deleteJobCache
    /\ \/ seen = stored /\ stored' = NoJob /\ queued' = FALSE /\ UNCHANGED disturbed
       \/ WriteFails /\ UNCHANGED <<stored, queued>>
    /\ UNCHANGED <<seen, uids, finalized, finished, objects, cleanUp>>

Managed == queued /\ seen # NoJob /\ ~seen.deleting

(* setDefault stores the finalizer only together with a change of the      *)
(* spec.                                                                   *)
setDefault ==
    /\ Managed /\ ~seen.complete
    /\ \/ /\ seen = stored
          /\ stored' = [stored EXCEPT !.complete = TRUE, !.finalizer = stored.dependent]
          /\ finalized' = IF stored.dependent THEN finalized \union {stored.uid} ELSE finalized
          /\ queued' = FALSE
          /\ UNCHANGED disturbed
       \/ WriteFails /\ UNCHANGED <<stored, finalized, queued>>
    /\ UNCHANGED <<seen, uids, finished, objects, expectations, roleCache, cleanUp>>

(* Mutant: a record is valid until its creations are reported. *)
NeverExpires == records # "None" => \A k \in Keys : expected[k] <= 0

SatisfiedExpectations == records = "Valid" => \A k \in Keys : expected[k] <= 0

SkipReconcile ==
    /\ Managed /\ seen.complete /\ ~SatisfiedExpectations
    /\ queued' = FALSE
    /\ UNCHANGED <<jobs, objects, expectations, roleCache, cleanUp, disturbed>>

(* Mutant: the records are not reset. *)
RaiseOnly(p, svc) ==
    /\ expected' = [k \in Keys |-> expected[k] +
          IF (IF k = "pods" THEN p ELSE svc) \in {"created", "timeout"} THEN 1 ELSE 0]
    /\ records' = "Valid"

(* ResetExpectations, and one creation more for every call that was made   *)
(* and not refused.                                                        *)
ExpectCalls(p, svc) ==
    /\ expected' = [k \in Keys |->
          IF (IF k = "pods" THEN p ELSE svc) \in {"created", "timeout"} THEN 1 ELSE 0]
    /\ records' = "Valid"

(* GetPodsForJob: what the cache lists under an owner of the name, whatever *)
(* the UID of that owner.                                                   *)
GetPodsForJob == {listed} \ {NoPod}

(* A creation fails while an object of the name exists. *)
CreateCall(needed, exists) ==
    IF ~needed THEN {"none"}
    ELSE IF exists THEN {"exists"}
    ELSE {"created", "timeout"}
Cost(call) == IF call = "timeout" THEN 1 ELSE 0

(* The phase deduced from the list: a pod of a role that has started and   *)
(* is not restarted fails it when it is missing.                           *)
Deduced ==
    IF GetPodsForJob = {} THEN IF seen.phase = "Running" THEN "Finished" ELSE seen.phase
    ELSE IF \E p \in GetPodsForJob : p.stage = "Succeeded" THEN "Finished"
    ELSE "Running"

(* Mutant: the job is queued for cleanup before its phase is stored. *)
QueueBeforeWrite(phase, done) ==
    cleanUp' = IF phase = "Finished" THEN cleanUp \union {seen.uid} ELSE cleanUp

(* Mutant: the job is queued for cleanup when its phase changes. *)
QueueOnce(phase, done) ==
    cleanUp' = IF done /\ phase = "Finished" /\ seen.phase # "Finished"
               THEN cleanUp \union {seen.uid} ELSE cleanUp

OnJobFinished(phase, done) ==
    cleanUp' = IF done /\ phase = "Finished" THEN cleanUp \union {seen.uid} ELSE cleanUp

(* HandleRolePhases: on a change of phase, and in Running in any case. *)
Publish(phase, done) ==
    roleCache' = IF done /\ seen.dependent /\ (phase # seen.phase \/ phase = "Running")
                 THEN seen.uid ELSE roleCache

(* UpdateJobStatusInApiServer, if the status changed: an old copy is       *)
(* refused, and the call may fail.                                         *)
StatusWritten(phase) ==
    IF phase = seen.phase THEN {TRUE}
    ELSE {seen = stored, FALSE}

(* The phase is not deduced while a pod is being created. *)
NextPhase(p) == IF p = "none" /\ seen.phase # "Finished" THEN Deduced ELSE seen.phase

(* The pod, then the service, then the status, then what follows from it;  *)
(* the first error ends the reconcile and has it retried.                  *)
ReconcileCalls(p, svc, written) ==
    LET phase == NextPhase(p)
        called == "exists" \notin {p, svc}
        done == called /\ written
    IN  /\ pod' = IF p = "created" THEN [owner |-> seen.uid, stage |-> "Running"] ELSE pod
        /\ service' = IF svc = "created" THEN seen.uid ELSE service
        /\ news' = news \union (IF p = "created" THEN {<<"pods", seen.uid>>} ELSE {})
                        \union (IF svc = "created" THEN {<<"services", seen.uid>>} ELSE {})
        /\ ExpectCalls(p, svc)
        /\ disturbed' = disturbed + Cost(p) + Cost(svc)
                     + (IF called /\ ~written /\ seen = stored THEN 1 ELSE 0)
        /\ disturbed' <= MaxDisturb
        /\ stored' = IF done /\ phase # seen.phase
                     THEN [stored EXCEPT !.phase = phase] ELSE stored
        /\ finished' = IF done /\ phase = "Finished"
                       THEN finished \union {seen.uid} ELSE finished
        /\ Publish(phase, done)
        /\ OnJobFinished(phase, done)
        /\ queued' = ~done

ReconcileJobs ==
    /\ Managed /\ seen.complete /\ SatisfiedExpectations
    /\ \E p \in CreateCall(GetPodsForJob = {} /\ seen.phase = "Pending", pod # NoPod) :
       \E svc \in CreateCall(p # "exists" /\ listedService = 0 /\ seen.phase # "Finished",
                             service # 0) :
       \E written \in StatusWritten(NextPhase(p)) : ReconcileCalls(p, svc, written)
    /\ UNCHANGED <<seen, uids, finalized, listed, listedService>>

(* cleanupNextItem takes the job that has the name now, and deletes what   *)
(* is listed under the name; a failure has it tried again.                 *)
cleanupNextItem ==
    /\ cleanUp # {}
    /\ \/ /\ seen = NoJob
          /\ cleanUp' = {}
          /\ UNCHANGED <<pod, service, disturbed>>
       \/ /\ seen # NoJob
          /\ pod' = IF GetPodsForJob # {} THEN NoPod ELSE pod
          /\ \/ /\ service' = IF listedService # 0 THEN 0 ELSE service
                /\ cleanUp' = {}
                /\ UNCHANGED disturbed
             \/ /\ disturbed < MaxDisturb /\ disturbed' = disturbed + 1
                /\ UNCHANGED <<service, cleanUp>>
    /\ UNCHANGED <<jobs, listed, listedService, news, expectations, roleCache, queued>>

(* The process is restarted: what it kept in memory is gone, and the       *)
(* informers list what there is.                                           *)
Restart ==
    /\ disturbed < MaxDisturb /\ disturbed' = disturbed + 1
    /\ seen' = stored
    /\ listed' = pod /\ listedService' = service /\ news' = {}
    /\ expected' = [k \in Keys |-> 0] /\ records' = "None"
    /\ roleCache' = 0
    /\ cleanUp' = {}
    /\ queued' = (stored # NoJob)
    /\ UNCHANGED <<stored, uids, finalized, finished, pod, service>>

Reconcile ==
    NotFound \/ finalize \/ setDefault \/ SkipReconcile \/ ReconcileJobs

Next ==
    \/ Submit \/ Delete
    \/ CollectPod \/ CollectService \/ PodSucceeds
    \/ JobEvent \/ PodChanged \/ ServiceDeleted \/ Resync
    \/ \E u \in Uid : PodAdded(u) \/ ServiceAdded(u)
    \/ Expire
    \/ Reconcile \/ cleanupNextItem \/ Restart

Spec == Init /\ [][Next]_vars

(* Work queues are worked off, informers deliver and resync, records       *)
(* expire, and the garbage collector collects.                             *)
FairSpec ==
    /\ Spec
    /\ WF_vars(Reconcile) /\ WF_vars(cleanupNextItem)
    /\ WF_vars(JobEvent) /\ WF_vars(PodChanged) /\ WF_vars(ServiceDeleted) /\ WF_vars(Resync)
    /\ \A u \in Uid : WF_vars(PodAdded(u)) /\ WF_vars(ServiceAdded(u))
    /\ WF_vars(CollectPod) /\ WF_vars(CollectService)
    /\ WF_vars(Expire)

-----------------------------------------------------------------------------
(* Properties *)

(* The types of the variables: a record is lowered below zero by at most   *)
(* one late report of each job of the name, those that are still to come   *)
(* included.                                                               *)
TypeOK ==
    /\ {stored, seen} \subseteq Jobs \union {NoJob}
    /\ uids \in 0 .. MaxUid
    /\ {pod, listed} \subseteq Pods \union {NoPod}
    /\ news \subseteq Keys \X Uid
    /\ {service, listedService, roleCache} \subseteq 0 .. MaxUid
    /\ expected \in [Keys -> -MaxUid .. 1] /\ records \in {"None", "Valid", "Expired"}
    /\ cleanUp \subseteq Uid /\ finalized \subseteq Uid /\ finished \subseteq Uid
    /\ queued \in BOOLEAN
    /\ disturbed \in 0 .. MaxDisturb

(* What a job that was stored with the finalizer published does not        *)
(* survive it: once that job is gone, the role cache no longer tells the   *)
(* pods of the next job of the name that the roles they wait for run       *)
(* (finalize, deleteJobCache).  It does survive a job whose spec was       *)
(* complete when it was submitted, which never gets the finalizer.         *)
CacheDiesWithJob ==
    roleCache \in finalized => stored.uid = roleCache

(* Why it does not: a job with the finalizer keeps it, it is gone only by  *)
(* finalize, the informer's copy then says that it is being deleted, and   *)
(* from such a copy nothing is published.  A job is put into the           *)
(* CleanUpQueue only when it is stored as finished.                        *)
FinalizerHolds ==
    /\ {stored.uid, seen.uid} \subseteq 0 .. uids
    /\ finalized \subseteq 1 .. uids
    /\ stored.uid \in finalized => stored.finalizer /\ stored.complete
    /\ seen.uid \in finalized /\ seen.uid # stored.uid => seen.deleting
    /\ cleanUp \subseteq finished

(* The job that has the name for good is served in the end: it finishes or *)
(* gets a pod and a service of its own, in spite of what the operator      *)
(* still knows of its predecessors - expectations that no event lowers any *)
(* more, their pods in the list, their service with the name of its own,   *)
(* their entry in the CleanUpQueue.                                        *)
LastJobIsServed ==
    \A u \in Uid :
        <>[](stored.uid = u /\ ~stored.deleting) =>
            <>(\/ u \in finished
               \/ pod.owner = u /\ service = u)

(* Nothing is left of a finished job that keeps the name.  One item of the *)
(* CleanUpQueue is not enough for that: it deletes what is listed when it  *)
(* comes due, which may not yet show the service the job was given in the  *)
(* reconcile that found it finished; it may have been put there by a       *)
(* predecessor; and it is lost when the process stops.  OnJobFinished puts *)
(* the name into the queue in every reconcile.                             *)
FinishedLeavesNothing ==
    \A u \in Uid :
        <>[](stored.uid = u /\ ~stored.deleting /\ stored.phase = "Finished")
            => <>[](pod = NoPod /\ service = 0)

(* A job whose deletion was asked for is gone in the end: nothing the      *)
(* operator waits for (expectations, refused updates) holds back its       *)
(* finalizer.                                                              *)
DeletedIsGone == (stored # NoJob /\ stored.deleting) ~> (stored = NoJob)
=============================================================================
