------------------------- MODULE JobLifetimeProofs -------------------------
(***************************************************************************)
(* Proofs about JobLifetime, for every number of jobs that are submitted   *)
(* under the name, complete or not, with or without dependences, and every *)
(* number of failed calls and restarts.                                    *)
(***************************************************************************)
EXTENDS JobLifetime, FiniteSetTheorems, TLAPS

LEMMA MaxUidType == MaxUid \in Nat
  BY SubmissionsAssumption DEF MaxUid

-----------------------------------------------------------------------------
(* Types of jobs and pods. *)

JobOrNone == Jobs \union {NoJob}
PodOrNone == Pods \union {NoPod}

(* The records of the keys are kept apart from the other types: how far    *)
(* they are lowered is a matter of the reports that are still to come.     *)
TypesButRecords ==
    /\ stored \in JobOrNone /\ seen \in JobOrNone
    /\ uids \in 0 .. MaxUid
    /\ pod \in PodOrNone /\ listed \in PodOrNone
    /\ news \subseteq Keys \X Uid
    /\ service \in 0 .. MaxUid /\ listedService \in 0 .. MaxUid /\ roleCache \in 0 .. MaxUid
    /\ records \in {"None", "Valid", "Expired"}
    /\ cleanUp \subseteq Uid /\ finalized \subseteq Uid /\ finished \subseteq Uid
    /\ queued \in BOOLEAN
    /\ disturbed \in 0 .. MaxDisturb

(* The creations of a key that are still to be reported. *)
Outstanding(k) == {u \in Uid : <<k, u>> \in news}

(* A report lowers the record and the number of outstanding reports by     *)
(* one, so the record and that number never differ by more than MaxUid.    *)
RecordsAreBounded ==
    /\ expected \in [Keys -> Int]
    /\ \A k \in Keys : /\ expected[k] <= 1
                       /\ expected[k] >= Cardinality(Outstanding(k)) - MaxUid

LEMMA UidsFinite == IsFiniteSet(Uid) /\ Cardinality(Uid) = MaxUid
<1>1. 1 \in Int /\ MaxUid \in Int /\ (IF 1 > MaxUid THEN 0 ELSE MaxUid - 1 + 1) = MaxUid
  BY MaxUidType
<1>2. IsFiniteSet(1 .. MaxUid) /\ Cardinality(1 .. MaxUid) = IF 1 > MaxUid THEN 0 ELSE MaxUid - 1 + 1
  BY <1>1, FS_Interval, Zenon
<1> QED
  BY <1>1, <1>2 DEF Uid

LEMMA OutstandingBound ==
    ASSUME NEW S \in SUBSET Uid
    PROVE  IsFiniteSet(S) /\ Cardinality(S) \in Nat /\ Cardinality(S) <= MaxUid
  BY UidsFinite, FS_Subset, FS_CardinalityType

(* The types follow from the two parts. *)
LEMMA TypesCombine == ASSUME TypesButRecords, RecordsAreBounded PROVE TypeOK
<1>1. ASSUME NEW k \in Keys PROVE expected[k] \in -MaxUid .. 1
  <2>1. Cardinality(Outstanding(k)) \in Nat
    BY OutstandingBound DEF Outstanding
  <2> QED
    BY <2>1, MaxUidType DEF RecordsAreBounded
<1>2. expected \in [Keys -> -MaxUid .. 1]
  BY <1>1 DEF RecordsAreBounded
<1> QED
  BY <1>2 DEF TypesButRecords, TypeOK, JobOrNone, PodOrNone

LEMMA NoJobType == /\ NoJob \notin Jobs /\ NoJob.uid = 0
                   /\ \A j \in JobOrNone : j.uid = 0 <=> j = NoJob
                   /\ \A j \in Jobs : j.uid \in Uid /\ j.uid \in 1 .. MaxUid
  BY MaxUidType DEF NoJob, Jobs, JobOrNone, Uid

LEMMA NoPodType == \A p \in PodOrNone : p # NoPod => p \in Pods
  BY DEF PodOrNone

-----------------------------------------------------------------------------
CallResult == {"none", "exists", "created", "timeout"}

(* A reconcile makes two calls and writes the status, from the latest copy *)
(* if it changes it.                                                       *)
LEMMA CallResults ==
    ASSUME ReconcileJobs
    PROVE  \E p \in CallResult, svc \in CallResult, written \in BOOLEAN :
              /\ ReconcileCalls(p, svc, written)
              /\ written /\ NextPhase(p) # seen.phase => seen = stored
<1>1. PICK p \in CreateCall(GetPodsForJob = {} /\ seen.phase = "Pending", pod # NoPod) :
         \E svc \in CreateCall(p # "exists" /\ listedService = 0 /\ seen.phase # "Finished",
                               service # 0) :
         \E written \in StatusWritten(NextPhase(p)) : ReconcileCalls(p, svc, written)
  BY Zenon DEF ReconcileJobs
<1>2. PICK svc \in CreateCall(p # "exists" /\ listedService = 0 /\ seen.phase # "Finished",
                              service # 0) :
         \E written \in StatusWritten(NextPhase(p)) : ReconcileCalls(p, svc, written)
  BY <1>1, Zenon
<1>3. PICK written \in StatusWritten(NextPhase(p)) : ReconcileCalls(p, svc, written)
  BY <1>2, Zenon
<1>4. p \in CallResult /\ svc \in CallResult
  BY DEF CreateCall, CallResult
<1>5. written \in BOOLEAN /\ (written /\ NextPhase(p) # seen.phase => seen = stored)
  BY Zenon DEF StatusWritten
<1> QED
  BY <1>3, <1>4, <1>5, Zenon

LEMMA TypesStep == TypesButRecords /\ Next => TypesButRecords'
<1> SUFFICES ASSUME TypesButRecords, Next PROVE TypesButRecords'
  OBVIOUS
<1> USE MaxUidType, BoundsAssumption DEF jobs, objects, expectations
<1>1. CASE Submit
  <2>1. stored' \in Jobs /\ uids' \in 0 .. MaxUid
    <3>1. PICK s \in Submissions[uids + 1] :
             stored' = [NoJob EXCEPT !.uid = uids + 1, !.complete = s.complete,
                                     !.dependent = s.dependent]
      BY <1>1 DEF Submit
    <3>2. uids + 1 \in 1 .. MaxUid /\ uids' = uids + 1
      BY <1>1 DEF Submit, TypesButRecords
    <3>3. s \in [complete : BOOLEAN, dependent : BOOLEAN]
      BY <3>1, <3>2, SubmissionsAssumption DEF MaxUid
    <3>4. s.complete \in BOOLEAN /\ s.dependent \in BOOLEAN
      BY <3>3
    <3>5. stored' = [uid |-> uids + 1, deleting |-> FALSE, finalizer |-> FALSE,
                     complete |-> s.complete, dependent |-> s.dependent, phase |-> "Pending"]
      BY <3>1 DEF NoJob
    <3>6. uids + 1 \in Uid
      BY <3>2 DEF Uid
    <3>7. uids' \in 0 .. MaxUid
      BY <3>2
    <3> QED
      BY <3>4, <3>5, <3>6, <3>7, Zenon DEF Jobs
  <2> QED
    BY <1>1, <2>1 DEF Submit, TypesButRecords, JobOrNone
<1>2. CASE Delete
  <2>1. stored' \in JobOrNone
    BY <1>2 DEF Delete, TypesButRecords, JobOrNone, Jobs
  <2> QED
    BY <1>2, <2>1 DEF Delete, TypesButRecords
<1>3. CASE CollectPod \/ PodSucceeds
  <2>1. pod' \in PodOrNone
    BY <1>3 DEF CollectPod, PodSucceeds, TypesButRecords, PodOrNone, Pods, NoPod
  <2> QED
    BY <1>3, <2>1 DEF CollectPod, PodSucceeds, TypesButRecords
<1>4. CASE CollectService
  BY <1>4 DEF CollectService, TypesButRecords
<1>5. CASE JobEvent
  BY <1>5 DEF JobEvent, TypesButRecords
<1>6. CASE PodChanged
  <2>1. listed' \in PodOrNone
    BY <1>6 DEF PodChanged, TypesButRecords, PodOrNone
  <2> QED
    BY <1>6, <2>1 DEF PodChanged, TypesButRecords
<1>7. CASE ServiceDeleted \/ Resync \/ Expire \/ NotFound \/ SkipReconcile
  <2>1. CASE ServiceDeleted
    BY <2>1 DEF ServiceDeleted, TypesButRecords
  <2>2. CASE Expire
    BY <2>2 DEF Expire, TypesButRecords
  <2>3. CASE Resync \/ NotFound \/ SkipReconcile
    <3>1. queued' \in BOOLEAN /\ UNCHANGED <<jobs, objects, expectations, roleCache, cleanUp, disturbed>>
      BY <2>3, Zenon DEF Resync, NotFound, SkipReconcile
    <3> QED
      BY <3>1 DEF TypesButRecords
  <2> QED
    BY <1>7, <2>1, <2>2, <2>3
<1>8. CASE \E u \in Uid : PodAdded(u)
  <2>1. listed' \in PodOrNone /\ news' \subseteq news
    BY <1>8 DEF PodAdded, AddObject, PodOrNone, Pods
  <2> QED
    BY <1>8, <2>1 DEF PodAdded, AddObject, TypesButRecords
<1>9. CASE \E u \in Uid : ServiceAdded(u)
  <2>1. listedService' \in 0 .. MaxUid /\ news' \subseteq news
    BY <1>9 DEF ServiceAdded, AddObject, Uid
  <2> QED
    BY <1>9, <2>1 DEF ServiceAdded, AddObject, TypesButRecords
<1>10. CASE finalize
  <2>1. stored' \in JobOrNone /\ queued' \in BOOLEAN
    BY <1>10, Zenon DEF finalize, WriteFails, TypesButRecords, JobOrNone
  <2>2. disturbed' = disturbed \/ (disturbed < MaxDisturb /\ disturbed' = disturbed + 1)
    BY <1>10, Zenon DEF finalize, WriteFails
  <2>3. disturbed' \in 0 .. MaxDisturb
    BY <2>2 DEF TypesButRecords
  <2> QED
    BY <1>10, <2>1, <2>3 DEF finalize, deleteJobCache, TypesButRecords
<1>11. CASE setDefault
  <2>1. queued' \in BOOLEAN /\ disturbed' \in 0 .. MaxDisturb
    <3>1. disturbed' = disturbed \/ (disturbed < MaxDisturb /\ disturbed' = disturbed + 1)
      BY <1>11, Zenon DEF setDefault, WriteFails
    <3>2. disturbed' \in 0 .. MaxDisturb
      BY <3>1 DEF TypesButRecords
    <3>3. queued' \in BOOLEAN
      BY <1>11, Zenon DEF setDefault, TypesButRecords
    <3> QED
      BY <3>2, <3>3
  <2>2. stored' \in JobOrNone /\ finalized' \subseteq Uid
    <3>1. CASE UNCHANGED <<stored, finalized>>
      BY <3>1 DEF TypesButRecords
    <3>2. CASE /\ seen = stored
               /\ stored' = [stored EXCEPT !.complete = TRUE, !.finalizer = stored.dependent]
               /\ finalized' = IF stored.dependent THEN finalized \union {stored.uid} ELSE finalized
      <4>1. stored \in Jobs
        BY <1>11, <3>2 DEF setDefault, Managed, TypesButRecords, JobOrNone
      <4> QED
        BY <3>2, <4>1 DEF Jobs, JobOrNone, TypesButRecords
    <3> QED
      BY <1>11, <3>1, <3>2 DEF setDefault
  <2> QED
    BY <1>11, <2>1, <2>2 DEF setDefault, TypesButRecords
<1>12. CASE cleanupNextItem
  <2>1. pod' \in PodOrNone /\ service' \in 0 .. MaxUid /\ cleanUp' \subseteq Uid
        /\ disturbed' \in 0 .. MaxDisturb
    BY <1>12 DEF cleanupNextItem, TypesButRecords, PodOrNone
  <2> QED
    BY <1>12, <2>1 DEF cleanupNextItem, TypesButRecords
<1>13. CASE Restart
  BY <1>13 DEF Restart, TypesButRecords
<1>14. CASE ReconcileJobs
  <2>1. PICK p \in CallResult, svc \in CallResult, written \in BOOLEAN :
           ReconcileCalls(p, svc, written) /\ (written /\ NextPhase(p) # seen.phase => seen = stored)
    BY <1>14, CallResults
  <2>2. /\ seen \in Jobs /\ seen.uid \in Uid /\ seen.uid \in 0 .. MaxUid
        /\ seen.phase \in {"Pending", "Running", "Finished"}
    BY <1>14 DEF ReconcileJobs, Managed, TypesButRecords, JobOrNone, Jobs, Uid
  <2>3. NextPhase(p) \in {"Pending", "Running", "Finished"}
    BY <2>2 DEF NextPhase, Deduced
  <2>4. stored' \in JobOrNone
    BY <2>1, <2>2, <2>3 DEF ReconcileCalls, TypesButRecords, JobOrNone, Jobs
  <2>5. pod' \in PodOrNone /\ service' \in 0 .. MaxUid /\ news' \subseteq Keys \X Uid
    BY <2>1, <2>2 DEF ReconcileCalls, TypesButRecords, PodOrNone, Pods, Keys
  <2>6. disturbed' \in 0 .. MaxDisturb
    BY <2>1 DEF ReconcileCalls, Cost, TypesButRecords
  <2>7. /\ finished' \subseteq Uid /\ cleanUp' \subseteq Uid /\ roleCache' \in 0 .. MaxUid
        /\ queued' \in BOOLEAN /\ records' = "Valid"
    BY <2>1, <2>2 DEF ReconcileCalls, Publish, OnJobFinished, ExpectCalls, TypesButRecords
  <2> QED
    BY <1>14, <2>4, <2>5, <2>6, <2>7 DEF ReconcileJobs, TypesButRecords
<1> QED
  BY <1>1, <1>2, <1>3, <1>4, <1>5, <1>6, <1>7, <1>8, <1>9, <1>10, <1>11, <1>12, <1>13, <1>14
  DEF Next, Reconcile

-----------------------------------------------------------------------------
(* Records that were reset, or are raised from zero, are within bounds. *)
LEMMA RecordsReset ==
    ASSUME expected' \in [Keys -> 0 .. 1]
    PROVE  RecordsAreBounded'
<1> SUFFICES ASSUME NEW k \in Keys
             PROVE  expected'[k] <= 1 /\ expected'[k] >= Cardinality(Outstanding(k)') - MaxUid
  BY DEF RecordsAreBounded
<1>1. Cardinality(Outstanding(k)') \in Nat /\ Cardinality(Outstanding(k)') <= MaxUid
  BY OutstandingBound DEF Outstanding
<1>2. expected'[k] \in 0 .. 1
  OBVIOUS
<1> QED
  BY <1>1, <1>2, MaxUidType

(* A report takes one from the record and one from what is outstanding. *)
LEMMA RecordsReported ==
    ASSUME RecordsAreBounded, NEW k \in Keys, NEW u \in Uid, <<k, u>> \in news, AddObject(k, u)
    PROVE  RecordsAreBounded'
<1>1. expected' \in [Keys -> Int]
  BY DEF AddObject, RecordsAreBounded
<1>2. ASSUME NEW j \in Keys
      PROVE  expected'[j] <= 1 /\ expected'[j] >= Cardinality(Outstanding(j)') - MaxUid
  <2>1. expected[j] \in Int /\ expected[j] <= 1 /\ expected[j] >= Cardinality(Outstanding(j)) - MaxUid
    BY DEF RecordsAreBounded
  <2>2. CASE j = k
    <3>1. expected'[j] \in {expected[j], expected[j] - 1}
      BY <2>2 DEF AddObject, RecordsAreBounded
    <3>2. Outstanding(j)' = Outstanding(j) \ {u} /\ u \in Outstanding(j)
      BY <2>2 DEF AddObject, Outstanding
    <3>3. IsFiniteSet(Outstanding(j)) /\ Cardinality(Outstanding(j)) \in Nat
      BY OutstandingBound DEF Outstanding
    <3>4. Cardinality(Outstanding(j) \ {u}) = Cardinality(Outstanding(j)) - 1
      BY <3>2, <3>3, FS_RemoveElement
    <3> QED
      BY <2>1, <3>1, <3>2, <3>3, <3>4, MaxUidType
  <2>3. CASE j # k
    <3>1. expected'[j] = expected[j] /\ Outstanding(j)' = Outstanding(j)
      BY <2>3 DEF AddObject, Outstanding, RecordsAreBounded
    <3> QED
      BY <2>1, <3>1
  <2> QED
    BY <2>2, <2>3
<1> QED
  BY <1>1, <1>2 DEF RecordsAreBounded

LEMMA RecordsStep == ASSUME RecordsAreBounded, Next PROVE RecordsAreBounded'
<1>1. CASE UNCHANGED <<expected, news>>
  BY <1>1 DEF RecordsAreBounded, Outstanding
<1>2. CASE finalize \/ Restart
  <2>1. expected' = [k \in Keys |-> 0]
    BY <1>2 DEF finalize, Restart
  <2> QED
    BY <2>1, RecordsReset
<1>3. CASE \E u \in Uid : PodAdded(u) \/ ServiceAdded(u)
  <2>1. PICK u \in Uid, k \in Keys : <<k, u>> \in news /\ AddObject(k, u)
    BY <1>3 DEF PodAdded, ServiceAdded, Oldest, Keys
  <2> QED
    BY <2>1, RecordsReported
<1>4. CASE ReconcileJobs
  <2>1. PICK p \in CallResult, svc \in CallResult : ExpectCalls(p, svc)
    BY <1>4, CallResults DEF ReconcileCalls
  <2>2. expected' \in [Keys -> 0 .. 1]
    BY <2>1 DEF ExpectCalls
  <2> QED
    BY <2>2, RecordsReset
<1> QED
  BY <1>1, <1>2, <1>3, <1>4
  DEF Next, Submit, Delete, CollectPod, CollectService, PodSucceeds, JobEvent, PodChanged,
      ServiceDeleted, Resync, Expire, Reconcile, NotFound, setDefault, SkipReconcile,
      cleanupNextItem, jobs, objects, expectations

-----------------------------------------------------------------------------
(* The finalizer, the role cache and the CleanUpQueue. *)

LEMMA FinalizerFrame ==
    ASSUME FinalizerHolds, CacheDiesWithJob,
           UNCHANGED <<stored, seen, uids, finalized, finished, roleCache>>,
           cleanUp' \subseteq cleanUp
    PROVE  FinalizerHolds' /\ CacheDiesWithJob'
  BY DEF FinalizerHolds, CacheDiesWithJob

LEMMA FinalizerStep ==
    ASSUME TypesButRecords, FinalizerHolds, CacheDiesWithJob, Next
    PROVE  FinalizerHolds' /\ CacheDiesWithJob'
<1> USE DEF jobs
<1>1. stored \in JobOrNone /\ seen \in JobOrNone /\ uids \in Nat /\ NoJob.uid = 0
  BY NoJobType DEF TypesButRecords
<1>2. 0 \notin finalized
  BY <1>1 DEF FinalizerHolds
<1>3. CASE Submit
  <2>1. PICK s \in Submissions[uids + 1] :
           stored' = [NoJob EXCEPT !.uid = uids + 1, !.complete = s.complete,
                                   !.dependent = s.dependent]
    BY <1>3 DEF Submit
  <2>2. stored'.uid = uids + 1 /\ stored = NoJob
    BY <1>3, <2>1 DEF Submit, NoJob
  <2>3. uids' = uids + 1 /\ UNCHANGED <<seen, finalized, finished, roleCache, cleanUp>>
    BY <1>3 DEF Submit
  <2>4. uids + 1 \notin finalized
    BY <1>1 DEF FinalizerHolds
  <2>5. FinalizerHolds'
    BY <1>1, <2>2, <2>3, <2>4 DEF FinalizerHolds
  <2>6. CacheDiesWithJob'
    BY <1>1, <1>2, <2>2, <2>3 DEF CacheDiesWithJob
  <2> QED
    BY <2>5, <2>6
<1>4. CASE Delete
  <2>1. UNCHANGED <<seen, uids, finalized, finished, roleCache, cleanUp>>
    BY <1>4 DEF Delete
  <2>2. CASE stored.finalizer
    <3>1. stored' = [stored EXCEPT !.deleting = TRUE] /\ stored \in Jobs
      BY <1>1, <1>4, <2>2 DEF Delete, JobOrNone
    <3>2. /\ stored'.uid = stored.uid /\ stored'.finalizer = stored.finalizer
          /\ stored'.complete = stored.complete
      BY <3>1 DEF Jobs
    <3> QED
      BY <2>1, <3>2 DEF FinalizerHolds, CacheDiesWithJob
  <2>3. CASE ~stored.finalizer
    <3>1. stored' = NoJob /\ stored.uid \notin finalized
      BY <1>4, <2>3 DEF Delete, FinalizerHolds
    <3> QED
      BY <1>1, <1>2, <2>1, <3>1 DEF FinalizerHolds, CacheDiesWithJob
  <2> QED
    BY <2>2, <2>3
<1>5. CASE JobEvent
  <2>1. seen' = stored /\ UNCHANGED <<stored, uids, finalized, finished, roleCache, cleanUp>>
    BY <1>5 DEF JobEvent
  <2> QED
    BY <2>1 DEF FinalizerHolds, CacheDiesWithJob
<1>6. CASE Restart
  <2>1. /\ seen' = stored /\ roleCache' = 0 /\ cleanUp' = {}
        /\ UNCHANGED <<stored, uids, finalized, finished>>
    BY <1>6 DEF Restart
  <2> QED
    BY <1>2, <2>1 DEF FinalizerHolds, CacheDiesWithJob
<1>7. CASE finalize
  <2>1. /\ roleCache' = 0 /\ seen.deleting
        /\ UNCHANGED <<seen, uids, finalized, finished, cleanUp>>
        /\ stored' = stored \/ (seen = stored /\ stored' = NoJob)
    BY <1>7 DEF finalize, deleteJobCache
  <2> QED
    BY <1>1, <1>2, <2>1 DEF FinalizerHolds, CacheDiesWithJob
<1>8. CASE setDefault
  <2>1. UNCHANGED <<seen, uids, finished, roleCache, cleanUp>>
    BY <1>8 DEF setDefault
  <2>2. CASE UNCHANGED <<stored, finalized>>
    BY <2>1, <2>2 DEF FinalizerHolds, CacheDiesWithJob
  <2>3. CASE /\ seen = stored
             /\ stored' = [stored EXCEPT !.complete = TRUE, !.finalizer = stored.dependent]
             /\ finalized' = IF stored.dependent THEN finalized \union {stored.uid} ELSE finalized
    <3>1. stored \in Jobs
      BY <1>1, <1>8, <2>3 DEF setDefault, Managed, JobOrNone
    <3>2. /\ stored'.uid = stored.uid /\ stored'.finalizer = stored.dependent
          /\ stored'.complete
      BY <2>3, <3>1 DEF Jobs
    <3>3. stored.uid \in 1 .. uids
      BY <1>1, <3>1, NoJobType DEF FinalizerHolds
    <3>4. finalized' \subseteq 1 .. uids
      BY <2>3, <3>3 DEF FinalizerHolds
    <3>5. stored.uid \notin finalized
      BY <1>8, <2>3 DEF setDefault, FinalizerHolds
    <3>6. stored'.uid \in finalized' => stored'.finalizer /\ stored'.complete
      BY <2>3, <3>2, <3>5
    <3> QED
      BY <2>1, <2>3, <3>2, <3>3, <3>4, <3>6 DEF FinalizerHolds, CacheDiesWithJob
  <2> QED
    BY <1>8, <2>2, <2>3 DEF setDefault
<1>9. CASE ReconcileJobs
  <2>1. PICK p \in CallResult, svc \in CallResult, written \in BOOLEAN :
           ReconcileCalls(p, svc, written) /\ (written /\ NextPhase(p) # seen.phase => seen = stored)
    BY <1>9, CallResults
  <2>2. UNCHANGED <<seen, uids, finalized>> /\ ~seen.deleting
    BY <1>9 DEF ReconcileJobs, Managed
  <2>3. seen.uid \in finalized => seen.uid = stored.uid
    BY <2>2 DEF FinalizerHolds
  <2>4. /\ stored'.uid = stored.uid /\ stored'.finalizer = stored.finalizer
        /\ stored'.complete = stored.complete
    BY <1>1, <2>1 DEF ReconcileCalls, JobOrNone, Jobs, NoJob
  <2>5. roleCache' \in {roleCache, seen.uid}
    BY <2>1 DEF ReconcileCalls, Publish
  <2>6. cleanUp' \subseteq finished'
    BY <2>1 DEF ReconcileCalls, OnJobFinished, FinalizerHolds
  <2> QED
    BY <2>2, <2>3, <2>4, <2>5, <2>6 DEF FinalizerHolds, CacheDiesWithJob
<1>10. CASE \/ CollectPod \/ CollectService \/ PodSucceeds \/ PodChanged \/ ServiceDeleted
            \/ Resync \/ (\E u \in Uid : PodAdded(u) \/ ServiceAdded(u)) \/ Expire
            \/ NotFound \/ SkipReconcile \/ cleanupNextItem
  <2>1. /\ UNCHANGED <<stored, seen, uids, finalized, finished, roleCache>>
        /\ cleanUp' \subseteq cleanUp
    BY <1>10 DEF CollectPod, CollectService, PodSucceeds, PodChanged, ServiceDeleted, Resync,
                 PodAdded, ServiceAdded, Expire, NotFound, SkipReconcile, cleanupNextItem
  <2> QED
    BY <2>1, FinalizerFrame
<1> QED
  BY <1>3, <1>4, <1>5, <1>6, <1>7, <1>8, <1>9, <1>10 DEF Next, Reconcile

-----------------------------------------------------------------------------
LifetimeInv == TypesButRecords /\ RecordsAreBounded /\ FinalizerHolds /\ CacheDiesWithJob

LEMMA LifetimeInit == Init => LifetimeInv
<1> SUFFICES ASSUME Init PROVE LifetimeInv
  OBVIOUS
<1> USE MaxUidType, BoundsAssumption
<1>1. TypesButRecords
  <2>1. /\ uids \in 0 .. MaxUid /\ service \in 0 .. MaxUid /\ listedService \in 0 .. MaxUid
        /\ roleCache \in 0 .. MaxUid /\ disturbed \in 0 .. MaxDisturb
    BY DEF Init
  <2>2. stored \in JobOrNone /\ seen \in JobOrNone /\ pod \in PodOrNone /\ listed \in PodOrNone
    BY DEF Init, JobOrNone, PodOrNone
  <2>3. /\ news \subseteq Keys \X Uid /\ records \in {"None", "Valid", "Expired"}
        /\ cleanUp \subseteq Uid /\ finalized \subseteq Uid /\ finished \subseteq Uid
        /\ queued \in BOOLEAN
    BY DEF Init
  <2> QED
    BY <2>1, <2>2, <2>3, Zenon DEF TypesButRecords
<1>2. RecordsAreBounded
  <2>1. ASSUME NEW k \in Keys PROVE 0 >= Cardinality(Outstanding(k)) - MaxUid
    <3>1. Cardinality(Outstanding(k)) \in Nat /\ Cardinality(Outstanding(k)) <= MaxUid
      BY OutstandingBound DEF Outstanding
    <3> QED
      BY <3>1
  <2> QED
    BY <2>1 DEF Init, RecordsAreBounded
<1>3. FinalizerHolds /\ CacheDiesWithJob
  BY NoJobType DEF Init, FinalizerHolds, CacheDiesWithJob
<1> QED
  BY <1>1, <1>2, <1>3 DEF LifetimeInv

LEMMA LifetimeStep == LifetimeInv /\ [Next]_vars => LifetimeInv'
<1> SUFFICES ASSUME LifetimeInv, [Next]_vars PROVE LifetimeInv'
  OBVIOUS
<1>1. CASE Next
  BY <1>1, TypesStep, RecordsStep, FinalizerStep DEF LifetimeInv
<1>2. CASE UNCHANGED vars
  BY <1>2 DEF LifetimeInv, TypesButRecords, RecordsAreBounded, Outstanding, FinalizerHolds,
              CacheDiesWithJob, vars, jobs, objects, expectations
<1> QED
  BY <1>1, <1>2

(* Every variable of JobLifetime always has its type.  A record of         *)
(* expectations, which late reports of earlier jobs of the name may lower  *)
(* below zero, is lowered at most once for each job.                       *)
THEOREM LifetimeTypeCorrect == Spec => []TypeOK
<1>1. LifetimeInv => TypeOK
  BY TypesCombine DEF LifetimeInv
<1> QED
  BY <1>1, LifetimeInit, LifetimeStep, PTL DEF Spec

(* A job that was stored with the finalizer keeps it and is gone only by   *)
(* finalize, of which the informer's copy then tells, and only jobs stored *)
(* as finished are in the CleanUpQueue.                                    *)
THEOREM FinalizerIsKept == Spec => []FinalizerHolds
<1>1. LifetimeInv => FinalizerHolds
  BY DEF LifetimeInv
<1> QED
  BY <1>1, LifetimeInit, LifetimeStep, PTL DEF Spec

(* However many jobs come and go under a name: what a job that was stored  *)
(* with the finalizer published is no longer in the role cache when that   *)
(* job is gone (finalize, deleteJobCache).                                 *)
THEOREM CacheDies == Spec => []CacheDiesWithJob
<1>1. LifetimeInv => CacheDiesWithJob
  BY DEF LifetimeInv
<1> QED
  BY <1>1, LifetimeInit, LifetimeStep, PTL DEF Spec
=============================================================================
