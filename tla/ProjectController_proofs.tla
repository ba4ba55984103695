----------------------- MODULE ProjectController_proofs -----------------------
(* Proofs, for every value of the constants, of the safety properties of the *)
(* Project reconciler that MCProject checks on small instances.              *)
EXTENDS ProjectController, TLAPS

USE NoIDAssumption

(* Storing a version extends the log by it and changes no earlier version. *)
LEMMA StoreFacts ==
    ASSUME log \in Seq(Version), Len(log) \in Nat \ {0}, NEW v \in Version, Store(v)
    PROVE  /\ log' \in Seq(Version)
           /\ Len(log') = Len(log) + 1
           /\ \A i \in 1..Len(log) : log'[i] = log[i]
           /\ log'[Len(log) + 1] = v
  BY DEF Store

(* The current version is a version. *)
LEMMA LatestIsVersion ==
    ASSUME TypeOK
    PROVE  Latest \in Version /\ Len(log) \in 1..Len(log) /\ log[seen] \in Version
           /\ log[rv] \in Version /\ log[cur] \in Version
  BY DEF TypeOK, Latest

(* A status computed from a version is a status. *)
LEMMA ProjectStatusType ==
    ASSUME NEW p \in Version, NEW in \in Outcomes
    PROVE  ProjectStatus(p, in) \in Status
  BY DEF ProjectStatus, Status, Version, Reasons, Outcomes

(* Updating fields of a version yields a version with those fields. *)
LEMMA VersionUpdates ==
    ASSUME NEW v \in Version, NEW t \in IDs \union {NoID}, NEW c \in Clusters,
           NEW s \in Status
    PROVE  /\ v.uid \in Nat /\ v.gen \in Nat /\ v.gen + 1 \in Nat
           /\ [v EXCEPT !.tenant = t, !.gen = @ + 1] \in Version
           /\ [v EXCEPT !.cluster = c, !.gen = @ + 1] \in Version
           /\ [v EXCEPT !.status = s] \in Version
           /\ [v EXCEPT !.exists = FALSE] \in Version
  <1>1. v.uid \in Nat /\ v.gen \in Nat
    BY DEF Version
  <1> DEFINE g == v.gen + 1
  <1>2. g \in Nat
    BY <1>1
  <1> HIDE DEF g
  <1>3. [v EXCEPT !.tenant = t, !.gen = g] \in Version
    BY <1>2 DEF Version
  <1>4. [v EXCEPT !.cluster = c, !.gen = g] \in Version
    BY <1>2 DEF Version
  <1>5. [v EXCEPT !.status = s] \in Version /\ [v EXCEPT !.exists = FALSE] \in Version
    BY DEF Version
  <1> QED
    BY <1>1, <1>2, <1>3, <1>4, <1>5 DEF g

(* What each write of the API server stores is a version. *)
LEMMA StoredTypes ==
    ASSUME TypeOK
    PROVE  /\ \A c \in Clusters, t \in IDs \union {NoID} :
                [exists |-> TRUE, uid |-> Latest.uid + 1, gen |-> 1,
                 cluster |-> c, tenant |-> t, status |-> NoStatus] \in Version
           /\ \A c \in Clusters :
                [Latest EXCEPT !.cluster = c, !.gen = @ + 1] \in Version
           /\ \A t \in IDs :
                [Latest EXCEPT !.tenant = t, !.gen = @ + 1] \in Version
           /\ [Latest EXCEPT !.exists = FALSE] \in Version
           /\ TenantPatched \in Version
           /\ StatusPatched \in Version
  <1>1. Latest \in Version /\ log[cur] \in Version
    BY LatestIsVersion
  <1>2. NoStatus \in Status
    BY DEF NoStatus, Status
  <1>3. newID \in IDs \union {NoID} /\ outcome \in Outcomes
    BY DEF TypeOK
  <1>4. ProjectStatus(log[cur], outcome) \in Status
    BY <1>1, <1>3, ProjectStatusType
  <1>5. \E c \in Clusters : TRUE
    BY <1>1 DEF Version
  <1>6. StatusPatched \in Version
    BY <1>1, <1>3, <1>4, <1>5, VersionUpdates DEF StatusPatched
  <1>7. TenantPatched \in Version
    BY <1>1, <1>2, <1>3, <1>5, VersionUpdates DEF TenantPatched
  <1>8. \A c \in Clusters, t \in IDs \union {NoID} :
          [exists |-> TRUE, uid |-> Latest.uid + 1, gen |-> 1,
           cluster |-> c, tenant |-> t, status |-> NoStatus] \in Version
    BY <1>1, <1>2 DEF Version
  <1>9. \A c \in Clusters : [Latest EXCEPT !.cluster = c, !.gen = @ + 1] \in Version
    BY <1>1, <1>2, <1>3, VersionUpdates
  <1>10. \A t \in IDs : [Latest EXCEPT !.tenant = t, !.gen = @ + 1] \in Version
    BY <1>1, <1>2, <1>5, VersionUpdates
  <1>11. [Latest EXCEPT !.exists = FALSE] \in Version
    BY <1>1, <1>2, <1>3, <1>5, VersionUpdates
  <1> QED
    BY <1>6, <1>7, <1>8, <1>9, <1>10, <1>11

(* A write leaves the cache and the worker's copies as they are. *)
LEMMA StoreKeeps ==
    ASSUME TypeOK, NEW v \in Version, Store(v)
    PROVE  /\ log' \in Seq(Version) /\ Len(log') \in Nat \ {0}
           /\ Len(log') = Len(log) + 1 /\ Latest' = v
           /\ seen \in 1..Len(log') /\ seen < Len(log')
           /\ \A i \in 1..Len(log) : log'[i] = log[i]
           /\ log'[rv] = log[rv] /\ log'[seen] = log[seen] /\ log'[cur] = log[cur]
  <1>1. /\ log \in Seq(Version) /\ Len(log) \in Nat \ {0} /\ seen \in 1..Len(log)
        /\ rv \in 1..seen /\ cur \in 1..seen
    BY DEF TypeOK
  <1>2. /\ log' \in Seq(Version) /\ Len(log') = Len(log) + 1
        /\ \A i \in 1..Len(log) : log'[i] = log[i]
        /\ log'[Len(log) + 1] = v
    BY <1>1, StoreFacts
  <1> QED
    BY <1>1, <1>2 DEF Latest

(* Type correctness: every variable keeps its type, the cache never runs ahead *)
(* of the log, nor the worker's copies ahead of the cache, and a PUT is always *)
(* for a version that has a tenant ID.                                         *)
THEOREM TypeCorrect == Spec => []TypeOK
  <1>1. Init => TypeOK
    <2> SUFFICES ASSUME Init PROVE TypeOK
      OBVIOUS
    <2>1. PICK c \in Clusters :
            log = << [exists |-> FALSE, uid |-> 0, gen |-> 0, cluster |-> c,
                      tenant |-> NoID, status |-> NoStatus] >>
      BY DEF Init
    <2>2. NoStatus \in Status
      BY DEF NoStatus, Status
    <2>3. [exists |-> FALSE, uid |-> 0, gen |-> 0, cluster |-> c,
           tenant |-> NoID, status |-> NoStatus] \in Version
      BY <2>2 DEF Version
    <2>4. log \in Seq(Version) /\ Len(log) = 1
      BY <2>1, <2>3
    <2>5. queued \in BOOLEAN /\ timer \in BOOLEAN
      BY Zenon DEF Init
    <2> QED
      BY <2>4, <2>5 DEF Init, TypeOK, Outcomes
  <1>2. TypeOK /\ [Next]_vars => TypeOK'
    <2> SUFFICES ASSUME TypeOK, [Next]_vars PROVE TypeOK'
      OBVIOUS
    <2>a. /\ Latest \in Version /\ log[seen] \in Version
          /\ log[rv] \in Version /\ log[cur] \in Version
      BY LatestIsVersion
    <2>b. \A v \in Version : Store(v) =>
            /\ log' \in Seq(Version) /\ Len(log') \in Nat \ {0}
            /\ seen \in 1..Len(log') /\ log'[rv] = log[rv]
      BY StoreKeeps
    <2>c. pc = "put" => Request(log[rv]) \in Location
      BY <2>a DEF TypeOK, Request, Location, Version
    <2>1. CASE User
      <3>1. Edit
        BY <2>1 DEF User, Create, SetCluster, SpecifyTenant, Touch, Delete
      <3>2. \E v \in Version : Store(v)
        BY <2>1, <2>a, StoredTypes
           DEF User, Create, SetCluster, SpecifyTenant, Touch, Delete
      <3> QED
        BY <3>1, <3>2, <2>b DEF Edit, TypeOK, queueVars, workerVars, scVars
    <2>2. CASE Deliver
      BY <2>2 DEF Deliver, TypeOK, workerVars, scVars
    <2>3. CASE TimerFires
      BY <2>3 DEF TimerFires, TypeOK, apiVars, workerVars, scVars
    <2>4. CASE ReconcileDeleted
      BY <2>4 DEF ReconcileDeleted, Dequeue, TypeOK, apiVars, workerVars, scVars
    <2>5. CASE ReconcileAssign
      BY <2>5 DEF ReconcileAssign, Dequeue, FreshIDs, TypeOK, apiVars, scVars
    <2>6. CASE ReconcileAttach
      <3>1. queued' \in BOOLEAN /\ log'[rv'].exists
        BY <2>6, Zenon DEF ReconcileAttach, Dequeue, apiVars
      <3> QED
        BY <2>6, <3>1 DEF ReconcileAttach, Dequeue, TypeOK, apiVars, scVars
    <2>7. CASE GetCurrent
      BY <2>7 DEF GetCurrent, AssignFailed, TypeOK, apiVars, scVars, Outcomes
    <2>8. CASE PatchTenant
      BY <2>8, <2>b, StoredTypes DEF PatchTenant, TypeOK, scVars
    <2>9. CASE PatchTenantFails
      <3>1. log' = log \/ Store(TenantPatched)
        BY <2>9 DEF PatchTenantFails
      <3>2. /\ log' \in Seq(Version) /\ Len(log') \in Nat \ {0}
            /\ seen \in 1..Len(log')
        BY <3>1, <2>b, StoredTypes DEF TypeOK
      <3> QED
        BY <2>9, <3>2 DEF PatchTenantFails, AssignFailed, Fault, TypeOK, scVars, Outcomes
    <2>10. CASE PutOK
      BY <2>10, <2>c DEF PutOK, PutResult, TypeOK, apiVars, queueVars, Outcomes
    <2>11. CASE \E o \in {"AttachFailed", "StorageControllerUnreachable"} : PutFails(o)
      BY <2>11, <2>c
         DEF PutFails, PutResult, Fault, TypeOK, apiVars, queueVars, scVars, Outcomes
    <2>12. CASE GetForStatus
      <3>1. timer' \in BOOLEAN
        BY <2>12, Zenon DEF GetForStatus, Return, TypeOK, queueVars
      <3> QED
        BY <2>12, <3>1 DEF GetForStatus, Return, TypeOK, queueVars, scVars, Outcomes
    <2>13. CASE PatchStatus
      <3>1. timer' \in BOOLEAN
        BY <2>13, Zenon DEF PatchStatus, Return, TypeOK
      <3>2. /\ log' \in Seq(Version) /\ Len(log') \in Nat \ {0}
            /\ seen \in 1..Len(log')
        BY <2>13, <2>b, StoredTypes DEF PatchStatus
      <3> QED
        BY <2>13, <3>1, <3>2 DEF PatchStatus, Return, TypeOK, scVars, Outcomes
    <2>14. CASE PatchStatusFails
      <3>1. log' = log \/ Store(StatusPatched)
        BY <2>14 DEF PatchStatusFails
      <3>2. /\ log' \in Seq(Version) /\ Len(log') \in Nat \ {0}
            /\ seen \in 1..Len(log')
        BY <3>1, <2>b, StoredTypes DEF TypeOK
      <3> QED
        BY <2>14, <3>2 DEF PatchStatusFails, Return, Fault, TypeOK, scVars, Outcomes
    <2>15. CASE LatePut
      BY <2>15 DEF LatePut, TypeOK, apiVars, queueVars, workerVars
    <2>16. CASE Restart
      <3>1. seen' \in 1..Len(log) /\ log' = log
        BY <2>16 DEF Restart, TypeOK
      <3>2. log[seen'] \in Version
        BY <3>1 DEF TypeOK
      <3>3. queued' \in BOOLEAN /\ timer' \in BOOLEAN
        BY <2>16, <3>2 DEF Restart, Version
      <3>4. late' \subseteq Location
        BY <2>16, <2>c DEF Restart, TypeOK
      <3> QED
        BY <2>16, <3>1, <3>3, <3>4 DEF Restart, Fault, TypeOK, Outcomes
    <2>17. CASE UNCHANGED vars
      BY <2>17 DEF vars, TypeOK
    <2> QED
      BY <2>1, <2>2, <2>3, <2>4, <2>5, <2>6, <2>7, <2>8, <2>9, <2>10, <2>11,
         <2>12, <2>13, <2>14, <2>15, <2>16, <2>17 DEF Next, Worker
  <1> QED
    BY <1>1, <1>2, PTL DEF Spec

-------------------------------------------------------------------------------
(* What the log can look like, whoever writes to it. *)

(* The status of v speaks of v. *)
Honest(v) == /\ v.status = NoStatus \/ v.status.of = v.uid
             /\ v.status.obsGen <= v.gen
             /\ v.status.assigned \/ v.status.available => v.tenant # NoID

(* v may follow the current version. *)
Follows(v) == /\ v \in Version
              /\ Latest.uid <= v.uid
              /\ v.uid = Latest.uid /\ Latest.tenant # NoID => v.tenant # NoID
              /\ Honest(v)

(* Every write of a user or of the reconciler stores a version that follows the *)
(* current one.  For the status patch this is the optimistic lock: the version  *)
(* the status was computed from is the one it is stored on.                     *)
LEMMA WritesFollow ==
    ASSUME TypeOK, Honest(Latest), [Next]_vars
    PROVE  log' = log \/ \E v : Follows(v) /\ Store(v)
  <1>1. Latest \in Version /\ newID \in IDs \union {NoID} /\ outcome \in Outcomes
    BY LatestIsVersion DEF TypeOK
  <1>2. /\ Latest.uid \in Nat /\ Latest.gen \in Nat /\ Latest.status \in Status
        /\ Latest.status.obsGen \in Nat
    BY <1>1 DEF Version, Status
  <1>3. ASSUME NEW t \in IDs
        PROVE  Follows([Latest EXCEPT !.tenant = t, !.gen = @ + 1])
    <2> DEFINE v == [Latest EXCEPT !.tenant = t, !.gen = @ + 1]
    <2>1. v \in Version
      BY <1>1, <1>2, VersionUpdates DEF Version
    <2>2. v.uid = Latest.uid /\ v.tenant = t /\ v.gen = Latest.gen + 1
          /\ v.status = Latest.status
      BY <1>1 DEF Version
    <2> HIDE DEF v
    <2> QED
      BY <1>2, <2>1, <2>2 DEF Follows, Honest, v
  <1>4. CASE User
    <2>1. ASSUME NEW c \in Clusters, NEW t \in IDs \union {NoID}, Create(c, t)
          PROVE  \E v : Follows(v) /\ Store(v)
      <3> DEFINE v == [exists |-> TRUE, uid |-> Latest.uid + 1, gen |-> 1,
                       cluster |-> c, tenant |-> t, status |-> NoStatus]
      <3>1. v \in Version
        BY StoredTypes
      <3>2. Follows(v)
        BY <1>2, <3>1 DEF Follows, Honest, NoStatus
      <3> QED
        BY <2>1, <3>2 DEF Create
    <2>2. ASSUME NEW c \in Clusters, SetCluster(c)
          PROVE  \E v : Follows(v) /\ Store(v)
      <3> DEFINE v == [Latest EXCEPT !.cluster = c, !.gen = @ + 1]
      <3>1. v \in Version
        BY StoredTypes
      <3>2. v.uid = Latest.uid /\ v.tenant = Latest.tenant /\ v.gen = Latest.gen + 1
            /\ v.status = Latest.status
        BY <1>1 DEF Version
      <3>3. Store(v)
        BY <2>2 DEF SetCluster
      <3> HIDE DEF v
      <3> QED
        BY <1>2, <3>1, <3>2, <3>3 DEF Follows, Honest
    <2>3. ASSUME NEW t \in IDs, SpecifyTenant(t)
          PROVE  \E v : Follows(v) /\ Store(v)
      BY <2>3, <1>3 DEF SpecifyTenant
    <2>4. CASE Touch
      BY <2>4, <1>1, <1>2 DEF Touch, Follows
    <2>5. CASE Delete
      <3> DEFINE v == [Latest EXCEPT !.exists = FALSE]
      <3>1. v \in Version
        BY StoredTypes
      <3>2. v.uid = Latest.uid /\ v.tenant = Latest.tenant /\ v.gen = Latest.gen
            /\ v.status = Latest.status
        BY <1>1 DEF Version
      <3>3. Store(v)
        BY <2>5 DEF Delete
      <3> HIDE DEF v
      <3> QED
        BY <1>2, <3>1, <3>2, <3>3 DEF Follows, Honest
    <2> QED
      BY <1>4, <2>1, <2>2, <2>3, <2>4, <2>5 DEF User
  <1>5. CASE PatchTenant \/ PatchTenantFails
    <2>1. newID \in IDs
      BY <1>5, <1>1 DEF PatchTenant, PatchTenantFails, TypeOK
    <2> QED
      BY <1>5, <2>1, <1>3 DEF PatchTenant, PatchTenantFails, TenantPatched
  <1>6. CASE PatchStatus \/ PatchStatusFails
    <2>1. log' = log \/ (StatusPatchApplies /\ Store(StatusPatched))
      BY <1>6 DEF PatchStatus, PatchStatusFails
    <2>2. ASSUME StatusPatchApplies PROVE Follows(StatusPatched)
      <3>1. log[cur] = Latest
        BY <2>2 DEF StatusPatchApplies, Latest
      <3>2. StatusPatched \in Version
        BY StoredTypes
      <3>3. /\ StatusPatched.uid = Latest.uid /\ StatusPatched.gen = Latest.gen
            /\ StatusPatched.tenant = Latest.tenant
            /\ StatusPatched.status = ProjectStatus(Latest, outcome)
        BY <1>1, <3>1 DEF StatusPatched, Version
      <3>4. /\ ProjectStatus(Latest, outcome).obsGen = Latest.gen
            /\ ProjectStatus(Latest, outcome).of = Latest.uid
        BY DEF ProjectStatus
      <3>5. ProjectStatus(Latest, outcome).assigned => Latest.tenant # NoID
        BY DEF ProjectStatus
      <3>6. ProjectStatus(Latest, outcome).available => Latest.tenant # NoID
        BY DEF ProjectStatus
      <3> QED
        BY <1>2, <3>2, <3>3, <3>4, <3>5, <3>6 DEF Follows, Honest
    <2> QED
      BY <2>1, <2>2
  <1>7. CASE \/ Deliver \/ TimerFires \/ LatePut \/ Restart \/ UNCHANGED vars
             \/ ReconcileDeleted \/ ReconcileAssign \/ ReconcileAttach \/ GetCurrent
             \/ PutOK \/ GetForStatus
             \/ \E o \in {"AttachFailed", "StorageControllerUnreachable"} : PutFails(o)
    BY <1>7 DEF Deliver, TimerFires, LatePut, Restart, vars, ReconcileDeleted,
                ReconcileAssign, ReconcileAttach, GetCurrent, PutOK, PutFails,
                PutResult, GetForStatus, apiVars
  <1> QED
    BY <1>4, <1>5, <1>6, <1>7 DEF Next, Worker

(* The invariants of the log, together inductive. *)
LogInv == UidMonotone /\ TenantKept /\ StatusOfThisObject

(* No step breaks the invariants of the log: it stays as it is, or grows by a *)
(* version that follows the last one.                                        *)
LEMMA LogInvStep ==
    ASSUME TypeOK, LogInv, [Next]_vars
    PROVE  LogInv'
  <1>1. /\ log \in Seq(Version) /\ Len(log) \in Nat \ {0}
        /\ \A i \in 1..Len(log) : log[i] \in Version
    BY DEF TypeOK
  <1>2. Honest(Latest)
    BY <1>1 DEF LogInv, StatusOfThisObject, Honest, Latest
  <1>3. CASE log' = log
    BY <1>3 DEF LogInv, UidMonotone, TenantKept, StatusOfThisObject
  <1>4. ASSUME NEW v, Follows(v), Store(v) PROVE LogInv'
    <2>1. v \in Version
      BY <1>4 DEF Follows
    <2>2. /\ Len(log') = Len(log) + 1
          /\ \A i \in 1..Len(log) : log'[i] = log[i]
          /\ log'[Len(log) + 1] = v
      BY <1>1, <1>4, <2>1, StoreFacts
    <2>3. \A i \in 1..Len(log) : log[i].uid \in Nat /\ log[i].uid <= Latest.uid
      BY <1>1 DEF LogInv, UidMonotone, Latest, Version
    <2>4. v.uid \in Nat /\ Latest.uid \in Nat /\ Latest.uid <= v.uid
      BY <1>1, <1>4, <2>1 DEF Follows, Version, Latest
    <2>5. UidMonotone'
      <3> SUFFICES ASSUME NEW i \in 1..Len(log'), NEW j \in 1..Len(log'), i <= j
                   PROVE  log'[i].uid <= log'[j].uid
        BY DEF UidMonotone
      <3>1. CASE j \in 1..Len(log)
        BY <1>1, <2>2, <3>1 DEF LogInv, UidMonotone
      <3>2. CASE j = Len(log) + 1 /\ i \in 1..Len(log)
        BY <2>2, <2>3, <2>4, <3>2
      <3>3. CASE j = Len(log) + 1 /\ i = Len(log) + 1
        BY <2>2, <2>4, <3>3
      <3> QED
        BY <1>1, <2>2, <3>1, <3>2, <3>3
    <2>6. TenantKept'
      <3>1. \A i \in 1..Len(log) :
              log[i].uid = v.uid /\ log[i].tenant # NoID => v.tenant # NoID
        <4> SUFFICES ASSUME NEW i \in 1..Len(log), log[i].uid = v.uid,
                            log[i].tenant # NoID
                     PROVE  v.tenant # NoID
          OBVIOUS
        <4>1. Latest.uid = v.uid
          BY <2>3, <2>4
        <4>2. Latest.tenant # NoID
          BY <1>1, <4>1 DEF LogInv, TenantKept, Latest
        <4> QED
          BY <1>4, <4>1, <4>2 DEF Follows
      <3> QED
        BY <1>1, <2>2, <3>1 DEF LogInv, TenantKept
    <2>7. StatusOfThisObject'
      BY <1>1, <1>4, <2>2 DEF LogInv, StatusOfThisObject, Follows, Honest
    <2> QED
      BY <2>5, <2>6, <2>7 DEF LogInv
  <1> QED
    BY <1>2, <1>3, <1>4, WritesFollow

(* uids only grow, an object that has a tenant ID keeps having one, and every *)
(* status was computed from the object that carries it, however reads and     *)
(* writes interleave and whatever fails.                                      *)
THEOREM LogCorrect == Spec => []LogInv
  <1>1. Init => LogInv
    <2> SUFFICES ASSUME Init PROVE LogInv
      OBVIOUS
    <2>1. Len(log) = 1 /\ log[1].status = NoStatus /\ log[1].gen = 0
      BY DEF Init
    <2>2. UidMonotone
      <3>1. log[1].uid = 0
        BY DEF Init
      <3> QED
        BY <2>1, <3>1 DEF UidMonotone
    <2>3. TenantKept
      BY <2>1 DEF TenantKept
    <2>4. StatusOfThisObject
      BY <2>1 DEF StatusOfThisObject, NoStatus
    <2> QED
      BY <2>2, <2>3, <2>4 DEF LogInv
  <1>2. TypeOK /\ LogInv /\ [Next]_vars => LogInv'
    BY LogInvStep
  <1> QED
    BY <1>1, <1>2, TypeCorrect, PTL DEF Spec

(* A status was computed from the object (uid) that carries it, at a generation *)
(* it has reached, whatever happens between PatchStatus's read and its patch.  *)
THEOREM StatusCorrect == Spec => []StatusOfThisObject
  <1>1. LogInv => StatusOfThisObject
    BY DEF LogInv
  <1> QED
    BY <1>1, LogCorrect, PTL

-------------------------------------------------------------------------------
(* The storage controller is never given a tenant that no version of the      *)
(* Project recorded (updateTenantID before the PUT), whatever fails.          *)
THEOREM TenantsRecorded == Spec => []NoUnrecordedTenant
  <1>1. Init => NoUnrecordedTenant
    BY DEF Init, NoUnrecordedTenant
  <1>2. TypeOK /\ LogInv /\ NoUnrecordedTenant /\ [Next]_vars => NoUnrecordedTenant'
    <2> SUFFICES ASSUME TypeOK, LogInv, NoUnrecordedTenant, [Next]_vars
                 PROVE  NoUnrecordedTenant'
      OBVIOUS
    <2> DEFINE Recorded(r) == \E i \in 1..Len(log) : log[i].exists /\ Request(log[i]) = r
    <2>1. \A r : Recorded(r) => Recorded(r)'
      <3>1. CASE log' = log
        BY <3>1 DEF Request
      <3>2. ASSUME NEW v, Follows(v), Store(v) PROVE \A r : Recorded(r) => Recorded(r)'
        <4>1. v \in Version
          BY <3>2 DEF Follows
        <4>2. /\ Len(log') = Len(log) + 1 /\ Len(log) \in Nat
              /\ \A i \in 1..Len(log) : log'[i] = log[i]
          BY <3>2, <4>1, StoreKeeps DEF TypeOK
        <4> QED
          BY <4>2 DEF Request
      <3>3. Honest(Latest)
        BY DEF LogInv, StatusOfThisObject, Honest, Latest, TypeOK
      <3> QED
        BY <3>1, <3>2, <3>3, WritesFollow
    <2>2. pc = "put" => Recorded(Request(log[rv]))
      BY DEF TypeOK
    <2>3. \A r \in attached \union late : Recorded(r)
      BY DEF NoUnrecordedTenant
    <2>4. \A r \in (attached \union late)' :
            r \in attached \union late \/ (pc = "put" /\ r = Request(log[rv]))
      BY DEF Next, User, Create, SetCluster, SpecifyTenant, Touch, Delete, Edit,
             Deliver, TimerFires, Worker, ReconcileDeleted, ReconcileAssign,
             ReconcileAttach, GetCurrent, AssignFailed, PatchTenant, PatchTenantFails,
             PutOK, PutFails, GetForStatus, PatchStatus, PatchStatusFails, Return,
             LatePut, Restart, scVars, vars
    <2>5. \A r \in (attached \union late)' : Recorded(r)'
      BY <2>1, <2>2, <2>3, <2>4
    <2> QED
      BY <2>5 DEF NoUnrecordedTenant
  <1> QED
    BY <1>1, <1>2, TypeCorrect, LogCorrect, PTL DEF Spec

-------------------------------------------------------------------------------
(* Once the cache has shown an assigned ID and no assignment is on its way, the *)
(* operator never changes the ID again: every later read is of a version at or  *)
(* after the one shown, and all of these have an ID.                            *)
LEMMA SettledStep ==
    ASSUME TypeOK, LogInv, Settled, [Next]_vars, Latest'.uid = Latest.uid
    PROVE  Latest'.tenant = Latest.tenant /\ (Latest'.exists => Settled')
  <1>1. /\ Latest \in Version /\ Latest.uid \in Nat /\ Len(log) \in Nat \ {0}
        /\ seen \in 1..Len(log) /\ \A i \in 1..Len(log) : log[i].uid \in Nat
    <2>1. Latest \in Version
      BY LatestIsVersion
    <2>2. \A i \in 1..Len(log) : log[i] \in Version
      BY DEF TypeOK
    <2> QED
      BY <2>1, <2>2 DEF TypeOK, Version
  <1>2. \A i \in seen..Len(log) : log[i].uid = Latest.uid /\ log[i].tenant # NoID
    <2> TAKE i \in seen..Len(log)
    <2>1. i \in 1..Len(log) /\ seen <= i /\ i <= Len(log)
      BY <1>1
    <2>2. log[seen].uid <= log[i].uid /\ log[i].uid <= Latest.uid
      BY <1>1, <2>1 DEF LogInv, UidMonotone, Latest
    <2>3. log[i].uid = Latest.uid
      BY <1>1, <2>1, <2>2 DEF Settled
    <2> QED
      BY <1>1, <2>1, <2>3 DEF LogInv, TenantKept, Settled
  <1>3. Latest.tenant # NoID
    BY <1>1, <1>2 DEF Latest
  <1>4. ASSUME NEW v \in Version, Store(v), v.uid = Latest.uid, v.tenant = Latest.tenant,
               seen' = seen, pc' \notin {"assign", "patch"}
        PROVE  Latest'.tenant = Latest.tenant /\ (Latest'.exists => Settled')
    BY <1>4, StoreKeeps DEF Settled
  <1>5. ASSUME log' = log, seen' \in seen..Len(log), pc' \notin {"assign", "patch"}
        PROVE  Latest'.tenant = Latest.tenant /\ (Latest'.exists => Settled')
    BY <1>5, <1>2 DEF Settled, Latest
  <1>6. pc \notin {"assign", "patch"} /\ log[seen].tenant # NoID /\ Latest.exists
    BY DEF Settled
  <1>7. CASE User
    <2>1. seen' = seen /\ pc' = pc
      BY <1>7 DEF User, Create, SetCluster, SpecifyTenant, Touch, Delete, Edit, workerVars
    <2>2. \A c \in Clusters, t \in IDs \union {NoID} : ~Create(c, t)
      BY <1>6 DEF Create
    <2>3. \A t \in IDs : ~SpecifyTenant(t)
      BY <1>3 DEF SpecifyTenant
    <2>4. ASSUME NEW c \in Clusters, SetCluster(c)
          PROVE  \E v \in Version : Store(v) /\ v.uid = Latest.uid /\ v.tenant = Latest.tenant
      <3> DEFINE v == [Latest EXCEPT !.cluster = c, !.gen = @ + 1]
      <3>1. v \in Version /\ Store(v)
        BY <2>4, StoredTypes DEF SetCluster
      <3>2. v.uid = Latest.uid /\ v.tenant = Latest.tenant
        BY <1>1 DEF Version
      <3> QED
        BY <3>1, <3>2
    <2>5. CASE Touch
      BY <2>5, <1>1, <1>4, <1>6, <2>1 DEF Touch
    <2>6. CASE Delete
      <3> DEFINE v == [Latest EXCEPT !.exists = FALSE]
      <3>1. v \in Version /\ Store(v)
        BY <2>6, StoredTypes DEF Delete
      <3>2. v.uid = Latest.uid /\ v.tenant = Latest.tenant
        BY <1>1 DEF Version
      <3> QED
        BY <3>1, <3>2, <1>4, <1>6, <2>1
    <2> QED
      BY <1>7, <1>4, <1>6, <2>1, <2>2, <2>3, <2>4, <2>5, <2>6 DEF User
  <1>8. CASE PatchStatus \/ PatchStatusFails
    <2>1. (log' = log \/ Store(StatusPatched)) /\ seen' = seen /\ pc' = "idle"
      BY <1>8 DEF PatchStatus, PatchStatusFails, Return
    <2>2. StatusPatched \in Version
      BY StoredTypes
    <2>3. StatusPatched.uid = Latest.uid /\ StatusPatched.tenant = Latest.tenant
      BY <1>1 DEF StatusPatched, Version
    <2> QED
      BY <1>1, <1>4, <1>5, <2>1, <2>2, <2>3
  <1>9. CASE ReconcileAssign \/ GetCurrent \/ PatchTenant \/ PatchTenantFails
    BY <1>9, <1>6 DEF ReconcileAssign, GetCurrent, PatchTenant, PatchTenantFails
  <1>10. CASE \/ ReconcileDeleted \/ ReconcileAttach \/ PutOK \/ GetForStatus
              \/ \E o \in {"AttachFailed", "StorageControllerUnreachable"} : PutFails(o)
              \/ Deliver \/ TimerFires \/ LatePut \/ Restart \/ UNCHANGED vars
    <2>1. log' = log /\ pc' \notin {"assign", "patch"}
      BY <1>10, <1>6
         DEF ReconcileDeleted, ReconcileAttach, PutOK, PutFails, PutResult, GetForStatus,
             Return, Deliver, TimerFires, LatePut, Restart, vars, workerVars, apiVars
    <2>2. seen' \in seen..Len(log)
      BY <1>10, <1>1
         DEF ReconcileDeleted, ReconcileAttach, PutOK, PutFails, PutResult, GetForStatus,
             Return, Deliver, TimerFires, LatePut, Restart, vars, apiVars
    <2> QED
      BY <2>1, <2>2, <1>5
  <1> QED
    BY <1>7, <1>8, <1>9, <1>10 DEF Next, Worker

(* Once settled, always settled. *)
THEOREM TenantStable == Spec => TenantSettles
  <1>1. TypeOK /\ LogInv /\ [Next]_vars =>
          [Settled /\ Latest'.uid = Latest.uid =>
             Latest'.tenant = Latest.tenant /\ (Latest'.exists => Settled')]_vars
    BY SettledStep
  <1> QED
    BY <1>1, TypeCorrect, LogCorrect, PTL DEF Spec, TenantSettles

-------------------------------------------------------------------------------
(* No lost wakeup. *)

(* A call that no event has overtaken (WorksOnCached) attaches the version whose *)
(* status it then checks, so the last call before a rest has seen everything.   *)
RestInv == WorksOnCached /\ QuiescentConverged

(* No step breaks RestInv. *)
LEMMA RestInvStep ==
    ASSUME TypeOK, RestInv, [Next]_vars
    PROVE  RestInv'
  <1>1. /\ Len(log) \in Nat \ {0} /\ seen \in 1..Len(log) /\ rv \in 1..seen
        /\ Latest \in Version
    BY LatestIsVersion DEF TypeOK
  <1>2. CASE User
    <2>1. Edit
      BY <1>2 DEF User, Create, SetCluster, SpecifyTenant, Touch, Delete
    <2>2. \E v \in Version : Store(v)
      BY <1>1, <1>2, StoredTypes
         DEF User, Create, SetCluster, SpecifyTenant, Touch, Delete
    <2>3. log'[seen] = log[seen] /\ seen < Len(log')
      BY <2>2, StoreKeeps
    <2>4. WorksOnCached'
      BY <2>1, <2>3 DEF Edit, RestInv, WorksOnCached, Request, queueVars, workerVars, scVars
    <2>5. ~Quiescent'
      BY <2>1, <2>3, <1>1 DEF Edit, Quiescent
    <2> QED
      BY <2>4, <2>5 DEF RestInv, QuiescentConverged
  <1>3. CASE Deliver \/ TimerFires
    BY <1>3 DEF Deliver, TimerFires, RestInv, WorksOnCached, QuiescentConverged, Quiescent
  <1>4. CASE ReconcileDeleted
    <2>1. log' = log /\ seen' = seen /\ pc' = "idle" /\ ~log[seen].exists
      BY <1>4 DEF ReconcileDeleted, Dequeue, apiVars, workerVars
    <2> QED
      BY <2>1 DEF RestInv, WorksOnCached, QuiescentConverged, Quiescent, Latest
  <1>5. CASE ReconcileAssign \/ ReconcileAttach
    BY <1>5 DEF ReconcileAssign, ReconcileAttach, RestInv, WorksOnCached,
                QuiescentConverged, Quiescent, apiVars
  <1>6. CASE GetCurrent \/ PatchTenant \/ PatchTenantFails
    <2>1. pc' = "patch" \/ (pc' = "status" /\ outcome' # "ok") \/ (pc' = "idle" /\ timer')
      BY <1>6 DEF GetCurrent, PatchTenant, PatchTenantFails, AssignFailed
    <2> QED
      BY <2>1 DEF RestInv, WorksOnCached, QuiescentConverged, Quiescent
  <1>7. CASE PutOK
    <2>1. /\ log' = log /\ seen' = seen /\ queued' = queued /\ pc = "put"
          /\ pc' = "status" /\ Request(log[rv]) \in attached'
      BY <1>7 DEF PutOK, PutResult, apiVars, queueVars
    <2>2. ~queued => rv = seen
      BY <2>1 DEF RestInv, WorksOnCached
    <2>3. log[rv].tenant # NoID
      BY <2>1 DEF TypeOK
    <2>4. WorksOnCached'
      BY <2>1, <2>2, <2>3 DEF WorksOnCached, Request
    <2> QED
      BY <2>1, <2>4 DEF RestInv, QuiescentConverged, Quiescent
  <1>8. CASE \E o \in {"AttachFailed", "StorageControllerUnreachable"} : PutFails(o)
    <2>1. pc' = "status" /\ outcome' # "ok"
      BY <1>8 DEF PutFails, PutResult
    <2> QED
      BY <2>1 DEF RestInv, WorksOnCached, QuiescentConverged, Quiescent
  <1>9. CASE GetForStatus
    <2>1. log' = log /\ seen' = seen /\ queued' = queued /\ attached' = attached
      BY <1>9 DEF GetForStatus, Return, queueVars, scVars
    <2>2. CASE pc' = "patchStatus"
      <3>1. outcome' = outcome /\ pc = "status"
        BY <1>9, <2>2 DEF GetForStatus, Return
      <3> QED
        BY <2>1, <2>2, <3>1 DEF RestInv, WorksOnCached, QuiescentConverged, Quiescent, Request
    <2>3. CASE pc' = "idle"
      <3>1. \/ timer'
            \/ /\ outcome = "ok" /\ pc = "status"
               /\ log[seen].status = ProjectStatus(log[seen], outcome)
        BY <1>9, <2>3 DEF GetForStatus, Return
      <3>2. WorksOnCached'
        BY <2>3 DEF WorksOnCached
      <3>3. QuiescentConverged'
        <4> SUFFICES ASSUME Quiescent', Latest'.exists PROVE Converged(Latest)'
          BY DEF QuiescentConverged
        <4>1. ~queued /\ ~timer' /\ seen = Len(log)
          BY <2>1 DEF Quiescent
        <4>2. log[seen].tenant # NoID /\ Request(log[seen]) \in attached
          BY <3>1, <4>1 DEF RestInv, WorksOnCached
        <4>3. Converged(Latest)
          BY <3>1, <4>1, <4>2 DEF Converged, Latest
        <4> QED
          BY <2>1, <4>3 DEF Converged, Latest, Request, ProjectStatus
      <3> QED
        BY <3>2, <3>3 DEF RestInv
    <2> QED
      BY <1>9, <2>2, <2>3 DEF GetForStatus, Return
  <1>10. CASE PatchStatus
    <2>1. pc' = "idle" /\ seen' = seen /\ Store(StatusPatched)
      BY <1>10 DEF PatchStatus, Return
    <2>2. seen < Len(log')
      BY <2>1, StoredTypes, StoreKeeps
    <2> QED
      BY <1>1, <2>1, <2>2 DEF RestInv, WorksOnCached, QuiescentConverged, Quiescent
  <1>11. CASE PatchStatusFails
    <2>1. pc' = "idle" /\ timer'
      BY <1>11 DEF PatchStatusFails, Return
    <2> QED
      BY <2>1 DEF RestInv, WorksOnCached, QuiescentConverged, Quiescent
  <1>12. CASE LatePut
    <2>1. attached \subseteq attached' /\ UNCHANGED <<apiVars, queueVars, workerVars>>
      BY <1>12 DEF LatePut
    <2> QED
      BY <2>1 DEF RestInv, WorksOnCached, QuiescentConverged, Quiescent, Converged, Latest,
                  Request, ProjectStatus, apiVars, queueVars, workerVars
  <1>13. CASE Restart
    <2>1. log' = log /\ pc' = "idle" /\ queued' = log[seen'].exists
      BY <1>13 DEF Restart
    <2> QED
      BY <2>1 DEF RestInv, WorksOnCached, QuiescentConverged, Quiescent, Latest
  <1>14. CASE UNCHANGED vars
    BY <1>14 DEF vars, RestInv, WorksOnCached, QuiescentConverged, Quiescent, Converged,
                 Latest, Request, ProjectStatus
  <1> QED
    BY <1>2, <1>3, <1>4, <1>5, <1>6, <1>7, <1>8, <1>9, <1>10, <1>11, <1>12, <1>13,
       <1>14 DEF Next, Worker

(* The reconciler comes to rest only on an object that is attached and        *)
(* Available at its current generation.                                       *)
THEOREM NoLostWakeup == Spec => []QuiescentConverged
  <1>1. Init => RestInv
    BY DEF Init, RestInv, WorksOnCached, QuiescentConverged, Latest
  <1>2. TypeOK /\ RestInv /\ [Next]_vars => RestInv'
    BY RestInvStep
  <1>3. RestInv => QuiescentConverged
    BY DEF RestInv
  <1> QED
    BY <1>1, <1>2, <1>3, TypeCorrect, PTL DEF Spec

===============================================================================
