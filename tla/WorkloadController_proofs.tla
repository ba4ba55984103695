----------------------- MODULE WorkloadController_proofs -----------------------
(* Proofs, for every value of the constants and so for each of the three kinds, *)
(* of the safety properties of the Cluster, Pageserver and Safekeeper           *)
(* reconcilers that MCWorkload checks on small instances.                       *)
EXTENDS WorkloadController, SequenceTheorems, TLAPS

(* The parts of TypeOK: the object, its children, the worker, and the rest. *)
LogOK == log \in Seq(Version) /\ Len(log) \in Nat \ {0}
ChildrenOK == /\ child \in [ChildSet -> Child] /\ cached \in [ChildSet -> Child]
              /\ events \subseteq ChildSet
              /\ \A k \in ChildSet \ events : cached[k] = child[k]
Steps == 1..Len(Children)
WorkerOK == /\ job \in Job /\ step \in Steps /\ want \in Status
            /\ pc \in {"idle", "children", "status", "patchStatus"}
JobOK == pc # "idle" => job.uid \in 1..Latest.uid
FlagsOK == /\ queued \in BOOLEAN /\ timer \in BOOLEAN
           /\ locked \in BOOLEAN /\ createErr \in BOOLEAN
CountersOK == edits \in Nat /\ faults \in Nat

LEMMA TypeParts ==
    TypeOK <=> /\ LogOK /\ ChildrenOK /\ WorkerOK /\ JobOK /\ FlagsOK /\ CountersOK
               /\ parent \in Parent
  BY DEF TypeOK, LogOK, ChildrenOK, WorkerOK, JobOK, FlagsOK, CountersOK, Steps

(* Every step is the step of a child; a Cluster has no StatefulSet, and the other *)
(* two kinds have one.                                                            *)
LEMMA ChildFacts ==
    /\ Len(Children) \in Nat \ {0} /\ 1 \in Steps
    /\ \A i \in Steps : Children[i] \in ChildSet
    /\ \A k \in ChildSet : \E i \in Steps : Children[i] = k
    /\ \A i \in Steps : i # Len(Children) => i + 1 \in Steps
    /\ Kind = "Cluster" => "StatefulSet" \notin ChildSet
    /\ Kind # "Cluster" => "StatefulSet" \in Workloads
    /\ Workloads \subseteq Watched /\ Watched \subseteq ChildSet
    /\ \A k \in ChildSet : k \in Watched <=> k # "JWTSecret"
    /\ Kind = "Cluster" => Workloads \subseteq {"StorageController", "StorageBroker"}
  <1>1. /\ Children \in Seq({AllChildren[n] : n \in 1..Len(AllChildren)})
        /\ ChildSet # {} /\ (Kind = "Cluster" \/ "StatefulSet" \in ChildSet)
    BY ChildrenAssumption
  <1>2. /\ Len(Children) \in Nat
        /\ \A i \in 1..Len(Children) :
             Children[i] \in {AllChildren[n] : n \in 1..Len(AllChildren)}
    BY <1>1
  <1>3. Len(Children) # 0
    BY <1>1, <1>2 DEF ChildSet
  <1>4. ASSUME Kind = "Cluster" PROVE "StatefulSet" \notin ChildSet
    <2>1. AllChildren = <<"JWTSecret", "StorageController", "ControllerService",
                          "StorageBroker", "BrokerService">>
      BY <1>4 DEF AllChildren, createClusterResources
    <2>2. \A n \in 1..Len(AllChildren) : AllChildren[n] # "StatefulSet"
      BY <2>1
    <2> QED
      BY <1>2, <2>2 DEF ChildSet
  <1>5. /\ Workloads \subseteq Watched /\ Watched \subseteq ChildSet
        /\ \A k \in ChildSet : k \in Watched <=> k # "JWTSecret"
    BY DEF Workloads, Watched
  <1>6. Kind # "Cluster" => "StatefulSet" \in Workloads
    BY <1>1 DEF Workloads
  <1>7. Kind = "Cluster" => Workloads \subseteq {"StorageController", "StorageBroker"}
    BY <1>4 DEF Workloads
  <1>8. /\ 1 \in Steps /\ \A i \in Steps : Children[i] \in ChildSet
        /\ \A k \in ChildSet : \E i \in Steps : Children[i] = k
        /\ \A i \in Steps : i # Len(Children) => i + 1 \in Steps
    BY <1>2, <1>3 DEF Steps, ChildSet
  <1> QED
    BY <1>2, <1>3, <1>4, <1>5, <1>6, <1>7, <1>8

-------------------------------------------------------------------------------
(* What a step may do to each part of the state. *)

LEMMA Moves ==
    ASSUME [Next]_vars
    PROVE  /\ \/ log' = log
              \/ \E s \in Specs : Create(s) \/ SetSpec(s)
              \/ Delete \/ Deliver \/ Restart \/ PatchStatus \/ PatchStatusFails
           /\ \/ UNCHANGED <<child, cached, events>>
              \/ \E k \in ChildSet : \/ DeleteChild(k) \/ EditChild(k)
                                     \/ Collect(k) \/ DeliverChild(k)
              \/ \E k \in Workloads : WorkloadUp(k) \/ WorkloadDown(k)
              \/ Restart \/ ReconcileChild \/ ReconcileChildFails
           /\ \/ UNCHANGED <<pc, job, step, want, createErr>>
              \/ Done \/ Reconcile \/ ReconcileChild \/ ReconcileChildFails \/ GetForStatus
           /\ parent' = parent \/ DeliverParent \/ \E i \in Images : SetImage(i)
  <1> USE DEF Next, User, Create, SetSpec, Delete, DeleteChild, EditChild, SetImage, Edit,
              DeliverParent, WorkloadUp, WorkloadDown, Kubernetes, Collect, Deliver,
              DeliverChild, TimerFires, Worker, ReconcileDeleted, Reconcile,
              ReconcileChild, ReconcileChildFails, GetForStatus, PatchStatus,
              PatchStatusFails, Restart, Return, vars, apiVars, childVars, queueVars,
              workerVars
  <1>1. \/ log' = log
        \/ \E s \in Specs : Create(s) \/ SetSpec(s)
        \/ Delete \/ Deliver \/ Restart \/ PatchStatus \/ PatchStatusFails
    OBVIOUS
  <1>2. \/ UNCHANGED <<child, cached, events>>
        \/ \E k \in ChildSet : \/ DeleteChild(k) \/ EditChild(k)
                               \/ Collect(k) \/ DeliverChild(k)
        \/ \E k \in Workloads : WorkloadUp(k) \/ WorkloadDown(k)
        \/ Restart \/ ReconcileChild \/ ReconcileChildFails
    OBVIOUS
  <1>3. \/ UNCHANGED <<pc, job, step, want, createErr>>
        \/ Done \/ Reconcile \/ ReconcileChild \/ ReconcileChildFails \/ GetForStatus
    OBVIOUS
  <1>4. parent' = parent \/ DeliverParent \/ \E i \in Images : SetImage(i)
    OBVIOUS
  <1> QED
    BY <1>1, <1>2, <1>3, <1>4

-------------------------------------------------------------------------------
(* The versions of the object. *)

LEMMA EndsAreVersions ==
    ASSUME LogOK
    PROVE  /\ Latest \in Version /\ Cached \in Version
           /\ Len(log) \in Nat \ {0} /\ 1 \in 1..Len(log) /\ Len(log) \in 1..Len(log)
  BY DEF LogOK, Latest, Cached

(* Storing a version extends the log by it and changes no earlier version. *)
LEMMA StoreFacts ==
    ASSUME LogOK, NEW v \in Version, Store(v)
    PROVE  /\ LogOK' /\ Len(log') = Len(log) + 1 /\ Len(log') > 1
           /\ \A i \in 1..Len(log) : log'[i] = log[i]
           /\ Latest' = v /\ Cached' = Cached /\ log'[Len(log) + 1] = v
  <1>1. /\ log' \in Seq(Version) /\ Len(log') = Len(log) + 1
        /\ \A i \in 1..Len(log) : log'[i] = log[i]
        /\ log'[Len(log) + 1] = v
    BY AppendProperties DEF Store, LogOK
  <1> QED
    BY <1>1 DEF LogOK, Latest, Cached

(* When the cache moves on to version i, or is filled again from version i on, the *)
(* log begins there and ends with the same version.                                *)
Suffix(i) == /\ Len(log') = Len(log) - i + 1
             /\ \A j \in 1..Len(log') : i + j - 1 \in 1..Len(log) /\ log'[j] = log[i + j - 1]
LEMMA SuffixFacts ==
    ASSUME LogOK, NEW i \in 1..Len(log), log' = SubSeq(log, i, Len(log))
    PROVE  LogOK' /\ Suffix(i) /\ Latest' = Latest /\ Cached' = log[i]
  <1>1. \A j \in i..Len(log) : log[j] \in Version
    BY DEF LogOK
  <1>2. Len(log) \in Nat \ {0} /\ i \in Int /\ Len(log) \in Int /\ i <= Len(log)
    BY DEF LogOK
  <1>3. /\ log' \in Seq(Version) /\ Len(log') = Len(log) - i + 1
        /\ \A j \in 1..Len(log) - i + 1 : log'[j] = log[i + j - 1]
    BY <1>1, <1>2, SubSeqProperties
  <1>4. /\ 1 \in 1..Len(log) - i + 1 /\ i + 1 - 1 = i
        /\ Len(log) - i + 1 \in 1..Len(log) - i + 1 /\ i + (Len(log) - i + 1) - 1 = Len(log)
        /\ Len(log) - i + 1 \in Nat \ {0}
    BY <1>2
  <1>5. LogOK'
    BY <1>3, <1>4 DEF LogOK
  <1>6. \A j \in 1..Len(log) - i + 1 : i + j - 1 \in 1..Len(log)
    BY <1>2
  <1>7. Suffix(i)
    BY <1>3, <1>6 DEF Suffix
  <1>8. log'[1] = log[i + 1 - 1] /\ log'[Len(log')] = log[i + (Len(log) - i + 1) - 1]
    BY <1>3, <1>4, Zenon
  <1>9. log'[1] = log[i] /\ log'[Len(log')] = log[Len(log)]
    BY <1>4, <1>8
  <1> QED
    BY <1>5, <1>7, <1>9, Zenon DEF Latest, Cached

(* v is a new object of the name, or another version of the object there is. *)
Follows(v) == \/ v.uid = Latest.uid + 1
              \/ Latest.exists /\ v.uid = Latest.uid

(* What a step does to the versions: nothing, a write, or the cache moves on. *)
LEMMA LogMoves ==
    ASSUME TypeOK, [Next]_vars
    PROVE  \/ log' = log
           \/ \E v \in Version : Store(v) /\ Follows(v)
           \/ /\ Deliver \/ Restart
              /\ \E i \in 1..Len(log) : log' = SubSeq(log, i, Len(log))
  <1>1. LogOK /\ Latest \in Version /\ want \in Status
    BY TypeParts, EndsAreVersions DEF WorkerOK
  <1>2. Latest.uid \in Nat /\ Latest.gen \in Nat
    BY <1>1 DEF Version
  <1>3. NoStatus \in Status
    BY DEF Status, NoStatus, Reasons
  <1> DEFINE Writes == \E v \in Version : Store(v) /\ Follows(v)
  <1>4. ASSUME NEW s \in Specs, Create(s) PROVE Writes
    <2> DEFINE v == [exists |-> TRUE, uid |-> Latest.uid + 1, gen |-> 1, spec |-> s,
                     status |-> NoStatus]
    <2>1. v \in Version
      BY <1>2, <1>3 DEF Version
    <2>2. Store(v) /\ Follows(v)
      BY <1>4 DEF Create, Follows
    <2> QED
      BY <2>1, <2>2
  <1>5. ASSUME NEW s \in Specs, SetSpec(s) PROVE Writes
    <2> DEFINE g == Latest.gen + 1
               v == [Latest EXCEPT !.spec = s, !.gen = g]
    <2>1. g \in Nat /\ Store(v) /\ Latest.exists
      BY <1>2, <1>5 DEF SetSpec
    <2> HIDE DEF g
    <2>2. v \in Version /\ v.uid = Latest.uid
      BY <1>1, <2>1 DEF Version
    <2> QED
      BY <2>1, <2>2 DEF Follows
  <1>6. CASE Delete
    <2> DEFINE v == [Latest EXCEPT !.exists = FALSE]
    <2>1. v \in Version /\ v.uid = Latest.uid
      BY <1>1 DEF Version
    <2>2. Store(v) /\ Latest.exists
      BY <1>6 DEF Delete
    <2> QED
      BY <2>1, <2>2 DEF Follows
  <1>7. CASE PatchStatus \/ PatchStatusFails
    <2> DEFINE v == [Latest EXCEPT !.status = want]
    <2>1. v \in Version /\ v.uid = Latest.uid
      BY <1>1 DEF Version
    <2>2. log' = log \/ (Store(v) /\ Latest.exists)
      BY <1>7 DEF PatchStatus, PatchStatusFails, StatusPatchApplies
    <2> QED
      BY <2>1, <2>2 DEF Follows
  <1>8. CASE Deliver
    <2>1. log \in Seq(Version) /\ log # << >> /\ Len(log) > 1
      BY <1>1, <1>8 DEF LogOK, Deliver
    <2>2. Tail(log) = SubSeq(log, 2, Len(log)) /\ 2 \in 1..Len(log)
      BY <1>1, <2>1, TailIsSubSeq DEF LogOK
    <2> QED
      BY <1>8, <2>2 DEF Deliver
  <1>9. CASE Restart
    BY <1>9 DEF Restart
  <1> QED
    BY <1>4, <1>5, <1>6, <1>7, <1>8, <1>9, Moves

(* Versions are in the order they were stored, and objects are numbered from 1. *)
VersionsInv ==
    /\ \A i, j \in 1..Len(log) : i <= j => log[i].uid <= log[j].uid
    /\ \A i \in 1..Len(log) : log[i].exists => log[i].uid >= 1

LEMMA LogStep ==
    ASSUME TypeOK, VersionsInv, [Next]_vars
    PROVE  LogOK' /\ VersionsInv' /\ Latest.uid <= Latest'.uid
  <1>1. /\ LogOK /\ Latest \in Version /\ Latest.uid \in Nat
        /\ Len(log) \in Nat \ {0} /\ Len(log) \in 1..Len(log)
        /\ \A i \in 1..Len(log) : log[i].uid \in Nat
    <2>1. LogOK /\ Latest \in Version
      BY TypeParts, EndsAreVersions
    <2>2. \A i \in 1..Len(log) : log[i] \in Version
      BY <2>1 DEF LogOK
    <2> QED
      BY <2>1, <2>2, EndsAreVersions DEF Version
  <1>2. CASE log' = log
    BY <1>1, <1>2 DEF LogOK, VersionsInv, Latest
  <1>3. ASSUME NEW v \in Version, Store(v), Follows(v)
        PROVE  LogOK' /\ VersionsInv' /\ Latest.uid <= Latest'.uid
    <2>1. /\ Len(log') = Len(log) + 1 /\ log'[Len(log) + 1] = v
          /\ \A i \in 1..Len(log) : log'[i] = log[i]
          /\ LogOK' /\ Latest' = v
      BY <1>1, <1>3, StoreFacts
    <2>2. v.uid \in Nat /\ Latest.uid <= v.uid
      BY <1>1, <1>3 DEF Follows, Version
    <2>3. v.uid >= 1
      <3>1. Latest.exists => Latest.uid >= 1
        BY <1>1 DEF VersionsInv, Latest
      <3> QED
        BY <1>1, <1>3, <3>1 DEF Follows
    <2>4. ASSUME NEW i \in 1..Len(log'), NEW j \in 1..Len(log'), i <= j
          PROVE  log'[i].uid <= log'[j].uid
      <3>1. CASE j \in 1..Len(log)
        <4>1. i \in 1..Len(log)
          BY <1>1, <2>4, <3>1
        <4> QED
          BY <2>1, <2>4, <3>1, <4>1 DEF VersionsInv
      <3>2. CASE j = Len(log) + 1 /\ i \in 1..Len(log)
        <4>1. log[i].uid <= Latest.uid
          BY <1>1, <3>2 DEF VersionsInv, Latest
        <4> QED
          BY <1>1, <2>1, <2>2, <3>2, <4>1
      <3>3. CASE j = Len(log) + 1 /\ i = Len(log) + 1
        BY <2>1, <2>2, <3>3
      <3> QED
        BY <1>1, <2>1, <3>1, <3>2, <3>3
    <2>5. \A i \in 1..Len(log') : log'[i].exists => log'[i].uid >= 1
      BY <1>1, <2>1, <2>3 DEF VersionsInv
    <2> QED
      BY <2>1, <2>2, <2>4, <2>5 DEF VersionsInv
  <1>4. ASSUME NEW n \in 1..Len(log), log' = SubSeq(log, n, Len(log))
        PROVE  LogOK' /\ VersionsInv' /\ Latest.uid <= Latest'.uid
    <2>1. LogOK' /\ Suffix(n) /\ Latest' = Latest
      BY <1>1, <1>4, SuffixFacts
    <2>2. ASSUME NEW i \in 1..Len(log'), NEW j \in 1..Len(log'), i <= j
          PROVE  log'[i].uid <= log'[j].uid
      <3>1. /\ n + i - 1 \in 1..Len(log) /\ n + j - 1 \in 1..Len(log)
            /\ log'[i] = log[n + i - 1] /\ log'[j] = log[n + j - 1]
        BY <2>1 DEF Suffix
      <3>2. n + i - 1 <= n + j - 1
        BY <1>1, <2>2
      <3> QED
        BY <3>1, <3>2 DEF VersionsInv
    <2>3. \A i \in 1..Len(log') : log'[i].exists => log'[i].uid >= 1
      BY <2>1 DEF Suffix, VersionsInv
    <2> QED
      BY <1>1, <2>1, <2>2, <2>3 DEF VersionsInv
  <1> QED
    BY <1>2, <1>3, <1>4, LogMoves

-------------------------------------------------------------------------------
(* The children. *)

Keys == 0..2
ChildRecord == [exists : BOOLEAN, owner : Nat, fixed : Contents, content : Contents,
                key : Keys, current : BOOLEAN, ready : BOOLEAN]
LEMMA ChildIsRecord == Child = ChildRecord /\ 0 \in Keys /\ 1 \in Keys /\ 2 \in Keys
  BY DEF Child, ChildRecord, Keys

LEMMA NoChildFacts == NoChild \in Child /\ ~NoChild.exists
  <1>1. NoChild \in ChildRecord
    BY ChildIsRecord DEF NoChild, ChildRecord, Contents
  <1> QED
    BY <1>1, ChildIsRecord DEF NoChild

(* What the specs packages build from a job is a child with the job's owner; its *)
(* content is somebody else's only if the job's spec is.                         *)
LEMMA IntendedFacts ==
    ASSUME job \in Job, parent \in Parent, NEW k
    PROVE  /\ Intended(k) \in Child /\ Intended(k).exists /\ Intended(k).owner = job.uid
           /\ Intended(k).fixed = (IF k = "StatefulSet" THEN job.spec ELSE Fixed)
           /\ job.spec \in Specs => Intended(k).content # Foreign
           /\ k \in {"StorageController", "StorageBroker"} => Intended(k).content = job.spec
  <1>1. /\ job.uid \in Nat /\ job.spec \in Contents /\ parent.image \in Contents
        /\ parent.image # Foreign
        /\ job.spec \in Specs => job.spec # Foreign
    <2>1. job.uid \in Nat /\ job.spec \in Specs \union {Fixed}
      BY DEF Job
    <2>2. parent.image \in Images
      BY DEF Parent
    <2> QED
      BY <2>1, <2>2, ContentsAssumption DEF Contents
  <1>2. NoChild \in ChildRecord /\ NoChild.fixed = Fixed /\ NoChild.content = Fixed
    BY NoChildFacts, ChildIsRecord DEF NoChild
  <1>3. /\ Owned \in ChildRecord /\ Owned.exists /\ Owned.owner = job.uid
        /\ Owned.fixed = Fixed /\ Owned.content = Fixed
    BY <1>1, <1>2 DEF Owned, ChildRecord
  <1>4. ASSUME NEW n \in Keys
        PROVE  LET r == [Owned EXCEPT !.key = n] IN
               /\ r \in ChildRecord /\ r.exists /\ r.owner = job.uid
               /\ r.fixed = Fixed /\ r.content = Fixed
    BY <1>3 DEF ChildRecord
  <1>5. (IF child["JWTSecret"].key = 1 THEN 2 ELSE 1) \in Keys
    BY ChildIsRecord
  <1>6. /\ JWTSecret \in ChildRecord /\ JWTSecret.exists /\ JWTSecret.owner = job.uid
        /\ JWTSecret.fixed = Fixed /\ JWTSecret.content = Fixed
    BY <1>4, <1>5 DEF JWTSecret
  <1>7. /\ StorageController \in ChildRecord /\ StorageController.exists
        /\ StorageController.owner = job.uid /\ StorageController.fixed = Fixed
        /\ StorageController.content = job.spec
    BY <1>1, <1>3 DEF StorageController, ChildRecord
  <1>8. StorageBroker = StorageController
    BY DEF StorageBroker, StorageController
  <1>9. /\ StatefulSet \in ChildRecord /\ StatefulSet.exists
        /\ StatefulSet.owner = job.uid /\ StatefulSet.fixed = job.spec
        /\ StatefulSet.content = parent.image
    BY <1>1, <1>3 DEF StatefulSet, ChildRecord
  <1>10. CASE k = "JWTSecret"
    BY <1>6, <1>10, ChildIsRecord, ContentsAssumption DEF Intended
  <1>11. CASE k \in {"StorageController", "StorageBroker"}
    BY <1>1, <1>7, <1>8, <1>11, ChildIsRecord DEF Intended
  <1>12. CASE k = "StatefulSet"
    BY <1>1, <1>9, <1>12, ChildIsRecord DEF Intended
  <1>13. CASE k \notin {"JWTSecret", "StorageController", "StorageBroker", "StatefulSet"}
    BY <1>3, <1>13, ChildIsRecord, ContentsAssumption DEF Intended, ConfigMap, Service
  <1> QED
    BY <1>10, <1>11, <1>12, <1>13

(* The child a call writes is a child. *)
Written(k) == IF child[k].exists
              THEN [child[k] EXCEPT !.content = Intended(k).content,
                      !.key = Intended(k).key,
                      !.current = @ /\ child[k].content = Intended(k).content]
              ELSE Intended(k)
LEMMA WrittenType ==
    ASSUME job \in Job, parent \in Parent, ChildrenOK, NEW k \in ChildSet
    PROVE  Written(k) \in Child
  <1>1. child[k] \in ChildRecord /\ Intended(k) \in ChildRecord
    BY IntendedFacts, ChildIsRecord DEF ChildrenOK
  <1> DEFINE a == Intended(k).content
             n == Intended(k).key
             b == child[k].current /\ child[k].content = Intended(k).content
  <1>2. a \in Contents /\ n \in Keys /\ b \in BOOLEAN
    BY <1>1 DEF ChildRecord
  <1>3. Written(k) = IF child[k].exists
                     THEN [child[k] EXCEPT !.content = a, !.key = n, !.current = b]
                     ELSE Intended(k)
    BY DEF Written
  <1> HIDE DEF a, n, b
  <1>4. [child[k] EXCEPT !.content = a, !.key = n, !.current = b] \in ChildRecord
    BY <1>1, <1>2 DEF ChildRecord
  <1> QED
    BY <1>1, <1>3, <1>4, ChildIsRecord

(* Updates of a child by somebody else keep it a child, and keep a Secret's key. *)
LEMMA ChildUpdates ==
    ASSUME NEW c \in Child
    PROVE  /\ [c EXCEPT !.content = Foreign, !.current = FALSE] \in Child
           /\ [c EXCEPT !.current = TRUE, !.ready = TRUE] \in Child
           /\ [c EXCEPT !.ready = FALSE] \in Child
  <1>1. c \in ChildRecord /\ Foreign \in Contents
    BY ChildIsRecord DEF Contents
  <1>2. /\ [c EXCEPT !.content = Foreign, !.current = FALSE] \in ChildRecord
        /\ [c EXCEPT !.current = TRUE, !.ready = TRUE] \in ChildRecord
        /\ [c EXCEPT !.ready = FALSE] \in ChildRecord
    BY <1>1 DEF ChildRecord
  <1> QED
    BY <1>2, ChildIsRecord

(* A child that is stored is a child with a pending event. *)
ChildMoves(k, c) == StoreChild(k, c) /\ cached' = cached
LEMMA StoreChildFacts ==
    ASSUME ChildrenOK, NEW k \in ChildSet, NEW c \in Child, ChildMoves(k, c)
    PROVE  /\ ChildrenOK' /\ k \in events' /\ events \subseteq events' /\ child'[k] = c
           /\ \A l \in ChildSet : l # k => child'[l] = child[l]
  BY DEF ChildrenOK, StoreChild, ChildMoves

(* What a step does to the children: a child is removed, one other than the Secret *)
(* is changed, or a call the API server accepts is carried out; or the cache gets  *)
(* an event, or is filled again.                                                   *)
LEMMA ChildrenMoves ==
    ASSUME TypeOK, [Next]_vars
    PROVE  \/ UNCHANGED <<child, cached, events>>
           \/ \E k \in ChildSet : ChildMoves(k, NoChild)
           \/ \E k \in ChildSet, c \in Child : k # "JWTSecret" /\ ChildMoves(k, c)
           \/ \E k \in ChildSet : /\ pc = "children" /\ k = Children[step]
                                  /\ Verb(k) # "none" /\ Accepts(k)
                                  /\ ChildMoves(k, Written(k))
           \/ \E k \in ChildSet : DeliverChild(k)
           \/ Restart
  <1>1. ChildrenOK /\ \A k \in ChildSet : child[k] \in Child
    BY TypeParts DEF ChildrenOK
  <1>2. ASSUME NEW k \in ChildSet, DeleteChild(k) \/ Collect(k)
        PROVE  ChildMoves(k, NoChild)
    BY <1>2 DEF DeleteChild, Collect, Edit, ChildMoves
  <1>3. ASSUME NEW k \in ChildSet, EditChild(k)
        PROVE  \E c \in Child : k # "JWTSecret" /\ ChildMoves(k, c)
    BY <1>1, <1>3, ChildUpdates DEF EditChild, Edit, ChildMoves
  <1>4. ASSUME NEW k \in Workloads, WorkloadUp(k) \/ WorkloadDown(k)
        PROVE  k \in ChildSet /\ \E c \in Child : k # "JWTSecret" /\ ChildMoves(k, c)
    <2>1. k \in ChildSet /\ k # "JWTSecret"
      BY ChildFacts
    <2> QED
      BY <1>1, <1>4, <2>1, ChildUpdates DEF WorkloadUp, WorkloadDown, ChildMoves
  <1>5. CASE ReconcileChild \/ ReconcileChildFails
    <2>1. Children[step] \in ChildSet
      BY ChildFacts, TypeParts DEF WorkerOK
    <2>2. \/ UNCHANGED <<child, cached, events>>
          \/ /\ pc = "children" /\ Verb(Children[step]) # "none" /\ Accepts(Children[step])
             /\ Write(Children[step]) /\ cached' = cached
      BY <1>5 DEF ReconcileChild, ReconcileChildFails
    <2> QED
      BY <2>1, <2>2 DEF Write, Written, ChildMoves
  <1> QED
    BY <1>2, <1>3, <1>4, <1>5, Moves

LEMMA ChildrenStep ==
    ASSUME TypeOK, [Next]_vars
    PROVE  ChildrenOK'
  <1>1. ChildrenOK /\ job \in Job /\ parent \in Parent
    BY TypeParts DEF WorkerOK
  <1>2. ASSUME NEW k \in ChildSet, NEW c \in Child, ChildMoves(k, c)
        PROVE  ChildrenOK'
    BY <1>1, <1>2, StoreChildFacts
  <1>3. CASE UNCHANGED <<child, cached, events>>
    BY <1>1, <1>3 DEF ChildrenOK
  <1>4. ASSUME NEW k \in ChildSet, DeliverChild(k) PROVE ChildrenOK'
    BY <1>1, <1>4 DEF DeliverChild, ChildrenOK
  <1>5. CASE Restart
    BY <1>1, <1>5 DEF Restart, ChildrenOK
  <1> QED
    BY <1>1, <1>2, <1>3, <1>4, <1>5, ChildrenMoves, WrittenType, NoChildFacts

-------------------------------------------------------------------------------
(* Type correctness. *)

LEMMA NoStatusType == NoStatus \in Status
  BY DEF Status, NoStatus, Reasons

(* Every status a call may make is a status. *)
LEMMA StatusType ==
    ASSUME NEW o \in Version, NEW cs, NEW err, NEW s \in WorkloadStatus(o, cs, err)
    PROVE  s \in Status
  <1>1. o.gen \in Nat
    BY DEF Version
  <1>2. CASE Kind = "Cluster"
    <2>1. s = ClusterStatus(o, cs, err)
      BY <1>2 DEF WorkloadStatus
    <2>2. \A k \in Workloads : deploymentState(cs[k]) \in Reasons
      BY DEF deploymentState, Reasons
    <2> DEFINE a == CASE err -> "ResourceCreateFailed"
                      [] ~err /\ \A k \in Workloads : IsDeploymentAvailable(cs[k])
                           -> "AsExpected"
                      [] OTHER -> "ChildDeploymentNotAvailable"
               ps == [k \in Workloads |-> deploymentState(cs[k])]
    <2>3. a \in Reasons
      BY DEF Reasons
    <2>4. ps \in [Workloads -> Reasons]
      BY <2>2
    <2>5. s = [obsGen |-> o.gen, parts |-> ps, available |-> a]
      BY <2>1 DEF ClusterStatus
    <2> HIDE DEF a, ps
    <2> QED
      BY <1>1, <2>3, <2>4, <2>5 DEF Status
  <1>3. CASE Kind # "Cluster"
    <2>1. PICK d \in PodNotReadyDetail : s = STSBackedStatus(o, cs["StatefulSet"], err, d)
      BY <1>3 DEF WorkloadStatus
    <2> DEFINE sts == cs["StatefulSet"]
               a == CASE err -> "ResourceCreateFailed"
                      [] ~err /\ ~sts.exists -> "ChildResourceMissing"
                      [] ~err /\ IsStatefulSetReady(sts) -> "AsExpected"
                      [] OTHER -> d
    <2>2. a \in Reasons
      BY DEF Reasons
    <2>3. s = [NoStatus EXCEPT !.obsGen = o.gen, !.available = a]
      BY <2>1 DEF STSBackedStatus
    <2> HIDE DEF a
    <2> QED
      BY <1>1, <2>2, <2>3, NoStatusType DEF Status
  <1> QED
    BY <1>2, <1>3

(* When a call is over, the worker is idle. *)
LEMMA DoneFacts ==
    ASSUME Done
    PROVE  WorkerOK' /\ pc' = "idle" /\ createErr' = FALSE
  <1>1. NoJob \in Job
    BY DEF NoJob, Job
  <1> QED
    BY <1>1, NoStatusType, ChildFacts DEF Done, WorkerOK

LEMMA WorkerStep ==
    ASSUME TypeOK, VersionsInv, [Next]_vars
    PROVE  WorkerOK' /\ JobOK'
  <1>1. /\ WorkerOK /\ LogOK /\ Cached \in Version /\ Latest \in Version
        /\ job \in Job /\ want \in Status /\ step \in Steps
    BY TypeParts, EndsAreVersions DEF WorkerOK
  <1>2. Latest.uid <= Latest'.uid /\ Latest.uid \in Nat /\ Latest'.uid \in Nat
    <2>1. LogOK' /\ Latest.uid <= Latest'.uid
      BY LogStep
    <2>2. Latest' \in Version
      BY <2>1 DEF LogOK, Latest
    <2> QED
      BY <1>1, <2>1, <2>2 DEF Version
  <1>3. ASSUME pc # "idle", job' = job PROVE JobOK'
    <2>1. job.uid \in 1..Latest.uid
      BY <1>3, TypeParts DEF JobOK
    <2>2. job.uid \in 1..Latest'.uid
      BY <1>2, <2>1
    <2> QED
      BY <1>3, <2>2 DEF JobOK
  <1>4. CASE UNCHANGED <<pc, job, step, want, createErr>>
    <2>1. WorkerOK'
      BY <1>1, <1>4 DEF WorkerOK
    <2>2. CASE pc = "idle"
      BY <1>4, <2>1, <2>2 DEF JobOK
    <2> QED
      BY <1>3, <1>4, <2>1, <2>2
  <1>5. CASE Done
    BY <1>5, DoneFacts DEF JobOK
  <1>6. CASE Reconcile
    <2> DEFINE j == [uid |-> Cached.uid, spec |-> Cached.spec]
    <2>1. j \in Job /\ j.uid = Cached.uid
      BY <1>1 DEF Job, Version
    <2>2. job' = j /\ pc' = "children" /\ UNCHANGED <<step, want, log>> /\ Cached.exists
      BY <1>6 DEF Reconcile, apiVars
    <2> HIDE DEF j
    <2>3. WorkerOK'
      BY <1>1, <2>1, <2>2 DEF WorkerOK
    <2>4. Cached.uid <= Latest.uid /\ Cached.uid >= 1 /\ Cached.uid \in Nat
      <3>1. 1 \in 1..Len(log) /\ Len(log) \in 1..Len(log) /\ 1 <= Len(log)
        BY <1>1, EndsAreVersions
      <3> QED
        BY <1>1, <2>2, <3>1 DEF VersionsInv, Cached, Latest, Version
    <2>5. Cached.uid \in 1..Latest'.uid
      BY <1>2, <2>4
    <2> QED
      BY <2>1, <2>2, <2>3, <2>5 DEF JobOK
  <1>7. CASE ReconcileChild
    <2>1. \/ pc' = "status" /\ step' = step
          \/ pc' = pc /\ step' = step + 1 /\ step # Len(Children)
      BY <1>7 DEF ReconcileChild
    <2>2. step' \in Steps /\ pc' \in {pc, "status"}
      BY <1>1, <2>1, ChildFacts
    <2>3. pc # "idle" /\ job' = job /\ want' = want
      BY <1>7 DEF ReconcileChild
    <2>4. WorkerOK'
      BY <1>1, <2>2, <2>3 DEF WorkerOK
    <2> QED
      BY <1>3, <2>3, <2>4
  <1>8. CASE ReconcileChildFails
    <2>1. /\ pc = "children" /\ pc' = "status" /\ job' = job /\ want' = want /\ step' = step
      BY <1>8 DEF ReconcileChildFails
    <2>2. WorkerOK'
      BY <1>1, <2>1 DEF WorkerOK
    <2> QED
      BY <1>3, <2>1, <2>2
  <1>9. CASE GetForStatus
    <2>1. \/ Done
          \/ /\ pc = "status" /\ pc' = "patchStatus" /\ job' = job /\ step' = step
             /\ want' \in WorkloadStatus(Cached, cached, createErr)
      BY <1>9 DEF GetForStatus, Return
    <2>2. CASE /\ pc = "status" /\ pc' = "patchStatus" /\ job' = job /\ step' = step
               /\ want' \in WorkloadStatus(Cached, cached, createErr)
      <3>1. want' \in Status
        BY <1>1, <2>2, StatusType
      <3>2. WorkerOK'
        BY <1>1, <2>2, <3>1 DEF WorkerOK
      <3> QED
        BY <1>3, <2>2, <3>2
    <2> QED
      BY <1>5, <2>1, <2>2
  <1> QED
    BY <1>4, <1>5, <1>6, <1>7, <1>8, <1>9, Moves

LEMMA RestStep ==
    ASSUME TypeOK, [Next]_vars
    PROVE  FlagsOK' /\ CountersOK' /\ parent' \in Parent
  <1>1. FlagsOK /\ CountersOK /\ parent \in Parent
    BY TypeParts
  <1>2. parent' \in Parent
    BY <1>1, Moves DEF DeliverParent, SetImage, Parent
  <1>3. /\ queued' = queued \/ queued' \in BOOLEAN
        /\ timer' = timer \/ timer' \in BOOLEAN
        /\ locked' = locked \/ locked' \in BOOLEAN
        /\ createErr' = createErr \/ createErr' \in BOOLEAN
        /\ edits' = edits \/ edits' = edits + 1
        /\ faults' = faults \/ faults' = faults + 1
    <2> USE DEF Next, User, Create, SetSpec, Delete, DeleteChild, EditChild, SetImage, Edit,
                DeliverParent, WorkloadUp, WorkloadDown, Kubernetes, Collect, Deliver,
                DeliverChild, TimerFires, Worker, ReconcileDeleted, Reconcile, Dequeue,
                ReconcileChild, ReconcileChildFails, GetForStatus, PatchStatus,
                PatchStatusFails, Restart, Return, vars, apiVars, childVars, queueVars,
                workerVars, Store, Done, Fault
    <2>1. queued' = queued \/ queued' \in BOOLEAN
      OBVIOUS
    <2>2. timer' = timer \/ timer' \in BOOLEAN
      OBVIOUS
    <2>3. locked' = locked \/ locked' \in BOOLEAN
      OBVIOUS
    <2>4. createErr' = createErr \/ createErr' \in BOOLEAN
      OBVIOUS
    <2>5. edits' = edits \/ edits' = edits + 1
      OBVIOUS
    <2>6. faults' = faults \/ faults' = faults + 1
      OBVIOUS
    <2> QED
      BY <2>1, <2>2, <2>3, <2>4, <2>5, <2>6
  <1>4. FlagsOK'
    BY <1>1, <1>3, Zenon DEF FlagsOK
  <1>5. CountersOK'
    BY <1>1, <1>3 DEF CountersOK
  <1> QED
    BY <1>2, <1>4, <1>5

(* Types and versions, together: that a call is for an object there has been rests on *)
(* the order of the versions.                                                         *)
LEMMA TypesInductive == Spec => [](TypeOK /\ VersionsInv)
  <1>1. Init => TypeOK /\ VersionsInv
    <2> SUFFICES ASSUME Init PROVE TypeOK /\ VersionsInv
      OBVIOUS
    <2>1. PICK s \in Specs : log = << [exists |-> FALSE, uid |-> 0, gen |-> 0, spec |-> s,
                                       status |-> NoStatus] >>
      BY DEF Init
    <2>2. [exists |-> FALSE, uid |-> 0, gen |-> 0, spec |-> s, status |-> NoStatus]
            \in Version
      BY NoStatusType DEF Version
    <2>3. log \in Seq(Version) /\ Len(log) = 1 /\ log[1].uid = 0 /\ log[1].exists = FALSE
      BY <2>1, <2>2
    <2>4. LogOK /\ VersionsInv
      BY <2>3 DEF LogOK, VersionsInv
    <2>5. ChildrenOK
      BY NoChildFacts DEF ChildrenOK, Init
    <2>6. NoJob \in Job
      BY DEF NoJob, Job
    <2>7. WorkerOK /\ JobOK
      BY <2>6, NoStatusType, ChildFacts DEF WorkerOK, JobOK, Init
    <2>8. FlagsOK /\ CountersOK /\ parent \in Parent
      BY BoundsAssumption DEF FlagsOK, CountersOK, Init, Parent
    <2> QED
      BY <2>4, <2>5, <2>7, <2>8, TypeParts
  <1>2. TypeOK /\ VersionsInv /\ [Next]_vars => TypeOK' /\ VersionsInv'
    <2> SUFFICES ASSUME TypeOK, VersionsInv, [Next]_vars PROVE TypeOK' /\ VersionsInv'
      OBVIOUS
    <2>1. /\ LogOK' /\ ChildrenOK' /\ WorkerOK' /\ JobOK' /\ FlagsOK' /\ CountersOK'
          /\ parent' \in Parent /\ VersionsInv'
      BY LogStep, ChildrenStep, WorkerStep, RestStep
    <2> QED
      BY <2>1 DEF TypeOK, LogOK, ChildrenOK, WorkerOK, JobOK, FlagsOK, CountersOK, Steps
  <1> QED
    BY <1>1, <1>2, PTL DEF Spec

(* Type correctness: every variable keeps its type, a child without a pending event *)
(* is in the cache as it is stored, and a call is for an object there has been.     *)
THEOREM TypeCorrect == Spec => []TypeOK
  BY TypesInductive, PTL

-------------------------------------------------------------------------------
(* The key of a Cluster. *)

(* A Secret that is there is not written: the reconciler only ever creates one, and *)
(* the API server rejects the creation.                                             *)
LEMMA SecretOnlyCreated ==
    ASSUME Verb("JWTSecret") # "none", Accepts("JWTSecret")
    PROVE  ~child["JWTSecret"].exists
  <1>1. Verb("JWTSecret") = "create"
    BY DEF Verb
  <1> QED
    BY <1>1 DEF Accepts

LEMMA KeyStep ==
    ASSUME TypeOK, [Next]_vars, "JWTSecret" \in ChildSet,
           child["JWTSecret"].exists, child'["JWTSecret"].exists
    PROVE  child'["JWTSecret"] = child["JWTSecret"]
  <1>1. ChildrenOK /\ job \in Job /\ parent \in Parent
    BY TypeParts DEF WorkerOK
  <1>2. ASSUME NEW k \in ChildSet, NEW c \in Child, ChildMoves(k, c), k # "JWTSecret"
        PROVE  child'["JWTSecret"] = child["JWTSecret"]
    BY <1>1, <1>2, StoreChildFacts
  <1>3. ASSUME NEW k \in ChildSet, ChildMoves(k, NoChild)
        PROVE  child'["JWTSecret"] = child["JWTSecret"]
    BY <1>1, <1>2, <1>3, NoChildFacts, StoreChildFacts
  <1>4. ASSUME NEW k \in ChildSet, Verb(k) # "none", Accepts(k), ChildMoves(k, Written(k))
        PROVE  child'["JWTSecret"] = child["JWTSecret"]
    <2>1. k # "JWTSecret"
      BY <1>4, SecretOnlyCreated
    <2> QED
      BY <1>1, <1>2, <1>4, <2>1, WrittenType
  <1>5. ASSUME NEW k \in ChildSet, DeliverChild(k) PROVE child' = child
    BY <1>5 DEF DeliverChild
  <1>6. ASSUME Restart PROVE child' = child
    BY <1>6 DEF Restart
  <1> QED
    BY <1>2, <1>3, <1>4, <1>5, <1>6, ChildrenMoves

(* The JWT key of a Cluster is written once: however stale the cache that shows no *)
(* Secret, whatever failed or restarted, a key in use is never replaced.           *)
THEOREM KeyKept == Spec => KeyWriteOnce
  <1>1. TypeOK /\ [Next]_vars =>
          [("JWTSecret" \in ChildSet /\ child["JWTSecret"].exists
              /\ child'["JWTSecret"].exists)
             => child'["JWTSecret"].key = child["JWTSecret"].key]_vars
    BY KeyStep
  <1> QED
    BY <1>1, TypeCorrect, PTL DEF Spec, KeyWriteOnce

-------------------------------------------------------------------------------
(* No lost wakeup, as for the Branch: while the key has not been queued again, what *)
(* the call read is what the cache still has.                                       *)

(* A call begins with the first child. *)
StepInv == pc = "idle" => step = 1

(* The call works on the version in the cache, unless the key is queued again. *)
CallInv == pc # "idle" /\ ~queued => Cached.exists /\ job.spec = Cached.spec

(* The cache has child k as the cached object wants it, or an event of k is to come. *)
Current(k) == /\ cached[k].exists
              /\ cached[k].fixed = (IF k = "StatefulSet" THEN Cached.spec ELSE Fixed)
              /\ cached[k].content # Foreign
              /\ Kind = "Cluster" /\ k \in Workloads => cached[k].content = Cached.spec
Passed(k) == k \in events \/ Current(k)

(* The watched children before the one in hand have been passed. *)
Succeeding == pc = "children" \/ (pc \in {"status", "patchStatus"} /\ ~createErr)
PassInv == Succeeding /\ ~queued =>
             \A i \in Steps : (pc = "children" => i < step) /\ Children[i] \in Watched
                              => Passed(Children[i])

(* When nothing is queued, no timer runs and no call is in progress, the last call *)
(* has left the cached object with its watched children, and with its status or a  *)
(* later version on its way.                                                       *)
RestInv ==
    pc = "idle" /\ ~queued /\ ~timer /\ Cached.exists =>
      /\ \A k \in Watched : Passed(k)
      /\ Len(log) > 1 \/ Cached.status \in WorkloadStatus(Cached, cached, FALSE)

WakeupInv == StepInv /\ CallInv /\ PassInv /\ RestInv

(* A step that leaves the key unqueued leaves the cached object and the watched *)
(* children in the cache alone, or is a restart.                                *)
LEMMA Undisturbed ==
    ASSUME TypeOK, [Next]_vars, ~queued', ~Restart
    PROVE  /\ Cached' = Cached
           /\ \A k \in Watched : cached'[k] = cached[k] /\ (k \in events => k \in events')
           /\ log' = log \/ Len(log') > 1
           /\ ~queued \/ pc = "idle"
  <1>1. ~Deliver /\ ~TimerFires /\ \A k \in Watched : ~DeliverChild(k)
    BY Zenon DEF Deliver, TimerFires, DeliverChild
  <1>2. LogOK /\ ChildrenOK
    BY TypeParts
  <1>3. /\ Cached' = Cached
        /\ log' = log \/ Len(log') > 1
    <2>1. CASE log' = log
      BY <2>1 DEF Cached
    <2>2. ASSUME NEW v \in Version, Store(v) PROVE <1>3
      BY <1>2, <2>2, StoreFacts
    <2> QED
      BY <1>1, <2>1, <2>2, LogMoves
  <1>4. \A k \in Watched : cached'[k] = cached[k] /\ (k \in events => k \in events')
    <2>1. ASSUME NEW l \in ChildSet, DeliverChild(l) PROVE <1>4
      <3>1. l \notin Watched
        BY <1>1, <2>1
      <3>2. events' = events \ {l} /\ cached' = [cached EXCEPT ![l] = child[l]]
        BY <2>1 DEF DeliverChild
      <3> QED
        BY <1>2, <3>1, <3>2, ChildFacts DEF ChildrenOK
    <2> QED
      BY <2>1, ChildrenMoves DEF ChildMoves, StoreChild
  <1>5. ~queued \/ pc = "idle"
    <2>1. CASE \E k \in ChildSet : DeliverChild(k)
      BY <2>1, Zenon DEF DeliverChild
    <2>2. queued' = queued \/ Dequeue \/ \E k \in ChildSet : DeliverChild(k)
      BY <1>1 DEF Next, User, Create, SetSpec, Delete, DeleteChild, EditChild, SetImage,
              Edit, DeliverParent, WorkloadUp, WorkloadDown, Kubernetes, Collect,
              Worker, ReconcileDeleted, Reconcile,
              ReconcileChild, ReconcileChildFails, GetForStatus, PatchStatus,
              PatchStatusFails, Return, vars, queueVars
    <2> QED
      BY <2>1, <2>2, Zenon DEF Dequeue
  <1> QED
    BY <1>3, <1>4, <1>5

LEMMA PassedKept ==
    ASSUME TypeOK, [Next]_vars, ~queued', ~Restart, NEW k \in Watched, Passed(k)
    PROVE  Passed(k)'
  <1>1. Cached' = Cached /\ cached'[k] = cached[k] /\ (k \in events => k \in events')
    BY Undisturbed
  <1> QED
    BY <1>1 DEF Passed, Current

LEMMA StepStep ==
    ASSUME StepInv, [Next]_vars
    PROVE  StepInv'
  BY Moves DEF StepInv, Done, Reconcile, Dequeue, ReconcileChild, ReconcileChildFails,
               GetForStatus, Return

LEMMA CallStep ==
    ASSUME TypeOK, CallInv, [Next]_vars
    PROVE  CallInv'
  <1> SUFFICES ASSUME pc' # "idle", ~queued'
               PROVE  Cached'.exists /\ job'.spec = Cached'.spec
    BY DEF CallInv
  <1>1. ~Restart /\ ~Done
    BY DEF Restart, Done
  <1>2. Cached' = Cached /\ (~queued \/ pc = "idle")
    BY <1>1, Undisturbed
  <1>3. CASE Reconcile
    <2>1. Cached.exists
      BY <1>3 DEF Reconcile
    <2>2. job'.spec = Cached.spec
      BY <1>3 DEF Reconcile
    <2> QED
      BY <1>2, <2>1, <2>2
  <1>4. CASE pc # "idle" /\ job' = job
    BY <1>2, <1>4 DEF CallInv
  <1> QED
    BY <1>1, <1>3, <1>4, Moves
       DEF ReconcileChild, ReconcileChildFails, GetForStatus, Return

(* A child that needs no call is as the cached object wants it. *)
LEMMA NoneIsCurrent ==
    ASSUME TypeOK, CallInv, pc = "children", ~queued, NEW k \in Watched,
           Verb(k) = "none"
    PROVE  Current(k)
  <1>1. job \in Job /\ parent \in Parent /\ k \in ChildSet /\ k # "JWTSecret"
    BY TypeParts, ChildFacts DEF WorkerOK
  <1>2. cached[k].exists /\ ~Drift(Intended(k), cached[k])
    BY <1>1 DEF Verb
  <1>3. job.spec = Cached.spec /\ Cached.spec \in Specs
    <2>1. Cached \in Version
      BY TypeParts, EndsAreVersions
    <2> QED
      BY <2>1 DEF CallInv, Version
  <1>4. /\ Intended(k).fixed = (IF k = "StatefulSet" THEN job.spec ELSE Fixed)
        /\ Intended(k).content # Foreign
        /\ k \in {"StorageController", "StorageBroker"} => Intended(k).content = job.spec
    BY <1>1, <1>3, IntendedFacts
  <1>5. cached[k].fixed = Intended(k).fixed /\ cached[k].content = Intended(k).content
    BY <1>2 DEF Drift
  <1> QED
    BY <1>2, <1>3, <1>4, <1>5, ChildFacts DEF Current

LEMMA PassStep ==
    ASSUME TypeOK, StepInv, CallInv, PassInv, [Next]_vars
    PROVE  PassInv'
  <1> SUFFICES ASSUME Succeeding', ~queued', NEW i \in Steps, pc' = "children" => i < step',
                      Children[i] \in Watched
               PROVE  Passed(Children[i])'
    BY DEF PassInv
  <1>1. ~Restart /\ ~Done
    BY DEF Restart, Done, Succeeding
  <1>2. ~queued \/ pc = "idle"
    BY <1>1, Undisturbed
  <1>3. ASSUME Passed(Children[i]) PROVE Passed(Children[i])'
    BY <1>1, <1>3, PassedKept
  <1>4. CASE UNCHANGED <<pc, job, step, want, createErr>>
    <2>1. Succeeding /\ (pc = "children" => i < step) /\ ~queued
      BY <1>2, <1>4 DEF Succeeding
    <2> QED
      BY <1>3, <2>1 DEF PassInv
  <1>5. CASE Reconcile
    <2>1. step' = 1 /\ pc' = "children"
      BY <1>5 DEF Reconcile, Dequeue, StepInv
    <2> QED
      BY <2>1 DEF Steps
  <1>6. CASE ReconcileChild
    <2>1. pc = "children" /\ Succeeding /\ ~queued /\ step \in Steps
      BY <1>2, <1>6, TypeParts DEF ReconcileChild, Succeeding, WorkerOK
    <2>2. i < step \/ i = step
      <3>1. \/ pc' = "status" /\ step = Len(Children)
            \/ pc' = pc /\ step' = step + 1
        BY <1>6 DEF ReconcileChild
      <3> QED
        BY <2>1, <3>1, ChildFacts DEF Steps
    <2>3. CASE i < step
      BY <1>3, <2>1, <2>3 DEF PassInv
    <2>4. CASE i = step
      <3>1. Verb(Children[step]) = "none" \/ Write(Children[step])
        BY <1>6 DEF ReconcileChild
      <3>2. CASE Verb(Children[step]) = "none"
        BY <1>3, <2>1, <2>4, <3>2, NoneIsCurrent DEF Passed
      <3>3. CASE Write(Children[step])
        BY <2>4, <3>3 DEF Write, StoreChild, Passed
      <3> QED
        BY <3>1, <3>2, <3>3
    <2> QED
      BY <2>2, <2>3, <2>4
  <1>7. CASE GetForStatus
    <2>1. pc = "status" /\ pc' = "patchStatus" /\ createErr' = createErr
      BY <1>1, <1>7 DEF GetForStatus, Return
    <2>2. Succeeding /\ ~queued
      BY <1>2, <2>1 DEF Succeeding
    <2> QED
      BY <1>3, <2>1, <2>2 DEF PassInv
  <1>8. ~ReconcileChildFails
    BY DEF ReconcileChildFails, Succeeding
  <1> QED
    BY <1>1, <1>4, <1>5, <1>6, <1>7, <1>8, Moves

(* How the worker comes to rest with no timer: it was at rest, or a call ended well *)
(* with a status that was already right or has just been stored.                    *)
LEMMA RestMoves ==
    ASSUME TypeOK, [Next]_vars, pc' = "idle", ~queued', ~timer', Cached'.exists
    PROVE  /\ ~Restart
           /\ \/ pc = "idle" /\ ~queued /\ ~timer
              \/ /\ pc \in {"status", "patchStatus"} /\ ~createErr
                 /\ \/ Len(log') > 1
                    \/ Cached.status \in WorkloadStatus(Cached, cached, FALSE)
  <1>1. ~Restart
    BY Zenon DEF Restart
  <1>2. Cached' = Cached /\ (~queued \/ pc = "idle") /\ (log' = log \/ Len(log') > 1)
    BY <1>1, Undisturbed
  <1>3. ~ReconcileDeleted
    BY <1>2, Zenon DEF ReconcileDeleted
  <1>4. ASSUME NEW e, Return(e) PROVE ~createErr /\ ~e
    BY <1>4, Zenon DEF Return
  <1>5. CASE GetForStatus
    <2>1. /\ pc = "status"
          /\ Return(TRUE) \/ (/\ Return(FALSE)
                              /\ Cached.status \in WorkloadStatus(Cached, cached, createErr))
      BY <1>5 DEF GetForStatus
    <2>2. ~createErr /\ Cached.status \in WorkloadStatus(Cached, cached, createErr)
      BY <1>4, <2>1
    <2>3. createErr = FALSE
      BY <2>2, TypeParts DEF FlagsOK
    <2> QED
      BY <1>1, <2>1, <2>2, <2>3
  <1>6. CASE PatchStatus
    <2> DEFINE v == [Latest EXCEPT !.status = want]
    <2>1. /\ pc = "patchStatus" /\ Return(FALSE) /\ Store(v)
      BY <1>6 DEF PatchStatus
    <2>2. LogOK /\ Latest \in Version /\ want \in Status
      BY TypeParts, EndsAreVersions DEF WorkerOK
    <2>3. v \in Version
      BY <2>2 DEF Version
    <2> HIDE DEF v
    <2>4. Len(log') > 1
      BY <2>1, <2>2, <2>3, StoreFacts
    <2> QED
      BY <1>1, <1>4, <2>1, <2>4
  <1>7. ~PatchStatusFails
    BY <1>4 DEF PatchStatusFails
  <1>8. CASE pc = "idle" /\ UNCHANGED <<queued, timer>>
    BY <1>1, <1>8
  <1>9. ~Deliver /\ ~TimerFires
    BY Zenon DEF Deliver, TimerFires
  <1>10. ASSUME NEW k \in ChildSet, DeliverChild(k)
         PROVE  pc = "idle" /\ ~queued /\ ~timer
    BY <1>10, Zenon DEF DeliverChild, workerVars
  <1> QED
    BY <1>1, <1>3, <1>5, <1>6, <1>7, <1>8, <1>9, <1>10
       DEF Next, User, Create, SetSpec, Delete, DeleteChild, EditChild, SetImage, Edit,
           DeliverParent, WorkloadUp, WorkloadDown, Kubernetes, Collect, Worker,
           Reconcile, ReconcileChild, ReconcileChildFails, vars, queueVars, workerVars

(* A status depends on the workloads only. *)
LEMMA StatusReads ==
    ASSUME NEW o, NEW cs, NEW ds, NEW err, \A k \in Workloads : cs[k] = ds[k]
    PROVE  WorkloadStatus(o, cs, err) = WorkloadStatus(o, ds, err)
  <1>1. CASE Kind = "Cluster"
    <2>1. [k \in Workloads |-> deploymentState(cs[k])]
            = [k \in Workloads |-> deploymentState(ds[k])]
      OBVIOUS
    <2>2. (\A k \in Workloads : IsDeploymentAvailable(cs[k]))
            <=> (\A k \in Workloads : IsDeploymentAvailable(ds[k]))
      OBVIOUS
    <2>3. ClusterStatus(o, cs, err) = ClusterStatus(o, ds, err)
      BY <2>1, <2>2 DEF ClusterStatus
    <2> QED
      BY <1>1, <2>3 DEF WorkloadStatus
  <1>2. CASE Kind # "Cluster"
    <2>1. cs["StatefulSet"] = ds["StatefulSet"]
      BY <1>2, ChildFacts
    <2> QED
      BY <1>2, <2>1 DEF WorkloadStatus
  <1> QED
    BY <1>1, <1>2

LEMMA RestInvStep ==
    ASSUME TypeOK, WakeupInv, [Next]_vars
    PROVE  RestInv'
  <1> DEFINE Told == \/ Len(log) > 1
                     \/ Cached.status \in WorkloadStatus(Cached, cached, FALSE)
  <1> SUFFICES ASSUME pc' = "idle", ~queued', ~timer', Cached'.exists
               PROVE  (\A k \in Watched : Passed(k)') /\ Told'
    BY DEF RestInv
  <1>1. /\ ~Restart /\ Cached' = Cached
        /\ \A k \in Watched : cached'[k] = cached[k]
        /\ log' = log \/ Len(log') > 1
        /\ ~queued \/ pc = "idle"
    BY RestMoves, Undisturbed
  <1>2. PassInv /\ RestInv
    BY DEF WakeupInv
  <1>3. (\A k \in Watched : Passed(k)) => \A k \in Watched : Passed(k)'
    BY <1>1, PassedKept
  <1>4. WorkloadStatus(Cached, cached, FALSE)' = WorkloadStatus(Cached, cached, FALSE)
    <2>1. \A k \in Workloads : cached[k] = cached'[k]
      BY <1>1, ChildFacts
    <2>2. WorkloadStatus(Cached, cached, FALSE) = WorkloadStatus(Cached, cached', FALSE)
      BY <2>1, StatusReads
    <2> QED
      BY <1>1, <2>2 DEF WorkloadStatus, ClusterStatus, STSBackedStatus
  <1>5. CASE pc = "idle" /\ ~queued /\ ~timer
    <2>1. (\A k \in Watched : Passed(k)) /\ Told
      BY <1>1, <1>2, <1>5 DEF RestInv
    <2>2. Told'
      BY <1>1, <1>4, <2>1
    <2> QED
      BY <1>3, <2>1, <2>2
  <1>6. CASE /\ pc \in {"status", "patchStatus"} /\ ~createErr
             /\ \/ Len(log') > 1
                \/ Cached.status \in WorkloadStatus(Cached, cached, FALSE)
    <2>1. Succeeding /\ ~queued /\ pc # "children"
      BY <1>1, <1>6 DEF Succeeding
    <2>2. \A k \in Watched : Passed(k)
      BY <1>2, <2>1, ChildFacts DEF PassInv
    <2>3. Told'
      BY <1>1, <1>4, <1>6
    <2> QED
      BY <1>3, <2>2, <2>3
  <1> QED
    BY <1>5, <1>6, RestMoves

(* At rest with nothing on its way, the stored object is the cached one, and so are *)
(* the children.                                                                    *)
LEMMA RestConverged ==
    ASSUME TypeOK, RestInv
    PROVE  QuiescentConverged
  <1> SUFFICES ASSUME Quiescent, Latest.exists PROVE Converged
    BY DEF QuiescentConverged
  <1>1. /\ pc = "idle" /\ ~queued /\ ~timer /\ Len(log) = 1 /\ events = {}
        /\ \A k \in ChildSet : child[k].exists => child[k].owner = Latest.uid
    BY DEF Quiescent
  <1>2. Cached = Latest
    BY <1>1 DEF Cached, Latest
  <1>3. \A k \in ChildSet : cached[k] = child[k]
    BY <1>1, TypeParts DEF ChildrenOK
  <1>4. /\ \A k \in Watched : Passed(k)
        /\ Cached.status \in WorkloadStatus(Cached, cached, FALSE)
    <2>1. ~(Len(log) > 1)
      BY <1>1
    <2> QED
      BY <1>1, <1>2, <2>1 DEF RestInv
  <1>5. \A k \in Watched : Current(k)
    BY <1>1, <1>4 DEF Passed
  <1>6. WorkloadStatus(Cached, cached, FALSE) = WorkloadStatus(Cached, child, FALSE)
    <2>1. \A k \in Workloads : cached[k] = child[k]
      BY <1>3, ChildFacts
    <2> QED
      BY <2>1, StatusReads, Zenon
  <1>7. \A k \in Watched : /\ child[k].exists /\ child[k].owner = Latest.uid
                           /\ child[k].fixed = (IF k = "StatefulSet" THEN Latest.spec
                                                ELSE Fixed)
                           /\ child[k].content # Foreign
                           /\ Kind = "Cluster" /\ k \in Workloads
                              => child[k].content = Latest.spec
    BY <1>1, <1>2, <1>3, <1>5, ChildFacts DEF Current
  <1> QED
    BY <1>2, <1>4, <1>6, <1>7 DEF Converged

(* No lost wakeup, for each of the three reconcilers: whatever was edited, deleted, *)
(* lost or restarted, and in which order, the reconciler comes to rest only on a    *)
(* converged object.                                                                *)
THEOREM NoLostWakeup == Spec => []QuiescentConverged
  <1>1. Init => WakeupInv
    <2> SUFFICES ASSUME Init PROVE WakeupInv
      OBVIOUS
    <2>1. Cached.exists = FALSE /\ pc = "idle" /\ step = 1
      BY DEF Init, Cached
    <2>2. ~Succeeding
      BY <2>1 DEF Succeeding
    <2> QED
      BY <2>1, <2>2 DEF WakeupInv, StepInv, CallInv, PassInv, RestInv
  <1>2. TypeOK /\ WakeupInv /\ [Next]_vars => WakeupInv'
    BY StepStep, CallStep, PassStep, RestInvStep DEF WakeupInv
  <1>3. TypeOK /\ WakeupInv => QuiescentConverged
    BY RestConverged DEF WakeupInv
  <1> QED
    BY <1>1, <1>2, <1>3, TypeCorrect, PTL DEF Spec

===============================================================================
