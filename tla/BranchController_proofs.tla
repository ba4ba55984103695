------------------------ MODULE BranchController_proofs ------------------------
(* Proofs, for every value of the constants, of the safety properties of the *)
(* Branch reconciler that MCBranch checks on small instances.                *)
EXTENDS BranchController, SequenceTheorems, TLAPS

USE NoIDAssumption

(* The parts of TypeOK: the Branch, its children, the worker, and the rest. *)
LogOK == log \in Seq(Version) /\ Len(log) \in Nat \ {0} /\ used \subseteq IDs
ChildrenOK == /\ child \in [KindSet -> Child] /\ cached \in [KindSet -> Child]
              /\ events \subseteq KindSet
              /\ \A k \in KindSet \ events : cached[k] = child[k]
Steps == 1..Len(Kinds)
Places == {"idle", "assign", "patch", "post", "children", "status", "patchStatus"}
WorkerOK == /\ job \in Job /\ pc \in Places /\ step \in Steps /\ want \in Status
            /\ newID \in IDs \union {NoID} /\ outcome \in Outcomes
            /\ pc \in {"assign", "patch"} => newID # NoID
            /\ pc \in {"post", "children"} => job.timeline # NoID
            /\ pc = "children" => job.tenant # NoID
FlagsOK == /\ cluster \in BOOLEAN /\ queued \in BOOLEAN /\ timer \in BOOLEAN
           /\ locked \in BOOLEAN
StorageOK == timelines \subseteq Timeline /\ late \subseteq Timeline
CountersOK == edits \in Nat /\ faults \in Nat

LEMMA TypeParts ==
    TypeOK <=> /\ LogOK /\ ChildrenOK /\ WorkerOK /\ FlagsOK /\ StorageOK /\ CountersOK
               /\ project \in Project
  BY DEF TypeOK, LogOK, ChildrenOK, WorkerOK, FlagsOK, StorageOK, CountersOK, Steps, Places

(* The Deployment is one of the children, and every step is the step of a child. *)
LEMMA KindFacts ==
    /\ Len(Kinds) \in Nat \ {0} /\ "Deployment" \in KindSet /\ 1 \in Steps
    /\ \A i \in Steps : Kinds[i] \in KindSet
    /\ \A k \in KindSet : \E i \in Steps : Kinds[i] = k
    /\ \A i \in Steps : i # Len(Kinds) => i + 1 \in Steps
  <1>1. Len(Kinds) \in Nat /\ \E i \in 1..Len(Kinds) : Kinds[i] = "Deployment"
    BY KindsAssumption
  <1> QED
    BY <1>1 DEF KindSet, Steps

-------------------------------------------------------------------------------
(* What a step may do to each part of the state. *)

(* Where the Branch, the children, the requests and the Project may change. *)
LEMMA Moves ==
    ASSUME [Next]_vars
    PROVE  /\ \/ UNCHANGED <<log, used>>
              \/ \E t \in IDs \union {NoID}, p \in PGVersions : Create(t, p)
              \/ \E p \in PGVersions : SetPGVersion(p)
              \/ \E t \in IDs : SpecifyTimeline(t)
              \/ Delete \/ Deliver \/ Restart
              \/ PatchTimeline \/ PatchTimelineFails \/ PatchStatus \/ PatchStatusFails
           /\ \/ UNCHANGED <<child, cached, events>>
              \/ \E k \in KindSet : DeleteChild(k) \/ Collect(k) \/ DeliverChild(k)
              \/ ComputeUp \/ ComputeDown \/ Restart
              \/ ReconcileChild \/ ReconcileChildFails
           /\ \/ UNCHANGED <<timelines, late>>
              \/ PostOK \/ PostFails \/ LatePost \/ Restart
           /\ project' = project \/ DeliverProject
           /\ cluster' = cluster \/ DeliverCluster
  <1> USE DEF Next, User, Create, SetPGVersion, SpecifyTimeline, Delete, DeleteChild, Edit,
              DeliverProject, DeliverCluster, ComputeUp, ComputeDown, Kubernetes, Caches,
              Collect, Deliver, DeliverChild, TimerFires, Worker, ReconcileDeleted,
              ReconcileAssign, ReconcileNoProject, ReconcileTimeline, GetCurrent,
              PatchTimeline, PatchTimelineFails, PostOK, PostFails, LatePost,
              ReconcileChild, ReconcileChildFails, GetForStatus, PatchStatus,
              PatchStatusFails, Restart, Return, vars, apiVars, envVars, childVars,
              queueVars, workerVars, scVars
  <1>1. \/ UNCHANGED <<log, used>>
        \/ \E t \in IDs \union {NoID}, p \in PGVersions : Create(t, p)
        \/ \E p \in PGVersions : SetPGVersion(p)
        \/ \E t \in IDs : SpecifyTimeline(t)
        \/ Delete \/ Deliver \/ Restart
        \/ PatchTimeline \/ PatchTimelineFails \/ PatchStatus \/ PatchStatusFails
    OBVIOUS
  <1>2. \/ UNCHANGED <<child, cached, events>>
        \/ \E k \in KindSet : DeleteChild(k) \/ Collect(k) \/ DeliverChild(k)
        \/ ComputeUp \/ ComputeDown \/ Restart
        \/ ReconcileChild \/ ReconcileChildFails
    OBVIOUS
  <1>3. \/ UNCHANGED <<timelines, late>>
        \/ PostOK \/ PostFails \/ LatePost \/ Restart
    OBVIOUS
  <1>4. project' = project \/ DeliverProject
    OBVIOUS
  <1>5. cluster' = cluster \/ DeliverCluster
    OBVIOUS
  <1> QED
    BY <1>1, <1>2, <1>3, <1>4, <1>5

-------------------------------------------------------------------------------
(* The versions of the Branch. *)

(* The cached and the stored version are versions. *)
LEMMA EndsAreVersions ==
    ASSUME LogOK
    PROVE  /\ Latest \in Version /\ Cached \in Version
           /\ Len(log) \in Nat \ {0} /\ 1 \in 1..Len(log) /\ Len(log) \in 1..Len(log)
  BY DEF LogOK, Latest, Cached

(* Storing a version extends the log by it and changes no earlier version. *)
LEMMA StoreFacts ==
    ASSUME LogOK, NEW v \in Version, Store(v)
    PROVE  /\ LogOK' /\ Len(log') = Len(log) + 1
           /\ \A i \in 1..Len(log) : log'[i] = log[i]
           /\ Latest' = v /\ Cached' = Cached /\ log'[Len(log) + 1] = v
  <1>1. /\ log' \in Seq(Version) /\ Len(log') = Len(log) + 1
        /\ \A i \in 1..Len(log) : log'[i] = log[i]
        /\ log'[Len(log) + 1] = v
    BY AppendProperties DEF Store, LogOK
  <1>2. used' \subseteq IDs
    BY DEF Store, LogOK, Version
  <1> QED
    BY <1>1, <1>2 DEF LogOK, Latest, Cached

(* When the cache moves on to version i, or is filled again from version i on, the *)
(* log begins there and ends with the same version.                                *)
Suffix(i) == /\ Len(log') = Len(log) - i + 1 /\ used' = used
             /\ \A j \in 1..Len(log') : i + j - 1 \in 1..Len(log) /\ log'[j] = log[i + j - 1]
LEMMA SuffixFacts ==
    ASSUME LogOK, NEW i \in 1..Len(log), log' = SubSeq(log, i, Len(log)), used' = used
    PROVE  LogOK' /\ Suffix(i) /\ Latest' = Latest /\ Cached' = log[i]
  <1>1. \A j \in i..Len(log) : log[j] \in Version
    BY DEF LogOK
  <1>2. Len(log) \in Nat \ {0} /\ i \in Int /\ Len(log) \in Int /\ i <= Len(log)
    BY DEF LogOK
  <1>3. /\ log' \in Seq(Version) /\ Len(log') = Len(log) - i + 1
        /\ \A j \in 1..Len(log) - i + 1 : log'[j] = log[i + j - 1]
    BY <1>1, <1>2, SubSeqProperties
  <1>4. /\ 1 \in 1..Len(log) - i + 1 /\ i + 1 - 1 = i
        /\ Len(log) - i + 1 \in 1..Len(log) - i + 1 /\ i + (Len(log) - i + 1) - 1 = Len(log)
        /\ Len(log) - i + 1 \in Nat \ {0}
    BY <1>2
  <1>5. LogOK'
    BY <1>3, <1>4 DEF LogOK
  <1>6. \A j \in 1..Len(log) - i + 1 : i + j - 1 \in 1..Len(log)
    BY <1>2
  <1>7. Suffix(i)
    BY <1>3, <1>6 DEF Suffix
  <1>8. log'[1] = log[i + 1 - 1] /\ log'[Len(log')] = log[i + (Len(log) - i + 1) - 1]
    BY <1>3, <1>4, Zenon
  <1>9. log'[1] = log[i] /\ log'[Len(log')] = log[Len(log)]
    BY <1>4, <1>8
  <1> QED
    BY <1>5, <1>7, <1>9, Zenon DEF Latest, Cached

LEMMA DeliverSuffix ==
    ASSUME LogOK, Deliver
    PROVE  2 \in 1..Len(log) /\ log' = SubSeq(log, 2, Len(log)) /\ used' = used
  <1>1. log \in Seq(Version) /\ log # << >> /\ Len(log) > 1
    BY DEF LogOK, Deliver
  <1>2. Tail(log) = SubSeq(log, 2, Len(log))
    BY <1>1, TailIsSubSeq
  <1> QED
    BY <1>1, <1>2 DEF Deliver, LogOK

(* Updating fields of a version yields a version with those fields. *)
LEMMA VersionUpdates ==
    ASSUME NEW v \in Version, NEW t \in IDs \union {NoID}, NEW p \in PGVersions,
           NEW s \in Status
    PROVE  /\ [v EXCEPT !.timeline = t, !.gen = @ + 1] \in Version
           /\ [v EXCEPT !.pg = p, !.gen = @ + 1] \in Version
           /\ [v EXCEPT !.status = s] \in Version
           /\ [v EXCEPT !.exists = FALSE] \in Version
  <1>1. v.gen \in Nat
    BY DEF Version
  <1> DEFINE g == v.gen + 1
  <1>2. g \in Nat
    BY <1>1
  <1> HIDE DEF g
  <1>3. [v EXCEPT !.timeline = t, !.gen = g] \in Version
    BY <1>2 DEF Version
  <1>4. [v EXCEPT !.pg = p, !.gen = g] \in Version
    BY <1>2 DEF Version
  <1>5. [v EXCEPT !.status = s] \in Version /\ [v EXCEPT !.exists = FALSE] \in Version
    BY DEF Version
  <1> QED
    BY <1>3, <1>4, <1>5 DEF g

(* v is a new object of the name, an edited Latest, or Latest with the status of a *)
(* locked patch.                                                                   *)
Created(v) == /\ ~Latest.exists /\ v.exists /\ v.uid = Latest.uid + 1
              /\ v.status = NoStatus
Edited(v)  == /\ Latest.exists /\ v.uid = Latest.uid /\ Latest.gen <= v.gen
              /\ v.timeline = Latest.timeline \/ v.timeline \in IDs
              /\ v.status = Latest.status
Patched(v) == /\ pc = "patchStatus" /\ locked /\ Latest.exists /\ v.exists
              /\ v.uid = Latest.uid /\ v.gen = Latest.gen
              /\ v.timeline = Latest.timeline /\ v.status = want

(* What a step does to the versions: nothing, a write, or the cache moves on. *)
LEMMA LogMoves ==
    ASSUME TypeOK, [Next]_vars
    PROVE  \/ UNCHANGED <<log, used>>
           \/ \E v \in Version : Store(v) /\ (Created(v) \/ Edited(v) \/ Patched(v))
           \/ /\ Deliver \/ Restart
              /\ \E i \in 1..Len(log) :
                    /\ log' = SubSeq(log, i, Len(log)) /\ used' = used
                    /\ Deliver => i = 2
  <1>1. /\ Latest \in Version /\ want \in Status /\ newID \in IDs \union {NoID}
        /\ pc = "patch" => newID \in IDs
    BY TypeParts, EndsAreVersions DEF WorkerOK
  <1>2. Latest.uid \in Nat /\ Latest.gen \in Nat /\ NoStatus \in Status
    BY <1>1 DEF Version, Status, NoStatus, ComputeReasons
  <1> DEFINE Writes == \E v \in Version : Store(v) /\ (Created(v) \/ Edited(v) \/ Patched(v))
  <1>3. ASSUME NEW t \in IDs \union {NoID}, NEW p \in PGVersions, Create(t, p)
        PROVE  Writes
    <2> DEFINE v == [exists |-> TRUE, uid |-> Latest.uid + 1, gen |-> 1, timeline |-> t,
                     pg |-> p, status |-> NoStatus]
    <2>1. v \in Version
      BY <1>2 DEF Version
    <2>2. Store(v) /\ ~Latest.exists
      BY <1>3 DEF Create
    <2>3. Created(v)
      BY <2>2 DEF Created
    <2> QED
      BY <2>1, <2>2, <2>3
  <1>4. ASSUME NEW t \in IDs, Latest.exists,
               Store([Latest EXCEPT !.timeline = t, !.gen = @ + 1])
        PROVE  Writes
    <2> DEFINE v == [Latest EXCEPT !.timeline = t, !.gen = @ + 1]
    <2>1. v \in Version
      BY <1>1, VersionUpdates DEF Version
    <2>2. Store(v)
      BY <1>4
    <2>3. v.uid = Latest.uid /\ v.timeline = t /\ v.gen = Latest.gen + 1
          /\ v.status = Latest.status
      BY <1>1 DEF Version
    <2> HIDE DEF v
    <2> QED
      BY <1>2, <1>4, <2>1, <2>2, <2>3 DEF Edited
  <1>5. ASSUME NEW p \in PGVersions, SetPGVersion(p)
        PROVE  Writes
    <2> DEFINE v == [Latest EXCEPT !.pg = p, !.gen = @ + 1]
    <2>1. v \in Version
      BY <1>1, VersionUpdates DEF Version
    <2>2. Store(v) /\ Latest.exists
      BY <1>5 DEF SetPGVersion
    <2>3. v.uid = Latest.uid /\ v.timeline = Latest.timeline /\ v.gen = Latest.gen + 1
          /\ v.status = Latest.status
      BY <1>1 DEF Version
    <2> HIDE DEF v
    <2> QED
      BY <1>2, <2>1, <2>2, <2>3 DEF Edited
  <1>6. CASE Delete
    <2> DEFINE v == [Latest EXCEPT !.exists = FALSE]
    <2>1. v \in Version
      BY <1>1, VersionUpdates DEF Version
    <2>2. Store(v) /\ Latest.exists
      BY <1>6 DEF Delete
    <2>3. v.uid = Latest.uid /\ v.timeline = Latest.timeline /\ v.gen = Latest.gen
          /\ v.status = Latest.status
      BY <1>1 DEF Version
    <2> HIDE DEF v
    <2> QED
      BY <1>2, <2>1, <2>2, <2>3 DEF Edited
  <1>7. ASSUME pc = "patchStatus", StatusPatchApplies, Store([Latest EXCEPT !.status = want])
        PROVE  Writes
    <2> DEFINE v == [Latest EXCEPT !.status = want]
    <2>1. v \in Version
      BY <1>1, VersionUpdates DEF Version
    <2>2. Store(v) /\ Latest.exists /\ locked
      BY <1>7 DEF StatusPatchApplies
    <2>3. v.exists = Latest.exists /\ v.uid = Latest.uid /\ v.timeline = Latest.timeline
          /\ v.gen = Latest.gen /\ v.status = want
      BY <1>1 DEF Version
    <2> HIDE DEF v
    <2> QED
      BY <1>7, <2>1, <2>2, <2>3 DEF Patched
  <1>8. ASSUME NEW t \in IDs, SpecifyTimeline(t) PROVE Writes
    BY <1>4, <1>8 DEF SpecifyTimeline
  <1>9. CASE PatchTimeline \/ PatchTimelineFails
    <2>1. \/ UNCHANGED <<log, used>>
          \/ Latest.exists /\ Store(TimelinePatched)
      BY <1>9 DEF PatchTimeline, PatchTimelineFails, apiVars
    <2>2. newID \in IDs
      BY <1>1, <1>9 DEF PatchTimeline, PatchTimelineFails
    <2> QED
      BY <1>4, <2>1, <2>2 DEF TimelinePatched
  <1>10. CASE PatchStatus \/ PatchStatusFails
    <2>1. \/ UNCHANGED <<log, used>>
          \/ StatusPatchApplies /\ Store([Latest EXCEPT !.status = want])
      BY <1>10 DEF PatchStatus, PatchStatusFails
    <2> QED
      BY <1>7, <1>10, <2>1 DEF PatchStatus, PatchStatusFails
  <1>11. CASE Deliver
    BY <1>11, TypeParts, DeliverSuffix
  <1>12. CASE Restart
    <2>1. ~Deliver \/ Deliver
      OBVIOUS
    <2>2. ASSUME ~Deliver PROVE \E i \in 1..Len(log) :
                    /\ log' = SubSeq(log, i, Len(log)) /\ used' = used
                    /\ Deliver => i = 2
      BY <1>12, <2>2 DEF Restart
    <2> QED
      BY <1>11, <1>12, <2>1, <2>2
  <1> QED
    BY <1>3, <1>5, <1>6, <1>8, <1>9, <1>10, <1>11, <1>12, Moves

-------------------------------------------------------------------------------
(* Type correctness, one part at a time. *)

LEMMA LogStep ==
    ASSUME TypeOK, [Next]_vars
    PROVE  LogOK'
  <1>1. LogOK
    BY TypeParts
  <1>2. CASE UNCHANGED <<log, used>>
    BY <1>1, <1>2 DEF LogOK
  <1> QED
    BY <1>1, <1>2, LogMoves, StoreFacts, SuffixFacts

(* What the compute package builds from a job is a child. *)
LEMMA IntendedFacts ==
    ASSUME job \in Job, NEW k
    PROVE  /\ Intended(k) \in Child /\ Intended(k).exists /\ Intended(k).owner = job.uid
           /\ k = "Deployment" => /\ Intended(k).tenant = job.tenant
                                  /\ Intended(k).timeline = job.timeline
                                  /\ Intended(k).pg = job.pg
  <1>1. /\ job.uid \in Nat /\ job.timeline \in IDs \union {NoID}
        /\ job.pg \in PGVersions \union {NoID} /\ job.tenant \in Tenants \union {NoID}
    BY DEF Job
  <1>2. /\ Owned \in Child /\ Owned.exists /\ Owned.owner = job.uid
    BY <1>1 DEF Owned, NoChild, Child
  <1>3. /\ Deployment \in Child /\ Deployment.exists /\ Deployment.owner = job.uid
        /\ Deployment.tenant = job.tenant /\ Deployment.timeline = job.timeline
        /\ Deployment.pg = job.pg
    BY <1>1, <1>2 DEF Deployment, Child
  <1> QED
    BY <1>2, <1>3 DEF Intended, ConfigMap, Service

(* The child written is a child: the intended one, or the stored one with the  *)
(* intended version; its selector is the stored or the intended one.           *)
Written(k) == IF child[k].exists THEN [child[k] EXCEPT !.pg = Intended(k).pg]
              ELSE Intended(k)
LEMMA WrittenFacts ==
    ASSUME job \in Job, ChildrenOK, NEW k \in KindSet
    PROVE  /\ Written(k) \in Child
           /\ child[k].exists => /\ Written(k).tenant = child[k].tenant
                                 /\ Written(k).timeline = child[k].timeline
           /\ ~child[k].exists => Written(k) = Intended(k)
  <1>1. child[k] \in Child /\ Intended(k) \in Child
    BY IntendedFacts DEF ChildrenOK
  <1>2. Intended(k).pg \in PGVersions \union {NoID}
    BY <1>1 DEF Child
  <1> DEFINE q == Intended(k).pg
  <1>3. q \in PGVersions \union {NoID}
    BY <1>2
  <1> HIDE DEF q
  <1>4. /\ [child[k] EXCEPT !.pg = q] \in Child
        /\ [child[k] EXCEPT !.pg = q].tenant = child[k].tenant
        /\ [child[k] EXCEPT !.pg = q].timeline = child[k].timeline
    BY <1>1, <1>3 DEF Child
  <1> QED
    BY <1>1, <1>4 DEF Written, q

(* A child that is stored is a child with a pending event. *)
LEMMA StoreChildFacts ==
    ASSUME ChildrenOK, NEW k \in KindSet, NEW c \in Child, StoreChild(k, c), cached' = cached
    PROVE  /\ ChildrenOK' /\ k \in events' /\ events \subseteq events' /\ child'[k] = c
           /\ \A l \in KindSet : l # k => child'[l] = child[l]
  BY DEF ChildrenOK, StoreChild

(* What a step does to the children. *)
ChildMoves(k, c) == StoreChild(k, c) /\ cached' = cached
LEMMA ChildrenMoves ==
    ASSUME TypeOK, [Next]_vars
    PROVE  \/ UNCHANGED <<child, cached, events>>
           \/ \E k \in KindSet : ChildMoves(k, NoChild)
           \/ ChildMoves("Deployment", [child["Deployment"] EXCEPT !.avail = TRUE])
           \/ ChildMoves("Deployment", [child["Deployment"] EXCEPT !.avail = FALSE])
           \/ \E k \in KindSet : pc = "children" /\ k = Kinds[step] /\ ChildMoves(k, Written(k))
           \/ \E k \in KindSet : DeliverChild(k)
           \/ Restart
  <1>1. CASE \E k \in KindSet : DeleteChild(k) \/ Collect(k)
    BY <1>1 DEF DeleteChild, Collect, Edit, ChildMoves
  <1>2. CASE ComputeUp \/ ComputeDown
    BY <1>2 DEF ComputeUp, ComputeDown, ChildMoves
  <1>3. CASE ReconcileChild \/ ReconcileChildFails
    <2>1. Kinds[step] \in KindSet
      BY KindFacts, TypeParts DEF WorkerOK
    <2>2. \/ UNCHANGED <<child, cached, events>>
          \/ pc = "children" /\ Write(Kinds[step]) /\ cached' = cached
      BY <1>3 DEF ReconcileChild, ReconcileChildFails
    <2> QED
      BY <2>1, <2>2 DEF Write, Written, ChildMoves
  <1> QED
    BY <1>1, <1>2, <1>3, Moves

LEMMA NoChildType == NoChild \in Child /\ ~NoChild.exists /\ ~NoChild.avail
  BY DEF NoChild, Child

LEMMA ChildrenStep ==
    ASSUME TypeOK, [Next]_vars
    PROVE  ChildrenOK'
  <1>1. ChildrenOK /\ job \in Job /\ "Deployment" \in KindSet
    BY TypeParts, KindFacts DEF WorkerOK
  <1>2. ASSUME NEW k \in KindSet, NEW c \in Child, ChildMoves(k, c)
        PROVE  ChildrenOK'
    BY <1>1, <1>2, StoreChildFacts DEF ChildMoves
  <1>3. CASE UNCHANGED <<child, cached, events>>
    BY <1>1, <1>3 DEF ChildrenOK
  <1>4. ASSUME NEW b \in BOOLEAN PROVE [child["Deployment"] EXCEPT !.avail = b] \in Child
    BY <1>1 DEF ChildrenOK, Child
  <1>5. ASSUME NEW k \in KindSet, DeliverChild(k) PROVE ChildrenOK'
    BY <1>1, <1>5 DEF DeliverChild, ChildrenOK
  <1>6. CASE Restart
    BY <1>1, <1>6 DEF Restart, ChildrenOK
  <1> QED
    BY <1>1, <1>2, <1>3, <1>4, <1>5, <1>6, ChildrenMoves, WrittenFacts, NoChildType

(* A status computed from a version and a Deployment is a status of the version. *)
LEMMA BranchStatusFacts ==
    ASSUME NEW b \in Version, NEW d, NEW out
    PROVE  /\ BranchStatus(b, d, out) \in Status
           /\ BranchStatus(b, d, out).of = b.uid
           /\ BranchStatus(b, d, out).obsGen = b.gen
           /\ BranchStatus(b, d, out).assigned = (b.timeline # NoID)
  <1>1. ComputeReason(d, out) \in ComputeReasons
    BY DEF ComputeReason, ComputeReasons
  <1>2. b.gen \in Nat /\ b.uid \in Nat
    BY DEF Version
  <1> QED
    BY <1>1, <1>2 DEF BranchStatus, Status

(* When a call is over, the worker is idle. *)
LEMMA DoneFacts ==
    ASSUME Done
    PROVE  WorkerOK' /\ pc' = "idle" /\ job'.tenant = NoID
  <1>1. NoJob \in Job /\ NoJob.tenant = NoID
    BY DEF NoJob, Job
  <1>2. NoStatus \in Status
    BY DEF NoStatus, Status, ComputeReasons
  <1> QED
    BY <1>1, <1>2, KindFacts DEF Done, WorkerOK, Places, Outcomes

(* Which steps move the worker. *)
LEMMA WorkerMoves ==
    ASSUME [Next]_vars
    PROVE  \/ UNCHANGED <<pc, job, step, want, newID, outcome>>
           \/ Done
           \/ ReconcileAssign \/ ReconcileTimeline \/ GetCurrent \/ PostOK \/ PostFails
           \/ ReconcileChild \/ ReconcileChildFails \/ GetForStatus
  BY DEF Next, User, Create, SetPGVersion, SpecifyTimeline, Delete, DeleteChild, Edit,
         DeliverProject, DeliverCluster, ComputeUp, ComputeDown, Kubernetes, Caches,
         Collect, Deliver, DeliverChild, TimerFires, Worker, ReconcileDeleted,
         ReconcileNoProject, PatchTimeline, PatchTimelineFails, AssignFailed, LatePost,
         PatchStatus, PatchStatusFails, Restart, Return, vars, workerVars

LEMMA WorkerStep ==
    ASSUME TypeOK, [Next]_vars
    PROVE  WorkerOK'
  <1>1. /\ WorkerOK /\ project \in Project /\ Cached \in Version
        /\ job \in Job /\ want \in Status /\ step \in Steps
    BY TypeParts, EndsAreVersions DEF WorkerOK
  <1>2. CASE UNCHANGED <<pc, job, step, want, newID, outcome>>
    BY <1>1, <1>2 DEF WorkerOK
  <1>3. CASE Done
    BY <1>3, DoneFacts
  <1>4. CASE ReconcileAssign
    BY <1>1, <1>4 DEF ReconcileAssign, FreshIDs, WorkerOK, Places
  <1>5. CASE ReconcileTimeline
    <2> DEFINE j == [uid |-> Cached.uid, timeline |-> Cached.timeline, pg |-> Cached.pg,
                     tenant |-> project.tenant]
    <2>1. j \in Job /\ j.timeline = Cached.timeline
      BY <1>1 DEF Job, Version, Project
    <2>2. /\ job' = j /\ Cached.timeline # NoID /\ pc' = "post"
          /\ UNCHANGED <<step, want, newID, outcome>>
      BY <1>5 DEF ReconcileTimeline
    <2> HIDE DEF j
    <2> QED
      BY <1>1, <2>1, <2>2 DEF WorkerOK, Places
  <1>6. CASE GetCurrent
    <2>1. \/ Done
          \/ pc = "assign" /\ pc' = "patch" /\ UNCHANGED <<job, step, want, newID, outcome>>
      BY <1>6 DEF GetCurrent, AssignFailed
    <2>2. CASE pc = "assign" /\ pc' = "patch" /\ UNCHANGED <<job, step, want, newID, outcome>>
      BY <1>1, <2>2 DEF WorkerOK, Places
    <2> QED
      BY <1>3, <2>1, <2>2
  <1>7. CASE PostOK \/ PostFails
    BY <1>1, <1>7 DEF PostOK, PostFails, WorkerOK, Places, Outcomes
  <1>8. CASE ReconcileChild
    <2>1. \/ pc' = "status" /\ step' = step
          \/ pc' = pc /\ step' = step + 1 /\ step # Len(Kinds)
      BY <1>8 DEF ReconcileChild
    <2>2. step' \in Steps /\ pc' \in {pc, "status"}
      BY <1>1, <2>1, KindFacts
    <2> QED
      BY <1>1, <1>8, <2>2 DEF ReconcileChild, WorkerOK, Places
  <1>9. CASE ReconcileChildFails
    BY <1>1, <1>9 DEF ReconcileChildFails, WorkerOK, Places, Outcomes
  <1>10. CASE GetForStatus
    <2> DEFINE s == BranchStatus(Cached, cached["Deployment"], outcome)
    <2>1. s \in Status
      BY <1>1, BranchStatusFacts
    <2>2. \/ Done
          \/ pc' = "patchStatus" /\ want' = s /\ UNCHANGED <<job, step, newID, outcome>>
      BY <1>10 DEF GetForStatus, Return
    <2> HIDE DEF s
    <2>3. CASE pc' = "patchStatus" /\ want' = s /\ UNCHANGED <<job, step, newID, outcome>>
      BY <1>1, <2>1, <2>3 DEF WorkerOK, Places
    <2> QED
      BY <1>3, <2>2, <2>3
  <1> QED
    BY <1>2, <1>3, <1>4, <1>5, <1>6, <1>7, <1>8, <1>9, <1>10, WorkerMoves

LEMMA FlagsStep ==
    ASSUME TypeOK, [Next]_vars
    PROVE  FlagsOK'
  <1>1. FlagsOK
    BY TypeParts
  <1>2. cluster' \in BOOLEAN
    BY <1>1, Moves DEF FlagsOK, DeliverCluster
  <1>3. queued' = queued \/ queued' \in BOOLEAN
    <2>1. CASE Restart
      <3>1. LogOK' /\ ChildrenOK
        BY LogStep, TypeParts
      <3> QED
        BY <2>1, <3>1 DEF Restart
    <2> QED
      BY <2>1 DEF Next, User, Create, SetPGVersion, SpecifyTimeline, Delete, DeleteChild,
         Edit, DeliverProject, DeliverCluster, ComputeUp, ComputeDown, Kubernetes, Caches,
         Collect, Deliver, DeliverChild, TimerFires, Worker, ReconcileDeleted,
         ReconcileAssign, ReconcileNoProject, ReconcileTimeline, GetCurrent,
         PatchTimeline, PatchTimelineFails, PostOK, PostFails, LatePost, Dequeue,
         ReconcileChild, ReconcileChildFails, GetForStatus, PatchStatus,
         PatchStatusFails, Return, vars, queueVars
  <1>4. timer' = timer \/ timer' \in BOOLEAN
    BY DEF Next, User, Create, SetPGVersion, SpecifyTimeline, Delete, DeleteChild,
         Edit, DeliverProject, DeliverCluster, ComputeUp, ComputeDown, Kubernetes, Caches,
         Collect, Deliver, DeliverChild, TimerFires, Worker, ReconcileDeleted,
         ReconcileAssign, ReconcileNoProject, ReconcileTimeline, GetCurrent, AssignFailed,
         PatchTimeline, PatchTimelineFails, PostOK, PostFails, LatePost,
         ReconcileChild, ReconcileChildFails, GetForStatus, PatchStatus,
         PatchStatusFails, Return, Restart, vars, queueVars
  <1>5. locked' = locked \/ locked' \in BOOLEAN
    BY DEF Next, User, Create, SetPGVersion, SpecifyTimeline, Delete, DeleteChild, Store,
         DeliverProject, DeliverCluster, ComputeUp, ComputeDown, Kubernetes, Caches,
         Collect, Deliver, DeliverChild, TimerFires, Worker, ReconcileDeleted,
         ReconcileAssign, ReconcileNoProject, ReconcileTimeline, GetCurrent,
         PatchTimeline, PatchTimelineFails, PostOK, PostFails, LatePost,
         ReconcileChild, ReconcileChildFails, GetForStatus, PatchStatus,
         PatchStatusFails, Restart, vars, apiVars
  <1> QED
    BY <1>1, <1>2, <1>3, <1>4, <1>5 DEF FlagsOK

(* A request a call sends is for a timeline of a tenant. *)
LEMMA RequestType ==
    ASSUME TypeOK, pc \in {"post", "children"}, job.tenant # NoID
    PROVE  Request \in Timeline
  <1>1. job \in Job /\ job.timeline # NoID
    BY TypeParts DEF WorkerOK
  <1> QED
    BY <1>1 DEF Request, Timeline, Job

(* What a step does to the timelines. *)
LEMMA TimelineMoves ==
    ASSUME [Next]_vars
    PROVE  /\ timelines \subseteq timelines'
           /\ \/ timelines' \union late' = timelines \union late
              \/ /\ pc = "post" /\ job.tenant # NoID
                 /\ timelines' \union late' = timelines \union late \union {Request}
  <1>1. CASE UNCHANGED <<timelines, late>>
    BY <1>1
  <1>2. CASE PostOK
    BY <1>2 DEF PostOK
  <1>3. CASE PostFails
    BY <1>3 DEF PostFails, scVars
  <1>4. CASE LatePost
    BY <1>4 DEF LatePost
  <1>5. CASE Restart
    BY <1>5 DEF Restart
  <1> QED
    BY <1>1, <1>2, <1>3, <1>4, <1>5, Moves

LEMMA RestStep ==
    ASSUME TypeOK, [Next]_vars
    PROVE  StorageOK' /\ CountersOK' /\ project' \in Project
  <1>1. StorageOK /\ CountersOK /\ project \in Project
    BY TypeParts
  <1>2. StorageOK'
    BY <1>1, TimelineMoves, RequestType DEF StorageOK
  <1>3. project' \in Project
    BY <1>1, Moves DEF DeliverProject, Project
  <1>4. edits' = edits \/ edits' = edits + 1
    BY DEF Next, User, Create, SetPGVersion, SpecifyTimeline, Delete, DeleteChild, Edit,
         DeliverProject, DeliverCluster, ComputeUp, ComputeDown, Kubernetes, Caches,
         Collect, Deliver, DeliverChild, TimerFires, Worker, ReconcileDeleted,
         ReconcileAssign, ReconcileNoProject, ReconcileTimeline, GetCurrent,
         PatchTimeline, PatchTimelineFails, PostOK, PostFails, LatePost,
         ReconcileChild, ReconcileChildFails, GetForStatus, PatchStatus,
         PatchStatusFails, Return, Restart, vars
  <1>5. faults' = faults \/ faults' = faults + 1
    BY DEF Next, User, Create, SetPGVersion, SpecifyTimeline, Delete, DeleteChild, Edit,
         DeliverProject, DeliverCluster, ComputeUp, ComputeDown, Kubernetes, Caches,
         Collect, Deliver, DeliverChild, TimerFires, Worker, ReconcileDeleted,
         ReconcileAssign, ReconcileNoProject, ReconcileTimeline, GetCurrent,
         PatchTimeline, PatchTimelineFails, PostOK, PostFails, LatePost, Fault,
         ReconcileChild, ReconcileChildFails, GetForStatus, PatchStatus,
         PatchStatusFails, Return, Restart, vars
  <1> QED
    BY <1>1, <1>2, <1>3, <1>4, <1>5 DEF CountersOK

(* Type correctness: every variable keeps its type, a child without a pending event *)
(* is in the cache as it is stored, a POST always has a timeline ID, and children   *)
(* are only written by a call that has both IDs.                                    *)
THEOREM TypeCorrect == Spec => []TypeOK
  <1>1. Init => TypeOK
    <2> SUFFICES ASSUME Init PROVE TypeOK
      OBVIOUS
    <2>1. PICK p \in PGVersions :
            log = << [exists |-> FALSE, uid |-> 0, gen |-> 0, timeline |-> NoID,
                      pg |-> p, status |-> NoStatus] >>
      BY DEF Init
    <2>2. NoStatus \in Status
      BY DEF NoStatus, Status, ComputeReasons
    <2>3. [exists |-> FALSE, uid |-> 0, gen |-> 0, timeline |-> NoID,
           pg |-> p, status |-> NoStatus] \in Version
      BY <2>2 DEF Version
    <2>4. LogOK
      <3>1. log \in Seq(Version) /\ Len(log) = 1
        BY <2>1, <2>3
      <3>2. used = {}
        BY DEF Init
      <3> QED
        BY <3>1, <3>2 DEF LogOK
    <2>5. ChildrenOK
      BY NoChildType DEF ChildrenOK, Init
    <2>6. NoJob \in Job
      BY DEF NoJob, Job
    <2>7. WorkerOK
      BY <2>2, <2>6, KindFacts DEF WorkerOK, Init, Places, Outcomes
    <2>8. FlagsOK
      BY BoundsAssumption DEF FlagsOK, Init
    <2>9. StorageOK /\ CountersOK /\ project \in Project
      BY BoundsAssumption DEF StorageOK, CountersOK, Init, Project
    <2> QED
      BY <2>4, <2>5, <2>7, <2>8, <2>9, TypeParts
  <1>2. TypeOK /\ [Next]_vars => TypeOK'
    <2> SUFFICES ASSUME TypeOK, [Next]_vars PROVE TypeOK'
      OBVIOUS
    <2>1. /\ LogOK' /\ ChildrenOK' /\ WorkerOK' /\ FlagsOK' /\ StorageOK' /\ CountersOK'
          /\ project' \in Project
      BY LogStep, ChildrenStep, WorkerStep, FlagsStep, RestStep
    <2> QED
      BY <2>1 DEF TypeOK, LogOK, ChildrenOK, WorkerOK, FlagsOK, StorageOK, CountersOK,
                  Steps, Places
  <1> QED
    BY <1>1, <1>2, PTL DEF Spec

-------------------------------------------------------------------------------
(* What the log can look like, whoever writes to it. *)

(* The status of v speaks of v. *)
Honest(v) == /\ v.status = NoStatus \/ v.status.of = v.uid
             /\ v.status.obsGen <= v.gen
             /\ v.status.assigned => v.timeline # NoID

(* Versions are in the order they were stored; an object keeps having a timeline ID *)
(* once it has one; statuses speak of the version they are on; every timeline ID of *)
(* a version, and that of a request to come, is recorded.                           *)
VersionsInv ==
    \A i, j \in 1..Len(log) :
      i <= j => /\ log[i].uid <= log[j].uid
                /\ log[i].uid = log[j].uid /\ log[i].timeline # NoID
                   => log[j].timeline # NoID
RecordedInv ==
    /\ \A i \in 1..Len(log) : log[i].timeline # NoID => log[i].timeline \in used
    /\ pc \in {"post", "children"} => job.timeline \in used

(* The optimistic lock: while it holds, the status to patch speaks of the stored *)
(* version, which is also the one the cache has.                                 *)
LockInv ==
    locked => /\ Len(log) = 1
              /\ pc = "patchStatus" => /\ want.of = Latest.uid
                                       /\ want.obsGen = Latest.gen
                                       /\ want.assigned => Latest.timeline # NoID

HonestInv == \A i \in 1..Len(log) : Honest(log[i])

(* Only PatchStatus's read takes the lock, on the version it read. *)
LEMMA LockStep ==
    ASSUME TypeOK, LockInv, [Next]_vars
    PROVE  LockInv'
  <1>1. LogOK /\ FlagsOK /\ Cached \in Version
    BY TypeParts, EndsAreVersions
  <1>2. CASE GetForStatus
    <2> DEFINE s == BranchStatus(Cached, cached["Deployment"], outcome)
    <2>1. /\ s.of = Cached.uid /\ s.obsGen = Cached.gen
          /\ s.assigned = (Cached.timeline # NoID)
      BY <1>1, BranchStatusFacts
    <2>2. /\ log' = log
          /\ \/ locked' = locked /\ pc' = "idle"
             \/ locked' = (Len(log) = 1) /\ want' = s
      BY <1>2 DEF GetForStatus, Return, Done
    <2> HIDE DEF s
    <2>3. Len(log) = 1 => Latest = Cached
      BY DEF Latest, Cached
    <2> QED
      BY <2>1, <2>2, <2>3 DEF LockInv, Latest, Cached
  <1>3. CASE locked' = FALSE
    BY <1>3 DEF LockInv
  <1>4. CASE Deliver
    <2>1. locked' = locked
      BY <1>4 DEF Deliver
    <2>2. Len(log) # 1
      <3> DEFINE n == Len(log)
      <3>1. n \in Nat /\ n > 1
        BY <1>1, <1>4 DEF LogOK, Deliver
      <3> HIDE DEF n
      <3>2. n # 1
        BY <3>1
      <3> QED
        BY <3>2 DEF n
    <2>3. ~locked
      BY <2>2, Zenon DEF LockInv
    <2> QED
      BY <2>1, <2>3, Zenon DEF LockInv
  <1>5. CASE UNCHANGED <<log, locked>> /\ pc' # "patchStatus"
    BY <1>5 DEF LockInv, Latest
  <1>6. CASE UNCHANGED <<log, locked, pc, want>>
    BY <1>6 DEF LockInv, Latest
  <1> QED
    BY <1>2, <1>3, <1>4, <1>5, <1>6
       DEF Next, User, Create, SetPGVersion, SpecifyTimeline, Delete, DeleteChild, Edit,
           Store, DeliverProject, DeliverCluster, ComputeUp, ComputeDown, Kubernetes,
           Caches, Collect, DeliverChild, TimerFires, Worker, ReconcileDeleted,
           ReconcileAssign, ReconcileNoProject, ReconcileTimeline, GetCurrent,
           AssignFailed, PatchTimeline, PatchTimelineFails, PostOK, PostFails, LatePost,
           ReconcileChild, ReconcileChildFails, PatchStatus, PatchStatusFails, Restart,
           Return, Done, vars, apiVars, workerVars

(* Every write stores a version that follows the stored one, and whose status speaks *)
(* of it.                                                                            *)
LEMMA WritesFollow ==
    ASSUME TypeOK, HonestInv, LockInv, NEW v \in Version,
           Created(v) \/ Edited(v) \/ Patched(v)
    PROVE  /\ Latest.uid <= v.uid /\ Honest(v)
           /\ v.uid = Latest.uid /\ Latest.timeline # NoID => v.timeline # NoID
  <1>1. /\ Latest \in Version /\ Latest.uid \in Nat /\ v.uid \in Nat
        /\ Latest.gen \in Nat /\ v.gen \in Nat /\ Honest(Latest)
        /\ Latest.status \in Status /\ Latest.status.obsGen \in Nat
    <2>1. Latest \in Version /\ Len(log) \in 1..Len(log)
      BY TypeParts, EndsAreVersions
    <2>2. Honest(Latest)
      BY <2>1 DEF HonestInv, Latest
    <2> QED
      BY <2>1, <2>2 DEF Version, Status
  <1>2. CASE Created(v)
    <2>1. v.status.obsGen = 0 /\ ~v.status.assigned
      BY <1>2 DEF Created, NoStatus
    <2> QED
      BY <1>1, <1>2, <2>1 DEF Created, Honest
  <1>3. CASE Edited(v)
    BY <1>1, <1>3 DEF Edited, Honest
  <1>4. CASE Patched(v)
    BY <1>1, <1>4 DEF Patched, Honest, LockInv
  <1> QED
    BY <1>2, <1>3, <1>4

LEMMA HistoryStep ==
    ASSUME TypeOK, VersionsInv, HonestInv, LockInv, [Next]_vars
    PROVE  VersionsInv' /\ HonestInv'
  <1>1. LogOK /\ Len(log) \in Nat \ {0} /\ Len(log) \in 1..Len(log)
    BY TypeParts, EndsAreVersions
  <1>2. CASE UNCHANGED <<log, used>>
    BY <1>2 DEF VersionsInv, HonestInv
  <1>3. ASSUME NEW v \in Version, Store(v), Created(v) \/ Edited(v) \/ Patched(v)
        PROVE  VersionsInv' /\ HonestInv'
    <2>1. /\ Len(log') = Len(log) + 1 /\ log'[Len(log) + 1] = v
          /\ \A i \in 1..Len(log) : log'[i] = log[i]
      BY <1>1, <1>3, StoreFacts
    <2>2. /\ Latest.uid <= v.uid /\ Honest(v)
          /\ v.uid = Latest.uid /\ Latest.timeline # NoID => v.timeline # NoID
      BY <1>3, WritesFollow
    <2>3. HonestInv'
      BY <1>1, <2>1, <2>2 DEF HonestInv
    <2>4. ASSUME NEW i \in 1..Len(log'), NEW j \in 1..Len(log'), i <= j
          PROVE  /\ log'[i].uid <= log'[j].uid
                 /\ log'[i].uid = log'[j].uid /\ log'[i].timeline # NoID
                    => log'[j].timeline # NoID
      <3>1. CASE j \in 1..Len(log)
        <4>1. i \in 1..Len(log)
          BY <1>1, <2>4, <3>1
        <4> QED
          BY <2>1, <2>4, <3>1, <4>1 DEF VersionsInv
      <3>2. CASE j = Len(log) + 1
        <4>1. CASE i = Len(log) + 1
          <5>1. v.uid \in Nat
            BY DEF Version
          <5> QED
            BY <2>1, <3>2, <4>1, <5>1
        <4>2. CASE i \in 1..Len(log)
          <5>1. /\ log[i].uid <= Latest.uid
                /\ log[i].uid = Latest.uid /\ log[i].timeline # NoID
                   => Latest.timeline # NoID
            BY <1>1, <4>2 DEF VersionsInv, Latest
          <5>2. log[i] \in Version /\ Latest \in Version
            BY <1>1, <4>2, EndsAreVersions DEF LogOK
          <5>3. log[i].uid \in Nat /\ Latest.uid \in Nat /\ v.uid \in Nat
            BY <5>2 DEF Version
          <5> QED
            BY <2>1, <2>2, <3>2, <4>2, <5>1, <5>3
        <4> QED
          BY <1>1, <2>1, <4>1, <4>2
      <3> QED
        BY <1>1, <2>1, <3>1, <3>2
    <2> QED
      BY <2>3, <2>4 DEF VersionsInv
  <1>4. ASSUME NEW n \in 1..Len(log), log' = SubSeq(log, n, Len(log)), used' = used
        PROVE  VersionsInv' /\ HonestInv'
    <2>1. Suffix(n)
      BY <1>1, <1>4, SuffixFacts
    <2>2. HonestInv'
      BY <2>1 DEF Suffix, HonestInv
    <2>3. ASSUME NEW i \in 1..Len(log'), NEW j \in 1..Len(log'), i <= j
          PROVE  /\ log'[i].uid <= log'[j].uid
                 /\ log'[i].uid = log'[j].uid /\ log'[i].timeline # NoID
                    => log'[j].timeline # NoID
      <3>1. /\ n + i - 1 \in 1..Len(log) /\ n + j - 1 \in 1..Len(log)
            /\ log'[i] = log[n + i - 1] /\ log'[j] = log[n + j - 1]
        BY <2>1 DEF Suffix
      <3>2. n + i - 1 <= n + j - 1
        BY <1>1, <2>3
      <3> QED
        BY <3>1, <3>2 DEF VersionsInv
    <2> QED
      BY <2>2, <2>3 DEF VersionsInv
  <1> QED
    BY <1>2, <1>3, <1>4, LogMoves

LEMMA RecordedStep ==
    ASSUME TypeOK, RecordedInv, [Next]_vars
    PROVE  RecordedInv'
  <1>1. LogOK /\ Len(log) \in Nat \ {0} /\ 1 \in 1..Len(log)
    BY TypeParts, EndsAreVersions
  <1>2. used \subseteq used'
    BY <1>1, LogMoves DEF Store
  <1>3. \A i \in 1..Len(log') : log'[i].timeline # NoID => log'[i].timeline \in used'
    <2>1. CASE UNCHANGED <<log, used>>
      BY <2>1 DEF RecordedInv
    <2>2. ASSUME NEW v \in Version, Store(v) PROVE <1>3
      <3>1. /\ Len(log') = Len(log) + 1 /\ log'[Len(log) + 1] = v
            /\ \A i \in 1..Len(log) : log'[i] = log[i]
        BY <1>1, <2>2, StoreFacts
      <3>2. v.timeline # NoID => v.timeline \in used'
        BY <2>2 DEF Store
      <3> QED
        BY <1>1, <1>2, <3>1, <3>2 DEF RecordedInv
    <2>3. ASSUME NEW n \in 1..Len(log), log' = SubSeq(log, n, Len(log)), used' = used
          PROVE  <1>3
      BY <1>1, <2>3, SuffixFacts DEF Suffix, RecordedInv
    <2> QED
      BY <2>1, <2>2, <2>3, LogMoves
  <1>4. pc' \in {"post", "children"} => job'.timeline \in used'
    <2>1. CASE ReconcileTimeline
      <3>1. Cached.timeline \in used /\ job'.timeline = Cached.timeline
        BY <1>1, <2>1 DEF ReconcileTimeline, RecordedInv, Cached
      <3> QED
        BY <1>2, <3>1
    <2>2. CASE pc \in {"post", "children"} /\ job' = job
      BY <1>2, <2>2 DEF RecordedInv
    <2> QED
      BY <2>1, <2>2, WorkerMoves
         DEF Done, ReconcileAssign, GetCurrent, AssignFailed, PostOK, PostFails,
             ReconcileChild, ReconcileChildFails, GetForStatus, Return
  <1> QED
    BY <1>3, <1>4 DEF RecordedInv

(* The history of the Branch, in every reachable state. *)
HistoryInv == VersionsInv /\ HonestInv /\ LockInv /\ RecordedInv

(* Recreation and unlocked patches never mix up two objects: an ID once recorded stays *)
(* recorded, and a status speaks of a version of its own object, and no newer one.     *)
THEOREM HistoryCorrect == Spec => []HistoryInv
  <1>1. Init => HistoryInv
    <2> SUFFICES ASSUME Init PROVE HistoryInv
      OBVIOUS
    <2>1. /\ Len(log) = 1 /\ log[1].uid = 0 /\ log[1].gen = 0 /\ log[1].timeline = NoID
          /\ log[1].status = NoStatus
      BY DEF Init
    <2>2. locked = FALSE /\ pc = "idle"
      BY DEF Init
    <2>3. Honest(log[1])
      BY <2>1 DEF Honest, NoStatus
    <2> QED
      BY <2>1, <2>2, <2>3 DEF HistoryInv, VersionsInv, HonestInv, LockInv, RecordedInv
  <1>2. TypeOK /\ HistoryInv /\ [Next]_vars => HistoryInv'
    BY LockStep, HistoryStep, RecordedStep DEF HistoryInv
  <1> QED
    BY <1>1, <1>2, TypeCorrect, PTL DEF Spec

(* A status was computed from the object (uid) it is stored on, at a generation that *)
(* object has reached, although PatchStatus reads from a cache that lags: the patch  *)
(* carries the resourceVersion.                                                      *)
THEOREM StatusCorrect == Spec => []StatusOfThisObject
  <1>1. HistoryInv => StatusOfThisObject
    BY DEF HistoryInv, HonestInv, Honest, StatusOfThisObject
  <1> QED
    BY <1>1, HistoryCorrect, PTL

-------------------------------------------------------------------------------
(* A compute only on a timeline that is there. *)

(* The call is at the children, or past them without an error. *)
Succeeding == pc = "children" \/ (pc \in {"status", "patchStatus"} /\ outcome = "ok")

(* Such a call has had its timeline confirmed, for the IDs it works with. *)
TimelineInv == Succeeding => job.tenant # NoID /\ Request \in timelines

LEMMA TimelineStep ==
    ASSUME TypeOK, TimelineInv, [Next]_vars
    PROVE  TimelineInv'
  <1>1. timelines \subseteq timelines'
    BY TimelineMoves
  <1>2. CASE UNCHANGED <<pc, job, step, want, newID, outcome>>
    BY <1>1, <1>2 DEF TimelineInv, Succeeding, Request
  <1>3. CASE Done \/ ReconcileAssign \/ ReconcileTimeline \/ GetCurrent \/ PostFails
             \/ ReconcileChildFails
    <2>1. ~Succeeding'
      BY <1>3 DEF Done, ReconcileAssign, ReconcileTimeline, GetCurrent, AssignFailed,
                  PostFails, ReconcileChildFails, Succeeding
    <2> QED
      BY <2>1 DEF TimelineInv
  <1>4. CASE PostOK
    BY <1>4 DEF PostOK, TimelineInv, Request
  <1>5. CASE ReconcileChild
    <2>1. Succeeding /\ job' = job
      BY <1>5 DEF ReconcileChild, Succeeding
    <2> QED
      BY <1>1, <2>1 DEF TimelineInv, Request
  <1>6. CASE GetForStatus
    <2>1. \/ Done
          \/ /\ pc = "status" /\ pc' = "patchStatus" /\ job' = job /\ outcome' = outcome
      BY <1>6 DEF GetForStatus, Return
    <2> QED
      BY <1>1, <1>3, <2>1 DEF TimelineInv, Succeeding, Request
  <1> QED
    BY <1>2, <1>3, <1>4, <1>5, <1>6, WorkerMoves

LEMMA ComputeStep ==
    ASSUME TypeOK, TimelineInv, ComputeAfterTimeline, [Next]_vars
    PROVE  ComputeAfterTimeline'
  <1>1. /\ timelines \subseteq timelines' /\ ChildrenOK /\ job \in Job
        /\ "Deployment" \in KindSet /\ child["Deployment"] \in Child
    BY TimelineMoves, TypeParts, KindFacts DEF WorkerOK, ChildrenOK
  <1> DEFINE d == child["Deployment"]
  <1>2. CASE child' = child
    BY <1>1, <1>2 DEF ComputeAfterTimeline
  <1>3. ASSUME NEW k \in KindSet, NEW c \in Child, ChildMoves(k, c),
               k = "Deployment" /\ c.exists =>
                 [tenant |-> c.tenant, timeline |-> c.timeline] \in timelines
        PROVE  ComputeAfterTimeline'
    <2>1. child'[k] = c /\ \A l \in KindSet : l # k => child'[l] = child[l]
      BY <1>1, <1>3, StoreChildFacts DEF ChildMoves
    <2>2. CASE k = "Deployment"
      BY <1>1, <1>3, <2>1, <2>2 DEF ComputeAfterTimeline
    <2>3. CASE k # "Deployment"
      BY <1>1, <2>1, <2>3 DEF ComputeAfterTimeline
    <2> QED
      BY <2>2, <2>3
  <1>4. ASSUME NEW b \in BOOLEAN, ChildMoves("Deployment", [d EXCEPT !.avail = b])
        PROVE  ComputeAfterTimeline'
    <2> DEFINE c == [d EXCEPT !.avail = b]
    <2>1. /\ c \in Child /\ c.exists = d.exists
          /\ c.tenant = d.tenant /\ c.timeline = d.timeline
      BY <1>1 DEF Child
    <2>2. ChildMoves("Deployment", c)
      BY <1>4
    <2> HIDE DEF c
    <2>3. c.exists => [tenant |-> c.tenant, timeline |-> c.timeline] \in timelines
      BY <2>1 DEF ComputeAfterTimeline
    <2> QED
      BY <1>1, <1>3, <2>1, <2>2, <2>3
  <1>5. ASSUME NEW k \in KindSet, pc = "children", ChildMoves(k, Written(k))
        PROVE  ComputeAfterTimeline'
    <2>1. Request \in timelines
      BY <1>5 DEF TimelineInv, Succeeding
    <2>2. /\ Written(k) \in Child
          /\ child[k].exists => /\ Written(k).tenant = child[k].tenant
                                /\ Written(k).timeline = child[k].timeline
          /\ ~child[k].exists => Written(k) = Intended(k)
      BY <1>1, WrittenFacts
    <2>3. ASSUME k = "Deployment"
          PROVE  [tenant |-> Written(k).tenant, timeline |-> Written(k).timeline]
                   \in timelines
      <3>1. CASE child[k].exists
        BY <2>2, <2>3, <3>1 DEF ComputeAfterTimeline
      <3>2. CASE ~child[k].exists
        BY <1>1, <2>1, <2>2, <2>3, <3>2, IntendedFacts DEF Request
      <3> QED
        BY <3>1, <3>2
    <2> QED
      BY <1>3, <1>5, <2>2, <2>3
  <1>6. ASSUME NEW k \in KindSet, DeliverChild(k) PROVE child' = child
    BY <1>6 DEF DeliverChild
  <1>7. CASE Restart
    BY <1>2, <1>7 DEF Restart
  <1>8. ASSUME NEW k \in KindSet, ChildMoves(k, NoChild)
        PROVE  ComputeAfterTimeline'
    BY <1>3, <1>8, NoChildType
  <1> QED
    BY <1>2, <1>4, <1>5, <1>6, <1>7, <1>8, ChildrenMoves

(* A compute is never started on a timeline the storage controller does not have,  *)
(* whatever is lost, late or restarted between ensureTimeline and the Deployment.  *)
THEOREM TimelineBeforeCompute == Spec => []ComputeAfterTimeline
  <1>1. Init => TimelineInv /\ ComputeAfterTimeline
    <2> SUFFICES ASSUME Init PROVE TimelineInv /\ ComputeAfterTimeline
      OBVIOUS
    <2>1. ~child["Deployment"].exists
      BY KindFacts, NoChildType DEF Init
    <2>2. ~Succeeding
      BY DEF Init, Succeeding
    <2> QED
      BY <2>1, <2>2 DEF TimelineInv, ComputeAfterTimeline
  <1>2. TypeOK /\ TimelineInv /\ ComputeAfterTimeline /\ [Next]_vars
        => TimelineInv' /\ ComputeAfterTimeline'
    BY TimelineStep, ComputeStep
  <1> QED
    BY <1>1, <1>2, TypeCorrect, PTL DEF Spec

-------------------------------------------------------------------------------
(* No lost wakeup.  The inductive invariant follows a call from the moment it is *)
(* taken off the queue: as long as the key has not been queued again, what the   *)
(* call read is what the cache still has.                                        *)

Calling == pc \in {"post", "children", "status", "patchStatus"}

(* A Project keeps its tenant ID, and so the one a call has read is the current. *)
ProjectInv == /\ project.tenant # NoID => project.exists
              /\ job.tenant # NoID => project.tenant = job.tenant

(* createBranchResources begins with the first child. *)
StepInv == pc \in {"idle", "assign", "patch", "post"} => step = 1

(* The call works on the version in the cache, unless the key is queued again. *)
CallInv == Calling /\ ~queued => /\ Cached.exists /\ Cached.timeline # NoID
                                 /\ job.timeline = Cached.timeline /\ job.pg = Cached.pg

(* The cache has child k as the cached Branch wants it, or an event of k is to come. *)
Current(k) == /\ cached[k].exists
              /\ k = "Deployment" => /\ cached[k].tenant = project.tenant
                                     /\ cached[k].timeline = Cached.timeline
                                     /\ cached[k].pg = Cached.pg
Passed(k) == k \in events \/ Current(k)

(* The children before the one in hand have been passed. *)
PassInv == Succeeding /\ ~queued =>
             \A i \in Steps : (pc = "children" => i < step) => Passed(Kinds[i])

(* When nothing is queued, no timer runs and no call is in progress, the last call *)
(* has left the cached Branch with its timeline and its children, and with its     *)
(* status or a later version on its way.                                           *)
RestInv ==
    pc = "idle" /\ ~queued /\ ~timer /\ Cached.exists =>
      /\ Cached.timeline # NoID
      /\ [tenant |-> project.tenant, timeline |-> Cached.timeline] \in timelines
      /\ \A k \in KindSet : Passed(k)
      /\ Len(log) > 1 \/ Cached.status = BranchStatus(Cached, cached["Deployment"], "ok")

WakeupInv == ProjectInv /\ StepInv /\ TimelineInv /\ CallInv /\ PassInv /\ RestInv

(* A step that leaves the key unqueued leaves the cache alone, or is a restart. *)
LEMMA Undisturbed ==
    ASSUME TypeOK, [Next]_vars, ~queued', ~Restart
    PROVE  /\ Cached' = Cached /\ cached' = cached /\ events \subseteq events'
           /\ log' = log \/ Len(log') > 1
           /\ ~queued \/ pc = "idle"
  <1>1. ~Deliver /\ ~TimerFires /\ \A k \in KindSet : ~DeliverChild(k)
    BY Zenon DEF Deliver, TimerFires, DeliverChild
  <1>2. LogOK /\ Len(log) \in Nat \ {0}
    BY TypeParts DEF LogOK
  <1>3. /\ Cached' = Cached
        /\ log' = log \/ Len(log') > 1
    <2>1. CASE UNCHANGED <<log, used>>
      BY <2>1 DEF Cached
    <2>2. ASSUME NEW v \in Version, Store(v) PROVE <1>3
      <3>1. Cached' = Cached /\ Len(log') = Len(log) + 1
        BY <1>2, <2>2, StoreFacts
      <3>2. Len(log') > 1
        BY <1>2, <3>1
      <3> QED
        BY <3>1, <3>2
    <2> QED
      BY <1>1, <2>1, <2>2, LogMoves
  <1>4. cached' = cached /\ events \subseteq events'
    BY <1>1, ChildrenMoves DEF ChildMoves, StoreChild
  <1>5. ~queued \/ pc = "idle"
    <2>1. queued' = queued \/ Dequeue
      BY <1>1 DEF Next, User, Create, SetPGVersion, SpecifyTimeline, Delete, DeleteChild,
         Edit, DeliverProject, DeliverCluster, ComputeUp, ComputeDown, Kubernetes, Caches,
         Collect, Worker, ReconcileDeleted,
         ReconcileAssign, ReconcileNoProject, ReconcileTimeline, GetCurrent,
         PatchTimeline, PatchTimelineFails, PostOK, PostFails, LatePost,
         ReconcileChild, ReconcileChildFails, GetForStatus, PatchStatus,
         PatchStatusFails, Return, vars, queueVars
    <2> QED
      BY <2>1, Zenon DEF Dequeue
  <1> QED
    BY <1>3, <1>4, <1>5

(* A tenant ID, once there, stays. *)
LEMMA TenantKept ==
    ASSUME ProjectInv, [Next]_vars, project.tenant # NoID
    PROVE  project' = project
  BY Moves DEF DeliverProject, ProjectInv

LEMMA PassedKept ==
    ASSUME TypeOK, ProjectInv, [Next]_vars, ~queued', ~Restart, project.tenant # NoID,
           NEW k, Passed(k)
    PROVE  Passed(k)'
  <1>1. Cached' = Cached /\ cached' = cached /\ events \subseteq events' /\ project' = project
    BY Undisturbed, TenantKept
  <1> QED
    BY <1>1 DEF Passed, Current

LEMMA ProjectStep ==
    ASSUME TypeOK, ProjectInv, StepInv, [Next]_vars
    PROVE  ProjectInv' /\ StepInv'
  <1>1. project \in Project /\ project' \in Project
    BY TypeParts, RestStep
  <1>2. project'.tenant # NoID => project'.exists
    BY Moves DEF ProjectInv, DeliverProject
  <1>3. job'.tenant # NoID => project'.tenant = job'.tenant
    <2>1. CASE ReconcileTimeline
      BY <2>1 DEF ReconcileTimeline, envVars
    <2>2. CASE job' = job
      BY <2>2, TenantKept DEF ProjectInv
    <2> QED
      BY <2>1, <2>2, WorkerMoves, DoneFacts
         DEF ReconcileAssign, GetCurrent, AssignFailed, PostOK, PostFails,
             ReconcileChild, ReconcileChildFails, GetForStatus, Return
  <1>4. StepInv'
    BY WorkerMoves
       DEF StepInv, Done, ReconcileAssign, ReconcileTimeline, Dequeue, GetCurrent,
           AssignFailed, PostOK, PostFails, ReconcileChild, ReconcileChildFails,
           GetForStatus, Return
  <1> QED
    BY <1>2, <1>3, <1>4 DEF ProjectInv

LEMMA CallStep ==
    ASSUME TypeOK, CallInv, [Next]_vars
    PROVE  CallInv'
  <1> SUFFICES ASSUME Calling', ~queued'
               PROVE  /\ Cached'.exists /\ Cached'.timeline # NoID
                      /\ job'.timeline = Cached'.timeline /\ job'.pg = Cached'.pg
    BY DEF CallInv
  <1>1. ~Restart /\ ~Done
    BY DEF Restart, Done, Calling
  <1>2. Cached' = Cached /\ (~queued \/ pc = "idle")
    BY <1>1, Undisturbed
  <1>3. CASE ReconcileTimeline
    <2>1. Cached.exists /\ Cached.timeline # NoID
      BY <1>3 DEF ReconcileTimeline
    <2>2. job'.timeline = Cached.timeline /\ job'.pg = Cached.pg
      BY <1>3 DEF ReconcileTimeline
    <2> QED
      BY <1>2, <2>1, <2>2
  <1>4. CASE Calling /\ job' = job
    <2>1. ~queued
      BY <1>2, <1>4 DEF Calling
    <2> QED
      BY <1>2, <1>4, <2>1 DEF CallInv
  <1> QED
    BY <1>1, <1>3, <1>4, WorkerMoves
       DEF Calling, ReconcileAssign, GetCurrent, AssignFailed, PostOK, PostFails,
           ReconcileChild, ReconcileChildFails, GetForStatus, Return

(* A child that needs no call is as the cached Branch wants it. *)
LEMMA NoneIsCurrent ==
    ASSUME TypeOK, ProjectInv, CallInv, pc = "children", ~queued, NEW k \in KindSet,
           Verb(k) = "none"
    PROVE  Current(k)
  <1>1. job \in Job /\ job.tenant # NoID /\ Calling
    BY TypeParts DEF WorkerOK, Calling
  <1>2. cached[k].exists /\ ~Drift(Intended(k), cached[k])
    BY DEF Verb
  <1>3. job.timeline = Cached.timeline /\ job.pg = Cached.pg /\ job.tenant = project.tenant
    BY <1>1 DEF CallInv, ProjectInv
  <1>4. k = "Deployment" => /\ Intended(k).tenant = job.tenant
                            /\ Intended(k).timeline = job.timeline
                            /\ Intended(k).pg = job.pg
    BY <1>1, IntendedFacts
  <1> QED
    BY <1>2, <1>3, <1>4 DEF Drift, Current

LEMMA PassStep ==
    ASSUME TypeOK, ProjectInv, StepInv, TimelineInv, CallInv, PassInv, [Next]_vars
    PROVE  PassInv'
  <1> SUFFICES ASSUME Succeeding', ~queued', NEW i \in Steps, pc' = "children" => i < step'
               PROVE  Passed(Kinds[i])'
    BY DEF PassInv
  <1>1. ~Restart /\ ~Done
    BY DEF Restart, Done, Succeeding
  <1>2. ~queued \/ pc = "idle"
    BY <1>1, Undisturbed
  <1>3. ASSUME Succeeding, Passed(Kinds[i]) PROVE Passed(Kinds[i])'
    <2>1. project.tenant # NoID
      BY <1>3 DEF TimelineInv, ProjectInv
    <2> QED
      BY <1>1, <1>3, <2>1, PassedKept
  <1>4. CASE UNCHANGED <<pc, job, step, want, newID, outcome>>
    <2>1. Succeeding /\ (pc = "children" => i < step) /\ ~queued
      BY <1>2, <1>4 DEF Succeeding
    <2> QED
      BY <1>3, <2>1 DEF PassInv
  <1>5. CASE PostOK
    <2>1. step' = 1 /\ pc' = "children"
      BY <1>5 DEF PostOK, StepInv
    <2> QED
      BY <2>1 DEF Steps
  <1>6. CASE ReconcileChild
    <2>1. /\ pc = "children" /\ Succeeding /\ ~queued /\ step \in Steps
          /\ Kinds[step] \in KindSet
      BY <1>2, <1>6, TypeParts, KindFacts DEF ReconcileChild, Succeeding, WorkerOK
    <2>2. i < step \/ i = step
      <3>1. \/ pc' = "status" /\ step = Len(Kinds)
            \/ pc' = pc /\ step' = step + 1
        BY <1>6 DEF ReconcileChild
      <3> QED
        BY <2>1, <3>1, KindFacts DEF Steps
    <2>3. CASE i < step
      BY <1>3, <2>1, <2>3 DEF PassInv
    <2>4. CASE i = step
      <3>1. Verb(Kinds[step]) = "none" \/ Write(Kinds[step])
        BY <1>6 DEF ReconcileChild
      <3>2. CASE Verb(Kinds[step]) = "none"
        BY <1>3, <2>1, <2>4, <3>2, NoneIsCurrent DEF Passed
      <3>3. CASE Write(Kinds[step])
        BY <2>4, <3>3 DEF Write, StoreChild, Passed
      <3> QED
        BY <3>1, <3>2, <3>3
    <2> QED
      BY <2>2, <2>3, <2>4
  <1>7. CASE GetForStatus
    <2>1. pc = "status" /\ pc' = "patchStatus" /\ outcome' = outcome
      BY <1>1, <1>7 DEF GetForStatus, Return
    <2>2. Succeeding /\ ~queued
      BY <1>2, <2>1 DEF Succeeding
    <2> QED
      BY <1>3, <2>1, <2>2 DEF PassInv
  <1>8. ~(ReconcileAssign \/ ReconcileTimeline \/ GetCurrent \/ PostFails
          \/ ReconcileChildFails)
    BY <1>1 DEF ReconcileAssign, ReconcileTimeline, GetCurrent, AssignFailed, PostFails,
                ReconcileChildFails, Succeeding
  <1> QED
    BY <1>1, <1>4, <1>5, <1>6, <1>7, <1>8, WorkerMoves

(* How the worker comes to rest with no timer: it was at rest, or a call ended well *)
(* with a status that was already right or has just been stored.                    *)
LEMMA RestMoves ==
    ASSUME TypeOK, [Next]_vars, pc' = "idle", ~queued', ~timer', Cached'.exists
    PROVE  /\ ~Restart
           /\ \/ pc = "idle" /\ ~queued /\ ~timer
              \/ /\ pc \in {"status", "patchStatus"} /\ outcome = "ok"
                 /\ \/ Len(log') > 1
                    \/ Cached.status = BranchStatus(Cached, cached["Deployment"], "ok")
  <1>1. ~Restart
    BY Zenon DEF Restart
  <1>2. Cached' = Cached /\ (~queued \/ pc = "idle") /\ (log' = log \/ Len(log') > 1)
    BY <1>1, Undisturbed
  <1>3. ~AssignFailed /\ ~PatchTimeline /\ ~ReconcileNoProject /\ ~ReconcileDeleted
    BY <1>2, Zenon DEF AssignFailed, PatchTimeline, ReconcileNoProject, ReconcileDeleted
  <1>4. ASSUME NEW e, Return(e) PROVE outcome = "ok" /\ ~e
    BY <1>4, Zenon DEF Return
  <1>5. CASE GetForStatus
    <2>1. /\ pc = "status"
          /\ Return(TRUE) \/ (/\ Return(FALSE)
                              /\ Cached.status = BranchStatus(Cached, cached["Deployment"],
                                                              outcome))
      BY <1>5 DEF GetForStatus
    <2> QED
      BY <1>1, <1>4, <2>1
  <1>6. CASE PatchStatus
    <2>1. /\ pc = "patchStatus" /\ Return(FALSE) /\ log' = Append(log, [Latest EXCEPT !.status = want])
      BY <1>6 DEF PatchStatus, Store
    <2>2. log \in Seq(Version) /\ Latest \in Version /\ want \in Status
      BY TypeParts, EndsAreVersions DEF LogOK, WorkerOK
    <2>3. [Latest EXCEPT !.status = want] \in Version
      BY <2>2, VersionUpdates DEF Version
    <2>4. Len(log') = Len(log) + 1 /\ Len(log) \in Nat \ {0}
      BY <2>1, <2>2, <2>3, AppendProperties, TypeParts DEF LogOK
    <2>5. Len(log') > 1
      BY <2>4
    <2> QED
      BY <1>1, <1>4, <2>1, <2>5
  <1>7. ~PatchStatusFails
    BY <1>4 DEF PatchStatusFails
  <1>8. CASE pc = "idle" /\ UNCHANGED <<queued, timer>>
    BY <1>1, <1>8
  <1>9. ~Deliver /\ ~TimerFires /\ \A k \in KindSet : ~DeliverChild(k)
    BY Zenon DEF Deliver, TimerFires, DeliverChild
  <1> QED
    BY <1>1, <1>3, <1>5, <1>6, <1>7, <1>8, <1>9
       DEF Next, User, Create, SetPGVersion, SpecifyTimeline, Delete, DeleteChild,
         Edit, DeliverProject, DeliverCluster, ComputeUp, ComputeDown, Kubernetes, Caches,
         Collect, Worker, ReconcileAssign, ReconcileTimeline, GetCurrent,
         PatchTimelineFails, PostOK, PostFails, LatePost,
         ReconcileChild, ReconcileChildFails, vars, queueVars, workerVars

LEMMA RestInvStep ==
    ASSUME TypeOK, WakeupInv, [Next]_vars
    PROVE  RestInv'
  <1> DEFINE Good == /\ Cached.timeline # NoID
                     /\ [tenant |-> project.tenant, timeline |-> Cached.timeline]
                          \in timelines
                     /\ \A k \in KindSet : Passed(k)
             Told == \/ Len(log) > 1
                     \/ Cached.status = BranchStatus(Cached, cached["Deployment"], "ok")
  <1> SUFFICES ASSUME pc' = "idle", ~queued', ~timer', Cached'.exists
               PROVE  Good' /\ Told'
    BY DEF RestInv
  <1>1. /\ ~Restart /\ Cached' = Cached /\ cached' = cached
        /\ log' = log \/ Len(log') > 1
        /\ ~queued \/ pc = "idle"
    BY RestMoves, Undisturbed
  <1>2. /\ ProjectInv /\ TimelineInv /\ CallInv /\ PassInv /\ RestInv
    BY DEF WakeupInv
  <1>3. ASSUME Good PROVE Good'
    <2>1. [tenant |-> project.tenant, timeline |-> Cached.timeline] \in Timeline
      BY <1>3, TypeParts DEF StorageOK
    <2>2. project.tenant # NoID
      BY <2>1 DEF Timeline
    <2>3. project' = project /\ timelines \subseteq timelines'
      BY <1>2, <2>2, TenantKept, TimelineMoves
    <2>4. \A k \in KindSet : Passed(k)'
      BY <1>1, <1>2, <1>3, <2>2, PassedKept
    <2> QED
      BY <1>1, <1>3, <2>3, <2>4
  <1>4. CASE pc = "idle" /\ ~queued /\ ~timer
    <2>1. Good /\ Told
      BY <1>1, <1>2, <1>4 DEF RestInv
    <2>2. Told'
      BY <1>1, <2>1
    <2> QED
      BY <1>3, <2>1, <2>2
  <1>5. CASE /\ pc \in {"status", "patchStatus"} /\ outcome = "ok"
             /\ \/ Len(log') > 1
                \/ Cached.status = BranchStatus(Cached, cached["Deployment"], "ok")
    <2>1. Succeeding /\ Calling /\ ~queued /\ pc # "children"
      BY <1>1, <1>5 DEF Succeeding, Calling
    <2>2. /\ Cached.timeline # NoID /\ job.timeline = Cached.timeline
          /\ job.tenant # NoID /\ Request \in timelines /\ project.tenant = job.tenant
      BY <1>2, <2>1 DEF CallInv, TimelineInv, ProjectInv
    <2>3. \A k \in KindSet : Passed(k)
      BY <1>2, <2>1, KindFacts DEF PassInv
    <2>4. Good
      BY <2>2, <2>3 DEF Request
    <2>5. Told'
      BY <1>1, <1>5
    <2> QED
      BY <1>3, <2>4, <2>5
  <1> QED
    BY <1>4, <1>5, RestMoves

(* At rest with nothing on its way, the stored Branch is the cached one, and so are *)
(* the children.                                                                    *)
LEMMA RestConverged ==
    ASSUME TypeOK, RestInv
    PROVE  QuiescentConverged
  <1> SUFFICES ASSUME Quiescent, Latest.exists PROVE Converged
    BY DEF QuiescentConverged
  <1>1. /\ pc = "idle" /\ ~queued /\ ~timer /\ Len(log) = 1 /\ events = {}
        /\ \A k \in KindSet : child[k].exists => child[k].owner = Latest.uid
    BY DEF Quiescent
  <1>2. Cached = Latest
    BY <1>1 DEF Cached, Latest
  <1>3. \A k \in KindSet : cached[k] = child[k]
    BY <1>1, TypeParts DEF ChildrenOK
  <1>4. /\ Cached.timeline # NoID
        /\ [tenant |-> project.tenant, timeline |-> Cached.timeline] \in timelines
        /\ \A k \in KindSet : Passed(k)
        /\ Cached.status = BranchStatus(Cached, cached["Deployment"], "ok")
    <2>1. ~(Len(log) > 1)
      BY <1>1
    <2> QED
      BY <1>1, <1>2, <2>1 DEF RestInv
  <1>5. \A k \in KindSet : Current(k)
    BY <1>1, <1>4 DEF Passed
  <1>6. \A k \in KindSet : child[k].exists /\ child[k].owner = Latest.uid
    BY <1>1, <1>3, <1>5 DEF Current
  <1>7. ComputeIsCurrent
    BY <1>2, <1>3, <1>5, KindFacts DEF Current, ComputeIsCurrent
  <1>8. Latest.status = BranchStatus(Latest, child["Deployment"], "ok")
    BY <1>2, <1>3, <1>4, KindFacts
  <1> QED
    BY <1>2, <1>4, <1>6, <1>7, <1>8 DEF Converged

(* No lost wakeup: whatever was edited, deleted, lost or restarted, and in which *)
(* order, the reconciler comes to rest only on a converged Branch.               *)
THEOREM NoLostWakeup == Spec => []QuiescentConverged
  <1>1. Init => WakeupInv
    <2> SUFFICES ASSUME Init PROVE WakeupInv
      OBVIOUS
    <2>1. Cached.exists = FALSE /\ pc = "idle" /\ step = 1 /\ job.tenant = NoID
      BY DEF Init, Cached, NoJob
    <2>2. project.tenant # NoID => project.exists
      BY BoundsAssumption DEF Init
    <2>3. ~Succeeding /\ ~Calling
      BY <2>1 DEF Succeeding, Calling
    <2> QED
      BY <2>1, <2>2, <2>3
         DEF WakeupInv, ProjectInv, StepInv, TimelineInv, CallInv, PassInv, RestInv
  <1>2. TypeOK /\ WakeupInv /\ [Next]_vars => WakeupInv'
    BY ProjectStep, TimelineStep, CallStep, PassStep, RestInvStep DEF WakeupInv
  <1>3. TypeOK /\ WakeupInv => QuiescentConverged
    BY RestConverged DEF WakeupInv
  <1> QED
    BY <1>1, <1>2, <1>3, TypeCorrect, PTL DEF Spec

===============================================================================
