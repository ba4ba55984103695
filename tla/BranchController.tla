--------------------------- MODULE BranchController ---------------------------
(***************************************************************************)
(* The Branch reconciler (internal/controller/branch_controller.go and     *)
(* branch_create.go) for one Branch name: it gives the Branch a timeline   *)
(* ID, creates the timeline on the storage controller, and then keeps the  *)
(* compute's ConfigMap, Deployment and two Services.                       *)
(*                                                                         *)
(* The API server, the informer cache and the work queue are those of      *)
(* ProjectController, but log keeps the history of the Branch only from    *)
(* the version the cache holds (log[1]) to the stored one (the last), and  *)
(* the worker keeps copies instead of positions.  Each child is kept as    *)
(* the API server has it (child) and as the cache has it (cached); the     *)
(* Project is read from the cache too.                                     *)
(* Events of the Branch and of its children queue the key, events of the   *)
(* Project, the Cluster and the JWT Secret do not.                         *)
(*                                                                         *)
(* Abstractions.  Only the Deployment's content depends on the Branch and  *)
(* the Project (tenant, timeline and cluster label its immutable selector, *)
(* the PostgreSQL version its image); the other children are present or    *)
(* absent.  A cached read and the write it leads to are one step: the      *)
(* write's result depends only on what is stored when it arrives.          *)
(*                                                                         *)
(* Assumed of the rest of the system: a Project that the cache has shown   *)
(* with a tenant ID keeps that ID and its cluster; users do not change a   *)
(* timeline ID that is set; the storage controller answers 409 only if it  *)
(* has this very timeline of this very tenant.                             *)
(***************************************************************************)
EXTENDS Integers, Sequences, FiniteSets

CONSTANTS
    Tenants,      \* tenant IDs the Project may have
    IDs,          \* timeline IDs
    NoID,         \* an empty ID, and the content of a child that has none
    PGVersions,   \* PostgreSQL versions (spec.pgVersion)
    Kinds,        \* the children in the order createBranchResources reconciles
                  \* them: ConfigMap, Deployment, AdminService, PostgresService
    Provisioned,  \* bound: the Project (with a tenant ID) and the Cluster are there
                  \* from the start
    MaxEdits,     \* bound: edits by users, of the Branch and of its children
    MaxFaults     \* bound: failed calls, restarts and compute failures

ASSUME NoIDAssumption == NoID \notin IDs /\ NoID \notin Tenants
ASSUME KindsAssumption ==
    /\ Kinds \in Seq({"ConfigMap", "Deployment", "AdminService", "PostgresService"})
    /\ \E i \in 1..Len(Kinds) : Kinds[i] = "Deployment"
    /\ \A i, j \in 1..Len(Kinds) : Kinds[i] = Kinds[j] => i = j
ASSUME BoundsAssumption ==
    Provisioned \in BOOLEAN /\ MaxEdits \in Nat /\ MaxFaults \in Nat

VARIABLES
    log,                \* the Branch: the version in the cache, and all later ones
    used,               \* the timeline IDs versions have had
    project,            \* the Project as the cache has it
    cluster,            \* the cache has the Cluster and its JWT Secret
    child, cached,      \* the children: as stored, and as the cache has them
    events,             \* the children with watch events the cache has not got
    queued, timer,      \* work queue
    pc,                 \* worker: where the current Reconcile call is
    job,                \* worker: what it read of the Branch and of the Project
    step,               \* worker: the next child of createBranchResources
    want,               \* worker: the status to patch
    locked,             \* worker: the version PatchStatus read is still the stored one
    newID,              \* worker: the ID just generated
    outcome,            \* worker: timelineErr and createErr
    timelines,          \* storage controller: the timelines it has
    late,               \* requests the worker gave up on that may still be served
    edits, faults

apiVars    == <<log, used, locked>>
envVars    == <<project, cluster>>
childVars  == <<child, cached, events>>
queueVars  == <<queued, timer>>
workerVars == <<pc, job, step, want, newID, outcome>>
scVars     == <<timelines, late>>
vars == <<log, used, project, cluster, child, cached, events, queued, timer, pc, job,
          step, want, locked, newID, outcome, timelines, late, edits, faults>>

-------------------------------------------------------------------------------
(* The stored objects. *)

KindSet == {Kinds[i] : i \in 1..Len(Kinds)}

Outcomes == {"ok", "timelineErr", "createErr"}
ComputeReasons == {"Unset", "AsExpected", "ResourceCreateFailed",
                   "ChildResourceMissing", "ChildDeploymentNotAvailable"}

\* status.observedGeneration and the conditions TimelineIDAssigned,
\* TimelineCreated, ComputeReady (by its reason) and Available.  of is history: the
\* uid of the object PatchStatus computed the status from.
Status == [of : Nat, obsGen : Nat, assigned : BOOLEAN, created : BOOLEAN,
           compute : ComputeReasons, available : BOOLEAN]
NoStatus == [of |-> 0, obsGen |-> 0, assigned |-> FALSE, created |-> FALSE,
             compute |-> "Unset", available |-> FALSE]

Version == [exists : BOOLEAN, uid : Nat, gen : Nat, timeline : IDs \union {NoID},
            pg : PGVersions, status : Status]

\* A child: the uid in its controller reference, the content of its spec, and for
\* the Deployment its Available condition.
Child == [exists : BOOLEAN, owner : Nat, tenant : Tenants \union {NoID},
          timeline : IDs \union {NoID}, pg : PGVersions \union {NoID}, avail : BOOLEAN]
NoChild == [exists |-> FALSE, owner |-> 0, tenant |-> NoID, timeline |-> NoID,
            pg |-> NoID, avail |-> FALSE]

Project == [exists : BOOLEAN, tenant : Tenants \union {NoID}]

Timeline == [tenant : Tenants, timeline : IDs]

\* What a call keeps of the Branch and the Project it read.
Job == [uid : Nat, timeline : IDs \union {NoID}, pg : PGVersions \union {NoID},
        tenant : Tenants \union {NoID}]
NoJob == [uid |-> 0, timeline |-> NoID, pg |-> NoID, tenant |-> NoID]

\* The Branch as the cache has it, and as it is stored.
Cached == log[1]
Latest == log[Len(log)]

\* The API server stores a new version.
Store(v) == /\ log' = Append(log, v)
            /\ used' = used \union ({v.timeline} \ {NoID})
            /\ locked' = FALSE

\* The API server stores a child, or removes it (NoChild).
StoreChild(k, c) == child' = [child EXCEPT ![k] = c] /\ events' = events \union {k}

Init ==
    /\ \E p \in PGVersions :
         log = << [exists |-> FALSE, uid |-> 0, gen |-> 0, timeline |-> NoID,
                   pg |-> p, status |-> NoStatus] >>
    /\ used = {}
    /\ cluster = Provisioned
    /\ project \in [exists : {Provisioned},
                   tenant : IF Provisioned THEN Tenants ELSE {NoID}]
    /\ child = [k \in KindSet |-> NoChild] /\ cached = child /\ events = {}
    /\ queued = FALSE /\ timer = FALSE
    /\ pc = "idle" /\ job = NoJob /\ step = 1 /\ want = NoStatus /\ locked = FALSE
    /\ newID = NoID /\ outcome = "ok"
    /\ timelines = {} /\ late = {}
    /\ edits = 0 /\ faults = 0

-------------------------------------------------------------------------------
(* Users and the rest of Kubernetes. *)

Edit == edits < MaxEdits /\ edits' = edits + 1
        /\ UNCHANGED <<envVars, cached, queueVars, workerVars, scVars, faults>>

Create(t, p) ==
    /\ ~Latest.exists /\ (t = NoID \/ t # newID)
    /\ Store([exists |-> TRUE, uid |-> Latest.uid + 1, gen |-> 1, timeline |-> t,
              pg |-> p, status |-> NoStatus])
    /\ Edit /\ UNCHANGED <<child, events>>

\* A change of spec.pgVersion; the API server increments the generation.
SetPGVersion(p) ==
    /\ Latest.exists /\ Latest.pg # p
    /\ Store([Latest EXCEPT !.pg = p, !.gen = @ + 1])
    /\ Edit /\ UNCHANGED <<child, events>>

\* A timeline ID specified after the object was created without one.  Users are
\* assumed not to change an ID that is set.
SpecifyTimeline(t) ==
    /\ Latest.exists /\ Latest.timeline = NoID /\ t # newID
    /\ Store([Latest EXCEPT !.timeline = t, !.gen = @ + 1])
    /\ Edit /\ UNCHANGED <<child, events>>

Delete == /\ Latest.exists /\ Store([Latest EXCEPT !.exists = FALSE])
          /\ Edit /\ UNCHANGED <<child, events>>

\* Somebody deletes a child.
DeleteChild(k) ==
    /\ child[k].exists
    /\ StoreChild(k, NoChild)
    /\ Edit /\ UNCHANGED apiVars

User ==
    \/ \E t \in IDs \union {NoID}, p \in PGVersions : Create(t, p)
    \/ \E p \in PGVersions : SetPGVersion(p)
    \/ \E t \in IDs : SpecifyTimeline(t)
    \/ Delete
    \/ \E k \in KindSet : DeleteChild(k)

\* The cache gets the Project, with or without a tenant ID, then its tenant ID; or
\* the Cluster and its Secret.  No key is queued.
DeliverProject ==
    /\ \/ ~project.exists /\ project' \in [exists : {TRUE}, tenant : Tenants \union {NoID}]
       \/ /\ project.exists /\ project.tenant = NoID
          /\ project' \in [exists : {TRUE}, tenant : Tenants]
    /\ UNCHANGED <<apiVars, cluster, childVars, queueVars, workerVars, scVars, edits, faults>>
DeliverCluster ==
    /\ ~cluster /\ cluster' = TRUE
    /\ UNCHANGED <<apiVars, project, childVars, queueVars, workerVars, scVars, edits, faults>>

\* The Deployment controller reports the compute available.
ComputeUp ==
    /\ child["Deployment"].exists /\ ~child["Deployment"].avail
    /\ StoreChild("Deployment", [child["Deployment"] EXCEPT !.avail = TRUE])
    /\ UNCHANGED <<apiVars, envVars, cached, queueVars, workerVars, scVars, edits, faults>>

\* A fault happens; MaxFaults is the model's bound.
Fault == faults < MaxFaults /\ faults' = faults + 1

ComputeDown ==
    /\ child["Deployment"].avail
    /\ StoreChild("Deployment", [child["Deployment"] EXCEPT !.avail = FALSE])
    /\ Fault
    /\ UNCHANGED <<apiVars, envVars, cached, queueVars, workerVars, scVars, edits>>

\* The garbage collector deletes a child whose owner is gone.
Collect(k) ==
    /\ child[k].exists /\ ~(Latest.exists /\ Latest.uid = child[k].owner)
    /\ StoreChild(k, NoChild)
    /\ UNCHANGED <<apiVars, envVars, cached, queueVars, workerVars, scVars, edits, faults>>

-------------------------------------------------------------------------------
(* Informer caches and work queue. *)

\* An event of the Branch: For(&Branch{}).
Deliver ==
    /\ Len(log) > 1
    /\ log' = Tail(log)
    /\ queued' = TRUE
    /\ UNCHANGED <<used, locked, envVars, childVars, timer, workerVars, scVars, edits, faults>>

\* Mutant: the children are cached but not watched (no Owns).
DeliverChildUnowned(k) ==
    /\ k \in events
    /\ events' = events \ {k}
    /\ cached' = [cached EXCEPT ![k] = child[k]]
    /\ UNCHANGED <<apiVars, envVars, child, queueVars, workerVars, scVars, edits, faults>>

\* An event of a child: Owns(...) queues the Branch its owner reference names,
\* whatever its uid.
DeliverChild(k) ==
    /\ k \in events
    /\ events' = events \ {k}
    /\ cached' = [cached EXCEPT ![k] = child[k]]
    /\ queued' = TRUE
    /\ UNCHANGED <<apiVars, envVars, child, timer, workerVars, scVars, edits, faults>>

\* RequeueAfter, or the back-off after an error, has passed.
TimerFires ==
    /\ timer
    /\ timer' = FALSE
    /\ queued' = TRUE
    /\ UNCHANGED <<apiVars, envVars, childVars, workerVars, scVars, edits, faults>>

-------------------------------------------------------------------------------
(* The worker: Reconcile and what it calls. *)

Dequeue == pc = "idle" /\ queued /\ queued' = FALSE

\* The call is over: its local variables are gone.
Done == pc' = "idle" /\ job' = NoJob /\ step' = 1 /\ want' = NoStatus
        /\ newID' = NoID /\ outcome' = "ok"

\* getBranch finds nothing in the cache: the call returns.
ReconcileDeleted ==
    /\ Dequeue
    /\ ~Cached.exists
    /\ UNCHANGED <<apiVars, envVars, childVars, timer, workerVars, scVars, edits, faults>>

\* IDs no version has had: what GenerateNeonID may return.
FreshIDs == IDs \ used

\* Mutant: the decision is made on the TimelineIDAssigned condition.
ReconcileAssignByCondition ==
    /\ Dequeue
    /\ Cached.exists /\ ~Cached.status.assigned
    /\ newID' \in FreshIDs
    /\ pc' = "assign"
    /\ UNCHANGED <<apiVars, envVars, childVars, timer, job, step, want,
                   outcome, scVars, edits, faults>>

\* No timeline ID in the version read: updateTimelineID.  The model keeps an ID for
\* every edit still to come, and spends only the others on branches that have one
\* already (the cache is behind).
ReconcileAssign ==
    /\ Dequeue
    /\ Cached.exists /\ Cached.timeline = NoID
    /\ Latest.timeline = NoID \/ Cardinality(FreshIDs) > MaxEdits - edits
    /\ newID' \in FreshIDs
    /\ pc' = "assign"
    /\ UNCHANGED <<apiVars, envVars, childVars, timer, job, step, want,
                   outcome, scVars, edits, faults>>

\* getProject fails: the call returns the error, without a status update.
ReconcileNoProject ==
    /\ Dequeue
    /\ Cached.exists /\ Cached.timeline # NoID
    /\ ~project.exists
    /\ timer' = TRUE
    /\ UNCHANGED <<apiVars, envVars, childVars, workerVars, scVars, edits, faults>>

\* Mutant: no check that there is an ID.
ReconcileTimelineAny ==
    /\ Dequeue
    /\ Cached.exists /\ project.exists
    /\ job' = [uid |-> Cached.uid, timeline |-> Cached.timeline, pg |-> Cached.pg,
               tenant |-> project.tenant]
    /\ pc' = "post"
    /\ UNCHANGED <<apiVars, envVars, childVars, timer, step, want, newID, outcome,
                   scVars, edits, faults>>

\* ensureTimeline sends the POST, for the Branch and the Project just read.
ReconcileTimeline ==
    /\ Dequeue
    /\ Cached.exists /\ Cached.timeline # NoID
    /\ project.exists
    /\ job' = [uid |-> Cached.uid, timeline |-> Cached.timeline, pg |-> Cached.pg,
               tenant |-> project.tenant]
    /\ pc' = "post"
    /\ UNCHANGED <<apiVars, envVars, childVars, timer, step, want, newID, outcome,
                   scVars, edits, faults>>

\* updateTimelineID failed: the call returns the error, without a status update.
AssignFailed == Done /\ timer' = TRUE

\* updateTimelineID reads the object again, from the cache.
GetCurrent ==
    /\ pc = "assign"
    /\ \/ /\ Cached.exists
          /\ pc' = "patch"
          /\ UNCHANGED <<timer, job, step, want, newID, outcome>>
       \/ /\ ~Cached.exists
          /\ AssignFailed
    /\ UNCHANGED <<apiVars, envVars, childVars, queued, scVars, edits, faults>>

\* The merge patch of spec.timelineID, which carries no resourceVersion and no
\* uid: it applies to whatever object has the name now.
TimelinePatched == [Latest EXCEPT !.timeline = newID, !.gen = @ + 1]

\* updateTimelineID patches the object: requeue in a second.
PatchTimeline ==
    /\ pc = "patch"
    /\ Latest.exists
    /\ Store(TimelinePatched)
    /\ Done /\ timer' = TRUE
    /\ UNCHANGED <<envVars, childVars, queued, scVars, edits, faults>>

\* The patch fails: the object is gone, the API server fails before storing it,
\* or it is stored and the answer is lost.
PatchTimelineFails ==
    /\ pc = "patch"
    /\ \/ ~Latest.exists /\ UNCHANGED <<apiVars, faults>>
       \/ Fault /\ UNCHANGED apiVars
       \/ Fault /\ Latest.exists /\ Store(TimelinePatched)
    /\ AssignFailed
    /\ UNCHANGED <<envVars, childVars, queued, scVars, edits>>

\* The POST .../v1/tenant/{tenant}/timeline of the call.
Request == [tenant |-> job.tenant, timeline |-> job.timeline]

\* 200, 201 or 409: the timeline is there (409 is taken, as the code takes it, to be
\* about this timeline of this tenant), and the children come next.
PostOK ==
    /\ pc = "post" /\ job.tenant # NoID
    /\ timelines' = timelines \union {Request}
    /\ pc' = "children"
    /\ UNCHANGED <<apiVars, envVars, childVars, queueVars, job, step, want,
                   newID, outcome, late, edits, faults>>

\* Mutant: a request without an answer counts as served.
PostFailsUnnoticed ==
    /\ pc = "post" /\ job.tenant # NoID
    /\ Fault
    /\ pc' = "children"
    /\ UNCHANGED <<apiVars, envVars, childVars, queueVars, job, step, want, newID,
                   outcome, scVars, edits>>

\* Another status, no answer within 10 seconds, or a connection that fails: the
\* request had no effect, or was served all the same, or may be served later.  A
\* request without a tenant ID always fails.
PostFails ==
    /\ pc = "post"
    /\ \/ job.tenant = NoID /\ UNCHANGED <<scVars, faults>>
       \/ /\ job.tenant # NoID /\ Fault
          /\ \/ UNCHANGED scVars
             \/ timelines' = timelines \union {Request} /\ UNCHANGED late
             \/ late' = late \union {Request} /\ UNCHANGED timelines
    /\ pc' = "status" /\ outcome' = "timelineErr"
    /\ UNCHANGED <<apiVars, envVars, childVars, queueVars, job, step, want,
                   newID, edits>>

\* The storage controller serves a request nobody waits for any more.
LatePost ==
    \E r \in late :
      /\ late' = late \ {r}
      /\ timelines' = timelines \union {r}
      /\ UNCHANGED <<apiVars, envVars, childVars, queueVars, workerVars, edits, faults>>

-------------------------------------------------------------------------------
(* createBranchResources: ConfigMap, Deployment, admin and postgres Service, in *)
(* this order; the first failure ends it.                                       *)

\* The children the compute package builds, with a controller reference to the
\* Branch; of ConfigMap and Services only the presence matters.
Owned == [NoChild EXCEPT !.exists = TRUE, !.owner = job.uid]
ConfigMap == Owned
Service == Owned
Deployment == [Owned EXCEPT !.tenant = job.tenant, !.timeline = job.timeline,
                            !.pg = job.pg]
Intended(k) ==
    CASE k = "ConfigMap"  -> ConfigMap
      [] k = "Deployment" -> Deployment
      [] OTHER            -> Service

\* The contents of c and d differ; owner references are not compared.
Drift(c, d) == <<c.tenant, c.timeline, c.pg>> # <<d.tenant, d.timeline, d.pg>>

\* reconcileConfigMap needs the Cluster and its JWT Secret.
Prerequisites(k) == k # "ConfigMap" \/ cluster

\* The call to make, from what the cache has.
Verb(k) ==
    CASE ~cached[k].exists -> "create"
      [] cached[k].exists /\ Drift(Intended(k), cached[k]) -> "apply"
      [] OTHER -> "none"

\* The API server accepts the call: a create if there is no such object, an apply if
\* there is none, or if it has no other controller and its selector (tenant and
\* timeline) stays.
Accepts(k) ==
    child[k].exists =>
      /\ Verb(k) = "apply" /\ child[k].owner = Intended(k).owner
      /\ child[k].tenant = Intended(k).tenant /\ child[k].timeline = Intended(k).timeline

Write(k) ==
    StoreChild(k, IF child[k].exists THEN [child[k] EXCEPT !.pg = Intended(k).pg]
                  ELSE Intended(k))

ReconcileChild ==
    LET k == Kinds[step] IN
    /\ pc = "children"
    /\ Prerequisites(k)
    /\ \/ Verb(k) = "none" /\ UNCHANGED <<child, events>>
       \/ Verb(k) # "none" /\ Accepts(k) /\ Write(k)
    /\ IF step = Len(Kinds) THEN pc' = "status" /\ UNCHANGED step
                            ELSE pc' = pc /\ step' = step + 1
    /\ UNCHANGED <<apiVars, envVars, cached, queueVars, job, want, newID,
                   outcome, scVars, edits, faults>>

\* A prerequisite is missing; AlreadyExists, or an apply the API server rejects; or
\* the API server fails before or after it stored the child.
ReconcileChildFails ==
    LET k == Kinds[step] IN
    /\ pc = "children"
    /\ \/ ~Prerequisites(k) /\ UNCHANGED <<child, events, faults>>
       \/ /\ Prerequisites(k) /\ Verb(k) # "none"
          /\ \/ ~Accepts(k) /\ UNCHANGED <<child, events, faults>>
             \/ Fault /\ UNCHANGED <<child, events>>
             \/ Fault /\ Accepts(k) /\ Write(k)
    /\ pc' = "status" /\ outcome' = "createErr"
    /\ UNCHANGED <<apiVars, envVars, cached, queueVars, job, step, want,
                   newID, scVars, edits>>

-------------------------------------------------------------------------------
(* updateStatus. *)

\* What updateStatus makes of version b and of the Deployment dep.
ComputeReason(dep, out) ==
    CASE out = "createErr" -> "ResourceCreateFailed"
      [] out # "createErr" /\ ~dep.exists -> "ChildResourceMissing"
      [] out # "createErr" /\ dep.exists /\ dep.avail -> "AsExpected"
      [] OTHER -> "ChildDeploymentNotAvailable"
BranchStatus(b, dep, out) ==
    [of        |-> b.uid,
     obsGen    |-> b.gen,
     assigned  |-> b.timeline # NoID,
     created   |-> out # "timelineErr",
     compute   |-> ComputeReason(dep, out),
     available |-> out # "timelineErr" /\ ComputeReason(dep, out) = "AsExpected"]

\* Mutant: a failed status update is only logged.
ReturnIgnoringStatusErr(statusErr) ==
    /\ Done
    /\ timer' = (timer \/ outcome # "ok")
    /\ UNCHANGED <<envVars, childVars, queued, scVars, edits>>

\* Reconcile returns.  A failed timeline is retried after 10 seconds, an error (a
\* failed status update, a failed child) with back-off; anything else is not.
Return(statusErr) ==
    /\ Done
    /\ timer' = (timer \/ statusErr \/ outcome # "ok")
    /\ UNCHANGED <<envVars, childVars, queued, scVars, edits>>

\* Mutant: the status is patched even if it is unchanged.
GetForStatusAlways ==
    /\ pc = "status"
    /\ \/ /\ ~Cached.exists
          /\ Return(TRUE) /\ UNCHANGED locked
       \/ /\ Cached.exists
          /\ want' = BranchStatus(Cached, cached["Deployment"], outcome)
          /\ locked' = (Len(log) = 1)
          /\ pc' = "patchStatus"
          /\ UNCHANGED <<envVars, childVars, queueVars, job, step, newID, outcome, scVars,
                         edits>>
    /\ UNCHANGED <<log, used, faults>>

\* updateStatus reads the Deployment and PatchStatus the Branch, from the cache; it
\* returns when the Branch is gone (an error) or its status is already as wanted.
GetForStatus ==
    LET s == BranchStatus(Cached, cached["Deployment"], outcome) IN
    /\ pc = "status"
    /\ \/ /\ ~Cached.exists
          /\ Return(TRUE) /\ UNCHANGED locked
       \/ /\ Cached.exists /\ Cached.status = s
          /\ Return(FALSE) /\ UNCHANGED locked
       \/ /\ Cached.exists /\ Cached.status # s
          /\ want' = s /\ locked' = (Len(log) = 1)
          /\ pc' = "patchStatus"
          /\ UNCHANGED <<envVars, childVars, queueVars, job, step, newID, outcome, scVars,
                         edits>>
    /\ UNCHANGED <<log, used, faults>>

\* Mutant: no optimistic lock.
StatusPatchUnlocked == Latest.exists

\* The patch carries the resourceVersion of the version read (optimistic lock).
StatusPatchApplies == Latest.exists /\ locked

PatchStatus ==
    /\ pc = "patchStatus"
    /\ StatusPatchApplies
    /\ Store([Latest EXCEPT !.status = want])
    /\ Return(FALSE)
    /\ UNCHANGED faults

\* NotFound or Conflict, a failing API server, or a lost answer.
PatchStatusFails ==
    /\ pc = "patchStatus"
    /\ \/ ~StatusPatchApplies /\ UNCHANGED <<log, used, faults>> /\ locked' = FALSE
       \/ Fault /\ UNCHANGED <<log, used>> /\ locked' = FALSE
       \/ Fault /\ StatusPatchApplies /\ Store([Latest EXCEPT !.status = want])
    /\ Return(TRUE)

\* The process dies and another one starts: the work in hand, the queue and the
\* timers are gone; the new caches list the Branch, no older than the old cache
\* had it, and the children, and queue the Branch for itself and for each child.
Restart ==
    /\ Fault
    /\ \E i \in 1..Len(log) : log' = SubSeq(log, i, Len(log))
    /\ cached' = child /\ events' = {}
    /\ queued' = (Cached'.exists \/ \E k \in KindSet : child[k].exists)
    /\ timer' = FALSE
    /\ Done /\ locked' = FALSE
    /\ late' = IF pc = "post" /\ job.tenant # NoID THEN late \union {Request} ELSE late
    /\ UNCHANGED <<used, envVars, child, timelines, edits>>

Worker ==
    \/ ReconcileDeleted \/ ReconcileAssign \/ ReconcileNoProject \/ ReconcileTimeline
    \/ GetCurrent \/ PatchTimeline \/ PatchTimelineFails
    \/ PostOK \/ PostFails
    \/ ReconcileChild \/ ReconcileChildFails
    \/ GetForStatus \/ PatchStatus \/ PatchStatusFails

Caches == Deliver \/ (\E k \in KindSet : DeliverChild(k)) \/ DeliverProject
          \/ DeliverCluster

Kubernetes == ComputeUp \/ (\E k \in KindSet : Collect(k))

Next == \/ User \/ ComputeDown \/ Kubernetes \/ Caches \/ TimerFires
        \/ Worker \/ LatePost \/ Restart

Spec == Init /\ [][Next]_vars

\* The watches, the delaying queue and the worker keep going, the Project gets a
\* tenant ID, the Cluster its Secret, and Kubernetes brings up Deployments and
\* collects garbage; users, faults, restarts and late requests owe nothing.
FairSpec ==
    /\ Spec
    /\ WF_vars(Deliver) /\ WF_vars(DeliverProject) /\ WF_vars(DeliverCluster)
    /\ \A k \in KindSet :
         WF_vars(DeliverChild(k)) /\ WF_vars(Collect(k))
    /\ WF_vars(TimerFires) /\ WF_vars(Worker)
    /\ WF_vars(ComputeUp)

-------------------------------------------------------------------------------
(* Properties. *)

\* Every variable has its type, a child without a pending event is in the cache as
\* it is stored, and a call has the IDs its step needs.
TypeOK ==
    /\ log \in Seq(Version) /\ Len(log) \in Nat \ {0}
    /\ used \subseteq IDs /\ job \in Job
    /\ project \in Project /\ cluster \in BOOLEAN
    /\ child \in [KindSet -> Child] /\ cached \in [KindSet -> Child]
    /\ events \subseteq KindSet /\ \A k \in KindSet \ events : cached[k] = child[k]
    /\ queued \in BOOLEAN /\ timer \in BOOLEAN
    /\ pc \in {"idle", "assign", "patch", "post", "children", "status", "patchStatus"}
    /\ locked \in BOOLEAN /\ step \in 1..Len(Kinds) /\ want \in Status
    /\ newID \in IDs \union {NoID} /\ outcome \in Outcomes
    /\ pc \in {"assign", "patch"} => newID # NoID
    /\ pc \in {"post", "children"} => job.timeline # NoID
    /\ pc = "children" => job.tenant # NoID
    /\ timelines \subseteq Timeline /\ late \subseteq Timeline
    /\ edits \in Nat /\ faults \in Nat

\* The Deployment is the one the Branch and its Project ask for.
ComputeIsCurrent ==
    LET d == child["Deployment"] IN
    /\ d.tenant = project.tenant /\ d.timeline = Latest.timeline /\ d.pg = Latest.pg

\* The Branch has a timeline, the timeline exists, every child is there and its own,
\* the compute is current, and the status says what there is.
Converged ==
    /\ Latest.timeline # NoID
    /\ [tenant |-> project.tenant, timeline |-> Latest.timeline] \in timelines
    /\ \A k \in KindSet : child[k].exists /\ child[k].owner = Latest.uid
    /\ ComputeIsCurrent
    /\ Latest.status = BranchStatus(Latest, child["Deployment"], "ok")

\* Nothing is left that would make the reconciler run again.
Quiescent ==
    /\ pc = "idle" /\ ~queued /\ ~timer
    /\ Len(log) = 1 /\ events = {}
    /\ \A k \in KindSet :
         child[k].exists => Latest.exists /\ child[k].owner = Latest.uid

\* No lost wakeup: whatever was edited, deleted, failed or restarted, and in which
\* order, the reconciler comes to rest only on a Branch whose timeline and children
\* are there and whose status is the current one (the requeues of reconcile, the
\* watches of SetupWithManager).
QuiescentConverged == Quiescent /\ Latest.exists => Converged

\* A compute is never started on a timeline the storage controller does not have:
\* createBranchResources comes after ensureTimeline's success, for the same IDs.
ComputeAfterTimeline ==
    LET d == child["Deployment"] IN
    d.exists => [tenant |-> d.tenant, timeline |-> d.timeline] \in timelines

\* A status was computed from a version of the very Branch that carries it, and
\* neither observes a generation nor claims a timeline ID that Branch has not reached,
\* although it may be deleted and recreated between PatchStatus's read and patch.
\* (The outcome and the Deployment that go into it may be those of an earlier Branch
\* of the name, which the call began with; QuiescentConverged says that this does not
\* last.)
StatusOfThisObject ==
    \A i \in 1..Len(log) :
      LET v == log[i] IN
      /\ v.status = NoStatus \/ v.status.of = v.uid
      /\ v.status.obsGen <= v.gen
      /\ v.status.assigned => v.timeline # NoID

\* The cache has shown this Branch with a timeline ID, and no assignment is on its
\* way.
Settled ==
    /\ Latest.exists /\ Cached.uid = Latest.uid /\ Cached.timeline # NoID
    /\ pc \notin {"assign", "patch"}

\* The timeline ID as the abstract specification sees it.
Identity == INSTANCE AssignedIdentity WITH
    exists     <- Latest.exists,
    uid        <- Latest.uid,
    id         <- Latest.timeline,
    settled    <- Settled,
    recorded   <- used,
    registered <- {r.timeline : r \in timelines \union late}

\* The reconciler keeps the promise of AssignedIdentity: the timeline ID of a Branch
\* changes only until the cache has shown one and no patch is under way, and only
\* recorded IDs reach the storage controller (updateTimelineID before POST).
ImplementsIdentity == Identity!Spec

\* The Branch's own Deployment selects a timeline that is no longer the Branch's;
\* no apply can change that.
Wedged ==
    LET d == child["Deployment"] IN
    /\ Latest.exists /\ d.exists /\ d.owner = Latest.uid
    /\ d.timeline # Latest.timeline

\* When users and faults have stopped, the reconciler comes to rest on a converged
\* Branch, in spite of the events its own writes cause; the only other end is a
\* Deployment whose selector belongs to a replaced timeline ID.
SettlesOrWedged ==
    \/ <>[](Quiescent /\ (Latest.exists => Converged))
    \/ <>[]Wedged

\* branch_create.go on a Deployment that drifted: "At this point, the Deployment
\* exists and needs to be updated".  It is: in the end the compute is on the
\* Branch's timeline.
DeploymentUpdated == <>[]~Wedged

=============================================================================
