-------------------------- MODULE WorkloadController --------------------------
(***************************************************************************)
(* The Cluster, Pageserver and Safekeeper reconcilers (cluster_*.go,       *)
(* pageserver_*.go and safekeeper_*.go of internal/controller, with        *)
(* utils.ReconcileSSA and utils.UpdateSTSBackedStatus) for one object of   *)
(* the given Kind.  The three have one shape: reconcile the children in a  *)
(* fixed order, stop at the first failure, then patch the status.          *)
(*                                                                         *)
(* API server, caches and work queue are those of BranchController.        *)
(* Events of the object and of the children it watches queue the key;      *)
(* events of the JWT Secret, of the parent Cluster and of the bucket       *)
(* credentials do not.                                                     *)
(*                                                                         *)
(* Abstractions.  spec is what the children depend on: a Cluster's image   *)
(* (storage controller and broker), a Pageserver's or Safekeeper's storage *)
(* (the StatefulSet's volumeClaimTemplates, which cannot be changed).  A   *)
(* cached read and the write it leads to are one step.                     *)
(***************************************************************************)
EXTENDS Integers, Sequences, FiniteSets

CONSTANTS
    Kind,         \* "Cluster", "Pageserver" or "Safekeeper"
    Children,     \* the children an instance has, in the order they are reconciled
    Specs,        \* values of the object's spec; images if it is a Cluster
    Images,       \* images the parent Cluster of a Pageserver or Safekeeper may name
    Fixed,        \* the content of a part that depends on nothing
    Foreign,      \* what somebody else wrote into a child
    Provisioned,  \* bound: parent Cluster and bucket credentials are there at the start
    MaxEdits,     \* bound: edits by users
    MaxFaults     \* bound: failed calls, restarts and workloads that fail

ASSUME KindAssumption == Kind \in {"Cluster", "Pageserver", "Safekeeper"}
ASSUME ContentsAssumption == Fixed # Foreign /\ Foreign \notin Specs \union Images
ASSUME BoundsAssumption ==
    Provisioned \in BOOLEAN /\ MaxEdits \in Nat /\ MaxFaults \in Nat

VARIABLES
    log,                \* the object: the version in the cache, and all later ones
    parent,             \* the cache: parent Cluster, its image, bucket credentials
    child, cached,      \* the children: as stored, and as the cache has them
    events,             \* the children with watch events the cache has not got
    queued, timer,      \* work queue
    pc,                 \* worker: where the current Reconcile call is
    job,                \* worker: what it read of the object
    step,               \* worker: the next child
    want,               \* worker: the status to patch
    locked,             \* worker: the version PatchStatus read is still the stored one
    createErr,          \* worker: reconciling the children failed
    edits, faults

apiVars    == <<log, locked>>
childVars  == <<child, cached, events>>
queueVars  == <<queued, timer>>
workerVars == <<pc, job, step, want, createErr>>
vars == <<log, parent, child, cached, events, queued, timer, pc, job, step, want,
          locked, createErr, edits, faults>>

-------------------------------------------------------------------------------
(* The stored objects. *)

\* The children, in the order they are reconciled.
createClusterResources == <<"JWTSecret", "StorageController", "ControllerService",
                            "StorageBroker", "BrokerService">>
createPageserverResources == <<"ConfigMap", "Service", "HeadlessService", "StatefulSet">>
createSafekeeperResources == <<"Service", "HeadlessService", "StatefulSet">>
AllChildren == CASE Kind = "Cluster"    -> createClusterResources
                 [] Kind = "Pageserver" -> createPageserverResources
                 [] Kind = "Safekeeper" -> createSafekeeperResources
ChildSet == {Children[i] : i \in 1..Len(Children)}

\* An instance may leave children out; those it has are reconciled in this order.
Place(k) == CHOOSE n \in 1..Len(AllChildren) : AllChildren[n] = k
ASSUME ChildrenAssumption ==
    /\ Children \in Seq({AllChildren[n] : n \in 1..Len(AllChildren)})
    /\ \A i, j \in 1..Len(Children) : i < j => Place(Children[i]) < Place(Children[j])
    /\ ChildSet # {} /\ (Kind = "Cluster" \/ "StatefulSet" \in ChildSet)

\* The children whose readiness the status reports.
Workloads == ChildSet \intersect {"StorageController", "StorageBroker", "StatefulSet"}

\* SetupWithManager watches them (Owns); the JWT Secret is not among them.
Watched == ChildSet \ {"JWTSecret"}

\* The reason a StatefulSet's Pod gives for not being ready is the container's that
\* PodNotReadyDetail finds first, or none (no Pod yet, or nothing to tell), for which
\* the status has ChildPodNotReady.
PodNotReadyDetail == {"ContainerReason", "ChildPodNotReady"}

Reasons == {"Unset", "AsExpected", "ResourceCreateFailed", "ChildResourceMissing",
            "ChildDeploymentNotAvailable"} \union PodNotReadyDetail

\* status.observedGeneration, the condition of each Deployment of a Cluster, and
\* Available, by their reasons; ResourcesReady is false iff ResourceCreateFailed.
Status == [obsGen : Nat, parts : [Workloads -> Reasons], available : Reasons]
NoStatus == [obsGen |-> 0, parts |-> [k \in Workloads |-> "Unset"], available |-> "Unset"]

Version == [exists : BOOLEAN, uid : Nat, gen : Nat, spec : Specs, status : Status]

\* A child: the uid in its controller reference, the part of its spec that cannot be
\* changed, the rest of it, a Secret's key, whether its controller has observed
\* its generation, and whether it reports ready (Available, readyReplicas).
Contents == Specs \union Images \union {Fixed, Foreign}
Child == [exists : BOOLEAN, owner : Nat, fixed : Contents, content : Contents,
          key : 0..2, current : BOOLEAN, ready : BOOLEAN]
NoChild == [exists |-> FALSE, owner |-> 0, fixed |-> Fixed, content |-> Fixed,
            key |-> 0, current |-> FALSE, ready |-> FALSE]

Parent == [cluster : BOOLEAN, image : Images, bucket : BOOLEAN]

Job == [uid : Nat, spec : Specs \union {Fixed}]
NoJob == [uid |-> 0, spec |-> Fixed]

\* The object as the cache has it, and as it is stored.
Cached == log[1]
Latest == log[Len(log)]

\* The API server stores a new version.
Store(v) == log' = Append(log, v) /\ locked' = FALSE

\* The API server stores a child, or removes it (NoChild).
StoreChild(k, c) == child' = [child EXCEPT ![k] = c] /\ events' = events \union {k}

Init ==
    /\ \E s \in Specs : log = << [exists |-> FALSE, uid |-> 0, gen |-> 0, spec |-> s,
                                  status |-> NoStatus] >>
    /\ parent \in [cluster : {Provisioned}, image : Images, bucket : {Provisioned}]
    /\ child = [k \in ChildSet |-> NoChild] /\ cached = child /\ events = {}
    /\ queued = FALSE /\ timer = FALSE
    /\ pc = "idle" /\ job = NoJob /\ step = 1 /\ want = NoStatus /\ locked = FALSE
    /\ createErr = FALSE
    /\ edits = 0 /\ faults = 0

-------------------------------------------------------------------------------
(* Users and the rest of Kubernetes. *)

Edit == edits < MaxEdits /\ edits' = edits + 1
        /\ UNCHANGED <<cached, queueVars, workerVars, faults>>

Create(s) ==
    /\ ~Latest.exists
    /\ Store([exists |-> TRUE, uid |-> Latest.uid + 1, gen |-> 1, spec |-> s,
              status |-> NoStatus])
    /\ Edit /\ UNCHANGED <<parent, child, events>>

SetSpec(s) ==
    /\ Latest.exists /\ Latest.spec # s
    /\ Store([Latest EXCEPT !.spec = s, !.gen = @ + 1])
    /\ Edit /\ UNCHANGED <<parent, child, events>>

Delete == /\ Latest.exists /\ Store([Latest EXCEPT !.exists = FALSE])
          /\ Edit /\ UNCHANGED <<parent, child, events>>

DeleteChild(k) ==
    /\ child[k].exists
    /\ StoreChild(k, NoChild)
    /\ Edit /\ UNCHANGED <<apiVars, parent>>

\* Somebody changes what can be changed of a child.
EditChild(k) ==
    /\ child[k].exists /\ k # "JWTSecret" /\ child[k].content # Foreign
    /\ StoreChild(k, [child[k] EXCEPT !.content = Foreign, !.current = FALSE])
    /\ Edit /\ UNCHANGED <<apiVars, parent>>

\* The image of the parent Cluster changes.  No key is queued.
SetImage(i) ==
    /\ Kind # "Cluster" /\ parent.cluster /\ parent.image # i
    /\ parent' = [parent EXCEPT !.image = i]
    /\ Edit /\ UNCHANGED <<apiVars, child, events>>

User ==
    \/ \E s \in Specs : Create(s) \/ SetSpec(s)
    \/ Delete
    \/ \E k \in ChildSet : DeleteChild(k) \/ EditChild(k)
    \/ \E i \in Images : SetImage(i)

\* The cache gets the parent Cluster, or the bucket credentials.  No key is queued.
DeliverParent ==
    /\ \/ ~parent.cluster /\ parent' = [parent EXCEPT !.cluster = TRUE]
       \/ ~parent.bucket /\ parent' = [parent EXCEPT !.bucket = TRUE]
    /\ UNCHANGED <<apiVars, childVars, queueVars, workerVars, edits, faults>>

\* The Deployment or StatefulSet controller observes the spec, and the pods are ready.
WorkloadUp(k) ==
    /\ child[k].exists /\ ~(child[k].current /\ child[k].ready)
    /\ StoreChild(k, [child[k] EXCEPT !.current = TRUE, !.ready = TRUE])
    /\ UNCHANGED <<apiVars, parent, cached, queueVars, workerVars, edits, faults>>

\* A fault happens; MaxFaults is the model's bound.
Fault == faults < MaxFaults /\ faults' = faults + 1

WorkloadDown(k) ==
    /\ child[k].ready
    /\ StoreChild(k, [child[k] EXCEPT !.ready = FALSE])
    /\ Fault
    /\ UNCHANGED <<apiVars, parent, cached, queueVars, workerVars, edits>>

\* The garbage collector deletes a child whose owner is gone.
Collect(k) ==
    /\ child[k].exists /\ ~(Latest.exists /\ Latest.uid = child[k].owner)
    /\ StoreChild(k, NoChild)
    /\ UNCHANGED <<apiVars, parent, cached, queueVars, workerVars, edits, faults>>

-------------------------------------------------------------------------------
(* Informer caches and work queue. *)

Deliver ==
    /\ Len(log) > 1
    /\ log' = Tail(log)
    /\ queued' = TRUE
    /\ UNCHANGED <<locked, parent, childVars, timer, workerVars, edits, faults>>

\* Mutant: the children are cached but not watched (no Owns).
DeliverChildUnowned(k) ==
    /\ k \in events
    /\ events' = events \ {k}
    /\ cached' = [cached EXCEPT ![k] = child[k]]
    /\ UNCHANGED <<apiVars, parent, child, queueVars, workerVars, edits, faults>>

\* An event of a child: one the controller owns queues the object its owner
\* reference names, whatever its uid.
DeliverChild(k) ==
    /\ k \in events
    /\ events' = events \ {k}
    /\ cached' = [cached EXCEPT ![k] = child[k]]
    /\ queued' = (queued \/ k \in Watched)
    /\ UNCHANGED <<apiVars, parent, child, timer, workerVars, edits, faults>>

\* The back-off after an error has passed.
TimerFires ==
    /\ timer
    /\ timer' = FALSE
    /\ queued' = TRUE
    /\ UNCHANGED <<apiVars, parent, childVars, workerVars, edits, faults>>

-------------------------------------------------------------------------------
(* The worker: Reconcile and what it calls. *)

Dequeue == pc = "idle" /\ queued /\ queued' = FALSE

\* The call is over: its local variables are gone.
Done == pc' = "idle" /\ job' = NoJob /\ step' = 1 /\ want' = NoStatus
        /\ createErr' = FALSE

\* The cache has no such object.  The Cluster reconciler uses the nil it got from
\* getCluster: the call panics, which controller-runtime turns into an error.
ReconcileDeleted ==
    /\ Dequeue
    /\ ~Cached.exists
    /\ timer' = (timer \/ Kind = "Cluster")
    /\ UNCHANGED <<apiVars, parent, childVars, workerVars, edits, faults>>

\* Mutant: an object that is gone is reconciled as an empty one.
ReconcileAny ==
    /\ Dequeue
    /\ job' = IF Cached.exists THEN [uid |-> Cached.uid, spec |-> Cached.spec] ELSE NoJob
    /\ pc' = "children"
    /\ UNCHANGED <<apiVars, parent, childVars, timer, step, want, createErr, edits, faults>>

\* The object is there: reconcile starts on its children.
Reconcile ==
    /\ Dequeue
    /\ Cached.exists
    /\ job' = [uid |-> Cached.uid, spec |-> Cached.spec]
    /\ pc' = "children"
    /\ UNCHANGED <<apiVars, parent, childVars, timer, step, want, createErr, edits, faults>>

\* The children the specs packages build, with a controller reference to the object.
\* Services and ConfigMap depend on nothing that changes here; a Secret gets a new
\* key, one that is not the stored one's.
Owned == [NoChild EXCEPT !.exists = TRUE, !.owner = job.uid]
Service == Owned
ConfigMap == Owned
JWTSecret == [Owned EXCEPT !.key = IF child["JWTSecret"].key = 1 THEN 2 ELSE 1]
StorageController == [Owned EXCEPT !.content = job.spec]
StorageBroker == [Owned EXCEPT !.content = job.spec]
StatefulSet == [Owned EXCEPT !.fixed = job.spec, !.content = parent.image]

Intended(k) ==
    CASE k = "JWTSecret"         -> JWTSecret
      [] k = "StorageController" -> StorageController
      [] k = "StorageBroker"     -> StorageBroker
      [] k = "StatefulSet"       -> StatefulSet
      [] k = "ConfigMap"         -> ConfigMap
      [] OTHER                   -> Service

\* reconcileConfigMap reads the bucket credentials, the StatefulSet's image comes
\* from the parent Cluster.
Prerequisites(k) ==
    /\ k = "ConfigMap" => parent.bucket
    /\ k = "StatefulSet" => parent.cluster

\* Mutant: a child that is there is left alone.
DriftNever(c, d) == FALSE

\* ReconcileSSA's drift: the specs are compared, owner references are not.
Drift(c, d) == <<c.fixed, c.content>> # <<d.fixed, d.content>>

\* Mutant: a Secret the cache does not have is applied, not created.
VerbApplySecret(k) ==
    CASE ~cached[k].exists -> IF k = "JWTSecret" THEN "apply" ELSE "create"
      [] cached[k].exists /\ k # "JWTSecret" /\ Drift(Intended(k), cached[k]) -> "apply"
      [] OTHER -> "none"

\* The call to make, from what the cache has; a JWT Secret that is there is never
\* looked at.
Verb(k) ==
    CASE ~cached[k].exists -> "create"
      [] cached[k].exists /\ k # "JWTSecret" /\ Drift(Intended(k), cached[k]) -> "apply"
      [] OTHER -> "none"

\* The Services of a Cluster are built without TypeMeta: the API server takes their
\* creation, not their server-side apply.
Appliable(k) == k \notin {"ControllerService", "BrokerService"}

\* The API server accepts the call: a create if there is no such object, an apply if
\* there is none, or if it has no other controller and the fixed part stays.
Accepts(k) ==
    /\ Verb(k) = "apply" => Appliable(k)
    /\ child[k].exists =>
         /\ Verb(k) = "apply"
         /\ child[k].owner = Intended(k).owner /\ child[k].fixed = Intended(k).fixed

\* It stores the child; a new spec has yet to be observed by the child's controller.
Write(k) ==
    StoreChild(k, IF child[k].exists
                  THEN [child[k] EXCEPT !.content = Intended(k).content,
                          !.key = Intended(k).key,
                          !.current = @ /\ child[k].content = Intended(k).content]
                  ELSE Intended(k))

ReconcileChild ==
    LET k == Children[step] IN
    /\ pc = "children"
    /\ Prerequisites(k)
    /\ \/ Verb(k) = "none" /\ UNCHANGED <<child, events>>
       \/ Verb(k) # "none" /\ Accepts(k) /\ Write(k)
    /\ IF step = Len(Children) THEN pc' = "status" /\ UNCHANGED step
                               ELSE pc' = pc /\ step' = step + 1
    /\ UNCHANGED <<apiVars, parent, cached, queueVars, job, want, createErr, edits, faults>>

\* A prerequisite is missing; AlreadyExists, or an apply the API server rejects; or
\* the API server fails before or after it stored the child.
ReconcileChildFails ==
    LET k == Children[step] IN
    /\ pc = "children"
    /\ \/ ~Prerequisites(k) /\ UNCHANGED <<child, events, faults>>
       \/ /\ Prerequisites(k) /\ Verb(k) # "none"
          /\ \/ ~Accepts(k) /\ UNCHANGED <<child, events, faults>>
             \/ Fault /\ UNCHANGED <<child, events>>
             \/ Fault /\ Accepts(k) /\ Write(k)
    /\ pc' = "status" /\ createErr' = TRUE
    /\ UNCHANGED <<apiVars, parent, cached, queueVars, job, step, want, edits>>

-------------------------------------------------------------------------------
(* updateStatus, UpdateSTSBackedStatus. *)

IsDeploymentAvailable(c) == c.exists /\ c.ready
IsStatefulSetReady(c)    == c.exists /\ c.ready /\ c.current

deploymentState(c) ==
    CASE ~c.exists -> "ChildResourceMissing"
      [] IsDeploymentAvailable(c) -> "AsExpected"
      [] OTHER -> "ChildDeploymentNotAvailable"

\* The status the Cluster reconciler makes of version o and of the Deployments in cs.
ClusterStatus(o, cs, err) ==
    [obsGen    |-> o.gen,
     parts     |-> [k \in Workloads |-> deploymentState(cs[k])],
     available |-> CASE err -> "ResourceCreateFailed"
                     [] ~err /\ \A k \in Workloads : IsDeploymentAvailable(cs[k])
                          -> "AsExpected"
                     [] OTHER -> "ChildDeploymentNotAvailable"]

\* The status of a Pageserver or Safekeeper, of a StatefulSet sts and what its Pod says.
STSBackedStatus(o, sts, err, detail) ==
    [NoStatus EXCEPT
       !.obsGen = o.gen,
       !.available = CASE err -> "ResourceCreateFailed"
                       [] ~err /\ ~sts.exists -> "ChildResourceMissing"
                       [] ~err /\ IsStatefulSetReady(sts) -> "AsExpected"
                       [] OTHER -> detail]

\* The statuses that can be made of o and cs: Pods are not watched, and what one says
\* of itself is any reason at any read.
WorkloadStatus(o, cs, err) ==
    IF Kind = "Cluster" THEN {ClusterStatus(o, cs, err)}
    ELSE {STSBackedStatus(o, cs["StatefulSet"], err, d) : d \in PodNotReadyDetail}

\* Mutant: a failed status update is only logged.
ReturnIgnoringStatusErr(statusErr) ==
    /\ Done
    /\ timer' = (timer \/ createErr)
    /\ UNCHANGED <<parent, childVars, queued, edits>>

\* Reconcile returns; an error (a failed status update, a failed child) is retried
\* with back-off.
Return(statusErr) ==
    /\ Done
    /\ timer' = (timer \/ statusErr \/ createErr)
    /\ UNCHANGED <<parent, childVars, queued, edits>>

\* Mutant: the status is patched even if it is unchanged.
GetForStatusAlways ==
    /\ pc = "status"
    /\ \/ ~Cached.exists /\ Return(TRUE) /\ UNCHANGED locked
       \/ /\ Cached.exists
          /\ want' \in WorkloadStatus(Cached, cached, createErr) /\ locked' = (Len(log) = 1)
          /\ pc' = "patchStatus"
          /\ UNCHANGED <<parent, childVars, queueVars, job, step, createErr, edits>>
    /\ UNCHANGED <<log, faults>>

\* The workloads, and by PatchStatus the object, are read from the cache; the call
\* returns when the object is gone (an error) or its status is already as wanted.
GetForStatus ==
    LET statuses == WorkloadStatus(Cached, cached, createErr) IN
    /\ pc = "status"
    /\ \/ ~Cached.exists /\ Return(TRUE) /\ UNCHANGED locked
       \/ Cached.exists /\ Cached.status \in statuses /\ Return(FALSE) /\ UNCHANGED locked
       \/ /\ Cached.exists
          /\ want' \in statuses \ {Cached.status} /\ locked' = (Len(log) = 1)
          /\ pc' = "patchStatus"
          /\ UNCHANGED <<parent, childVars, queueVars, job, step, createErr, edits>>
    /\ UNCHANGED <<log, faults>>

\* The patch carries the resourceVersion of the version read (optimistic lock).
StatusPatchApplies == Latest.exists /\ locked

PatchStatus ==
    /\ pc = "patchStatus"
    /\ StatusPatchApplies
    /\ Store([Latest EXCEPT !.status = want])
    /\ Return(FALSE)
    /\ UNCHANGED faults

\* NotFound or Conflict, a failing API server, or a lost answer.
PatchStatusFails ==
    /\ pc = "patchStatus"
    /\ \/ ~StatusPatchApplies /\ UNCHANGED <<log, faults>> /\ locked' = FALSE
       \/ Fault /\ UNCHANGED log /\ locked' = FALSE
       \/ Fault /\ StatusPatchApplies /\ Store([Latest EXCEPT !.status = want])
    /\ Return(TRUE)

\* The process dies and another one starts: the work in hand, the queue and the
\* timers are gone; the new caches list the object, no older than the old cache
\* had it, and the children, and queue the object for itself and each watched child.
Restart ==
    /\ Fault
    /\ \E i \in 1..Len(log) : log' = SubSeq(log, i, Len(log))
    /\ cached' = child /\ events' = {}
    /\ queued' = (Cached'.exists \/ \E k \in Watched : child[k].exists)
    /\ timer' = FALSE
    /\ Done /\ locked' = FALSE
    /\ UNCHANGED <<parent, child, edits>>

Worker ==
    \/ ReconcileDeleted \/ Reconcile
    \/ ReconcileChild \/ ReconcileChildFails
    \/ GetForStatus \/ PatchStatus \/ PatchStatusFails

Kubernetes ==
    \/ \E k \in Workloads : WorkloadUp(k)
    \/ \E k \in ChildSet : Collect(k)

Next == \/ User \/ DeliverParent \/ Kubernetes \/ (\E k \in Workloads : WorkloadDown(k))
        \/ Deliver \/ (\E k \in ChildSet : DeliverChild(k)) \/ TimerFires
        \/ Worker \/ Restart

Spec == Init /\ [][Next]_vars

\* The watches, the delaying queue and the worker keep going, the parent Cluster and
\* the credentials come, and Kubernetes brings up workloads and collects garbage;
\* users, faults and restarts owe nothing.
FairSpec ==
    /\ Spec
    /\ WF_vars(Deliver) /\ WF_vars(DeliverParent) /\ WF_vars(TimerFires) /\ WF_vars(Worker)
    /\ \A k \in ChildSet : WF_vars(DeliverChild(k)) /\ WF_vars(Collect(k))
    /\ \A k \in Workloads : WF_vars(WorkloadUp(k))

-------------------------------------------------------------------------------
(* Properties. *)

\* Every variable has its type, a child without a pending event is in the cache as
\* it is stored, and a call is for an object there has been.
TypeOK ==
    /\ log \in Seq(Version) /\ Len(log) \in Nat \ {0}
    /\ parent \in Parent
    /\ child \in [ChildSet -> Child] /\ cached \in [ChildSet -> Child]
    /\ events \subseteq ChildSet /\ \A k \in ChildSet \ events : cached[k] = child[k]
    /\ queued \in BOOLEAN /\ timer \in BOOLEAN
    /\ pc \in {"idle", "children", "status", "patchStatus"}
    /\ job \in Job /\ (pc # "idle" => job.uid \in 1..Latest.uid)
    /\ step \in 1..Len(Children) /\ want \in Status
    /\ locked \in BOOLEAN /\ createErr \in BOOLEAN
    /\ edits \in Nat /\ faults \in Nat

\* Every watched child is there, the object's own and as it asks for (but for the
\* image of its parent, which it does not watch), and the status says what there is.
Converged ==
    /\ \A k \in Watched :
         LET c == child[k] IN
         /\ c.exists /\ c.owner = Latest.uid
         /\ c.fixed = (IF k = "StatefulSet" THEN Latest.spec ELSE Fixed)
         /\ c.content # Foreign
         /\ Kind = "Cluster" /\ k \in Workloads => c.content = Latest.spec
    /\ Latest.status \in WorkloadStatus(Latest, child, FALSE)

\* Nothing is left that would make the reconciler run again.
Quiescent ==
    /\ pc = "idle" /\ ~queued /\ ~timer
    /\ Len(log) = 1 /\ events = {}
    /\ \A k \in ChildSet :
         child[k].exists => Latest.exists /\ child[k].owner = Latest.uid

\* No lost wakeup: whatever was edited, deleted, failed or restarted, and in which
\* order, the reconciler comes to rest only on an object whose watched children are
\* there and whose status is the current one (ReconcileSSA, SetupWithManager).
QuiescentConverged == Quiescent /\ Latest.exists => Converged

\* A key that is in use is never replaced, however stale the cache that shows no
\* Secret: reconcileJWTKeys may only fail.
KeyWriteOnce ==
    [][("JWTSecret" \in ChildSet /\ child["JWTSecret"].exists /\ child'["JWTSecret"].exists)
         => child'["JWTSecret"].key = child["JWTSecret"].key]_vars

\* The object's own child differs from what the object asks for in a part that
\* cannot be changed, or in a Service that cannot be applied.
Rejected ==
    /\ Latest.exists
    /\ \E k \in ChildSet :
         /\ child[k].exists /\ child[k].owner = Latest.uid
         /\ \/ k = "StatefulSet" /\ child[k].fixed # Latest.spec
            \/ ~Appliable(k) /\ child[k].content # Fixed

\* When users have stopped, the reconciler comes to rest on a converged
\* object, or on none and no children; the only other end is a child that no apply
\* can bring back.
SettlesOrRejected ==
    \/ <>[](Quiescent /\ (Latest.exists => Converged))
    \/ <>[]Rejected

===============================================================================
