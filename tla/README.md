# TLA+ models of the neon-operator

The operator runs a Neon storage cluster and its compute nodes on Kubernetes. It is
one Go process with five reconcilers (controller-runtime) and a small HTTP server
that the storage controller and the computes call. This directory models the
reconcilers and the server, checks the models with TLC, and proves with TLAPS that every
invariant and every action property the passing runs check holds for all values of the
constants. Liveness stays with TLC.

## 1. The system

### Components, their state and operations

| Component | Source | State | Operations |
|---|---|---|---|
| Project reconciler | `internal/controller/project_controller.go` | Project object (spec.tenantId, status) | generate and record a tenant ID; PUT its location to the storage controller; patch the status |
| Branch reconciler | `branch_controller.go`, `branch_create.go` | Branch object, ConfigMap, Deployment, two Services | generate and record a timeline ID; POST the timeline; create or apply the children; patch the status |
| Cluster reconciler | `cluster_controller.go`, `cluster_create.go` | Cluster object, JWT Secret, two Deployments, two Services | create the key once; create or apply the rest; patch the status |
| Pageserver, Safekeeper reconcilers | `pageserver_*.go`, `safekeeper_*.go` | object, (ConfigMap,) two Services, StatefulSet | create or apply; patch the status |
| Status helpers | `utils/status.go` | none | `PatchStatus` (read, compute, compare, patch with optimistic lock), `UpdateSTSBackedStatus`, readiness predicates |
| `ReconcileSSA` | `utils/reconcile.go` | none | create if absent, server-side apply on drift |
| Child specs | `specs/*` | none | pure functions from objects to children |
| Control plane | `internal/controlplane`, `specs/compute/spec.go` | none of its own; reads the cache | serve compute specs; on `/notify-attach` and `/notify-safekeepers` post a new spec to every compute concerned |
| JWT manager | `utils/jwtmanager.go` | the key in the Cluster's JWT Secret | make the key; sign the token of a POST; give a compute the public key |
| Manager | `cmd/controller/main.go` | leader lease | start the reconcilers |

### How they interact

The reconcilers never call each other. They meet in the API server: every read comes
from an informer cache that lags behind it, every write goes to it directly, and its
watch events queue keys. The Project reconciler and the Branch reconciler also call
the storage controller over HTTP; the Branch reconciler reads the Project, the
Cluster and the JWT Secret, the Pageserver and Safekeeper reconcilers read the
Cluster, and none of these reads is backed by a watch that queues the reader.

The control plane is called, not queued. The storage controller announces where a
tenant's shards are (`/notify-attach`) and which safekeepers a timeline has
(`/notify-safekeepers`), and repeats an announcement until it is answered 200. The
handler finds the computes in the cache and posts a whole new specification to each of
them in turn. A compute that starts asks for its specification by its compute_id. All of
these requests run at the same time and share nothing but what they read.

### What is hard

- **Stale reads.** A reconcile may run on a cache that has not seen its own last write.
- **Unlocked writes.** The patches that record generated IDs carry no resourceVersion
  and no uid, so they land on whatever object has the name; only status patches are
  locked.
- **Deletion and recreation under a running call**, with children of the earlier
  object still to be garbage-collected, and events for them still to arrive.
- **Failures between steps.** Every call may fail before or after it took effect; the
  process may die; an HTTP request that timed out may be served later.
- **Wakeups.** A reconciler that returns without an error or a requeue runs again only
  if an event comes. Each status patch is such an event.
- **Whole specifications, unordered.** Two handlers may post to one compute, each from
  its own idea of where the tenant is; a POST that timed out may be served after them.
- **Immutable fields.** A Deployment's selector and a StatefulSet's
  volumeClaimTemplates cannot follow the object once they are there.

### What makes each component correct

- Project: an ID is recorded before it is used and then stays; the reconciler stops
  only when the tenant is attached and the status says so; a status is computed from
  the object that carries it; in the end it stops.
- Branch: the same for timelines; no compute without its timeline; all children are
  there when it stops.
- Cluster, Pageserver, Safekeeper: all watched children are there and the object's own
  when the reconciler stops; a JWT key in use is never replaced.
- Control plane: no notification is acknowledged before every running compute has it,
  those the cache did not show included; the notifications do not fail for ever.

`PROJECT.json` lists these hazards line by line under `hazards`, with the properties
that would catch each of them, or a note where the model assumes the case away or the
code is known not to recover.

## 2. The modules

| Module | Models |
|---|---|
| `ProjectController` | one Project, the reconciler, API server, cache, queue, storage controller, users, failures |
| `AssignedIdentity` | abstract: what the Project and the Branch reconciler promise of the IDs they assign |
| `ProjectController_proofs` | theorems about `ProjectController` |
| `ProjectIdentity_proofs` | `ProjectController` implements `AssignedIdentity` |
| `BranchController` | one Branch and its children, with the garbage collector and the Deployment controller |
| `BranchController_proofs` | theorems about `BranchController` |
| `BranchIdentity_proofs` | `BranchController` implements `AssignedIdentity` |
| `WorkloadController` | one Cluster, Pageserver or Safekeeper (constant `Kind`) and its children (constant `Children`: those of the kind that the instance has, in the code's order) |
| `WorkloadController_proofs` | theorems about `WorkloadController` |
| `ControlPlane` | the HTTP server's three handlers for a set of computes, with the storage controller, the computes, the cache and the JWT Secret |
| `ControlPlane_proofs` | theorems about `ControlPlane`: types, and the lemmas on what requests, late POSTs and computes carry |
| `ControlPlaneNotify_proofs` | theorems about `ControlPlane`: what an acknowledged notification means |
| `MCProject`, `MCBranch`, `MCWorkload`, `MCControlPlane` | symmetry and instance values for TLC |

### Common shape of the reconcilers

- **API server.** `log` is the sequence of versions of the object. In
  `ProjectController` it is the whole history and a position is a resourceVersion; in
  the other two it starts at the version the cache holds, which keeps the state space
  small. `uid` changes on recreation, `gen` on every change of the spec. `of` of a status
  is a history field: the uid of the object the status was computed from.
- **Cache.** The version read by every `Get` of the reconciler: `log[seen]`, or
  `log[1]`. It lags and never goes back. Children are kept twice, `child` (stored) and
  `cached`; `events` are the children whose change has not been delivered. Several
  changes of a child may be delivered as one, as the informer does.
- **Queue.** `queued` is the (deduplicated) key, `timer` the delaying queue: a
  `RequeueAfter` or a rate-limited retry. Delays have no length.
- **Worker.** `pc` is where the one running `Reconcile` is. A call is cut where it
  waits for the API server or the storage controller; its local variables are
  variables of the model (`rv`, `cur`, `job`, `newID`, `outcome`, `want`, `locked`).
  A cached read and the write decided on it are one step in `ReconcileChild`: the
  write's effect depends only on what is stored when it arrives, and `Accepts` looks
  at that.
- **Failures.** Every write has a variant that fails before it took effect and one
  that fails after. A PUT or POST that failed may also go to `late` and be served at
  any later time. `Restart` loses the worker, the queue and the timers, and starts
  with a fresh list of the objects.
- **Users** create, edit, delete and recreate objects, and change or delete children.

### The control plane

- **Objects.** What a handler can tell of a compute's objects is one counter modulo 4:
  no Deployment; a Deployment whose admin Service is not there yet; both; a Deployment
  whose Branch is gone. `stored` is the API server's, `cached` follows it. The counter's
  quotient tells a recreated Deployment from the first. The Secret is a counter too, odd
  when the Secret is there, and its value is the key; it is the Secret as the cache has
  it, since nothing in the model reads the stored one.
- **Requests.** `req[h]` is the goroutine that serves request `h`: the computes it has
  still to do, the one it is at and what it has read so far. It is cut where it waits for
  another process, so that cache, Secret, storage controller and computes may change
  between `GenerateComputeSpec`'s reads, `GetTenantInfo` and the POST.
- **Specifications.** `of` is the Deployment whose labels gave tenant and timeline, `at`
  the attachment whose shards it names, `gen` the generation of the safekeepers (0 for
  the default list). `ShardMap` computes the shards as the code does.
- **Computes.** `pod[c]` is what compute_ctl runs with. `seen` is a history variable.

### The abstract specification

`AssignedIdentity` has an object with an ID that may be replaced until it is *settled*
and not after, and a set of IDs registered with the storage controller, each recorded in
an object before. In both reconcilers `settled` is mapped to: the cache has shown this
object with an ID and no assignment is under way; `registered` to what the storage
controller has or a late request may still bring it. The abstract specification is also
where the limits of the code are stated: `Assign` may replace an ID, because the decision
to generate one is made on a cache that may lag behind the last patch.

### From code to actions

| Code | Action |
|---|---|
| `Reconcile` on a missing object | `ReconcileDeleted` (for a Cluster: the nil dereference, which controller-runtime turns into an error) |
| `reconcile`, no ID | `ReconcileAssign`, then `GetCurrent` and `PatchTenant`/`PatchTimeline` or their failure |
| `ensureTenantOnPageserver`, `ensureTimeline` | `ReconcileAttach`/`ReconcileTimeline` send, `PutOK`/`PostOK` and `PutFails`/`PostFails` receive |
| `createBranchResources`, `create*Resources`, `ReconcileSSA` | `ReconcileChild`, `ReconcileChildFails`, once per child in the code's order |
| `updateStatus`, `UpdateSTSBackedStatus`, `PatchStatus` | `GetForStatus` (read, compute, compare), `PatchStatus`, `PatchStatusFails` |
| return values of `reconcile` | `Return`, which arms the timer on an error or a requeue |
| `SetupWithManager` | `Deliver`, `DeliverChild`, `Watched` |
| `PodNotReadyDetail` | an operator with a set of results: the Pod is read, never watched, so any reason may be found |
| `notifyAttach`, `notifySafekeepers` | `NotifyAttach`, `NotifySafekeepers` (find the computes), then for each compute `Refresh`, then `Respond` |
| `RefreshConfiguration`, `RefreshSafekeepersConfiguration`, `GenerateComputeSpec` | `Refresh`, `TenantInfo` or `TenantInfoFails`, `Send` |
| `postComputeSpec` | `Posts`, `Send`; `ConfigureAnswered`, `ConfigureTimesOut`, `LateConfigure` |
| `handleComputeSpec` | `FetchSpec`, `TenantInfo`, `Starts` |
| `ControlPlane.Start` and its end | `Restart`; a caller that hangs up is `Abandoned` |

### Assumptions

- One process is active (the manager is started with `--leader-elect`). A write sent
  by a process that died has landed or is lost before its successor starts.
- A cached read fails only with NotFound.
- The storage controller does not forget tenants or timelines.
- `GenerateNeonID` returns an ID that no version of the object has had, and nobody
  guesses it. A finite set of IDs could run out, so `ReconcileAssign` spends an ID on
  an object that has one already only if enough are left for the edits to come. This
  restricts which stale generations are explored, not what a user can do.
- Users do not change a tenant or timeline ID that is set; they may give one to an
  object that has none.
- In `BranchController` the Project keeps its tenant ID and its cluster once the cache
  has shown them. The Project reconciler does not guarantee that: `TenantStable`, below,
  covers an ID from the moment it is settled, but a Branch may read one before, and
  spec.cluster may be edited at any time; neither queues the Branch.
- 409 from the storage controller means that this timeline of this tenant exists.
- Server-side apply creates a missing object, and is rejected if it would add a second
  controller reference, change an immutable field, or carries no kind.
- The storage controller has one notification of a kind under way for a tenant or
  timeline, repeats it until the answer is 200 (a newer state replaces an older one in
  the repetition), and answers `GetTenantInfo` with its current state.
- Clusters are in the namespace `neon`: the server reads the JWT Secret there, the Cluster
  reconciler writes it where the Cluster is.
- A Branch that is recreated has the timeline it had (its manifest gives
  spec.timelineID), so the generations of a timeline's safekeepers carry over.
- compute_ctl refuses `/configure` until it has a specification, checks tokens with the
  key of the specification it started with, and replaces a specification as a whole.
- Left out: messages, times and the Progressing condition (the negation of Available);
  malformed requests; the settings all specifications share; metrics, logging, probes.

## 3. The runs

`tlc -config X.cfg M` for each line of `runs` in `PROJECT.json`.

| Run | Instance | Shows |
|---|---|---|
| `ProjectSafety` | 3 edits, 1 fault, 2 clusters, 3 IDs, symmetry | `TypeOK`, `QuiescentConverged`, `StatusOfThisObject`, `NoUnrecordedTenant`, `ImplementsIdentity` |
| `ProjectLiveness` | 2 edits, 1 fault | `Settles`, under fairness |
| `BranchLifecycle` | 3 edits, no fault, 2 PostgreSQL versions, ConfigMap and Deployment, symmetry | `QuiescentConverged`, `StatusOfThisObject`, `ImplementsIdentity` |
| `BranchFaults` | 1 edit, 1 fault, Project and Cluster arrive late, three children | `TypeOK`, `QuiescentConverged`, `ComputeAfterTimeline` and, under fairness, `SettlesOrWedged` |
| `ClusterLifecycle` | 3 edits, Secret, Deployment, Service | `TypeOK`, `QuiescentConverged`, `KeyWriteOnce` |
| `PageserverFaults` | 2 edits, 1 fault, parent and credentials arrive late | `QuiescentConverged` |
| `SafekeeperLiveness` | 2 edits, no fault, 2 storage sizes | `SettlesOrRejected`, under fairness |
| `ControlPlaneNotify` | 2 computes of a tenant that moves once, 2 safekeeper generations, 1 creation or deletion, 1 fault, symmetry | `TypeOK`, `AttachmentDelivered`, `SafekeepersCurrentOrDefault` |
| `ControlPlaneLiveness` | 1 compute, its tenant moves once and its safekeepers change once, deleted and recreated, the Secret deleted and recreated, 2 faults | `AttachmentDelivered` and, under fairness, `NotificationsSettle` |
| `BranchDeploymentUpdated`, `ControlPlaneSameName`, `ControlPlaneShards` | smallest | violations, below |

Why these bounds: three edits are a creation, a deletion and a recreation, the
shortest sequence in which a call works for an object that is no longer there and a
child has the wrong owner; one fault can hit any single step; three IDs leave a fresh
one for each of three assignments. The bound on versions in `ProjectLiveness` is never
the reason an action is disabled: the number of states is the same with a larger one.
In the control plane two computes are the fewest with a partial failure, one move
separates an old attachment from a new one, two generations an out-of-date list of
safekeepers from the default one, and two changes of the Secret are a key that running
computes do not know. Two computes, recreation, new generations and faults together are
too many states for a temporal property, so `ControlPlaneLiveness` has one compute (with
a second fault) and partial failure is met in `ControlPlaneNotify`.

Fairness is weak and only on what the platform promises to keep doing: watch events
are delivered, timers fire, the worker proceeds, Kubernetes brings workloads up and
collects garbage, and (Branch, Pageserver, Safekeeper) the objects read but not watched
appear. For the control plane: a handler proceeds, the storage controller repeats what
was not answered 200, and a Pod without a specification asks again. Users, faults,
restarts and late requests owe nothing. Deadlock is not
checked: a reconciler that has done its work is supposed to stop, and
`QuiescentConverged` says when it may.

`QuiescentConverged` is the central property. It speaks about the state in which
nothing would make the reconciler run again and says that the work is then done. It
fails if any error path forgets to return the error, any watch is missing, or a status
is computed from another object than the one attached. What it leaves out on purpose:
the JWT Secret of a Cluster, and the image a Pageserver or Safekeeper takes from its
Cluster, which are not watched; a changed image reaches the StatefulSet only with the
next event of the Pageserver.

`AttachmentDelivered` is the central property of the control plane. It speaks about the
computes the handler did *not* see: one that is created while a notification is served
is not in the cached list, so it must have asked for its specification later than the
storage controller moved. That holds because a starting compute finds its own Deployment
in the same cache before it asks where the tenant is.

### Where the code and its documentation disagree

Three runs are expected to find a violation; `findings` quotes the lines.

- `BranchDeploymentUpdated`: a timeline ID is generated twice when the cache is behind the
  first patch; a Deployment made for the first ID has an immutable selector, and every
  later apply is rejected.
- `ControlPlaneSameName`: computes are looked up by compute_id in all namespaces, so with
  two Branches of one name a compute is configured with the other's tenant and timeline.
- `ControlPlaneShards`: every shard gets number 0, so a tenant with two shards has one
  entry.

### What the models show besides

These follow from the code and are visible in the models; the properties are stated so
that they hold in spite of them.

- A second generated tenant ID may replace the first (`Assign` of `AssignedIdentity`).
- The observed generation of a condition is that of the object read last, not the one the
  condition is about; the outcome may even be that of an earlier object of the name.
  `StatusOfThisObject` says no more than what the optimistic lock gives (the status was
  computed from a version of the object that carries it); `QuiescentConverged` shows that
  the next reconcile corrects the outcome.
- The JWT Secret is not watched: one that disappears stays away until another event.
- A deleted Cluster panics in `Reconcile` and is retried for ever (`ReconcileDeleted`).
- The Services of a Cluster have no TypeMeta (`Appliable`), so a changed one is never
  repaired; the error is returned and retried.
- `notify-attach`, and the restart of a compute, put the default safekeepers back in place
  of those a `notify-safekeepers` brought: hence "or default" in
  `SafekeepersCurrentOrDefault`.
- A POST of `notify-safekeepers` made from an earlier answer of `GetTenantInfo`, or one
  that outlives its request, can take a compute back to an earlier attachment: hence
  `seen` in `AttachmentDelivered`.
- A recreated Branch whose compute finds the Deployment of the deleted one in the cache
  may miss a move; `AttachmentDelivered` is about computes that found their own.
- The answer 404 of `notifyAttach` is never reached: no Deployment is an error before it.
  A tenant without a compute is answered 500 for as long as there is none.
- A replaced JWT key locks the operator out of running computes until they restart. This,
  a missing compute and a missing Secret are `Unreachable`, the exception in
  `NotificationsSettle`: the code does not recover from them by itself.

### Mutants

Every property of a passing run is paired with a change of the model that a plausible
bug would make (a dropped lock, a status error that is only logged, a missing `Owns`, a
decision on a condition instead of the spec, ...), under which TLC finds it violated.
They are the definitions marked *Mutant* in the modules.

## 4. The proofs

For any sets of clusters, IDs, children, images, computes and tenants and any bounds:

| Module | Theorem | Statement |
|---|---|---|
| `ProjectController_proofs` | `TypeCorrect` | `Spec => []TypeOK` |
| | `StatusCorrect` | `Spec => []StatusOfThisObject` |
| | `TenantsRecorded` | `Spec => []NoUnrecordedTenant` |
| | `TenantStable` | `Spec => TenantSettles` |
| | `NoLostWakeup` | `Spec => []QuiescentConverged` |
| `ProjectIdentity_proofs` | `IdentityRefined` | `Spec => ImplementsIdentity` |
| `BranchController_proofs` | `TypeCorrect` | `Spec => []TypeOK` |
| | `HistoryCorrect` | `Spec => []HistoryInv` |
| | `StatusCorrect` | `Spec => []StatusOfThisObject` |
| | `TimelineBeforeCompute` | `Spec => []ComputeAfterTimeline` |
| | `NoLostWakeup` | `Spec => []QuiescentConverged` |
| `BranchIdentity_proofs` | `IdentityRefined` | `Spec => ImplementsIdentity` |
| `WorkloadController_proofs` | `TypeCorrect` | `Spec => []TypeOK` |
| | `KeyKept` | `Spec => KeyWriteOnce` |
| | `NoLostWakeup` | `Spec => []QuiescentConverged` |
| `ControlPlane_proofs` | `TypeCorrect` | `Spec => []TypeOK` |
| `ControlPlaneNotify_proofs` | `SafekeepersDelivered` | `Spec => []SafekeepersCurrentOrDefault` |
| | `AttachmentsDelivered` | `DistinctIDs /\ Spec => []AttachmentDelivered` |

The strengthened invariants named below are definitions of the proof modules (those of
`TypeCorrect`, and `OwnSpecs`, for the control plane are in `ControlPlane` itself).
Each was model-checked on the instances of section 3 before it was proved. Except in the
Project's module, a proof does not expand the actions for every conjunct: lemmas named
`...Moves` say once what a step can do to a variable or to a handler, and the invariants
are proved from them.

### The Project reconciler

From the assumptions `NoID \notin IDs` and natural bounds. The argument:

1. `TypeOK` is inductive. It includes the order `rv, cur <= seen <= Len(log)`, so
   appending a version never changes what the worker or the cache refers to, and the
   fact that a PUT is only under way for a version with an ID.
2. `LogInv` adds `UidMonotone` and `TenantKept` (an object that has an ID never loses
   it) and `StatusOfThisObject`. The last is inductive only with the optimistic lock:
   the version the status was computed from, whose uid it records, is the stored one.
3. `NoUnrecordedTenant` is inductive relative to these, because the log only grows and a
   request is made from a version of it.
4. `TenantSettles`: in a settled state every version the cache can still deliver has
   this uid and, by `TenantKept` and `UidMonotone`, an ID, so `ReconcileAssign` is
   disabled; and no patch is under way.
5. `QuiescentConverged` is not inductive: it says nothing while a call runs.
   `WorksOnCached` is the strengthening: as long as no event has queued the key again,
   the version being attached is the cached one, and a successful outcome means its
   tenant has a location. A call that ends without arming the timer therefore leaves
   the cached version converged, and every later change of the object is an event.

6. `ImplementsIdentity`: a step that leaves the log alone is a stutter, `Register` or
   `Settle`; a step that writes is `Create`, `Delete`, `Assign`, or keeps the ID. A
   settled ID is kept by 4, and only recorded IDs are registered by 3.

### The Branch reconciler

From `NoIDAssumption`, `KindsAssumption` (the children are distinct and one of them is
the Deployment) and natural bounds. `TypeOK` is inductive. Then:

1. `HistoryInv`, on top of `TypeOK`: versions are in the order they were stored and an
   object that has a timeline ID keeps having one (`VersionsInv`); each status was
   computed from the Branch that carries it (`HonestInv`, which is `StatusOfThisObject`); every timeline ID that a
   version or a request has is recorded (`RecordedInv`). `HonestInv` is inductive only
   with `LockInv`: while the lock of a status patch holds, the version it was computed
   from is the stored one.
2. `ComputeAfterTimeline` needs `TimelineInv`: a call that has got to the children, or
   past them without an error, works with IDs that the storage controller has confirmed.
   Timelines are never forgotten, so a Deployment written on the strength of that
   answer, however late, has its timeline.
3. `QuiescentConverged` needs `WakeupInv`, which says what a call in progress has done so
   far. While no event has queued the key again, the call works on the cached version
   (`CallInv`); each child it has passed is as the object asks for, or a change of it is
   still to be delivered (`PassInv`); and when it has returned without arming the timer,
   the cached object has its timeline, all its children, and its status or a later
   version on its way (`RestInv`). At rest nothing is on its way, so the cache is the
   API server's state.
4. `ImplementsIdentity`, as for the Project: a step that writes the object is `Create`,
   `Delete`, `Assign` or keeps the ID; `RecordedInv` gives `Register`, and in a settled
   state every version the cache can still show has an ID, so none is generated.

### The Cluster, Pageserver and Safekeeper reconcilers

From `KindAssumption`, `ContentsAssumption`, `ChildrenAssumption` (the children are some
of the kind's, in the code's order) and natural bounds, for all three kinds at once. The
invariants are the analogues of the Branch's, without the timeline. What differs:

- `KeyWriteOnce`. `reconcileJWTKeys` decides on a cached read that may be stale; it only
  ever creates the Secret, never applies it, and a create of an existing object fails
  (`SecretOnlyCreated`).
- The JWT Secret is not watched, so `PassInv` and `RestInv` are about `Watched` children.
- A failed child ends the loop and the call still writes a status; `PassInv` is about
  calls without such an error (`Succeeding`), `Return` arms the timer for the others.
- What a Pod says of itself may differ at every read, so the status is a set of possible
  values and at rest it is one of them.

### The control plane

From `ComputesAssumption`, `AttachmentsAssumption` and `BoundsAssumption`. `TypeOK` says
what may be posted, so it is inductive only with what a handler has in hand at each point
(`RequestsInFlight`) and with the fact that a handler never works with an attachment or a
generation newer than the storage controller's (`NotAhead`), without which an
acknowledgement could be ahead of what was announced.

If compute IDs are unique (`DistinctIDs`), every specification that is running, under way
or late was made for the compute it is for (`OwnSpecs`, a lemma). `ControlPlaneSameName`
shows that nothing in the code makes IDs unique across namespaces, so this is a
hypothesis of the theorem that needs it and not a result.

The two theorems about notifications need to know what holds of the computes a handler is
done with while it is at the others, and everything else goes on:

1. `TurnsInv`: a compute asks for its specification only while it is down; what is
   acknowledged is not notified again; a handler's computes are its tenant's or its
   timeline's; only `notify-safekeepers` names a generation; a POST outlives its request
   only after a failure.
2. `SafekeepersCurrentOrDefault` follows from `GenInv`, the same statement from the
   moment the current generation's handler is done with the compute (`GenTold`).
3. `FoundInv`: a specification is made from a Deployment the cache has, or had, when it
   was made. So nothing that is running, under way or late can name a Deployment that
   the cache has never shown (`NothingNamesIt`). This is why a compute that the handler
   did not see is no exception: its specification, once it names its own Deployment, is
   newer than the handler's list.
4. `SeenInv`: no compute is given an attachment that its tenant has not had. It needs
   `OwnSpecs`, hence `DistinctIDs`: `GetTenantInfo` is asked about the tenant of the
   Deployment found.
5. `DeliveryInv`: once the current attachment's handler is done with a compute (`Told`),
   either the compute is `Fresh` (it runs, or is about to start, with that attachment)
   or the situation is `Clean` (whatever names its present Deployment names that
   attachment). Neither alone is inductive: a compute that was not in the cache may
   still be running with an older attachment of an earlier Deployment, and one that has
   been served may still be sent an older POST.

### Only model-checked

Liveness under fairness, which is out of the prover's reach: `Settles`,
`SettlesOrWedged`, `SettlesOrRejected`, `NotificationsSettle`. And the three violations,
which are statements about an instance.

## 5. Not modelled

- The cryptography and the encoding of keys in `utils/jwtmanager.go`, and `VerifyToken`,
  which nothing calls.
- Names built from `spec.id`: two Pageservers with one id, or one whose id changes (the
  children of the old name are left behind).
- `DeepDerivative`'s treatment of empty fields: drift is inequality of the modelled
  contents. `resource.MustParse` of a size that is no quantity.
- Malformed HTTP requests, health checks, the settings that are the same in every compute
  specification.
- Flags and TLS of the manager, CRD validation, generated code, manifests, test fakes.

## 6. Plan

1. Composition of Project and Branch, so that the Project's tenant is no longer an
   assumption of the Branch. `TenantStable` is only part of what that takes: a Branch may
   read an ID before it is settled, and nothing queues it when the Project changes.
2. Two objects that claim one child name (names built from `spec.id`).
3. `DeepDerivative` as a pure operator, checked against its reference.
4. The status of the Cluster, Pageserver and Safekeeper: the analogue of
   `StatusOfThisObject` with its proof.
