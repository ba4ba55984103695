-------------------------- MODULE ProjectController --------------------------
(***************************************************************************)
(* The Project reconciler (internal/controller/project_controller.go) with *)
(* the Kubernetes API server, its informer cache, its work queue and the   *)
(* storage controller it calls, for one Project name.                      *)
(*                                                                         *)
(* - The API server keeps the history of the object as the sequence log;   *)
(*   the position of a version is its resourceVersion.  A deleted object   *)
(*   is a version with exists = FALSE, a recreated one has a new uid.      *)
(* - The reconciler's client reads from an informer cache: log[seen].      *)
(*   The cache lags behind the log and never goes back.                    *)
(* - The worker runs one Reconcile call at a time; the steps of a call are *)
(*   separated where it waits for the API server or the storage controller.*)
(*   Between two steps everything else may happen.                         *)
(*                                                                         *)
(* Abstractions.  Messages and times in conditions are left out, and so is *)
(* the Progressing condition (always the negation of Available).  Delays   *)
(* (RequeueAfter, rate-limited retries, HTTP timeouts) are armed timers or *)
(* outcomes that may come at any time.  One operator process is active at  *)
(* a time (leader election), and a write sent by a process that died has   *)
(* landed, or is lost, when its successor starts.                          *)
(***************************************************************************)
EXTENDS Integers, Sequences, FiniteSets

CONSTANTS
    Clusters,     \* names of clusters (spec.cluster)
    IDs,          \* tenant IDs
    NoID,         \* the empty spec.tenantId
    MaxEdits,     \* bound: edits by users
    MaxFaults,    \* bound: failed calls, rejected requests and restarts
    MaxVersions   \* bound: versions of the object; never reached by the model,
                  \* which the liveness property shows

ASSUME NoIDAssumption == NoID \notin IDs
ASSUME BoundsAssumption ==
    MaxEdits \in Nat /\ MaxFaults \in Nat /\ MaxVersions \in Nat

VARIABLES
    log,       \* API server: every version of the object
    seen,      \* informer cache: the resourceVersion it holds
    queued,    \* work queue: the key is waiting (or dirty while being worked on)
    timer,     \* work queue: the key is in the delaying queue
    pc,        \* worker: where the current Reconcile call is
    rv,        \* worker: the version whose tenant the call attaches (project)
    cur,       \* worker: the version PatchStatus read (current)
    newID,     \* worker: the ID just generated
    outcome,   \* worker: projectStatusInputs
    attached,  \* storage controller: tenants with a location, per cluster
    late,      \* requests the worker gave up on that may still be served
    edits, faults

apiVars    == <<log, seen>>
queueVars  == <<queued, timer>>
workerVars == <<pc, rv, cur, newID, outcome>>
scVars     == <<attached, late>>
vars == <<log, seen, queued, timer, pc, rv, cur, newID, outcome, attached,
          late, edits, faults>>

-----------------------------------------------------------------------------
(* The stored object. *)

Reasons  == {"AsExpected", "TenantIDPending", "AttachFailed",
             "StorageControllerUnreachable"}
Outcomes == {"ok", "TenantIDErr", "AttachFailed", "StorageControllerUnreachable"}

\* status.observedGeneration and the conditions TenantIDAssigned, Attached (by
\* its reason; True is AsExpected, "Unset" before the first update), Available.  of
\* is history: the uid of the object PatchStatus computed the status from.
Status == [of : Nat, obsGen : Nat, assigned : BOOLEAN,
           attached : Reasons \union {"Unset"}, available : BOOLEAN]
NoStatus == [of |-> 0, obsGen |-> 0, assigned |-> FALSE, attached |-> "Unset",
             available |-> FALSE]

Version == [exists : BOOLEAN, uid : Nat, gen : Nat, cluster : Clusters,
            tenant : IDs \union {NoID}, status : Status]

Location == [cluster : Clusters, tenant : IDs]

Latest == log[Len(log)]

\* The API server stores a new version; MaxVersions is the model's bound.
Store(v) == Len(log) < MaxVersions /\ log' = Append(log, v)

\* The PUT .../v1/tenant/{id}/location_config of version v.
Request(v) == [cluster |-> v.cluster, tenant |-> v.tenant]

Init ==
    /\ \E c \in Clusters :
         log = << [exists |-> FALSE, uid |-> 0, gen |-> 0, cluster |-> c,
                   tenant |-> NoID, status |-> NoStatus] >>
    /\ seen = 1 /\ queued = FALSE /\ timer = FALSE
    /\ pc = "idle" /\ rv = 1 /\ cur = 1 /\ newID = NoID /\ outcome = "ok"
    /\ attached = {} /\ late = {}
    /\ edits = 0 /\ faults = 0

-----------------------------------------------------------------------------
(* Users. A delete removes the object at once: the operator sets no       *)
(* finalizer. Nobody guesses an ID that was just generated (t # newID).    *)

Edit == edits < MaxEdits /\ edits' = edits + 1
        /\ UNCHANGED <<seen, queueVars, workerVars, scVars, faults>>

Create(c, t) ==
    /\ ~Latest.exists /\ (t = NoID \/ t # newID)
    /\ Store([exists |-> TRUE, uid |-> Latest.uid + 1, gen |-> 1,
              cluster |-> c, tenant |-> t, status |-> NoStatus])
    /\ Edit

\* A change of spec.cluster; the API server increments the generation.
SetCluster(c) ==
    /\ Latest.exists /\ Latest.cluster # c
    /\ Store([Latest EXCEPT !.cluster = c, !.gen = @ + 1])
    /\ Edit

\* A tenant ID specified after the object was created without one.  Users are
\* assumed not to change an ID that is set.
SpecifyTenant(t) ==
    /\ Latest.exists /\ Latest.tenant = NoID /\ t # newID
    /\ Store([Latest EXCEPT !.tenant = t, !.gen = @ + 1])
    /\ Edit

\* A change of metadata only.
Touch == Latest.exists /\ Store(Latest) /\ Edit

Delete == Latest.exists /\ Store([Latest EXCEPT !.exists = FALSE]) /\ Edit

User ==
    \/ \E c \in Clusters, t \in IDs \union {NoID} : Create(c, t)
    \/ \E c \in Clusters : SetCluster(c)
    \/ \E t \in IDs : SpecifyTenant(t)
    \/ Touch
    \/ Delete

-----------------------------------------------------------------------------
(* Informer cache and work queue. *)

\* The next watch event reaches the cache and its handler queues the key:
\* For(&Project{}) with no predicate, so status updates and deletions too.
Deliver ==
    /\ seen < Len(log)
    /\ seen' = seen + 1
    /\ queued' = TRUE
    /\ UNCHANGED <<log, timer, workerVars, scVars, edits, faults>>

\* RequeueAfter, or the back-off after an error, has passed.
TimerFires ==
    /\ timer
    /\ timer' = FALSE
    /\ queued' = TRUE
    /\ UNCHANGED <<apiVars, workerVars, scVars, edits, faults>>

\* A fault happens; MaxFaults is the model's bound.
Fault == faults < MaxFaults /\ faults' = faults + 1

-----------------------------------------------------------------------------
(* The worker: Reconcile and what it calls. *)

Dequeue == pc = "idle" /\ queued /\ queued' = FALSE

\* getProject finds nothing in the cache: the call returns.
ReconcileDeleted ==
    /\ Dequeue
    /\ ~log[seen].exists
    /\ UNCHANGED <<apiVars, timer, workerVars, scVars, edits, faults>>

\* IDs no version has had: what GenerateNeonID may return.
FreshIDs == IDs \ {log[i].tenant : i \in 1..Len(log)}

\* Mutant: the decision is made on the TenantIDAssigned condition.
ReconcileAssignByCondition ==
    /\ Dequeue
    /\ log[seen].exists /\ ~log[seen].status.assigned
    /\ newID' \in FreshIDs
    /\ pc' = "assign"
    /\ UNCHANGED <<apiVars, timer, rv, cur, outcome, scVars, edits, faults>>

\* No tenant ID in the version read: reconcile generates one.  The model keeps
\* an ID for every edit still to come, and spends only the others on projects
\* that have one already (the cache is behind).
ReconcileAssign ==
    /\ Dequeue
    /\ log[seen].exists /\ log[seen].tenant = NoID
    /\ Latest.tenant = NoID \/ Cardinality(FreshIDs) > MaxEdits - edits
    /\ newID' \in FreshIDs
    /\ pc' = "assign"
    /\ UNCHANGED <<apiVars, timer, rv, cur, outcome, scVars, edits, faults>>

\* Mutant: no check that there is an ID.
ReconcileAttachAny ==
    /\ Dequeue
    /\ log[seen].exists
    /\ rv' = seen
    /\ pc' = "put"
    /\ UNCHANGED <<apiVars, timer, cur, newID, outcome, scVars, edits, faults>>

\* A tenant ID in the version read: ensureTenantOnPageserver sends the PUT.
ReconcileAttach ==
    /\ Dequeue
    /\ log[seen].exists /\ log[seen].tenant # NoID
    /\ rv' = seen
    /\ pc' = "put"
    /\ UNCHANGED <<apiVars, timer, cur, newID, outcome, scVars, edits, faults>>

\* updateTenantID failed: on to updateStatus with TenantIDErr.
AssignFailed == pc' = "status" /\ outcome' = "TenantIDErr" /\ newID' = NoID
                /\ UNCHANGED <<timer, rv, cur>>

\* Mutant: the tenant is attached before its ID is recorded.
GetCurrentAfterAttach ==
    /\ pc = "assign" /\ log[seen].exists
    /\ pc' = "patch"
    /\ attached' = attached \union {[cluster |-> log[seen].cluster, tenant |-> newID]}
    /\ UNCHANGED <<apiVars, queueVars, rv, cur, newID, outcome, late, edits, faults>>

\* updateTenantID reads the object again, from the cache.
GetCurrent ==
    /\ pc = "assign"
    /\ \/ /\ log[seen].exists
          /\ pc' = "patch"
          /\ UNCHANGED <<timer, rv, cur, newID, outcome>>
       \/ /\ ~log[seen].exists
          /\ AssignFailed
    /\ UNCHANGED <<apiVars, queued, scVars, edits, faults>>

\* The merge patch of spec.tenantId, which carries no resourceVersion and no
\* uid: it applies to whatever object has the name now.
TenantPatched == [Latest EXCEPT !.tenant = newID, !.gen = @ + 1]

\* updateTenantID patches the object and the answer arrives: requeue in a second.
PatchTenant ==
    /\ pc = "patch"
    /\ Latest.exists
    /\ Store(TenantPatched)
    /\ pc' = "idle" /\ timer' = TRUE /\ newID' = NoID
    /\ UNCHANGED <<seen, queued, rv, cur, outcome, scVars, edits, faults>>

\* The patch fails: the object is gone, the API server fails before storing it,
\* or it is stored and the answer is lost.
PatchTenantFails ==
    /\ pc = "patch"
    /\ \/ ~Latest.exists /\ UNCHANGED <<log, faults>>
       \/ Fault /\ UNCHANGED log
       \/ Fault /\ Latest.exists /\ Store(TenantPatched)
    /\ AssignFailed
    /\ UNCHANGED <<seen, queued, scVars, edits>>

PutResult(o) == pc' = "status" /\ outcome' = o
                /\ UNCHANGED <<apiVars, queueVars, rv, cur, newID, edits>>

\* 2xx: the tenant has a location.
PutOK ==
    /\ pc = "put"
    /\ attached' = attached \union {Request(log[rv])}
    /\ PutResult("ok")
    /\ UNCHANGED <<late, faults>>

\* Another status, no answer within 30 seconds, or a connection that fails;
\* isConnectionError tells the reasons apart.  The request had no effect, or was
\* served all the same, or may still be served later.
PutFails(reason) ==
    /\ pc = "put"
    /\ Fault
    /\ PutResult(reason)
    /\ \/ UNCHANGED scVars
       \/ attached' = attached \union {Request(log[rv])} /\ UNCHANGED late
       \/ late' = late \union {Request(log[rv])} /\ UNCHANGED attached

\* The storage controller serves a request nobody waits for any more.
LatePut ==
    \E r \in late :
      /\ late' = late \ {r}
      /\ attached' = attached \union {r}
      /\ UNCHANGED <<apiVars, queueVars, workerVars, edits, faults>>

\* What updateStatus makes of version p.
ProjectStatus(p, in) ==
    [of        |-> p.uid,
     obsGen    |-> p.gen,
     assigned  |-> in # "TenantIDErr" /\ p.tenant # NoID,
     attached  |-> CASE in = "TenantIDErr" -> "TenantIDPending"
                     [] in \in {"AttachFailed", "StorageControllerUnreachable"} -> in
                     [] in = "ok" /\ p.tenant = NoID -> "TenantIDPending"
                     [] OTHER -> "AsExpected",
     available |-> in = "ok" /\ p.tenant # NoID]

\* Mutant: a failed status update is only logged.
ReturnIgnoringStatusErr(statusErr) ==
    /\ pc' = "idle" /\ rv' = 1 /\ cur' = 1 /\ outcome' = "ok"
    /\ timer' = (timer \/ outcome # "ok")
    /\ UNCHANGED <<seen, queued, newID, scVars, edits>>

\* Reconcile returns.  An error (TenantIDErr, or a failed status update) is
\* retried with back-off, a failed attach after 10 seconds; anything else is not.
Return(statusErr) ==
    /\ pc' = "idle" /\ rv' = 1 /\ cur' = 1 /\ outcome' = "ok"
    /\ timer' = (timer \/ statusErr \/ outcome # "ok")
    /\ UNCHANGED <<seen, queued, newID, scVars, edits>>

\* Mutant: the status is patched even if it is unchanged.
GetForStatusAlways ==
    /\ pc = "status"
    /\ \/ /\ ~log[seen].exists
          /\ Return(TRUE)
       \/ /\ log[seen].exists
          /\ cur' = seen
          /\ pc' = "patchStatus"
          /\ UNCHANGED <<seen, queueVars, rv, newID, outcome, scVars, edits>>
    /\ UNCHANGED <<log, faults>>

\* PatchStatus reads the object again, from the cache; it returns when the
\* object is gone (an error) or when its status is already the wanted one.
GetForStatus ==
    /\ pc = "status"
    /\ \/ /\ ~log[seen].exists
          /\ Return(TRUE)
       \/ /\ log[seen].exists
          /\ log[seen].status = ProjectStatus(log[seen], outcome)
          /\ Return(FALSE)
       \/ /\ log[seen].exists
          /\ log[seen].status # ProjectStatus(log[seen], outcome)
          /\ cur' = seen
          /\ pc' = "patchStatus"
          /\ UNCHANGED <<seen, queueVars, rv, newID, outcome, scVars, edits>>
    /\ UNCHANGED <<log, faults>>

\* The version a status patch makes of the stored one.
StatusPatched == [Latest EXCEPT !.status = ProjectStatus(log[cur], outcome)]

\* Mutant: no optimistic lock.
StatusPatchUnlocked == Latest.exists

\* The patch carries the resourceVersion of the version read (optimistic lock).
StatusPatchApplies == Latest.exists /\ cur = Len(log)

PatchStatus ==
    /\ pc = "patchStatus"
    /\ StatusPatchApplies
    /\ Store(StatusPatched)
    /\ Return(FALSE)
    /\ UNCHANGED faults

\* NotFound or Conflict, a failing API server, or a lost answer.
PatchStatusFails ==
    /\ pc = "patchStatus"
    /\ \/ ~StatusPatchApplies /\ UNCHANGED <<log, faults>>
       \/ Fault /\ UNCHANGED log
       \/ Fault /\ StatusPatchApplies /\ Store(StatusPatched)
    /\ Return(TRUE)

\* The process dies and another one starts: the work in hand, the queue and the
\* timers are gone; the new cache lists the object, no older than the old cache
\* had it, and queues it if it exists.
Restart ==
    /\ Fault
    /\ seen' \in seen..Len(log)
    /\ queued' = log[seen'].exists
    /\ timer' = FALSE
    /\ pc' = "idle" /\ rv' = 1 /\ cur' = 1 /\ newID' = NoID /\ outcome' = "ok"
    /\ late' = IF pc = "put" THEN late \union {Request(log[rv])} ELSE late
    /\ UNCHANGED <<log, attached, edits>>

Worker ==
    \/ ReconcileDeleted \/ ReconcileAssign \/ ReconcileAttach
    \/ GetCurrent \/ PatchTenant \/ PatchTenantFails
    \/ PutOK
    \/ \E o \in {"AttachFailed", "StorageControllerUnreachable"} : PutFails(o)
    \/ GetForStatus \/ PatchStatus \/ PatchStatusFails

Next == User \/ Deliver \/ TimerFires \/ Worker \/ LatePut \/ Restart

Spec == Init /\ [][Next]_vars

\* The watch, the delaying queue and the worker keep going; users, faults,
\* restarts and late requests owe nothing.
FairSpec == Spec /\ WF_vars(Deliver) /\ WF_vars(TimerFires) /\ WF_vars(Worker)

-----------------------------------------------------------------------------
(* Properties. *)

\* Every variable has its type; the worker's copies are no newer than the cache,
\* and the cache no newer than the log.
TypeOK ==
    /\ log \in Seq(Version) /\ Len(log) \in Nat \ {0}
    /\ seen \in 1..Len(log) /\ rv \in 1..seen /\ cur \in 1..seen
    /\ queued \in BOOLEAN /\ timer \in BOOLEAN
    /\ pc \in {"idle", "assign", "patch", "put", "status", "patchStatus"}
    /\ newID \in IDs \union {NoID} /\ outcome \in Outcomes
    /\ pc \in {"assign", "patch"} => newID # NoID
    /\ pc = "put" => log[rv].exists /\ log[rv].tenant # NoID
    /\ attached \subseteq Location /\ late \subseteq Location
    /\ edits \in Nat /\ faults \in Nat

\* Version v is what the reconciler works for: its tenant has a location and its
\* status says so, for its generation.
Converged(v) == v.tenant # NoID /\ Request(v) \in attached
                /\ v.status = ProjectStatus(v, "ok")

\* Nothing is left that would make the reconciler run again.
Quiescent == pc = "idle" /\ ~queued /\ ~timer /\ seen = Len(log)

\* No lost wakeup: whatever was edited, failed, or restarted, and in which order,
\* the reconciler comes to rest only on an object that is attached and Available
\* at its current generation (reconcile's requeues, PatchStatus's error).
QuiescentConverged == Quiescent /\ Latest.exists => Converged(Latest)

\* A status was computed from a version of the very object that carries it, and
\* neither observes a generation nor claims a tenant ID that object has not reached,
\* although it may be deleted and recreated between PatchStatus's read and patch.
\* (The outcome that goes into it is that of the call, which may have begun with an
\* earlier object; QuiescentConverged says that this does not last.)
StatusOfThisObject ==
    \A i \in 1..Len(log) :
      LET v == log[i] IN
      /\ v.status = NoStatus \/ v.status.of = v.uid
      /\ v.status.obsGen <= v.gen
      /\ v.status.assigned \/ v.status.available => v.tenant # NoID

\* Write-ahead: the storage controller never holds, or will later be given, a
\* tenant that no version of the Project recorded, even if the patch that records
\* it fails, its answer is lost, or the process dies (updateTenantID before PUT).
NoUnrecordedTenant ==
    \A r \in attached \union late :
      \E i \in 1..Len(log) : log[i].exists /\ Request(log[i]) = r

\* The cache has shown this object with a tenant ID, and no assignment is on its
\* way.
Settled ==
    /\ Latest.exists /\ log[seen].uid = Latest.uid /\ log[seen].tenant # NoID
    /\ pc \notin {"assign", "patch"}

\* Once settled, always settled: from then on the operator never changes the
\* tenant ID of that object, through any number of stale reads and restarts.
TenantSettles ==
    [][Settled /\ Latest'.uid = Latest.uid =>
         Latest'.tenant = Latest.tenant /\ (Latest'.exists => Settled')]_vars

\* The tenant ID as the abstract specification sees it.
RecordedIDs   == {log[i].tenant : i \in 1..Len(log)} \ {NoID}
RegisteredIDs == {r.tenant : r \in attached \union late}

Identity == INSTANCE AssignedIdentity WITH
    exists     <- Latest.exists,
    uid        <- Latest.uid,
    id         <- Latest.tenant,
    settled    <- Settled,
    recorded   <- RecordedIDs,
    registered <- RegisteredIDs

\* The reconciler keeps the promise of AssignedIdentity: the tenant ID of an object
\* changes only until the cache has shown one and no patch is under way, and only
\* recorded IDs reach the storage controller (updateTenantID before PUT).
ImplementsIdentity == Identity!Spec

\* When users and faults have stopped, the reconciler comes to rest, in spite of
\* the events its own status patches cause (PatchStatus's DeepEqual), and the
\* Project, if there is one, is Available.
Settles == <>[](Quiescent /\ (Latest.exists => Converged(Latest)))

\* The invariants behind the properties above, for their proofs.
\* uids only grow, and an object that has a tenant ID never loses it: the patches
\* set the ID or leave it alone, and nothing but a recreation clears it.
UidMonotone ==
    \A i, j \in 1..Len(log) : i <= j => log[i].uid <= log[j].uid
TenantKept ==
    \A i, j \in 1..Len(log) :
      i <= j /\ log[i].uid = log[j].uid /\ log[i].tenant # NoID
        => log[j].tenant # NoID

\* A call that no event has overtaken works on what the cache holds now: while
\* the key is not queued again, the version attached is the one whose status is
\* computed.
WorksOnCached ==
    /\ ~queued /\ pc = "put" => rv = seen
    /\ ~queued /\ pc \in {"status", "patchStatus"} /\ outcome = "ok" =>
         log[seen].tenant # NoID /\ Request(log[seen]) \in attached

=============================================================================
