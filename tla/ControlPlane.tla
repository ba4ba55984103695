----------------------------- MODULE ControlPlane -----------------------------
(***************************************************************************)
(* The operator's HTTP server (internal/controlplane, specs/compute/spec.go*)
(* and utils/jwtmanager.go).  The storage controller tells it where a      *)
(* tenant's shards are (/notify-attach) and which safekeepers a timeline   *)
(* has (/notify-safekeepers), and it posts a new specification to every    *)
(* compute concerned; a compute that starts asks it for its specification. *)
(* net/http runs each request in a goroutine of its own.                   *)
(*                                                                         *)
(* The life of a compute's objects is a counter, stored[c], that the API   *)
(* server advances and the cache (cached[c]) follows: no Deployment; a     *)
(* Deployment without its admin Service; both; a Deployment whose Branch   *)
(* is deleted; none again.  The Secret with the JWT key is a counter too:  *)
(* it is there when odd.  It is the Secret as the cache has it: nothing    *)
(* else here reads it, computes get the key in their specification.        *)
(*                                                                         *)
(* A Branch that is created again has the timeline it had: its manifest    *)
(* gives spec.timelineID.  Clusters are in the namespace neon, where the   *)
(* server looks for their Secrets.                                         *)
(*                                                                         *)
(* The storage controller is external: it has one notification of a kind   *)
(* under way per tenant or timeline, repeats it until the answer is 200,   *)
(* and answers GetTenantInfo with its current state.  So is compute_ctl: it*)
(* serves /configure once it has a specification, checks tokens with the   *)
(* key it got when it started, and replaces its specification as a whole.  *)
(*                                                                         *)
(* Left out: malformed request bodies, health checks, logging, the settings*)
(* that are the same in every specification.                               *)
(***************************************************************************)
EXTENDS Integers, Sequences, FiniteSetsExt, Functions

CONSTANTS
    Computes,     \* compute Deployments (each of one Branch, with a timeline of its own)
    Tenants,
    TenantOf,     \* label neon.tenant_id
    IDOf,         \* annotation neon.compute_id: the Branch's name
    None,         \* no compute
    Attachments,  \* where a tenant's shards are over time: a sequence of node lists
    MaxGen,       \* bound: changes of a timeline's safekeepers, in all
    MaxEdits,     \* bound: creations and deletions of Branches
    MaxSecrets,   \* bound: deletions and recreations of the JWT Secret
    MaxFaults     \* bound: failed calls, crashes and restarts

ASSUME ComputesAssumption ==
    /\ None \notin Computes
    /\ TenantOf \in [Computes -> Tenants] /\ DOMAIN IDOf = Computes
ASSUME AttachmentsAssumption ==
    /\ Len(Attachments) \in Nat \ {0}
    /\ \A i \in 1..Len(Attachments) : Len(Attachments[i]) > 0
ASSUME BoundsAssumption ==
    MaxGen \in Nat /\ MaxEdits \in Nat /\ MaxSecrets \in Nat /\ MaxFaults \in Nat

VARIABLES
    stored, cached,   \* the objects of each compute
    secret,           \* the JWT Secret, in the cache
    attached, acked,  \* storage controller: attachment of a tenant, and the last one
                      \* a notification was answered 200 for
    gen, genAcked,    \* the same for the safekeepers of a timeline
    pod,              \* what each compute runs with
    req,              \* the requests the server is working on
    late,             \* POSTs given up on that may still be served
    edits, faults

k8sVars == <<stored, cached, secret, edits>>
scVars  == <<attached, acked, gen, genAcked>>
vars == <<stored, cached, secret, attached, acked, gen, genAcked, pod, req, late, edits, faults>>

-------------------------------------------------------------------------------
(* Objects. *)

HasDeployment(n) == n % 4 # 0
HasService(n)    == n % 4 = 2
HasBranch(n)     == n % 4 \in {1, 2}
HasKey(n)        == n % 2 = 1

\* The Deployment of compute c at a time of its life; recreated, it is another object
\* with the same labels.
Deployment(c, n) == <<c, n \div 4>>

\* ShardIndex of the i-th shard of a list: always number 0; the count is cut to a byte.
ShardIndex(shards, i) == [number |-> 0, count |-> Len(shards) % 256]

\* The shards of a specification, by index: a later shard of the same index replaces an
\* earlier one.
ShardMap(shards) ==
    [k \in {ShardIndex(shards, i) : i \in DOMAIN shards} |->
        shards[Max({i \in DOMAIN shards : ShardIndex(shards, i) = k})]]

\* A specification: the Deployment whose labels it was made from, the attachment whose
\* shards it names (by its number), and the generation of its safekeepers (0: the three
\* default ones, without a generation).
Deployments == Computes \X Nat
Places      == 0..Len(Attachments)
Generations == 0..MaxGen
Keys        == 0..(MaxSecrets + 1)
Specs  == [of : Deployments, at : Places \ {0}, gen : Generations]
NoSpec == [of |-> None, at |-> 0, gen |-> 0]
Shards(spec) == ShardMap(Attachments[spec.at])

\* A compute: up once it has a specification; key is the one it checks tokens with,
\* seen the newest attachment it has been given since it started (a history variable).
Pods == [up : BOOLEAN, spec : Specs \union {NoSpec}, key : Keys, seen : Places]
Down == [up |-> FALSE, spec |-> NoSpec, key |-> 0, seen |-> 0]

\* A request: attach per tenant, safekeepers per timeline, spec per compute.
Requests == ({"attach"} \X Tenants) \union ({"safekeepers", "spec"} \X Computes)
IsSpec(h) == h[1] = "spec"

\* What the handler of a request has in hand: the computes it has still to do, the one
\* it is at, the Deployment found for it, and what the specification will be made of.
Handler == [pc : {"idle", "loop", "info", "sent", "answer"}, todo : SUBSET Computes,
            cur : Computes \union {None}, of : Deployments \union {None},
            at : Places, gen : Generations, key : Keys, failed : BOOLEAN]
Idle == [pc |-> "idle", todo |-> {}, cur |-> None, of |-> None, at |-> 0, gen |-> 0,
         key |-> 0, failed |-> FALSE]

Post == [to : Computes, spec : Specs, key : Keys \ {0}]

ObjectsOK ==
    /\ stored \in [Computes -> Nat] /\ cached \in [Computes -> Nat]
    /\ \A c \in Computes : cached[c] <= stored[c]
    /\ secret \in Keys \ {0} /\ edits \in 0..MaxEdits
StorageOK ==
    /\ attached \in [Tenants -> Places \ {0}] /\ acked \in [Tenants -> Places]
    /\ \A t \in Tenants : acked[t] <= attached[t]
    /\ gen \in [Computes -> Generations] /\ genAcked \in [Computes -> Generations]
    /\ \A c \in Computes : genAcked[c] <= gen[c]
PodsOK ==
    /\ pod \in [Computes -> Pods]
    /\ \A c \in Computes : pod[c].spec.at <= pod[c].seen
TypeOK ==
    /\ ObjectsOK /\ StorageOK /\ PodsOK
    /\ req \in [Requests -> Handler]
    /\ late \in SUBSET Post
    /\ faults \in 0..MaxFaults

\* Some of the computes are there, and run with what the storage controller has.
Init ==
    /\ stored \in [Computes -> {0, 2}] /\ cached = stored
    /\ secret = 1
    /\ attached = [t \in Tenants |-> 1] /\ acked = [t \in Tenants |-> 1]
    /\ gen = [c \in Computes |-> 0] /\ genAcked = gen
    /\ pod = [c \in Computes |->
                 IF stored[c] = 0 THEN Down
                 ELSE [up |-> TRUE, key |-> 1, seen |-> 1,
                       spec |-> [of |-> Deployment(c, 2), at |-> 1, gen |-> 0]]]
    /\ req = [h \in Requests |-> Idle]
    /\ late = {}
    /\ edits = 0 /\ faults = 0

-------------------------------------------------------------------------------
(* The storage controller and Kubernetes. *)

\* The tenant's shards move, or are split.
Move(t) ==
    /\ attached[t] < Len(Attachments)
    /\ attached' = [attached EXCEPT ![t] = @ + 1]
    /\ UNCHANGED <<k8sVars, acked, gen, genAcked, pod, req, late, faults>>

\* A timeline gets other safekeepers.
NewGeneration(c) ==
    /\ gen[c] < MaxGen /\ FoldFunction(+, 0, gen) < MaxGen
    /\ gen' = [gen EXCEPT ![c] = @ + 1]
    /\ UNCHANGED <<k8sVars, attached, acked, genAcked, pod, req, late, faults>>

Advance(c) ==
    /\ stored' = [stored EXCEPT ![c] = @ + 1]
    /\ IF HasDeployment(stored'[c])
         THEN UNCHANGED <<pod, req>>
         ELSE /\ pod' = [pod EXCEPT ![c] = Down]
              /\ req' = [req EXCEPT ![<<"spec", c>>] = Idle]
    /\ UNCHANGED <<cached, secret, scVars, late, faults>>

\* A user creates or deletes a Branch; the Branch reconciler and the garbage
\* collector finish what was begun.
UserStep(c)    == /\ stored[c] % 2 = 0 /\ edits < MaxEdits
                  /\ Advance(c) /\ edits' = edits + 1
ClusterStep(c) == stored[c] % 2 = 1 /\ Advance(c) /\ UNCHANGED edits

CacheFollows(c) ==
    /\ cached[c] < stored[c]
    /\ cached' = [cached EXCEPT ![c] = @ + 1]
    /\ UNCHANGED <<stored, secret, edits, scVars, pod, req, late, faults>>

\* The cache shows that the JWT Secret has disappeared, or a new one that the Cluster
\* reconciler has made.
SecretChanges ==
    /\ secret <= MaxSecrets
    /\ secret' = secret + 1
    /\ UNCHANGED <<stored, cached, edits, scVars, pod, req, late, faults>>

Fault == faults < MaxFaults /\ faults' = faults + 1

\* The compute dies with what it was told; its Pod starts anew.
PodFails(c) ==
    /\ pod[c].up \/ req[<<"spec", c>>].pc # "idle"
    /\ Fault
    /\ pod' = [pod EXCEPT ![c] = Down]
    /\ req' = [req EXCEPT ![<<"spec", c>>] = Idle]
    /\ UNCHANGED <<k8sVars, scVars, late>>

-------------------------------------------------------------------------------
(* Requests. *)

\* Mutant: the list asks for a label that no Deployment carries.
FindNoTimeline(c) == {}

\* The computes of a tenant, and of a timeline, whose Deployments the cache has.
FindTenantDeployments(t) == {c \in Computes : HasDeployment(cached[c]) /\ TenantOf[c] = t}
FindTenantTimelineDeployments(c) == {d \in {c} : HasDeployment(cached[d])}

\* notifyAttach.  A tenant without a Deployment is an error and the request is repeated
\* (the answer 404 in notifyAttach is never reached).
NotifyAttach(t) ==
    /\ req[<<"attach", t>>].pc = "idle"
    /\ acked[t] < attached[t]
    /\ FindTenantDeployments(t) # {}
    /\ req' = [req EXCEPT ![<<"attach", t>>] =
                  [Idle EXCEPT !.pc = "loop", !.todo = FindTenantDeployments(t),
                               !.at = attached[t]]]
    /\ UNCHANGED <<k8sVars, scVars, pod, late, faults>>

\* notifySafekeepers.  A timeline without a Deployment is answered 404, and the request
\* is repeated too.
NotifySafekeepers(c) ==
    /\ req[<<"safekeepers", c>>].pc = "idle"
    /\ genAcked[c] < gen[c]
    /\ FindTenantTimelineDeployments(c) # {}
    /\ req' = [req EXCEPT ![<<"safekeepers", c>>] =
                  [Idle EXCEPT !.pc = "loop", !.todo = FindTenantTimelineDeployments(c),
                               !.gen = gen[c]]]
    /\ UNCHANGED <<k8sVars, scVars, pod, late, faults>>

\* findComputeDeployment: compute_id is looked for in all namespaces.
Matches(c, d) == HasDeployment(cached[d]) /\ IDOf[d] = IDOf[c]

\* The reads of GenerateComputeSpec that precede GetTenantInfo succeed: a Deployment d
\* of c's ID, the Project and the Branch of its labels, the JWT keys.
Generates(c, d) == Matches(c, d) /\ HasBranch(cached[d]) /\ HasKey(secret)

\* Or they fail: there is none, or the one found lacks something.
GenerateFails(c) ==
    \/ \A d \in Computes : ~Matches(c, d)
    \/ \E d \in Computes : Matches(c, d) /\ ~Generates(c, d)

\* postComputeSpec finds the key to sign the token with, and the admin Service.
Posts(c) == HasKey(secret) /\ HasService(cached[c])

\* A notification is done with the compute it is at; if that failed it remembers it
\* (failcount) and goes on.
DoneWith(r) == [r EXCEPT !.pc = "loop", !.todo = @ \ {r.cur}, !.cur = None, !.of = None,
                         !.key = 0]
Failed(r)   == [DoneWith(r) EXCEPT !.failed = TRUE]

\* Mutant: the token is left unsigned.
SendUnsigned(r) == [r EXCEPT !.pc = "sent"]

\* The specification is complete: it is sent, if it can be.
Send(r) == IF Posts(r.cur) THEN [r EXCEPT !.pc = "sent", !.key = secret] ELSE Failed(r)

\* RefreshConfiguration or RefreshSafekeepersConfiguration of the next compute, up to
\* the first call that leaves the process.
Refresh(h, c) ==
    /\ req[h].pc = "loop" /\ c \in req[h].todo
    /\ LET r == [req[h] EXCEPT !.cur = c] IN
       \/ \E d \in Computes :
            /\ Generates(c, d)
            /\ req' = [req EXCEPT ![h] =
                          IF h[1] = "attach" THEN Send([r EXCEPT !.of = Deployment(d, cached[d])])
                          ELSE [r EXCEPT !.of = Deployment(d, cached[d]), !.pc = "info"]]
       \/ GenerateFails(c) /\ req' = [req EXCEPT ![h] = Failed(r)]
    /\ UNCHANGED <<k8sVars, scVars, pod, late, faults>>

\* handleComputeSpec: a compute that is not up asks for its specification.  When the
\* answer is 500 it asks again.
FetchSpec(c) ==
    /\ req[<<"spec", c>>].pc = "idle"
    /\ HasDeployment(stored[c]) /\ ~pod[c].up
    /\ \E d \in Computes :
         /\ Generates(c, d)
         /\ req' = [req EXCEPT ![<<"spec", c>>] =
                       [Idle EXCEPT !.pc = "info", !.cur = c,
                                    !.of = Deployment(d, cached[d]), !.key = secret]]
    /\ UNCHANGED <<k8sVars, scVars, pod, late, faults>>

\* GetTenantInfo, for a request that does not name the shards.
TenantInfo(h) ==
    /\ req[h].pc = "info"
    /\ LET r == [req[h] EXCEPT !.at = attached[TenantOf[req[h].of[1]]]] IN
       req' = [req EXCEPT ![h] = IF IsSpec(h) THEN [r EXCEPT !.pc = "answer"] ELSE Send(r)]
    /\ UNCHANGED <<k8sVars, scVars, pod, late, faults>>

TenantInfoFails(h) ==
    /\ req[h].pc = "info"
    /\ Fault
    /\ req' = [req EXCEPT ![h] = IF IsSpec(h) THEN Idle ELSE Failed(@)]
    /\ UNCHANGED <<k8sVars, scVars, pod, late>>

\* The answer of the spec handler arrives and the compute starts with it.
Starts(c) ==
    LET r == req[<<"spec", c>>] IN
    /\ r.pc = "answer"
    /\ pod' = [pod EXCEPT ![c] = [up |-> TRUE, spec |-> [of |-> r.of, at |-> r.at, gen |-> 0],
                                  key |-> r.key, seen |-> r.at]]
    /\ req' = [req EXCEPT ![<<"spec", c>>] = Idle]
    /\ UNCHANGED <<k8sVars, scVars, late, faults>>

\* The POST that a request is waiting for.
PostOf(h) == [to |-> req[h].cur, spec |-> [of |-> req[h].of, at |-> req[h].at, gen |-> req[h].gen],
              key |-> req[h].key]
Sent(hs) == {PostOf(h) : h \in {g \in hs : req[g].pc = "sent"}}

\* compute_ctl serves a POST: the specification replaces the one it has.
Accepts(p) == pod[p.to].up /\ pod[p.to].key = p.key
Configured(p) ==
    LET o == pod[p.to] IN
    pod' = [pod EXCEPT ![p.to] = [o EXCEPT !.spec = p.spec, !.seen = Max({o.seen, p.spec.at})]]

\* The POST is answered 200, or refused.
ConfigureAnswered(h) ==
    /\ req[h].pc = "sent"
    /\ IF Accepts(PostOf(h))
         THEN Configured(PostOf(h)) /\ req' = [req EXCEPT ![h] = DoneWith(@)]
         ELSE UNCHANGED pod /\ req' = [req EXCEPT ![h] = Failed(@)]
    /\ UNCHANGED <<k8sVars, scVars, late, faults>>

\* The client's timeout passes first; the compute may still serve the POST.
ConfigureTimesOut(h) ==
    /\ req[h].pc = "sent"
    /\ Fault
    /\ late' \in {late, late \union Sent({h})}
    /\ req' = [req EXCEPT ![h] = Failed(@)]
    /\ UNCHANGED <<k8sVars, scVars, pod>>

LateConfigure(p) ==
    /\ p \in late
    /\ late' = late \ {p}
    /\ IF Accepts(p) THEN Configured(p) ELSE UNCHANGED pod
    /\ UNCHANGED <<k8sVars, scVars, req, faults>>

\* Mutant: failures are logged and not counted.
OKDespiteFailure(h) == TRUE

\* Mutant: notifySafekeepers does (failcount++ lost before its continue).
OKDespiteSafekeepers(h) == h[1] = "safekeepers" \/ ~req[h].failed

\* The status notifyAttach and notifySafekeepers answer in the end is 200, and not 500.
OK(h) == ~req[h].failed

Respond(h) ==
    /\ ~IsSpec(h) /\ req[h].pc = "loop" /\ req[h].todo = {}
    /\ acked' = IF h[1] = "attach" /\ OK(h) THEN [acked EXCEPT ![h[2]] = req[h].at]
                ELSE acked
    /\ genAcked' = IF h[1] = "safekeepers" /\ OK(h)
                     THEN [genAcked EXCEPT ![h[2]] = req[h].gen]
                   ELSE genAcked
    /\ req' = [req EXCEPT ![h] = Idle]
    /\ UNCHANGED <<k8sVars, attached, gen, pod, late, faults>>

\* The storage controller stops waiting.  The request's context is cancelled: no
\* further POST is sent, but the one under way may be served.
Abandoned(h) ==
    /\ ~IsSpec(h) /\ req[h].pc # "idle"
    /\ Fault
    /\ late' \in {late, late \union Sent({h})}
    /\ req' = [req EXCEPT ![h] = Idle]
    /\ UNCHANGED <<k8sVars, scVars, pod>>

\* The process dies and a new one starts, after its caches have synced.
Restart ==
    /\ Fault
    /\ late' = late \union Sent(Requests)
    /\ req' = [h \in Requests |-> Idle]
    /\ cached' = stored
    /\ UNCHANGED <<stored, secret, edits, scVars, pod>>

-------------------------------------------------------------------------------
ServerStep(h) ==
    \/ \E c \in Computes : Refresh(h, c)
    \/ TenantInfo(h)
    \/ ConfigureAnswered(h)
    \/ Respond(h)

Environment ==
    \/ \E t \in Tenants : Move(t)
    \/ \E c \in Computes : NewGeneration(c) \/ UserStep(c)
    \/ SecretChanges
    \/ \E p \in late : LateConfigure(p)

Failure ==
    \/ \E c \in Computes : PodFails(c)
    \/ \E h \in Requests : TenantInfoFails(h) \/ ConfigureTimesOut(h) \/ Abandoned(h)
    \/ Restart

Next ==
    \/ \E t \in Tenants : NotifyAttach(t)
    \/ \E c \in Computes : NotifySafekeepers(c) \/ FetchSpec(c) \/ Starts(c)
    \/ \E c \in Computes : ClusterStep(c) \/ CacheFollows(c)
    \/ \E h \in Requests : ServerStep(h)
    \/ Environment
    \/ Failure

Spec == Init /\ [][Next]_vars

\* The server serves its requests, the storage controller repeats a notification until
\* it is answered 200, a Pod starts again until it has its specification, and
\* Kubernetes finishes what it has begun.
Fairness ==
    /\ \A h \in Requests : WF_vars(ServerStep(h))
    /\ \A t \in Tenants : WF_vars(NotifyAttach(t))
    /\ \A c \in Computes : /\ WF_vars(NotifySafekeepers(c)) /\ WF_vars(FetchSpec(c))
                           /\ WF_vars(Starts(c))
                           /\ WF_vars(ClusterStep(c)) /\ WF_vars(CacheFollows(c))

FairSpec == Spec /\ Fairness

-------------------------------------------------------------------------------
(* Properties. *)

\* Once notify-attach for the tenant's current attachment is answered 200, every
\* running compute of the tenant has been given that attachment, those the handler
\* could not see in its cache included: they find their Deployment in the same cache
\* before they ask where the tenant is.  (Not so a compute that found the Deployment of
\* a deleted Branch of its name there.)  Nothing puts a compute back to an earlier
\* attachment but a POST of notify-safekeepers made from an earlier answer, or one that
\* outlives its request.
AttachmentDelivered ==
    \A c \in Computes :
        LET t == TenantOf[c] IN
        /\ pod[c].up /\ pod[c].spec.of = Deployment(c, stored[c])
        /\ acked[t] = attached[t]
        => /\ pod[c].seen = attached[t]
           /\ faults = 0 /\ gen[c] = 0 => pod[c].spec.at = attached[t]

\* Once notify-safekeepers for the timeline's current generation is answered 200, and
\* nothing has failed, its compute has the safekeepers of that generation or the
\* default ones (which notify-attach and a restart of the compute put back), never
\* those of an earlier generation.
SafekeepersCurrentOrDefault ==
    \A c \in Computes :
        pod[c].up /\ genAcked[c] = gen[c] /\ faults = 0 => pod[c].spec.gen \in {0, gen[c]}

\* notifyAttach: "Generate compute spec using the deployment".  A compute never runs
\* with the tenant and timeline of another Branch's Deployment.
SpecOfThisDeployment ==
    \A c \in Computes : pod[c].up => pod[c].spec.of[1] = c

\* ComputeHookNotifyRequest lists the shards of a tenant with their numbers: a compute
\* is told of the node of each of them.
EveryShardConfigured ==
    \A c \in Computes : pod[c].up =>
        Range(Shards(pod[c].spec)) = Range(Attachments[pod[c].spec.at])

\* A tenant none of whose computes can be reached: there is none, the JWT Secret is
\* missing, or a compute checks tokens with a key that has been replaced.
Unreachable(t) ==
    LET mine == {c \in Computes : TenantOf[c] = t} IN
    \/ \A c \in mine : ~HasDeployment(cached[c])
    \/ ~HasKey(secret)
    \/ \E c \in mine : pod[c].up /\ pod[c].key # secret

\* The storage controller's notifications do not fail for ever, unless the tenant
\* stays unreachable: a compute that is starting, being created or being deleted, a
\* lost POST, or a restart of the operator only delay them.
NotificationsSettle ==
    \A t \in Tenants :
        \/ <>[](/\ acked[t] = attached[t]
                /\ \A c \in Computes : TenantOf[c] = t /\ HasDeployment(stored[c]) =>
                       pod[c].up /\ genAcked[c] = gen[c])
        \/ <>[]Unreachable(t)

\* The invariants behind TypeOK and AttachmentDelivered, for their proofs.

\* What a handler has in hand when it has got to a call that leaves the process.
InFlight(h, r) ==
    /\ r.pc \in {"info", "sent", "answer"} => r.cur \in Computes /\ r.of \in Deployments
    /\ r.pc \in {"sent", "answer"} => r.at # 0
    /\ r.pc = "sent" => r.key # 0
    /\ h[1] = "attach" => r.pc \in {"idle", "loop", "sent"} /\ (r.pc # "idle" => r.at # 0)
    /\ IsSpec(h) => /\ r.pc \in {"idle", "info", "answer"}
                    /\ r.pc # "idle" => r.cur = h[2]
RequestsInFlight == \A h \in Requests : InFlight(h, req[h])

\* No handler works with an attachment or a generation that has not been made yet.
NotAhead ==
    /\ \A t \in Tenants : req[<<"attach", t>>].at <= attached[t]
    /\ \A c \in Computes : req[<<"safekeepers", c>>].gen <= gen[c]

\* No two computes have one compute_id, which the code takes for granted.
DistinctIDs == \A c, d \in Computes : IDOf[c] = IDOf[d] => c = d

\* Every specification that runs, is being made, or may still be served is made from
\* the labels of the compute it is for.
OwnSpecs ==
    /\ SpecOfThisDeployment
    /\ \A h \in Requests :
         req[h].pc \in {"info", "sent", "answer"} => req[h].of[1] = req[h].cur
    /\ \A p \in late : p.spec.of[1] = p.to

===============================================================================
