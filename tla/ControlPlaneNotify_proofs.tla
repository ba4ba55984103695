----------------------- MODULE ControlPlaneNotify_proofs -----------------------
(* What an acknowledged notification means for the computes, for any computes,  *)
(* tenants, attachments and bounds: AttachmentDelivered and                     *)
(* SafekeepersCurrentOrDefault.  A notification is a loop over computes that is *)
(* interleaved with everything else, so the invariants say what holds of the    *)
(* computes a handler is done with while it is at the others.                   *)
EXTENDS ControlPlane_proofs

USE ComputesAssumption, AttachmentsAssumption, BoundsAssumption

(* The three requests about a compute, its present Deployment and its attachment. *)
AttachOf(t)      == req[<<"attach", t>>]
SafekeepersOf(c) == req[<<"safekeepers", c>>]
SpecOf(c)        == req[<<"spec", c>>]
Present(c)       == Deployment(c, stored[c])
Attached(c)      == attached[TenantOf[c]]

(* The POSTs that may still be served. *)
Underway == late \union Sent(Requests)

-------------------------------------------------------------------------------
(* The moves of a handler, of a compute and of the counters. *)

\* A handler r of request h becomes s: it is called,
AttachCalled(h, s) ==
    \E t \in Tenants :
        /\ h = <<"attach", t>> /\ acked[t] < attached[t]
        /\ s.pc = "loop" /\ s.todo = FindTenantDeployments(t) /\ s.at = attached[t]
        /\ s.gen = 0 /\ ~s.failed
SafekeepersCalled(h, s) ==
    \E c \in Computes :
        /\ h = <<"safekeepers", c>> /\ genAcked[c] < gen[c]
        /\ s.pc = "loop" /\ s.todo = {c} /\ s.gen = gen[c] /\ ~s.failed
SpecCalled(h, s) ==
    \E c \in Computes :
        /\ h = <<"spec", c>> /\ ~pod[c].up
        /\ s.pc = "info" /\ s.cur = c /\ s.gen = 0
        /\ \E d \in Computes : Generates(c, d) /\ s.of = Deployment(d, cached[d])

\* it has found the Deployment of its next compute,
FoundNext(h, r, s) ==
    /\ ~IsSpec(h) /\ r.pc = "loop"
    /\ s.pc = (IF h[1] = "attach" THEN "sent" ELSE "info")
    /\ s.cur \in r.todo /\ s.cur \in Computes
    /\ s.todo = r.todo /\ s.at = r.at /\ s.gen = r.gen /\ s.failed = r.failed
    /\ \E d \in Computes : Generates(s.cur, d) /\ s.of = Deployment(d, cached[d])

\* it has got the tenant's attachment,
Informed(h, r, s) ==
    /\ h[1] # "attach" /\ r.pc = "info"
    /\ s.pc = (IF IsSpec(h) THEN "answer" ELSE "sent")
    /\ s.at = attached[TenantOf[r.of[1]]]
    /\ s.cur = r.cur /\ s.of = r.of
    /\ s.todo = r.todo /\ s.gen = r.gen /\ s.failed = r.failed

\* it has given up on a compute,
GivenUp(h, r, s) ==
    /\ ~IsSpec(h) /\ r.pc # "idle"
    /\ s.pc = "loop" /\ s.failed /\ s.todo \subseteq r.todo
    /\ s.gen = r.gen /\ (h[1] = "attach" => s.at = r.at)

\* or its POST was answered 200.
Delivered(h, r, s) ==
    /\ ~IsSpec(h) /\ r.pc = "sent"
    /\ s.pc = "loop" /\ s.todo = r.todo \ {r.cur}
    /\ s.at = r.at /\ s.gen = r.gen /\ s.failed = r.failed
    /\ Accepts(PostOf(h)) /\ Configured(PostOf(h))

HandlerMove(h, r, s) ==
    \/ s = r
    \/ s = Idle
    \/ /\ \/ AttachCalled(h, s) \/ SafekeepersCalled(h, s) \/ SpecCalled(h, s)
          \/ FoundNext(h, r, s) \/ Informed(h, r, s)
       /\ UNCHANGED <<stored, cached, attached, acked, gen, genAcked, pod, late>>
    \/ /\ GivenUp(h, r, s) \/ Delivered(h, r, s)
       /\ UNCHANGED <<stored, cached, attached, acked, gen, genAcked>>

\* A compute goes down with its request, starts, or is configured.
PodMove(c) ==
    \/ pod'[c] = pod[c]
    \/ pod'[c] = Down /\ SpecOf(c)' = Idle
    \/ /\ SpecOf(c).pc = "answer" /\ SpecOf(c)' = Idle
       /\ pod'[c].up /\ pod'[c].seen = SpecOf(c).at
       /\ pod'[c].spec = [of |-> SpecOf(c).of, at |-> SpecOf(c).at, gen |-> 0]
       /\ UNCHANGED <<stored, cached, attached, gen>>
    \/ \E p \in Underway :
         /\ p.to = c /\ pod[c].up /\ pod'[c].up /\ pod'[c].spec = p.spec
         /\ pod'[c].seen = (IF pod[c].seen < p.spec.at THEN p.spec.at ELSE pod[c].seen)
         /\ SpecOf(c)' = SpecOf(c)
         /\ UNCHANGED <<stored, cached, attached, gen>>

\* A compute's Deployment is another one only after the compute went down; the cache
\* follows; tenants move on.
CounterMove ==
    /\ \A c \in Computes :
         /\ cached[c] <= cached'[c]
         /\ \/ stored'[c] = stored[c]
            \/ stored'[c] = stored[c] + 1 /\ HasDeployment(stored'[c])
            \/ /\ stored'[c] = stored[c] + 1
               /\ pod'[c] = Down /\ SpecOf(c)' = Idle /\ late' = late
         /\ gen'[c] = gen[c] \/ gen'[c] = gen[c] + 1
         /\ \/ genAcked'[c] = genAcked[c]
            \/ /\ SafekeepersOf(c).todo = {} /\ ~SafekeepersOf(c).failed
               /\ genAcked'[c] = SafekeepersOf(c).gen /\ SafekeepersOf(c)' = Idle
    /\ \A t \in Tenants :
         /\ attached'[t] = attached[t] \/ attached'[t] = attached[t] + 1
         /\ \/ acked'[t] = acked[t]
            \/ /\ AttachOf(t).todo = {} /\ ~AttachOf(t).failed
               /\ acked'[t] = AttachOf(t).at /\ AttachOf(t)' = Idle
    /\ late' \subseteq Underway
    /\ faults' = 0 => faults = 0 /\ late' \subseteq late

(* A handler that was just made by filling in Idle. *)
LEMMA CalledHandlers ==
    ASSUME TypeOK
    PROVE  /\ \A t \in Tenants : NotifyAttach(t) =>
                \E s : /\ req' = [req EXCEPT ![<<"attach", t>>] = s]
                       /\ AttachCalled(<<"attach", t>>, s)
           /\ \A c \in Computes : NotifySafekeepers(c) =>
                \E s : /\ req' = [req EXCEPT ![<<"safekeepers", c>>] = s]
                       /\ SafekeepersCalled(<<"safekeepers", c>>, s)
           /\ \A c \in Computes : FetchSpec(c) =>
                \E s : /\ req' = [req EXCEPT ![<<"spec", c>>] = s]
                       /\ SpecCalled(<<"spec", c>>, s)
  <1>1. ASSUME NEW t \in Tenants, NotifyAttach(t)
        PROVE  \E s : /\ req' = [req EXCEPT ![<<"attach", t>>] = s]
                      /\ AttachCalled(<<"attach", t>>, s)
    <2> DEFINE f == FindTenantDeployments(t)
               s == [Idle EXCEPT !.pc = "loop", !.todo = f, !.at = attached[t]]
    <2>1. req' = [req EXCEPT ![<<"attach", t>>] = s] /\ acked[t] < attached[t]
      BY <1>1 DEF NotifyAttach
    <2> HIDE DEF f
    <2>2. s.pc = "loop" /\ s.todo = f /\ s.at = attached[t] /\ s.gen = 0 /\ ~s.failed
      BY DEF Idle
    <2> HIDE DEF s
    <2>3. AttachCalled(<<"attach", t>>, s)
      BY <2>1, <2>2 DEF AttachCalled, f
    <2> QED
      BY <2>1, <2>3
  <1>2. ASSUME NEW c \in Computes, NotifySafekeepers(c)
        PROVE  \E s : /\ req' = [req EXCEPT ![<<"safekeepers", c>>] = s]
                      /\ SafekeepersCalled(<<"safekeepers", c>>, s)
    <2> DEFINE f == FindTenantTimelineDeployments(c)
               s == [Idle EXCEPT !.pc = "loop", !.todo = f, !.gen = gen[c]]
    <2>1. /\ req' = [req EXCEPT ![<<"safekeepers", c>>] = s]
          /\ genAcked[c] < gen[c] /\ f = {c}
      BY <1>2 DEF NotifySafekeepers, FindTenantTimelineDeployments
    <2> HIDE DEF f
    <2>2. s.pc = "loop" /\ s.todo = f /\ s.gen = gen[c] /\ ~s.failed
      BY DEF Idle
    <2> HIDE DEF s
    <2>3. SafekeepersCalled(<<"safekeepers", c>>, s)
      BY <2>1, <2>2 DEF SafekeepersCalled
    <2> QED
      BY <2>1, <2>3
  <1>3. ASSUME NEW c \in Computes, FetchSpec(c)
        PROVE  \E s : /\ req' = [req EXCEPT ![<<"spec", c>>] = s]
                      /\ SpecCalled(<<"spec", c>>, s)
    <2>1. PICK d \in Computes :
            /\ Generates(c, d) /\ ~pod[c].up
            /\ req' = [req EXCEPT ![<<"spec", c>>] =
                         [Idle EXCEPT !.pc = "info", !.cur = c,
                                      !.of = Deployment(d, cached[d]), !.key = secret]]
      BY <1>3 DEF FetchSpec
    <2> DEFINE of == Deployment(d, cached[d])
               s  == [Idle EXCEPT !.pc = "info", !.cur = c, !.of = of, !.key = secret]
    <2>2. req' = [req EXCEPT ![<<"spec", c>>] = s]
      BY <2>1
    <2> HIDE DEF of
    <2>3. s.pc = "info" /\ s.cur = c /\ s.of = of /\ s.gen = 0
      BY DEF Idle
    <2> HIDE DEF s
    <2>4. \E e \in Computes : Generates(c, e) /\ s.of = Deployment(e, cached[e])
      BY <2>1, <2>3 DEF of
    <2>5. SpecCalled(<<"spec", c>>, s)
      BY <2>1, <2>3, <2>4 DEF SpecCalled
    <2> QED
      BY <2>2, <2>5
  <1> QED
    BY <1>1, <1>2, <1>3

(* Every step moves every handler in one of these ways (the handlers of *)
(* internal/controlplane, and what cuts them short).                    *)
LEMMA HandlerMoves ==
    ASSUME TypeOK, RequestsInFlight, [Next]_vars
    PROVE  \A h \in Requests : HandlerMove(h, req[h], req'[h])
  <1> DEFINE Goal == \A h \in Requests : HandlerMove(h, req[h], req'[h])
             Frame == UNCHANGED <<stored, cached, attached, acked, gen, genAcked>>
             Still == UNCHANGED <<stored, cached, attached, acked, gen, genAcked, pod, late>>
  <1>a. req \in [Requests -> Handler] /\ \A h \in Requests : req[h] \in Handler
    BY DEF TypeOK
  <1>b. ASSUME NEW g \in Requests, NEW s, HandlerMove(g, req[g], s),
               req' = [req EXCEPT ![g] = s]
        PROVE  Goal
    <2>1. \A h \in Requests : HandlerMove(h, req[h], req[h])
      BY DEF HandlerMove
    <2>2. \A h \in Requests : req'[h] = IF h = g THEN s ELSE req[h]
      BY <1>a, <1>b
    <2> QED
      BY <1>b, <2>1, <2>2
  <1>c. ASSUME UNCHANGED req PROVE Goal
    BY <1>c DEF HandlerMove
  <1>d. ASSUME NEW g \in Requests, req' = [req EXCEPT ![g] = Idle] PROVE Goal
    BY <1>b, <1>d DEF HandlerMove
  <1>e. ASSUME NEW g \in Requests, req' = [req EXCEPT ![g] = Failed(req[g])],
               ~IsSpec(g), req[g].pc # "idle", Frame
        PROVE  Goal
    <2>1. GivenUp(g, req[g], Failed(req[g]))
      BY <1>a, <1>e, DoneHandler DEF GivenUp
    <2>2. HandlerMove(g, req[g], Failed(req[g]))
      BY <1>e, <2>1 DEF HandlerMove
    <2> QED
      BY <1>b, <1>e, <2>2
  <1>1. ASSUME NEW t \in Tenants, NotifyAttach(t) PROVE Goal
    <2>1. PICK s : /\ req' = [req EXCEPT ![<<"attach", t>>] = s]
                   /\ AttachCalled(<<"attach", t>>, s)
      BY <1>1, CalledHandlers
    <2>2. Still
      BY <1>1 DEF NotifyAttach, k8sVars, scVars
    <2>3. HandlerMove(<<"attach", t>>, req[<<"attach", t>>], s)
      BY <2>1, <2>2 DEF HandlerMove
    <2> QED
      BY <1>b, <2>1, <2>3, RequestKinds
  <1>2. ASSUME NEW c \in Computes, NotifySafekeepers(c) PROVE Goal
    <2>1. PICK s : /\ req' = [req EXCEPT ![<<"safekeepers", c>>] = s]
                   /\ SafekeepersCalled(<<"safekeepers", c>>, s)
      BY <1>2, CalledHandlers
    <2>2. Still
      BY <1>2 DEF NotifySafekeepers, k8sVars, scVars
    <2>3. HandlerMove(<<"safekeepers", c>>, req[<<"safekeepers", c>>], s)
      BY <2>1, <2>2 DEF HandlerMove
    <2> QED
      BY <1>b, <2>1, <2>3, RequestKinds
  <1>3. ASSUME NEW c \in Computes, FetchSpec(c) PROVE Goal
    <2>1. PICK s : /\ req' = [req EXCEPT ![<<"spec", c>>] = s]
                   /\ SpecCalled(<<"spec", c>>, s)
      BY <1>3, CalledHandlers
    <2>2. Still
      BY <1>3 DEF FetchSpec, k8sVars, scVars
    <2>3. HandlerMove(<<"spec", c>>, req[<<"spec", c>>], s)
      BY <2>1, <2>2 DEF HandlerMove
    <2> QED
      BY <1>b, <2>1, <2>3, RequestKinds
  <1>4. ASSUME NEW h \in Requests, NEW c \in Computes, Refresh(h, c) PROVE Goal
    <2>1. PICK s \in Handler :
            /\ req' = [req EXCEPT ![h] = s]
            /\ s.at = req[h].at /\ s.gen = req[h].gen
            /\ \/ s.pc = "loop" /\ s.failed /\ s.todo \subseteq req[h].todo
               \/ /\ \/ h[1] = "attach" /\ s.pc = "sent" /\ s.key # 0
                     \/ h[1] # "attach" /\ s.pc = "info"
                  /\ s.cur = c /\ s.todo = req[h].todo /\ s.failed = req[h].failed
                  /\ \E d \in Computes : Generates(c, d) /\ s.of = Deployment(d, cached[d])
      BY <1>4, RefreshSteps
    <2>2. Still /\ req[h].pc = "loop" /\ c \in req[h].todo /\ ~IsSpec(h)
      BY <1>4 DEF Refresh, k8sVars, scVars, RequestsInFlight, InFlight
    <2>3. CASE s.pc = "loop"
      <3>1. GivenUp(h, req[h], s)
        BY <2>1, <2>2, <2>3 DEF GivenUp
      <3> QED
        BY <1>b, <2>1, <2>2, <3>1 DEF HandlerMove
    <2>4. CASE s.pc # "loop"
      <3>1. FoundNext(h, req[h], s)
        BY <2>1, <2>2, <2>4 DEF FoundNext
      <3> QED
        BY <1>b, <2>1, <2>2, <3>1 DEF HandlerMove
    <2> QED
      BY <2>3, <2>4
  <1>5. ASSUME NEW h \in Requests, TenantInfo(h) PROVE Goal
    <2>1. PICK s \in Handler :
            /\ req' = [req EXCEPT ![h] = s]
            /\ s.gen = req[h].gen
            /\ \/ /\ ~IsSpec(h) /\ s.pc = "loop"
                  /\ s.failed /\ s.todo \subseteq req[h].todo
               \/ /\ \/ IsSpec(h) /\ s.pc = "answer"
                     \/ ~IsSpec(h) /\ s.pc = "sent" /\ s.key # 0
                  /\ s.at # 0 /\ s.cur = req[h].cur /\ s.of = req[h].of
                  /\ s.at = attached[TenantOf[req[h].of[1]]]
                  /\ s.todo = req[h].todo /\ s.failed = req[h].failed
      BY <1>5, TenantInfoSteps
    <2>2. Still /\ req[h].pc = "info" /\ h[1] # "attach"
      BY <1>5, TenantInfoSteps DEF TenantInfo, k8sVars, scVars
    <2>3. CASE s.pc = "loop"
      <3>1. GivenUp(h, req[h], s)
        BY <2>1, <2>2, <2>3 DEF GivenUp
      <3> QED
        BY <1>b, <2>1, <2>2, <3>1 DEF HandlerMove
    <2>4. CASE s.pc # "loop"
      <3>1. Informed(h, req[h], s)
        BY <2>1, <2>2, <2>4 DEF Informed
      <3> QED
        BY <1>b, <2>1, <2>2, <3>1 DEF HandlerMove
    <2> QED
      BY <2>3, <2>4
  <1>6. ASSUME NEW h \in Requests, ConfigureAnswered(h) PROVE Goal
    <2>1. req[h].pc = "sent" /\ ~IsSpec(h) /\ Frame
      BY <1>6 DEF ConfigureAnswered, k8sVars, scVars, RequestsInFlight, InFlight
    <2>2. CASE Accepts(PostOf(h))
      <3>1. /\ Configured(PostOf(h))
            /\ req' = [req EXCEPT ![h] = DoneWith(req[h])]
        BY <1>6, <2>2 DEF ConfigureAnswered
      <3>2. Delivered(h, req[h], DoneWith(req[h]))
        BY <1>a, <2>1, <2>2, <3>1, DoneHandler DEF Delivered
      <3> QED
        BY <1>b, <2>1, <3>1, <3>2 DEF HandlerMove
    <2>3. CASE ~Accepts(PostOf(h))
      BY <1>6, <1>e, <2>1, <2>3 DEF ConfigureAnswered
    <2> QED
      BY <2>2, <2>3
  <1>7. ASSUME NEW h \in Requests, TenantInfoFails(h) PROVE Goal
    BY <1>7, <1>d, <1>e DEF TenantInfoFails, k8sVars, scVars
  <1>8. ASSUME NEW h \in Requests, ConfigureTimesOut(h) PROVE Goal
    <2>1. ~IsSpec(h)
      BY <1>8 DEF ConfigureTimesOut, RequestsInFlight, InFlight
    <2> QED
      BY <1>8, <1>e, <2>1 DEF ConfigureTimesOut, k8sVars, scVars
  <1>9. ASSUME NEW h \in Requests, Respond(h) \/ Abandoned(h) PROVE Goal
    BY <1>9, <1>d DEF Respond, Abandoned
  <1>10. ASSUME NEW c \in Computes, UserStep(c) \/ ClusterStep(c) \/ Starts(c) \/ PodFails(c)
         PROVE  Goal
    BY <1>10, <1>c, <1>d, RequestKinds DEF UserStep, ClusterStep, Advance, Starts, PodFails
  <1>11. CASE Restart
    BY <1>11 DEF Restart, HandlerMove
  <1>12. CASE \/ \E t \in Tenants : Move(t)
              \/ \E c \in Computes : NewGeneration(c) \/ CacheFollows(c)
              \/ SecretChanges
              \/ \E p \in late : LateConfigure(p)
              \/ UNCHANGED vars
    BY <1>12, <1>c DEF Move, NewGeneration, CacheFollows, SecretChanges, LateConfigure, vars
  <1> QED
    BY <1>1, <1>2, <1>3, <1>4, <1>5, <1>6, <1>7, <1>8, <1>9, <1>10, <1>11, <1>12
       DEF Next, ServerStep, Environment, Failure

(* A POST that a compute serves replaces its specification (compute_ctl). *)
LEMMA ServedPost ==
    ASSUME TypeOK, NEW p \in Post, p \in Underway, Accepts(p), Configured(p),
           UNCHANGED <<stored, cached, attached, gen>>,
           \A c \in Computes : SpecOf(c)' = SpecOf(c)
    PROVE  \A c \in Computes : PodMove(c)
  <1>1. p.to \in Computes /\ pod[p.to].up
    BY DEF Post, Accepts
  <1>2. /\ \A c \in Computes \ {p.to} : pod'[c] = pod[c]
        /\ pod'[p.to].spec = p.spec /\ pod'[p.to].up = pod[p.to].up
        /\ pod'[p.to].seen = (IF pod[p.to].seen < p.spec.at THEN p.spec.at
                              ELSE pod[p.to].seen)
    BY ConfiguredTypes
  <1>3. PodMove(p.to)
    BY <1>1, <1>2 DEF PodMove
  <1>4. \A c \in Computes \ {p.to} : PodMove(c)
    BY <1>2 DEF PodMove
  <1> QED
    BY <1>3, <1>4

(* Every step moves every compute in one of these ways. *)
LEMMA PodMoves ==
    ASSUME TypeOK, RequestsInFlight, [Next]_vars
    PROVE  \A c \in Computes : PodMove(c)
  <1> DEFINE Goal == \A c \in Computes : PodMove(c)
  <1>a. /\ req \in [Requests -> Handler] /\ pod \in [Computes -> Pods]
        /\ \A c \in Computes : <<"spec", c>> \in Requests
    BY RequestKinds DEF TypeOK, PodsOK
  <1>b. ASSUME UNCHANGED pod PROVE Goal
    BY <1>b DEF PodMove
  <1>c. ASSUME NEW g \in Requests, NEW s, ~IsSpec(g), req' = [req EXCEPT ![g] = s]
        PROVE  \A c \in Computes : SpecOf(c)' = SpecOf(c)
    <2>1. \A c \in Computes : g # <<"spec", c>>
      BY <1>c DEF IsSpec
    <2>2. \A c \in Computes : req'[<<"spec", c>>] = req[<<"spec", c>>]
      BY <1>a, <1>c, <2>1
    <2> QED
      BY <2>2 DEF SpecOf
  <1>1. ASSUME NEW c \in Computes, UserStep(c) \/ ClusterStep(c) \/ PodFails(c) PROVE Goal
    <2>1. CASE UNCHANGED pod
      BY <1>b, <2>1
    <2>2. CASE /\ pod' = [pod EXCEPT ![c] = Down]
               /\ req' = [req EXCEPT ![<<"spec", c>>] = Idle]
      <3>1. pod'[c] = Down /\ SpecOf(c)' = Idle
        BY <1>a, <2>2 DEF SpecOf
      <3>2. \A d \in Computes \ {c} : pod'[d] = pod[d]
        BY <1>a, <2>2
      <3> QED
        BY <3>1, <3>2 DEF PodMove
    <2> QED
      BY <1>1, <2>1, <2>2 DEF UserStep, ClusterStep, Advance, PodFails
  <1>2. ASSUME NEW c \in Computes, Starts(c) PROVE Goal
    <2> DEFINE r == req[<<"spec", c>>]
               sp == [of |-> r.of, at |-> r.at, gen |-> 0]
               n == [up |-> TRUE, spec |-> sp, key |-> r.key, seen |-> r.at]
    <2>1. /\ pod' = [pod EXCEPT ![c] = n] /\ r.pc = "answer"
          /\ req' = [req EXCEPT ![<<"spec", c>>] = Idle]
          /\ UNCHANGED <<stored, cached, attached, gen>>
      BY <1>2 DEF Starts, k8sVars, scVars
    <2> HIDE DEF sp, r
    <2>2. n.up /\ n.spec = sp /\ n.seen = r.at
      OBVIOUS
    <2> HIDE DEF n
    <2>3. pod'[c] = n /\ req'[<<"spec", c>>] = Idle
      BY <1>a, <2>1
    <2>4. PodMove(c)
      BY <2>1, <2>2, <2>3 DEF PodMove, SpecOf, r, sp
    <2>5. \A d \in Computes \ {c} : pod'[d] = pod[d]
      BY <1>a, <2>1
    <2> QED
      BY <2>4, <2>5 DEF PodMove
  <1>3. ASSUME NEW h \in Requests, ConfigureAnswered(h) PROVE Goal
    <2>1. /\ req[h].pc = "sent" /\ ~IsSpec(h)
          /\ UNCHANGED <<stored, cached, attached, gen>>
      BY <1>3 DEF ConfigureAnswered, k8sVars, scVars, RequestsInFlight, InFlight
    <2>2. PostOf(h) \in Post /\ PostOf(h) \in Underway
      BY <1>a, <2>1, SentPosts DEF Underway, Sent
    <2>3. CASE Accepts(PostOf(h)) /\ Configured(PostOf(h))
      <3>1. \A c \in Computes : SpecOf(c)' = SpecOf(c)
        BY <1>3, <1>c, <2>1 DEF ConfigureAnswered
      <3> QED
        BY <2>1, <2>2, <2>3, <3>1, ServedPost
    <2> QED
      BY <1>3, <1>b, <2>3 DEF ConfigureAnswered
  <1>4. ASSUME NEW p \in late, LateConfigure(p) PROVE Goal
    <2>1. p \in Post /\ p \in Underway
      BY DEF TypeOK, Underway
    <2>2. CASE Accepts(p) /\ Configured(p)
      <3>1. UNCHANGED <<stored, cached, attached, gen, req>>
        BY <1>4 DEF LateConfigure, k8sVars, scVars
      <3> QED
        BY <2>1, <2>2, <3>1, ServedPost DEF SpecOf
    <2> QED
      BY <1>4, <1>b, <2>2 DEF LateConfigure
  <1>5. ASSUME \/ \E t \in Tenants : NotifyAttach(t) \/ Move(t)
               \/ \E c \in Computes : \/ NotifySafekeepers(c) \/ FetchSpec(c)
                                      \/ NewGeneration(c) \/ CacheFollows(c)
               \/ \E h \in Requests : \/ \E c \in Computes : Refresh(h, c)
                                      \/ TenantInfo(h) \/ TenantInfoFails(h) \/ Respond(h)
                                      \/ ConfigureTimesOut(h) \/ Abandoned(h)
               \/ SecretChanges \/ Restart \/ UNCHANGED vars
        PROVE  Goal
    <2>1. UNCHANGED pod
      BY <1>5, Zenon DEF NotifyAttach, Move, NotifySafekeepers, FetchSpec, NewGeneration,
                         CacheFollows, Refresh, TenantInfo, TenantInfoFails, Respond,
                         ConfigureTimesOut, Abandoned, SecretChanges, Restart, vars
    <2> QED
      BY <1>b, <2>1
  <1> QED
    BY <1>1, <1>2, <1>3, <1>4, <1>5 DEF Next, ServerStep, Environment, Failure

(* Every step moves the counters in one of these ways. *)
LEMMA CounterMoves ==
    ASSUME TypeOK, RequestsInFlight, [Next]_vars
    PROVE  CounterMove
  <1>a. /\ req \in [Requests -> Handler]
        /\ stored \in [Computes -> Nat] /\ cached \in [Computes -> Nat]
        /\ \A c \in Computes : cached[c] <= stored[c]
        /\ attached \in [Tenants -> Places] /\ acked \in [Tenants -> Places]
        /\ gen \in [Computes -> Generations] /\ genAcked \in [Computes -> Generations]
        /\ pod \in [Computes -> Pods] /\ faults \in Nat
    BY DEF TypeOK, ObjectsOK, StorageOK, PodsOK
  <1>b. \A h \in Requests : Sent({h}) \subseteq Underway
    BY DEF Sent, Underway
  <1>c. late \subseteq Underway
    BY DEF Underway
  <1>d. ASSUME Fault PROVE faults' # 0
    BY <1>a, <1>d DEF Fault
  <1>1. ASSUME NEW c \in Computes, UserStep(c) \/ ClusterStep(c) PROVE CounterMove
    <2>1. /\ stored' = [stored EXCEPT ![c] = @ + 1] /\ late' = late
          /\ UNCHANGED <<cached, attached, acked, gen, genAcked, faults>>
          /\ \/ HasDeployment(stored'[c])
             \/ /\ pod' = [pod EXCEPT ![c] = Down]
                /\ req' = [req EXCEPT ![<<"spec", c>>] = Idle]
      BY <1>1 DEF UserStep, ClusterStep, Advance, scVars
    <2>2. \/ HasDeployment(stored'[c])
          \/ pod'[c] = Down /\ SpecOf(c)' = Idle
      BY <1>a, <2>1, RequestKinds DEF SpecOf
    <2>3. \A d \in Computes : stored'[d] = IF d = c THEN stored[d] + 1 ELSE stored[d]
      BY <1>a, <2>1
    <2> QED
      BY <1>a, <1>c, <2>1, <2>2, <2>3 DEF CounterMove
  <1>2. ASSUME NEW c \in Computes, CacheFollows(c) PROVE CounterMove
    <2>1. /\ cached' = [cached EXCEPT ![c] = @ + 1]
          /\ UNCHANGED <<stored, attached, acked, gen, genAcked, late, faults>>
      BY <1>2 DEF CacheFollows, scVars
    <2> QED
      BY <1>a, <1>c, <2>1 DEF CounterMove
  <1>3. ASSUME NEW t \in Tenants, Move(t) PROVE CounterMove
    <2>1. /\ attached' = [attached EXCEPT ![t] = @ + 1]
          /\ UNCHANGED <<stored, cached, acked, gen, genAcked, late, faults>>
      BY <1>3 DEF Move, k8sVars
    <2> QED
      BY <1>a, <1>c, <2>1 DEF CounterMove
  <1>4. ASSUME NEW c \in Computes, NewGeneration(c) PROVE CounterMove
    <2>1. /\ gen' = [gen EXCEPT ![c] = @ + 1]
          /\ UNCHANGED <<stored, cached, attached, acked, genAcked, late, faults>>
      BY <1>4, Zenon DEF NewGeneration, k8sVars
    <2> QED
      BY <1>a, <1>c, <2>1 DEF CounterMove
  <1>5. ASSUME NEW h \in Requests, Respond(h) PROVE CounterMove
    <2>1. /\ ~IsSpec(h) /\ req[h].todo = {} /\ req'[h] = Idle
          /\ UNCHANGED <<stored, cached, attached, gen, late, faults>>
      BY <1>5, <1>a DEF Respond, k8sVars
    <2>2. \A t \in Tenants :
            \/ acked'[t] = acked[t]
            \/ /\ AttachOf(t).todo = {} /\ ~AttachOf(t).failed
               /\ acked'[t] = AttachOf(t).at /\ AttachOf(t)' = Idle
      <3>1. CASE h[1] = "attach" /\ OK(h)
        <4>1. h[2] \in Tenants /\ h = <<"attach", h[2]>>
          BY <3>1 DEF Requests
        <4>2. acked' = [acked EXCEPT ![h[2]] = req[h].at] /\ ~req[h].failed
          BY <1>5, <3>1 DEF Respond, OK
        <4>3. AttachOf(h[2]) = req[h] /\ AttachOf(h[2])' = Idle
          BY <2>1, <4>1 DEF AttachOf
        <4> QED
          BY <1>a, <2>1, <4>1, <4>2, <4>3
      <3>2. CASE ~(h[1] = "attach" /\ OK(h))
        BY <1>5, <3>2 DEF Respond
      <3> QED
        BY <3>1, <3>2
    <2>3. \A c \in Computes :
            \/ genAcked'[c] = genAcked[c]
            \/ /\ SafekeepersOf(c).todo = {} /\ ~SafekeepersOf(c).failed
               /\ genAcked'[c] = SafekeepersOf(c).gen /\ SafekeepersOf(c)' = Idle
      <3>1. CASE h[1] = "safekeepers" /\ OK(h)
        <4>1. h[2] \in Computes /\ h = <<"safekeepers", h[2]>>
          BY <3>1 DEF Requests
        <4>2. genAcked' = [genAcked EXCEPT ![h[2]] = req[h].gen] /\ ~req[h].failed
          BY <1>5, <3>1 DEF Respond, OK
        <4>3. SafekeepersOf(h[2]) = req[h] /\ SafekeepersOf(h[2])' = Idle
          BY <2>1, <4>1 DEF SafekeepersOf
        <4> QED
          BY <1>a, <2>1, <4>1, <4>2, <4>3
      <3>2. CASE ~(h[1] = "safekeepers" /\ OK(h))
        BY <1>5, <3>2 DEF Respond
      <3> QED
        BY <3>1, <3>2
    <2> QED
      BY <1>a, <1>c, <2>1, <2>2, <2>3 DEF CounterMove
  <1>6. ASSUME NEW h \in Requests, ConfigureTimesOut(h) \/ Abandoned(h) PROVE CounterMove
    <2>1. /\ late' \subseteq Underway /\ faults' # 0
          /\ UNCHANGED <<stored, cached, attached, acked, gen, genAcked>>
      BY <1>6, <1>b, <1>c, <1>d DEF ConfigureTimesOut, Abandoned, k8sVars, scVars
    <2> QED
      BY <1>a, <2>1 DEF CounterMove
  <1>7. CASE Restart
    <2>1. /\ late' \subseteq Underway /\ faults' # 0 /\ cached' = stored
          /\ UNCHANGED <<stored, attached, acked, gen, genAcked>>
      BY <1>7, <1>d DEF Restart, Underway, scVars
    <2> QED
      BY <1>a, <2>1 DEF CounterMove
  <1>8. ASSUME \/ \E t \in Tenants : NotifyAttach(t)
               \/ \E c \in Computes : \/ NotifySafekeepers(c) \/ FetchSpec(c)
                                      \/ Starts(c) \/ PodFails(c)
               \/ \E h \in Requests : \/ \E c \in Computes : Refresh(h, c)
                                      \/ TenantInfo(h) \/ TenantInfoFails(h)
                                      \/ ConfigureAnswered(h)
               \/ \E p \in late : LateConfigure(p)
               \/ SecretChanges \/ UNCHANGED vars
        PROVE  CounterMove
    <2>1. /\ UNCHANGED <<stored, cached, attached, acked, gen, genAcked>>
          /\ late' \subseteq late /\ (faults' = faults \/ Fault)
      BY <1>8, Zenon DEF NotifyAttach, NotifySafekeepers, FetchSpec, Starts, PodFails,
                         Refresh, TenantInfo, TenantInfoFails, ConfigureAnswered,
                         LateConfigure, SecretChanges, vars, k8sVars, scVars
    <2>2. faults' = 0 => faults = 0
      BY <1>d, <2>1
    <2> QED
      BY <1>a, <1>c, <2>1, <2>2 DEF CounterMove
  <1> QED
    BY <1>1, <1>2, <1>3, <1>4, <1>5, <1>6, <1>7, <1>8
       DEF Next, ServerStep, Environment, Failure

-------------------------------------------------------------------------------
(* The same, request by request. *)

(* What notifyAttach is about in a step. *)
LEMMA AttachMoves ==
    ASSUME TypeOK, RequestsInFlight, [Next]_vars, NEW t \in Tenants
    PROVE  LET r == AttachOf(t)  s == AttachOf(t)' IN
           \/ s = r
           \/ s = Idle
           \/ /\ acked[t] < attached[t] /\ s.pc = "loop" /\ s.todo = FindTenantDeployments(t)
              /\ s.at = attached[t] /\ s.gen = 0 /\ ~s.failed
              /\ UNCHANGED <<stored, cached, attached, acked, pod, late>>
           \/ /\ r.pc = "loop" /\ s.pc = "sent" /\ s.cur \in r.todo
              /\ s.todo = r.todo /\ s.at = r.at /\ s.gen = r.gen /\ s.failed = r.failed
              /\ UNCHANGED <<stored, cached, attached, acked>>
           \/ /\ r.pc # "idle" /\ s.pc = "loop" /\ s.failed /\ s.todo \subseteq r.todo
              /\ s.at = r.at /\ s.gen = r.gen
              /\ UNCHANGED <<stored, cached, attached, acked>>
           \/ /\ r.pc = "sent" /\ s.pc = "loop" /\ s.todo = r.todo \ {r.cur}
              /\ s.at = r.at /\ s.gen = r.gen /\ s.failed = r.failed
              /\ Accepts(PostOf(<<"attach", t>>)) /\ Configured(PostOf(<<"attach", t>>))
              /\ UNCHANGED <<stored, cached, attached, acked>>
  <1> DEFINE h == <<"attach", t>>
             r == req[h]
             s == req'[h]
  <1>1. h \in Requests /\ h[1] = "attach" /\ ~IsSpec(h)
    BY RequestKinds DEF IsSpec
  <1>2. HandlerMove(h, r, s)
    BY <1>1, HandlerMoves
  <1>3. AttachCalled(h, s) =>
          /\ acked[t] < attached[t] /\ s.pc = "loop" /\ s.todo = FindTenantDeployments(t)
          /\ s.at = attached[t] /\ s.gen = 0 /\ ~s.failed
    BY DEF AttachCalled
  <1>4. ~SafekeepersCalled(h, s) /\ ~SpecCalled(h, s) /\ ~Informed(h, r, s)
    BY DEF SafekeepersCalled, SpecCalled, Informed
  <1>5. AttachOf(t) = r /\ AttachOf(t)' = s
    BY DEF AttachOf
  <1> HIDE DEF h, r, s
  <1>6. /\ FoundNext(h, r, s) => /\ r.pc = "loop" /\ s.pc = "sent" /\ s.cur \in r.todo
                                 /\ s.todo = r.todo /\ s.at = r.at /\ s.gen = r.gen
                                 /\ s.failed = r.failed
        /\ GivenUp(h, r, s) => /\ r.pc # "idle" /\ s.pc = "loop" /\ s.failed
                               /\ s.todo \subseteq r.todo /\ s.at = r.at /\ s.gen = r.gen
        /\ Delivered(h, r, s) => /\ r.pc = "sent" /\ s.pc = "loop"
                                 /\ s.todo = r.todo \ {r.cur} /\ s.at = r.at
                                 /\ s.gen = r.gen /\ s.failed = r.failed
                                 /\ Accepts(PostOf(h)) /\ Configured(PostOf(h))
    BY <1>1 DEF FoundNext, GivenUp, Delivered
  <1> QED
    BY <1>2, <1>3, <1>4, <1>5, <1>6, Zenon DEF HandlerMove, h

(* What notifySafekeepers is about in a step. *)
LEMMA SafekeepersMoves ==
    ASSUME TypeOK, RequestsInFlight, [Next]_vars, NEW c \in Computes
    PROVE  LET r == SafekeepersOf(c)  s == SafekeepersOf(c)' IN
           \/ s = r
           \/ s = Idle
           \/ /\ genAcked[c] < gen[c] /\ s.pc = "loop" /\ s.todo = {c}
              /\ s.gen = gen[c] /\ ~s.failed
              /\ UNCHANGED <<gen, genAcked>>
           \/ /\ r.pc \in {"loop", "info"} /\ s.pc \in {"info", "sent"}
              /\ r.pc = "loop" => s.cur \in r.todo
              /\ r.pc = "info" => s.cur = r.cur
              /\ s.todo = r.todo /\ s.gen = r.gen /\ s.failed = r.failed
              /\ UNCHANGED <<gen, genAcked>>
           \/ /\ r.pc # "idle" /\ s.pc = "loop" /\ s.failed /\ s.todo \subseteq r.todo
              /\ s.gen = r.gen
              /\ UNCHANGED <<gen, genAcked>>
           \/ /\ r.pc = "sent" /\ s.pc = "loop" /\ s.todo = r.todo \ {r.cur}
              /\ s.gen = r.gen /\ s.failed = r.failed
              /\ Accepts(PostOf(<<"safekeepers", c>>))
              /\ Configured(PostOf(<<"safekeepers", c>>))
              /\ UNCHANGED <<gen, genAcked>>
  <1> DEFINE h == <<"safekeepers", c>>
             r == req[h]
             s == req'[h]
  <1>1. h \in Requests /\ h[1] = "safekeepers" /\ ~IsSpec(h)
    BY RequestKinds DEF IsSpec
  <1>2. HandlerMove(h, r, s)
    BY <1>1, HandlerMoves
  <1>3. SafekeepersCalled(h, s) =>
          /\ genAcked[c] < gen[c] /\ s.pc = "loop" /\ s.todo = {c}
          /\ s.gen = gen[c] /\ ~s.failed
    BY DEF SafekeepersCalled
  <1>4. ~AttachCalled(h, s) /\ ~SpecCalled(h, s)
    BY DEF AttachCalled, SpecCalled
  <1>5. SafekeepersOf(c) = r /\ SafekeepersOf(c)' = s
    BY DEF SafekeepersOf
  <1> HIDE DEF h, r, s
  <1>6. FoundNext(h, r, s) \/ Informed(h, r, s) =>
          /\ r.pc \in {"loop", "info"} /\ s.pc \in {"info", "sent"}
          /\ r.pc = "loop" => s.cur \in r.todo
          /\ r.pc = "info" => s.cur = r.cur
          /\ s.todo = r.todo /\ s.gen = r.gen /\ s.failed = r.failed
    BY <1>1 DEF FoundNext, Informed
  <1>7. /\ GivenUp(h, r, s) => /\ r.pc # "idle" /\ s.pc = "loop" /\ s.failed
                               /\ s.todo \subseteq r.todo /\ s.gen = r.gen
        /\ Delivered(h, r, s) => /\ r.pc = "sent" /\ s.pc = "loop"
                                 /\ s.todo = r.todo \ {r.cur}
                                 /\ s.gen = r.gen /\ s.failed = r.failed
                                 /\ Accepts(PostOf(h)) /\ Configured(PostOf(h))
    BY <1>1 DEF GivenUp, Delivered
  <1> QED
    BY <1>2, <1>3, <1>4, <1>5, <1>6, <1>7, Zenon DEF HandlerMove, h

(* What handleComputeSpec is about in a step. *)
LEMMA SpecMoves ==
    ASSUME TypeOK, RequestsInFlight, [Next]_vars, NEW c \in Computes
    PROVE  LET r == SpecOf(c)  s == SpecOf(c)' IN
           \/ s = r
           \/ s = Idle
           \/ /\ ~pod[c].up /\ s.pc = "info" /\ s.gen = 0
              /\ UNCHANGED <<stored, cached, attached, pod>>
           \/ /\ r.pc = "info" /\ s.pc = "answer" /\ s.gen = r.gen
              /\ s.at = attached[TenantOf[r.of[1]]] /\ s.of = r.of
              /\ UNCHANGED <<stored, cached, attached, pod>>
  <1> DEFINE h == <<"spec", c>>
             r == req[h]
             s == req'[h]
  <1>1. h \in Requests /\ h[1] = "spec" /\ IsSpec(h)
    BY RequestKinds DEF IsSpec
  <1>2. HandlerMove(h, r, s)
    BY <1>1, HandlerMoves
  <1>3. SpecCalled(h, s) => ~pod[c].up /\ s.pc = "info" /\ s.gen = 0
    BY DEF SpecCalled
  <1>4. ~AttachCalled(h, s) /\ ~SafekeepersCalled(h, s)
    BY DEF AttachCalled, SafekeepersCalled
  <1>5. SpecOf(c) = r /\ SpecOf(c)' = s
    BY DEF SpecOf
  <1> HIDE DEF h, r, s
  <1>6. /\ Informed(h, r, s) => /\ r.pc = "info" /\ s.pc = "answer" /\ s.gen = r.gen
                                /\ s.at = attached[TenantOf[r.of[1]]] /\ s.of = r.of
        /\ ~FoundNext(h, r, s) /\ ~GivenUp(h, r, s) /\ ~Delivered(h, r, s)
    BY <1>1 DEF FoundNext, Informed, GivenUp, Delivered
  <1> QED
    BY <1>2, <1>3, <1>4, <1>5, <1>6, Zenon DEF HandlerMove, h

-------------------------------------------------------------------------------
(* Whose turn it is. *)

\* A compute asks for its specification only while it is down.  What is acknowledged
\* is not notified again.  A notification goes through the computes of its tenant, or
\* the compute of its timeline, and only notify-safekeepers names a generation.  A POST
\* outlives its request only if something failed.
TurnsInv ==
    /\ \A c \in Computes : pod[c].up => SpecOf(c).pc = "idle"
    /\ \A t \in Tenants :
         /\ acked[t] = attached[t] => AttachOf(t).pc = "idle"
         /\ \A c \in AttachOf(t).todo : TenantOf[c] = t
         /\ AttachOf(t).gen = 0
         /\ AttachOf(t).pc = "sent" => AttachOf(t).cur \in AttachOf(t).todo
    /\ \A c \in Computes :
         /\ genAcked[c] = gen[c] => SafekeepersOf(c).pc = "idle"
         /\ SafekeepersOf(c).todo \subseteq {c}
         /\ SafekeepersOf(c).pc \in {"info", "sent"}
            => SafekeepersOf(c).cur \in SafekeepersOf(c).todo
    /\ faults = 0 => late = {}

LEMMA IdleFields ==
    /\ Idle.pc = "idle" /\ Idle.todo = {} /\ Idle.cur = None
    /\ Idle.at = 0 /\ Idle.gen = 0 /\ ~Idle.failed
  BY DEF Idle

LEMMA TurnsStep ==
    ASSUME TypeOK, RequestsInFlight, NotAhead, TurnsInv, [Next]_vars
    PROVE  TurnsInv'
  <1>a. CounterMove /\ \A c \in Computes : PodMove(c)
    BY CounterMoves, PodMoves
  <1>1. ASSUME NEW c \in Computes, pod'[c].up PROVE SpecOf(c)'.pc = "idle"
    <2>1. CASE pod[c].up /\ SpecOf(c)' # Idle
      <3>1. SpecOf(c).pc = "idle"
        BY <2>1 DEF TurnsInv
      <3> QED
        BY <2>1, <3>1, SpecMoves
    <2>2. CASE SpecOf(c)' = Idle
      BY <2>2, IdleFields
    <2>3. pod[c].up \/ SpecOf(c)' = Idle
      BY <1>a, <1>1 DEF PodMove
    <2> QED
      BY <2>1, <2>2, <2>3
  <1>2. ASSUME NEW t \in Tenants
        PROVE  /\ acked'[t] = attached'[t] => AttachOf(t)'.pc = "idle"
               /\ \A c \in AttachOf(t)'.todo : TenantOf[c] = t
               /\ AttachOf(t)'.gen = 0
               /\ AttachOf(t)'.pc = "sent" => AttachOf(t)'.cur \in AttachOf(t)'.todo
    <2>a. /\ acked[t] = attached[t] => AttachOf(t).pc = "idle"
          /\ \A c \in AttachOf(t).todo : TenantOf[c] = t
          /\ AttachOf(t).gen = 0
          /\ AttachOf(t).pc = "sent" => AttachOf(t).cur \in AttachOf(t).todo
      BY DEF TurnsInv
    <2>b. acked[t] <= attached[t] /\ acked[t] \in Nat /\ attached[t] \in Nat
      BY DEF TypeOK, StorageOK, Places
    <2>1. ASSUME acked'[t] = attached'[t], AttachOf(t)' # Idle
          PROVE  AttachOf(t)'.pc = "idle"
      <3>1. acked'[t] = acked[t] /\ acked[t] = attached[t]
        BY <1>a, <2>1, <2>b DEF CounterMove
      <3>2. AttachOf(t).pc = "idle" /\ ~(acked[t] < attached[t])
        BY <2>a, <2>b, <3>1
      <3> QED
        BY <2>1, <3>2, AttachMoves
    <2>2. \A c \in AttachOf(t)'.todo : TenantOf[c] = t
      <3>1. \A c \in FindTenantDeployments(t) : TenantOf[c] = t
        BY DEF FindTenantDeployments
      <3> QED
        BY <2>a, <3>1, AttachMoves, IdleFields
    <2>3. AttachOf(t)'.gen = 0
      BY <2>a, AttachMoves, IdleFields
    <2>4. AttachOf(t)'.pc = "sent" => AttachOf(t)'.cur \in AttachOf(t)'.todo
      BY <2>a, AttachMoves, IdleFields
    <2> QED
      BY <2>1, <2>2, <2>3, <2>4, IdleFields
  <1>3. ASSUME NEW c \in Computes
        PROVE  /\ genAcked'[c] = gen'[c] => SafekeepersOf(c)'.pc = "idle"
               /\ SafekeepersOf(c)'.todo \subseteq {c}
               /\ SafekeepersOf(c)'.pc \in {"info", "sent"}
                  => SafekeepersOf(c)'.cur \in SafekeepersOf(c)'.todo
    <2>a. /\ genAcked[c] = gen[c] => SafekeepersOf(c).pc = "idle"
          /\ SafekeepersOf(c).todo \subseteq {c}
          /\ SafekeepersOf(c).pc \in {"info", "sent"}
             => SafekeepersOf(c).cur \in SafekeepersOf(c).todo
      BY DEF TurnsInv
    <2>b. genAcked[c] <= gen[c] /\ genAcked[c] \in Nat /\ gen[c] \in Nat
      BY DEF TypeOK, StorageOK, Generations
    <2>1. ASSUME genAcked'[c] = gen'[c], SafekeepersOf(c)' # Idle
          PROVE  SafekeepersOf(c)'.pc = "idle"
      <3>1. genAcked'[c] = genAcked[c] /\ genAcked[c] = gen[c]
        BY <1>a, <2>1, <2>b DEF CounterMove
      <3>2. SafekeepersOf(c).pc = "idle" /\ ~(genAcked[c] < gen[c])
        BY <2>a, <2>b, <3>1
      <3> QED
        BY <2>1, <3>2, SafekeepersMoves
    <2>2. SafekeepersOf(c)'.todo \subseteq {c}
      BY <2>a, SafekeepersMoves, IdleFields
    <2>3. SafekeepersOf(c)'.pc \in {"info", "sent"}
          => SafekeepersOf(c)'.cur \in SafekeepersOf(c)'.todo
      BY <2>a, SafekeepersMoves, IdleFields
    <2> QED
      BY <2>1, <2>2, <2>3, IdleFields
  <1>4. faults' = 0 => late' = {}
    BY <1>a DEF CounterMove, TurnsInv
  <1> QED
    BY <1>1, <1>2, <1>3, <1>4 DEF TurnsInv

-------------------------------------------------------------------------------
(* notify-safekeepers. *)

\* The handler of the timeline's current generation is done with the compute, or has
\* answered.
GenTold(c) == \/ genAcked[c] = gen[c]
              \/ /\ SafekeepersOf(c).gen = gen[c] /\ ~SafekeepersOf(c).failed
                 /\ c \notin SafekeepersOf(c).todo
GenInv == \A c \in Computes :
            pod[c].up /\ GenTold(c) /\ faults = 0 => pod[c].spec.gen \in {0, gen[c]}

(* A POST under way is one that a handler is waiting for, unless it has been given up. *)
LEMMA PostsUnderway ==
    ASSUME RequestsInFlight, NEW p \in Underway, p \notin late
    PROVE  \/ \E t \in Tenants : AttachOf(t).pc = "sent" /\ p = PostOf(<<"attach", t>>)
           \/ \E c \in Computes :
                SafekeepersOf(c).pc = "sent" /\ p = PostOf(<<"safekeepers", c>>)
  <1>1. PICK h \in Requests : req[h].pc = "sent" /\ p = PostOf(h)
    BY DEF Underway, Sent
  <1>2. h[1] # "spec"
    BY <1>1 DEF RequestsInFlight, InFlight, IsSpec
  <1>3. \/ \E t \in Tenants : h = <<"attach", t>>
        \/ \E c \in Computes : h = <<"safekeepers", c>>
    BY <1>2 DEF Requests
  <1> QED
    BY <1>1, <1>3 DEF AttachOf, SafekeepersOf

(* Who may send what to a compute while nothing has failed. *)
LEMMA PostsTo ==
    ASSUME TypeOK, RequestsInFlight, TurnsInv, NEW p \in Underway, p \notin late
    PROVE  /\ p.to \in Computes
           /\ \/ /\ AttachOf(TenantOf[p.to]).pc = "sent" /\ p.to = AttachOf(TenantOf[p.to]).cur
                 /\ p.spec.gen = 0
                 /\ p.spec.at = AttachOf(TenantOf[p.to]).at
                 /\ p.spec.of = AttachOf(TenantOf[p.to]).of
              \/ /\ SafekeepersOf(p.to).pc = "sent" /\ p.to = SafekeepersOf(p.to).cur
                 /\ p.spec.gen = SafekeepersOf(p.to).gen
                 /\ p.spec.at = SafekeepersOf(p.to).at
                 /\ p.spec.of = SafekeepersOf(p.to).of
  <1>1. ASSUME NEW h \in Requests, p = PostOf(h)
        PROVE  /\ p.to = req[h].cur /\ p.spec.gen = req[h].gen
               /\ p.spec.at = req[h].at /\ p.spec.of = req[h].of
    BY <1>1 DEF PostOf
  <1>2. ASSUME NEW t \in Tenants, AttachOf(t).pc = "sent", p = PostOf(<<"attach", t>>)
        PROVE  /\ p.to \in Computes /\ TenantOf[p.to] = t
               /\ p.to = AttachOf(t).cur /\ p.spec.gen = 0
               /\ p.spec.at = AttachOf(t).at /\ p.spec.of = AttachOf(t).of
    <2>1. /\ p.to = AttachOf(t).cur /\ p.spec.gen = AttachOf(t).gen
          /\ p.spec.at = AttachOf(t).at /\ p.spec.of = AttachOf(t).of
      BY <1>1, <1>2, RequestKinds DEF AttachOf
    <2>2. AttachOf(t).cur \in AttachOf(t).todo /\ AttachOf(t).gen = 0
      BY <1>2 DEF TurnsInv
    <2>3. AttachOf(t).todo \subseteq Computes
      BY RequestKinds DEF AttachOf, TypeOK, Handler
    <2> QED
      BY <2>1, <2>2, <2>3 DEF TurnsInv
  <1>3. ASSUME NEW c \in Computes, SafekeepersOf(c).pc = "sent",
               p = PostOf(<<"safekeepers", c>>)
        PROVE  /\ p.to = c /\ p.to = SafekeepersOf(c).cur
               /\ p.spec.gen = SafekeepersOf(c).gen
               /\ p.spec.at = SafekeepersOf(c).at /\ p.spec.of = SafekeepersOf(c).of
    <2>1. /\ p.to = SafekeepersOf(c).cur /\ p.spec.gen = SafekeepersOf(c).gen
          /\ p.spec.at = SafekeepersOf(c).at /\ p.spec.of = SafekeepersOf(c).of
      BY <1>1, <1>3, RequestKinds DEF SafekeepersOf
    <2>2. SafekeepersOf(c).cur = c
      BY <1>3 DEF TurnsInv
    <2> QED
      BY <2>1, <2>2
  <1>4. CASE \E t \in Tenants : AttachOf(t).pc = "sent" /\ p = PostOf(<<"attach", t>>)
    BY <1>2, <1>4
  <1>5. CASE \E c \in Computes :
               SafekeepersOf(c).pc = "sent" /\ p = PostOf(<<"safekeepers", c>>)
    BY <1>3, <1>5
  <1> QED
    BY <1>4, <1>5, PostsUnderway

LEMMA GenStep ==
    ASSUME TypeOK, RequestsInFlight, NotAhead, TurnsInv, GenInv, [Next]_vars
    PROVE  GenInv'
  <1> SUFFICES ASSUME NEW c \in Computes, pod'[c].up, GenTold(c)', faults' = 0
               PROVE  pod'[c].spec.gen \in {0, gen'[c]}
    BY DEF GenInv
  <1>a. CounterMove /\ PodMove(c)
    BY CounterMoves, PodMoves
  <1>b. faults = 0 /\ late = {}
    BY <1>a DEF CounterMove, TurnsInv
  <1>c. /\ genAcked[c] <= gen[c] /\ genAcked[c] \in Nat /\ gen[c] \in Nat
        /\ SafekeepersOf(c).gen <= gen[c] /\ SafekeepersOf(c).gen \in Nat
    <2>1. SafekeepersOf(c).gen \in Generations
      BY RequestKinds DEF TypeOK, SafekeepersOf, Handler
    <2> QED
      BY <2>1 DEF TypeOK, StorageOK, Generations, NotAhead, SafekeepersOf
  <1>1. gen'[c] = gen[c]
    <2> SUFFICES ASSUME gen'[c] = gen[c] + 1 PROVE FALSE
      BY <1>a DEF CounterMove
    <2>1. genAcked'[c] <= gen[c]
      BY <1>a, <1>c DEF CounterMove
    <2>2. SafekeepersOf(c)'.gen <= gen[c]
      <3>1. SafekeepersOf(c)'.gen \in {0, gen[c], SafekeepersOf(c).gen}
        BY SafekeepersMoves, IdleFields
      <3> QED
        BY <1>c, <3>1
    <2> QED
      BY <1>a, <1>c, <2>1, <2>2 DEF GenTold, CounterMove
  <1>2. CASE GenTold(c)
    <2>1. pod[c].up => pod[c].spec.gen \in {0, gen[c]}
      BY <1>2, <1>b DEF GenInv
    <2>2. ASSUME NEW p \in Underway, p.to = c, pod[c].up, pod'[c].spec = p.spec
          PROVE  p.spec.gen \in {0, gen[c]}
      <3>1. p.spec.gen = 0 \/ (SafekeepersOf(c).pc = "sent" /\ p.spec.gen = SafekeepersOf(c).gen)
        BY <1>b, <2>2, PostsTo
      <3>2. SafekeepersOf(c).pc = "sent" => SafekeepersOf(c).gen = gen[c]
        BY <1>2 DEF GenTold, TurnsInv
      <3> QED
        BY <3>1, <3>2
    <2>3. pod'[c].spec.gen \in {0, gen[c]}
      <3>1. ASSUME NEW x, pod'[c].spec = [of |-> x.of, at |-> x.at, gen |-> 0]
            PROVE  pod'[c].spec.gen = 0
        BY <3>1
      <3>2. ~Down.up
        BY DEF Down
      <3> QED
        BY <1>a, <2>1, <2>2, <3>1, <3>2 DEF PodMove
    <2> QED
      BY <1>1, <2>3
  <1>3. CASE ~GenTold(c)
    <2>1. SafekeepersOf(c)' # Idle \/ genAcked'[c] = gen[c]
      <3>1. CASE gen[c] = 0
        BY <1>c, <3>1, <1>3 DEF GenTold
      <3>2. CASE gen[c] # 0
        BY <3>2, <1>1, IdleFields DEF GenTold
      <3> QED
        BY <3>1, <3>2
    <2>2. genAcked'[c] # gen[c]
      <3> SUFFICES ASSUME genAcked'[c] = gen[c] PROVE FALSE
        OBVIOUS
      <3>1. genAcked[c] # gen[c]
        BY <1>3 DEF GenTold
      <3> QED
        BY <1>3, <1>a, <3>1 DEF CounterMove, GenTold
    <2>3. /\ SafekeepersOf(c)'.gen = gen[c] /\ ~SafekeepersOf(c)'.failed
          /\ c \notin SafekeepersOf(c)'.todo
          /\ SafekeepersOf(c)' # Idle
      BY <1>1, <2>1, <2>2 DEF GenTold
    <2>4. /\ SafekeepersOf(c).pc = "sent" /\ SafekeepersOf(c)'.gen = SafekeepersOf(c).gen
          /\ SafekeepersOf(c).cur = c
          /\ Configured(PostOf(<<"safekeepers", c>>))
      <3>1. SafekeepersOf(c)' # SafekeepersOf(c)
        BY <1>3, <2>3 DEF GenTold
      <3>2. ~(/\ SafekeepersOf(c)'.gen = SafekeepersOf(c).gen
              /\ SafekeepersOf(c)'.failed = SafekeepersOf(c).failed
              /\ SafekeepersOf(c)'.todo = SafekeepersOf(c).todo)
        BY <1>3, <2>3 DEF GenTold
      <3>3. /\ SafekeepersOf(c).pc = "sent" /\ SafekeepersOf(c)'.gen = SafekeepersOf(c).gen
            /\ SafekeepersOf(c)'.todo = SafekeepersOf(c).todo \ {SafekeepersOf(c).cur}
            /\ Configured(PostOf(<<"safekeepers", c>>))
        BY <2>3, <3>1, <3>2, SafekeepersMoves
      <3> QED
        BY <3>3 DEF TurnsInv
    <2>5. /\ PostOf(<<"safekeepers", c>>) \in Post
          /\ PostOf(<<"safekeepers", c>>).to = c
          /\ PostOf(<<"safekeepers", c>>).spec.gen = gen[c]
      <3>1. PostOf(<<"safekeepers", c>>) \in Post
        BY <2>4, RequestKinds, SentPosts DEF SafekeepersOf, TypeOK
      <3> QED
        BY <2>3, <2>4, <3>1 DEF PostOf, SafekeepersOf
    <2>6. pod'[c].spec.gen = gen[c]
      BY <2>4, <2>5, ConfiguredTypes
    <2> QED
      BY <1>1, <2>6
  <1> QED
    BY <1>2, <1>3

-------------------------------------------------------------------------------
(* Where specifications come from. *)

\* A specification is made from a Deployment that the cache has, or had.
Found(of, cache) == of \in Deployments /\ 4 * of[2] < cache[of[1]]
FoundInv ==
    /\ \A c \in Computes : pod[c].up => Found(pod[c].spec.of, cached)
    /\ \A h \in Requests : req[h].pc \in {"info", "sent", "answer"} => Found(req[h].of, cached)
    /\ \A p \in late : Found(p.spec.of, cached)

(* A Deployment that a read of the cache returns is one that the cache has. *)
LEMMA CachedFound ==
    ASSUME TypeOK, NEW c \in Computes, NEW d \in Computes, Generates(c, d)
    PROVE  Found(Deployment(d, cached[d]), cached)
  <1>1. cached[d] \in Nat /\ cached[d] % 4 # 0
    BY DEF TypeOK, ObjectsOK, Generates, Matches, HasDeployment
  <1>2. cached[d] \div 4 \in Nat /\ 4 * (cached[d] \div 4) < cached[d]
    BY <1>1
  <1> QED
    BY <1>2 DEF Found, Deployment, Deployments

LEMMA FoundStep ==
    ASSUME TypeOK, RequestsInFlight, TypeOK', FoundInv, [Next]_vars
    PROVE  FoundInv'
  <1>a. CounterMove /\ \A c \in Computes : PodMove(c)
    BY CounterMoves, PodMoves
  <1>b. \A of : Found(of, cached) => Found(of, cached')
    <2> SUFFICES ASSUME NEW of, Found(of, cached) PROVE Found(of, cached')
      OBVIOUS
    <2>1. of[1] \in Computes /\ of[2] \in Nat
      BY DEF Found, Deployments
    <2>2. cached[of[1]] \in Nat /\ cached'[of[1]] \in Nat
      BY <2>1 DEF TypeOK, ObjectsOK
    <2>3. cached[of[1]] <= cached'[of[1]]
      BY <1>a, <2>1 DEF CounterMove
    <2> QED
      BY <2>1, <2>2, <2>3 DEF Found
  <1>c. \A p \in Underway : Found(p.spec.of, cached)
    <2>1. ASSUME NEW h \in Requests, req[h].pc = "sent" PROVE Found(PostOf(h).spec.of, cached)
      <3>1. PostOf(h).spec.of = req[h].of
        BY DEF PostOf
      <3> QED
        BY <2>1, <3>1 DEF FoundInv
    <2> QED
      BY <2>1 DEF Underway, Sent, FoundInv
  <1>1. ASSUME NEW c \in Computes, pod'[c].up PROVE Found(pod'[c].spec.of, cached')
    <2>1. Found(pod'[c].spec.of, cached)
      <3>1. ~Down.up
        BY DEF Down
      <3>2. CASE pod'[c] = pod[c]
        BY <1>1, <3>2 DEF FoundInv
      <3>3. CASE /\ SpecOf(c).pc = "answer"
                 /\ pod'[c].spec = [of |-> SpecOf(c).of, at |-> SpecOf(c).at, gen |-> 0]
        <4>1. Found(SpecOf(c).of, cached)
          BY <3>3, RequestKinds DEF FoundInv, SpecOf
        <4>2. pod'[c].spec.of = SpecOf(c).of
          BY <3>3
        <4> QED
          BY <4>1, <4>2
      <3>4. CASE \E p \in Underway : pod'[c].spec = p.spec
        BY <1>c, <3>4
      <3> QED
        BY <1>1, <1>a, <3>1, <3>2, <3>3, <3>4 DEF PodMove
    <2> QED
      BY <1>b, <2>1
  <1>2. ASSUME NEW h \in Requests, req'[h].pc \in {"info", "sent", "answer"}
        PROVE  Found(req'[h].of, cached')
    <2>1. HandlerMove(h, req[h], req'[h])
      BY HandlerMoves
    <2>2. Found(req'[h].of, cached)
      <3>1. CASE req'[h] = req[h]
        BY <1>2, <3>1 DEF FoundInv
      <3>2. CASE SpecCalled(h, req'[h]) \/ FoundNext(h, req[h], req'[h])
        BY <3>2, CachedFound DEF SpecCalled, FoundNext
      <3>3. CASE Informed(h, req[h], req'[h])
        BY <3>3 DEF FoundInv, Informed
      <3>4. \/ req'[h] = req[h] \/ SpecCalled(h, req'[h]) \/ FoundNext(h, req[h], req'[h])
            \/ Informed(h, req[h], req'[h])
        BY <1>2, <2>1, IdleFields
           DEF HandlerMove, AttachCalled, SafekeepersCalled, GivenUp, Delivered
      <3> QED
        BY <3>1, <3>2, <3>3, <3>4
    <2> QED
      BY <1>b, <2>2
  <1>3. ASSUME NEW p \in late' PROVE Found(p.spec.of, cached')
    <2>1. p \in Underway
      BY <1>a, <1>3 DEF CounterMove
    <2> QED
      BY <1>b, <1>c, <2>1
  <1> QED
    BY <1>1, <1>2, <1>3 DEF FoundInv

\* No compute is given an attachment that its tenant has not had.
SeenInv ==
    /\ \A c \in Computes : pod[c].seen <= Attached(c)
    /\ \A h \in Requests :
         req[h].pc \in {"sent", "answer"} => req[h].at <= Attached(req[h].cur)
    /\ \A p \in late : p.spec.at <= Attached(p.to)

(* The numbers are numbers. *)
LEMMA SeenTypes ==
    ASSUME TypeOK, RequestsInFlight
    PROVE  /\ \A c \in Computes : /\ TenantOf[c] \in Tenants /\ Attached(c) \in Nat \ {0}
                                  /\ pod[c].seen \in Nat
           /\ \A h \in Requests : req[h].at \in Nat
           /\ \A p \in late : p.to \in Computes /\ p.spec.at \in Nat
  <1>1. \A c \in Computes : TenantOf[c] \in Tenants /\ Attached(c) \in Places \ {0}
    BY DEF TypeOK, StorageOK, Attached
  <1>2. \A c \in Computes : pod[c].seen \in Places
    BY DEF TypeOK, PodsOK, Pods
  <1>3. \A h \in Requests : req[h].at \in Places
    BY DEF TypeOK, Handler
  <1>4. \A p \in late : p.to \in Computes /\ p.spec.at \in Places
    BY DEF TypeOK, Post, Specs
  <1> QED
    BY <1>1, <1>2, <1>3, <1>4 DEF Places

(* A POST under way names an attachment that the tenant has had. *)
LEMMA PostsSeen ==
    ASSUME TypeOK, RequestsInFlight, SeenInv
    PROVE  \A p \in Underway : /\ p.to \in Computes /\ p.spec.at \in Nat
                               /\ p.spec.at <= Attached(p.to)
  <1>1. ASSUME NEW h \in Requests, req[h].pc = "sent"
        PROVE  /\ PostOf(h).to \in Computes /\ PostOf(h).spec.at \in Nat
               /\ PostOf(h).spec.at <= Attached(PostOf(h).to)
    <2>1. PostOf(h).to = req[h].cur /\ PostOf(h).spec.at = req[h].at
      BY DEF PostOf
    <2>2. req[h].cur \in Computes /\ req[h].at <= Attached(req[h].cur)
      BY <1>1 DEF RequestsInFlight, InFlight, SeenInv
    <2> QED
      BY <2>1, <2>2, SeenTypes
  <1>2. ASSUME NEW p \in late
        PROVE  p.to \in Computes /\ p.spec.at \in Nat /\ p.spec.at <= Attached(p.to)
    BY SeenTypes DEF SeenInv
  <1> QED
    BY <1>1, <1>2 DEF Underway, Sent

LEMMA SeenStep ==
    ASSUME TypeOK, RequestsInFlight, TypeOK', RequestsInFlight', NotAhead, TurnsInv, OwnSpecs,
           SeenInv, [Next]_vars
    PROVE  SeenInv'
  <1>a. CounterMove /\ \A c \in Computes : PodMove(c)
    BY CounterMoves, PodMoves
  <1>b. \A c \in Computes :
          TenantOf[c] \in Tenants /\ Attached(c) \in Nat /\ Attached(c)' \in Nat
          /\ Attached(c) <= Attached(c)'
    <2>1. \A c \in Computes : TenantOf[c] \in Tenants /\ Attached(c) \in Nat
      BY SeenTypes
    <2>2. \A t \in Tenants : attached[t] \in Nat /\ attached'[t] \in Nat
      BY DEF TypeOK, StorageOK, Places
    <2>3. \A t \in Tenants : attached[t] <= attached'[t]
      BY <1>a, <2>2 DEF CounterMove
    <2> QED
      BY <2>1, <2>2, <2>3 DEF Attached
  <1>1. ASSUME NEW c \in Computes PROVE pod'[c].seen <= Attached(c)'
    <2>1. pod'[c].seen <= Attached(c)
      <3>a. pod[c].seen <= Attached(c) /\ pod[c].seen \in Nat /\ Attached(c) \in Nat
        BY SeenTypes DEF SeenInv
      <3>1. CASE pod'[c] = Down
        BY <3>1, <3>a DEF Down
      <3>2. CASE SpecOf(c).pc = "answer" /\ pod'[c].seen = SpecOf(c).at
        <4>1. SpecOf(c).cur = c
          BY <3>2, RequestKinds DEF RequestsInFlight, InFlight, IsSpec, SpecOf
        <4> QED
          BY <3>2, <4>1, RequestKinds DEF SeenInv, SpecOf
      <3>3. CASE \E p \in Underway :
                   /\ p.to = c
                   /\ pod'[c].seen = (IF pod[c].seen < p.spec.at THEN p.spec.at
                                      ELSE pod[c].seen)
        BY <3>3, <3>a, PostsSeen
      <3> QED
        BY <1>a, <3>a, <3>1, <3>2, <3>3 DEF PodMove
    <2>2. pod'[c].seen \in Nat
      BY DEF TypeOK, PodsOK, Pods, Places
    <2> QED
      BY <1>b, <2>1, <2>2
  <1>2. ASSUME NEW h \in Requests, req'[h].pc \in {"sent", "answer"}
        PROVE  req'[h].at <= attached'[TenantOf[req'[h].cur]]
    <2>1. HandlerMove(h, req[h], req'[h])
      BY HandlerMoves
    <2>a. req'[h].at \in Nat /\ req'[h].cur \in Computes
      <3>1. req'[h].at \in Places
        BY DEF TypeOK, Handler
      <3> QED
        BY <1>2, <3>1 DEF RequestsInFlight, InFlight, Places
    <2>2. req'[h].at <= Attached(req'[h].cur)
      <3>1. CASE req'[h] = req[h]
        BY <1>2, <3>1 DEF SeenInv
      <3>2. CASE FoundNext(h, req[h], req'[h])
        <4>1. h[1] = "attach"
          BY <1>2, <3>2 DEF FoundNext
        <4>2. PICK t \in Tenants : h = <<"attach", t>>
          BY <4>1 DEF Requests
        <4>3. req'[h].cur \in AttachOf(t).todo /\ req'[h].at = AttachOf(t).at
          BY <3>2, <4>2 DEF FoundNext, AttachOf
        <4>4. TenantOf[req'[h].cur] = t /\ AttachOf(t).at <= attached[t]
          BY <4>3 DEF TurnsInv, NotAhead, AttachOf
        <4> QED
          BY <4>3, <4>4 DEF Attached
      <3>3. CASE Informed(h, req[h], req'[h])
        <4>1. req[h].of[1] = req[h].cur
          BY <3>3 DEF Informed, OwnSpecs
        <4>2. req'[h].at = Attached(req'[h].cur)
          BY <3>3, <4>1 DEF Informed, Attached
        <4> QED
          BY <2>a, <4>2
      <3>4. \/ req'[h] = req[h] \/ FoundNext(h, req[h], req'[h])
            \/ Informed(h, req[h], req'[h])
        BY <1>2, <2>1, IdleFields
           DEF HandlerMove, AttachCalled, SafekeepersCalled, SpecCalled, GivenUp, Delivered
      <3> QED
        BY <3>1, <3>2, <3>3, <3>4
    <2> QED
      BY <1>b, <2>a, <2>2 DEF Attached
  <1>3. ASSUME NEW p \in late' PROVE p.spec.at <= Attached(p.to)'
    <2>1. p \in Underway
      BY <1>a, <1>3 DEF CounterMove
    <2> QED
      BY <1>b, <2>1, PostsSeen
  <1> QED
    BY <1>1, <1>2, <1>3 DEF SeenInv, Attached

-------------------------------------------------------------------------------
(* notify-attach. *)

\* The handler of the tenant's current attachment is done with the compute, or never
\* had to do with it, or has answered 200.
Told(c) == \/ acked[TenantOf[c]] = Attached(c)
           \/ /\ AttachOf(TenantOf[c]).at = Attached(c)
              /\ ~AttachOf(TenantOf[c]).failed
              /\ c \notin AttachOf(TenantOf[c]).todo

\* Nothing failed, and only notify-attach and starts concern the compute.
Quiet(c) == faults = 0 /\ gen[c] = 0

UpToDate(c) == pod[c].seen = Attached(c) /\ (Quiet(c) => pod[c].spec.at = Attached(c))

\* The compute runs, or is about to start, with the current attachment;
Fresh(c) == /\ pod[c].up => UpToDate(c)
            /\ SpecOf(c).pc = "answer" => SpecOf(c).at = Attached(c)

\* or whatever names its present Deployment names the current attachment.
Clean(c) == /\ pod[c].up /\ pod[c].spec.of = Present(c) => UpToDate(c)
            /\ SpecOf(c).pc = "answer" /\ SpecOf(c).of = Present(c)
               => SpecOf(c).at = Attached(c)
            /\ \A p \in Underway :
                 p.to = c /\ p.spec.of = Present(c) => p.spec.at = Attached(c)

DeliveryInv == \A c \in Computes : Told(c) => Fresh(c) \/ Clean(c)

(* A compute whose present Deployment the cache has not had yet, or that has none, has *)
(* nothing that names it: a compute reads the cache before it asks where its tenant is.*)
LEMMA NothingNamesIt ==
    ASSUME TypeOK', FoundInv', NEW c \in Computes,
           ~HasDeployment(cached'[c]) \/ ~HasDeployment(stored'[c])
    PROVE  Clean(c)'
  <1>1. ~Found(Present(c)', cached')
    <2> DEFINE n == stored'[c]
               m == cached'[c]
    <2>1. n \in Nat /\ m \in Nat /\ m <= n /\ (m % 4 = 0 \/ n % 4 = 0)
      BY DEF TypeOK, ObjectsOK, HasDeployment
    <2>2. Present(c)' = <<c, n \div 4>>
      BY DEF Present, Deployment
    <2> HIDE DEF n
    <2>3. ~(4 * (n \div 4) < m)
      BY <2>1
    <2> QED
      BY <2>2, <2>3 DEF Found
  <1>2. pod'[c].up => Found(pod'[c].spec.of, cached')
    BY DEF FoundInv
  <1>3. SpecOf(c)'.pc = "answer" => Found(SpecOf(c)'.of, cached')
    BY RequestKinds DEF FoundInv, SpecOf
  <1>4. \A p \in Underway' : Found(p.spec.of, cached')
    <2>1. ASSUME NEW h \in Requests, req'[h].pc = "sent"
          PROVE  Found(PostOf(h)'.spec.of, cached')
      <3>1. PostOf(h)'.spec.of = req'[h].of
        BY DEF PostOf
      <3> QED
        BY <2>1, <3>1 DEF FoundInv
    <2> QED
      BY <2>1 DEF Underway, Sent, FoundInv
  <1> QED
    BY <1>1, <1>2, <1>3, <1>4 DEF Clean

(* A POST is under way after a step only if it was before, or was just made. *)
LEMMA PostMoves ==
    ASSUME TypeOK, RequestsInFlight, [Next]_vars, NEW p \in Underway', p \notin Underway
    PROVE  \E h \in Requests :
             /\ p.to = req'[h].cur /\ p.spec.of = req'[h].of /\ p.spec.at = req'[h].at
             /\ \/ /\ h[1] = "attach" /\ FoundNext(h, req[h], req'[h])
                \/ Informed(h, req[h], req'[h])
  <1>1. CounterMove
    BY CounterMoves
  <1>2. p \notin late'
    BY <1>1 DEF CounterMove
  <1>3. PICK h \in Requests : req'[h].pc = "sent" /\ p = PostOf(h)'
    BY <1>2 DEF Underway, Sent
  <1>4. req'[h] # req[h]
    <2> SUFFICES ASSUME req'[h] = req[h] PROVE FALSE
      OBVIOUS
    <2>1. PostOf(h)' = PostOf(h)
      BY DEF PostOf
    <2> QED
      BY <1>3, <2>1 DEF Underway, Sent
  <1>5. HandlerMove(h, req[h], req'[h])
    BY HandlerMoves
  <1>6. FoundNext(h, req[h], req'[h]) \/ Informed(h, req[h], req'[h])
    BY <1>3, <1>4, <1>5, IdleFields
       DEF HandlerMove, AttachCalled, SafekeepersCalled, SpecCalled, GivenUp, Delivered
  <1>7. FoundNext(h, req[h], req'[h]) => h[1] = "attach"
    BY <1>3 DEF FoundNext
  <1>8. p.to = req'[h].cur /\ p.spec.of = req'[h].of /\ p.spec.at = req'[h].at
    BY <1>3 DEF PostOf
  <1> QED
    BY <1>6, <1>7, <1>8

(* While the tenant does not move, what is made for a compute that has been told names *)
(* the current attachment.                                                             *)
LEMMA NewPosts ==
    ASSUME TypeOK, RequestsInFlight, TurnsInv, OwnSpecs, [Next]_vars,
           NEW c \in Computes, Told(c), NEW p \in Underway', p \notin Underway, p.to = c
    PROVE  p.spec.at = Attached(c)
  <1>1. PICK h \in Requests :
          /\ p.to = req'[h].cur /\ p.spec.of = req'[h].of /\ p.spec.at = req'[h].at
          /\ \/ /\ h[1] = "attach" /\ FoundNext(h, req[h], req'[h])
             \/ Informed(h, req[h], req'[h])
    BY PostMoves
  <1>2. CASE h[1] = "attach" /\ FoundNext(h, req[h], req'[h])
    <2>1. PICK t \in Tenants : h = <<"attach", t>>
      BY <1>2 DEF Requests
    <2>2. /\ c \in AttachOf(t).todo /\ AttachOf(t).pc = "loop"
          /\ p.spec.at = AttachOf(t).at
      BY <1>1, <1>2, <2>1 DEF FoundNext, AttachOf
    <2>3. TenantOf[c] = t
      BY <2>2 DEF TurnsInv
    <2> QED
      BY <2>2, <2>3 DEF Told, TurnsInv, Attached
  <1>3. CASE Informed(h, req[h], req'[h])
    <2>1. req[h].of[1] = req[h].cur
      BY <1>3 DEF Informed, OwnSpecs
    <2> QED
      BY <1>1, <1>3, <2>1 DEF Informed, Attached
  <1> QED
    BY <1>1, <1>2, <1>3

(* The answer to a compute that asks for its specification names the tenant's current *)
(* attachment.                                                                        *)
LEMMA NewAnswer ==
    ASSUME TypeOK, RequestsInFlight, OwnSpecs, [Next]_vars, NEW c \in Computes,
           SpecOf(c)'.pc = "answer", SpecOf(c)' # SpecOf(c)
    PROVE  SpecOf(c)'.at = Attached(c) /\ UNCHANGED <<stored, attached>>
  <1>1. /\ SpecOf(c).pc = "info" /\ SpecOf(c)'.at = attached[TenantOf[SpecOf(c).of[1]]]
        /\ UNCHANGED <<stored, attached>>
    BY SpecMoves, IdleFields
  <1>2. SpecOf(c).cur = c
    BY <1>1, RequestKinds DEF RequestsInFlight, InFlight, IsSpec, SpecOf
  <1>3. SpecOf(c).of[1] = SpecOf(c).cur
    BY <1>1, RequestKinds DEF OwnSpecs, SpecOf
  <1> QED
    BY <1>1, <1>2, <1>3 DEF Attached

(* A POST that a quiet compute that has been told can still be served is one of the    *)
(* current attachment's.                                                               *)
LEMMA QuietPosts ==
    ASSUME TypeOK, RequestsInFlight, TurnsInv, NEW c \in Computes, Told(c), Quiet(c),
           NEW p \in Underway, p.to = c
    PROVE  p.spec.at = Attached(c)
  <1>1. late = {} /\ genAcked[c] = gen[c]
    <2>1. genAcked[c] <= gen[c] /\ genAcked[c] \in Nat /\ gen[c] = 0
      BY DEF TypeOK, StorageOK, Generations, Quiet
    <2> QED
      BY <2>1 DEF TurnsInv, Quiet
  <1>2. SafekeepersOf(c).pc = "idle"
    BY <1>1 DEF TurnsInv
  <1>3. /\ AttachOf(TenantOf[c]).pc = "sent"
        /\ p.spec.at = AttachOf(TenantOf[c]).at
    BY <1>1, <1>2, PostsTo
  <1> QED
    BY <1>3 DEF Told, TurnsInv, Attached

(* A step that serves a compute a POST or starts it leaves it up to date. *)
LEMMA UpToDateStep ==
    ASSUME TypeOK, RequestsInFlight, TurnsInv, SeenInv, [Next]_vars,
           NEW c \in Computes, Told(c), Attached(c)' = Attached(c), pod'[c].up,
           pod'[c] = pod[c] => UpToDate(c),
           SpecOf(c).pc = "answer" /\ SpecOf(c).of = pod'[c].spec.of
              => SpecOf(c).at = Attached(c),
           \A p \in Underway :
              p.to = c /\ pod[c].up /\ pod'[c].spec = p.spec
              => pod[c].seen = Attached(c) \/ p.spec.at = Attached(c)
    PROVE  UpToDate(c)'
  <1>a. PodMove(c) /\ CounterMove
    BY PodMoves, CounterMoves
  <1>b. Quiet(c)' => Quiet(c)
    <2>1. gen[c] \in Nat
      BY DEF TypeOK, StorageOK, Generations
    <2> QED
      BY <1>a, <2>1 DEF Quiet, CounterMove
  <1>c. Attached(c) \in Nat /\ pod[c].seen \in Nat /\ pod[c].seen <= Attached(c)
    BY SeenTypes DEF SeenInv
  <1>1. CASE pod'[c] = pod[c]
    BY <1>1, <1>b DEF UpToDate
  <1>2. CASE /\ SpecOf(c).pc = "answer" /\ pod'[c].seen = SpecOf(c).at
             /\ pod'[c].spec = [of |-> SpecOf(c).of, at |-> SpecOf(c).at, gen |-> 0]
    <2>1. pod'[c].spec.of = SpecOf(c).of /\ pod'[c].spec.at = SpecOf(c).at
      BY <1>2
    <2> QED
      BY <1>2, <2>1 DEF UpToDate
  <1>3. ASSUME NEW p \in Underway, p.to = c, pod[c].up, pod'[c].spec = p.spec,
               pod'[c].seen = (IF pod[c].seen < p.spec.at THEN p.spec.at ELSE pod[c].seen)
        PROVE  UpToDate(c)'
    <2>1. p.spec.at \in Nat /\ p.spec.at <= Attached(c)
      BY <1>3, PostsSeen
    <2>2. pod[c].seen = Attached(c) \/ p.spec.at = Attached(c)
      BY <1>3
    <2>3. pod'[c].seen = Attached(c)
      BY <1>3, <1>c, <2>1, <2>2
    <2>4. Quiet(c) => p.spec.at = Attached(c)
      BY <1>3, QuietPosts
    <2> QED
      BY <1>3, <1>b, <2>3, <2>4 DEF UpToDate
  <1>4. ~Down.up
    BY DEF Down
  <1> QED
    BY <1>a, <1>1, <1>2, <1>3, <1>4 DEF PodMove

(* A compute that has been told after a step was before, or is not in the cache as the *)
(* handler starts, or was just served the handler's POST.                              *)
LEMMA ToldMoves ==
    ASSUME TypeOK, RequestsInFlight, NotAhead, TurnsInv, [Next]_vars,
           NEW c \in Computes, Told(c)'
    PROVE  /\ Attached(c)' = Attached(c)
           /\ \/ Told(c)
              \/ ~HasDeployment(cached'[c])
              \/ LET h == <<"attach", TenantOf[c]>> IN
                 /\ req[h].pc = "sent" /\ req[h].cur = c /\ req[h].at = Attached(c)
                 /\ Accepts(PostOf(h)) /\ Configured(PostOf(h))
  <1> DEFINE t == TenantOf[c]
             h == <<"attach", t>>
             r == AttachOf(t)
             s == AttachOf(t)'
  <1>a. CounterMove
    BY CounterMoves
  <1>b. t \in Tenants /\ h \in Requests
    BY RequestKinds
  <1>c. /\ attached[t] \in Nat \ {0} /\ acked[t] \in Nat /\ acked[t] <= attached[t]
        /\ r.at \in Nat /\ r.at <= attached[t]
    <2>1. r.at \in Places
      BY <1>b DEF TypeOK, AttachOf, Handler
    <2> QED
      BY <1>b, <2>1 DEF TypeOK, StorageOK, Places, NotAhead, AttachOf
  <1>d. Attached(c) = attached[t] /\ Attached(c)' = attached'[t]
    BY DEF Attached
  <1>1. acked'[t] <= attached[t] /\ s.at <= attached[t]
    <2>1. acked'[t] \in {acked[t], r.at}
      BY <1>a, <1>b DEF CounterMove
    <2>2. s.at \in {0, r.at, attached[t]}
      BY <1>b, AttachMoves, IdleFields
    <2> QED
      BY <1>c, <2>1, <2>2
  <1>2. attached'[t] = attached[t]
    <2>1. attached'[t] = attached[t] \/ attached'[t] = attached[t] + 1
      BY <1>a, <1>b DEF CounterMove
    <2>2. acked'[t] = attached'[t] \/ s.at = attached'[t]
      BY <1>d DEF Told
    <2>3. attached[t] + 1 \in Nat /\ attached[t] + 1 > attached[t]
      BY <1>c
    <2> QED
      BY <1>1, <1>c, <2>1, <2>2
  <1>3. ASSUME acked'[t] = attached[t] PROVE Told(c)
    BY <1>3, <1>a, <1>b, <1>d DEF CounterMove, Told
  <1>4. ASSUME ~Told(c), acked'[t] # attached[t]
        PROVE  \/ ~HasDeployment(cached'[c])
               \/ /\ req[h].pc = "sent" /\ req[h].cur = c /\ req[h].at = Attached(c)
                  /\ Accepts(PostOf(h)) /\ Configured(PostOf(h))
    <2>1. s.at = attached[t] /\ ~s.failed /\ c \notin s.todo
      BY <1>2, <1>4, <1>d DEF Told
    <2>2. s # Idle
      BY <1>c, <2>1, IdleFields
    <2>3. ~(r.at = attached[t] /\ ~r.failed /\ c \notin r.todo)
      BY <1>4, <1>d DEF Told
    <2>4. CASE s.todo = FindTenantDeployments(t) /\ UNCHANGED cached
      BY <2>1, <2>4 DEF FindTenantDeployments
    <2>5. CASE /\ r.pc = "sent" /\ s.todo = r.todo \ {r.cur} /\ s.at = r.at
               /\ s.failed = r.failed
               /\ Accepts(PostOf(h)) /\ Configured(PostOf(h))
      <3>1. r.cur = c /\ r.at = attached[t]
        BY <2>1, <2>3, <2>5
      <3> QED
        BY <2>5, <3>1, <1>d DEF AttachOf
    <2> QED
      BY <1>b, <2>1, <2>2, <2>3, <2>4, <2>5, AttachMoves
  <1> QED
    BY <1>2, <1>3, <1>4, <1>d

LEMMA DeliveryStep ==
    ASSUME TypeOK, RequestsInFlight, NotAhead, TurnsInv, OwnSpecs, SeenInv, DeliveryInv,
           TypeOK', TurnsInv', FoundInv', [Next]_vars
    PROVE  DeliveryInv'
  <1> SUFFICES ASSUME NEW c \in Computes, Told(c)' PROVE Fresh(c)' \/ Clean(c)'
    BY DEF DeliveryInv
  <1>a. Attached(c)' = Attached(c)
    BY ToldMoves
  <1>b. CounterMove
    BY CounterMoves
  <1>1. CASE Told(c) /\ Fresh(c)
    <2>1. SpecOf(c)'.pc = "answer" => SpecOf(c)'.at = Attached(c)
      BY <1>1, NewAnswer DEF Fresh
    <2>2. pod'[c].up => UpToDate(c)'
      <3> SUFFICES ASSUME pod'[c].up PROVE UpToDate(c)'
        OBVIOUS
      <3>1. pod'[c] = pod[c] => UpToDate(c)
        BY <1>1 DEF Fresh
      <3>2. pod[c].up => pod[c].seen = Attached(c)
        BY <1>1 DEF Fresh, UpToDate
      <3> QED
        BY <1>1, <1>a, <3>1, <3>2, UpToDateStep DEF Fresh
    <2> QED
      BY <1>a, <2>1, <2>2 DEF Fresh
  <1>2. CASE Told(c) /\ Clean(c) /\ Present(c)' = Present(c)
    <2>1. SpecOf(c)'.pc = "answer" /\ SpecOf(c)'.of = Present(c)
          => SpecOf(c)'.at = Attached(c)
      BY <1>2, NewAnswer DEF Clean
    <2>2. \A p \in Underway' :
            p.to = c /\ p.spec.of = Present(c) => p.spec.at = Attached(c)
      <3> SUFFICES ASSUME NEW p \in Underway', p.to = c, p.spec.of = Present(c)
                   PROVE  p.spec.at = Attached(c)
        OBVIOUS
      <3>1. CASE p \in Underway
        BY <1>2, <3>1 DEF Clean
      <3>2. CASE p \notin Underway
        BY <1>2, <3>2, NewPosts
      <3> QED
        BY <3>1, <3>2
    <2>3. pod'[c].up /\ pod'[c].spec.of = Present(c) => UpToDate(c)'
      <3> SUFFICES ASSUME pod'[c].up, pod'[c].spec.of = Present(c) PROVE UpToDate(c)'
        OBVIOUS
      <3>1. pod'[c] = pod[c] => UpToDate(c)
        BY <1>2 DEF Clean
      <3>2. SpecOf(c).pc = "answer" /\ SpecOf(c).of = pod'[c].spec.of
            => SpecOf(c).at = Attached(c)
        BY <1>2 DEF Clean
      <3>3. \A p \in Underway :
              p.to = c /\ pod[c].up /\ pod'[c].spec = p.spec
              => pod[c].seen = Attached(c) \/ p.spec.at = Attached(c)
        BY <1>2 DEF Clean
      <3> QED
        BY <1>2, <1>a, <3>1, <3>2, <3>3, UpToDateStep
    <2> QED
      BY <1>2, <1>a, <2>1, <2>2, <2>3 DEF Clean
  <1>3. CASE Present(c)' # Present(c)
    <2> DEFINE n == stored[c]
               m == stored'[c]
    <2>1. n \in Nat /\ m \in Nat
      BY DEF TypeOK, ObjectsOK
    <2>2. n \div 4 # m \div 4
      BY <1>3 DEF Present, Deployment
    <2>3. m = n + 1 \/ m = n
      BY <1>b DEF CounterMove
    <2> HIDE DEF n, m
    <2>4. m % 4 = 0
      BY <2>1, <2>2, <2>3
    <2> QED
      BY <2>4, NothingNamesIt DEF HasDeployment, m
  <1>4. CASE ~HasDeployment(cached'[c])
    BY <1>4, NothingNamesIt
  <1>5. ASSUME LET h == <<"attach", TenantOf[c]>> IN
               /\ req[h].pc = "sent" /\ req[h].cur = c /\ req[h].at = Attached(c)
               /\ Accepts(PostOf(h)) /\ Configured(PostOf(h))
        PROVE  Fresh(c)'
    <2> DEFINE h == <<"attach", TenantOf[c]>>
               p == PostOf(h)
    <2>1. p \in Post /\ p.to = c /\ p.spec.at = Attached(c)
      <3>1. h \in Requests
        BY RequestKinds
      <3>2. p.to = c /\ p.spec.at = Attached(c)
        BY <1>5 DEF PostOf
      <3> QED
        BY <1>5, <3>1, <3>2, SentPosts DEF TypeOK
    <2>2. pod[c].up /\ Configured(p)
      BY <1>5, <2>1 DEF Accepts
    <2> HIDE DEF p
    <2>3. /\ pod'[c].spec = p.spec /\ pod'[c].up
          /\ pod'[c].seen = (IF pod[c].seen < p.spec.at THEN p.spec.at ELSE pod[c].seen)
      BY <2>1, <2>2, ConfiguredTypes
    <2>4. Attached(c) \in Nat /\ pod[c].seen \in Nat /\ pod[c].seen <= Attached(c)
      BY SeenTypes DEF SeenInv
    <2>5. pod'[c].seen = Attached(c)
      BY <2>1, <2>3, <2>4
    <2>6. UpToDate(c)'
      BY <1>a, <2>1, <2>3, <2>5 DEF UpToDate
    <2>7. SpecOf(c)'.pc = "idle"
      BY <2>3 DEF TurnsInv
    <2> QED
      BY <2>6, <2>7 DEF Fresh
  <1>6. Told(c) => Fresh(c) \/ Clean(c)
    BY DEF DeliveryInv
  <1> QED
    BY <1>1, <1>2, <1>3, <1>4, <1>5, <1>6, ToldMoves

-------------------------------------------------------------------------------
(* The theorems. *)

LEMMA TurnsInductive == Spec => [](TurnsInv /\ GenInv)
  <1>1. Init => TurnsInv /\ GenInv
    <2> SUFFICES ASSUME Init PROVE TurnsInv /\ GenInv
      OBVIOUS
    <2>1. \A h \in Requests : req[h] = Idle
      BY DEF Init
    <2>2. /\ \A t \in Tenants : AttachOf(t) = Idle
          /\ \A c \in Computes : SafekeepersOf(c) = Idle /\ SpecOf(c) = Idle
      BY <2>1, RequestKinds DEF AttachOf, SafekeepersOf, SpecOf
    <2>3. late = {}
      BY DEF Init
    <2>4. TurnsInv
      BY <2>2, <2>3, IdleFields DEF TurnsInv
    <2>5. ASSUME NEW c \in Computes, pod[c].up PROVE pod[c].spec.gen = 0
      BY <2>5 DEF Init, Down
    <2> QED
      BY <2>4, <2>5 DEF GenInv
  <1>2. TypeOK /\ RequestsInFlight /\ NotAhead /\ TurnsInv /\ GenInv /\ [Next]_vars
        => (TurnsInv /\ GenInv)'
    BY TurnsStep, GenStep
  <1> QED
    BY <1>1, <1>2, TypesInductive, PTL DEF Spec

(* Once notify-safekeepers for the current generation is answered 200, and nothing   *)
(* has failed, the compute has the safekeepers of that generation or the default     *)
(* ones, never those of an earlier one, however the two notifications, the compute's *)
(* own requests and the moves of the tenant are interleaved (notifySafekeepers).     *)
THEOREM SafekeepersDelivered == Spec => []SafekeepersCurrentOrDefault
  <1>1. GenInv => SafekeepersCurrentOrDefault
    BY DEF GenInv, GenTold, SafekeepersCurrentOrDefault
  <1> QED
    BY <1>1, TurnsInductive, PTL

(* Once notify-attach for the current attachment is answered 200, every running      *)
(* compute of the tenant has been given it, the ones the handler did not see         *)
(* included, whatever fails or restarts; and still has it, if nothing failed and its *)
(* safekeepers never changed (notifyAttach, findTenantDeployments, handleComputeSpec).*)
(* DistinctIDs: with two computes of one ID GetTenantInfo is asked about the other   *)
(* one's tenant (ControlPlaneSameName shows that the code does not rule it out).    *)
THEOREM AttachmentsDelivered ==
    DistinctIDs /\ Spec => []AttachmentDelivered
  <1> DEFINE Inv == FoundInv /\ SeenInv /\ DeliveryInv
             Known == TypeOK /\ RequestsInFlight /\ NotAhead /\ TurnsInv /\ OwnSpecs
  <1>1. Init => Inv
    <2> SUFFICES ASSUME Init PROVE Inv
      OBVIOUS
    <2>1. /\ \A h \in Requests : req[h].pc = "idle"
          /\ late = {} /\ attached = [t \in Tenants |-> 1]
      BY IdleFields DEF Init
    <2>2. \A c \in Computes : Attached(c) = 1
      BY <2>1 DEF Attached
    <2>3. ASSUME NEW c \in Computes
          PROVE  \/ /\ stored[c] = 0 /\ pod[c] = Down
                 \/ /\ stored[c] = 2 /\ cached[c] = 2 /\ pod[c].seen = 1
                    /\ pod[c].spec.at = 1 /\ pod[c].spec.of = Deployment(c, 2)
      BY DEF Init
    <2>4. Down.up = FALSE /\ Down.seen = 0
      BY DEF Down
    <2>5. ASSUME NEW c \in Computes, pod[c].up PROVE Found(pod[c].spec.of, cached)
      <3>1. cached[c] = 2 /\ pod[c].spec.of = <<c, 2 \div 4>>
        BY <2>3, <2>4, <2>5 DEF Deployment
      <3>2. 2 \div 4 = 0
        OBVIOUS
      <3> QED
        BY <3>1, <3>2 DEF Found, Deployments
    <2>6. FoundInv
      BY <2>1, <2>5 DEF FoundInv
    <2>7. SeenInv
      BY <2>1, <2>2, <2>3, <2>4 DEF SeenInv
    <2>8. ASSUME NEW c \in Computes PROVE Fresh(c)
      <3>1. SpecOf(c).pc = "idle"
        BY <2>1, RequestKinds DEF SpecOf
      <3> QED
        BY <2>2, <2>3, <2>4, <3>1 DEF Fresh, UpToDate
    <2> QED
      BY <2>6, <2>7, <2>8 DEF DeliveryInv
  <1>2. Known /\ Known' /\ Inv /\ [Next]_vars => Inv'
    <2> SUFFICES ASSUME Known, Known', Inv, [Next]_vars PROVE Inv'
      OBVIOUS
    <2>1. FoundInv'
      BY FoundStep
    <2>2. SeenInv'
      BY SeenStep
    <2>3. DeliveryInv'
      BY <2>1, DeliveryStep
    <2> QED
      BY <2>1, <2>2, <2>3
  <1>3. Inv => AttachmentDelivered
    <2> SUFFICES ASSUME Inv, NEW c \in Computes, pod[c].up,
                        pod[c].spec.of = Deployment(c, stored[c]),
                        acked[TenantOf[c]] = attached[TenantOf[c]]
                 PROVE  /\ pod[c].seen = attached[TenantOf[c]]
                        /\ faults = 0 /\ gen[c] = 0
                           => pod[c].spec.at = attached[TenantOf[c]]
      BY DEF AttachmentDelivered
    <2>1. Fresh(c) \/ Clean(c)
      BY DEF DeliveryInv, Told, Attached
    <2>2. UpToDate(c)
      BY <2>1 DEF Fresh, Clean, Present
    <2> QED
      BY <2>2 DEF UpToDate, Quiet, Attached
  <1> HIDE DEF Inv
  <1>4. DistinctIDs /\ Spec => []Known
    BY TypesInductive, TurnsInductive, OwnSpecsInductive, PTL
  <1> HIDE DEF Known
  <1> QED
    BY <1>1, <1>2, <1>3, <1>4, PTL DEF Spec

===============================================================================
