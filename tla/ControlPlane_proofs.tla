-------------------------- MODULE ControlPlane_proofs --------------------------
(* Proofs, for any computes, tenants, attachments and bounds, of type           *)
(* correctness of the control plane, and the lemmas that the proofs about       *)
(* notifications need: what a step does to the record of a handler, and that,   *)
(* compute IDs being unique, a specification is made for the compute it is of.  *)
EXTENDS ControlPlane, TLAPS

USE ComputesAssumption, AttachmentsAssumption, BoundsAssumption

(* An idle handler has nothing in hand. *)
LEMMA IdleHandler ==
    /\ Idle \in Handler
    /\ \A h \in Requests : InFlight(h, Idle)
    /\ Idle.pc = "idle"
  <1>1. 0 \in Places /\ 0 \in Generations /\ 0 \in Keys
    BY DEF Places, Generations, Keys
  <1> QED
    BY <1>1 DEF Idle, Handler, InFlight, IsSpec

(* A handler that is done with a compute goes on with the others (DoneWith, Failed). *)
LEMMA DoneHandler ==
    ASSUME NEW r \in Handler
    PROVE  /\ DoneWith(r) \in Handler /\ Failed(r) \in Handler
           /\ DoneWith(r).pc = "loop" /\ Failed(r).pc = "loop"
           /\ DoneWith(r).at = r.at /\ Failed(r).at = r.at
           /\ DoneWith(r).gen = r.gen /\ Failed(r).gen = r.gen
           /\ DoneWith(r).todo = r.todo \ {r.cur} /\ Failed(r).todo = r.todo \ {r.cur}
           /\ DoneWith(r).failed = r.failed /\ Failed(r).failed
  <1> DEFINE t == r.todo \ {r.cur}
  <1>1. t \in SUBSET Computes
    BY DEF Handler
  <1> HIDE DEF t
  <1>a. 0 \in Keys
    BY DEF Keys
  <1>2. [r EXCEPT !.pc = "loop", !.todo = t, !.cur = None, !.of = None, !.key = 0]
          \in Handler
    BY <1>1, <1>a DEF Handler
  <1>3. DoneWith(r) = [r EXCEPT !.pc = "loop", !.todo = t, !.cur = None, !.of = None,
                                !.key = 0]
    BY DEF DoneWith, t
  <1>4. /\ DoneWith(r) \in Handler /\ DoneWith(r).pc = "loop"
        /\ DoneWith(r).at = r.at /\ DoneWith(r).gen = r.gen
        /\ DoneWith(r).todo = t /\ DoneWith(r).failed = r.failed
    BY <1>2, <1>3 DEF Handler
  <1>5. Failed(r) \in Handler
    BY <1>4 DEF Failed, Handler
  <1>6. /\ Failed(r).pc = DoneWith(r).pc
        /\ Failed(r).at = DoneWith(r).at /\ Failed(r).gen = DoneWith(r).gen
        /\ Failed(r).todo = DoneWith(r).todo /\ Failed(r).failed
    BY <1>4 DEF Failed, Handler
  <1> QED
    BY <1>4, <1>5, <1>6 DEF t

(* A complete specification is sent with a key, or the compute has failed (Send). *)
LEMMA SendHandler ==
    ASSUME NEW r \in Handler, secret \in Keys \ {0}
    PROVE  /\ Send(r) \in Handler
           /\ Send(r).at = r.at /\ Send(r).gen = r.gen
           /\ \/ /\ Send(r).pc = "loop"
                 /\ Send(r).failed /\ Send(r).todo \subseteq r.todo
              \/ /\ Send(r).pc = "sent" /\ Send(r).key # 0
                 /\ Send(r).cur = r.cur /\ Send(r).of = r.of
                 /\ Send(r).todo = r.todo /\ Send(r).failed = r.failed
  <1>1. CASE Posts(r.cur)
    <2>1. Send(r) = [r EXCEPT !.pc = "sent", !.key = secret]
      BY <1>1 DEF Send
    <2>2. [r EXCEPT !.pc = "sent", !.key = secret] \in Handler
      BY DEF Handler
    <2> QED
      BY <2>1, <2>2 DEF Handler
  <1>2. CASE ~Posts(r.cur)
    BY <1>2, DoneHandler DEF Send
  <1> QED
    BY <1>1, <1>2

(* One request takes a step, and the others are left alone. *)
LEMMA RequestStep ==
    ASSUME req \in [Requests -> Handler], RequestsInFlight,
           NEW h \in Requests, NEW r \in Handler, InFlight(h, r),
           req' = [req EXCEPT ![h] = r]
    PROVE  req' \in [Requests -> Handler] /\ RequestsInFlight'
  <1>1. \A g \in Requests : req'[g] = IF g = h THEN r ELSE req[g]
    OBVIOUS
  <1>2. \A g \in Requests : InFlight(g, req'[g])
    BY <1>1 DEF RequestsInFlight
  <1> QED
    BY <1>2 DEF RequestsInFlight

(* A handler between two computes, or idle, needs no more than its shards. *)
LEMMA LoopInFlight ==
    ASSUME NEW h \in Requests, NEW r \in Handler, r.pc = "loop", ~IsSpec(h),
           h[1] = "attach" => r.at # 0
    PROVE  InFlight(h, r)
  BY DEF InFlight

(* The requests of the three kinds. *)
LEMMA RequestKinds ==
    /\ \A t \in Tenants : <<"attach", t>> \in Requests
    /\ \A c \in Computes : <<"safekeepers", c>> \in Requests /\ <<"spec", c>> \in Requests
    /\ \A h \in Requests : IsSpec(h) => h[2] \in Computes
  BY DEF Requests, IsSpec

(* What the reads of GenerateComputeSpec find is a Deployment. *)
LEMMA DeploymentType ==
    ASSUME cached \in [Computes -> Nat], NEW c \in Computes
    PROVE  Deployment(c, cached[c]) \in Deployments
  <1>1. cached[c] \div 4 \in Nat
    OBVIOUS
  <1> QED
    BY <1>1 DEF Deployment, Deployments

(* A POST that is under way is one that can be served later. *)
LEMMA SentPosts ==
    ASSUME req \in [Requests -> Handler], RequestsInFlight
    PROVE  /\ \A h \in Requests : req[h].pc = "sent" => PostOf(h) \in Post
           /\ \A hs \in SUBSET Requests : Sent(hs) \in SUBSET Post
  <1>1. ASSUME NEW h \in Requests, req[h].pc = "sent" PROVE PostOf(h) \in Post
    <2>1. /\ req[h] \in Handler
          /\ req[h].cur \in Computes /\ req[h].of \in Deployments
          /\ req[h].at # 0 /\ req[h].key # 0
      BY <1>1 DEF RequestsInFlight, InFlight
    <2>2. req[h].at \in Places \ {0} /\ req[h].key \in Keys \ {0}
          /\ req[h].gen \in Generations
      BY <2>1 DEF Handler
    <2>3. [of |-> req[h].of, at |-> req[h].at, gen |-> req[h].gen] \in Specs
      BY <2>1, <2>2 DEF Specs
    <2> QED
      BY <2>1, <2>2, <2>3 DEF PostOf, Post
  <1> QED
    BY <1>1 DEF Sent

(* The next compute of a notification has failed, or its specification is made from a  *)
(* Deployment found for it (Refresh).                                                  *)
LEMMA RefreshSteps ==
    ASSUME TypeOK, NEW h \in Requests, NEW c \in Computes, Refresh(h, c)
    PROVE  \E r \in Handler :
             /\ req' = [req EXCEPT ![h] = r]
             /\ r.at = req[h].at /\ r.gen = req[h].gen
             /\ \/ r.pc = "loop" /\ r.failed /\ r.todo \subseteq req[h].todo
                \/ /\ \/ h[1] = "attach" /\ r.pc = "sent" /\ r.key # 0
                      \/ h[1] # "attach" /\ r.pc = "info"
                   /\ r.cur = c /\ r.todo = req[h].todo /\ r.failed = req[h].failed
                   /\ \E d \in Computes : Generates(c, d) /\ r.of = Deployment(d, cached[d])
  <1> DEFINE r == [req[h] EXCEPT !.cur = c]
             Found(x, d) == Generates(c, d) /\ x.of = Deployment(d, cached[d])
             Good(x) == /\ req' = [req EXCEPT ![h] = x]
                        /\ x.at = req[h].at /\ x.gen = req[h].gen
                        /\ \/ x.pc = "loop" /\ x.failed /\ x.todo \subseteq req[h].todo
                           \/ /\ \/ h[1] = "attach" /\ x.pc = "sent" /\ x.key # 0
                                 \/ h[1] # "attach" /\ x.pc = "info"
                              /\ x.cur = c /\ x.todo = req[h].todo
                              /\ x.failed = req[h].failed
                              /\ \E d \in Computes : Found(x, d)
  <1> SUFFICES \E x \in Handler : Good(x)
    OBVIOUS
  <1>1. req[h] \in Handler /\ secret \in Keys \ {0}
    BY DEF TypeOK, ObjectsOK
  <1>2. /\ r \in Handler /\ r.cur = c /\ r.at = req[h].at /\ r.gen = req[h].gen
        /\ r.todo = req[h].todo /\ r.failed = req[h].failed
    BY <1>1 DEF Handler
  <1>3. CASE req' = [req EXCEPT ![h] = Failed(r)]
    <2> HIDE DEF r, Found
    <2>1. /\ Failed(r) \in Handler /\ Failed(r).pc = "loop" /\ Failed(r).failed
          /\ Failed(r).at = r.at /\ Failed(r).gen = r.gen
          /\ Failed(r).todo \subseteq r.todo
      BY <1>2, DoneHandler
    <2>2. Good(Failed(r))
      BY <1>2, <1>3, <2>1
    <2> QED
      BY <2>1, <2>2
  <1>4. ASSUME NEW d \in Computes, Generates(c, d),
               req' = [req EXCEPT ![h] =
                         IF h[1] = "attach" THEN Send([r EXCEPT !.of = Deployment(d, cached[d])])
                         ELSE [r EXCEPT !.of = Deployment(d, cached[d]), !.pc = "info"]]
        PROVE  \E x \in Handler : Good(x)
    <2> DEFINE of == Deployment(d, cached[d])
               s  == [r EXCEPT !.of = of]
               i  == [r EXCEPT !.of = of, !.pc = "info"]
    <2>1. of \in Deployments
      BY DeploymentType DEF TypeOK, ObjectsOK
    <2>2. req' = [req EXCEPT ![h] = IF h[1] = "attach" THEN Send(s) ELSE i]
      BY <1>4
    <2> HIDE DEF of, r
    <2>3. /\ s \in Handler /\ s.cur = c /\ s.of = of /\ s.at = r.at /\ s.gen = r.gen
          /\ i \in Handler /\ i.cur = c /\ i.of = of /\ i.at = r.at /\ i.gen = r.gen
          /\ i.pc = "info" /\ s.todo = r.todo /\ i.todo = r.todo
          /\ s.failed = r.failed /\ i.failed = r.failed
      BY <1>2, <2>1 DEF Handler
    <2> HIDE DEF s, i
    <2>4. \A x : x.of = of => Found(x, d)
      BY <1>4 DEF of
    <2> HIDE DEF Found
    <2>5. CASE h[1] = "attach"
      <3>1. Send(s) \in Handler /\ Good(Send(s))
        BY <1>1, <1>2, <2>2, <2>3, <2>4, <2>5, SendHandler
      <3> QED
        BY <3>1
    <2>6. CASE h[1] # "attach"
      <3>1. i \in Handler /\ Good(i)
        BY <1>2, <2>2, <2>3, <2>4, <2>6
      <3> QED
        BY <3>1
    <2> QED
      BY <2>5, <2>6
  <1> QED
    BY <1>3, <1>4 DEF Refresh

(* The answer of the storage controller completes a specification; it is sent or given *)
(* to the compute that asked for it (TenantInfo).                                      *)
LEMMA TenantInfoSteps ==
    ASSUME TypeOK, RequestsInFlight, NEW h \in Requests, TenantInfo(h)
    PROVE  /\ h[1] # "attach" /\ req[h].pc = "info"
           /\ \E r \in Handler :
                /\ req' = [req EXCEPT ![h] = r]
                /\ r.gen = req[h].gen
                /\ \/ /\ ~IsSpec(h) /\ r.pc = "loop"
                      /\ r.failed /\ r.todo \subseteq req[h].todo
                   \/ /\ \/ IsSpec(h) /\ r.pc = "answer"
                         \/ ~IsSpec(h) /\ r.pc = "sent" /\ r.key # 0
                      /\ r.at # 0 /\ r.cur = req[h].cur /\ r.of = req[h].of
                      /\ r.at = attached[TenantOf[req[h].of[1]]]
                      /\ r.todo = req[h].todo /\ r.failed = req[h].failed
  <1> DEFINE a == attached[TenantOf[req[h].of[1]]]
             r == [req[h] EXCEPT !.at = a]
             s == [r EXCEPT !.pc = "answer"]
  <1>1. req[h] \in Handler /\ secret \in Keys \ {0}
    BY DEF TypeOK, ObjectsOK
  <1>2. /\ req[h].pc = "info" /\ req[h].cur \in Computes /\ req[h].of \in Deployments
        /\ h[1] # "attach"
    BY DEF TenantInfo, RequestsInFlight, InFlight
  <1>3. a \in Places /\ a # 0
    BY <1>2 DEF Deployments, TypeOK, StorageOK
  <1>4. req' = [req EXCEPT ![h] = IF IsSpec(h) THEN s ELSE Send(r)]
    BY DEF TenantInfo
  <1> HIDE DEF a
  <1>5. /\ r \in Handler /\ r.at = a /\ r.cur = req[h].cur /\ r.of = req[h].of
        /\ s \in Handler /\ s.at = a /\ s.cur = req[h].cur /\ s.of = req[h].of
        /\ s.pc = "answer" /\ r.gen = req[h].gen /\ s.gen = req[h].gen
        /\ r.todo = req[h].todo /\ s.todo = req[h].todo
        /\ r.failed = req[h].failed /\ s.failed = req[h].failed
    BY <1>1, <1>3 DEF Handler
  <1> HIDE DEF r, s
  <1>6. CASE IsSpec(h)
    BY <1>2, <1>3, <1>4, <1>5, <1>6 DEF a
  <1>7. CASE ~IsSpec(h)
    <2>1. req' = [req EXCEPT ![h] = Send(r)] /\ Send(r) \in Handler
      BY <1>1, <1>4, <1>5, <1>7, SendHandler
    <2>2. /\ Send(r).gen = req[h].gen
          /\ \/ /\ Send(r).pc = "loop"
                /\ Send(r).failed /\ Send(r).todo \subseteq req[h].todo
             \/ /\ Send(r).pc = "sent" /\ Send(r).key # 0 /\ Send(r).at # 0
                /\ Send(r).cur = req[h].cur /\ Send(r).of = req[h].of
                /\ Send(r).at = a
                /\ Send(r).todo = req[h].todo /\ Send(r).failed = req[h].failed
      BY <1>1, <1>3, <1>5, SendHandler
    <2> QED
      BY <1>2, <1>7, <2>1, <2>2 DEF a
  <1> QED
    BY <1>6, <1>7

(* Every step of the server, of its callers and of the failures leaves each handler  *)
(* with what the rest of its request needs.                                          *)
LEMMA HandlersStep ==
    ASSUME TypeOK, RequestsInFlight, [Next]_vars
    PROVE  req' \in [Requests -> Handler] /\ RequestsInFlight'
  <1> USE DEF TypeOK, ObjectsOK, StorageOK
  <1> DEFINE Goal == req' \in [Requests -> Handler] /\ RequestsInFlight'
  <1>a. ASSUME NEW h \in Requests, NEW r \in Handler, InFlight(h, r),
               req' = [req EXCEPT ![h] = r]
        PROVE  Goal
    BY <1>a, RequestStep
  <1>b. ASSUME UNCHANGED req PROVE Goal
    BY <1>b DEF RequestsInFlight
  <1>c. ASSUME NEW h \in Requests, req' = [req EXCEPT ![h] = Idle] PROVE Goal
    BY <1>c, <1>a, IdleHandler
  <1>d. ASSUME NEW h \in Requests PROVE req[h] \in Handler /\ InFlight(h, req[h])
    BY <1>d DEF RequestsInFlight
  <1>e. ASSUME NEW h \in Requests, ~IsSpec(h), req[h].pc # "idle",
               \/ req' = [req EXCEPT ![h] = Failed(req[h])]
               \/ req' = [req EXCEPT ![h] = DoneWith(req[h])]
        PROVE  Goal
    <2>1. h[1] = "attach" => req[h].at # 0
      BY <1>e, <1>d DEF InFlight
    <2>2. InFlight(h, Failed(req[h])) /\ InFlight(h, DoneWith(req[h]))
      BY <2>1, <1>e, <1>d, DoneHandler, LoopInFlight
    <2> QED
      BY <2>2, <1>a, <1>d, <1>e, DoneHandler
  <1>1. ASSUME NEW t \in Tenants, NotifyAttach(t) PROVE Goal
    <2> DEFINE r == [Idle EXCEPT !.pc = "loop", !.todo = FindTenantDeployments(t),
                                 !.at = attached[t]]
    <2>1. FindTenantDeployments(t) \in SUBSET Computes
      BY DEF FindTenantDeployments
    <2>2. attached[t] \in Places /\ attached[t] # 0
      OBVIOUS
    <2>3. r \in Handler /\ r.pc = "loop" /\ r.at # 0
      BY <2>1, <2>2, IdleHandler DEF Handler
    <2>4. req' = [req EXCEPT ![<<"attach", t>>] = r]
      BY <1>1 DEF NotifyAttach
    <2> HIDE DEF r
    <2>5. InFlight(<<"attach", t>>, r)
      BY <2>3 DEF InFlight, IsSpec
    <2> QED
      BY <2>3, <2>4, <2>5, <1>a, RequestKinds
  <1>2. ASSUME NEW c \in Computes, NotifySafekeepers(c) PROVE Goal
    <2> DEFINE r == [Idle EXCEPT !.pc = "loop", !.todo = FindTenantTimelineDeployments(c),
                                 !.gen = gen[c]]
    <2>1. FindTenantTimelineDeployments(c) \in SUBSET Computes
      BY DEF FindTenantTimelineDeployments
    <2>2. gen[c] \in Generations
      OBVIOUS
    <2>3. r \in Handler /\ r.pc = "loop"
      BY <2>1, <2>2, IdleHandler DEF Handler
    <2>4. req' = [req EXCEPT ![<<"safekeepers", c>>] = r]
      BY <1>2 DEF NotifySafekeepers
    <2> HIDE DEF r
    <2>5. InFlight(<<"safekeepers", c>>, r)
      BY <2>3 DEF InFlight, IsSpec
    <2> QED
      BY <2>3, <2>4, <2>5, <1>a, RequestKinds
  <1>3. ASSUME NEW c \in Computes, FetchSpec(c) PROVE Goal
    <2>1. PICK d \in Computes :
            req' = [req EXCEPT ![<<"spec", c>>] =
                      [Idle EXCEPT !.pc = "info", !.cur = c,
                                   !.of = Deployment(d, cached[d]), !.key = secret]]
      BY <1>3 DEF FetchSpec
    <2> DEFINE of == Deployment(d, cached[d])
               r  == [Idle EXCEPT !.pc = "info", !.cur = c, !.of = of, !.key = secret]
    <2>2. of \in Deployments
      BY DeploymentType
    <2>3. req' = [req EXCEPT ![<<"spec", c>>] = r]
      BY <2>1
    <2> HIDE DEF of
    <2>4. r \in Handler /\ r.pc = "info" /\ r.cur = c /\ r.of = of
      BY <2>2, IdleHandler DEF Handler
    <2>5. InFlight(<<"spec", c>>, r)
      BY <2>2, <2>4 DEF InFlight, IsSpec
    <2> HIDE DEF r
    <2> QED
      BY <2>3, <2>4, <2>5, <1>a, RequestKinds
  <1>4. ASSUME NEW h \in Requests, NEW c \in Computes, Refresh(h, c) PROVE Goal
    <2>1. ~IsSpec(h) /\ (h[1] = "attach" => req[h].at # 0)
      BY <1>4, <1>d DEF Refresh, InFlight
    <2>2. PICK r \in Handler :
            /\ req' = [req EXCEPT ![h] = r]
            /\ r.at = req[h].at
            /\ \/ r.pc = "loop"
               \/ /\ \/ h[1] = "attach" /\ r.pc = "sent" /\ r.key # 0
                     \/ h[1] # "attach" /\ r.pc = "info"
                  /\ r.cur = c
                  /\ \E d \in Computes : r.of = Deployment(d, cached[d])
      BY <1>4, RefreshSteps
    <2>3. r.pc # "loop" => r.of \in Deployments
      BY <2>2, DeploymentType
    <2>4. InFlight(h, r)
      BY <2>1, <2>2, <2>3 DEF InFlight
    <2> QED
      BY <2>2, <2>4, <1>a
  <1>5. ASSUME NEW h \in Requests, TenantInfo(h) PROVE Goal
    <2>1. /\ h[1] # "attach" /\ req[h].pc = "info"
          /\ req[h].cur \in Computes /\ req[h].of \in Deployments
          /\ IsSpec(h) => req[h].cur = h[2]
      BY <1>5, <1>d, TenantInfoSteps DEF InFlight
    <2>2. PICK r \in Handler :
            /\ req' = [req EXCEPT ![h] = r]
            /\ \/ ~IsSpec(h) /\ r.pc = "loop"
               \/ /\ \/ IsSpec(h) /\ r.pc = "answer"
                     \/ ~IsSpec(h) /\ r.pc = "sent" /\ r.key # 0
                  /\ r.at # 0 /\ r.cur = req[h].cur /\ r.of = req[h].of
      BY <1>5, TenantInfoSteps
    <2>3. InFlight(h, r)
      BY <2>1, <2>2 DEF InFlight
    <2> QED
      BY <2>2, <2>3, <1>a
  <1>6. ASSUME NEW h \in Requests, TenantInfoFails(h) PROVE Goal
    BY <1>6, <1>c, <1>e DEF TenantInfoFails
  <1>7. ASSUME NEW h \in Requests, ConfigureAnswered(h) \/ ConfigureTimesOut(h) PROVE Goal
    <2>1. ~IsSpec(h) /\ req[h].pc # "idle"
      BY <1>7, <1>d DEF ConfigureAnswered, ConfigureTimesOut, InFlight
    <2> QED
      BY <2>1, <1>7, <1>e DEF ConfigureAnswered, ConfigureTimesOut
  <1>8. ASSUME NEW h \in Requests, Respond(h) \/ Abandoned(h) PROVE Goal
    BY <1>8, <1>c DEF Respond, Abandoned
  <1>9. ASSUME NEW c \in Computes, UserStep(c) \/ ClusterStep(c) PROVE Goal
    BY <1>9, <1>b, <1>c, RequestKinds DEF UserStep, ClusterStep, Advance
  <1>10. ASSUME NEW c \in Computes, Starts(c) \/ PodFails(c) PROVE Goal
    BY <1>10, <1>c, RequestKinds DEF Starts, PodFails
  <1>11. CASE Restart
    BY <1>11, IdleHandler DEF Restart, RequestsInFlight
  <1>12. CASE \/ \E t \in Tenants : Move(t)
              \/ \E c \in Computes : NewGeneration(c) \/ CacheFollows(c)
              \/ SecretChanges
              \/ \E p \in late : LateConfigure(p)
              \/ UNCHANGED vars
    BY <1>12, <1>b
       DEF Move, NewGeneration, CacheFollows, SecretChanges, LateConfigure, vars
  <1> QED
    BY <1>1, <1>2, <1>3, <1>4, <1>5, <1>6, <1>7, <1>8, <1>9, <1>10, <1>11, <1>12
       DEF Next, ServerStep, Environment, Failure

(* A compute that takes a specification is well typed, and has been given that      *)
(* attachment (Configured).                                                         *)
LEMMA ConfiguredTypes ==
    ASSUME TypeOK, NEW p \in Post, Configured(p)
    PROVE  /\ PodsOK'
           /\ \A c \in Computes \ {p.to} : pod'[c] = pod[c]
           /\ pod'[p.to].spec = p.spec /\ pod'[p.to].up = pod[p.to].up
           /\ pod'[p.to].seen = (IF pod[p.to].seen < p.spec.at THEN p.spec.at
                                 ELSE pod[p.to].seen)
  <1> DEFINE o == pod[p.to]
             m == Max({o.seen, p.spec.at})
  <1>1. p.to \in Computes /\ p.spec \in Specs /\ o \in Pods
    BY DEF TypeOK, PodsOK, Post
  <1>2. p.spec.at \in Places /\ o.seen \in Places
    BY <1>1 DEF Specs, Pods
  <1>3. /\ m \in Places /\ p.spec.at <= m
        /\ m = (IF o.seen < p.spec.at THEN p.spec.at ELSE o.seen)
    <2>1. PICK x \in {o.seen, p.spec.at} : \A y \in {o.seen, p.spec.at} : y <= x
      BY <1>2 DEF Places
    <2>2. m \in {o.seen, p.spec.at} /\ \A y \in {o.seen, p.spec.at} : y <= m
      BY <2>1 DEF Max
    <2> QED
      BY <2>2, <1>2 DEF Places
  <1>4. pod' = [pod EXCEPT ![p.to] = [o EXCEPT !.spec = p.spec, !.seen = m]]
    BY DEF Configured
  <1> HIDE DEF m, o
  <1>5. /\ [o EXCEPT !.spec = p.spec, !.seen = m] \in Pods
        /\ [o EXCEPT !.spec = p.spec, !.seen = m].spec = p.spec
        /\ [o EXCEPT !.spec = p.spec, !.seen = m].seen = m
        /\ [o EXCEPT !.spec = p.spec, !.seen = m].up = o.up
    BY <1>1, <1>3 DEF Pods
  <1>6. /\ \A c \in Computes \ {p.to} : pod'[c] = pod[c]
        /\ pod'[p.to] = [o EXCEPT !.spec = p.spec, !.seen = m]
    BY <1>1, <1>4 DEF TypeOK, PodsOK
  <1>7. PodsOK'
    BY <1>1, <1>3, <1>4, <1>5 DEF TypeOK, PodsOK
  <1> QED
    BY <1>3, <1>5, <1>6, <1>7 DEF o

(* A handler keeps the attachment or generation it was called with, which is no      *)
(* newer than the storage controller's.                                              *)
LEMMA NotAheadStep ==
    ASSUME TypeOK, RequestsInFlight, NotAhead, [Next]_vars
    PROVE  NotAhead'
  <1>1. ASSUME NEW h \in Requests, h[1] \in {"attach", "safekeepers"},
               ~(\E t \in Tenants : h = <<"attach", t>> /\ NotifyAttach(t)),
               ~(\E c \in Computes : h = <<"safekeepers", c>> /\ NotifySafekeepers(c))
        PROVE  /\ req'[h].gen \in {0, req[h].gen}
               /\ h[1] = "attach" => req'[h].at \in {0, req[h].at}
    <2> DEFINE Goal == /\ req'[h].gen \in {0, req[h].gen}
                       /\ h[1] = "attach" => req'[h].at \in {0, req[h].at}
    <2>a. req \in [Requests -> Handler] /\ req[h] \in Handler
      BY DEF TypeOK
    <2>b. Idle.at = 0 /\ Idle.gen = 0
      BY DEF Idle
    <2>c. ASSUME NEW g \in Requests, NEW r, req' = [req EXCEPT ![g] = r],
                 g = h => /\ r.gen \in {0, req[h].gen}
                          /\ h[1] = "attach" => r.at \in {0, req[h].at}
          PROVE  Goal
      BY <2>a, <2>c
    <2>d. ASSUME NEW g \in Requests,
                 \/ req' = [req EXCEPT ![g] = Idle]
                 \/ req' = [req EXCEPT ![g] = Failed(req[g])]
                 \/ req' = [req EXCEPT ![g] = DoneWith(req[g])]
          PROVE  Goal
      <3>1. /\ Failed(req[g]).at = req[g].at /\ Failed(req[g]).gen = req[g].gen
            /\ DoneWith(req[g]).at = req[g].at /\ DoneWith(req[g]).gen = req[g].gen
        BY <2>a, DoneHandler
      <3> QED
        BY <2>b, <2>c, <2>d, <3>1
    <2>1. ASSUME NEW t \in Tenants, NotifyAttach(t) PROVE Goal
      BY <2>1, <1>1, <2>c, RequestKinds DEF NotifyAttach
    <2>2. ASSUME NEW c \in Computes, NotifySafekeepers(c) PROVE Goal
      BY <2>2, <1>1, <2>c, RequestKinds DEF NotifySafekeepers
    <2>3. ASSUME NEW c \in Computes, FetchSpec(c) PROVE Goal
      <3>1. <<"spec", c>> # h
        BY <1>1
      <3> QED
        BY <2>3, <3>1, <2>c, RequestKinds DEF FetchSpec
    <2>4. ASSUME NEW g \in Requests, NEW c \in Computes, Refresh(g, c) PROVE Goal
      <3>1. PICK r \in Handler : /\ req' = [req EXCEPT ![g] = r]
                                 /\ r.at = req[g].at /\ r.gen = req[g].gen
        BY <2>4, RefreshSteps
      <3> QED
        BY <3>1, <2>c
    <2>5. ASSUME NEW g \in Requests, TenantInfo(g) PROVE Goal
      <3>1. PICK r \in Handler : req' = [req EXCEPT ![g] = r] /\ r.gen = req[g].gen
        BY <2>5, TenantInfoSteps
      <3> QED
        BY <2>5, <3>1, <2>c, TenantInfoSteps
    <2>6. ASSUME NEW g \in Requests,
                 \/ TenantInfoFails(g) \/ ConfigureAnswered(g) \/ ConfigureTimesOut(g)
                 \/ Respond(g) \/ Abandoned(g)
          PROVE  Goal
      BY <2>6, <2>d
         DEF TenantInfoFails, ConfigureAnswered, ConfigureTimesOut, Respond, Abandoned
    <2>7. ASSUME UNCHANGED req PROVE Goal
      BY <2>7
    <2>8. ASSUME NEW c \in Computes, UserStep(c) \/ ClusterStep(c) \/ Starts(c) \/ PodFails(c)
          PROVE  Goal
      BY <2>8, <2>7, <2>d, RequestKinds DEF UserStep, ClusterStep, Advance, Starts, PodFails
    <2>9. CASE Restart
      BY <2>9, <2>b DEF Restart
    <2>10. CASE \/ \E t \in Tenants : Move(t)
                \/ \E c \in Computes : NewGeneration(c) \/ CacheFollows(c)
                \/ SecretChanges
                \/ \E p \in late : LateConfigure(p)
                \/ UNCHANGED vars
      BY <2>10, <2>7
         DEF Move, NewGeneration, CacheFollows, SecretChanges, LateConfigure, vars
    <2> QED
      BY <2>1, <2>2, <2>3, <2>4, <2>5, <2>6, <2>8, <2>9, <2>10
         DEF Next, ServerStep, Environment, Failure
  <1>2. /\ \A t \in Tenants : attached[t] <= attached'[t] /\ attached'[t] \in Nat
        /\ \A c \in Computes : gen[c] <= gen'[c] /\ gen'[c] \in Nat
    <2>a. /\ \A t \in Tenants : attached[t] \in Nat
          /\ \A c \in Computes : gen[c] \in Nat
      BY DEF TypeOK, StorageOK, Places, Generations
    <2>1. \/ \E t \in Tenants : attached' = [attached EXCEPT ![t] = @ + 1] /\ gen' = gen
          \/ \E c \in Computes : attached' = attached /\ gen' = [gen EXCEPT ![c] = @ + 1]
          \/ attached' = attached /\ gen' = gen
      BY Zenon
         DEF Next, ServerStep, Environment, Failure, NotifyAttach, NotifySafekeepers,
             FetchSpec, Starts, UserStep, ClusterStep, Advance, CacheFollows, Refresh,
             TenantInfo, ConfigureAnswered, Respond, Move, NewGeneration, SecretChanges,
             LateConfigure, PodFails, TenantInfoFails, ConfigureTimesOut, Abandoned, Restart,
             scVars, vars
    <2>2. ASSUME NEW t \in Tenants, attached' = [attached EXCEPT ![t] = @ + 1], gen' = gen
          PROVE  <1>2
      BY <2>2, <2>a DEF TypeOK, StorageOK
    <2>3. ASSUME NEW c \in Computes, attached' = attached, gen' = [gen EXCEPT ![c] = @ + 1]
          PROVE  <1>2
      BY <2>3, <2>a DEF TypeOK, StorageOK
    <2> QED
      BY <2>1, <2>2, <2>3, <2>a
  <1>3. ASSUME NEW t \in Tenants
        PROVE  req'[<<"attach", t>>].at <= attached'[t]
    <2> DEFINE h == <<"attach", t>>
    <2>1. h \in Requests /\ h[1] = "attach" /\ req[h] \in Handler
      BY RequestKinds DEF TypeOK
    <2>2. req[h].at \in Nat /\ attached[t] \in Nat
      BY <2>1 DEF TypeOK, StorageOK, Handler, Places
    <2>3. req[h].at <= attached[t] /\ attached[t] <= attached'[t] /\ attached'[t] \in Nat
      BY <1>2 DEF NotAhead
    <2>4. CASE NotifyAttach(t)
      <3>1. req'[h].at = attached[t]
        BY <2>4, <2>1 DEF NotifyAttach, TypeOK, Idle
      <3> QED
        BY <2>3, <3>1
    <2>5. CASE ~NotifyAttach(t)
      <3>1. req'[h].at \in {0, req[h].at}
        BY <2>5, <2>1, <1>1
      <3> QED
        BY <2>2, <2>3, <3>1
    <2> QED
      BY <2>4, <2>5
  <1>4. ASSUME NEW c \in Computes
        PROVE  req'[<<"safekeepers", c>>].gen <= gen'[c]
    <2> DEFINE h == <<"safekeepers", c>>
    <2>1. h \in Requests /\ h[1] = "safekeepers" /\ req[h] \in Handler
      BY RequestKinds DEF TypeOK
    <2>2. req[h].gen \in Nat /\ gen[c] \in Nat
      BY <2>1 DEF TypeOK, StorageOK, Handler, Generations
    <2>3. req[h].gen <= gen[c] /\ gen[c] <= gen'[c] /\ gen'[c] \in Nat
      BY <1>2 DEF NotAhead
    <2>4. CASE NotifySafekeepers(c)
      <3>1. req'[h].gen = gen[c]
        BY <2>4, <2>1 DEF NotifySafekeepers, TypeOK, Idle
      <3> QED
        BY <2>3, <3>1
    <2>5. CASE ~NotifySafekeepers(c)
      <3>1. req'[h].gen \in {0, req[h].gen}
        BY <2>5, <2>1, <1>1
      <3> QED
        BY <2>2, <2>3, <3>1
    <2> QED
      BY <2>4, <2>5
  <1> QED
    BY <1>3, <1>4 DEF NotAhead

(* The inductive invariant behind type correctness. *)
LEMMA TypesInductive == Spec => [](TypeOK /\ RequestsInFlight /\ NotAhead)
  <1>1. Init => TypeOK /\ RequestsInFlight /\ NotAhead
    <2> SUFFICES ASSUME Init PROVE TypeOK /\ RequestsInFlight /\ NotAhead
      OBVIOUS
    <2>1. /\ 1 \in Places \ {0} /\ 0 \in Places /\ 0 \in Generations
          /\ 1 \in Keys \ {0} /\ 0 \in Keys
      BY DEF Places, Generations, Keys
    <2>2. req \in [Requests -> Handler] /\ RequestsInFlight
      BY IdleHandler DEF Init, RequestsInFlight
    <2>3. ASSUME NEW c \in Computes PROVE Deployment(c, 2) \in Deployments
      BY DEF Deployment, Deployments
    <2>4. /\ Down \in Pods
          /\ \A c \in Computes :
               [up |-> TRUE, key |-> 1, seen |-> 1,
                spec |-> [of |-> Deployment(c, 2), at |-> 1, gen |-> 0]] \in Pods
      BY <2>1, <2>3 DEF Down, Pods, Specs, NoSpec
    <2>5. pod \in [Computes -> Pods]
      BY <2>4 DEF Init
    <2>6. \A c \in Computes : pod[c].spec.at <= pod[c].seen
      BY DEF Init, Down, NoSpec
    <2>7. NotAhead
      <3>1. Idle.at = 0 /\ Idle.gen = 0
        BY DEF Idle
      <3>2. /\ \A t \in Tenants : req[<<"attach", t>>] = Idle /\ attached[t] = 1
            /\ \A c \in Computes : req[<<"safekeepers", c>>] = Idle /\ gen[c] = 0
        BY RequestKinds DEF Init
      <3> QED
        BY <3>1, <3>2 DEF NotAhead
    <2>8. ObjectsOK /\ StorageOK
      BY <2>1 DEF Init, ObjectsOK, StorageOK
    <2> QED
      BY <2>2, <2>5, <2>6, <2>7, <2>8 DEF Init, TypeOK, PodsOK
  <1>2. TypeOK /\ RequestsInFlight /\ NotAhead /\ [Next]_vars
          => TypeOK' /\ RequestsInFlight' /\ NotAhead'
    <2> SUFFICES ASSUME TypeOK, RequestsInFlight, NotAhead, [Next]_vars
                 PROVE  TypeOK' /\ RequestsInFlight' /\ NotAhead'
      OBVIOUS
    <2>e. NotAhead'
      BY NotAheadStep
    <2>a. req' \in [Requests -> Handler] /\ RequestsInFlight'
      BY HandlersStep
    <2>b. /\ \A h \in Requests : req[h].pc = "sent" => PostOf(h) \in Post
          /\ \A hs \in SUBSET Requests : Sent(hs) \in SUBSET Post
      BY SentPosts DEF TypeOK
    <2>c. Down \in Pods /\ Down.spec.at <= Down.seen
      BY DEF Down, Pods, NoSpec, Specs, Places, Generations, Keys
    <2>d. /\ Fault => faults' \in 0..MaxFaults
          /\ UNCHANGED faults => faults' \in 0..MaxFaults
      BY DEF Fault, TypeOK
    <2>f. UNCHANGED k8sVars => ObjectsOK'
      BY DEF TypeOK, ObjectsOK, k8sVars
    <2>g. UNCHANGED scVars => StorageOK'
      BY DEF TypeOK, StorageOK, scVars
    <2>h. UNCHANGED pod => PodsOK'
      BY DEF TypeOK, PodsOK
    <2>i. UNCHANGED late => late' \in SUBSET Post
      BY DEF TypeOK
    <2>j. ASSUME NEW c \in Computes, pod' = [pod EXCEPT ![c] = Down] PROVE PodsOK'
      BY <2>c, <2>j DEF TypeOK, PodsOK
    <2>1. ASSUME NEW t \in Tenants, Move(t) PROVE TypeOK'
      <3>1. attached[t] + 1 \in Places \ {0}
        BY <2>1 DEF Move, TypeOK, StorageOK, Places
      <3>2. attached' \in [Tenants -> Places \ {0}]
        BY <2>1, <3>1 DEF Move, TypeOK, StorageOK
      <3>3. \A u \in Tenants : acked[u] <= attached'[u]
        BY <2>1, <3>1 DEF Move, TypeOK, StorageOK, Places
      <3>4. StorageOK'
        BY <2>1, <3>2, <3>3 DEF Move, TypeOK, StorageOK
      <3> QED
        BY <2>1, <3>4, <2>a, <2>d, <2>f, <2>h, <2>i DEF Move, TypeOK
    <2>2. ASSUME NEW c \in Computes, NewGeneration(c) PROVE TypeOK'
      <3>1. /\ gen[c] < MaxGen
            /\ gen' = [gen EXCEPT ![c] = gen[c] + 1]
            /\ UNCHANGED <<k8sVars, attached, acked, genAcked, pod, req, late, faults>>
        BY <2>2, Zenon DEF NewGeneration
      <3>2. gen[c] + 1 \in Generations
        BY <3>1 DEF TypeOK, StorageOK, Generations
      <3>3. gen' \in [Computes -> Generations]
        BY <3>1, <3>2 DEF TypeOK, StorageOK
      <3>4. \A d \in Computes : genAcked[d] <= gen'[d]
        BY <3>1, <3>2 DEF TypeOK, StorageOK, Generations
      <3>5. StorageOK'
        BY <3>1, <3>3, <3>4 DEF TypeOK, StorageOK
      <3> QED
        BY <3>1, <3>5, <2>a, <2>d, <2>f, <2>h, <2>i DEF TypeOK
    <2>3. ASSUME NEW c \in Computes, UserStep(c) \/ ClusterStep(c) PROVE TypeOK'
      <3>1. Advance(c) /\ edits' \in 0..MaxEdits
        BY <2>3 DEF UserStep, ClusterStep, TypeOK, ObjectsOK
      <3>2. ObjectsOK'
        BY <3>1 DEF Advance, TypeOK, ObjectsOK
      <3>3. pod' = pod \/ pod' = [pod EXCEPT ![c] = Down]
        BY <3>1 DEF Advance
      <3> QED
        BY <3>1, <3>2, <3>3, <2>a, <2>d, <2>g, <2>h, <2>i, <2>j DEF Advance, TypeOK
    <2>4. ASSUME NEW c \in Computes, CacheFollows(c) PROVE TypeOK'
      <3>1. ObjectsOK'
        BY <2>4 DEF CacheFollows, TypeOK, ObjectsOK
      <3> QED
        BY <2>4, <3>1, <2>a, <2>d, <2>g, <2>h, <2>i DEF CacheFollows, TypeOK
    <2>5. ASSUME SecretChanges PROVE TypeOK'
      <3>1. secret' \in Keys \ {0}
        BY <2>5 DEF SecretChanges, TypeOK, ObjectsOK, Keys
      <3>2. ObjectsOK'
        BY <2>5, <3>1 DEF SecretChanges, TypeOK, ObjectsOK
      <3> QED
        BY <2>5, <3>2, <2>a, <2>d, <2>g, <2>h, <2>i DEF SecretChanges, TypeOK
    <2>6. ASSUME NEW c \in Computes, PodFails(c) PROVE TypeOK'
      BY <2>6, <2>a, <2>d, <2>f, <2>g, <2>i, <2>j DEF PodFails, TypeOK
    <2>7. ASSUME NEW c \in Computes, Starts(c) PROVE TypeOK'
      <3> DEFINE h == <<"spec", c>>
                 r == req[h]
                 n == [up |-> TRUE, spec |-> [of |-> r.of, at |-> r.at, gen |-> 0],
                       key |-> r.key, seen |-> r.at]
      <3>1. r \in Handler /\ r.of \in Deployments /\ r.at # 0
        BY <2>7, RequestKinds DEF Starts, TypeOK, RequestsInFlight, InFlight
      <3>2. r.at \in Places \ {0} /\ r.key \in Keys /\ 0 \in Generations
        BY <3>1 DEF Handler, Generations
      <3>3. n \in Pods /\ n.spec.at = r.at /\ n.seen = r.at
        BY <3>1, <3>2 DEF Pods, Specs
      <3>4. pod' = [pod EXCEPT ![c] = n]
        BY <2>7 DEF Starts
      <3>5. n.spec.at <= n.seen
        BY <3>2, <3>3 DEF Places
      <3> HIDE DEF n
      <3>6. PodsOK'
        BY <3>3, <3>4, <3>5 DEF TypeOK, PodsOK
      <3> QED
        BY <2>7, <3>6, <2>a, <2>d, <2>f, <2>g, <2>i DEF Starts, TypeOK
    <2>8. ASSUME NEW h \in Requests, ConfigureAnswered(h) PROVE TypeOK'
      <3>1. PodsOK'
        BY <2>8, <2>b, <2>h, ConfiguredTypes DEF ConfigureAnswered
      <3> QED
        BY <2>8, <3>1, <2>a, <2>d, <2>f, <2>g, <2>i DEF ConfigureAnswered, TypeOK
    <2>9. ASSUME NEW p \in late, LateConfigure(p) PROVE TypeOK'
      <3>1. p \in Post /\ late' \in SUBSET Post
        BY <2>9 DEF LateConfigure, TypeOK
      <3>2. PodsOK'
        BY <2>9, <3>1, <2>h, ConfiguredTypes DEF LateConfigure
      <3> QED
        BY <2>9, <3>1, <3>2, <2>a, <2>d, <2>f, <2>g DEF LateConfigure, TypeOK
    <2>10. ASSUME NEW h \in Requests, ConfigureTimesOut(h) \/ Abandoned(h) PROVE TypeOK'
      <3>1. {h} \in SUBSET Requests
        OBVIOUS
      <3>2. Sent({h}) \in SUBSET Post
        BY <3>1, <2>b
      <3>3. late' \in SUBSET Post
        BY <2>10, <3>2 DEF ConfigureTimesOut, Abandoned, TypeOK
      <3> QED
        BY <2>10, <3>3, <2>a, <2>d, <2>f, <2>g, <2>h
           DEF ConfigureTimesOut, Abandoned, TypeOK
    <2>11. ASSUME Restart PROVE TypeOK'
      <3>1. late' \in SUBSET Post
        BY <2>11, <2>b DEF Restart, TypeOK
      <3>2. ObjectsOK'
        BY <2>11 DEF Restart, TypeOK, ObjectsOK
      <3> QED
        BY <2>11, <3>1, <3>2, <2>a, <2>d, <2>g, <2>h DEF Restart, TypeOK
    <2>12. ASSUME NEW h \in Requests, Respond(h) PROVE TypeOK'
      <3>a. req[h].at \in Places /\ req[h].gen \in Generations
        BY DEF TypeOK, Handler
      <3>1. acked' \in [Tenants -> Places] /\ \A t \in Tenants : acked'[t] <= attached[t]
        <4>1. CASE h[1] = "attach" /\ OK(h)
          <5>1. h[2] \in Tenants /\ h = <<"attach", h[2]>>
            BY <4>1 DEF Requests
          <5>2. req[h].at <= attached[h[2]]
            BY <5>1 DEF NotAhead
          <5>3. acked' = [acked EXCEPT ![h[2]] = req[h].at]
            BY <2>12, <4>1 DEF Respond
          <5> QED
            BY <3>a, <5>1, <5>2, <5>3 DEF TypeOK, StorageOK
        <4>2. CASE acked' = acked
          BY <4>2 DEF TypeOK, StorageOK
        <4> QED
          BY <2>12, <4>1, <4>2 DEF Respond
      <3>2. /\ genAcked' \in [Computes -> Generations]
            /\ \A c \in Computes : genAcked'[c] <= gen[c]
        <4>1. CASE h[1] = "safekeepers" /\ OK(h)
          <5>1. h[2] \in Computes /\ h = <<"safekeepers", h[2]>>
            BY <4>1 DEF Requests
          <5>2. req[h].gen <= gen[h[2]]
            BY <5>1 DEF NotAhead
          <5>3. genAcked' = [genAcked EXCEPT ![h[2]] = req[h].gen]
            BY <2>12, <4>1 DEF Respond
          <5> QED
            BY <3>a, <5>1, <5>2, <5>3 DEF TypeOK, StorageOK
        <4>2. CASE genAcked' = genAcked
          BY <4>2 DEF TypeOK, StorageOK
        <4> QED
          BY <2>12, <4>1, <4>2 DEF Respond
      <3>3. StorageOK'
        BY <2>12, <3>1, <3>2 DEF Respond, TypeOK, StorageOK
      <3> QED
        BY <2>12, <3>3, <2>a, <2>d, <2>f, <2>h, <2>i DEF Respond, TypeOK
    <2>13. ASSUME \/ \E t \in Tenants : NotifyAttach(t)
                  \/ \E c \in Computes : NotifySafekeepers(c) \/ FetchSpec(c)
                  \/ \E h \in Requests : (\E c \in Computes : Refresh(h, c)) \/ TenantInfo(h)
                  \/ UNCHANGED vars
           PROVE  TypeOK'
      <3>1. UNCHANGED <<k8sVars, scVars, pod, late, faults>>
        BY <2>13, Zenon DEF NotifyAttach, NotifySafekeepers, FetchSpec, Refresh, TenantInfo,
                            vars, k8sVars, scVars
      <3> QED
        BY <3>1, <2>a, <2>d, <2>f, <2>g, <2>h, <2>i DEF TypeOK
    <2>14. ASSUME NEW h \in Requests, TenantInfoFails(h) PROVE TypeOK'
      BY <2>14, <2>a, <2>d, <2>f, <2>g, <2>h, <2>i DEF TenantInfoFails, TypeOK
    <2> QED
      BY <2>a, <2>e, <2>1, <2>2, <2>3, <2>4, <2>5, <2>6, <2>7, <2>8, <2>9, <2>10, <2>11, <2>12,
         <2>13, <2>14
         DEF Next, ServerStep, Environment, Failure
  <1> QED
    BY <1>1, <1>2, PTL DEF Spec

(* Type correctness of the control plane: in particular no POST is under way without *)
(* a compute, a Deployment, shards and a key (GenerateComputeSpec, postComputeSpec), *)
(* and no notification is acknowledged that was not made.                            *)
THEOREM TypeCorrect == Spec => []TypeOK
  BY TypesInductive, PTL

(* With unique compute IDs, every specification is made from the labels of the       *)
(* compute it is for, wherever it has got to.                                        *)
LEMMA OwnSpecsInductive ==
    DistinctIDs /\ Spec => []OwnSpecs
  <1> SUFFICES ASSUME DistinctIDs PROVE Spec => []OwnSpecs
    OBVIOUS
  <1>1. Init => OwnSpecs
    <2> SUFFICES ASSUME Init PROVE OwnSpecs
      OBVIOUS
    <2>1. \A h \in Requests : req[h].pc = "idle"
      BY DEF Init, Idle
    <2>2. SpecOfThisDeployment
      BY DEF Init, SpecOfThisDeployment, Down, Deployment
    <2>3. late = {}
      BY DEF Init
    <2> QED
      BY <2>1, <2>2, <2>3 DEF OwnSpecs
  <1>2. TypeOK /\ RequestsInFlight /\ OwnSpecs /\ [Next]_vars => OwnSpecs'
    <2> SUFFICES ASSUME TypeOK, RequestsInFlight, OwnSpecs, [Next]_vars
                 PROVE  OwnSpecs'
      OBVIOUS
    <2> DEFINE Own(r) == r.pc \in {"info", "sent", "answer"} => r.of[1] = r.cur
    <2>a. req \in [Requests -> Handler] /\ \A h \in Requests : req[h] \in Handler
      BY DEF TypeOK
    <2>b. \A h \in Requests : Own(req[h])
      BY DEF OwnSpecs
    <2>1. \A h \in Requests : Own(req'[h])
      <3> DEFINE Goal == \A h \in Requests : Own(req'[h])
      <3>a. ASSUME NEW g \in Requests, NEW r, Own(r), req' = [req EXCEPT ![g] = r]
            PROVE  Goal
        BY <2>a, <2>b, <3>a
      <3>b. ASSUME NEW g \in Requests,
                   \/ req' = [req EXCEPT ![g] = Idle]
                   \/ req' = [req EXCEPT ![g] = Failed(req[g])]
                   \/ req' = [req EXCEPT ![g] = DoneWith(req[g])]
            PROVE  Goal
        <4>1. Own(Idle) /\ Own(Failed(req[g])) /\ Own(DoneWith(req[g]))
          BY <2>a, IdleHandler, DoneHandler
        <4> HIDE DEF Own
        <4> QED
          BY <3>a, <3>b, <4>1
      <3>c. ASSUME NEW c \in Computes, NEW d \in Computes, Generates(c, d)
            PROVE  Deployment(d, cached[d])[1] = c
        BY <3>c DEF Generates, Matches, DistinctIDs, Deployment
      <3>1. ASSUME NEW t \in Tenants, NotifyAttach(t) PROVE Goal
        <4>1. [Idle EXCEPT !.pc = "loop", !.todo = FindTenantDeployments(t),
                           !.at = attached[t]].pc = "loop"
          BY DEF Idle
        <4> QED
          BY <3>1, <3>a, <4>1, RequestKinds DEF NotifyAttach
      <3>2. ASSUME NEW c \in Computes, NotifySafekeepers(c) PROVE Goal
        <4>1. [Idle EXCEPT !.pc = "loop", !.todo = FindTenantTimelineDeployments(c),
                           !.gen = gen[c]].pc = "loop"
          BY DEF Idle
        <4> QED
          BY <3>2, <3>a, <4>1, RequestKinds DEF NotifySafekeepers
      <3>3. ASSUME NEW c \in Computes, FetchSpec(c) PROVE Goal
        <4>1. PICK d \in Computes :
                /\ Generates(c, d)
                /\ req' = [req EXCEPT ![<<"spec", c>>] =
                             [Idle EXCEPT !.pc = "info", !.cur = c,
                                          !.of = Deployment(d, cached[d]), !.key = secret]]
          BY <3>3 DEF FetchSpec
        <4> DEFINE of == Deployment(d, cached[d])
        <4>2. of[1] = c
          BY <3>c, <4>1
        <4> HIDE DEF of
        <4>3. Own([Idle EXCEPT !.pc = "info", !.cur = c, !.of = of, !.key = secret])
          BY <4>2 DEF Idle
        <4> HIDE DEF Own
        <4> QED
          BY <3>a, <4>1, <4>3, RequestKinds DEF of
      <3>4. ASSUME NEW h \in Requests, NEW c \in Computes, Refresh(h, c) PROVE Goal
        <4>1. PICK r \in Handler :
                /\ req' = [req EXCEPT ![h] = r]
                /\ \/ r.pc = "loop"
                   \/ /\ r.cur = c
                      /\ \E d \in Computes : Generates(c, d) /\ r.of = Deployment(d, cached[d])
          BY <3>4, RefreshSteps
        <4>2. Own(r)
          BY <4>1, <3>c
        <4> QED
          BY <3>a, <4>1, <4>2
      <3>5. ASSUME NEW h \in Requests, TenantInfo(h) PROVE Goal
        <4>1. PICK r \in Handler :
                /\ req' = [req EXCEPT ![h] = r]
                /\ r.pc = "loop" \/ (r.cur = req[h].cur /\ r.of = req[h].of)
          BY <3>5, TenantInfoSteps
        <4>2. Own(r)
          BY <3>5, <4>1, <2>b, TenantInfoSteps
        <4> QED
          BY <3>a, <4>1, <4>2
      <3>6. ASSUME NEW h \in Requests,
                   \/ TenantInfoFails(h) \/ ConfigureAnswered(h) \/ ConfigureTimesOut(h)
                   \/ Respond(h) \/ Abandoned(h)
            PROVE  Goal
        BY <3>6, <3>b
           DEF TenantInfoFails, ConfigureAnswered, ConfigureTimesOut, Respond, Abandoned
      <3>7. ASSUME UNCHANGED req PROVE Goal
        BY <3>7, <2>b
      <3>8. ASSUME NEW c \in Computes,
                   UserStep(c) \/ ClusterStep(c) \/ Starts(c) \/ PodFails(c)
            PROVE  Goal
        BY <3>8, <3>7, <3>b, RequestKinds DEF UserStep, ClusterStep, Advance, Starts, PodFails
      <3>9. CASE Restart
        BY <3>9, IdleHandler DEF Restart
      <3>10. CASE \/ \E t \in Tenants : Move(t)
                  \/ \E c \in Computes : NewGeneration(c) \/ CacheFollows(c)
                  \/ SecretChanges
                  \/ \E p \in late : LateConfigure(p)
                  \/ UNCHANGED vars
        BY <3>10, <3>7
           DEF Move, NewGeneration, CacheFollows, SecretChanges, LateConfigure, vars
      <3> QED
        BY <3>1, <3>2, <3>3, <3>4, <3>5, <3>6, <3>8, <3>9, <3>10
           DEF Next, ServerStep, Environment, Failure
    <2>2. \A p \in late' : p.spec.of[1] = p.to
      <3>1. \A h \in Requests : req[h].pc = "sent" => PostOf(h).spec.of[1] = PostOf(h).to
        BY <2>b DEF PostOf
      <3>2. \A p \in Sent(Requests) : p.spec.of[1] = p.to
        BY <3>1 DEF Sent
      <3>3. \A h \in Requests : Sent({h}) \subseteq Sent(Requests)
        BY DEF Sent
      <3>4. late' \subseteq late \union Sent(Requests)
        BY <3>3, Zenon
           DEF Next, ServerStep, Environment, Failure, NotifyAttach, NotifySafekeepers,
               FetchSpec, Starts, UserStep, ClusterStep, Advance, CacheFollows, Refresh,
               TenantInfo, ConfigureAnswered, Respond, Move, NewGeneration, SecretChanges,
               LateConfigure, PodFails, TenantInfoFails, ConfigureTimesOut, Abandoned,
               Restart, vars
      <3> QED
        BY <3>2, <3>4 DEF OwnSpecs
    <2>3. SpecOfThisDeployment'
      <3> DEFINE Good(c, o) == o.up => o.spec.of[1] = c
      <3>a. pod \in [Computes -> Pods] /\ \A c \in Computes : Good(c, pod[c])
        BY DEF TypeOK, PodsOK, OwnSpecs, SpecOfThisDeployment
      <3>b. ASSUME NEW p \in Post, p.spec.of[1] = p.to, Configured(p)
            PROVE  SpecOfThisDeployment'
        BY <3>a, <3>b, ConfiguredTypes DEF SpecOfThisDeployment, Post
      <3>c. ASSUME NEW c \in Computes, NEW o, Good(c, o), pod' = [pod EXCEPT ![c] = o]
            PROVE  SpecOfThisDeployment'
        BY <3>a, <3>c DEF SpecOfThisDeployment
      <3>d. ASSUME UNCHANGED pod PROVE SpecOfThisDeployment'
        BY <3>a, <3>d DEF SpecOfThisDeployment
      <3>e. \A c \in Computes : Good(c, Down)
        BY DEF Down
      <3>1. ASSUME NEW c \in Computes, Starts(c) PROVE SpecOfThisDeployment'
        <4> DEFINE r == req[<<"spec", c>>]
                   n == [up |-> TRUE, spec |-> [of |-> r.of, at |-> r.at, gen |-> 0],
                         key |-> r.key, seen |-> r.at]
        <4>1. r.of[1] = c
          BY <3>1, <2>b, RequestKinds DEF Starts, RequestsInFlight, InFlight, IsSpec
        <4>2. pod' = [pod EXCEPT ![c] = n]
          BY <3>1 DEF Starts
        <4>3. Good(c, n)
          BY <4>1
        <4> HIDE DEF n, Good
        <4> QED
          BY <3>c, <4>2, <4>3
      <3>2. ASSUME NEW c \in Computes, UserStep(c) \/ ClusterStep(c) \/ PodFails(c)
            PROVE  SpecOfThisDeployment'
        <4>1. pod' = pod \/ pod' = [pod EXCEPT ![c] = Down]
          BY <3>2 DEF UserStep, ClusterStep, Advance, PodFails
        <4> HIDE DEF Good
        <4> QED
          BY <4>1, <3>c, <3>d, <3>e
      <3>3. ASSUME NEW h \in Requests, ConfigureAnswered(h) PROVE SpecOfThisDeployment'
        <4>1. PostOf(h) \in Post /\ PostOf(h).spec.of[1] = PostOf(h).to
          BY <3>3, <2>a, <2>b, SentPosts DEF ConfigureAnswered, PostOf
        <4> QED
          BY <3>3, <4>1, <3>b, <3>d DEF ConfigureAnswered
      <3>4. ASSUME NEW p \in late, LateConfigure(p) PROVE SpecOfThisDeployment'
        <4>1. p \in Post /\ p.spec.of[1] = p.to
          BY <3>4 DEF TypeOK, OwnSpecs
        <4> QED
          BY <3>4, <4>1, <3>b, <3>d DEF LateConfigure
      <3>5. ASSUME NEW t \in Tenants, NotifyAttach(t) \/ Move(t) PROVE SpecOfThisDeployment'
        BY <3>5, <3>d DEF NotifyAttach, Move
      <3>6. ASSUME NEW c \in Computes,
                   NotifySafekeepers(c) \/ FetchSpec(c) \/ NewGeneration(c) \/ CacheFollows(c)
            PROVE  SpecOfThisDeployment'
        BY <3>6, <3>d DEF NotifySafekeepers, FetchSpec, NewGeneration, CacheFollows
      <3>7. ASSUME NEW h \in Requests,
                   \/ \E c \in Computes : Refresh(h, c)
                   \/ TenantInfo(h) \/ TenantInfoFails(h) \/ Respond(h)
                   \/ ConfigureTimesOut(h) \/ Abandoned(h)
            PROVE  SpecOfThisDeployment'
        BY <3>7, <3>d
           DEF Refresh, TenantInfo, TenantInfoFails, Respond, ConfigureTimesOut, Abandoned
      <3>8. CASE SecretChanges \/ Restart \/ UNCHANGED vars
        BY <3>8, <3>d DEF SecretChanges, Restart, vars
      <3> QED
        BY <3>1, <3>2, <3>3, <3>4, <3>5, <3>6, <3>7, <3>8
           DEF Next, ServerStep, Environment, Failure
    <2> QED
      BY <2>1, <2>2, <2>3 DEF OwnSpecs
  <1> QED
    BY <1>1, <1>2, TypesInductive, PTL DEF Spec

================================================================================
