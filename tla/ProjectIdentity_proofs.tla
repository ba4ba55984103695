------------------------ MODULE ProjectIdentity_proofs ------------------------
(* The Project reconciler implements AssignedIdentity, for every value of the *)
(* constants: initial states map to initial states, and every step maps to a  *)
(* step of the abstract specification or leaves what it sees unchanged.       *)
EXTENDS ProjectController_proofs

USE NoIDAssumption

(* What the storage controller has, or has been sent, after a step: the same, or *)
(* the ID of one more request, whose version recorded it.                        *)
Registered == \/ RegisteredIDs' = RegisteredIDs
              \/ \E i \in RecordedIDs : RegisteredIDs' = RegisteredIDs \union {i}

(* An object whose ID is settled has an ID: the stored version is of the object *)
(* the cache has shown with one, and objects do not lose their ID.              *)
LEMMA SettledHasID ==
    ASSUME TypeOK, LogInv, Settled
    PROVE  Latest.tenant # NoID
  <1>1. Len(log) \in Nat \ {0} /\ seen \in 1..Len(log) /\ Len(log) \in 1..Len(log)
    BY DEF TypeOK
  <1> QED
    BY <1>1 DEF LogInv, TenantKept, Settled, Latest

(* A write records the ID of the version it stores, and no other. *)
LEMMA StoreRecords ==
    ASSUME TypeOK, NEW v \in Version, Store(v)
    PROVE  RecordedIDs' = RecordedIDs \union ({v.tenant} \ {NoID})
  <1>1. /\ Len(log) \in Nat \ {0} /\ Len(log') = Len(log) + 1
        /\ \A i \in 1..Len(log) : log'[i] = log[i]
    BY StoreKeeps DEF TypeOK
  <1>2. log'[Len(log) + 1] = v
    BY StoreFacts DEF TypeOK
  <1>3. 1..Len(log') = (1..Len(log)) \union {Len(log) + 1}
    BY <1>1
  <1>4. ASSUME NEW x PROVE
          x \in {log'[i].tenant : i \in 1..Len(log')}
            <=> x \in {log[i].tenant : i \in 1..Len(log)} \/ x = v.tenant
    BY <1>1, <1>2, <1>3
  <1> QED
    BY <1>4 DEF RecordedIDs

(* Requests are only made for the ID of a version. *)
LEMMA RegisteredStep ==
    ASSUME TypeOK, [Next]_vars
    PROVE  Registered
  <1> DEFINE sent == attached \union late
  <1>1. \/ sent' = sent
        \/ pc = "put" /\ sent' = sent \union {Request(log[rv])}
    BY DEF Next, User, Create, SetCluster, SpecifyTenant, Touch, Delete, Edit,
           Deliver, TimerFires, Worker, ReconcileDeleted, ReconcileAssign,
           ReconcileAttach, GetCurrent, AssignFailed, PatchTenant, PatchTenantFails,
           PutOK, PutFails, GetForStatus, PatchStatus, PatchStatusFails, Return,
           LatePut, Restart, scVars, vars
  <1>2. CASE sent' = sent
    BY <1>2 DEF Registered, RegisteredIDs
  <1>3. CASE pc = "put" /\ sent' = sent \union {Request(log[rv])}
    <2>1. rv \in 1..Len(log) /\ log[rv].tenant # NoID
      BY <1>3 DEF TypeOK
    <2>2. log[rv].tenant \in RecordedIDs
      BY <2>1 DEF RecordedIDs
    <2>3. Request(log[rv]).tenant = log[rv].tenant
      BY DEF Request
    <2>4. RegisteredIDs' = RegisteredIDs \union {log[rv].tenant}
      BY <1>3, <2>3 DEF RegisteredIDs
    <2> QED
      BY <2>2, <2>4 DEF Registered
  <1> QED
    BY <1>1, <1>2, <1>3

(* A step that leaves the object's ID alone is a stuttering step, or settles the *)
(* ID, or registers one.                                                         *)
LEMMA KeepsID ==
    ASSUME TypeOK, LogInv, TypeOK', LogInv', [Next]_vars,
           Latest'.exists = Latest.exists, Latest'.uid = Latest.uid,
           Latest'.tenant = Latest.tenant, RecordedIDs' = RecordedIDs
    PROVE  [Identity!Next]_(Identity!vars)
  <1>1. Registered
    BY RegisteredStep
  <1>2. Settled => Settled'
    BY SettledStep DEF Settled
  <1>3. CASE Settled' = Settled
    BY <1>1, <1>3 DEF Registered, Identity!Next, Identity!Register, Identity!Registers,
                      Identity!vars
  <1>4. CASE ~Settled /\ Settled'
    <2>1. Latest.tenant # NoID
      <3>1. Len(log') \in Nat \ {0} /\ seen' \in 1..Len(log') /\ Len(log') \in 1..Len(log')
        BY DEF TypeOK
      <3> QED
        BY <3>1, <1>4 DEF LogInv, TenantKept, Settled, Latest
    <2>2. Latest.exists
      BY <1>4 DEF Settled
    <2> QED
      BY <1>1, <1>4, <2>1, <2>2
         DEF Registered, Identity!Next, Identity!Settle, Identity!Registers
  <1> QED
    BY <1>2, <1>3, <1>4 DEF Settled

(* Writing another ID into an object that is not settled is the abstract Assign. *)
LEMMA AssignsID ==
    ASSUME TypeOK, [Next]_vars, NEW v \in Version, Store(v), ~Settled, Latest.exists,
           v.exists, v.uid = Latest.uid, v.tenant \in IDs, UNCHANGED scVars
    PROVE  Identity!Assign
  <1>1. Latest' = v
    BY StoreKeeps
  <1>2. RecordedIDs' = RecordedIDs \union ({v.tenant} \ {NoID})
    BY StoreRecords
  <1>3. RegisteredIDs' = RegisteredIDs
    BY DEF RegisteredIDs, scVars
  <1>4. Settled' \in BOOLEAN
    BY DEF Settled
  <1>5. Latest'.exists = Latest.exists
    BY <1>1, LatestIsVersion DEF Version
  <1> QED
    BY <1>1, <1>2, <1>3, <1>4, <1>5 DEF Identity!Assign, Identity!Records

(* Every step of the reconciler, of its users and of what fails around it maps to *)
(* a step of the abstract specification.                                          *)
LEMMA IdentityStep ==
    ASSUME TypeOK, LogInv, TypeOK', LogInv', [Next]_vars
    PROVE  [Identity!Next]_(Identity!vars)
  <1>1. /\ Latest \in Version /\ Latest.uid \in Nat /\ Latest.exists \in BOOLEAN
        /\ Latest.tenant \in IDs \union {NoID}
        /\ Len(log) \in Nat \ {0} /\ Len(log) \in 1..Len(log)
    <2>1. Latest \in Version
      BY LatestIsVersion
    <2> QED
      BY <2>1 DEF Version, TypeOK
  <1>2. Latest.tenant # NoID => Latest.tenant \in RecordedIDs
    BY <1>1 DEF RecordedIDs, Latest
  <1>3. CASE log' = log
    <2>1. Latest' = Latest /\ RecordedIDs' = RecordedIDs
      BY <1>3 DEF Latest, RecordedIDs
    <2> QED
      BY <2>1, KeepsID
  <1>4. ASSUME NEW v \in Version, Store(v), v.exists = Latest.exists, v.uid = Latest.uid,
               v.tenant = Latest.tenant
        PROVE  [Identity!Next]_(Identity!vars)
    <2>1. Latest' = v
      BY <1>4, StoreKeeps
    <2>2. RecordedIDs' = RecordedIDs \union ({v.tenant} \ {NoID})
      BY <1>4, StoreRecords
    <2>3. RecordedIDs' = RecordedIDs
      BY <1>2, <1>4, <2>2
    <2> QED
      BY <1>4, <2>1, <2>3, KeepsID
  <1>5. ASSUME NEW c \in Clusters, NEW t \in IDs \union {NoID}, Create(c, t)
        PROVE  Identity!Create
    <2> DEFINE v == [exists |-> TRUE, uid |-> Latest.uid + 1, gen |-> 1,
                     cluster |-> c, tenant |-> t, status |-> NoStatus]
    <2>1. v \in Version /\ Store(v)
      BY <1>5, StoredTypes DEF Create
    <2>2. v.exists = TRUE /\ v.uid = Latest.uid + 1 /\ v.tenant = t
      OBVIOUS
    <2> HIDE DEF v
    <2>3. Latest' = v /\ log'[seen] = log[seen] /\ seen' = seen
      BY <1>5, <2>1, StoreKeeps DEF Create, Edit
    <2>4. RecordedIDs' = RecordedIDs \union ({t} \ {NoID})
      BY <2>1, <2>2, StoreRecords
    <2>5. RegisteredIDs' = RegisteredIDs
      BY <1>5 DEF Create, Edit, scVars, RegisteredIDs
    <2>6. log[seen].uid \in Nat /\ log[seen].uid <= Latest.uid
      <3>1. log[seen] \in Version /\ seen \in 1..Len(log)
        BY LatestIsVersion DEF TypeOK
      <3> QED
        BY <1>1, <3>1 DEF LogInv, UidMonotone, Latest, Version
    <2>7. Settled' = FALSE
      BY <1>1, <2>2, <2>3, <2>6 DEF Settled
    <2>8. Latest.exists = FALSE
      BY <1>1, <1>5 DEF Create
    <2> QED
      BY <2>2, <2>3, <2>4, <2>5, <2>7, <2>8 DEF Identity!Create, Identity!Records
  <1>6. ASSUME NEW c \in Clusters, SetCluster(c)
        PROVE  [Identity!Next]_(Identity!vars)
    <2> DEFINE v == [Latest EXCEPT !.cluster = c, !.gen = @ + 1]
    <2>1. v \in Version /\ Store(v)
      BY <1>6, StoredTypes DEF SetCluster
    <2>2. v.exists = Latest.exists /\ v.uid = Latest.uid /\ v.tenant = Latest.tenant
      BY <1>1 DEF Version
    <2> HIDE DEF v
    <2> QED
      BY <2>1, <2>2, <1>4
  <1>7. ASSUME NEW t \in IDs,
               Store([Latest EXCEPT !.tenant = t, !.gen = @ + 1]), Latest.exists,
               ~Settled, UNCHANGED scVars
        PROVE  Identity!Assign
    <2> DEFINE v == [Latest EXCEPT !.tenant = t, !.gen = @ + 1]
    <2>1. v \in Version
      BY StoredTypes
    <2>2. v.exists = Latest.exists /\ v.uid = Latest.uid /\ v.tenant = t
      BY <1>1 DEF Version
    <2>3. Store(v)
      BY <1>7
    <2> HIDE DEF v
    <2> QED
      BY <1>7, <2>1, <2>2, <2>3, AssignsID
  <1>8. ASSUME NEW t \in IDs, SpecifyTenant(t)
        PROVE  Identity!Assign
    <2>1. ~Settled
      BY <1>8, SettledHasID DEF SpecifyTenant
    <2> QED
      BY <1>7, <1>8, <2>1 DEF SpecifyTenant, Edit
  <1>9. CASE Touch
    BY <1>1, <1>4, <1>9 DEF Touch
  <1>10. CASE Delete
    <2> DEFINE v == [Latest EXCEPT !.exists = FALSE]
    <2>1. v \in Version /\ Store(v)
      BY <1>10, StoredTypes DEF Delete
    <2>2. v.exists = FALSE /\ v.uid = Latest.uid /\ v.tenant = Latest.tenant
      BY <1>1 DEF Version
    <2> HIDE DEF v
    <2>3. Latest' = v
      BY <2>1, StoreKeeps
    <2>4. RecordedIDs' = RecordedIDs
      BY <1>2, <2>1, <2>2, StoreRecords
    <2>5. RegisteredIDs' = RegisteredIDs
      BY <1>10 DEF Delete, Edit, scVars, RegisteredIDs
    <2>6. Settled' = FALSE
      BY <2>2, <2>3 DEF Settled
    <2>7. Latest.exists
      BY <1>10 DEF Delete
    <2> QED
      BY <2>2, <2>3, <2>4, <2>5, <2>6, <2>7 DEF Identity!Delete, Identity!Next
  <1>11. CASE PatchTenant \/ PatchTenantFails
    <2>1. newID \in IDs /\ ~Settled
      BY <1>11 DEF PatchTenant, PatchTenantFails, Settled, TypeOK
    <2>2. \/ log' = log
          \/ Latest.exists /\ Store(TenantPatched) /\ UNCHANGED scVars
      BY <1>11 DEF PatchTenant, PatchTenantFails
    <2>3. CASE Latest.exists /\ Store(TenantPatched) /\ UNCHANGED scVars
      BY <1>7, <2>1, <2>3 DEF TenantPatched, Identity!Next
    <2> QED
      BY <1>3, <2>2, <2>3
  <1>12. CASE PatchStatus \/ PatchStatusFails
    <2>1. log' = log \/ Store(StatusPatched)
      BY <1>12 DEF PatchStatus, PatchStatusFails
    <2>2. StatusPatched \in Version
      BY StoredTypes
    <2>3. /\ StatusPatched.exists = Latest.exists /\ StatusPatched.uid = Latest.uid
          /\ StatusPatched.tenant = Latest.tenant
      BY <1>1 DEF StatusPatched, Version
    <2> QED
      BY <1>3, <1>4, <2>1, <2>2, <2>3
  <1>13. CASE \/ Deliver \/ TimerFires \/ LatePut \/ Restart \/ UNCHANGED vars
              \/ ReconcileDeleted \/ ReconcileAssign \/ ReconcileAttach \/ GetCurrent
              \/ PutOK \/ GetForStatus
              \/ \E o \in {"AttachFailed", "StorageControllerUnreachable"} : PutFails(o)
    <2>1. log' = log
      BY <1>13 DEF Deliver, TimerFires, LatePut, Restart, vars, ReconcileDeleted,
                   ReconcileAssign, ReconcileAttach, GetCurrent, PutOK, PutFails,
                   PutResult, GetForStatus, apiVars
    <2> QED
      BY <1>3, <2>1
  <1>14. CASE User
    BY <1>5, <1>6, <1>8, <1>9, <1>10, <1>14 DEF User, Identity!Next
  <1> QED
    BY <1>11, <1>12, <1>13, <1>14 DEF Next, Worker

(* Refinement: the Project reconciler, with its stale cache, unlocked patch, lost   *)
(* answers, late requests and restarts, implements AssignedIdentity.                *)
THEOREM IdentityRefined == Spec => ImplementsIdentity
  <1>1. Init => Identity!Init
    <2> SUFFICES ASSUME Init PROVE Identity!Init
      OBVIOUS
    <2>1. Len(log) = 1 /\ log[1].exists = FALSE /\ log[1].uid = 0 /\ log[1].tenant = NoID
      BY DEF Init
    <2>2. RecordedIDs = {} /\ RegisteredIDs = {}
      BY <2>1 DEF Init, RecordedIDs, RegisteredIDs
    <2>3. Settled = FALSE
      BY <2>1 DEF Settled, Latest
    <2> QED
      BY <2>1, <2>2, <2>3 DEF Identity!Init, Latest
  <1>2. /\ TypeOK /\ LogInv /\ TypeOK' /\ LogInv' /\ [Next]_vars
        => [Identity!Next]_(Identity!vars)
    BY IdentityStep
  <1> QED
    BY <1>1, <1>2, TypeCorrect, LogCorrect, PTL DEF Spec, ImplementsIdentity, Identity!Spec

===============================================================================
