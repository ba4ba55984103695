------------------------- MODULE BranchIdentity_proofs -------------------------
(* The Branch reconciler implements AssignedIdentity, for every value of the    *)
(* constants: initial states map to initial states, and every step maps to a    *)
(* step of the abstract specification or leaves what it sees unchanged.         *)
EXTENDS BranchController_proofs

USE NoIDAssumption

(* The IDs the storage controller has, or has been sent. *)
Sent == {r.timeline : r \in timelines \union late}

(* An object whose ID is settled has an ID: the cache has shown one, and objects do *)
(* not lose theirs.                                                                 *)
LEMMA SettledHasID ==
    ASSUME TypeOK, VersionsInv, Settled
    PROVE  Latest.timeline # NoID
  <1>1. Len(log) \in Nat \ {0} /\ 1 \in 1..Len(log) /\ Len(log) \in 1..Len(log)
    BY TypeParts, EndsAreVersions
  <1> QED
    BY <1>1 DEF VersionsInv, Settled, Latest, Cached

(* Once settled, an ID that stays is settled: a cache that moves on, or is filled *)
(* again, only shows versions at or after the one it has shown, and no decision   *)
(* on such a version is to assign an ID.                                          *)
LEMMA SettledKept ==
    ASSUME TypeOK, VersionsInv, Settled, [Next]_vars, Latest'.exists, Latest'.uid = Latest.uid
    PROVE  Settled'
  <1>1. /\ LogOK /\ Len(log) \in Nat \ {0} /\ Latest \in Version /\ Cached \in Version
        /\ 1 \in 1..Len(log) /\ Len(log) \in 1..Len(log)
    BY TypeParts, EndsAreVersions
  <1>2. Cached.uid = Latest.uid /\ Cached.timeline # NoID /\ pc \notin {"assign", "patch"}
    BY DEF Settled
  <1>3. Cached'.uid = Latest.uid /\ Cached'.timeline # NoID
    <2>1. CASE UNCHANGED <<log, used>>
      BY <1>2, <2>1 DEF Cached
    <2>2. ASSUME NEW v \in Version, Store(v) PROVE Cached' = Cached
      BY <1>1, <2>2, StoreFacts
    <2>3. ASSUME NEW i \in 1..Len(log), log' = SubSeq(log, i, Len(log)), used' = used
          PROVE  <1>3
      <3>1. Cached' = log[i] /\ log[i] \in Version
        BY <1>1, <2>3, SuffixFacts DEF LogOK
      <3>2. 1 <= i /\ i <= Len(log)
        BY <1>1
      <3>3. /\ Cached.uid <= log[i].uid /\ log[i].uid <= Latest.uid
            /\ log[i].uid = Cached.uid => log[i].timeline # NoID
        BY <1>1, <1>2, <3>2 DEF VersionsInv, Cached, Latest
      <3>4. Cached.uid \in Nat /\ log[i].uid \in Nat /\ Latest.uid \in Nat
        BY <1>1, <3>1 DEF Version
      <3>5. log[i].uid = Latest.uid
        BY <1>2, <3>3, <3>4
      <3> QED
        BY <1>2, <3>1, <3>3, <3>5
    <2> QED
      BY <1>2, <2>1, <2>2, <2>3, LogMoves
  <1>4. pc' \notin {"assign", "patch"}
    BY <1>2, WorkerMoves
       DEF Done, ReconcileAssign, ReconcileTimeline, GetCurrent, PostOK, PostFails,
           ReconcileChild, ReconcileChildFails, GetForStatus, Return
  <1> QED
    BY <1>3, <1>4 DEF Settled

(* Requests are only made for a recorded ID. *)
LEMMA SentStep ==
    ASSUME TypeOK, RecordedInv, [Next]_vars
    PROVE  \/ Sent' = Sent
           \/ \E i \in used : Sent' = Sent \union {i}
  <1> DEFINE all == timelines \union late
  <1>1. CASE all' = all
    BY <1>1 DEF Sent
  <1>2. CASE pc = "post" /\ all' = all \union {Request}
    <2>1. job.timeline \in used /\ Request.timeline = job.timeline
      BY <1>2 DEF RecordedInv, Request
    <2>2. Sent' = Sent \union {job.timeline}
      BY <1>2, <2>1 DEF Sent
    <2> QED
      BY <2>1, <2>2
  <1> QED
    BY <1>1, <1>2, TimelineMoves

(* A step that leaves the object's ID alone is a stuttering step, or settles the *)
(* ID, or registers one.                                                         *)
LEMMA KeepsID ==
    ASSUME TypeOK, HistoryInv, TypeOK', HistoryInv', [Next]_vars,
           Latest'.exists = Latest.exists, Latest'.uid = Latest.uid,
           Latest'.timeline = Latest.timeline, used' = used
    PROVE  [Identity!Next]_(Identity!vars)
  <1>1. \/ Sent' = Sent
        \/ \E i \in used : Sent' = Sent \union {i}
    BY SentStep DEF HistoryInv
  <1>2. Settled => Settled'
    BY SettledKept DEF HistoryInv, Settled
  <1>3. CASE Settled' = Settled
    BY <1>1, <1>3 DEF Sent, Identity!Next, Identity!Register, Identity!Registers,
                      Identity!vars
  <1>4. CASE ~Settled /\ Settled'
    <2>1. (Latest.timeline # NoID)'
      <3>1. /\ Len(log') \in Nat \ {0} /\ 1 \in 1..Len(log') /\ Len(log') \in 1..Len(log')
        BY DEF TypeOK
      <3> QED
        BY <3>1, <1>4 DEF HistoryInv, VersionsInv, Settled, Latest, Cached
    <2>2. Latest.timeline # NoID /\ Latest.exists
      BY <1>4, <2>1 DEF Settled
    <2> QED
      BY <1>1, <1>4, <2>2
         DEF Sent, Identity!Next, Identity!Settle, Identity!Registers
  <1> QED
    BY <1>2, <1>3, <1>4 DEF Settled

(* A version that is stored with the ID of the current one records nothing new. *)
LEMMA StoresSameID ==
    ASSUME TypeOK, HistoryInv, TypeOK', HistoryInv', [Next]_vars, NEW v \in Version, Store(v),
           v.exists = Latest.exists, v.uid = Latest.uid, v.timeline = Latest.timeline
    PROVE  [Identity!Next]_(Identity!vars)
  <1>1. LogOK /\ Len(log) \in 1..Len(log)
    BY TypeParts, EndsAreVersions
  <1>2. Latest' = v
    BY <1>1, StoreFacts
  <1>3. Latest.timeline # NoID => Latest.timeline \in used
    BY <1>1 DEF HistoryInv, RecordedInv, Latest
  <1>4. used' = used
    BY <1>3 DEF Store
  <1> QED
    BY <1>2, <1>4, KeepsID

(* Writing an ID into an object that is not settled is the abstract Assign. *)
LEMMA AssignsID ==
    ASSUME TypeOK, NEW t \in IDs, Store([Latest EXCEPT !.timeline = t, !.gen = @ + 1]),
           Latest.exists, ~Settled, UNCHANGED scVars
    PROVE  Identity!Assign
  <1>1. LogOK /\ Latest \in Version
    BY TypeParts, EndsAreVersions
  <1> DEFINE v == [Latest EXCEPT !.timeline = t, !.gen = @ + 1]
  <1>2. PICK p \in PGVersions : TRUE
    BY <1>1 DEF Version
  <1>3. NoStatus \in Status
    BY DEF NoStatus, Status, ComputeReasons
  <1>4. v \in Version
    BY <1>1, <1>2, <1>3, VersionUpdates
  <1>5. v.exists = Latest.exists /\ v.uid = Latest.uid /\ v.timeline = t
    BY <1>1 DEF Version
  <1>6. Store(v)
    OBVIOUS
  <1> HIDE DEF v
  <1>7. Latest' = v
    BY <1>1, <1>4, <1>6, StoreFacts
  <1>8. used' = used \union ({t} \ {NoID})
    BY <1>5, <1>6 DEF Store
  <1>9. Sent' = Sent /\ Settled' \in BOOLEAN
    BY DEF Sent, scVars, Settled
  <1> QED
    BY <1>5, <1>7, <1>8, <1>9 DEF Sent, Identity!Assign, Identity!Records

(* Every step of the reconciler, of its users and of what fails around it maps to *)
(* a step of the abstract specification.                                          *)
LEMMA IdentityStep ==
    ASSUME TypeOK, HistoryInv, TypeOK', HistoryInv', [Next]_vars
    PROVE  [Identity!Next]_(Identity!vars)
  <1>1. /\ LogOK /\ Latest \in Version /\ Cached \in Version /\ VersionsInv
        /\ Len(log) \in Nat \ {0} /\ 1 \in 1..Len(log) /\ Len(log) \in 1..Len(log)
        /\ Latest.uid \in Nat /\ Latest.exists \in BOOLEAN /\ Cached.uid \in Nat
    <2>1. LogOK /\ Latest \in Version /\ Cached \in Version
      BY TypeParts, EndsAreVersions
    <2> QED
      BY <2>1, EndsAreVersions DEF Version, HistoryInv
  <1>2. NoStatus \in Status /\ want \in Status
    BY TypeParts DEF NoStatus, Status, ComputeReasons, WorkerOK
  <1>3. CASE UNCHANGED <<log, used>>
    <2>1. Latest' = Latest
      BY <1>3 DEF Latest
    <2> QED
      BY <1>3, <2>1, KeepsID
  <1>4. ASSUME NEW t \in IDs \union {NoID}, NEW p \in PGVersions, Create(t, p)
        PROVE  Identity!Create
    <2> DEFINE v == [exists |-> TRUE, uid |-> Latest.uid + 1, gen |-> 1, timeline |-> t,
                     pg |-> p, status |-> NoStatus]
    <2>1. v \in Version
      BY <1>1, <1>2 DEF Version
    <2>2. v.exists = TRUE /\ v.uid = Latest.uid + 1 /\ v.timeline = t
      OBVIOUS
    <2>3. Store(v) /\ Latest.exists = FALSE
      BY <1>1, <1>4 DEF Create
    <2> HIDE DEF v
    <2>4. Latest' = v /\ Cached' = Cached
      BY <1>1, <2>1, <2>3, StoreFacts
    <2>5. used' = used \union ({t} \ {NoID})
      BY <2>2, <2>3 DEF Store
    <2>6. Sent' = Sent
      BY <1>4 DEF Create, Edit, scVars, Sent
    <2>7. Cached.uid <= Latest.uid
      BY <1>1 DEF VersionsInv, Cached, Latest
    <2>8. Settled' = FALSE
      BY <1>1, <2>2, <2>4, <2>7 DEF Settled
    <2> QED
      BY <2>2, <2>3, <2>4, <2>5, <2>6, <2>8 DEF Sent, Identity!Create, Identity!Records
  <1>5. ASSUME NEW p \in PGVersions, SetPGVersion(p)
        PROVE  [Identity!Next]_(Identity!vars)
    <2> DEFINE v == [Latest EXCEPT !.pg = p, !.gen = @ + 1]
    <2>1. v \in Version
      BY <1>1, <1>2, VersionUpdates
    <2>2. v.exists = Latest.exists /\ v.uid = Latest.uid /\ v.timeline = Latest.timeline
      BY <1>1 DEF Version
    <2>3. Store(v)
      BY <1>5 DEF SetPGVersion
    <2> HIDE DEF v
    <2> QED
      BY <2>1, <2>2, <2>3, StoresSameID
  <1>6. ASSUME NEW t \in IDs, SpecifyTimeline(t)
        PROVE  Identity!Assign
    <2>1. ~Settled
      BY <1>1, <1>6, SettledHasID DEF SpecifyTimeline
    <2> QED
      BY <1>6, <2>1, AssignsID DEF SpecifyTimeline, Edit
  <1>7. CASE Delete
    <2> DEFINE v == [Latest EXCEPT !.exists = FALSE]
    <2>1. PICK p \in PGVersions : TRUE
      BY <1>1 DEF Version
    <2>2. v \in Version
      BY <1>1, <1>2, <2>1, VersionUpdates
    <2>3. v.exists = FALSE /\ v.uid = Latest.uid /\ v.timeline = Latest.timeline
      BY <1>1 DEF Version
    <2>4. Store(v) /\ Latest.exists
      BY <1>7 DEF Delete
    <2> HIDE DEF v
    <2>5. Latest' = v
      BY <1>1, <2>2, <2>4, StoreFacts
    <2>6. Latest.timeline # NoID => Latest.timeline \in used
      BY <1>1 DEF HistoryInv, RecordedInv, Latest
    <2>7. used' = used
      BY <2>3, <2>4, <2>6 DEF Store
    <2>8. Sent' = Sent
      BY <1>7 DEF Delete, Edit, scVars, Sent
    <2>9. Settled' = FALSE
      BY <2>3, <2>5 DEF Settled
    <2> QED
      BY <2>3, <2>4, <2>5, <2>7, <2>8, <2>9 DEF Sent, Identity!Delete, Identity!Next
  <1>8. CASE PatchTimeline \/ PatchTimelineFails
    <2>1. newID \in IDs /\ ~Settled
      BY <1>8, TypeParts DEF PatchTimeline, PatchTimelineFails, Settled, WorkerOK
    <2>2. \/ UNCHANGED <<log, used>>
          \/ Latest.exists /\ Store(TimelinePatched) /\ UNCHANGED scVars
      BY <1>8 DEF PatchTimeline, PatchTimelineFails, apiVars
    <2>3. CASE Latest.exists /\ Store(TimelinePatched) /\ UNCHANGED scVars
      BY <2>1, <2>3, AssignsID DEF TimelinePatched, Identity!Next
    <2> QED
      BY <1>3, <2>2, <2>3
  <1>9. CASE PatchStatus \/ PatchStatusFails
    <2> DEFINE v == [Latest EXCEPT !.status = want]
    <2>1. UNCHANGED <<log, used>> \/ Store(v)
      BY <1>9 DEF PatchStatus, PatchStatusFails
    <2>2. PICK p \in PGVersions : TRUE
      BY <1>1 DEF Version
    <2>3. v \in Version
      BY <1>1, <1>2, <2>2, VersionUpdates
    <2>4. v.exists = Latest.exists /\ v.uid = Latest.uid /\ v.timeline = Latest.timeline
      BY <1>1 DEF Version
    <2> HIDE DEF v
    <2> QED
      BY <1>3, <2>1, <2>3, <2>4, StoresSameID
  <1>10. ASSUME NEW i \in 1..Len(log), log' = SubSeq(log, i, Len(log)), used' = used
         PROVE  [Identity!Next]_(Identity!vars)
    <2>1. Latest' = Latest
      BY <1>1, <1>10, SuffixFacts
    <2> QED
      BY <1>10, <2>1, KeepsID
  <1>11. CASE Deliver
    BY <1>1, <1>10, <1>11, DeliverSuffix
  <1>12. CASE Restart
    BY <1>10, <1>12 DEF Restart
  <1> QED
    BY <1>3, <1>4, <1>5, <1>6, <1>7, <1>8, <1>9, <1>11, <1>12, Moves DEF Identity!Next

(* Refinement: the Branch reconciler, with its stale cache, unlocked patch, lost *)
(* answers, late requests and restarts, implements AssignedIdentity: a timeline  *)
(* ID that is settled stays, and only recorded IDs are ever sent.                *)
THEOREM IdentityRefined == Spec => ImplementsIdentity
  <1>1. Init => Identity!Init
    <2> SUFFICES ASSUME Init PROVE Identity!Init
      OBVIOUS
    <2>1. Len(log) = 1 /\ log[1].exists = FALSE /\ log[1].uid = 0 /\ log[1].timeline = NoID
      BY DEF Init
    <2>2. used = {} /\ Sent = {}
      BY DEF Init, Sent
    <2>3. Settled = FALSE
      BY <2>1 DEF Settled, Latest
    <2> QED
      BY <2>1, <2>2, <2>3 DEF Identity!Init, Latest, Sent
  <1>2. /\ TypeOK /\ HistoryInv /\ TypeOK' /\ HistoryInv' /\ [Next]_vars
        => [Identity!Next]_(Identity!vars)
    BY IdentityStep
  <1> QED
    BY <1>1, <1>2, TypeCorrect, HistoryCorrect, PTL
       DEF Spec, ImplementsIdentity, Identity!Spec

===============================================================================
