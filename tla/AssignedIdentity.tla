--------------------------- MODULE AssignedIdentity ---------------------------
(***************************************************************************)
(* What the Project and the Branch reconciler promise of the ID they give  *)
(* an object (spec.tenantId, spec.timelineId) and the storage controller   *)
(* knows it by.  ProjectController and BranchController implement this     *)
(* specification.                                                          *)
(*                                                                         *)
(* The ID of an object may be replaced until it is settled, and not after; *)
(* that is less than the write-once ID one would like, and as much as      *)
(* decisions on a cache that lags and patches without a lock can give.     *)
(* Nothing is registered with the storage controller but an ID that an     *)
(* object has recorded, so that nothing is registered that cannot be found *)
(* again.  Recorded IDs that were replaced may stay registered.            *)
(***************************************************************************)
EXTENDS Naturals

CONSTANTS IDs, NoID

VARIABLES
    exists, uid,  \* the object of this name, and which one it is
    id,           \* its ID
    settled,      \* the ID is final
    recorded,     \* all IDs that objects of this name have had
    registered    \* the IDs the storage controller has, or has been sent

vars == <<exists, uid, id, settled, recorded, registered>>

Records(i) == recorded' = recorded \union ({i} \ {NoID})

Init ==
    /\ exists = FALSE /\ uid = 0 /\ id = NoID /\ settled = FALSE
    /\ recorded = {} /\ registered = {}

\* An object is created, with or without an ID.
Create ==
    /\ ~exists /\ exists' = TRUE
    /\ uid' = uid + 1
    /\ id' \in IDs \union {NoID} /\ Records(id')
    /\ settled' = FALSE
    /\ UNCHANGED registered

\* A user or the operator sets the ID; it may replace another.
Assign ==
    /\ exists /\ ~settled
    /\ id' \in IDs /\ Records(id')
    /\ settled' \in BOOLEAN
    /\ UNCHANGED <<exists, uid, registered>>

\* An ID that was recorded reaches the storage controller.
Registers == \E i \in recorded : registered' = registered \union {i}

Register == Registers /\ UNCHANGED <<exists, uid, id, settled, recorded>>

\* The ID is final.  A process that dies with a request under way may register another
\* at the same time.
Settle ==
    /\ exists /\ ~settled /\ id # NoID
    /\ settled' = TRUE
    /\ Registers \/ UNCHANGED registered
    /\ UNCHANGED <<exists, uid, id, recorded>>

Delete ==
    /\ exists /\ exists' = FALSE
    /\ settled' = FALSE
    /\ UNCHANGED <<uid, id, recorded, registered>>

Next == Create \/ Assign \/ Settle \/ Register \/ Delete

Spec == Init /\ [][Next]_vars

===============================================================================
