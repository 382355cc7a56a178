--------------------- MODULE CalendarOperationsProofs ---------------------
(***************************************************************************)
(* For every window, every number of users and every history of joining,   *)
(* leaving, starting and completing, no two users operate on the same      *)
(* content at the same time.                                               *)
(***************************************************************************)
EXTENDS CalendarOperations, TLAPS

(* The maps keep their keys and values: start_operation stores the user of the
   connection and the time it reads. *)
THEOREM OperationsTypeCorrect == Spec => []TypeOK
<1>1. Init => TypeOK
  BY OperationsAssumption DEF Init, TypeOK
<1>2. TypeOK /\ [Next]_vars => TypeOK'
  <2> SUFFICES ASSUME TypeOK, [Next]_vars PROVE TypeOK'
    OBVIOUS
  <2>1. CASE Tick
    <3>1. clock' \in 0..MaxClock
      BY <2>1, OperationsAssumption DEF Tick, TypeOK
    <3> QED
      BY <2>1, <3>1 DEF Tick, TypeOK, membership
  <2>2. ASSUME NEW c \in Conns, Register(c) \/ Unregister(c) \/ Join(c) \/ Leave(c)
        PROVE TypeOK'
    BY <2>2 DEF Register, Unregister, Join, Leave, TypeOK
  <2>3. ASSUME NEW c \in Conns, NEW id \in OperationIds, NEW k \in Contents,
               StartOperation(c, id, k)
        PROVE TypeOK'
    <3>1. Tracked(c, id) \in Operation
      BY OperationsAssumption DEF Tracked, Operation, TypeOK
    <3>2. ongoing_operations' \in [Contents -> SUBSET Operation]
      BY <2>3, <3>1 DEF StartOperation, TypeOK
    <3> QED
      BY <2>3, <3>2 DEF StartOperation, TypeOK, membership
  <2>4. ASSUME NEW c \in Conns, NEW id \in OperationIds, NEW k \in Contents,
               CompleteOperation(c, id, k)
        PROVE TypeOK'
    BY <2>4 DEF CompleteOperation, TypeOK, membership
  <2>5. CASE UNCHANGED vars
    BY <2>5 DEF vars, membership, TypeOK
  <2> QED
    BY <2>1, <2>2, <2>3, <2>4, <2>5 DEF Next
<1> QED
  BY <1>1, <1>2, PTL DEF Spec

(* At most one user has a recent operation on a content.  The invariant is inductive
   by itself: time only makes operations older, completing only removes them, and
   starting adds one of a user who found no recent operation of another. *)
THEOREM OperationsSafe == Spec => []OneUserOperates
<1>1. Init => OneUserOperates
  BY DEF Init, OneUserOperates
<1>2. TypeOK /\ OneUserOperates /\ [Next]_vars => OneUserOperates'
  <2> SUFFICES ASSUME TypeOK, OneUserOperates, [Next]_vars,
                      NEW k \in Contents,
                      NEW a \in ongoing_operations'[k], NEW b \in ongoing_operations'[k],
                      Recent(a)', Recent(b)'
               PROVE a.user_id = b.user_id
    BY DEF OneUserOperates
  <2>1. CASE Tick
    <3>1. a \in Operation /\ b \in Operation /\ ongoing_operations'[k] = ongoing_operations[k]
      BY <2>1 DEF Tick, TypeOK
    <3>2. Recent(a) /\ Recent(b)
      BY <2>1, <3>1, OperationsAssumption DEF Tick, Recent, Operation, TypeOK
    <3> QED
      BY <3>1, <3>2 DEF OneUserOperates
  <2>2. ASSUME clock' = clock, ongoing_operations'[k] \subseteq ongoing_operations[k]
        PROVE a.user_id = b.user_id
    BY <2>2 DEF OneUserOperates, Recent
  <2>3. ASSUME NEW c \in Conns, NEW id \in OperationIds, NEW l \in Contents,
               StartOperation(c, id, l)
        PROVE a.user_id = b.user_id
    <3>1. clock' = clock /\ Recent(a) /\ Recent(b)
      BY <2>3 DEF StartOperation, Recent
    <3>2. ASSUME NEW op \in ongoing_operations'[k], Recent(op)
          PROVE op \in ongoing_operations[k] \/ (l = k /\ op.user_id = UserOf[c])
      BY <2>3 DEF StartOperation, Tracked, TypeOK
    <3>3. ASSUME l = k, NEW op \in ongoing_operations[k], Recent(op)
          PROVE op.user_id = UserOf[c]
      BY <2>3, <3>3 DEF StartOperation, Conflicts
    <3> QED
      BY <3>1, <3>2, <3>3 DEF OneUserOperates
  <2>4. ASSUME NEW c \in Conns, NEW id \in OperationIds, NEW l \in Contents,
               CompleteOperation(c, id, l)
        PROVE a.user_id = b.user_id
    <3>1. clock' = clock /\ ongoing_operations'[k] \subseteq ongoing_operations[k]
      BY <2>4 DEF CompleteOperation, TypeOK
    <3> QED
      BY <2>2, <3>1
  <2>5. ASSUME NEW c \in Conns, Register(c) \/ Unregister(c) \/ Join(c) \/ Leave(c)
        PROVE a.user_id = b.user_id
    BY <2>2, <2>5 DEF Register, Unregister, Join, Leave
  <2>6. CASE UNCHANGED vars
    BY <2>2, <2>6 DEF vars
  <2> QED
    BY <2>1, <2>3, <2>4, <2>5, <2>6 DEF Next
<1> QED
  BY <1>1, <1>2, OperationsTypeCorrect, PTL DEF Spec
=============================================================================
