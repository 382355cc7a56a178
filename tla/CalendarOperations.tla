------------------------ MODULE CalendarOperations ------------------------
(***************************************************************************)
(* The tracked operations of the calendar's WebSocket server:              *)
(* start_operation and complete_operation of CalendarConnectionManager in  *)
(* src/src/api/content_calendar_websocket.py.                              *)
(*                                                                         *)
(* Neither of them suspends, so each is one step of the event loop.  What  *)
(* they read of the rest of the manager is which connections are           *)
(* registered and which have a current project; module CalendarManager     *)
(* says how these change, here they change at any time.  The clock is the  *)
(* one the code reads, taken to be monotone, in units of which Window is   *)
(* the code's thirty seconds.                                              *)
(***************************************************************************)
EXTENDS Integers, FiniteSets

CONSTANTS
  Users, Conns, Contents,
  OperationIds,  \* chosen by the client, or drawn by the server
  UserOf,        \* the user of a connection
  Window,        \* how long an operation keeps other users' out
  MaxClock       \* bound on the clock

ASSUME OperationsAssumption ==
  /\ UserOf \in [Conns -> Users]
  /\ Window \in Nat
  /\ MaxClock \in Nat

VARIABLES
  connection_users,     \* the registered connections
  connection_projects,  \* the connections with a current project
  ongoing_operations,   \* content -> the operations tracked for it
  clock

membership == <<connection_users, connection_projects>>
vars == <<membership, ongoing_operations, clock>>

(* The code keeps a list; no reader depends on its order, and operations that agree
   on these fields are completed together. *)
Operation == [operation_id : OperationIds, user_id : Users, start_time : 0..MaxClock]

Init ==
  /\ connection_users = {}
  /\ connection_projects = {}
  /\ ongoing_operations = [k \in Contents |-> {}]
  /\ clock = 0

-----------------------------------------------------------------------------
(* connect, join_project, leave_project and disconnect: no tracked operation is
   touched, not even when the last connection of its user is gone. *)
Register(c) ==
  /\ connection_users' = connection_users \cup {c}
  /\ UNCHANGED <<connection_projects, ongoing_operations, clock>>

Unregister(c) ==
  /\ c \in connection_users
  /\ connection_users' = connection_users \ {c}
  /\ UNCHANGED <<connection_projects, ongoing_operations, clock>>

Join(c) ==
  /\ c \in connection_users
  /\ connection_projects' = connection_projects \cup {c}
  /\ UNCHANGED <<connection_users, ongoing_operations, clock>>

Leave(c) ==
  /\ c \in connection_users
  /\ connection_projects' = connection_projects \ {c}
  /\ UNCHANGED <<connection_users, ongoing_operations, clock>>

Tick ==
  /\ clock < MaxClock
  /\ clock' = clock + 1
  /\ UNCHANGED <<membership, ongoing_operations>>

(* An operation still keeps others out. *)
Recent(op) == clock - op.start_time < Window

(* Mutant of Conflicts: the search stops at an operation of the user's own. *)
ConflictsUnlessOwn(u, k) ==
  /\ \A op \in ongoing_operations[k] : op.user_id # u
  /\ \E op \in ongoing_operations[k] : Recent(op)

Conflicts(u, k) == \E op \in ongoing_operations[k] : op.user_id # u /\ Recent(op)

(* Mutant of Tracked: the connection is stored in place of its user. *)
TrackedConnection(c, id) == [operation_id |-> id, user_id |-> c, start_time |-> clock]

Tracked(c, id) == [operation_id |-> id, user_id |-> UserOf[c], start_time |-> clock]

(* start_operation; refused, it changes nothing. *)
StartOperation(c, id, k) ==
  /\ c \in connection_users
  /\ c \in connection_projects
  /\ ~Conflicts(UserOf[c], k)
  /\ ongoing_operations' = [ongoing_operations EXCEPT ![k] = @ \cup {Tracked(c, id)}]
  /\ UNCHANGED <<membership, clock>>

(* An unregistered connection has no user, and completes nothing. *)
Completes(op, c, id) ==
  c \in connection_users /\ op.operation_id = id /\ op.user_id = UserOf[c]

(* complete_operation: a current project is not asked for. *)
CompleteOperation(c, id, k) ==
  /\ ongoing_operations' =
       [ongoing_operations EXCEPT ![k] = {op \in @ : ~Completes(op, c, id)}]
  /\ UNCHANGED <<membership, clock>>

Next ==
  \/ Tick
  \/ \E c \in Conns : Register(c) \/ Unregister(c) \/ Join(c) \/ Leave(c)
  \/ \E c \in Conns, id \in OperationIds, k \in Contents :
       StartOperation(c, id, k) \/ CompleteOperation(c, id, k)

Spec == Init /\ [][Next]_vars

-----------------------------------------------------------------------------
TypeOK ==
  /\ connection_users \subseteq Conns
  /\ connection_projects \subseteq Conns
  /\ ongoing_operations \in [Contents -> SUBSET Operation]
  /\ clock \in 0..MaxClock

(* At no time do two users have an operation on the same content that was admitted
   less than a window ago and is not completed: a newcomer is checked against every
   operation, however many old ones of either user are still in the list, and
   whoever completes, disconnects or comes back in between. *)
OneUserOperates ==
  \A k \in Contents : \A a, b \in ongoing_operations[k] :
    Recent(a) /\ Recent(b) => a.user_id = b.user_id
=============================================================================
