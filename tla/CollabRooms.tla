---------------------------- MODULE CollabRooms ----------------------------
(***************************************************************************)
(* The rooms of the content editor: ConnectionManager and                  *)
(* websocket_endpoint of src/src/api/websocket.py.                         *)
(*                                                                         *)
(* One endpoint task serves each connection; tasks give way to each other  *)
(* in a send (and in nothing else: the analytics calls never suspend).  A  *)
(* task's stack holds what it will do after the send it is in: the         *)
(* broadcast or the direct messages the send belongs to and, under it,     *)
(* those that a failed send interrupted, because a failed send disconnects *)
(* its recipient, which broadcasts in turn.  A send that succeeds changes  *)
(* nothing here, so which one a broadcast is in is left open: the users it *)
(* may have come to are kept.                                              *)
(***************************************************************************)
EXTENDS Naturals, FiniteSets, Sequences

CONSTANTS
  Conns, NoConn,
  Users, User,    \* the user each connection belongs to
  Rooms, NoRoom,
  MaxMessages     \* bound: messages the endpoints handle

ASSUME CollabAssumption ==
  /\ User \in [Conns -> Users] /\ NoConn \notin Conns /\ NoRoom \notin Rooms
  /\ IsFiniteSet(Users) /\ MaxMessages \in Nat

VARIABLES
  sock,      \* the client's end of the connection
  task,      \* the endpoint of each connection
  stack,     \* what it is in the middle of, innermost first
  listed,    \* the connections of active_connections
  mapped,    \* the connections of connection_users
  current,   \* connection_rooms
  rooms,     \* the users of each room; {} for a room that does not exist
  version,   \* version of room_content; 0 for none
  comments,  \* room_comments is not empty
  shown,     \* the users of typing_users, user_selections and user_cursors
  born,      \* how often the room was deleted: tells one set object from the next
  metrics,   \* the metrics task runs
  handled    \* messages handled so far

registry == <<listed, mapped>>
room     == <<rooms, version, comments, shown, born>>
vars == <<sock, task, stack, registry, current, room, metrics, handled>>

Init ==
  /\ sock = [c \in Conns |-> "new"] /\ task = [c \in Conns |-> "none"]
  /\ stack = [c \in Conns |-> << >>]
  /\ listed = {} /\ mapped = {} /\ current = [c \in Conns |-> NoRoom]
  /\ rooms = [r \in Rooms |-> {}] /\ version = [r \in Rooms |-> 0]
  /\ comments = [r \in Rooms |-> FALSE] /\ shown = [r \in Rooms |-> {}]
  /\ born = [r \in Rooms |-> 0]
  /\ metrics \in BOOLEAN /\ handled = 0

-----------------------------------------------------------------------------
(***************************************************************************)
(* Sends.  A direct message goes to the task's own connection; when it is  *)
(* part of join_room, the broadcast to the room follows.  A broadcast      *)
(* walks the set of the room's users, and raises when it comes to the next *)
(* one and the set has changed its size.  It goes through all connections  *)
(* of a user it has come to, also when the user leaves the room meanwhile; *)
(* `users' are those it may be at.  `after' is the connection to remove    *)
(* once the broadcast is over.                                             *)
(***************************************************************************)
Direct(r, c) ==
  <<[kind |-> "direct", room |-> r, skip |-> c, after |-> NoConn, users |-> {},
     size |-> 0, born |-> 0]>>

(* In the state a step leads to. *)
Broadcast(r, skip, after) ==
  IF \E d \in listed' \ {skip} : User[d] \in rooms'[r]
  THEN <<[kind |-> "broadcast", room |-> r, skip |-> skip, after |-> after, users |-> rooms'[r],
          size |-> Cardinality(rooms'[r]), born |-> born'[r]]>>
  ELSE << >>

Recipients(c, f) ==
  IF f.kind = "direct" THEN {c}
  ELSE {d \in listed \ {f.skip} : User[d] \in f.users}

Changed(f) ==
  f.kind = "broadcast" /\ (Cardinality(rooms[f.room]) # f.size \/ born[f.room] # f.born)

(* The task goes on with this stack; a task that cleaned up after its client has
   ended when nothing is left to do. *)
Continue(c, st) ==
  /\ stack' = [stack EXCEPT ![c] = st]
  /\ task' = [task EXCEPT ![c] = IF st = << >> /\ @ = "closing" THEN "done" ELSE @]

(* An exception leaves the endpoint: nothing is cleaned up. *)
Raise(c) ==
  /\ stack' = [stack EXCEPT ![c] = << >>]
  /\ task' = [task EXCEPT ![c] = "dead"]

-----------------------------------------------------------------------------
(***************************************************************************)
(* Leaving a room and disconnecting.                                       *)
(***************************************************************************)
Without(f, r, empty, none) == [f EXCEPT ![r] = IF empty THEN none ELSE @]

(* Mutants of LeaveRoom: the room's content stays; the connection stays in it. *)
LeaveRoomKeepsContent(d, r) ==
  LET left  == rooms[r] \ {User[d]}
      empty == left = {}
  IN  /\ rooms' = [rooms EXCEPT ![r] = left]
      /\ current' = [current EXCEPT ![d] = NoRoom]
      /\ shown' = [shown EXCEPT ![r] = @ \ {User[d]}]
      /\ UNCHANGED <<version, comments>>
      /\ born' = [born EXCEPT ![r] = IF empty THEN @ + 1 ELSE @]

LeaveRoomKeepsCurrent(d, r) ==
  LET left  == rooms[r] \ {User[d]}
      empty == left = {}
  IN  /\ rooms' = [rooms EXCEPT ![r] = left]
      /\ UNCHANGED current
      /\ shown' = Without([shown EXCEPT ![r] = @ \ {User[d]}], r, empty, {})
      /\ version' = Without(version, r, empty, 0)
      /\ comments' = Without(comments, r, empty, FALSE)
      /\ born' = [born EXCEPT ![r] = IF empty THEN @ + 1 ELSE @]

(* The user leaves with all connections, and this one is in no room, whichever room
   it was in; the last user takes the room and its content along. *)
LeaveRoom(d, r) ==
  LET left  == rooms[r] \ {User[d]}
      empty == left = {}
  IN  /\ rooms' = [rooms EXCEPT ![r] = left]
      /\ current' = [current EXCEPT ![d] = NoRoom]
      /\ shown' = Without([shown EXCEPT ![r] = @ \ {User[d]}], r, empty, {})
      /\ version' = Without(version, r, empty, 0)
      /\ comments' = Without(comments, r, empty, FALSE)
      /\ born' = [born EXCEPT ![r] = IF empty THEN @ + 1 ELSE @]

(* Mutant of Remove: the user mapping is removed with the user's last connection. *)
RemoveWithLast(c, d, st) ==
  IF d \in mapped /\ (d \in listed \/ \A e \in listed : User[e] # User[d])
  THEN /\ listed' = listed \ {d} /\ Continue(c, st)
       /\ mapped' = IF \E e \in listed' : User[e] = User[d] THEN mapped ELSE mapped \ {d}
  ELSE UNCHANGED registry /\ Raise(c)

(* The end of disconnect.  Another task may have come first: list.remove and del
   raise on what is not there. *)
Remove(c, d, st) ==
  IF d \in mapped /\ (d \in listed \/ \A e \in listed : User[e] # User[d])
  THEN listed' = listed \ {d} /\ mapped' = mapped \ {d} /\ Continue(c, st)
  ELSE UNCHANGED registry /\ Raise(c)

(* Task c disconnects d in the middle of what st holds.  The removal follows at once
   unless there is somebody to be told that the user left. *)
Disconnect(c, d, st) ==
  LET r == current[d] IN
  IF d \notin mapped THEN Continue(c, st) /\ UNCHANGED <<registry, current, room>>
  ELSE IF r = NoRoom \/ rooms[r] = {} THEN Remove(c, d, st) /\ UNCHANGED <<current, room>>
  ELSE /\ LeaveRoom(d, r)
       /\ IF \E e \in listed : User[e] \in rooms'[r]
          THEN UNCHANGED registry /\ Continue(c, Broadcast(r, NoConn, d) \o st)
          ELSE Remove(c, d, st)

-----------------------------------------------------------------------------
(***************************************************************************)
(* The endpoint.                                                           *)
(***************************************************************************)
(* start_metrics_task creates the task, and then raises a NameError in its log
   call: the connection that starts it is registered and not served. *)
Connect(c) ==
  /\ sock[c] = "new" /\ sock' = [sock EXCEPT ![c] = "open"]
  /\ listed' = listed \cup {c} /\ mapped' = mapped \cup {c}
  /\ metrics' = TRUE
  /\ IF metrics
     THEN /\ task' = [task EXCEPT ![c] = "serving"]
          /\ stack' = [stack EXCEPT ![c] = Direct(NoRoom, c)]
     ELSE Raise(c)
  /\ UNCHANGED <<current, room, handled>>

ClientGoes(c) ==
  /\ sock[c] = "open" /\ sock' = [sock EXCEPT ![c] = "gone"]
  /\ UNCHANGED <<task, stack, registry, current, room, metrics, handled>>

(* Messages that arrived before the client went are still read. *)
Receive(c) ==
  /\ task[c] = "serving" /\ stack[c] = << >>
  /\ handled < MaxMessages /\ handled' = handled + 1
  /\ UNCHANGED <<sock, registry, metrics>>

(* The messages about the current room all need a user, a room and that it exists. *)
InRoom(c) == c \in mapped /\ current[c] # NoRoom /\ rooms[current[c]] # {}

Ping(c) ==
  /\ Receive(c)
  /\ Continue(c, Direct(NoRoom, c))
  /\ UNCHANGED <<current, room>>

(* Mutant of JoinRoom: whoever names a content loads it. *)
JoinRoomReloads(c, r, content) ==
  /\ Receive(c) /\ c \in mapped
  /\ rooms' = [rooms EXCEPT ![r] = @ \cup {User[c]}]
  /\ version' = [version EXCEPT ![r] = IF content THEN 1 ELSE @]
  /\ current' = [current EXCEPT ![c] = r]
  /\ Continue(c, Direct(r, c))
  /\ UNCHANGED <<comments, shown, born>>

JoinRoom(c, r, content) ==
  /\ Receive(c) /\ c \in mapped
  /\ rooms' = [rooms EXCEPT ![r] = @ \cup {User[c]}]
  /\ version' = [version EXCEPT ![r] = IF rooms[r] = {} /\ content THEN 1 ELSE @]
  /\ current' = [current EXCEPT ![c] = r]
  /\ Continue(c, Direct(r, c))
  /\ UNCHANGED <<comments, shown, born>>

LeaveRoomMessage(c, r) ==
  /\ Receive(c) /\ c \in mapped /\ rooms[r] # {}
  /\ LeaveRoom(c, r)
  /\ Continue(c, Broadcast(r, NoConn, NoConn))

(* Mutant of UpdateUserStatus: the mark is kept by connection. *)
UpdateStatusByConnection(c, on) ==
  LET r == current[c] IN
  /\ Receive(c) /\ InRoom(c)
  /\ shown' = [shown EXCEPT ![r] = IF on THEN @ \cup {c} ELSE @ \ {c}]
  /\ UNCHANGED <<current, rooms, version, comments, born>>
  /\ Continue(c, Broadcast(r, c, NoConn))

UpdateUserStatus(c, on) ==
  LET r == current[c] IN
  /\ Receive(c) /\ InRoom(c)
  /\ shown' = [shown EXCEPT ![r] = IF on THEN @ \cup {User[c]} ELSE @ \ {User[c]}]
  /\ UNCHANGED <<current, rooms, version, comments, born>>
  /\ Continue(c, Broadcast(r, c, NoConn))

ContentOperation(c) ==
  LET r == current[c] IN
  /\ Receive(c) /\ InRoom(c) /\ version[r] > 0
  /\ version' = [version EXCEPT ![r] = @ + 1]
  /\ UNCHANGED <<current, rooms, comments, shown, born>>
  /\ Continue(c, Broadcast(r, c, NoConn))

AddComment(c) ==
  LET r == current[c] IN
  /\ Receive(c) /\ InRoom(c)
  /\ comments' = [comments EXCEPT ![r] = TRUE]
  /\ UNCHANGED <<current, rooms, version, shown, born>>
  /\ Continue(c, Broadcast(r, NoConn, NoConn))

(* reply_to_comment and resolve_comment *)
ChangeComment(c) ==
  /\ Receive(c) /\ InRoom(c) /\ comments[current[c]]
  /\ UNCHANGED <<current, room>>
  /\ Continue(c, Broadcast(current[c], NoConn, NoConn))

(* A message that is no JSON object: message.get raises. *)
Malformed(c) ==
  /\ Receive(c) /\ Raise(c)
  /\ UNCHANGED <<current, room>>

(* WebSocketDisconnect, and the endpoint's clean-up. *)
ClientDisconnected(c) ==
  /\ task[c] = "serving" /\ stack[c] = << >> /\ sock[c] = "gone"
  /\ task' = [task EXCEPT ![c] = "closing"]
  /\ UNCHANGED <<sock, stack, registry, current, room, metrics, handled>>

CleanUp(c) ==
  /\ task[c] = "closing" /\ stack[c] = << >>
  /\ Disconnect(c, c, << >>)
  /\ UNCHANGED <<sock, metrics, handled>>

(* A send to a client that is gone, or that the server closed because its endpoint
   raised: send_message disconnects the recipient.  It tells which user a broadcast
   has come to. *)
SendFails(c) ==
  /\ stack[c] # << >>
  /\ LET f == Head(stack[c]) IN
     \E d \in Recipients(c, f) :
       /\ sock[d] = "gone" \/ task[d] = "dead"
       /\ Disconnect(c, d, <<[f EXCEPT !.users = @ \cap {User[d]}]>> \o Tail(stack[c]))
  /\ UNCHANGED <<sock, metrics, handled>>

(* The sends to the task's own connection or to one user are over.  A broadcast may
   come to any user of the room then; after the last one, and after a direct message,
   the task goes on to where it sends again. *)
SendsEnd(c) ==
  /\ stack[c] # << >>
  /\ UNCHANGED <<sock, current, room, metrics, handled>>
  /\ LET f == Head(stack[c])
         st == Tail(stack[c])
     IN  \/ Changed(f) /\ Raise(c) /\ UNCHANGED registry
         \/ /\ f.kind = "broadcast" /\ ~Changed(f) /\ UNCHANGED registry
            /\ Continue(c, <<[f EXCEPT !.users = rooms[f.room]]>> \o st)
         \/ ~Changed(f) /\ f.after # NoConn /\ Remove(c, f.after, st)
         \/ /\ ~Changed(f) /\ f.after = NoConn /\ UNCHANGED registry
            /\ Continue(c, IF f.kind = "direct" /\ f.room # NoRoom
                           THEN Broadcast(f.room, c, NoConn) \o st ELSE st)

Message(c) ==
  \/ \E r \in Rooms : LeaveRoomMessage(c, r) \/ \E content \in BOOLEAN : JoinRoom(c, r, content)
  \/ \E on \in BOOLEAN : UpdateUserStatus(c, on)
  \/ Ping(c) \/ ContentOperation(c) \/ AddComment(c) \/ ChangeComment(c) \/ Malformed(c)

TaskStep(c) == ClientDisconnected(c) \/ CleanUp(c) \/ SendsEnd(c)

Next == \E c \in Conns : Connect(c) \/ ClientGoes(c) \/ Message(c) \/ TaskStep(c) \/ SendFails(c)

Spec == Init /\ [][Next]_vars

-----------------------------------------------------------------------------
Frames ==
  {f \in [kind : {"direct", "broadcast"}, room : Rooms \cup {NoRoom}, skip : Conns \cup {NoConn},
          after : Conns \cup {NoConn}, users : SUBSET Users, size : Nat, born : Nat] :
     f.kind = "broadcast" => f.room # NoRoom}

TypeOK ==
  /\ sock \in [Conns -> {"new", "open", "gone"}]
  /\ task \in [Conns -> {"none", "serving", "closing", "done", "dead"}]
  /\ stack \in [Conns -> Seq(Frames)]
  /\ listed \subseteq Conns /\ mapped \subseteq Conns
  /\ current \in [Conns -> Rooms \cup {NoRoom}]
  /\ rooms \in [Rooms -> SUBSET Users] /\ shown \in [Rooms -> SUBSET Users]
  /\ version \in [Rooms -> Nat] /\ comments \in [Rooms -> BOOLEAN] /\ born \in [Rooms -> Nat]
  /\ metrics \in BOOLEAN /\ handled \in 0..MaxMessages

(* The two registries never part, and an endpoint that came to its end has left
   both, whoever removed its connection: what stays behind was cut by an exception. *)
EndedIsUnregistered ==
  /\ listed = mapped
  /\ \A c \in Conns : task[c] = "done" => c \notin listed

(* A room's content, comments and marks go with its last user. *)
RoomDataDies ==
  \A r \in Rooms : rooms[r] = {} => version[r] = 0 /\ ~comments[r] /\ shown[r] = {}

(* A user with one connection is in the room that connection edits: no failed send
   and no leaving takes the room away from under it. *)
OneTabIsIn ==
  \A c \in mapped :
    /\ current[c] # NoRoom
    /\ \A d \in Conns \ {c} : User[d] = User[c] => sock[d] = "new"
    => User[c] \in rooms[current[c]]

Documents == INSTANCE RoomDocuments WITH users <- rooms

(* A room keeps its document from the first user to the last, whoever joins it again,
   leaves, is disconnected by another task's failed send or edits meanwhile. *)
DocumentService == Documents!Spec
=============================================================================
