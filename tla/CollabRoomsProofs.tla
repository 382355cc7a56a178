------------------------- MODULE CollabRoomsProofs -------------------------
(***************************************************************************)
(* Proofs about CollabRooms, for any users, connections, rooms and number  *)
(* of messages, however deep failed sends nest.                            *)
(***************************************************************************)
EXTENDS CollabRooms, FiniteSetTheorems, TLAPS

(* A connection that was never accepted is nowhere in the manager. *)
Unknown == \A c \in Conns : sock[c] = "new" => c \notin mapped /\ current[c] = NoRoom

(* What the outermost broadcast of an endpoint that cleans up is followed by: the
   removal of its own connection, unless that is done. *)
Based(c, st) == c \notin listed \/ st[Len(st)].after = c

Grounded == \A c \in Conns : task[c] = "closing" /\ stack[c] # << >> => Based(c, stack[c])

RoomsInv == TypeOK /\ EndedIsUnregistered /\ Unknown /\ Grounded /\ RoomDataDies /\ OneTabIsIn

Tasks  == {"none", "serving", "closing", "done", "dead"}

TasksTyped == task \in [Conns -> Tasks] /\ stack \in [Conns -> Seq(Frames)]

RoomsTyped == /\ current \in [Conns -> Rooms \cup {NoRoom}]
              /\ rooms \in [Rooms -> SUBSET Users] /\ shown \in [Rooms -> SUBSET Users]
              /\ version \in [Rooms -> Nat] /\ comments \in [Rooms -> BOOLEAN]
              /\ born \in [Rooms -> Nat]

-----------------------------------------------------------------------------
(***************************************************************************)
(* Frames.                                                                 *)
(***************************************************************************)
LEMMA DirectIsFrame ==
  ASSUME NEW r \in Rooms \cup {NoRoom}, NEW c \in Conns
  PROVE  Direct(r, c) \in Seq(Frames) /\ Direct(r, c) # << >>
BY DEF Direct, Frames

LEMMA BroadcastIsFrame ==
  ASSUME RoomsTyped', NEW r \in Rooms, NEW skip \in Conns \cup {NoConn},
         NEW after \in Conns \cup {NoConn}
  PROVE  /\ Broadcast(r, skip, after) \in Seq(Frames)
         /\ Broadcast(r, skip, after) # << >>
            => /\ Len(Broadcast(r, skip, after)) = 1
               /\ Broadcast(r, skip, after)[1].after = after
<1> DEFINE f == [kind |-> "broadcast", room |-> r, skip |-> skip, after |-> after, users |-> rooms'[r],
                 size |-> Cardinality(rooms'[r]), born |-> born'[r]]
<1>1. IsFiniteSet(rooms'[r])
  BY CollabAssumption, FS_Subset DEF RoomsTyped
<1>2. Cardinality(rooms'[r]) \in Nat /\ born'[r] \in Nat
  BY <1>1, FS_CardinalityType DEF RoomsTyped
<1>3. f \in Frames /\ f.after = after
  BY <1>2, CollabAssumption DEF Frames, RoomsTyped
<1> HIDE DEF f
<1>4. <<f>> \in Seq(Frames) /\ Len(<<f>>) = 1 /\ <<f>>[1] = f
  BY <1>3
<1>5. << >> \in Seq(Frames)
  OBVIOUS
<1>6. Broadcast(r, skip, after) \in {<<f>>, << >>}
  BY DEF Broadcast, f
<1>7. CASE Broadcast(r, skip, after) = <<f>>
  BY <1>3, <1>4, <1>7, Zenon
<1>8. CASE Broadcast(r, skip, after) = << >>
  <2>1. Broadcast(r, skip, after) \in Seq(Frames)
    BY <1>5, <1>8, Zenon
  <2> QED
    BY <1>8, <2>1, Zenon
<1> QED
  BY <1>6, <1>7, <1>8

(* What is put on a stack leaves its bottom alone. *)
LEMMA StackOnTop ==
  ASSUME NEW t \in Seq(Frames), NEW st \in Seq(Frames)
  PROVE  /\ t \o st \in Seq(Frames)
         /\ st # << >> => t \o st # << >> /\ (t \o st)[Len(t \o st)] = st[Len(st)]
         /\ st = << >> => t \o st = t
<1>1. /\ Len(t \o st) = Len(t) + Len(st)
      /\ \A i \in 1..Len(st) : (t \o st)[Len(t) + i] = st[i]
  OBVIOUS
<1>2. st # << >> => Len(st) \in 1..Len(st)
  OBVIOUS
<1>3. st = << >> => t \o st = t
  OBVIOUS
<1> QED
  BY <1>1, <1>2, <1>3

LEMMA TailOfStack ==
  ASSUME NEW st \in Seq(Frames), st # << >>
  PROVE  /\ Head(st) \in Frames /\ Tail(st) \in Seq(Frames)
         /\ Tail(st) # << >> => Tail(st)[Len(Tail(st))] = st[Len(st)]
         /\ Tail(st) = << >> => Head(st) = st[Len(st)]
<1>1. Head(st) \in Frames /\ Tail(st) \in Seq(Frames) /\ Len(Tail(st)) = Len(st) - 1
      /\ Head(st) = st[1] /\ Len(st) \in Nat \ {0}
  OBVIOUS
<1>2. \A i \in 1..Len(Tail(st)) : Tail(st)[i] = st[i + 1]
  OBVIOUS
<1>3. ASSUME Tail(st) # << >> PROVE Tail(st)[Len(Tail(st))] = st[Len(st)]
  <2>1. Len(Tail(st)) \in 1..Len(Tail(st))
    BY <1>1, <1>3
  <2> QED
    BY <1>1, <1>2, <2>1
<1>4. ASSUME Tail(st) = << >> PROVE Head(st) = st[Len(st)]
  <2>1. Len(<< >>) = 0
    OBVIOUS
  <2>2. Len(Tail(st)) = 0
    BY <1>4, <2>1, Zenon
  <2>3. \A n \in Nat : n - 1 = 0 => n = 1
    OBVIOUS
  <2>4. Len(st) - 1 = 0 /\ Len(st) \in Nat
    BY <1>1, <2>2, Zenon
  <2>5. Len(st) = 1
    BY <2>3, <2>4, Zenon
  <2> QED
    BY <1>1, <2>5, Zenon
<1> QED
  BY <1>1, <1>3, <1>4

(* A broadcast that goes on to other users is followed by what it was followed by. *)
LEMMA FrameGoesOn ==
  ASSUME NEW st \in Seq(Frames), st # << >>, NEW users \in SUBSET Users,
         NEW new, new = <<[Head(st) EXCEPT !.users = users]>> \o Tail(st)
  PROVE  new \in Seq(Frames) /\ new # << >> /\ new[Len(new)].after = st[Len(st)].after
<1> DEFINE g == [Head(st) EXCEPT !.users = users]
<1>1. /\ Head(st) \in Frames /\ Tail(st) \in Seq(Frames)
      /\ Tail(st) # << >> => Tail(st)[Len(Tail(st))] = st[Len(st)]
      /\ Tail(st) = << >> => Head(st) = st[Len(st)]
  BY TailOfStack
<1>2. g \in Frames /\ g.after = Head(st).after
  BY <1>1 DEF Frames
<1>3. new = <<g>> \o Tail(st)
  OBVIOUS
<1> HIDE DEF g
<1>4. <<g>> \in Seq(Frames) /\ <<g>> # << >> /\ <<g>>[Len(<<g>>)] = g
  BY <1>2
<1>5. /\ <<g>> \o Tail(st) \in Seq(Frames)
      /\ Tail(st) # << >> => /\ <<g>> \o Tail(st) # << >>
                             /\ (<<g>> \o Tail(st))[Len(<<g>> \o Tail(st))] = Tail(st)[Len(Tail(st))]
      /\ Tail(st) = << >> => <<g>> \o Tail(st) = <<g>>
  BY <1>1, <1>4, StackOnTop
<1> QED
  BY <1>1, <1>2, <1>3, <1>4, <1>5, Zenon

-----------------------------------------------------------------------------
(***************************************************************************)
(* Continue, Raise and Remove.                                             *)
(***************************************************************************)
LEMMA ContinueKeeps ==
  ASSUME TasksTyped, NEW c \in Conns, NEW st \in Seq(Frames), Continue(c, st)
  PROVE  /\ TasksTyped'
         /\ stack'[c] = st
         /\ task'[c] = IF st = << >> /\ task[c] = "closing" THEN "done" ELSE task[c]
         /\ \A e \in Conns \ {c} : stack'[e] = stack[e] /\ task'[e] = task[e]
BY DEF Continue, TasksTyped, Tasks

LEMMA RaiseKeeps ==
  ASSUME TasksTyped, NEW c \in Conns, Raise(c)
  PROVE  /\ TasksTyped'
         /\ stack'[c] = << >> /\ task'[c] = "dead"
         /\ \A e \in Conns \ {c} : stack'[e] = stack[e] /\ task'[e] = task[e]
BY DEF Raise, TasksTyped, Tasks

(* The task's stack after it removed d, or went on, when every other task is left
   alone and nobody is registered: who cleaned up is gone, or will remove itself. *)
Ending(c, st) ==
  task[c] = "closing" => IF st = << >> THEN c \notin listed' ELSE c \notin listed' \/ st[Len(st)].after = c

LEMMA TaskKeeps ==
  ASSUME TasksTyped, EndedIsUnregistered, Grounded, NEW c \in Conns, NEW st \in Seq(Frames),
         Continue(c, st), Ending(c, st), listed' \subseteq listed, mapped' = listed'
  PROVE  TasksTyped' /\ EndedIsUnregistered' /\ Grounded'
<1>1. /\ TasksTyped' /\ stack'[c] = st
      /\ task'[c] = IF st = << >> /\ task[c] = "closing" THEN "done" ELSE task[c]
      /\ \A e \in Conns \ {c} : stack'[e] = stack[e] /\ task'[e] = task[e]
  BY ContinueKeeps
<1>2. EndedIsUnregistered'
  BY <1>1 DEF EndedIsUnregistered, Ending
<1>3. Grounded'
  BY <1>1 DEF Grounded, Based, Ending
<1> QED
  BY <1>1, <1>2, <1>3

LEMMA DeadKeeps ==
  ASSUME TasksTyped, EndedIsUnregistered, Grounded, NEW c \in Conns, Raise(c), UNCHANGED registry
  PROVE  TasksTyped' /\ EndedIsUnregistered' /\ Grounded'
<1>1. /\ TasksTyped' /\ stack'[c] = << >> /\ task'[c] = "dead"
      /\ \A e \in Conns \ {c} : stack'[e] = stack[e] /\ task'[e] = task[e]
  BY RaiseKeeps
<1>2. UNCHANGED <<listed, mapped>>
  BY DEF registry
<1>3. EndedIsUnregistered' /\ Grounded'
  BY <1>1, <1>2 DEF EndedIsUnregistered, Grounded, Based
<1> QED
  BY <1>1, <1>3

LEMMA RemoveKeeps ==
  ASSUME TasksTyped, EndedIsUnregistered, Grounded, NEW c \in Conns, NEW d \in Conns,
         NEW st \in Seq(Frames), Remove(c, d, st),
         task[c] = "closing" =>
           IF st = << >> THEN c \notin listed \ {d} ELSE Based(c, st)
  PROVE  TasksTyped' /\ EndedIsUnregistered' /\ Grounded' /\ listed' \subseteq listed
<1>1. CASE d \in mapped /\ (d \in listed \/ \A e \in listed : User[e] # User[d])
  <2>1. listed' = listed \ {d} /\ mapped' = listed' /\ Continue(c, st)
    BY <1>1 DEF Remove, EndedIsUnregistered
  <2>2. Ending(c, st)
    BY <2>1 DEF Ending, Based
  <2> QED
    BY <2>1, <2>2, TaskKeeps
<1>2. CASE ~(d \in mapped /\ (d \in listed \/ \A e \in listed : User[e] # User[d]))
  <2>1. UNCHANGED registry /\ Raise(c)
    BY <1>2 DEF Remove
  <2> QED
    BY <2>1, DeadKeeps DEF registry
<1> QED
  BY <1>1, <1>2

-----------------------------------------------------------------------------
(***************************************************************************)
(* Rooms.                                                                  *)
(***************************************************************************)

(* A step that leaves the rooms alone, and takes nobody's connection to a new state
   but off the registry. *)
LEMMA RoomsUntouched ==
  ASSUME RoomsInv, UNCHANGED <<current, room>>, mapped' \subseteq mapped,
         \A c \in Conns : sock'[c] = "new" => sock[c] = "new"
  PROVE  RoomsTyped' /\ RoomDataDies' /\ OneTabIsIn' /\ Unknown'
<1>1. UNCHANGED <<current, rooms, version, comments, shown, born>>
  BY DEF room
<1>2. RoomsTyped' /\ RoomDataDies' /\ Unknown'
  BY <1>1 DEF RoomsInv, TypeOK, RoomsTyped, RoomDataDies, Unknown
<1>3. OneTabIsIn'
  BY <1>1 DEF RoomsInv, TypeOK, OneTabIsIn
<1> QED
  BY <1>2, <1>3

LEMMA LeaveRoomKeeps ==
  ASSUME RoomsInv, NEW d \in mapped, NEW r \in Rooms, LeaveRoom(d, r),
         mapped' \subseteq mapped, sock' = sock
  PROVE  RoomsTyped' /\ RoomDataDies' /\ OneTabIsIn' /\ Unknown'
<1>1. /\ d \in Conns /\ current \in [Conns -> Rooms \cup {NoRoom}]
      /\ rooms \in [Rooms -> SUBSET Users] /\ shown \in [Rooms -> SUBSET Users]
      /\ version \in [Rooms -> Nat] /\ comments \in [Rooms -> BOOLEAN] /\ born \in [Rooms -> Nat]
      /\ mapped \subseteq Conns
  BY DEF RoomsInv, TypeOK
<1> DEFINE left == rooms[r] \ {User[d]}
           empty == left = {}
<1>2. /\ rooms' = [rooms EXCEPT ![r] = left]
      /\ current' = [current EXCEPT ![d] = NoRoom]
  BY DEF LeaveRoom
<1>3. /\ shown' \in [Rooms -> SUBSET Users] /\ \A q \in Rooms \ {r} : shown'[q] = shown[q]
      /\ empty => shown'[r] = {}
  BY <1>1 DEF LeaveRoom, Without
<1>4. /\ version' \in [Rooms -> Nat] /\ \A q \in Rooms \ {r} : version'[q] = version[q]
      /\ empty => version'[r] = 0
  BY <1>1 DEF LeaveRoom, Without
<1>5. /\ comments' \in [Rooms -> BOOLEAN] /\ \A q \in Rooms \ {r} : comments'[q] = comments[q]
      /\ empty => comments'[r] = FALSE
  BY <1>1 DEF LeaveRoom, Without
<1>6. born' \in [Rooms -> Nat]
  BY <1>1 DEF LeaveRoom
<1>7. rooms'[r] = left /\ \A q \in Rooms \ {r} : rooms'[q] = rooms[q]
  BY <1>1, <1>2
<1>8. RoomsTyped'
  BY <1>1, <1>2, <1>3, <1>4, <1>5, <1>6 DEF RoomsTyped
<1>9. RoomDataDies'
  BY <1>3, <1>4, <1>5, <1>7 DEF RoomsInv, RoomDataDies
<1>10. Unknown'
  BY <1>1, <1>2 DEF RoomsInv, Unknown
<1>11. OneTabIsIn'
  <2> SUFFICES ASSUME NEW c \in mapped', current'[c] # NoRoom,
                      \A e \in Conns \ {c} : User[e] = User[c] => sock[e] = "new"
               PROVE  User[c] \in rooms'[current'[c]]
    BY DEF OneTabIsIn
  <2>1. c # d /\ c \in Conns /\ c \in mapped /\ current'[c] = current[c]
    BY <1>1, <1>2
  <2>2. sock[d] # "new"
    BY <1>1 DEF RoomsInv, Unknown
  <2>3. User[c] # User[d]
    BY <1>1, <2>1, <2>2
  <2>4. User[c] \in rooms[current[c]] /\ current[c] \in Rooms
    BY <1>1, <2>1 DEF RoomsInv, OneTabIsIn
  <2> QED
    BY <1>7, <2>1, <2>3, <2>4
<1> QED
  BY <1>8, <1>9, <1>10, <1>11

-----------------------------------------------------------------------------
(***************************************************************************)
(* Disconnecting, in the middle of what st holds.                          *)
(***************************************************************************)
LEMMA Typed ==
  ASSUME RoomsInv
  PROVE  /\ TasksTyped /\ RoomsTyped
         /\ listed \subseteq Conns /\ mapped = listed
         /\ EndedIsUnregistered /\ Grounded
BY DEF RoomsInv, TypeOK, TasksTyped, RoomsTyped, Tasks, EndedIsUnregistered

LEMMA Together ==
  ASSUME TasksTyped', RoomsTyped', EndedIsUnregistered', Grounded', RoomDataDies', OneTabIsIn',
         Unknown', listed' \subseteq Conns, metrics' \in BOOLEAN, handled' \in 0..MaxMessages,
         sock' \in [Conns -> {"new", "open", "gone"}]
  PROVE  RoomsInv'
BY DEF RoomsInv, TypeOK, TasksTyped, RoomsTyped, Tasks, EndedIsUnregistered

LEMMA DisconnectKeeps ==
  ASSUME RoomsInv, NEW c \in Conns, NEW d \in Conns, NEW st \in Seq(Frames),
         Disconnect(c, d, st), UNCHANGED <<sock, metrics, handled>>,
         task[c] = "closing" => IF st = << >> THEN c = d ELSE Based(c, st)
  PROVE  RoomsInv'
<1> DEFINE r == current[d]
<1>1. /\ TasksTyped /\ RoomsTyped /\ listed \subseteq Conns /\ mapped = listed
      /\ EndedIsUnregistered /\ Grounded
  BY Typed
<1>2. /\ metrics' \in BOOLEAN /\ handled' \in 0..MaxMessages
      /\ sock' \in [Conns -> {"new", "open", "gone"}] /\ sock' = sock
  BY DEF RoomsInv, TypeOK
<1>3. task[c] = "closing" => IF st = << >> THEN c \notin listed \ {d} ELSE Based(c, st)
  OBVIOUS
<1>4. CASE d \notin mapped
  <2>1. Continue(c, st) /\ UNCHANGED <<registry, current, room>>
    BY <1>4 DEF Disconnect
  <2>2. listed' = listed /\ mapped' = mapped
    BY <2>1 DEF registry
  <2>3. Ending(c, st)
    BY <1>1, <1>3, <1>4, <2>2 DEF Ending, Based
  <2>4. TasksTyped' /\ EndedIsUnregistered' /\ Grounded'
    BY <1>1, <2>1, <2>2, <2>3, TaskKeeps
  <2>5. RoomsTyped' /\ RoomDataDies' /\ OneTabIsIn' /\ Unknown'
    BY <1>2, <2>1, <2>2, RoomsUntouched
  <2> QED
    BY <1>1, <1>2, <2>2, <2>4, <2>5, Together
<1>5. CASE d \in mapped /\ (r = NoRoom \/ rooms[r] = {})
  <2>1. Remove(c, d, st) /\ UNCHANGED <<current, room>>
    BY <1>5 DEF Disconnect
  <2>2. TasksTyped' /\ EndedIsUnregistered' /\ Grounded' /\ listed' \subseteq listed
    BY <1>1, <1>3, <2>1, RemoveKeeps
  <2>3. mapped' \subseteq mapped
    BY <1>1, <2>2 DEF EndedIsUnregistered
  <2>4. RoomsTyped' /\ RoomDataDies' /\ OneTabIsIn' /\ Unknown'
    BY <1>2, <2>1, <2>3, RoomsUntouched
  <2> QED
    BY <1>1, <1>2, <2>2, <2>4, Together
<1>6. CASE d \in mapped /\ r # NoRoom /\ rooms[r] # {}
  <2>1. r \in Rooms
    BY <1>1, <1>6 DEF RoomsTyped
  <2>2. LeaveRoom(d, r)
    BY <1>6 DEF Disconnect
  <2>3. CASE \E e \in listed : User[e] \in rooms'[r]
    <3>1. UNCHANGED registry /\ Continue(c, Broadcast(r, NoConn, d) \o st)
      BY <1>6, <2>3 DEF Disconnect
    <3>2. listed' = listed /\ mapped' = mapped
      BY <3>1 DEF registry
    <3>3. RoomsTyped' /\ RoomDataDies' /\ OneTabIsIn' /\ Unknown'
      BY <1>2, <1>6, <2>1, <2>2, <3>2, LeaveRoomKeeps
    <3>4. Broadcast(r, NoConn, d) # << >>
      BY <1>1, <2>3, <3>2, CollabAssumption DEF Broadcast
    <3>5. /\ Broadcast(r, NoConn, d) \in Seq(Frames)
          /\ Len(Broadcast(r, NoConn, d)) = 1 /\ Broadcast(r, NoConn, d)[1].after = d
      <4>1. NoConn \in Conns \cup {NoConn} /\ d \in Conns \cup {NoConn}
        OBVIOUS
      <4>2. /\ Broadcast(r, NoConn, d) \in Seq(Frames)
            /\ Broadcast(r, NoConn, d) # << >>
               => /\ Len(Broadcast(r, NoConn, d)) = 1
                  /\ Broadcast(r, NoConn, d)[1].after = d
        BY <2>1, <3>3, <4>1, BroadcastIsFrame
      <4> QED
        BY <3>4, <4>2
    <3> DEFINE new == Broadcast(r, NoConn, d) \o st
    <3>6. /\ new \in Seq(Frames)
          /\ st # << >> => new # << >> /\ new[Len(new)] = st[Len(st)]
          /\ st = << >> => new = Broadcast(r, NoConn, d)
      BY <3>5, StackOnTop
    <3> HIDE DEF new
    <3>7. ASSUME task[c] = "closing"
          PROVE  IF new = << >> THEN c \notin listed' ELSE c \notin listed' \/ new[Len(new)].after = c
      <4>1. CASE st = << >>
        <5>1. new = Broadcast(r, NoConn, d) /\ c = d
          BY <3>6, <3>7, <4>1
        <5>2. new # << >> /\ new[Len(new)].after = c
          BY <3>4, <3>5, <5>1
        <5> QED
          BY <5>2
      <4>2. CASE st # << >>
        BY <3>2, <3>6, <3>7, <4>2 DEF Based
      <4> QED
        BY <4>1, <4>2
    <3>8. Ending(c, new)
      BY <3>7 DEF Ending
    <3>9. TasksTyped' /\ EndedIsUnregistered' /\ Grounded'
      BY <1>1, <3>1, <3>2, <3>6, <3>8, TaskKeeps DEF new
    <3> QED
      BY <1>1, <1>2, <3>2, <3>3, <3>9, Together
  <2>4. CASE ~ \E e \in listed : User[e] \in rooms'[r]
    <3>1. Remove(c, d, st)
      BY <1>6, <2>4 DEF Disconnect
    <3>2. TasksTyped' /\ EndedIsUnregistered' /\ Grounded' /\ listed' \subseteq listed
      BY <1>1, <1>3, <3>1, RemoveKeeps
    <3>3. mapped' \subseteq mapped
      BY <1>1, <3>2 DEF EndedIsUnregistered
    <3>4. RoomsTyped' /\ RoomDataDies' /\ OneTabIsIn' /\ Unknown'
      BY <1>2, <1>6, <2>1, <2>2, <3>3, LeaveRoomKeeps
    <3> QED
      BY <1>1, <1>2, <3>2, <3>4, Together
  <2> QED
    BY <2>3, <2>4
<1> QED
  BY <1>4, <1>5, <1>6

-----------------------------------------------------------------------------
(***************************************************************************)
(* The messages of the receive loop.  The task goes on in a stack of new   *)
(* sends, with nothing beneath and its connection open to the next one.    *)
(***************************************************************************)
LEMMA ServingKeeps ==
  ASSUME RoomsInv, NEW c \in Conns, Receive(c), NEW st \in Seq(Frames), Continue(c, st),
         RoomsTyped', RoomDataDies', OneTabIsIn', Unknown'
  PROVE  RoomsInv'
<1>1. task[c] = "serving" /\ UNCHANGED <<sock, listed, mapped, metrics>> /\ handled' \in 0..MaxMessages
  BY CollabAssumption DEF Receive, registry, RoomsInv, TypeOK
<1>2. Ending(c, st)
  BY <1>1 DEF Ending
<1>3. TasksTyped' /\ EndedIsUnregistered' /\ Grounded'
  BY <1>1, <1>2, Typed, TaskKeeps
<1> QED
  BY <1>1, <1>3, Together DEF RoomsInv, TypeOK

LEMMA InRoomIsRoom ==
  ASSUME RoomsInv, NEW c \in Conns, InRoom(c)
  PROVE  current[c] \in Rooms /\ rooms[current[c]] # {} /\ c \in mapped
BY DEF RoomsInv, TypeOK, InRoom

(* A message about the room its sender is in leaves who is in it alone. *)
LEMMA InRoomStep ==
  ASSUME RoomsInv, NEW c \in Conns, Receive(c), InRoom(c), UNCHANGED <<current, rooms, born>>,
         \A q \in Rooms : q # current[c] => version'[q] = version[q] /\ comments'[q] = comments[q]
                                            /\ shown'[q] = shown[q],
         version' \in [Rooms -> Nat], comments' \in [Rooms -> BOOLEAN],
         shown' \in [Rooms -> SUBSET Users],
         NEW skip \in {c, NoConn}, Continue(c, Broadcast(current[c], skip, NoConn))
  PROVE  RoomsInv'
<1>1. current[c] \in Rooms /\ rooms[current[c]] # {} /\ c \in mapped
  BY InRoomIsRoom
<1>2. sock' = sock /\ mapped' = mapped
  BY DEF Receive, registry
<1>3. RoomsTyped'
  BY DEF RoomsTyped, RoomsInv, TypeOK
<1>4. RoomDataDies'
  BY <1>1 DEF RoomsInv, RoomDataDies
<1>5. OneTabIsIn' /\ Unknown'
  BY <1>2 DEF RoomsInv, OneTabIsIn, Unknown
<1>6. Broadcast(current[c], skip, NoConn) \in Seq(Frames)
  BY <1>1, <1>3, BroadcastIsFrame
<1> QED
  BY <1>3, <1>4, <1>5, <1>6, ServingKeeps

LEMMA JoinStep ==
  ASSUME RoomsInv, NEW c \in Conns, NEW r \in Rooms, NEW content \in BOOLEAN,
         JoinRoom(c, r, content)
  PROVE  RoomsInv'
<1>1. /\ RoomsTyped /\ Receive(c) /\ c \in mapped /\ sock' = sock /\ mapped' = mapped
      /\ mapped \subseteq Conns
  BY Typed DEF JoinRoom, Receive, registry
<1>2. /\ rooms' = [rooms EXCEPT ![r] = @ \cup {User[c]}]
      /\ version' = [version EXCEPT ![r] = IF rooms[r] = {} /\ content THEN 1 ELSE @]
      /\ current' = [current EXCEPT ![c] = r]
      /\ Continue(c, Direct(r, c)) /\ UNCHANGED <<comments, shown, born>>
  BY DEF JoinRoom
<1>3. RoomsTyped'
  <2>1. /\ current \in [Conns -> Rooms \cup {NoRoom}] /\ rooms \in [Rooms -> SUBSET Users]
        /\ version \in [Rooms -> Nat] /\ User[c] \in Users
    BY <1>1, CollabAssumption DEF RoomsTyped
  <2>2. rooms' \in [Rooms -> SUBSET Users]
    BY <1>2, <2>1
  <2>3. version' \in [Rooms -> Nat]
    BY <1>2, <2>1
  <2>4. current' \in [Conns -> Rooms \cup {NoRoom}]
    BY <1>2, <2>1
  <2> QED
    BY <1>1, <1>2, <2>2, <2>3, <2>4 DEF RoomsTyped
<1>4. RoomDataDies'
  BY <1>1, <1>2 DEF RoomsInv, RoomDataDies, RoomsTyped
<1>5. Unknown'
  BY <1>1, <1>2 DEF RoomsInv, Unknown, RoomsTyped
<1>6. OneTabIsIn'
  <2> SUFFICES ASSUME NEW e \in mapped', current'[e] # NoRoom,
                      \A d \in Conns \ {e} : User[d] = User[e] => sock[d] = "new"
               PROVE  User[e] \in rooms'[current'[e]]
    BY <1>1 DEF OneTabIsIn
  <2>1. CASE e = c
    BY <1>1, <1>2, <2>1 DEF RoomsTyped
  <2>2. CASE e # c
    <3>1. current'[e] = current[e] /\ e \in mapped
      BY <1>1, <1>2, <2>2 DEF RoomsTyped
    <3>2. User[e] \in rooms[current[e]] /\ current[e] \in Rooms
      BY <1>1, <3>1 DEF RoomsInv, OneTabIsIn, RoomsTyped
    <3> QED
      BY <1>1, <1>2, <3>1, <3>2 DEF RoomsTyped
  <2> QED
    BY <2>1, <2>2
<1>7. Direct(r, c) \in Seq(Frames)
  BY DirectIsFrame
<1> QED
  BY <1>1, <1>2, <1>3, <1>4, <1>5, <1>6, <1>7, ServingKeeps

LEMMA PingStep ==
  ASSUME RoomsInv, NEW c \in Conns, Ping(c)
  PROVE  RoomsInv'
<1>1. Receive(c) /\ Continue(c, Direct(NoRoom, c)) /\ UNCHANGED <<current, room>>
      /\ sock' = sock /\ mapped' = mapped
  BY DEF Ping, Receive, registry
<1>2. Direct(NoRoom, c) \in Seq(Frames)
  BY DirectIsFrame
<1>3. RoomsTyped' /\ RoomDataDies' /\ OneTabIsIn' /\ Unknown'
  BY <1>1, RoomsUntouched
<1> QED
  BY <1>1, <1>2, <1>3, ServingKeeps

LEMMA LeaveStep ==
  ASSUME RoomsInv, NEW c \in Conns, NEW r \in Rooms, LeaveRoomMessage(c, r)
  PROVE  RoomsInv'
<1>1. /\ Receive(c) /\ Continue(c, Broadcast(r, NoConn, NoConn)) /\ LeaveRoom(c, r)
      /\ c \in mapped /\ sock' = sock /\ mapped' = mapped
  BY DEF LeaveRoomMessage, Receive, registry
<1>2. RoomsTyped' /\ RoomDataDies' /\ OneTabIsIn' /\ Unknown'
  BY <1>1, LeaveRoomKeeps
<1>3. Broadcast(r, NoConn, NoConn) \in Seq(Frames)
  BY <1>2, BroadcastIsFrame
<1> QED
  BY <1>1, <1>2, <1>3, ServingKeeps

LEMMA EditStep ==
  ASSUME RoomsInv, NEW c \in Conns,
         \/ \E on \in BOOLEAN : UpdateUserStatus(c, on)
         \/ ContentOperation(c) \/ AddComment(c) \/ ChangeComment(c)
  PROVE  RoomsInv'
<1>1. /\ version \in [Rooms -> Nat] /\ comments \in [Rooms -> BOOLEAN]
      /\ shown \in [Rooms -> SUBSET Users] /\ User[c] \in Users
  BY CollabAssumption DEF RoomsInv, TypeOK
<1>2. ASSUME NEW on \in BOOLEAN, UpdateUserStatus(c, on) PROVE RoomsInv'
  <2>1. /\ Receive(c) /\ InRoom(c) /\ UNCHANGED <<current, rooms, version, comments, born>>
        /\ Continue(c, Broadcast(current[c], c, NoConn))
    BY <1>2 DEF UpdateUserStatus
  <2>2. /\ shown' \in [Rooms -> SUBSET Users]
        /\ \A q \in Rooms : q # current[c] => shown'[q] = shown[q]
    BY <1>1, <1>2 DEF UpdateUserStatus
  <2> QED
    BY <1>1, <2>1, <2>2, InRoomStep
<1>3. CASE ContentOperation(c)
  <2>1. /\ Receive(c) /\ InRoom(c) /\ UNCHANGED <<current, rooms, comments, shown, born>>
        /\ Continue(c, Broadcast(current[c], c, NoConn))
    BY <1>3 DEF ContentOperation
  <2>2. /\ version' \in [Rooms -> Nat]
        /\ \A q \in Rooms : q # current[c] => version'[q] = version[q]
    <3>1. current[c] \in Rooms
      BY <2>1, InRoomIsRoom
    <3>2. version' = [version EXCEPT ![current[c]] = @ + 1]
      BY <1>3 DEF ContentOperation
    <3> QED
      BY <1>1, <3>1, <3>2
  <2> QED
    BY <1>1, <2>1, <2>2, InRoomStep
<1>4. CASE AddComment(c)
  <2>1. /\ Receive(c) /\ InRoom(c) /\ UNCHANGED <<current, rooms, version, shown, born>>
        /\ Continue(c, Broadcast(current[c], NoConn, NoConn))
    BY <1>4 DEF AddComment
  <2>2. /\ comments' \in [Rooms -> BOOLEAN]
        /\ \A q \in Rooms : q # current[c] => comments'[q] = comments[q]
    BY <1>1, <1>4 DEF AddComment
  <2> QED
    BY <1>1, <2>1, <2>2, InRoomStep
<1>5. CASE ChangeComment(c)
  <2>1. /\ Receive(c) /\ InRoom(c) /\ UNCHANGED <<current, rooms, version, comments, shown, born>>
        /\ Continue(c, Broadcast(current[c], NoConn, NoConn))
    BY <1>5 DEF ChangeComment, room
  <2> QED
    BY <1>1, <2>1, InRoomStep
<1> QED
  BY <1>2, <1>3, <1>4, <1>5

-----------------------------------------------------------------------------
(***************************************************************************)
(* The other steps.                                                        *)
(***************************************************************************)
LEMMA ConnectStep ==
  ASSUME RoomsInv, NEW c \in Conns, Connect(c)
  PROVE  RoomsInv'
<1>1. /\ TasksTyped /\ RoomsTyped /\ listed \subseteq Conns /\ mapped = listed
      /\ EndedIsUnregistered /\ Grounded
  BY Typed
<1>2. /\ sock[c] = "new" /\ sock' = [sock EXCEPT ![c] = "open"]
      /\ listed' = listed \cup {c} /\ mapped' = mapped \cup {c} /\ metrics' = TRUE
      /\ UNCHANGED <<current, rooms, version, comments, shown, born, handled>>
  BY DEF Connect, room
<1>3. /\ sock \in [Conns -> {"new", "open", "gone"}] /\ current[c] = NoRoom
      /\ handled \in 0..MaxMessages
  BY <1>2 DEF RoomsInv, TypeOK, Unknown
<1>4. /\ TasksTyped' /\ task'[c] \in {"serving", "dead"}
      /\ \A e \in Conns \ {c} : stack'[e] = stack[e] /\ task'[e] = task[e]
  <2>1. CASE metrics
    <3>1. Direct(NoRoom, c) \in Seq(Frames)
      BY DirectIsFrame
    <3> QED
      BY <1>1, <2>1, <3>1 DEF Connect, TasksTyped, Tasks
  <2>2. CASE ~metrics
    BY <1>1, <2>2, RaiseKeeps DEF Connect
  <2> QED
    BY <2>1, <2>2
<1>5. EndedIsUnregistered' /\ Grounded'
  BY <1>1, <1>2, <1>4 DEF EndedIsUnregistered, Grounded, Based
<1>6. RoomsTyped' /\ RoomDataDies' /\ Unknown'
  BY <1>1, <1>2, <1>3 DEF RoomsTyped, RoomsInv, RoomDataDies, Unknown
<1>7. OneTabIsIn'
  BY <1>1, <1>2, <1>3 DEF RoomsInv, OneTabIsIn
<1> QED
  BY <1>1, <1>2, <1>3, <1>4, <1>5, <1>6, <1>7, Together

LEMMA ClientStep ==
  ASSUME RoomsInv, NEW c \in Conns, ClientGoes(c) \/ ClientDisconnected(c)
  PROVE  RoomsInv'
<1>1. /\ TasksTyped /\ RoomsTyped /\ listed \subseteq Conns /\ mapped = listed
      /\ EndedIsUnregistered /\ Grounded
  BY Typed
<1>2. /\ UNCHANGED <<stack, listed, mapped, current, room, metrics, handled>>
      /\ sock' \in [Conns -> {"new", "open", "gone"}]
      /\ \A e \in Conns : sock'[e] = "new" => sock[e] = "new"
      /\ metrics \in BOOLEAN /\ handled \in 0..MaxMessages
  BY DEF ClientGoes, ClientDisconnected, registry, RoomsInv, TypeOK
<1>3. RoomsTyped' /\ RoomDataDies' /\ OneTabIsIn' /\ Unknown'
  BY <1>2, RoomsUntouched
<1>4. /\ TasksTyped' /\ \A e \in Conns \ {c} : task'[e] = task[e]
      /\ task'[c] = task[c] \/ (task'[c] = "closing" /\ stack[c] = << >>)
  <2>1. CASE ClientGoes(c)
    <3>1. task' = task /\ stack' = stack
      BY <2>1 DEF ClientGoes
    <3>2. TasksTyped'
      BY <1>1, <3>1 DEF TasksTyped, Tasks
    <3>3. \A e \in Conns : task'[e] = task[e]
      BY <3>1
    <3> QED
      BY <3>2, <3>3
  <2>2. CASE ClientDisconnected(c)
    BY <1>1, <2>2 DEF ClientDisconnected, TasksTyped, Tasks
  <2> QED
    BY <2>1, <2>2
<1>5. EndedIsUnregistered' /\ Grounded'
  BY <1>1, <1>2, <1>4 DEF EndedIsUnregistered, Grounded, Based
<1> QED
  BY <1>1, <1>2, <1>3, <1>4, <1>5, Together

LEMMA RaiseStep ==
  ASSUME RoomsInv, NEW c \in Conns, Raise(c), UNCHANGED <<sock, registry, current, room, metrics>>,
         handled' \in 0..MaxMessages
  PROVE  RoomsInv'
<1>1. listed' = listed /\ mapped' = mapped
  BY DEF registry
<1>2. TasksTyped' /\ EndedIsUnregistered' /\ Grounded'
  BY Typed, DeadKeeps
<1>3. RoomsTyped' /\ RoomDataDies' /\ OneTabIsIn' /\ Unknown'
  BY <1>1, RoomsUntouched
<1> QED
  BY <1>1, <1>2, <1>3, Typed, Together DEF RoomsInv, TypeOK

LEMMA SendFailsStep ==
  ASSUME RoomsInv, NEW c \in Conns, SendFails(c)
  PROVE  RoomsInv'
<1> DEFINE f == Head(stack[c])
           users(d) == f.users \cap {User[d]}
           new(d) == <<[f EXCEPT !.users = users(d)]>> \o Tail(stack[c])
<1>1. stack[c] \in Seq(Frames) /\ stack[c] # << >> /\ UNCHANGED <<sock, metrics, handled>>
  BY Typed DEF SendFails, TasksTyped
<1>2. PICK d \in Recipients(c, f) : Disconnect(c, d, new(d))
  BY DEF SendFails
<1>3. d \in Conns
  BY <1>2, Typed DEF Recipients
<1>4. users(d) \in SUBSET Users
  BY <1>1, TailOfStack DEF Frames
<1>5. new(d) \in Seq(Frames) /\ new(d) # << >>
      /\ new(d)[Len(new(d))].after = stack[c][Len(stack[c])].after
  BY <1>1, <1>4, FrameGoesOn
<1> HIDE DEF new
<1>6. task[c] = "closing" => Based(c, new(d))
  BY <1>1, <1>5, Typed DEF Grounded, Based
<1> QED
  BY <1>1, <1>2, <1>3, <1>5, <1>6, DisconnectKeeps

LEMMA SendsEndStep ==
  ASSUME RoomsInv, NEW c \in Conns, SendsEnd(c)
  PROVE  RoomsInv'
<1> DEFINE f == Head(stack[c])
           st == Tail(stack[c])
<1>1. /\ TasksTyped /\ RoomsTyped /\ listed \subseteq Conns /\ mapped = listed
      /\ EndedIsUnregistered /\ Grounded
  BY Typed
<1>2. stack[c] \in Seq(Frames) /\ stack[c] # << >>
      /\ UNCHANGED <<sock, current, room, metrics, handled>>
  BY <1>1 DEF SendsEnd, TasksTyped
<1>3. /\ f \in Frames /\ st \in Seq(Frames)
      /\ st # << >> => st[Len(st)] = stack[c][Len(stack[c])]
      /\ st = << >> => f = stack[c][Len(stack[c])]
  BY <1>2, TailOfStack
<1>4. task[c] = "closing" => c \notin listed \/ stack[c][Len(stack[c])].after = c
  BY <1>1, <1>2 DEF Grounded, Based
<1>5. f.after \in Conns \cup {NoConn} /\ f.room \in Rooms \cup {NoRoom} /\ f.skip \in Conns \cup {NoConn}
  BY <1>3 DEF Frames
<1>6. metrics \in BOOLEAN /\ handled \in 0..MaxMessages /\ sock \in [Conns -> {"new", "open", "gone"}]
  BY DEF RoomsInv, TypeOK
<1>7. CASE Changed(f) /\ Raise(c) /\ UNCHANGED registry
  BY <1>2, <1>6, <1>7, RaiseStep
<1>8. CASE f.after # NoConn /\ Remove(c, f.after, st)
  <2>1. task[c] = "closing" => IF st = << >> THEN c \notin listed \ {f.after} ELSE Based(c, st)
    BY <1>3, <1>4 DEF Based
  <2>2. TasksTyped' /\ EndedIsUnregistered' /\ Grounded' /\ listed' \subseteq listed
    BY <1>1, <1>3, <1>5, <1>8, <2>1, RemoveKeeps
  <2>3. mapped' \subseteq mapped
    BY <1>1, <2>2 DEF EndedIsUnregistered
  <2>4. RoomsTyped' /\ RoomDataDies' /\ OneTabIsIn' /\ Unknown'
    BY <1>2, <2>3, RoomsUntouched
  <2> QED
    BY <1>1, <1>2, <1>6, <2>2, <2>4, Together
<1>9. ASSUME UNCHANGED registry, NEW new \in Seq(Frames), Continue(c, new), Ending(c, new)
      PROVE  RoomsInv'
  <2>1. listed' = listed /\ mapped' = mapped
    BY <1>9 DEF registry
  <2>2. RoomsTyped' /\ RoomDataDies' /\ OneTabIsIn' /\ Unknown'
    BY <1>2, <2>1, RoomsUntouched
  <2>3. TasksTyped' /\ EndedIsUnregistered' /\ Grounded'
    BY <1>1, <1>9, <2>1, TaskKeeps
  <2> QED
    BY <1>1, <1>2, <1>6, <2>1, <2>2, <2>3, Together
<1>10. CASE f.kind = "broadcast" /\ UNCHANGED registry
            /\ Continue(c, <<[f EXCEPT !.users = rooms[f.room]]>> \o st)
  <2> DEFINE walked == <<[f EXCEPT !.users = rooms[f.room]]>> \o st
  <2>1. rooms[f.room] \in SUBSET Users
    BY <1>1, <1>3, <1>10, CollabAssumption DEF Frames, RoomsTyped
  <2>2. walked \in Seq(Frames) /\ walked # << >>
        /\ walked[Len(walked)].after = stack[c][Len(stack[c])].after
    BY <1>2, <2>1, FrameGoesOn
  <2>3. listed' = listed
    BY <1>10 DEF registry
  <2> HIDE DEF walked
  <2>4. Ending(c, walked)
    BY <1>4, <2>2, <2>3 DEF Ending
  <2> QED
    BY <1>9, <1>10, <2>2, <2>4 DEF walked
<1> DEFINE joined == f.kind = "direct" /\ f.room # NoRoom
           next == IF joined THEN Broadcast(f.room, c, NoConn) \o st ELSE st
<1>11. CASE f.after = NoConn /\ UNCHANGED registry /\ Continue(c, next)
  <2>1. listed' = listed /\ mapped' = mapped
    BY <1>11 DEF registry
  <2>2. RoomsTyped'
    BY <1>2, <2>1, RoomsUntouched
  <2>3. next \in Seq(Frames) /\ (st # << >> => next # << >> /\ next[Len(next)] = st[Len(st)])
    <3>1. CASE joined
      <4>1. Broadcast(f.room, c, NoConn) \in Seq(Frames)
        BY <1>5, <2>2, <3>1, BroadcastIsFrame
      <4> QED
        BY <1>3, <3>1, <4>1, StackOnTop
    <3>2. CASE ~joined
      BY <1>3, <3>2
    <3> QED
      BY <3>1, <3>2
  <2>4. task[c] = "closing" /\ st = << >> => c \notin listed
    BY <1>3, <1>4, <1>11, CollabAssumption
  <2> HIDE DEF next
  <2>5. Ending(c, next)
    BY <1>3, <1>4, <2>1, <2>3, <2>4 DEF Ending
  <2> QED
    BY <1>9, <1>11, <2>3, <2>5
<1> QED
  BY <1>7, <1>8, <1>10, <1>11 DEF SendsEnd

LEMMA RoomsInvariant == Spec => []RoomsInv
<1>1. Init => RoomsInv
  <2> SUFFICES ASSUME Init PROVE RoomsInv
    OBVIOUS
  <2>1. << >> \in Seq(Frames)
    OBVIOUS
  <2>2. TypeOK
    BY <2>1, CollabAssumption DEF Init, TypeOK
  <2> QED
    BY <2>2 DEF Init, RoomsInv, EndedIsUnregistered, Unknown, Grounded, RoomDataDies, OneTabIsIn
<1>2. RoomsInv /\ [Next]_vars => RoomsInv'
  <2> SUFFICES ASSUME RoomsInv, [Next]_vars PROVE RoomsInv'
    OBVIOUS
  <2>1. ASSUME NEW c \in Conns, Connect(c) PROVE RoomsInv'
    BY <2>1, ConnectStep
  <2>2. ASSUME NEW c \in Conns, ClientGoes(c) \/ ClientDisconnected(c) PROVE RoomsInv'
    BY <2>2, ClientStep
  <2>3. ASSUME NEW c \in Conns, Malformed(c) PROVE RoomsInv'
    <3>1. /\ Raise(c) /\ UNCHANGED <<sock, registry, current, room, metrics>>
          /\ handled' \in 0..MaxMessages
      BY <2>3, CollabAssumption DEF Malformed, Receive, RoomsInv, TypeOK
    <3> QED
      BY <3>1, RaiseStep
  <2>4. ASSUME NEW c \in Conns, Message(c), ~Malformed(c) PROVE RoomsInv'
    BY <2>4, LeaveStep, JoinStep, EditStep, PingStep DEF Message
  <2>5. ASSUME NEW c \in Conns, CleanUp(c) PROVE RoomsInv'
    <3>1. << >> \in Seq(Frames)
      OBVIOUS
    <3> QED
      BY <2>5, <3>1, DisconnectKeeps DEF CleanUp
  <2>6. ASSUME NEW c \in Conns, SendFails(c) \/ SendsEnd(c) PROVE RoomsInv'
    BY <2>6, SendFailsStep, SendsEndStep
  <2>7. CASE UNCHANGED vars
    BY <2>7 DEF vars, registry, room, RoomsInv, TypeOK, EndedIsUnregistered, Unknown, Grounded,
                Based, RoomDataDies, OneTabIsIn
  <2> QED
    BY <2>1, <2>2, <2>3, <2>4, <2>5, <2>6, <2>7 DEF Next, TaskStep
<1> QED
  BY <1>1, <1>2, PTL DEF Spec

(***************************************************************************)
(* The theorems.                                                           *)
(***************************************************************************)

(* Every map keeps its keys and values, and every stack holds sends. *)
THEOREM RoomsTypeCorrect == Spec => []TypeOK
<1>1. RoomsInv => TypeOK
  BY DEF RoomsInv
<1> QED
  BY <1>1, RoomsInvariant, PTL

(* However many tasks disconnect a connection, and however deep in each other's
   broadcasts, an endpoint that came to its end has left both registries. *)
THEOREM EndedSafe == Spec => []EndedIsUnregistered
<1>1. RoomsInv => EndedIsUnregistered
  BY DEF RoomsInv
<1> QED
  BY <1>1, RoomsInvariant, PTL

(* A room nobody is in has no content, no comments and no marks. *)
THEOREM RoomDataSafe == Spec => []RoomDataDies
<1>1. RoomsInv => RoomDataDies
  BY DEF RoomsInv
<1> QED
  BY <1>1, RoomsInvariant, PTL

(* Whatever other users do and whichever sends fail, a user with one connection is
   in the room that connection edits. *)
THEOREM OneTabSafe == Spec => []OneTabIsIn
<1>1. RoomsInv => OneTabIsIn
  BY DEF RoomsInv
<1> QED
  BY <1>1, RoomsInvariant, PTL

-----------------------------------------------------------------------------
(***************************************************************************)
(* The rooms implement RoomDocuments.                                      *)
(***************************************************************************)
DocumentStep == [Documents!Next]_<<rooms, version>>

LEMMA ExitStep ==
  ASSUME RoomsInv, NEW d \in Conns, NEW r \in Rooms, rooms[r] # {}, LeaveRoom(d, r)
  PROVE  DocumentStep
<1>1. /\ rooms \in [Rooms -> SUBSET Users] /\ version \in [Rooms -> Nat] /\ User[d] \in Users
      /\ rooms' = [rooms EXCEPT ![r] = @ \ {User[d]}]
      /\ version' = [version EXCEPT ![r] = IF rooms'[r] = {} THEN 0 ELSE @]
  BY CollabAssumption DEF RoomsInv, TypeOK, LeaveRoom, Without
<1>2. CASE User[d] \in rooms[r]
  BY <1>1, <1>2 DEF DocumentStep, Documents!Next, Documents!Exit
<1>3. CASE User[d] \notin rooms[r]
  BY <1>1, <1>3 DEF DocumentStep
<1> QED
  BY <1>2, <1>3

(* A document that a room had before is not loaded again: a room nobody is in has none. *)
LEMMA EnterStep ==
  ASSUME RoomsInv, NEW c \in Conns, NEW r \in Rooms, NEW content \in BOOLEAN,
         JoinRoom(c, r, content)
  PROVE  DocumentStep
<1>1. /\ version \in [Rooms -> Nat] /\ User[c] \in Users
      /\ rooms' = [rooms EXCEPT ![r] = @ \cup {User[c]}]
      /\ version' = [version EXCEPT ![r] = IF rooms[r] = {} /\ content THEN 1 ELSE @]
  BY CollabAssumption DEF RoomsInv, TypeOK, JoinRoom
<1>2. Documents!Enter(User[c], r)
  BY <1>1 DEF Documents!Enter
<1> QED
  BY <1>1, <1>2 DEF DocumentStep, Documents!Next

LEMMA DisconnectDocument ==
  ASSUME RoomsInv, NEW c \in Conns, NEW d \in Conns, NEW st, Disconnect(c, d, st)
  PROVE  DocumentStep
<1>1. CASE UNCHANGED room
  BY <1>1 DEF room, DocumentStep
<1>2. CASE LeaveRoom(d, current[d]) /\ current[d] # NoRoom /\ rooms[current[d]] # {}
  BY <1>2, ExitStep DEF RoomsInv, TypeOK
<1> QED
  BY <1>1, <1>2 DEF Disconnect

LEMMA DocumentNext == RoomsInv /\ [Next]_vars => DocumentStep
<1> SUFFICES ASSUME RoomsInv, [Next]_vars PROVE DocumentStep
  OBVIOUS
<1>1. CASE UNCHANGED <<rooms, version>>
  BY <1>1 DEF DocumentStep
<1>2. ASSUME NEW c \in Conns, NEW r \in Rooms, LeaveRoomMessage(c, r) PROVE DocumentStep
  BY <1>2, ExitStep DEF LeaveRoomMessage
<1>3. ASSUME NEW c \in Conns, ContentOperation(c) PROVE DocumentStep
  <2>1. current[c] \in Rooms /\ rooms[current[c]] # {}
    BY <1>3, InRoomIsRoom DEF ContentOperation
  <2> QED
    BY <1>3, <2>1 DEF ContentOperation, DocumentStep, Documents!Next, Documents!Edit
<1>4. ASSUME NEW c \in Conns, Message(c) PROVE DocumentStep
  BY <1>1, <1>2, <1>3, <1>4, EnterStep
     DEF Message, Ping, UpdateUserStatus, AddComment, ChangeComment, Malformed, room
<1>5. ASSUME NEW c \in Conns, CleanUp(c) PROVE DocumentStep
  BY <1>5, DisconnectDocument DEF CleanUp
<1>6. ASSUME NEW c \in Conns, SendFails(c) PROVE DocumentStep
  <2>1. PICK d \in Recipients(c, Head(stack[c])) : \E st : Disconnect(c, d, st)
    BY <1>6 DEF SendFails
  <2>2. d \in Conns
    BY <2>1 DEF Recipients, RoomsInv, TypeOK
  <2>3. PICK st : Disconnect(c, d, st)
    BY <2>1
  <2> QED
    BY <2>2, <2>3, DisconnectDocument
<1> QED
  BY <1>1, <1>4, <1>5, <1>6
     DEF Next, TaskStep, vars, room, Connect, ClientGoes, ClientDisconnected, SendsEnd

(* A room keeps its document from the first user to the last, and its version counts
   the operations on it. *)
THEOREM DocumentsImplemented == Spec => DocumentService
<1>1. Init => Documents!Init
  BY DEF Init, Documents!Init
<1>2. RoomsInv /\ [Next]_vars => [Documents!Next]_<<rooms, version>>
  BY DocumentNext DEF DocumentStep
<1> QED
  BY <1>1, <1>2, RoomsInvariant, PTL DEF Spec, DocumentService, Documents!Spec
=============================================================================
