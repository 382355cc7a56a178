----------------------- MODULE CalendarLocksProofs -----------------------
(***************************************************************************)
(* Proofs about the locks of CalendarManager: it implements EditLocks, and *)
(* a lock taken over a user's only connection is always a viewer's, or on  *)
(* its way out.                                                            *)
(***************************************************************************)
EXTENDS CalendarManagerProofs

-----------------------------------------------------------------------------
(***************************************************************************)
(* The refinement.                                                         *)
(***************************************************************************)
LEMMA OwnerInit == Init => Locks!Init
  BY DEF Init, Locks!Init, owner

(* The steps that touch a lock. *)
LEMMA OwnerLock ==
  ASSUME TypeOK, NEW c \in Conns, NEW k \in Contents, LockContent(c, k)
  PROVE  [Locks!Next]_owner
  <1> DEFINE l == [by |-> c, project |-> connection_projects[c]]
  <1>1. /\ content_locks \in [Contents -> Lock \cup {Free}]
        /\ content_locks' = [content_locks EXCEPT ![k] = l]
        /\ l # Free /\ UserOf[c] \in Users /\ l.by = c
        /\ content_locks[k] # Free => Holder(k) = UserOf[c]
    BY ConnAssumption, DistinctAssumption DEF TypeOK, LockContent, LockedByAnother
  <1> HIDE DEF l
  <1>2. owner' = [owner EXCEPT ![k] = UserOf[c]]
    BY <1>1 DEF owner, Holder
  <1>3. CASE content_locks[k] = Free
    BY <1>1, <1>2, <1>3 DEF Locks!Next, Locks!Acquire, owner
  <1>4. CASE content_locks[k] # Free
    <2>1. owner[k] = UserOf[c]
      BY <1>1, <1>4 DEF owner
    <2> QED
      BY <1>2, <2>1 DEF owner
  <1> QED
    BY <1>3, <1>4

LEMMA OwnerFree ==
  ASSUME TypeOK, NEW k \in Contents, content_locks' = [content_locks EXCEPT ![k] = Free]
  PROVE  [Locks!Next]_owner
  <1>1. content_locks \in [Contents -> Lock \cup {Free}]
    BY DEF TypeOK
  <1>2. owner' = [owner EXCEPT ![k] = Nobody]
    BY <1>1 DEF owner, Holder
  <1>3. CASE content_locks[k] = Free
    BY <1>2, <1>3 DEF owner
  <1>4. CASE content_locks[k] # Free
    <2>1. owner[k] \in Users
      BY <1>1, <1>4, ConnAssumption DEF owner, Holder, Lock
    <2>2. owner[k] # Nobody
      BY <2>1, DistinctAssumption
    <2> QED
      BY <1>2, <2>2 DEF Locks!Next, Locks!Release
  <1> QED
    BY <1>3, <1>4

LEMMA OwnerNext == TypeOK /\ [Next]_vars => [Locks!Next]_owner
  <1> SUFFICES ASSUME TypeOK, [Next]_vars PROVE [Locks!Next]_owner
    OBVIOUS
  <1>1. CASE content_locks' = content_locks
    BY <1>1 DEF owner, Holder
  <1>2. CASE \E c \in Conns, k \in Contents : LockContent(c, k)
    BY <1>2, OwnerLock
  <1>3. CASE \E c \in Conns, k \in Contents : UnlockContent(c, k) \/ ForceUnlock(c, k)
    BY <1>3, OwnerFree DEF UnlockContent, ForceUnlock
  <1>4. ASSUME NEW t \in Tasks, LeaveReleasesLock(t)
        PROVE  [Locks!Next]_owner
    <2>1. stack[t] # << >> /\ Top(t).at = "release_locks"
      BY <1>4 DEF LeaveReleasesLock, At, Top
    <2>2. Top(t).content_ids_to_remove \subseteq Contents
      BY <2>1, TopAndRest, FrameFields
    <2>3. PICK k \in Contents : content_locks' = [content_locks EXCEPT ![k] = Free]
      BY <1>4, <2>2 DEF LeaveReleasesLock
    <2> QED
      BY <2>3, OwnerFree
  <1> QED
    BY <1>1, <1>2, <1>3, <1>4
       DEF Next, Endpoint, Request, Step, vars, Connect, Close, ReceiveDisconnect, ReceiveRefused,
           Answer, JoinRequest, LeaveRequest, NotifyCalendarChange, SendOne, TellJoined,
           TellContentLocks, LeaveIgnored, LeaveStarts, LeaveEnds, DisconnectStarts,
           DisconnectEnds, BroadcastSends, BroadcastNextUser, BroadcastEnds, BroadcastFails,
           ToUserSends, ToUserEnds

(* The manager is a lock service: a lock passes between users only by being released. *)
THEOREM LocksImplemented == Spec => LockService
  BY OwnerInit, OwnerNext, TypeCorrect, PTL DEF Spec, LockService, Locks!Spec

-----------------------------------------------------------------------------
(***************************************************************************)
(* The calls of a task that take a connection out of a project or of the   *)
(* registry.                                                               *)
(***************************************************************************)
Departs(g) == g.at \in {"leave_project", "release_locks", "disconnect", "unregister"}

Departures(s) == {g \in ToSet(s) : Departs(g)}

(* Such a call is made by the connection's own task, or after its socket was lost. *)
DepartingSockets ==
  \A t \in Tasks : \A g \in Departures(stack[t]) :
    g.conn = t \/ sock[g.conn] \in {"closed", "failed"}

LEMMA DeparturesPush ==
  ASSUME NEW s \in Seq(Frame), NEW f \in Frame
  PROVE  /\ Departs(f) => Departures(<< f >> \o s) = Departures(s) \cup {f}
         /\ ~Departs(f) => Departures(<< f >> \o s) = Departures(s)
         /\ << f >> \o s \in Seq(Frame)
         /\ << f >> \o s # << >>
  <1> DEFINE r == << f >> \o s
  <1>1. /\ r \in Seq(Frame) /\ Len(r) = Len(s) + 1 /\ r[1] = f /\ Len(s) \in Nat /\ r # << >>
        /\ \A i \in 1..Len(s) : r[i+1] = s[i]
        /\ DOMAIN s = 1..Len(s) /\ DOMAIN r = 1..Len(r)
    BY PushOne
  <1>2. \A i \in 2..Len(r) : i-1 \in 1..Len(s) /\ r[i] = s[i-1]
    BY <1>1
  <1> HIDE DEF r
  <1>3. ToSet(r) = ToSet(s) \cup {f}
    <2>1. ASSUME NEW i \in 1..Len(r) PROVE r[i] \in ToSet(s) \cup {f}
      <3>1. CASE i = 1
        BY <1>1, <3>1
      <3>2. CASE i \in 2..Len(r)
        BY <1>1, <1>2, <3>2 DEF ToSet
      <3> QED
        BY <1>1, <3>1, <3>2
    <2>2. ToSet(s) \subseteq ToSet(r) /\ f \in ToSet(r)
      BY <1>1 DEF ToSet
    <2>3. ToSet(r) = {r[i] : i \in 1..Len(r)}
      BY <1>1 DEF ToSet
    <2> QED
      BY <2>1, <2>2, <2>3
  <1> QED
    BY <1>1, <1>3 DEF r, Departures

LEMMA DeparturesTop ==
  ASSUME TypeOK, NEW t \in Tasks, stack[t] # << >>
  PROVE  /\ Departs(Top(t)) => Departures(stack[t]) = Departures(Rest(t)) \cup {Top(t)}
         /\ ~Departs(Top(t)) => Departures(stack[t]) = Departures(Rest(t))
  <1>1. stack[t] \in Seq(Frame)
    BY DEF TypeOK
  <1>2. stack[t] = << Top(t) >> \o Rest(t) /\ Top(t) \in Frame /\ Rest(t) \in Seq(Frame)
    BY <1>1, TopAndRest DEF Top, Rest
  <1> QED
    BY <1>2, DeparturesPush

LEMMA DeparturesEmpty == Departures(<< >>) = {}
  BY DEF Departures, ToSet

LEMMA DeparturesBroadcast ==
  ASSUME TypeOK, NEW p \in Projects, NEW c \in Conns \cup {NoConn}, NEW s \in Seq(Frame)
  PROVE  /\ Departures(Broadcast(p, c) \o s) = Departures(s)
         /\ Broadcast(p, c) \o s \in Seq(Frame)
  <1> DEFINE f == [at |-> "broadcast_to_project", project |-> p, skip |-> c,
                   first |-> project_viewers[p], seen |-> {}, user |-> NoUser,
                   next |-> 1, detached |-> FALSE]
  <1>1. f \in Frame
    BY DEF TypeOK, Frame
  <1>2. ~Departs(f)
    BY DEF Departs
  <1>3. Broadcast(p, c) = << f >> \/ Broadcast(p, c) = << >>
    BY DEF Broadcast
  <1>4. << >> \o s = s
    OBVIOUS
  <1> HIDE DEF f
  <1> QED
    BY <1>1, <1>2, <1>3, <1>4, DeparturesPush

LEMMA DeparturesDetach ==
  ASSUME NEW s \in Seq(Frame), NEW p
  PROVE  Departures(Detach(s, p)) = Departures(s)
  <1> DEFINE d == Detach(s, p)
  <1>1. DOMAIN d = DOMAIN s
    BY DEF Detach
  <1>2. ASSUME NEW i \in DOMAIN s
        PROVE  /\ Departs(d[i]) <=> Departs(s[i])
               /\ Departs(s[i]) => d[i] = s[i]
    <2>1. s[i] \in Frame
      OBVIOUS
    <2>2. CASE s[i].at = "broadcast_to_project" /\ s[i].project = p
      <3>1. d[i] = [s[i] EXCEPT !.detached = TRUE]
        BY <2>2 DEF Detach
      <3>2. d[i].at = s[i].at
        BY <2>1, <2>2, <3>1 DEF Frame
      <3> HIDE DEF d
      <3> QED
        BY <2>2, <3>2 DEF Departs
    <2>3. CASE ~(s[i].at = "broadcast_to_project" /\ s[i].project = p)
      <3>1. d[i] = s[i]
        BY <2>3 DEF Detach
      <3> QED
        BY <3>1
    <2> QED
      BY <2>2, <2>3
  <1> HIDE DEF d
  <1>3. Departures(d) = Departures(s)
    <2>1. \A g \in Departures(d) : g \in Departures(s)
      BY <1>1, <1>2 DEF Departures, ToSet
    <2>2. \A g \in Departures(s) : g \in Departures(d)
      BY <1>1, <1>2 DEF Departures, ToSet
    <2> QED
      BY <2>1, <2>2
  <1> QED
    BY <1>3 DEF d

(* Every departure on a stack is of a connection. *)
LEMMA DepartureConn ==
  ASSUME TypeOK, NEW t \in Tasks, NEW g \in Departures(stack[t])
  PROVE  g \in Frame /\ g.conn \in Conns
  <1>1. stack[t] \in Seq(Frame)
    BY DEF TypeOK
  <1>2. g \in Frame
    BY <1>1 DEF Departures, ToSet
  <1> QED
    BY <1>2, FrameFields DEF Departures, Departs

(* The calls that are no departure go on with calls that add none. *)
LEMMA PlainStep ==
  ASSUME TypeOK, NEW t \in Tasks,
         \/ SendOne(t) \/ TellJoined(t) \/ TellContentLocks(t)
         \/ BroadcastSends(t) \/ BroadcastNextUser(t) \/ BroadcastEnds(t) \/ BroadcastFails(t)
         \/ ToUserSends(t) \/ ToUserEnds(t)
  PROVE  \/ Raise(t)
         \/ \E s \in Seq(Frame) :
              /\ Departures(s) = Departures(stack[t])
              /\ \/ Continue(t, s) /\ UNCHANGED sock
                 \/ \E d \in Conns : Send(t, d, s)
  <1> USE DEF registry, rooms
  <1> DEFINE f == Top(t)
             Goes(s) == (Continue(t, s) /\ UNCHANGED sock) \/ \E d \in Conns : Send(t, d, s)
  <1>1. /\ stack[t] # << >>
        /\ f.at \in {"send_message", "joined", "tell_locks", "broadcast_to_project",
                     "broadcast_to_user"}
    BY DEF SendOne, TellJoined, TellContentLocks, BroadcastSends, BroadcastNextUser,
           BroadcastEnds, BroadcastFails, ToUserSends, ToUserEnds, At, Top
  <1>2. /\ f \in Frame /\ Rest(t) \in Seq(Frame)
        /\ Departures(stack[t]) = Departures(Rest(t))
    BY <1>1, TopAndRest, DeparturesTop DEF Departs
  <1>3. ASSUME Goes(Rest(t)) PROVE \E s \in Seq(Frame) : Departures(s) = Departures(stack[t]) /\ Goes(s)
    BY <1>2, <1>3
  <1>4. ASSUME NEW g \in Frame, ~Departs(g), Goes(<< g >> \o Rest(t))
        PROVE  \E s \in Seq(Frame) : Departures(s) = Departures(stack[t]) /\ Goes(s)
    <2>1. << g >> \o Rest(t) \in Seq(Frame) /\ Departures(<< g >> \o Rest(t)) = Departures(stack[t])
      BY <1>2, <1>4, DeparturesPush
    <2> QED
      BY <1>4, <2>1
  <1> HIDE DEF Goes
  <1>5. CASE SendOne(t)
    <2>1. f.conn \in Conns
      BY <1>1, <1>2, <1>5, FrameFields DEF SendOne, At, Top
    <2> QED
      BY <1>3, <1>5, <2>1 DEF SendOne, Goes
  <1>6. CASE TellContentLocks(t)
    <2>1. f.conn \in Conns
      BY <1>1, <1>2, <1>6, FrameFields DEF TellContentLocks, At, Top
    <2>2. SendMessage(f.conn) \in Frame /\ ~Departs(SendMessage(f.conn))
      BY <2>1, NewFrames DEF SendMessage, Departs
    <2>3. Goes(<< SendMessage(f.conn) >> \o Rest(t)) \/ Goes(Rest(t))
      BY <1>6 DEF TellContentLocks, Goes
    <2> QED
      BY <1>3, <1>4, <2>2, <2>3 DEF Goes
  <1>7. CASE TellJoined(t)
    <2>1. f.conn \in Conns /\ f.project \in Projects
      BY <1>1, <1>2, <1>7, FrameFields DEF TellJoined, At, Top
    <2> DEFINE g == TellLocks(f.conn, f.project)
               b == Broadcast(f.project, f.conn)
    <2>2. g \in Frame /\ ~Departs(g)
      BY <2>1, NewFrames DEF TellLocks, Departs
    <2>3. b \in Seq(Frame)
      BY <2>1, NewFrames
    <2>4. Goes(b \o << g >> \o Rest(t))
      BY <1>7 DEF TellJoined, Goes
    <2>5. /\ << g >> \o Rest(t) \in Seq(Frame)
          /\ Departures(<< g >> \o Rest(t)) = Departures(stack[t])
      BY <1>2, <2>2, DeparturesPush
    <2>6. /\ Departures(b \o (<< g >> \o Rest(t))) = Departures(stack[t])
          /\ b \o (<< g >> \o Rest(t)) \in Seq(Frame)
      BY <2>1, <2>5, DeparturesBroadcast
    <2> HIDE DEF g, b
    <2>7. << g >> \in Seq(Frame)
      BY <2>2
    <2>8. b \o << g >> \o Rest(t) = b \o (<< g >> \o Rest(t))
      BY <1>2, <2>3, <2>7, ConcatAssociative
    <2> QED
      BY <2>4, <2>6, <2>8 DEF Goes
  <1>8. CASE BroadcastSends(t)
    <2> DEFINE g == [f EXCEPT !.next = @ + 1]
               c == Listed(f.user)[f.next]
    <2>1. f.at = "broadcast_to_project" /\ MoreConns(f)
      BY <1>8 DEF BroadcastSends, At, Top
    <2>2. g \in Frame /\ ~Departs(g)
      BY <1>2, <2>1 DEF Frame, Departs
    <2>3. f.user \in Users \cup {NoUser} /\ f.next \in Nat \ {0}
      BY <1>2, <2>1, FrameFields
    <2>4. Listed(f.user) \in Seq(Conns)
      BY <2>3 DEF Listed, TypeOK
    <2>5. c \in Conns
      BY <2>1, <2>3, <2>4 DEF MoreConns
    <2>6. Goes(<< g >> \o Rest(t))
      BY <1>8, <2>5 DEF BroadcastSends, Goes
    <2> QED
      BY <1>4, <2>2, <2>6 DEF Goes
  <1>9. CASE BroadcastNextUser(t)
    <2>1. f.at = "broadcast_to_project" /\ f.project \in Projects
      BY <1>2, <1>9, FrameFields DEF BroadcastNextUser, At, Top
    <2>2. PICK u \in project_viewers[f.project] :
            Goes(<< [f EXCEPT !.user = u, !.seen = @ \cup {u}, !.next = 1] >> \o Rest(t))
      BY <1>9 DEF BroadcastNextUser, Goes
    <2>3. u \in Users
      BY <2>1 DEF TypeOK
    <2> DEFINE g == [f EXCEPT !.user = u, !.seen = @ \cup {u}, !.next = 1]
    <2>4. g.at = f.at
      BY <1>2, <2>1 DEF Frame
    <2>5. g \in Frame /\ ~Departs(g)
      BY <1>2, <2>1, <2>3, <2>4, NextUserFrame DEF Departs
    <2> QED
      BY <1>4, <2>2, <2>5 DEF Goes
  <1>10. CASE ToUserSends(t)
    <2> DEFINE g == [f EXCEPT !.next = @ + 1]
               c == active_connections[f.user][f.next]
    <2>1. f.at = "broadcast_to_user" /\ f.next <= Len(active_connections[f.user])
      BY <1>10 DEF ToUserSends, At, Top
    <2>2. g \in Frame /\ ~Departs(g)
      BY <1>2, <2>1 DEF Frame, Departs
    <2>3. f.user \in Users /\ f.next \in Nat \ {0}
      BY <1>2, <2>1, FrameFields
    <2>4. active_connections[f.user] \in Seq(Conns)
      BY <2>3 DEF TypeOK
    <2>5. c \in Conns
      BY <2>1, <2>3, <2>4
    <2>6. Goes(<< g >> \o Rest(t))
      BY <1>10, <2>5 DEF ToUserSends, Goes
    <2> QED
      BY <1>4, <2>2, <2>6 DEF Goes
  <1>11. CASE BroadcastEnds(t) \/ ToUserEnds(t)
    BY <1>3, <1>11 DEF BroadcastEnds, ToUserEnds, Goes
  <1>12. CASE BroadcastFails(t)
    BY <1>12 DEF BroadcastFails
  <1> QED
    BY <1>5, <1>6, <1>7, <1>8, <1>9, <1>10, <1>11, <1>12 DEF Goes

(***************************************************************************)
(* What a step of task t does to the departures.                           *)
(***************************************************************************)
OthersKept(t) == \A r \in Tasks \ {t} : Departures(stack'[r]) = Departures(stack[r])

Moves(t) ==
  /\ OthersKept(t)
  /\ \A g \in Departures(stack'[t]) :
       \/ g \in Departures(stack[t])
       \/ sock'[g.conn] = "failed"
       \/ \E h \in Departures(stack[t]) : h.conn = g.conn

(* Who was about to release k still is, unless the task itself ends. *)
Releases(t, k) ==
  \/ Raise(t)
  \/ t \in Conns /\ sock[t] = "new"
  \/ \A g \in Departures(stack[t]) :
       g.at = "release_locks" /\ k \in g.content_ids_to_remove
         => \E h \in Departures(stack'[t]) :
              /\ h.at = "release_locks" /\ h.conn = g.conn /\ h.project = g.project
              /\ k \in h.content_ids_to_remove

LEMMA MovesOn ==
  ASSUME TypeOK, NEW t \in Tasks, NEW s \in Seq(Frame),
         stack' = [stack EXCEPT ![t] = s]
  PROVE  stack'[t] = s /\ OthersKept(t)
  BY DEF TypeOK, OthersKept

LEMMA MovesRaise ==
  ASSUME TypeOK, NEW t \in Tasks, Raise(t)
  PROVE  Moves(t) /\ \A k \in Contents : Releases(t, k)
  <1>1. stack' = [stack EXCEPT ![t] = << >>]
    BY DEF Raise, Suspend
  <1>2. << >> \in Seq(Frame)
    OBVIOUS
  <1>3. stack'[t] = << >> /\ OthersKept(t)
    BY <1>1, <1>2, MovesOn
  <1> QED
    BY <1>3, DeparturesEmpty DEF Moves, Releases

LEMMA MovesPlain ==
  ASSUME TypeOK, NEW t \in Tasks,
         \/ SendOne(t) \/ TellJoined(t) \/ TellContentLocks(t)
         \/ BroadcastSends(t) \/ BroadcastNextUser(t) \/ BroadcastEnds(t) \/ BroadcastFails(t)
         \/ ToUserSends(t) \/ ToUserEnds(t)
  PROVE  Moves(t) /\ \A k \in Contents : Releases(t, k)
  <1>1. CASE Raise(t)
    BY <1>1, MovesRaise
  <1>2. ASSUME NEW s \in Seq(Frame), Departures(s) = Departures(stack[t]),
               stack' = [stack EXCEPT ![t] = s]
        PROVE  Moves(t) /\ \A k \in Contents : Releases(t, k)
    BY <1>2, MovesOn DEF Moves, Releases
  <1>3. ASSUME NEW s \in Seq(Frame), Departures(s) = Departures(stack[t]), NEW d \in Conns,
               sock' = [sock EXCEPT ![d] = "failed"],
               stack' = [stack EXCEPT ![t] = << DisconnectCall(d) >> \o s]
        PROVE  Moves(t) /\ \A k \in Contents : Releases(t, k)
    <2> DEFINE r == << DisconnectCall(d) >> \o s
    <2>1. DisconnectCall(d) \in Frame /\ Departs(DisconnectCall(d)) /\ DisconnectCall(d).conn = d
      BY NewFrames DEF DisconnectCall, Departs
    <2>2. r \in Seq(Frame) /\ Departures(r) = Departures(stack[t]) \cup {DisconnectCall(d)}
      BY <1>3, <2>1, DeparturesPush
    <2> HIDE DEF r
    <2>3. stack'[t] = r /\ OthersKept(t)
      BY <1>3, <2>2, MovesOn DEF r
    <2>4. sock'[d] = "failed"
      BY <1>3 DEF TypeOK
    <2> QED
      BY <2>1, <2>2, <2>3, <2>4 DEF Moves, Releases
  <1> QED
    BY <1>1, <1>2, <1>3, PlainStep DEF Continue, Send, Suspend

(* The calls of leave_project and of disconnect. *)
LEMMA MovesLeave ==
  ASSUME TypeOK, NEW t \in Tasks, LeaveIgnored(t) \/ LeaveEnds(t)
  PROVE  Moves(t) /\ \A k \in Contents : Releases(t, k)
  <1> USE DEF registry, rooms
  <1> DEFINE f == Top(t)
  <1>1. stack[t] # << >> /\ f.at \in {"leave_project", "release_locks"}
    BY DEF LeaveIgnored, LeaveEnds, At, Top
  <1>2. /\ f \in Frame /\ Rest(t) \in Seq(Frame) /\ f.conn \in Conns /\ f.project \in Projects
        /\ Departures(stack[t]) = Departures(Rest(t)) \cup {f}
    BY <1>1, TopAndRest, FrameFields, DeparturesTop DEF Departs
  <1>3. \A k \in Contents : f.at = "release_locks" => k \notin f.content_ids_to_remove
    BY <1>1 DEF LeaveIgnored, LeaveEnds, At, Top
  <1> HIDE DEF f
  <1>4. ASSUME Departures(stack'[t]) = Departures(Rest(t)), OthersKept(t)
        PROVE  Moves(t) /\ \A k \in Contents : Releases(t, k)
    BY <1>2, <1>3, <1>4 DEF Moves, Releases
  <1> USE DEF f
  <1>5. CASE LeaveIgnored(t)
    <2>1. stack'[t] = Rest(t) /\ OthersKept(t)
      BY <1>2, <1>5, MovesOn DEF LeaveIgnored, Continue
    <2> QED
      BY <1>4, <2>1
  <1>6. CASE LeaveEnds(t) /\ f.project \notin project_ids
    BY <1>6, MovesRaise DEF LeaveEnds
  <1>7. CASE LeaveEnds(t) /\ f.project \in project_ids /\ project_viewers[f.project] # {}
    <2> DEFINE s == Broadcast(f.project, NoConn) \o Rest(t)
    <2>1. s \in Seq(Frame) /\ Departures(s) = Departures(Rest(t))
      BY <1>2, DeparturesBroadcast
    <2>2. stack'[t] = s /\ OthersKept(t)
      BY <1>7, <2>1, MovesOn DEF LeaveEnds, Continue
    <2> QED
      BY <1>4, <2>1, <2>2
  <1>8. CASE LeaveEnds(t) /\ f.project \in project_ids /\ project_viewers[f.project] = {}
    <2>1. stack' = [s \in Tasks |-> Detach(IF s = t THEN Rest(t) ELSE stack[s], f.project)]
      BY <1>8 DEF LeaveEnds, DeleteProject
    <2>2. \A r \in Tasks : stack[r] \in Seq(Frame)
      BY DEF TypeOK
    <2>3. stack'[t] = Detach(Rest(t), f.project)
      BY <2>1
    <2>4. \A r \in Tasks \ {t} : stack'[r] = Detach(stack[r], f.project)
      BY <2>1
    <2> HIDE DEF f
    <2>5. Departures(stack'[t]) = Departures(Rest(t))
      BY <1>2, <2>3, DeparturesDetach
    <2>6. OthersKept(t)
      BY <2>2, <2>4, DeparturesDetach DEF OthersKept
    <2> QED
      BY <1>4, <2>5, <2>6
  <1> QED
    BY <1>5, <1>6, <1>7, <1>8

LEMMA MovesDisconnect ==
  ASSUME TypeOK, NEW t \in Tasks, DisconnectStarts(t) \/ DisconnectEnds(t)
  PROVE  Moves(t) /\ \A k \in Contents : Releases(t, k)
  <1> USE DEF registry, rooms
  <1> DEFINE f == Top(t)
             c == f.conn
             p == connection_projects[c]
  <1>1. stack[t] # << >> /\ f.at \in {"disconnect", "unregister"}
    BY DEF DisconnectStarts, DisconnectEnds, At, Top
  <1>2. /\ f \in Frame /\ Rest(t) \in Seq(Frame) /\ c \in Conns
        /\ Departures(stack[t]) = Departures(Rest(t)) \cup {f}
    BY <1>1, TopAndRest, FrameFields, DeparturesTop DEF Departs
  <1>3. \/ Raise(t)
        \/ Continue(t, Rest(t))
        \/ Continue(t, << Unregister(c) >> \o Rest(t))
        \/ p # NoProject /\ Continue(t, << LeaveProject(c, p), Unregister(c) >> \o Rest(t))
    BY DEF DisconnectStarts, DisconnectEnds, UnregisterOrRaise
  <1>4. CASE Raise(t)
    BY <1>4, MovesRaise
  <1>5. ASSUME NEW s \in Seq(Frame), Continue(t, s), Departures(Rest(t)) \subseteq Departures(s),
               \A g \in Departures(s) : g \in Departures(Rest(t)) \/ g.conn = c
        PROVE  Moves(t) /\ \A k \in Contents : Releases(t, k)
    <2>1. stack'[t] = s /\ OthersKept(t)
      BY <1>5, MovesOn DEF Continue
    <2>2. f.at # "release_locks"
      BY <1>1
    <2>3. f \in Departures(stack[t]) /\ f.conn = c
      BY <1>2
    <2> HIDE DEF f, c
    <2> QED
      BY <1>2, <1>5, <2>1, <2>2, <2>3 DEF Moves, Releases
  <1>6. CASE Continue(t, Rest(t))
    BY <1>2, <1>5, <1>6
  <1> DEFINE g == Unregister(c)
             s == << g >> \o Rest(t)
  <1>7. g \in Frame /\ Departs(g) /\ g.conn = c
    BY <1>2, NewFrames DEF Unregister, Departs
  <1>8. s \in Seq(Frame) /\ Departures(s) = Departures(Rest(t)) \cup {g}
    <2> HIDE DEF g
    <2> QED
      BY <1>2, <1>7, DeparturesPush
  <1>9. CASE Continue(t, s)
    <2> HIDE DEF s, g, c
    <2> QED
      BY <1>5, <1>7, <1>8, <1>9
  <1>10. CASE p # NoProject /\ Continue(t, << LeaveProject(c, p), g >> \o Rest(t))
    <2> DEFINE h == LeaveProject(c, p)
               r == << h >> \o s
    <2>1. p \in Projects
      BY <1>2, <1>10 DEF TypeOK
    <2>2. h \in Frame /\ Departs(h) /\ h.conn = c
      BY <1>2, <2>1, NewFrames DEF LeaveProject, Departs
    <2> HIDE DEF h, g
    <2>3. << h, g >> \o Rest(t) = << h >> \o (<< g >> \o Rest(t))
      BY <1>2, <1>7, <2>2
    <2> HIDE DEF s
    <2>4. r \in Seq(Frame) /\ Departures(r) = Departures(s) \cup {h}
      BY <1>8, <2>2, DeparturesPush
    <2>5. Continue(t, r)
      BY <1>10, <2>3 DEF h, s
    <2> HIDE DEF r, c
    <2> QED
      BY <1>5, <1>7, <1>8, <2>2, <2>4, <2>5
  <1> QED
    BY <1>3, <1>4, <1>6, <1>9, <1>10

LEMMA MovesLeaveStarts ==
  ASSUME TypeOK, NEW t \in Tasks, LeaveStarts(t)
  PROVE  LET c == Top(t).conn
             p == Top(t).project
         IN /\ c \in Conns /\ p \in Projects
            /\ Moves(t) /\ \A k \in Contents : Releases(t, k)
            /\ \E g \in Departures(stack'[t]) :
                 /\ g.at = "release_locks" /\ g.conn = c /\ g.project = p
                 /\ g.content_ids_to_remove = {k \in Contents : /\ content_locks[k] # Free
                                                                /\ content_locks[k].project = p
                                                                /\ Holder(k) = UserOf[c]}
  <1> USE DEF registry, rooms
  <1> DEFINE f == Top(t)
             c == f.conn
             p == f.project
             ids == {k \in Contents : /\ content_locks[k] # Free
                                      /\ content_locks[k].project = p
                                      /\ Holder(k) = UserOf[c]}
             g == ReleaseLocks(c, p, ids)
             s == << g >> \o Rest(t)
  <1>1. stack[t] # << >> /\ f.at = "leave_project"
    BY DEF LeaveStarts, At, Top
  <1>2. /\ f \in Frame /\ Rest(t) \in Seq(Frame) /\ c \in Conns /\ p \in Projects
        /\ Departures(stack[t]) = Departures(Rest(t)) \cup {f}
    BY <1>1, TopAndRest, FrameFields, DeparturesTop DEF Departs
  <1>3. Continue(t, s)
    BY DEF LeaveStarts, LocksOf
  <1>4. ids \in SUBSET Contents
    OBVIOUS
  <1> HIDE DEF ids
  <1>5. /\ g \in Frame /\ Departs(g) /\ g.at = "release_locks" /\ g.conn = c /\ g.project = p
        /\ g.content_ids_to_remove = ids
    BY <1>2, <1>4, NewFrames DEF ReleaseLocks, Departs
  <1> HIDE DEF g
  <1>6. s \in Seq(Frame) /\ Departures(s) = Departures(Rest(t)) \cup {g}
    BY <1>2, <1>5, DeparturesPush
  <1>7. stack'[t] = s /\ OthersKept(t)
    BY <1>3, <1>6, MovesOn DEF Continue
  <1> HIDE DEF s
  <1>8. Moves(t)
    BY <1>2, <1>5, <1>6, <1>7 DEF Moves
  <1>9. \A k \in Contents : Releases(t, k)
    BY <1>1, <1>2, <1>6, <1>7 DEF Releases
  <1> QED
    BY <1>2, <1>5, <1>6, <1>7, <1>8, <1>9 DEF ids

LEMMA MovesLoop ==
  ASSUME TypeOK, NEW t \in Tasks, LeaveReleasesLock(t)
  PROVE  /\ Moves(t)
         /\ \E j \in Contents : /\ content_locks' = [content_locks EXCEPT ![j] = Free]
                                /\ \A k \in Contents \ {j} : Releases(t, k)
  <1> USE DEF registry, rooms
  <1> DEFINE f == Top(t)
  <1>1. stack[t] # << >> /\ f.at = "release_locks"
    BY DEF LeaveReleasesLock, At, Top
  <1>2. /\ f \in Frame /\ Rest(t) \in Seq(Frame) /\ f.conn \in Conns /\ f.project \in Projects
        /\ f.content_ids_to_remove \subseteq Contents
        /\ Departures(stack[t]) = Departures(Rest(t)) \cup {f}
    BY <1>1, TopAndRest, FrameFields, DeparturesTop DEF Departs
  <1>3. PICK j \in f.content_ids_to_remove :
          LET rest == << [f EXCEPT !.content_ids_to_remove = @ \ {j}] >> \o Rest(t)
          IN /\ content_locks' = [content_locks EXCEPT ![j] = Free]
             /\ IF content_locks[j] # Free
                THEN Continue(t, Broadcast(f.project, NoConn) \o rest)
                ELSE Continue(t, rest)
    BY DEF LeaveReleasesLock
  <1> DEFINE g == [f EXCEPT !.content_ids_to_remove = @ \ {j}]
             r == << g >> \o Rest(t)
             s == Broadcast(f.project, NoConn) \o r
  <1>4. /\ g \in Frame /\ g.at = "release_locks" /\ g.conn = f.conn /\ g.project = f.project
        /\ g.content_ids_to_remove = f.content_ids_to_remove \ {j}
    BY <1>1, <1>2 DEF Frame
  <1>5. Continue(t, s) \/ Continue(t, r)
    BY <1>3
  <1> HIDE DEF g
  <1>6. r \in Seq(Frame) /\ Departures(r) = Departures(Rest(t)) \cup {g}
    BY <1>2, <1>4, DeparturesPush DEF Departs
  <1> HIDE DEF r
  <1>7. s \in Seq(Frame) /\ Departures(s) = Departures(r)
    BY <1>2, <1>6, DeparturesBroadcast
  <1> HIDE DEF s
  <1>8. Departures(stack'[t]) = Departures(Rest(t)) \cup {g} /\ OthersKept(t)
    BY <1>5, <1>6, <1>7, MovesOn DEF Continue
  <1> HIDE DEF f
  <1>9. Moves(t)
    BY <1>2, <1>4, <1>8 DEF Moves
  <1>10. \A k \in Contents \ {j} : Releases(t, k)
    BY <1>2, <1>4, <1>8 DEF Releases
  <1> QED
    BY <1>2, <1>3, <1>9, <1>10

LEMMA MovesEndpoint ==
  ASSUME TypeOK, NEW c \in Conns, Endpoint(c) \/ Close(c)
  PROVE  OthersKept(c)
         /\ (\A g \in Departures(stack'[c]) : g \in Departures(stack[c]) \/ g.conn = c)
         /\ \A k \in Contents : Releases(c, k)
  <1> USE DEF registry, rooms
  <1>1. c \in Tasks /\ UserOf[c] \in Users
    BY ConnAssumption DEF Tasks
  <1>2. ASSUME NEW s \in Seq(Frame), stack' = [stack EXCEPT ![c] = s],
               \A g \in Departures(s) : g.conn = c,
               stack[c] = << >> \/ sock[c] = "new"
        PROVE  /\ OthersKept(c)
               /\ \A g \in Departures(stack'[c]) : g \in Departures(stack[c]) \/ g.conn = c
               /\ \A k \in Contents : Releases(c, k)
    BY <1>1, <1>2, MovesOn, DeparturesEmpty DEF Releases
  <1>3. ASSUME NEW f \in Frame, Departs(f) => f.conn = c, stack' = [stack EXCEPT ![c] = << f >>],
               stack[c] = << >> \/ sock[c] = "new"
        PROVE  /\ OthersKept(c)
               /\ \A g \in Departures(stack'[c]) : g \in Departures(stack[c]) \/ g.conn = c
               /\ \A k \in Contents : Releases(c, k)
    <2>1. << f >> \in Seq(Frame)
      OBVIOUS
    <2>2. \A g \in Departures(<< f >>) : g.conn = c
      BY <1>3 DEF Departures, ToSet
    <2> QED
      BY <1>2, <1>3, <2>1, <2>2
  <1>4. CASE Connect(c) \/ Answer(c)
    BY <1>1, <1>3, <1>4, NewFrames DEF Connect, Answer, Receive, Continue, SendMessage, Departs
  <1>5. CASE Close(c)
    BY <1>5 DEF Close, OthersKept, Releases
  <1>6. CASE ReceiveDisconnect(c)
    <2>1. DisconnectCall(c) \in Frame /\ DisconnectCall(c).conn = c
      BY NewFrames DEF DisconnectCall
    <2> QED
      BY <1>3, <1>6, <2>1 DEF ReceiveDisconnect, Continue
  <1>7. CASE ReceiveRefused(c)
    BY <1>1, <1>7, MovesRaise, DeparturesEmpty DEF ReceiveRefused, Moves, Raise, Suspend, TypeOK
  <1>8. ASSUME NEW p \in Projects, JoinRequest(c, p)
        PROVE  /\ OthersKept(c)
               /\ \A g \in Departures(stack'[c]) : g \in Departures(stack[c]) \/ g.conn = c
               /\ \A k \in Contents : Releases(c, k)
    <2>1. CASE Raise(c)
      BY <1>1, <2>1, MovesRaise, DeparturesEmpty DEF Moves, Raise, Suspend, TypeOK
    <2>2. CASE Continue(c, << SendMessage(c), Joined(c, p) >>)
      <3> DEFINE s == << SendMessage(c), Joined(c, p) >>
      <3>1. s \in Seq(Frame) /\ Len(s) = 2
        BY <1>1, NewFrames
      <3>2. ~Departs(SendMessage(c)) /\ ~Departs(Joined(c, p))
        BY DEF Departs, SendMessage, Joined
      <3>3. Departures(s) = {}
        BY <3>2 DEF Departures, ToSet
      <3> QED
        BY <1>2, <1>8, <2>2, <3>1, <3>3 DEF JoinRequest, Receive, Continue
    <2> QED
      BY <1>8, <2>1, <2>2 DEF JoinRequest
  <1>9. ASSUME NEW p \in Projects, LeaveRequest(c, p)
        PROVE  /\ OthersKept(c)
               /\ \A g \in Departures(stack'[c]) : g \in Departures(stack[c]) \/ g.conn = c
               /\ \A k \in Contents : Releases(c, k)
    <2>1. LeaveProject(c, p) \in Frame /\ LeaveProject(c, p).conn = c
      BY NewFrames DEF LeaveProject
    <2> QED
      BY <1>3, <1>9, <2>1 DEF LeaveRequest, Receive, Continue
  <1>10. ASSUME NEW k \in Contents, LockContent(c, k) \/ UnlockContent(c, k)
         PROVE  /\ OthersKept(c)
                /\ \A g \in Departures(stack'[c]) : g \in Departures(stack[c]) \/ g.conn = c
                /\ \A j \in Contents : Releases(c, j)
    <2> DEFINE p == connection_projects[c]
               b == Broadcast(p, NoConn)
    <2>1. p \in Projects /\ Continue(c, b) /\ stack[c] = << >>
      BY <1>10 DEF LockContent, UnlockContent, Receive, TypeOK
    <2>2. b \in Seq(Frame) /\ Departures(b) = {}
      <3>1. b \in Seq(Frame)
        BY <2>1, NewFrames
      <3>2. b = b \o << >>
        BY <3>1, ConcatEmptySeq
      <3>3. << >> \in Seq(Frame)
        OBVIOUS
      <3>4. Departures(b \o << >>) = Departures(<< >>)
        BY <2>1, <3>3, DeparturesBroadcast
      <3> QED
        BY <3>1, <3>2, <3>4, DeparturesEmpty
    <2> HIDE DEF b
    <2> QED
      BY <1>2, <2>1, <2>2 DEF Continue
  <1>11. ASSUME NEW k \in Contents, ForceUnlock(c, k)
         PROVE  /\ OthersKept(c)
                /\ \A g \in Departures(stack'[c]) : g \in Departures(stack[c]) \/ g.conn = c
                /\ \A j \in Contents : Releases(c, j)
    <2> DEFINE p == content_locks[k].project
               f == ToUser(Holder(k))
               s == Broadcast(p, NoConn) \o << f >>
    <2>1. content_locks[k] \in Lock /\ stack[c] = << >> /\ Continue(c, s)
      BY <1>11 DEF TypeOK, ForceUnlock, Receive
    <2>2. p \in Projects /\ f \in Frame /\ ~Departs(f)
      BY <1>1, <2>1, NewFrames, ConnAssumption DEF Lock, Holder, ToUser, Departs
    <2> HIDE DEF f, p
    <2>3. << f >> \in Seq(Frame) /\ Departures(<< f >>) = {}
      BY <2>2 DEF Departures, ToSet
    <2>4. s \in Seq(Frame) /\ Departures(s) = {}
      BY <2>2, <2>3, DeparturesBroadcast
    <2> HIDE DEF s
    <2> QED
      BY <1>2, <2>1, <2>4 DEF Continue
  <1> QED
    BY <1>4, <1>5, <1>6, <1>7, <1>8, <1>9, <1>10, <1>11 DEF Endpoint, Request

-----------------------------------------------------------------------------
(***************************************************************************)
(* Sockets.                                                                *)
(***************************************************************************)

(* A lost socket stays lost, and an accepted one accepted. *)
SocketsKept ==
  \A c \in Conns : /\ sock[c] \in {"closed", "failed"} => sock'[c] \in {"closed", "failed"}
                   /\ sock'[c] = "open" => sock[c] \in {"new", "open"}
                   /\ sock'[c] = "new" => sock[c] = "new"

LEMMA StepKeepsSockets ==
  ASSUME TypeOK, NEW t \in Tasks, Step(t)
  PROVE  SocketsKept
  BY StepSocket DEF TypeOK, SocketsKept, Raise, Send

LEMMA EndpointKeepsSockets ==
  ASSUME TypeOK, NEW c \in Conns, Endpoint(c) \/ Close(c)
  PROVE  SocketsKept
  <1>1. \/ UNCHANGED sock
        \/ sock[c] = "new" /\ sock' = [sock EXCEPT ![c] = "open"]
        \/ sock[c] = "open" /\ sock' = [sock EXCEPT ![c] = "closed"]
    BY DEF Endpoint, Request, Connect, Close, ReceiveDisconnect, ReceiveRefused, Answer,
           JoinRequest, LeaveRequest, LockContent, UnlockContent, ForceUnlock, Raise
  <1> QED
    BY <1>1 DEF SocketsKept, TypeOK

LEMMA SocketsNext == TypeOK /\ [Next]_vars => SocketsKept
  <1> SUFFICES ASSUME TypeOK, [Next]_vars PROVE SocketsKept
    OBVIOUS
  <1>1. CASE UNCHANGED sock
    BY <1>1 DEF SocketsKept, TypeOK
  <1> QED
    BY <1>1, StepKeepsSockets, EndpointKeepsSockets DEF Next, vars, NotifyCalendarChange

(* A connection that is its user's only one was so before, and is the one that leaves
   when its user leaves. *)
LEMMA AloneBefore ==
  ASSUME SocketsKept, NEW c \in Conns, Alone(c)'
  PROVE  Alone(c)
  BY DEF SocketsKept, Alone

LEMMA AloneLeaves ==
  ASSUME RegistryInv, NEW c \in Conns, Alone(c), NEW d \in connection_users, UserOf[d] = UserOf[c]
  PROVE  d = c
  BY DEF Alone, RegistryInv, Accepted, TypeOK

-----------------------------------------------------------------------------
(***************************************************************************)
(* What holds of a connection that is its user's only one.                 *)
(***************************************************************************)
LEMMA CurrentNext ==
  ASSUME RegistryInv, CurrentIsViewed, [Next]_vars
  PROVE  CurrentIsViewed'
  <1> USE DEF registry, rooms
  <1>0. TypeOK /\ SocketsKept
    BY SocketsNext DEF RegistryInv
  <1> SUFFICES ASSUME NEW d \in Conns, Alone(d), connection_projects'[d] # NoProject
               PROVE  UserOf[d] \in project_viewers'[connection_projects'[d]]
    BY <1>0, AloneBefore DEF CurrentIsViewed
  <1>1. CASE UNCHANGED <<connection_projects, project_viewers>>
    BY <1>1 DEF CurrentIsViewed
  <1>2. ASSUME NEW c \in Conns, NEW p \in Projects, JoinRequest(c, p)
        PROVE  UserOf[d] \in project_viewers'[connection_projects'[d]]
    BY <1>0, <1>2, ConnAssumption DEF JoinRequest, CurrentIsViewed, TypeOK
  <1>3. ASSUME NEW t \in Tasks, LeaveStarts(t)
        PROVE  UserOf[d] \in project_viewers'[connection_projects'[d]]
    <2> DEFINE c == Top(t).conn
               p == Top(t).project
    <2>1. stack[t] # << >> /\ Top(t).at = "leave_project"
      BY <1>3 DEF LeaveStarts, At, Top
    <2>2. c \in Conns /\ p \in Projects
      BY <1>0, <2>1, TopAndRest, FrameFields
    <2>3. /\ project_viewers' = [project_viewers EXCEPT ![p] = @ \ {UserOf[c]}]
          /\ connection_projects' = [connection_projects EXCEPT ![c] = NoProject]
          /\ c \in connection_users
      BY <1>3 DEF LeaveStarts, TakeOut
    <2> HIDE DEF c, p
    <2>4. c # d
      BY <1>0, <2>2, <2>3 DEF TypeOK
    <2>5. UserOf[c] # UserOf[d]
      BY <2>3, <2>4, AloneLeaves
    <2>6. connection_projects'[d] = connection_projects[d] /\ connection_projects[d] \in Projects
      BY <1>0, <2>2, <2>3, <2>4 DEF TypeOK
    <2>7. UserOf[d] \in project_viewers[connection_projects[d]]
      BY <2>6 DEF CurrentIsViewed
    <2> QED
      BY <1>0, <2>2, <2>3, <2>5, <2>6, <2>7 DEF TypeOK
  <1> QED
    BY <1>1, <1>2, <1>3
       DEF Next, Endpoint, Request, Step, vars, Connect, Close, ReceiveDisconnect, ReceiveRefused,
           Answer, LeaveRequest, LockContent, UnlockContent, ForceUnlock, NotifyCalendarChange,
           SendOne, TellJoined, TellContentLocks, LeaveIgnored, LeaveReleasesLock, LeaveEnds,
           DisconnectStarts, DisconnectEnds, BroadcastSends, BroadcastNextUser, BroadcastEnds,
           BroadcastFails, ToUserSends, ToUserEnds

LEMMA CurrentInit == Init => CurrentIsViewed
  BY DEF Init, CurrentIsViewed

(* A connection that is its user's only one is in a project only as long as its user
   views it. *)
THEOREM CurrentSafe == Spec => []CurrentIsViewed
  <1>1. RegistryInv /\ CurrentIsViewed /\ [Next]_vars => CurrentIsViewed'
    BY CurrentNext
  <1> QED
    BY <1>1, CurrentInit, RegistryInit, RegistryNext, PTL DEF Spec

-----------------------------------------------------------------------------
HolderOK(k) ==
  LET l == content_locks[k] IN
  l # Free /\ sock[l.by] = "open" /\ Alone(l.by)
    => UserOf[l.by] \in project_viewers[l.project] \/ Releasing(k)

HolderInv ==
  RegistryInv /\ CurrentIsViewed /\ DepartingSockets /\ \A k \in Contents : HolderOK(k)

LEMMA ReleasingDepartures ==
  ASSUME NEW k \in Contents
  PROVE  Releasing(k) <=>
           \E t \in Tasks : \E g \in Departures(stack[t]) :
             /\ g.at = "release_locks" /\ g.conn = content_locks[k].by
             /\ g.project = content_locks[k].project /\ k \in g.content_ids_to_remove
  BY DEF Releasing, Departures, Departs, ToSet

LEMMA DepartingKept ==
  ASSUME TypeOK, DepartingSockets, SocketsKept, TypeOK', NEW t \in Tasks, OthersKept(t),
         \A g \in Departures(stack'[t]) :
           \/ g.conn = t
           \/ sock'[g.conn] = "failed"
           \/ \E h \in Departures(stack[t]) : h.conn = g.conn
  PROVE  DepartingSockets'
  <1>1. ASSUME NEW r \in Tasks, NEW h \in Departures(stack[r])
        PROVE  h.conn = r \/ sock'[h.conn] \in {"closed", "failed"}
    BY DepartureConn DEF DepartingSockets, SocketsKept
  <1>2. ASSUME NEW r \in Tasks, NEW g \in Departures(stack'[r])
        PROVE  g.conn = r \/ sock'[g.conn] \in {"closed", "failed"}
    <2>1. CASE r = t
      BY <1>1, <1>2, <2>1
    <2>2. CASE r # t
      BY <1>1, <1>2, <2>2 DEF OthersKept
    <2> QED
      BY <2>1, <2>2
  <1> QED
    BY <1>2 DEF DepartingSockets

(* A lock is still a viewer's or on its way out after a step that neither takes it
   nor takes its holder out of the project. *)
LEMMA HolderKept ==
  ASSUME RegistryInv, DepartingSockets, SocketsKept, NEW k \in Contents, HolderOK(k),
         NEW t \in Tasks, OthersKept(t), Releases(t, k),
         content_locks'[k] = content_locks[k],
         content_locks[k] # Free =>
           LET u == UserOf[content_locks[k].by]
               p == content_locks[k].project
           IN u \in project_viewers[p] => u \in project_viewers'[p]
  PROVE  HolderOK(k)'
  <1> DEFINE l == content_locks[k]
  <1> SUFFICES ASSUME l # Free, sock'[l.by] = "open", Alone(l.by)',
                      ~(UserOf[l.by] \in project_viewers'[l.project])
               PROVE  Releasing(k)'
    BY DEF HolderOK
  <1>1. l \in Lock /\ l.by \in Conns
    BY DEF RegistryInv, TypeOK, Lock
  <1>2. sock[l.by] = "open"
    BY <1>1 DEF SocketsKept, RegistryInv, Accepted
  <1>3. Releasing(k)
    BY <1>1, <1>2, AloneBefore DEF HolderOK
  <1>4. PICK r \in Tasks : \E g \in Departures(stack[r]) :
          /\ g.at = "release_locks" /\ g.conn = l.by
          /\ g.project = l.project /\ k \in g.content_ids_to_remove
    BY <1>3, ReleasingDepartures
  <1>5. l.by = r
    BY <1>2, <1>4 DEF DepartingSockets
  <1>6. \E h \in Departures(stack'[r]) :
          /\ h.at = "release_locks" /\ h.conn = l.by
          /\ h.project = l.project /\ k \in h.content_ids_to_remove
    <2>1. CASE r # t
      BY <1>4, <2>1 DEF OthersKept
    <2>2. CASE r = t
      <3>1. ~Raise(t)
        BY <1>1, <1>2, <1>5, <2>2 DEF Raise, RegistryInv, TypeOK
      <3>2. ~(t \in Conns /\ sock[t] = "new")
        BY <1>2, <1>5, <2>2
      <3> QED
        BY <1>4, <2>2, <3>1, <3>2 DEF Releases
    <2> QED
      BY <2>1, <2>2
  <1>7. \E q \in Tasks : \E h \in Departures(stack'[q]) :
          /\ h.at = "release_locks" /\ h.conn = content_locks'[k].by
          /\ h.project = content_locks'[k].project /\ k \in h.content_ids_to_remove
    BY <1>6
  <1> QED
    BY <1>7 DEF Releasing, Departures, Departs, ToSet

LEMMA HolderFree ==
  ASSUME NEW k \in Contents, content_locks'[k] = Free
  PROVE  HolderOK(k)'
  BY DEF HolderOK

LEMMA HolderStep ==
  ASSUME HolderInv, TypeOK', NEW t \in Tasks, Step(t)
  PROVE  DepartingSockets' /\ \A k \in Contents : HolderOK(k)'
  <1> USE DEF registry, rooms
  <1>0. TypeOK /\ SocketsKept /\ RegistryInv /\ DepartingSockets
    BY StepKeepsSockets DEF HolderInv, RegistryInv
  <1>1. Moves(t)
    BY <1>0, MovesPlain, MovesLeave, MovesDisconnect, MovesLeaveStarts, MovesLoop DEF Step
  <1>2. DepartingSockets'
    BY <1>0, <1>1, DepartingKept DEF Moves, DepartingSockets
  <1>3. CASE LeaveStarts(t)
    <2> DEFINE c == Top(t).conn
               p == Top(t).project
    <2>1. /\ c \in Conns /\ p \in Projects /\ \A k \in Contents : Releases(t, k)
          /\ \E g \in Departures(stack'[t]) :
               /\ g.at = "release_locks" /\ g.conn = c /\ g.project = p
               /\ g.content_ids_to_remove = {k \in Contents : /\ content_locks[k] # Free
                                                              /\ content_locks[k].project = p
                                                              /\ Holder(k) = UserOf[c]}
      BY <1>0, <1>3, MovesLeaveStarts
    <2>2. /\ project_viewers' = [project_viewers EXCEPT ![p] = @ \ {UserOf[c]}]
          /\ content_locks' = content_locks
          /\ c \in connection_users
      BY <1>3 DEF LeaveStarts, TakeOut
    <2> HIDE DEF c, p
    <2>3. ASSUME NEW k \in Contents, content_locks[k] # Free,
                 content_locks[k].project = p, UserOf[content_locks[k].by] = UserOf[c]
          PROVE  HolderOK(k)'
      <3> SUFFICES ASSUME Alone(content_locks[k].by)' PROVE HolderOK(k)'
        BY <2>2 DEF HolderOK
      <3>0. content_locks[k].by \in Conns
        BY <1>0, <2>3 DEF TypeOK, Lock
      <3>1. content_locks[k].by = c
        BY <1>0, <2>2, <2>3, <3>0, AloneBefore, AloneLeaves
      <3>2. \E g \in Departures(stack'[t]) :
              /\ g.at = "release_locks" /\ g.conn = content_locks'[k].by
              /\ g.project = content_locks'[k].project /\ k \in g.content_ids_to_remove
        BY <2>1, <2>2, <2>3, <3>1 DEF Holder
      <3>3. Releasing(k)'
        BY <3>2 DEF Releasing, Departures, Departs, ToSet
      <3> QED
        BY <3>3 DEF HolderOK
    <2>4. ASSUME NEW k \in Contents,
                 ~(content_locks[k] # Free /\ content_locks[k].project = p
                     /\ UserOf[content_locks[k].by] = UserOf[c])
          PROVE  HolderOK(k)'
      <3>1. content_locks[k] # Free =>
              LET u == UserOf[content_locks[k].by]
                  q == content_locks[k].project
              IN u \in project_viewers[q] => u \in project_viewers'[q]
        BY <1>0, <2>1, <2>2, <2>4 DEF TypeOK, Lock
      <3> QED
        BY <1>0, <1>1, <2>1, <2>2, <3>1, HolderKept DEF HolderInv, Moves
    <2> QED
      BY <1>2, <2>3, <2>4
  <1>4. CASE LeaveReleasesLock(t)
    <2>1. PICK j \in Contents : /\ content_locks' = [content_locks EXCEPT ![j] = Free]
                                /\ \A k \in Contents \ {j} : Releases(t, k)
      BY <1>0, <1>4, MovesLoop
    <2>2. project_viewers' = project_viewers
      BY <1>4 DEF LeaveReleasesLock
    <2>3. HolderOK(j)'
      BY <1>0, <2>1, HolderFree DEF TypeOK
    <2>4. ASSUME NEW k \in Contents \ {j} PROVE HolderOK(k)'
      <3>1. content_locks'[k] = content_locks[k]
        BY <1>0, <2>1 DEF TypeOK
      <3> QED
        BY <1>0, <1>1, <2>1, <2>2, <3>1, HolderKept DEF HolderInv, Moves
    <2> QED
      BY <1>2, <2>3, <2>4
  <1>5. CASE ~(LeaveStarts(t) \/ LeaveReleasesLock(t))
    <2>1. content_locks' = content_locks /\ project_viewers' = project_viewers
      BY <1>5 DEF Step, SendOne, TellJoined, TellContentLocks, LeaveIgnored, LeaveEnds,
           DisconnectStarts, DisconnectEnds, BroadcastSends, BroadcastNextUser, BroadcastEnds,
           BroadcastFails, ToUserSends, ToUserEnds
    <2>2. \A k \in Contents : Releases(t, k)
      BY <1>0, <1>5, MovesPlain, MovesLeave, MovesDisconnect DEF Step
    <2> QED
      BY <1>0, <1>1, <1>2, <2>1, <2>2, HolderKept DEF HolderInv, Moves
  <1> QED
    BY <1>3, <1>4, <1>5

LEMMA HolderEndpoint ==
  ASSUME HolderInv, TypeOK', NEW c \in Conns, Endpoint(c) \/ Close(c)
  PROVE  DepartingSockets' /\ \A k \in Contents : HolderOK(k)'
  <1> USE DEF registry, rooms
  <1>0. TypeOK /\ RegistryInv /\ DepartingSockets /\ CurrentIsViewed /\ c \in Tasks
        /\ UserOf[c] \in Users
    BY ConnAssumption DEF HolderInv, RegistryInv, Tasks
  <1>1. /\ OthersKept(c)
        /\ \A g \in Departures(stack'[c]) : g \in Departures(stack[c]) \/ g.conn = c
        /\ \A k \in Contents : Releases(c, k)
    BY <1>0, MovesEndpoint
  <1>2. SocketsKept
    BY <1>0, EndpointKeepsSockets
  <1>3. DepartingSockets'
    BY <1>0, <1>1, <1>2, DepartingKept
  <1>4. \A p \in Projects : project_viewers[p] \subseteq project_viewers'[p]
    <2>1. CASE \E p \in Projects : JoinRequest(c, p)
      BY <1>0, <2>1 DEF JoinRequest, TypeOK
    <2>2. CASE ~\E p \in Projects : JoinRequest(c, p)
      BY <2>2 DEF Endpoint, Request, Connect, Close, ReceiveDisconnect, ReceiveRefused, Answer,
             LeaveRequest, LockContent, UnlockContent, ForceUnlock
    <2> QED
      BY <2>1, <2>2
  <1>5. ASSUME NEW k \in Contents, content_locks'[k] = content_locks[k]
        PROVE  HolderOK(k)'
    <2>1. content_locks[k] # Free => content_locks[k].project \in Projects
      BY <1>0 DEF TypeOK, Lock
    <2> QED
      BY <1>0, <1>1, <1>2, <1>4, <1>5, <2>1, HolderKept DEF HolderInv
  <1>6. ASSUME NEW j \in Contents, LockContent(c, j) PROVE HolderOK(j)'
    <2> DEFINE l == [by |-> c, project |-> connection_projects[c]]
    <2>1. /\ content_locks'[j] = l /\ l.by = c /\ l.project = connection_projects[c]
          /\ Alone(c) => UserOf[c] \in project_viewers[l.project]
          /\ project_viewers' = project_viewers
      BY <1>0, <1>6 DEF LockContent, CurrentIsViewed, TypeOK
    <2> HIDE DEF l
    <2> QED
      BY <1>2, <2>1, AloneBefore DEF HolderOK
  <1>7. \/ content_locks' = content_locks
        \/ \E j \in Contents :
             /\ LockContent(c, j) \/ content_locks'[j] = Free
             /\ \A k \in Contents \ {j} : content_locks'[k] = content_locks[k]
    <2>1. CASE \E j \in Contents : LockContent(c, j) \/ UnlockContent(c, j) \/ ForceUnlock(c, j)
      BY <1>0, <2>1 DEF LockContent, UnlockContent, ForceUnlock, TypeOK
    <2>2. CASE ~\E j \in Contents : LockContent(c, j) \/ UnlockContent(c, j) \/ ForceUnlock(c, j)
      BY <2>2 DEF Endpoint, Request, Connect, Close, ReceiveDisconnect, ReceiveRefused, Answer,
             JoinRequest, LeaveRequest
    <2> QED
      BY <2>1, <2>2
  <1> QED
    BY <1>3, <1>5, <1>6, <1>7, HolderFree

LEMMA HolderInit == Init => HolderInv
  <1> SUFFICES ASSUME Init PROVE DepartingSockets /\ \A k \in Contents : HolderOK(k)
    BY RegistryInit, CurrentInit DEF HolderInv
  <1>1. \A t \in Tasks : stack[t] = << >>
    BY DEF Init
  <1> QED
    BY <1>1, DeparturesEmpty DEF Init, DepartingSockets, HolderOK

LEMMA HolderNext ==
  ASSUME HolderInv, [Next]_vars
  PROVE  HolderInv'
  <1>0. RegistryInv' /\ CurrentIsViewed' /\ TypeOK'
    BY RegistryNext, CurrentNext DEF HolderInv, RegistryInv
  <1>1. CASE UNCHANGED vars
    BY <1>0, <1>1 DEF HolderInv, DepartingSockets, HolderOK, Releasing, Alone, vars, rooms
  <1>2. ASSUME NEW n \in Notifiers, NEW p \in Projects, NotifyCalendarChange(n, p)
        PROVE  HolderInv'
    <2>1. /\ TypeOK /\ n \in Tasks /\ RegistryInv /\ DepartingSockets
          /\ stack[n] = << >>
          /\ UNCHANGED <<sock, content_locks, project_viewers>>
          /\ Continue(n, Broadcast(p, NoConn))
      BY <1>2 DEF HolderInv, RegistryInv, Tasks, NotifyCalendarChange
    <2>2. Broadcast(p, NoConn) \in Seq(Frame) /\ Departures(Broadcast(p, NoConn)) = {}
      <3>1. Broadcast(p, NoConn) \in Seq(Frame) /\ << >> \in Seq(Frame)
        BY <2>1, NewFrames
      <3>2. Broadcast(p, NoConn) = Broadcast(p, NoConn) \o << >>
        BY <3>1, ConcatEmptySeq
      <3>3. Departures(Broadcast(p, NoConn) \o << >>) = Departures(<< >>)
        BY <2>1, <3>1, DeparturesBroadcast
      <3> QED
        BY <3>1, <3>2, <3>3, DeparturesEmpty
    <2>3. Departures(stack'[n]) = {} /\ OthersKept(n)
      BY <2>1, <2>2, MovesOn DEF Continue
    <2>4. SocketsKept
      BY <2>1 DEF SocketsKept, TypeOK
    <2>5. DepartingSockets'
      BY <1>0, <2>1, <2>3, <2>4, DepartingKept
    <2>6. \A k \in Contents : Releases(n, k)
      BY <2>1, DeparturesEmpty DEF Releases
    <2>7. \A k \in Contents : HolderOK(k)'
      BY <2>1, <2>3, <2>4, <2>6, HolderKept DEF HolderInv
    <2> QED
      BY <1>0, <2>5, <2>7 DEF HolderInv
  <1>3. ASSUME NEW t \in Tasks, Step(t)
        PROVE  HolderInv'
    BY <1>0, <1>3, HolderStep DEF HolderInv
  <1>4. ASSUME NEW c \in Conns, Endpoint(c) \/ Close(c)
        PROVE  HolderInv'
    BY <1>0, <1>4, HolderEndpoint DEF HolderInv
  <1> QED
    BY <1>1, <1>2, <1>3, <1>4 DEF Next

(* Content locked over an open connection, its user's only one, is locked by a viewer
   of its project or about to be unlocked. *)
THEOREM HolderSafe == Spec => []OpenHolderViews
  <1>1. HolderInv => OpenHolderViews
    BY DEF HolderInv, HolderOK, OpenHolderViews
  <1>2. HolderInv /\ [Next]_vars => HolderInv'
    BY HolderNext
  <1> QED
    BY <1>1, <1>2, HolderInit, PTL DEF Spec
=============================================================================
