---------------------- MODULE CalendarManagerProofs ----------------------
(***************************************************************************)
(* Proofs about CalendarManager, for any number of users, connections,     *)
(* projects, contents and requests: the types, leave_project's loop, the   *)
(* registry of connections, and the projects and who views them.           *)
(***************************************************************************)
EXTENDS CalendarManager, SequenceTheorems, FiniteSetTheorems, TLAPS

-----------------------------------------------------------------------------
(***************************************************************************)
(* Stacks.                                                                 *)
(***************************************************************************)

(* Pushing one call on a stack. *)
LEMMA PushOne ==
  ASSUME NEW S, NEW f \in S, NEW s \in Seq(S)
  PROVE  /\ << f >> \o s \in Seq(S)
         /\ << f >> \o s # << >>
         /\ Len(<< f >> \o s) = Len(s) + 1
         /\ Head(<< f >> \o s) = f
         /\ Tail(<< f >> \o s) = s
         /\ (<< f >> \o s)[1] = f
         /\ \A i \in 1..Len(s) : (<< f >> \o s)[i+1] = s[i]
  OBVIOUS

(* The top of a stack and what is below it. *)
LEMMA TopAndRest ==
  ASSUME TypeOK, NEW t \in Tasks, stack[t] # << >>
  PROVE  /\ Top(t) \in Frame /\ Top(t) = stack[t][1]
         /\ Rest(t) \in Seq(Frame)
         /\ Len(Rest(t)) = Len(stack[t]) - 1
         /\ \A i \in 1..Len(Rest(t)) : Rest(t)[i] = stack[t][i+1]
  <1>1. stack[t] \in Seq(Frame)
    BY DEF TypeOK
  <1> QED
    BY <1>1 DEF Top, Rest

(* What a call carries. *)
LEMMA FrameFields ==
  ASSUME NEW f \in Frame
  PROVE  /\ f.at \in {"send_message", "disconnect", "unregister", "joined",
                      "tell_locks", "leave_project", "release_locks"} => f.conn \in Conns
         /\ f.at \in {"joined", "tell_locks", "leave_project", "release_locks",
                      "broadcast_to_project"} => f.project \in Projects
         /\ f.at = "release_locks" => f.content_ids_to_remove \subseteq Contents
         /\ f.at = "broadcast_to_user" => f.user \in Users /\ f.next \in Nat \ {0}
         /\ f.at = "broadcast_to_project" =>
              /\ f.skip \in Conns \cup {NoConn}
              /\ f.first \subseteq Users /\ f.seen \subseteq Users
              /\ f.user \in Users \cup {NoUser}
              /\ f.next \in Nat \ {0}
              /\ f.detached \in BOOLEAN
  BY DEF Frame

(* The calls an action pushes. *)
LEMMA NewFrames ==
  ASSUME TypeOK
  PROVE  /\ \A c \in Conns : /\ SendMessage(c) \in Frame
                             /\ DisconnectCall(c) \in Frame
                             /\ Unregister(c) \in Frame
         /\ \A c \in Conns, p \in Projects : /\ Joined(c, p) \in Frame
                                             /\ TellLocks(c, p) \in Frame
                                             /\ LeaveProject(c, p) \in Frame
         /\ \A c \in Conns, p \in Projects : \A ids \in SUBSET Contents :
              ReleaseLocks(c, p, ids) \in Frame
         /\ \A u \in Users : ToUser(u) \in Frame
         /\ \A p \in Projects, c \in Conns \cup {NoConn} : Broadcast(p, c) \in Seq(Frame)
  <1>1. \A u \in Users : ToUser(u) \in Frame
    BY DEF ToUser, Frame
  <1>2. \A p \in Projects, c \in Conns \cup {NoConn} : Broadcast(p, c) \in Seq(Frame)
    <2> SUFFICES ASSUME NEW p \in Projects, NEW c \in Conns \cup {NoConn}, p \in project_ids
                 PROVE  Broadcast(p, c) \in Seq(Frame)
      BY DEF Broadcast
    <2> DEFINE f == [at |-> "broadcast_to_project", project |-> p, skip |-> c,
                     first |-> project_viewers[p], seen |-> {}, user |-> NoUser,
                     next |-> 1, detached |-> FALSE]
    <2>1. f \in Frame
      BY DEF TypeOK, Frame
    <2>2. Broadcast(p, c) = << f >>
      BY DEF Broadcast
    <2> HIDE DEF f
    <2> QED
      BY <2>1, <2>2
  <1>3. \A c \in Conns : SendMessage(c) \in Frame /\ DisconnectCall(c) \in Frame /\ Unregister(c) \in Frame
    BY DEF SendMessage, DisconnectCall, Unregister, Frame
  <1>4. \A c \in Conns, p \in Projects :
           Joined(c, p) \in Frame /\ TellLocks(c, p) \in Frame /\ LeaveProject(c, p) \in Frame
    BY DEF Joined, TellLocks, LeaveProject, Frame
  <1>5. \A c \in Conns, p \in Projects : \A ids \in SUBSET Contents :
              ReleaseLocks(c, p, ids) \in Frame
    BY DEF ReleaseLocks, Frame
  <1> QED
    BY <1>1, <1>2, <1>3, <1>4, <1>5

(* An iteration that goes on over a detached set is still an iteration. *)
LEMMA DetachType ==
  ASSUME NEW s \in Seq(Frame), NEW p
  PROVE  /\ Detach(s, p) \in Seq(Frame)
         /\ Len(Detach(s, p)) = Len(s)
  <1>1. \A i \in DOMAIN s : Detach(s, p)[i] \in Frame
    <2> SUFFICES ASSUME NEW i \in DOMAIN s PROVE Detach(s, p)[i] \in Frame
      OBVIOUS
    <2>1. s[i] \in Frame
      OBVIOUS
    <2>2. CASE s[i].at = "broadcast_to_project" /\ s[i].project = p
      <3>1. [s[i] EXCEPT !.detached = TRUE] \in Frame
        BY <2>1, <2>2 DEF Frame
      <3> QED
        BY <2>2, <3>1 DEF Detach
    <2>3. CASE ~(s[i].at = "broadcast_to_project" /\ s[i].project = p)
      BY <2>1, <2>3 DEF Detach
    <2> QED
      BY <2>2, <2>3
  <1>2. DOMAIN Detach(s, p) = 1..Len(s)
    BY DEF Detach
  <1>3. Detach(s, p) = [i \in 1..Len(s) |-> Detach(s, p)[i]]
    BY <1>2 DEF Detach
  <1>4. Len(s) \in Nat
    OBVIOUS
  <1> HIDE DEF Detach
  <1> QED
    BY <1>1, <1>2, <1>3, <1>4

-----------------------------------------------------------------------------
(***************************************************************************)
(* What the event loop's moves do to the variables they change.            *)
(***************************************************************************)
StackOK == stack \in [Tasks -> Seq(Frame)] /\ running \in Tasks \cup {Nobody}
SockOK  == sock \in [Conns -> {"new", "open", "closed", "failed"}]

LEMMA ContinueType ==
  ASSUME TypeOK, NEW t \in Tasks, NEW s \in Seq(Frame), Continue(t, s)
  PROVE  StackOK'
  BY DEF TypeOK, Continue, StackOK

LEMMA SuspendType ==
  ASSUME TypeOK, NEW t \in Tasks, NEW s \in Seq(Frame), Suspend(t, s)
  PROVE  StackOK'
  BY DEF TypeOK, Suspend, StackOK

LEMMA RaiseType ==
  ASSUME TypeOK, NEW t \in Tasks, Raise(t)
  PROVE  StackOK' /\ SockOK' /\ serving' \subseteq Conns
  <1>1. StackOK'
    <2>1. << >> \in Seq(Frame)
      OBVIOUS
    <2> QED
      BY <2>1, SuspendType DEF Raise
  <1> QED
    BY <1>1 DEF TypeOK, Raise, SockOK

LEMMA SendType ==
  ASSUME TypeOK, NEW t \in Tasks, NEW c \in Conns, NEW rest \in Seq(Frame),
         Send(t, c, rest)
  PROVE  StackOK' /\ SockOK'
  <1>1. << DisconnectCall(c) >> \o rest \in Seq(Frame)
    BY NewFrames, PushOne
  <1> QED
    BY <1>1, SuspendType DEF TypeOK, Send, Suspend, StackOK, SockOK

-----------------------------------------------------------------------------
(***************************************************************************)
(* Type correctness.                                                       *)
(***************************************************************************)
LEMMA TypeInit == Init => TypeOK
  BY ConnAssumption DEF Init, TypeOK

LEMMA TypeConnect ==
  ASSUME TypeOK, NEW c \in Conns, Connect(c)
  PROVE  TypeOK'
  <1>1. StackOK'
    <2>1. << SendMessage(c) >> \in Seq(Frame)
      BY NewFrames
    <2> QED
      BY <2>1, ContinueType DEF Connect, Tasks
  <1>2. UserOf[c] \in Users
    BY ConnAssumption
  <1> QED
    BY <1>1, <1>2 DEF TypeOK, Connect, rooms, StackOK

LEMMA TypeRequest ==
  ASSUME TypeOK, NEW c \in Conns, Request(c)
  PROVE  TypeOK'
  <1> USE DEF Receive, registry, rooms
  <1>0. c \in Tasks /\ UserOf[c] \in Users /\ requests + 1 \in Nat
    BY ConnAssumption DEF Tasks, TypeOK
  <1>r. requests' \in 0..MaxRequests
    <2>1. Receive(c)
      BY DEF Request, Answer, JoinRequest, LeaveRequest, LockContent, UnlockContent, ForceUnlock
    <2> QED
      BY <2>1, ConnAssumption DEF TypeOK
  <1>1. CASE Answer(c)
    <2>1. StackOK'
      <3>1. << SendMessage(c) >> \in Seq(Frame)
        BY NewFrames
      <3> QED
        BY <1>0, <1>1, <3>1, ContinueType DEF Answer
    <2> QED
      BY <1>1, <1>r, <2>1 DEF TypeOK, Answer, StackOK
  <1>2. ASSUME NEW p \in Projects, JoinRequest(c, p)
        PROVE  TypeOK'
    <2>1. << SendMessage(c), Joined(c, p) >> \in Seq(Frame)
      BY NewFrames
    <2>2. StackOK' /\ SockOK' /\ serving' \subseteq Conns
      BY <1>0, <1>2, <2>1, ContinueType, RaiseType DEF JoinRequest, TypeOK, SockOK
    <2> QED
      BY <1>0, <1>2, <1>r, <2>2 DEF TypeOK, JoinRequest, StackOK, SockOK
  <1>3. ASSUME NEW p \in Projects, LeaveRequest(c, p)
        PROVE  TypeOK'
    <2>1. StackOK'
      <3>1. << LeaveProject(c, p) >> \in Seq(Frame)
        BY NewFrames
      <3> QED
        BY <1>0, <1>3, <3>1, ContinueType DEF LeaveRequest
    <2> QED
      BY <1>3, <1>r, <2>1 DEF TypeOK, LeaveRequest, StackOK
  <1>4. ASSUME NEW k \in Contents, LockContent(c, k)
        PROVE  TypeOK'
    <2>1. connection_projects[c] \in Projects
      BY <1>4 DEF TypeOK, LockContent
    <2>2. StackOK'
      BY <1>0, <1>4, <2>1, NewFrames, ContinueType DEF LockContent
    <2>3. [by |-> c, project |-> connection_projects[c]] \in Lock
      BY <2>1 DEF Lock
    <2>4. content_locks' \in [Contents -> Lock \cup {Free}]
      BY <1>4, <2>3 DEF TypeOK, LockContent
    <2> QED
      BY <1>4, <1>r, <2>2, <2>4 DEF TypeOK, LockContent, StackOK
  <1>5. ASSUME NEW k \in Contents, UnlockContent(c, k)
        PROVE  TypeOK'
    <2>1. connection_projects[c] \in Projects
      BY <1>5 DEF TypeOK, UnlockContent
    <2>2. StackOK'
      BY <1>0, <1>5, <2>1, NewFrames, ContinueType DEF UnlockContent
    <2> QED
      BY <1>5, <1>r, <2>2 DEF TypeOK, UnlockContent, StackOK
  <1>6. ASSUME NEW k \in Contents, ForceUnlock(c, k)
        PROVE  TypeOK'
    <2>1. content_locks[k] \in Lock
      BY <1>6 DEF TypeOK, ForceUnlock
    <2>2. content_locks[k].project \in Projects /\ Holder(k) \in Users
      BY <2>1, ConnAssumption DEF Lock, Holder
    <2>3. /\ Broadcast(content_locks[k].project, NoConn) \in Seq(Frame)
          /\ << ToUser(Holder(k)) >> \in Seq(Frame)
      BY <2>2, NewFrames
    <2>4. Broadcast(content_locks[k].project, NoConn) \o << ToUser(Holder(k)) >> \in Seq(Frame)
      BY <2>3
    <2>5. StackOK'
      BY <1>0, <1>6, <2>4, ContinueType DEF ForceUnlock
    <2> QED
      BY <1>6, <1>r, <2>5 DEF TypeOK, ForceUnlock, StackOK
  <1> QED
    BY <1>1, <1>2, <1>3, <1>4, <1>5, <1>6 DEF Request

LEMMA TypeLeave ==
  ASSUME TypeOK, NEW t \in Tasks,
         LeaveIgnored(t) \/ LeaveStarts(t) \/ LeaveReleasesLock(t) \/ LeaveEnds(t)
  PROVE  TypeOK'
  <1> USE DEF registry, rooms
  <1> DEFINE f == Top(t)
  <1>0. /\ f \in Frame /\ Rest(t) \in Seq(Frame)
        /\ f.conn \in Conns /\ f.project \in Projects /\ UserOf[f.conn] \in Users
        /\ f.at = "release_locks" => f.content_ids_to_remove \subseteq Contents
    <2>1. stack[t] # << >> /\ f.at \in {"leave_project", "release_locks"}
      BY DEF LeaveIgnored, LeaveStarts, LeaveReleasesLock, LeaveEnds, At, Top
    <2> QED
      BY <2>1, TopAndRest, FrameFields, ConnAssumption
  <1>1. CASE LeaveIgnored(t)
    <2>1. StackOK'
      BY <1>0, <1>1, ContinueType DEF LeaveIgnored
    <2> QED
      BY <1>1, <2>1 DEF TypeOK, LeaveIgnored, StackOK
  <1>2. CASE LeaveStarts(t)
    <2> DEFINE ids == {k \in Contents : /\ content_locks[k] # Free
                                        /\ content_locks[k].project = f.project
                                        /\ Holder(k) = UserOf[f.conn]}
    <2>1. ReleaseLocks(f.conn, f.project, ids) \in Frame
      BY <1>0, NewFrames
    <2>2. << ReleaseLocks(f.conn, f.project, ids) >> \o Rest(t) \in Seq(Frame)
      BY <1>0, <2>1, PushOne
    <2>3. StackOK'
      BY <1>2, <2>2, ContinueType DEF LeaveStarts, LocksOf
    <2> QED
      BY <1>0, <1>2, <2>3 DEF TypeOK, LeaveStarts, TakeOut, StackOK
  <1>3. CASE LeaveReleasesLock(t)
    <2>1. PICK k \in f.content_ids_to_remove :
            LET rest == << [f EXCEPT !.content_ids_to_remove = @ \ {k}] >> \o Rest(t)
            IN /\ content_locks' = [content_locks EXCEPT ![k] = Free]
               /\ IF content_locks[k] # Free
                  THEN Continue(t, Broadcast(f.project, NoConn) \o rest)
                  ELSE Continue(t, rest)
      BY <1>3 DEF LeaveReleasesLock
    <2> DEFINE g == [f EXCEPT !.content_ids_to_remove = @ \ {k}]
    <2>2. f.at = "release_locks"
      BY <1>3 DEF LeaveReleasesLock, At, Top
    <2>3. g \in Frame
      BY <1>0, <2>2 DEF Frame
    <2> HIDE DEF f, g
    <2>4. << g >> \o Rest(t) \in Seq(Frame)
      BY <1>0, <2>3, PushOne
    <2>5. Broadcast(f.project, NoConn) \o (<< g >> \o Rest(t)) \in Seq(Frame)
      BY <1>0, <2>4, NewFrames
    <2>6. StackOK'
      BY <2>1, <2>4, <2>5, ContinueType DEF g
    <2> QED
      BY <1>3, <2>1, <2>6 DEF TypeOK, LeaveReleasesLock, StackOK
  <1>4. CASE LeaveEnds(t)
    <2>1. /\ StackOK' /\ SockOK' /\ serving' \subseteq Conns
          /\ project_ids' \subseteq Projects /\ project_last_modified' \subseteq Projects
      <3>1. CASE f.project \notin project_ids
        BY <1>4, <3>1, RaiseType DEF LeaveEnds, TypeOK
      <3>2. CASE f.project \in project_ids /\ project_viewers[f.project] = {}
        <4>1. \A s \in Tasks : Detach(IF s = t THEN Rest(t) ELSE stack[s], f.project) \in Seq(Frame)
          BY <1>0, DetachType DEF TypeOK
        <4> QED
          BY <1>4, <3>2, <4>1 DEF LeaveEnds, DeleteProject, TypeOK, StackOK, SockOK
      <3>3. CASE f.project \in project_ids /\ project_viewers[f.project] # {}
        <4>1. Broadcast(f.project, NoConn) \o Rest(t) \in Seq(Frame)
          BY <1>0, NewFrames
        <4> QED
          BY <1>4, <3>3, <4>1, ContinueType DEF LeaveEnds, TypeOK, SockOK
      <3> QED
        BY <3>1, <3>2, <3>3
    <2> QED
      BY <1>4, <2>1 DEF TypeOK, LeaveEnds, StackOK, SockOK
  <1> QED
    BY <1>1, <1>2, <1>3, <1>4

LEMMA TypeDisconnect ==
  ASSUME TypeOK, NEW t \in Tasks, DisconnectStarts(t) \/ DisconnectEnds(t)
  PROVE  TypeOK'
  <1> USE DEF registry, rooms
  <1> DEFINE f == Top(t)
             c == f.conn
             p == connection_projects[c]
  <1>0. f \in Frame /\ Rest(t) \in Seq(Frame) /\ c \in Conns /\ UserOf[c] \in Users
    <2>1. stack[t] # << >> /\ f.at \in {"disconnect", "unregister"}
      BY DEF DisconnectStarts, DisconnectEnds, At, Top
    <2> QED
      BY <2>1, TopAndRest, FrameFields, ConnAssumption
  <1>1. CASE DisconnectStarts(t)
    <2>1. << Unregister(c) >> \o Rest(t) \in Seq(Frame)
      BY <1>0, NewFrames, PushOne
    <2>2. p # NoProject => << LeaveProject(c, p), Unregister(c) >> \o Rest(t) \in Seq(Frame)
      <3> SUFFICES ASSUME p # NoProject
                   PROVE  << LeaveProject(c, p), Unregister(c) >> \o Rest(t) \in Seq(Frame)
        OBVIOUS
      <3>1. p \in Projects
        BY <1>0 DEF TypeOK
      <3>2. << LeaveProject(c, p), Unregister(c) >> \in Seq(Frame)
        BY <1>0, <3>1, NewFrames
      <3> QED
        BY <1>0, <3>2
    <2>3. StackOK'
      BY <1>0, <1>1, <2>1, <2>2, ContinueType DEF DisconnectStarts
    <2> QED
      BY <1>1, <2>3 DEF TypeOK, DisconnectStarts, StackOK
  <1>2. CASE DisconnectEnds(t)
    <2> DEFINE list == active_connections[UserOf[c]]
    <2>1. list \in Seq(Conns)
      BY <1>0 DEF TypeOK
    <2>2. \A i \in DOMAIN list : RemoveAt(list, i) \in Seq(Conns)
      BY <2>1 DEF RemoveAt
    <2>3. UnregisterOrRaise(t, c) => /\ StackOK' /\ SockOK' /\ serving' \subseteq Conns
                                     /\ connection_users' \subseteq Conns
      BY <1>0, ContinueType, RaiseType DEF UnregisterOrRaise, TypeOK, SockOK
    <2>4. /\ StackOK' /\ SockOK' /\ serving' \subseteq Conns
          /\ connection_users' \subseteq Conns
          /\ active_connections' \in [Users -> Seq(Conns)]
      <3>1. CASE list = << >>
        BY <1>2, <2>3, <3>1 DEF DisconnectEnds, TypeOK
      <3>2. CASE list # << >> /\ c \in ToSet(list)
        <4> HIDE DEF list
        <4>1. \E i \in DOMAIN list :
                active_connections' = [active_connections EXCEPT ![UserOf[c]] = RemoveAt(list, i)]
          BY <1>2, <3>2 DEF DisconnectEnds, list
        <4>2. UnregisterOrRaise(t, c)
          BY <1>2, <3>2 DEF DisconnectEnds, list
        <4> QED
          BY <1>0, <2>2, <2>3, <4>1, <4>2 DEF TypeOK
      <3>3. CASE list # << >> /\ c \notin ToSet(list)
        BY <1>2, <3>3, RaiseType DEF DisconnectEnds, TypeOK
      <3> QED
        BY <3>1, <3>2, <3>3
    <2> QED
      BY <1>2, <2>4 DEF TypeOK, DisconnectEnds, StackOK, SockOK
  <1> QED
    BY <1>1, <1>2

LEMMA TypeJoin ==
  ASSUME TypeOK, NEW t \in Tasks, SendOne(t) \/ TellJoined(t) \/ TellContentLocks(t)
  PROVE  TypeOK'
  <1> USE DEF registry, rooms
  <1> DEFINE f == Top(t)
  <1>0. /\ f \in Frame /\ Rest(t) \in Seq(Frame) /\ f.conn \in Conns
        /\ f.at \in {"joined", "tell_locks"} => f.project \in Projects
    <2>1. stack[t] # << >> /\ f.at \in {"send_message", "joined", "tell_locks"}
      BY DEF SendOne, TellJoined, TellContentLocks, At, Top
    <2> QED
      BY <2>1, TopAndRest, FrameFields
  <1>1. CASE SendOne(t)
    <2>1. StackOK' /\ SockOK'
      BY <1>0, <1>1, SendType DEF SendOne
    <2> QED
      BY <1>1, <2>1 DEF TypeOK, SendOne, StackOK, SockOK
  <1>2. CASE TellJoined(t)
    <2>1. f.project \in Projects
      BY <1>0, <1>2 DEF TellJoined, At, Top
    <2>2. << TellLocks(f.conn, f.project) >> \in Seq(Frame)
      BY <1>0, <2>1, NewFrames
    <2>3. Broadcast(f.project, f.conn) \in Seq(Frame)
      BY <1>0, <2>1, NewFrames
    <2> DEFINE s == Broadcast(f.project, f.conn) \o << TellLocks(f.conn, f.project) >> \o Rest(t)
    <2>4. s \in Seq(Frame)
      BY <1>0, <2>2, <2>3
    <2>5. Continue(t, s)
      BY <1>2 DEF TellJoined
    <2> HIDE DEF s
    <2>6. StackOK'
      BY <2>4, <2>5, ContinueType
    <2> QED
      BY <1>2, <2>6 DEF TypeOK, TellJoined, StackOK
  <1>3. CASE TellContentLocks(t)
    <2>1. << SendMessage(f.conn) >> \o Rest(t) \in Seq(Frame)
      BY <1>0, NewFrames, PushOne
    <2>2. StackOK'
      BY <1>0, <1>3, <2>1, ContinueType DEF TellContentLocks
    <2> QED
      BY <1>3, <2>2 DEF TypeOK, TellContentLocks, StackOK
  <1> QED
    BY <1>1, <1>2, <1>3

(* A broadcast that has moved on to another user. *)
LEMMA NextUserFrame ==
  ASSUME NEW f \in Frame, f.at = "broadcast_to_project", NEW u \in Users
  PROVE  [f EXCEPT !.user = u, !.seen = @ \cup {u}, !.next = 1] \in Frame
  <1> DEFINE It == [at : {"broadcast_to_project"}, project : Projects,
                    skip : Conns \cup {NoConn}, first : SUBSET Users, seen : SUBSET Users,
                    user : Users \cup {NoUser}, next : Nat \ {0}, detached : BOOLEAN]
             s == f.seen \cup {u}
  <1>1. f \in It
    BY DEF Frame
  <1>2. s \in SUBSET Users
    BY <1>1
  <1>3. [f EXCEPT !.user = u, !.seen = s, !.next = 1] \in It
    <2>1. u \in Users \cup {NoUser} /\ 1 \in Nat \ {0}
      OBVIOUS
    <2>2. ASSUME NEW P, NEW C, NEW S, NEW U, NEW N, NEW g,
                 g \in [at : {"broadcast_to_project"}, project : P, skip : C, first : S,
                        seen : S, user : U, next : N, detached : BOOLEAN],
                 NEW w \in S, NEW v \in U, NEW n \in N
          PROVE  [g EXCEPT !.user = v, !.seen = w, !.next = n]
                   \in [at : {"broadcast_to_project"}, project : P, skip : C, first : S,
                        seen : S, user : U, next : N, detached : BOOLEAN]
      BY <2>2
    <2> HIDE DEF s
    <2> QED
      BY <1>1, <1>2, <2>1, <2>2
  <1>4. It \subseteq Frame
    BY DEF Frame
  <1> QED
    BY <1>3, <1>4

LEMMA TypeBroadcast ==
  ASSUME TypeOK, NEW t \in Tasks,
         \/ BroadcastSends(t) \/ BroadcastNextUser(t) \/ BroadcastEnds(t) \/ BroadcastFails(t)
  PROVE  TypeOK'
  <1> USE DEF registry, rooms
  <1> DEFINE f == Top(t)
  <1>0. /\ f \in Frame /\ Rest(t) \in Seq(Frame) /\ f.at = "broadcast_to_project"
        /\ f.project \in Projects /\ f.next \in Nat \ {0} /\ f.user \in Users \cup {NoUser}
    <2>1. stack[t] # << >> /\ f.at = "broadcast_to_project"
      BY DEF BroadcastSends, BroadcastNextUser, BroadcastEnds, BroadcastFails, At, Top
    <2> QED
      BY <2>1, TopAndRest, FrameFields
  <1>1. CASE BroadcastSends(t)
    <2> DEFINE g == [f EXCEPT !.next = @ + 1]
    <2>1. << g >> \o Rest(t) \in Seq(Frame)
      <3>1. g \in Frame
        BY <1>0 DEF Frame
      <3> QED
        BY <1>0, <3>1, PushOne
    <2>2. Listed(f.user)[f.next] \in Conns
      BY <1>0, <1>1 DEF BroadcastSends, MoreConns, Listed, TypeOK
    <2>3. StackOK' /\ SockOK'
      BY <1>1, <2>1, <2>2, SendType, ContinueType DEF BroadcastSends, TypeOK, SockOK
    <2> QED
      BY <1>1, <2>3 DEF TypeOK, BroadcastSends, StackOK, SockOK
  <1>2. CASE BroadcastNextUser(t)
    <2>1. PICK u \in project_viewers[f.project] \ f.seen :
            Continue(t, << [f EXCEPT !.user = u, !.seen = @ \cup {u}, !.next = 1] >> \o Rest(t))
      BY <1>2 DEF BroadcastNextUser
    <2>2. u \in Users
      BY <1>0 DEF TypeOK
    <2>3. [f EXCEPT !.user = u, !.seen = @ \cup {u}, !.next = 1] \in Frame
      BY <1>0, <2>2, NextUserFrame
    <2>4. << [f EXCEPT !.user = u, !.seen = @ \cup {u}, !.next = 1] >> \o Rest(t) \in Seq(Frame)
      BY <1>0, <2>3, PushOne
    <2>5. StackOK'
      BY <2>1, <2>4, ContinueType
    <2> QED
      BY <1>2, <2>5 DEF TypeOK, BroadcastNextUser, StackOK
  <1>3. CASE BroadcastEnds(t)
    <2>1. StackOK'
      BY <1>0, <1>3, ContinueType DEF BroadcastEnds
    <2> QED
      BY <1>3, <2>1 DEF TypeOK, BroadcastEnds, StackOK
  <1>4. CASE BroadcastFails(t)
    BY <1>4, RaiseType DEF TypeOK, BroadcastFails, StackOK, SockOK
  <1> QED
    BY <1>1, <1>2, <1>3, <1>4

LEMMA TypeToUser ==
  ASSUME TypeOK, NEW t \in Tasks, ToUserSends(t) \/ ToUserEnds(t)
  PROVE  TypeOK'
  <1> USE DEF registry, rooms
  <1> DEFINE f == Top(t)
  <1>0. /\ f \in Frame /\ Rest(t) \in Seq(Frame) /\ f.at = "broadcast_to_user"
        /\ f.user \in Users /\ f.next \in Nat \ {0}
    <2>1. stack[t] # << >> /\ f.at = "broadcast_to_user"
      BY DEF ToUserSends, ToUserEnds, At, Top
    <2> QED
      BY <2>1, TopAndRest, FrameFields
  <1>1. CASE ToUserSends(t)
    <2> DEFINE g == [f EXCEPT !.next = @ + 1]
    <2>1. << g >> \o Rest(t) \in Seq(Frame)
      <3>1. g \in Frame
        BY <1>0 DEF Frame
      <3> QED
        BY <1>0, <3>1, PushOne
    <2>2. active_connections[f.user][f.next] \in Conns
      BY <1>0, <1>1 DEF ToUserSends, TypeOK
    <2>3. StackOK' /\ SockOK'
      BY <1>1, <2>1, <2>2, SendType DEF ToUserSends
    <2> QED
      BY <1>1, <2>3 DEF TypeOK, ToUserSends, StackOK, SockOK
  <1>2. CASE ToUserEnds(t)
    <2>1. StackOK'
      BY <1>0, <1>2, ContinueType DEF ToUserEnds
    <2> QED
      BY <1>2, <2>1 DEF TypeOK, ToUserEnds, StackOK
  <1> QED
    BY <1>1, <1>2

LEMMA TypeEnvironment ==
  ASSUME TypeOK,
         \/ \E c \in Conns : Close(c) \/ ReceiveDisconnect(c) \/ ReceiveRefused(c)
         \/ \E n \in Notifiers, p \in Projects : NotifyCalendarChange(n, p)
  PROVE  TypeOK'
  <1> USE DEF registry, rooms
  <1>1. ASSUME NEW c \in Conns, Close(c)
        PROVE  TypeOK'
    BY <1>1 DEF TypeOK, Close
  <1>2. ASSUME NEW c \in Conns, ReceiveDisconnect(c)
        PROVE  TypeOK'
    <2>1. << DisconnectCall(c) >> \in Seq(Frame)
      BY NewFrames
    <2>2. StackOK'
      BY <1>2, <2>1, ContinueType DEF ReceiveDisconnect, Tasks
    <2> QED
      BY <1>2, <2>2 DEF TypeOK, ReceiveDisconnect, StackOK
  <1>3. ASSUME NEW c \in Conns, ReceiveRefused(c)
        PROVE  TypeOK'
    <2>1. StackOK' /\ SockOK' /\ serving' \subseteq Conns
      BY <1>3, RaiseType DEF ReceiveRefused, Tasks
    <2> QED
      BY <1>3, <2>1 DEF TypeOK, ReceiveRefused, StackOK, SockOK
  <1>4. ASSUME NEW n \in Notifiers, NEW p \in Projects, NotifyCalendarChange(n, p)
        PROVE  TypeOK'
    <2>1. StackOK'
      BY <1>4, NewFrames, ContinueType DEF NotifyCalendarChange, Tasks
    <2>2. requests' \in 0..MaxRequests
      BY <1>4, ConnAssumption DEF NotifyCalendarChange, TypeOK
    <2> QED
      BY <1>4, <2>1, <2>2 DEF TypeOK, NotifyCalendarChange, StackOK
  <1> QED
    BY <1>1, <1>2, <1>3, <1>4

LEMMA TypeNext == TypeOK /\ [Next]_vars => TypeOK'
  <1> SUFFICES ASSUME TypeOK, [Next]_vars PROVE TypeOK'
    OBVIOUS
  <1>1. CASE UNCHANGED vars
    BY <1>1 DEF TypeOK, vars, registry, rooms
  <1>2. ASSUME NEW c \in Conns, Endpoint(c) \/ Close(c)
        PROVE  TypeOK'
    BY <1>2, TypeConnect, TypeRequest, TypeEnvironment DEF Endpoint
  <1>3. ASSUME NEW n \in Notifiers, NEW p \in Projects, NotifyCalendarChange(n, p)
        PROVE  TypeOK'
    BY <1>3, TypeEnvironment
  <1>4. ASSUME NEW t \in Tasks, Step(t)
        PROVE  TypeOK'
    BY <1>4, TypeJoin, TypeLeave, TypeDisconnect, TypeBroadcast, TypeToUser DEF Step
  <1> QED
    BY <1>1, <1>2, <1>3, <1>4 DEF Next

(* The manager's maps keep their types in every behaviour: TypeOK is an invariant of
   Spec, for any users, connections, projects and contents. *)
THEOREM TypeCorrect == Spec => []TypeOK
  BY TypeInit, TypeNext, PTL DEF Spec

-----------------------------------------------------------------------------
(***************************************************************************)
(* leave_project finds its project.  The argument is about stacks: a loop  *)
(* over locks is suspended only under a broadcast to its own project, a    *)
(* broadcast whose project is gone is detached, and a detached broadcast   *)
(* does not come back.                                                     *)
(***************************************************************************)
IsLoop(f) == f.at = "release_locks"

IsBroadcast(f, p) == f.at = "broadcast_to_project" /\ f.project = p

Shaped(s) ==
  \A i \in 2..Len(s) : IsLoop(s[i]) => IsBroadcast(s[i-1], s[i].project)

StacksShaped == \A t \in Tasks : Shaped(stack[t])

LoopOnTop(s) == s # << >> /\ IsLoop(s[1])

LoopsRun == \A t \in Tasks : LoopOnTop(stack[t]) => running = t

Attached(s, ids) ==
  \A i \in 1..Len(s) : s[i].at = "broadcast_to_project" /\ ~s[i].detached
                         => s[i].project \in ids

BroadcastsAttached == \A t \in Tasks : Attached(stack[t], project_ids)

LoopsFindProject ==
  \A t \in Tasks : LoopOnTop(stack[t]) => stack[t][1].project \in project_ids

LeaveInv == TypeOK /\ StacksShaped /\ LoopsRun /\ BroadcastsAttached /\ LoopsFindProject

LEMMA Push ==
  ASSUME NEW f \in Frame, NEW s \in Seq(Frame), NEW ids,
         Shaped(s), Attached(s, ids),
         LoopOnTop(s) => IsBroadcast(f, s[1].project),
         f.at = "broadcast_to_project" /\ ~f.detached => f.project \in ids
  PROVE  Shaped(<< f >> \o s) /\ Attached(<< f >> \o s, ids)
  <1> DEFINE r == << f >> \o s
  <1>1. /\ r \in Seq(Frame) /\ Len(r) = Len(s) + 1 /\ r[1] = f
        /\ \A i \in 1..Len(s) : r[i+1] = s[i]
        /\ Len(s) \in Nat
    BY PushOne
  <1>2. \A i \in 2..Len(r) : i-1 \in 1..Len(s) /\ r[i] = s[i-1]
    BY <1>1
  <1> HIDE DEF r
  <1>3. Shaped(r)
    <2> SUFFICES ASSUME NEW i \in 2..Len(r), IsLoop(r[i])
                 PROVE  IsBroadcast(r[i-1], r[i].project)
      BY DEF Shaped
    <2>1. CASE i = 2
      BY <1>1, <1>2, <2>1 DEF LoopOnTop
    <2>2. CASE i # 2
      <3>1. i-1 \in 2..Len(s) /\ i-1 \in 2..Len(r)
        BY <1>1, <2>2
      <3>2. IsBroadcast(s[i-2], s[i-1].project)
        BY <1>2, <3>1 DEF Shaped
      <3> QED
        BY <1>2, <3>1, <3>2
    <2> QED
      BY <2>1, <2>2
  <1>4. Attached(r, ids)
    <2> SUFFICES ASSUME NEW i \in 1..Len(r), r[i].at = "broadcast_to_project", ~r[i].detached
                 PROVE  r[i].project \in ids
      BY DEF Attached
    <2>1. CASE i = 1
      BY <1>1, <2>1
    <2>2. CASE i # 1
      <3>1. i \in 2..Len(r) /\ i-1 \in 1..Len(s) /\ r[i] = s[i-1]
        BY <1>1, <1>2, <2>2
      <3> QED
        BY <3>1 DEF Attached
    <2> QED
      BY <2>1, <2>2
  <1> QED
    BY <1>3, <1>4 DEF r

LEMMA Pop ==
  ASSUME NEW s \in Seq(Frame), NEW ids, Shaped(s), Attached(s, ids), s # << >>
  PROVE  /\ Shaped(Tail(s)) /\ Attached(Tail(s), ids)
         /\ LoopOnTop(Tail(s)) => IsBroadcast(s[1], Tail(s)[1].project)
  <1>1. /\ Tail(s) \in Seq(Frame) /\ Len(Tail(s)) = Len(s) - 1 /\ Len(s) \in Nat
        /\ \A i \in 1..Len(Tail(s)) : Tail(s)[i] = s[i+1]
    OBVIOUS
  <1>2. Shaped(Tail(s))
    BY <1>1 DEF Shaped
  <1>3. Attached(Tail(s), ids)
    BY <1>1 DEF Attached
  <1>4. LoopOnTop(Tail(s)) => IsBroadcast(s[1], Tail(s)[1].project)
    BY <1>1 DEF Shaped, LoopOnTop
  <1> QED
    BY <1>2, <1>3, <1>4

LEMMA PushBroadcast ==
  ASSUME TypeOK, NEW p \in Projects, NEW c \in Conns \cup {NoConn}, NEW s \in Seq(Frame),
         Shaped(s), Attached(s, project_ids), LoopOnTop(s) => s[1].project = p
  PROVE  /\ Broadcast(p, c) \o s \in Seq(Frame)
         /\ Shaped(Broadcast(p, c) \o s)
         /\ Attached(Broadcast(p, c) \o s, project_ids)
         /\ p \in project_ids => ~LoopOnTop(Broadcast(p, c) \o s)
         /\ p \notin project_ids => Broadcast(p, c) \o s = s
  <1> DEFINE f == [at |-> "broadcast_to_project", project |-> p, skip |-> c,
                   first |-> project_viewers[p], seen |-> {}, user |-> NoUser,
                   next |-> 1, detached |-> FALSE]
  <1>1. f \in Frame
    BY DEF TypeOK, Frame
  <1>2. CASE p \in project_ids
    <2>1. Broadcast(p, c) = << f >>
      BY <1>2 DEF Broadcast
    <2>2. IsBroadcast(f, p) /\ ~IsLoop(f) /\ f.project = p
      BY DEF IsBroadcast, IsLoop
    <2> HIDE DEF f
    <2>3. << f >> \o s \in Seq(Frame) /\ (<< f >> \o s)[1] = f
      BY <1>1, PushOne
    <2> QED
      BY <1>1, <1>2, <2>1, <2>2, <2>3, Push DEF LoopOnTop
  <1>3. CASE p \notin project_ids
    <2>1. Broadcast(p, c) = << >>
      BY <1>3 DEF Broadcast
    <2>2. << >> \o s = s
      OBVIOUS
    <2> QED
      BY <1>3, <2>1, <2>2
  <1> QED
    BY <1>2, <1>3

(* A step of one task that leaves a well-shaped stack. *)
LEMMA LeaveInvStep ==
  ASSUME LeaveInv, TypeOK', NEW t \in Tasks, NEW s \in Seq(Frame), Turn(t),
         stack' = [stack EXCEPT ![t] = s], running' \in {t, Nobody},
         project_ids \subseteq project_ids',
         Shaped(s), Attached(s, project_ids'),
         LoopOnTop(s) => running' = t /\ s[1].project \in project_ids'
  PROVE  LeaveInv'
  <1>1. \A r \in Tasks : stack'[r] = IF r = t THEN s ELSE stack[r]
    BY DEF LeaveInv, TypeOK
  <1>2. \A r \in Tasks \ {t} : ~LoopOnTop(stack[r])
    BY DistinctAssumption DEF LeaveInv, LoopsRun, Turn
  <1>3. \A r \in Tasks : Attached(stack[r], project_ids')
    BY DEF LeaveInv, BroadcastsAttached, Attached
  <1>4. StacksShaped'
    BY <1>1 DEF LeaveInv, StacksShaped
  <1>5. LoopsRun' /\ LoopsFindProject'
    BY <1>1, <1>2 DEF LoopsRun, LoopsFindProject
  <1>6. BroadcastsAttached'
    BY <1>1, <1>3 DEF BroadcastsAttached
  <1> QED
    BY <1>4, <1>5, <1>6 DEF LeaveInv

LEMMA LeaveInvInit == Init => LeaveInv
  <1> SUFFICES ASSUME Init PROVE LeaveInv
    OBVIOUS
  <1>1. \A t \in Tasks : stack[t] = << >>
    BY DEF Init
  <1>2. /\ StacksShaped /\ LoopsRun /\ BroadcastsAttached /\ LoopsFindProject
    BY <1>1 DEF StacksShaped, LoopsRun, BroadcastsAttached, LoopsFindProject, Shaped, Attached,
                LoopOnTop
  <1> QED
    BY <1>2, TypeInit DEF LeaveInv

(* A step that leaves the stacks alone, or that empties one. *)
LEMMA LeaveInvIdle ==
  ASSUME LeaveInv, TypeOK', NEW t \in Tasks, Turn(t), project_ids' = project_ids,
         Raise(t)
  PROVE  LeaveInv'
  <1>1. Shaped(<< >>) /\ Attached(<< >>, project_ids') /\ ~LoopOnTop(<< >>) /\ << >> \in Seq(Frame)
    BY DEF Shaped, Attached, LoopOnTop
  <1>2. stack' = [stack EXCEPT ![t] = << >>] /\ running' = Nobody
    BY DEF Raise, Suspend
  <1> QED
    BY <1>1, <1>2, LeaveInvStep

(* Task t goes on, or is suspended, under calls that hold no loop. *)
LEMMA LeaveInvPlain ==
  ASSUME LeaveInv, TypeOK', NEW t \in Tasks, Turn(t), NEW s \in Seq(Frame),
         \A i \in 1..Len(s) : ~IsLoop(s[i]),
         Attached(s, project_ids'), project_ids \subseteq project_ids',
         Continue(t, s) \/ Suspend(t, s)
  PROVE  LeaveInv'
  <1>1. Shaped(s)
    BY DEF Shaped
  <1>2. ~LoopOnTop(s)
    BY DEF LoopOnTop
  <1>3. stack' = [stack EXCEPT ![t] = s] /\ running' \in {t, Nobody}
    BY DEF Continue, Suspend
  <1> QED
    BY <1>1, <1>2, <1>3, LeaveInvStep

LEMMA LeaveInvRequest ==
  ASSUME LeaveInv, TypeOK', NEW c \in Conns,
         \/ Connect(c) \/ ReceiveDisconnect(c) \/ ReceiveRefused(c) \/ Request(c)
  PROVE  LeaveInv'
  <1> USE DEF registry, rooms
  <1>0. /\ TypeOK /\ c \in Tasks /\ Turn(c) /\ UserOf[c] \in Users
    BY ConnAssumption
       DEF LeaveInv, Tasks, Turn, Connect, ReceiveDisconnect, ReceiveRefused, Request, Answer,
           JoinRequest, LeaveRequest, LockContent, UnlockContent, ForceUnlock, Receive
  <1>f. /\ ~IsLoop(SendMessage(c)) /\ SendMessage(c).at # "broadcast_to_project"
        /\ ~IsLoop(DisconnectCall(c)) /\ DisconnectCall(c).at # "broadcast_to_project"
        /\ \A p : /\ ~IsLoop(Joined(c, p)) /\ Joined(c, p).at # "broadcast_to_project"
                  /\ ~IsLoop(LeaveProject(c, p)) /\ LeaveProject(c, p).at # "broadcast_to_project"
        /\ \A u : ~IsLoop(ToUser(u)) /\ ToUser(u).at # "broadcast_to_project"
    BY DEF IsLoop, SendMessage, DisconnectCall, Joined, LeaveProject, ToUser
  <1>b. ASSUME NEW p \in Projects
        PROVE  /\ Broadcast(p, NoConn) \in Seq(Frame)
               /\ \A i \in 1..Len(Broadcast(p, NoConn)) : ~IsLoop(Broadcast(p, NoConn)[i])
               /\ Attached(Broadcast(p, NoConn), project_ids)
    BY <1>0, NewFrames DEF Broadcast, IsLoop, Attached
  <1>1. CASE Connect(c)
    <2>1. << SendMessage(c) >> \in Seq(Frame)
      BY <1>0, NewFrames
    <2>2. Attached(<< SendMessage(c) >>, project_ids) /\ \A i \in 1..1 : ~IsLoop(<< SendMessage(c) >>[i])
      BY <1>f DEF Attached
    <2> QED
      BY <1>0, <1>1, <2>1, <2>2, LeaveInvPlain DEF Connect
  <1>2. CASE ReceiveDisconnect(c)
    <2>1. << DisconnectCall(c) >> \in Seq(Frame)
      BY <1>0, NewFrames
    <2>2. /\ Attached(<< DisconnectCall(c) >>, project_ids)
          /\ \A i \in 1..1 : ~IsLoop(<< DisconnectCall(c) >>[i])
      BY <1>f DEF Attached
    <2> QED
      BY <1>0, <1>2, <2>1, <2>2, LeaveInvPlain DEF ReceiveDisconnect
  <1>3. CASE ReceiveRefused(c)
    BY <1>0, <1>3, LeaveInvIdle DEF ReceiveRefused
  <1>4. CASE Answer(c)
    <2>1. << SendMessage(c) >> \in Seq(Frame)
      BY <1>0, NewFrames
    <2>2. Attached(<< SendMessage(c) >>, project_ids) /\ \A i \in 1..1 : ~IsLoop(<< SendMessage(c) >>[i])
      BY <1>f DEF Attached
    <2> QED
      BY <1>0, <1>4, <2>1, <2>2, LeaveInvPlain DEF Answer
  <1>5. ASSUME NEW p \in Projects, JoinRequest(c, p)
        PROVE  LeaveInv'
    <2> DEFINE s == << SendMessage(c), Joined(c, p) >>
    <2>1. s \in Seq(Frame) /\ Len(s) = 2
      BY <1>0, NewFrames
    <2>2. Attached(s, project_ids') /\ \A i \in 1..Len(s) : ~IsLoop(s[i])
      BY <1>f DEF Attached
    <2>3. project_ids \subseteq project_ids'
      BY <1>5 DEF JoinRequest
    <2>4. CASE Continue(c, s)
      <3> HIDE DEF s
      <3> QED
        BY <1>0, <2>1, <2>2, <2>3, <2>4, LeaveInvPlain
    <2>5. CASE Raise(c)
      <3>1. Shaped(<< >>) /\ Attached(<< >>, project_ids') /\ ~LoopOnTop(<< >>) /\ << >> \in Seq(Frame)
        BY DEF Shaped, Attached, LoopOnTop
      <3>2. stack' = [stack EXCEPT ![c] = << >>] /\ running' = Nobody
        BY <2>5 DEF Raise, Suspend
      <3> QED
        BY <1>0, <2>3, <3>1, <3>2, LeaveInvStep
    <2> QED
      BY <1>5, <2>4, <2>5 DEF JoinRequest
  <1>6. ASSUME NEW p \in Projects, LeaveRequest(c, p)
        PROVE  LeaveInv'
    <2>1. << LeaveProject(c, p) >> \in Seq(Frame)
      BY <1>0, NewFrames
    <2>2. /\ Attached(<< LeaveProject(c, p) >>, project_ids)
          /\ \A i \in 1..1 : ~IsLoop(<< LeaveProject(c, p) >>[i])
      BY <1>f DEF Attached
    <2> QED
      BY <1>0, <1>6, <2>1, <2>2, LeaveInvPlain DEF LeaveRequest
  <1>7. ASSUME NEW k \in Contents, LockContent(c, k) \/ UnlockContent(c, k)
        PROVE  LeaveInv'
    <2>1. connection_projects[c] \in Projects
      BY <1>0, <1>7 DEF TypeOK, LockContent, UnlockContent
    <2>2. project_ids' = project_ids /\ Continue(c, Broadcast(connection_projects[c], NoConn))
      BY <1>7 DEF LockContent, UnlockContent
    <2> QED
      BY <1>0, <1>b, <2>1, <2>2, LeaveInvPlain
  <1>8. ASSUME NEW k \in Contents, ForceUnlock(c, k)
        PROVE  LeaveInv'
    <2> DEFINE p == content_locks[k].project
               s == Broadcast(p, NoConn) \o << ToUser(Holder(k)) >>
    <2>1. content_locks[k] \in Lock
      BY <1>0, <1>8 DEF TypeOK, ForceUnlock
    <2>2. p \in Projects /\ ToUser(Holder(k)) \in Frame
      BY <1>0, <2>1, NewFrames, ConnAssumption DEF Lock, Holder
    <2>3. /\ << ToUser(Holder(k)) >> \in Seq(Frame)
          /\ Shaped(<< ToUser(Holder(k)) >>) /\ Attached(<< ToUser(Holder(k)) >>, project_ids)
          /\ ~LoopOnTop(<< ToUser(Holder(k)) >>)
      BY <1>f, <2>2 DEF Shaped, Attached, LoopOnTop
    <2>4. /\ s \in Seq(Frame) /\ Shaped(s) /\ Attached(s, project_ids) /\ ~LoopOnTop(s)
      BY <1>0, <2>2, <2>3, PushBroadcast
    <2>5. Continue(c, s) /\ project_ids' = project_ids
      BY <1>8 DEF ForceUnlock
    <2> HIDE DEF s
    <2> QED
      BY <1>0, <2>4, <2>5, LeaveInvStep DEF Continue
  <1> QED
    BY <1>1, <1>2, <1>3, <1>4, <1>5, <1>6, <1>7, <1>8 DEF Request

LEMMA LeaveInvEnvironment ==
  ASSUME LeaveInv, TypeOK',
         \/ \E c \in Conns : Close(c)
         \/ \E n \in Notifiers, p \in Projects : NotifyCalendarChange(n, p)
  PROVE  LeaveInv'
  <1> USE DEF registry, rooms
  <1>1. ASSUME NEW c \in Conns, Close(c)
        PROVE  LeaveInv'
    BY <1>1 DEF LeaveInv, Close, StacksShaped, LoopsRun, BroadcastsAttached, LoopsFindProject
  <1>2. ASSUME NEW n \in Notifiers, NEW p \in Projects, NotifyCalendarChange(n, p)
        PROVE  LeaveInv'
    <2>1. TypeOK /\ n \in Tasks /\ Turn(n)
      BY <1>2 DEF LeaveInv, Tasks, Turn, NotifyCalendarChange
    <2>2. /\ Broadcast(p, NoConn) \in Seq(Frame)
          /\ \A i \in 1..Len(Broadcast(p, NoConn)) : ~IsLoop(Broadcast(p, NoConn)[i])
          /\ Attached(Broadcast(p, NoConn), project_ids)
      BY <2>1, NewFrames DEF Broadcast, IsLoop, Attached
    <2> QED
      BY <1>2, <2>1, <2>2, LeaveInvPlain DEF NotifyCalendarChange
  <1> QED
    BY <1>1, <1>2

(* A step of a task that is inside some call: what it finds on its stack. *)
LEMMA StepStack ==
  ASSUME LeaveInv, NEW t \in Tasks, stack[t] # << >>
  PROVE  /\ TypeOK /\ Top(t) \in Frame /\ Top(t) = stack[t][1] /\ Rest(t) \in Seq(Frame)
         /\ Shaped(Rest(t)) /\ Attached(Rest(t), project_ids)
         /\ LoopOnTop(Rest(t)) => IsBroadcast(Top(t), Rest(t)[1].project)
  <1>1. TypeOK /\ stack[t] \in Seq(Frame) /\ Shaped(stack[t]) /\ Attached(stack[t], project_ids)
    BY DEF LeaveInv, TypeOK, StacksShaped, BroadcastsAttached
  <1> QED
    BY <1>1, Pop, TopAndRest DEF Rest

(* A send from a call that is no loop, with what is to follow it on the stack. *)
LEMMA LeaveInvSend ==
  ASSUME LeaveInv, TypeOK', NEW t \in Tasks, Turn(t), project_ids' = project_ids,
         NEW c \in Conns, NEW s \in Seq(Frame), Send(t, c, s),
         Shaped(s), Attached(s, project_ids), ~LoopOnTop(s)
  PROVE  LeaveInv'
  <1>1. CASE Suspend(t, s)
    BY <1>1, LeaveInvStep DEF Suspend
  <1>2. CASE stack' = [stack EXCEPT ![t] = << DisconnectCall(c) >> \o s] /\ running' \in {t, Nobody}
    <2>1. DisconnectCall(c) \in Frame
      BY NewFrames DEF LeaveInv
    <2>2. ~IsLoop(DisconnectCall(c)) /\ DisconnectCall(c).at # "broadcast_to_project"
      BY DEF IsLoop, DisconnectCall
    <2>3. /\ << DisconnectCall(c) >> \o s \in Seq(Frame)
          /\ (<< DisconnectCall(c) >> \o s)[1] = DisconnectCall(c)
      BY <2>1, PushOne
    <2>4. Shaped(<< DisconnectCall(c) >> \o s) /\ Attached(<< DisconnectCall(c) >> \o s, project_ids)
      BY <2>1, <2>2, Push
    <2>5. ~LoopOnTop(<< DisconnectCall(c) >> \o s)
      BY <2>2, <2>3 DEF LoopOnTop
    <2> QED
      BY <1>2, <2>3, <2>4, <2>5, LeaveInvStep
  <1> QED
    BY <1>1, <1>2 DEF Send

LEMMA LeaveInvJoin ==
  ASSUME LeaveInv, TypeOK', NEW t \in Tasks,
         SendOne(t) \/ TellJoined(t) \/ TellContentLocks(t)
  PROVE  LeaveInv'
  <1> USE DEF registry, rooms
  <1> DEFINE f == Top(t)
  <1>0. /\ stack[t] # << >> /\ Turn(t) /\ f.at \in {"send_message", "joined", "tell_locks"}
        /\ project_ids' = project_ids
    BY DEF SendOne, TellJoined, TellContentLocks, At, Top
  <1>1. /\ TypeOK /\ f \in Frame /\ Rest(t) \in Seq(Frame) /\ f.conn \in Conns
        /\ Shaped(Rest(t)) /\ Attached(Rest(t), project_ids) /\ ~LoopOnTop(Rest(t))
    BY <1>0, StepStack, FrameFields DEF IsBroadcast
  <1>2. CASE SendOne(t)
    BY <1>0, <1>1, <1>2, LeaveInvSend DEF SendOne
  <1>3. CASE TellJoined(t)
    <2>1. f.project \in Projects
      BY <1>1, <1>3, FrameFields DEF TellJoined, At, Top
    <2> DEFINE g == TellLocks(f.conn, f.project)
               r == << g >> \o Rest(t)
               s == Broadcast(f.project, f.conn) \o r
    <2>2. g \in Frame /\ ~IsLoop(g) /\ g.at # "broadcast_to_project"
      BY <1>1, <2>1, NewFrames DEF TellLocks, IsLoop
    <2>3. r \in Seq(Frame) /\ r[1] = g
      BY <1>1, <2>2, PushOne
    <2>4. Shaped(r) /\ Attached(r, project_ids) /\ ~LoopOnTop(r)
      <3> HIDE DEF g
      <3> QED
        BY <1>1, <2>2, <2>3, Push DEF LoopOnTop
    <2>5. Continue(t, s)
      <3>1. Broadcast(f.project, f.conn) \in Seq(Frame) /\ << g >> \in Seq(Frame)
        BY <1>1, <2>1, <2>2, NewFrames
      <3>2. (Broadcast(f.project, f.conn) \o << g >>) \o Rest(t) = s
        <4> HIDE DEF g
        <4> QED
          BY <1>1, <3>1, ConcatAssociative
      <3> QED
        BY <1>3, <3>2 DEF TellJoined
    <2> HIDE DEF r, g
    <2>6. s \in Seq(Frame) /\ Shaped(s) /\ Attached(s, project_ids) /\ ~LoopOnTop(s)
      BY <1>1, <2>1, <2>3, <2>4, PushBroadcast
    <2> HIDE DEF s
    <2> QED
      BY <1>0, <2>5, <2>6, LeaveInvStep DEF Continue
  <1>4. CASE TellContentLocks(t)
    <2> DEFINE g == SendMessage(f.conn)
    <2>1. g \in Frame /\ ~IsLoop(g) /\ g.at # "broadcast_to_project"
      BY <1>1, NewFrames DEF SendMessage, IsLoop
    <2> HIDE DEF g
    <2>2. << g >> \o Rest(t) \in Seq(Frame) /\ (<< g >> \o Rest(t))[1] = g
      BY <1>1, <2>1, PushOne
    <2>3. Shaped(<< g >> \o Rest(t)) /\ Attached(<< g >> \o Rest(t), project_ids)
      BY <1>1, <2>1, Push
    <2>4. ~LoopOnTop(<< g >> \o Rest(t))
      BY <2>1, <2>2 DEF LoopOnTop
    <2>5. Continue(t, << g >> \o Rest(t)) \/ Continue(t, Rest(t))
      BY <1>4 DEF TellContentLocks, g
    <2> QED
      BY <1>0, <1>1, <2>2, <2>3, <2>4, <2>5, LeaveInvStep DEF Continue
  <1> QED
    BY <1>2, <1>3, <1>4

LEMMA LeaveInvDisconnect ==
  ASSUME LeaveInv, TypeOK', NEW t \in Tasks, DisconnectStarts(t) \/ DisconnectEnds(t)
  PROVE  LeaveInv'
  <1> USE DEF registry, rooms
  <1> DEFINE f == Top(t)
             c == f.conn
             p == connection_projects[c]
  <1>0. /\ stack[t] # << >> /\ Turn(t) /\ f.at \in {"disconnect", "unregister"}
        /\ project_ids' = project_ids
    BY DEF DisconnectStarts, DisconnectEnds, At, Top
  <1>1. /\ TypeOK /\ f \in Frame /\ Rest(t) \in Seq(Frame) /\ c \in Conns
        /\ Shaped(Rest(t)) /\ Attached(Rest(t), project_ids) /\ ~LoopOnTop(Rest(t))
    BY <1>0, StepStack, FrameFields DEF IsBroadcast
  <1>2. Continue(t, Rest(t)) => LeaveInv'
    BY <1>0, <1>1, LeaveInvStep DEF Continue
  <1>3. Raise(t) => LeaveInv'
    BY <1>0, LeaveInvIdle
  <1>4. CASE DisconnectEnds(t)
    BY <1>2, <1>3, <1>4 DEF DisconnectEnds, UnregisterOrRaise
  <1>5. CASE DisconnectStarts(t)
    <2> DEFINE g == Unregister(c)
               r == << g >> \o Rest(t)
    <2>1. g \in Frame /\ ~IsLoop(g) /\ g.at # "broadcast_to_project"
      BY <1>1, NewFrames DEF Unregister, IsLoop
    <2>2. r \in Seq(Frame) /\ Shaped(r) /\ Attached(r, project_ids) /\ ~LoopOnTop(r)
      <3> HIDE DEF g
      <3>1. r \in Seq(Frame) /\ r[1] = g
        BY <1>1, <2>1, PushOne
      <3> QED
        BY <1>1, <2>1, <3>1, Push DEF LoopOnTop
    <2>3. CASE Continue(t, r)
      <3> HIDE DEF r
      <3> QED
        BY <1>0, <2>2, <2>3, LeaveInvStep DEF Continue
    <2>4. CASE p # NoProject /\ Continue(t, << LeaveProject(c, p), g >> \o Rest(t))
      <3> DEFINE h == LeaveProject(c, p)
      <3>1. p \in Projects
        BY <1>1, <2>4 DEF TypeOK
      <3>2. h \in Frame /\ ~IsLoop(h) /\ h.at # "broadcast_to_project"
        BY <1>1, <3>1, NewFrames DEF LeaveProject, IsLoop
      <3>3. << h, g >> \o Rest(t) = << h >> \o r
        <4>1. << h, g >> = << h >> \o << g >>
          OBVIOUS
        <4> HIDE DEF h, g
        <4>2. << h >> \in Seq(Frame) /\ << g >> \in Seq(Frame)
          BY <2>1, <3>2
        <4> QED
          BY <1>1, <4>1, <4>2, ConcatAssociative
      <3> HIDE DEF h, g, r
      <3>4. << h >> \o r \in Seq(Frame) /\ (<< h >> \o r)[1] = h
        BY <2>2, <3>2, PushOne
      <3>5. Shaped(<< h >> \o r) /\ Attached(<< h >> \o r, project_ids) /\ ~LoopOnTop(<< h >> \o r)
        BY <2>2, <3>2, <3>4, Push DEF LoopOnTop
      <3>6. Continue(t, << h >> \o r)
        BY <2>4, <3>3 DEF h
      <3> QED
        BY <1>0, <3>4, <3>5, <3>6, LeaveInvStep DEF Continue
    <2> QED
      BY <1>2, <1>5, <2>3, <2>4 DEF DisconnectStarts
  <1> QED
    BY <1>4, <1>5

LEMMA LeaveInvBroadcast ==
  ASSUME LeaveInv, TypeOK', NEW t \in Tasks,
         \/ BroadcastSends(t) \/ BroadcastNextUser(t) \/ BroadcastEnds(t) \/ BroadcastFails(t)
         \/ ToUserSends(t) \/ ToUserEnds(t)
  PROVE  LeaveInv'
  <1> USE DEF registry, rooms
  <1> DEFINE f == Top(t)
  <1>0. /\ stack[t] # << >> /\ Turn(t) /\ f.at \in {"broadcast_to_project", "broadcast_to_user"}
        /\ project_ids' = project_ids
    BY DEF BroadcastSends, BroadcastNextUser, BroadcastEnds, BroadcastFails, ToUserSends,
           ToUserEnds, At, Top
  <1>1. /\ TypeOK /\ f \in Frame /\ Rest(t) \in Seq(Frame) /\ f = stack[t][1]
        /\ Shaped(Rest(t)) /\ Attached(Rest(t), project_ids)
        /\ LoopOnTop(Rest(t)) => IsBroadcast(f, Rest(t)[1].project)
    BY <1>0, StepStack
  <1>2. f.at = "broadcast_to_project" /\ ~f.detached => f.project \in project_ids
    <2>1. Attached(stack[t], project_ids) /\ stack[t] \in Seq(Frame)
      BY <1>1 DEF LeaveInv, BroadcastsAttached, TypeOK
    <2>2. 1 \in 1..Len(stack[t])
      BY <1>0, <2>1
    <2> QED
      BY <1>1, <2>1, <2>2 DEF Attached
  (* the call goes on with the same project *)
  <1>3. ASSUME NEW g \in Frame, g.at = f.at,
               f.at = "broadcast_to_project" => g.project = f.project /\ g.detached = f.detached
        PROVE  /\ << g >> \o Rest(t) \in Seq(Frame)
               /\ Shaped(<< g >> \o Rest(t)) /\ Attached(<< g >> \o Rest(t), project_ids)
               /\ ~LoopOnTop(<< g >> \o Rest(t))
    <2>1. << g >> \o Rest(t) \in Seq(Frame) /\ (<< g >> \o Rest(t))[1] = g
      BY <1>1, PushOne
    <2>2. LoopOnTop(Rest(t)) => IsBroadcast(g, Rest(t)[1].project)
      BY <1>1, <1>3 DEF IsBroadcast
    <2>3. g.at = "broadcast_to_project" /\ ~g.detached => g.project \in project_ids
      BY <1>2, <1>3
    <2>4. Shaped(<< g >> \o Rest(t)) /\ Attached(<< g >> \o Rest(t), project_ids)
      BY <1>1, <2>2, <2>3, Push
    <2> QED
      BY <1>0, <1>3, <2>1, <2>4 DEF LoopOnTop, IsLoop
  <1>4. CASE BroadcastSends(t)
    <2> DEFINE g == [f EXCEPT !.next = @ + 1]
    <2>1. f.at = "broadcast_to_project"
      BY <1>4 DEF BroadcastSends, At, Top
    <2>2. g \in Frame /\ g.at = f.at /\ g.project = f.project /\ g.detached = f.detached
      BY <1>1, <2>1 DEF Frame
    <2>3. Listed(f.user)[f.next] \in Conns
      BY <1>1, <1>4, <2>1, FrameFields DEF BroadcastSends, MoreConns, Listed, TypeOK
    <2>4. \/ Continue(t, << g >> \o Rest(t))
          \/ Send(t, Listed(f.user)[f.next], << g >> \o Rest(t))
      BY <1>4 DEF BroadcastSends
    <2> HIDE DEF g, f
    <2>5. /\ << g >> \o Rest(t) \in Seq(Frame)
          /\ Shaped(<< g >> \o Rest(t)) /\ Attached(<< g >> \o Rest(t), project_ids)
          /\ ~LoopOnTop(<< g >> \o Rest(t))
      BY <1>3, <2>2
    <2> QED
      BY <1>0, <2>3, <2>4, <2>5, LeaveInvStep, LeaveInvSend DEF Continue
  <1>5. CASE BroadcastNextUser(t)
    <2>1. PICK u \in project_viewers[f.project] \ f.seen :
            Continue(t, << [f EXCEPT !.user = u, !.seen = @ \cup {u}, !.next = 1] >> \o Rest(t))
      BY <1>5 DEF BroadcastNextUser
    <2> DEFINE g == [f EXCEPT !.user = u, !.seen = @ \cup {u}, !.next = 1]
               s == << g >> \o Rest(t)
    <2>2. f.at = "broadcast_to_project"
      BY <1>5 DEF BroadcastNextUser, At, Top
    <2>3. g.at = f.at /\ g.project = f.project /\ g.detached = f.detached
      BY <1>1, <2>2 DEF Frame
    <2>4. g \in Frame
      <3>1. u \in Users
        BY <1>1, <2>1, <2>2, FrameFields DEF TypeOK
      <3> QED
        BY <1>1, <2>2, <3>1, NextUserFrame
    <2> HIDE DEF g, f
    <2>5. s \in Seq(Frame) /\ Shaped(s) /\ Attached(s, project_ids) /\ ~LoopOnTop(s)
      BY <1>3, <2>3, <2>4
    <2>6. Continue(t, s)
      BY <2>1 DEF g
    <2> HIDE DEF s
    <2> QED
      BY <1>0, <2>5, <2>6, LeaveInvStep DEF Continue
  <1>6. CASE BroadcastEnds(t)
    <2>1. Continue(t, Rest(t)) /\ ~f.detached /\ f.at = "broadcast_to_project"
      BY <1>6 DEF BroadcastEnds, SizeChanged, At, Top
    <2>2. LoopOnTop(Rest(t)) => Rest(t)[1].project \in project_ids
      BY <1>1, <1>2, <2>1 DEF IsBroadcast
    <2>3. LoopOnTop(Rest(t)) => running' = t
      BY <2>1 DEF Continue, LoopOnTop
    <2> QED
      BY <1>0, <1>1, <2>1, <2>2, <2>3, LeaveInvStep DEF Continue
  <1>7. CASE BroadcastFails(t)
    BY <1>0, <1>7, LeaveInvIdle DEF BroadcastFails
  <1>8. CASE ToUserSends(t)
    <2> DEFINE g == [f EXCEPT !.next = @ + 1]
    <2>1. f.at = "broadcast_to_user"
      BY <1>8 DEF ToUserSends, At, Top
    <2>2. g \in Frame /\ g.at = f.at
      BY <1>1, <2>1 DEF Frame
    <2>3. active_connections[f.user][f.next] \in Conns
      BY <1>1, <1>8, <2>1, FrameFields DEF ToUserSends, TypeOK
    <2>4. Send(t, active_connections[f.user][f.next], << g >> \o Rest(t))
      BY <1>8 DEF ToUserSends
    <2> HIDE DEF g
    <2>5. /\ << g >> \o Rest(t) \in Seq(Frame)
          /\ Shaped(<< g >> \o Rest(t)) /\ Attached(<< g >> \o Rest(t), project_ids)
          /\ ~LoopOnTop(<< g >> \o Rest(t))
      BY <1>3, <2>1, <2>2
    <2> QED
      BY <1>0, <2>3, <2>4, <2>5, LeaveInvSend
  <1>9. CASE ToUserEnds(t)
    <2>1. ~LoopOnTop(Rest(t))
      BY <1>1, <1>9 DEF ToUserEnds, At, Top, IsBroadcast
    <2> QED
      BY <1>0, <1>1, <1>9, <2>1, LeaveInvStep DEF ToUserEnds, Continue
  <1> QED
    BY <1>4, <1>5, <1>6, <1>7, <1>8, <1>9

(* Deleting a project's entry detaches the broadcasts to it and disturbs no stack. *)
LEMMA DetachShape ==
  ASSUME NEW s \in Seq(Frame), NEW p, NEW ids, Shaped(s), Attached(s, ids)
  PROVE  /\ Shaped(Detach(s, p)) /\ Attached(Detach(s, p), ids \ {p})
         /\ LoopOnTop(Detach(s, p)) <=> LoopOnTop(s)
  <1> DEFINE d == Detach(s, p)
  <1>1. d \in Seq(Frame) /\ Len(d) = Len(s) /\ Len(s) \in Nat
    BY DetachType
  <1>2. \A i \in 1..Len(s) :
          /\ s[i] \in Frame
          /\ d[i].at = s[i].at
          /\ s[i].at \in {"release_locks", "broadcast_to_project"} => d[i].project = s[i].project
          /\ d[i].at = "broadcast_to_project" /\ ~d[i].detached => s[i].project # p /\ ~s[i].detached
    <2> SUFFICES ASSUME NEW i \in 1..Len(s)
                 PROVE  /\ s[i] \in Frame
                        /\ d[i].at = s[i].at
                        /\ s[i].at \in {"release_locks", "broadcast_to_project"}
                             => d[i].project = s[i].project
                        /\ d[i].at = "broadcast_to_project" /\ ~d[i].detached
                             => s[i].project # p /\ ~s[i].detached
      OBVIOUS
    <2>1. s[i] \in Frame
      OBVIOUS
    <2>2. CASE s[i].at = "broadcast_to_project" /\ s[i].project = p
      <3>0. i \in DOMAIN s
        OBVIOUS
      <3>1. d[i] = [s[i] EXCEPT !.detached = TRUE]
        BY <2>2, <3>0 DEF Detach
      <3>2. d[i].at = s[i].at /\ d[i].project = s[i].project /\ d[i].detached
        BY <2>1, <2>2, <3>1 DEF Frame
      <3> QED
        BY <2>1, <3>2
    <2>3. CASE ~(s[i].at = "broadcast_to_project" /\ s[i].project = p)
      <3>1. i \in DOMAIN s
        OBVIOUS
      <3>2. d[i] = s[i]
        BY <2>3, <3>1 DEF Detach
      <3>3. d[i].at = s[i].at /\ d[i].project = s[i].project /\ d[i].detached = s[i].detached
        BY <3>2
      <3> HIDE DEF d
      <3> QED
        BY <2>1, <2>3, <3>2
    <2> QED
      BY <2>2, <2>3
  <1> HIDE DEF d
  <1>3. Shaped(d)
    BY <1>1, <1>2 DEF Shaped, IsLoop, IsBroadcast
  <1>4. Attached(d, ids \ {p})
    BY <1>1, <1>2 DEF Attached
  <1>5. LoopOnTop(d) <=> LoopOnTop(s)
    BY <1>1, <1>2 DEF LoopOnTop, IsLoop
  <1> QED
    BY <1>3, <1>4, <1>5 DEF d

LEMMA LeaveInvLeave ==
  ASSUME LeaveInv, TypeOK', NEW t \in Tasks,
         LeaveIgnored(t) \/ LeaveStarts(t) \/ LeaveReleasesLock(t) \/ LeaveEnds(t)
  PROVE  LeaveInv'
  <1> USE DEF registry, rooms
  <1> DEFINE f == Top(t)
             p == f.project
  <1>0. stack[t] # << >> /\ Turn(t) /\ f.at \in {"leave_project", "release_locks"}
    BY DEF LeaveIgnored, LeaveStarts, LeaveReleasesLock, LeaveEnds, At, Top
  <1>1. /\ TypeOK /\ f \in Frame /\ Rest(t) \in Seq(Frame) /\ f = stack[t][1]
        /\ f.conn \in Conns /\ p \in Projects
        /\ Shaped(Rest(t)) /\ Attached(Rest(t), project_ids) /\ ~LoopOnTop(Rest(t))
    BY <1>0, StepStack, FrameFields DEF IsBroadcast
  <1>2. f.at = "release_locks" => p \in project_ids
    BY <1>0, <1>1 DEF LeaveInv, LoopsFindProject, LoopOnTop, IsLoop
  <1>3. ASSUME NEW g \in Frame, g.at = "release_locks", g.project = p
        PROVE  /\ << g >> \o Rest(t) \in Seq(Frame) /\ (<< g >> \o Rest(t))[1] = g
               /\ Shaped(<< g >> \o Rest(t)) /\ Attached(<< g >> \o Rest(t), project_ids)
               /\ << g >> \o Rest(t) # << >>
    BY <1>1, <1>3, Push, PushOne
  <1>4. CASE LeaveIgnored(t)
    BY <1>0, <1>1, <1>4, LeaveInvStep DEF LeaveIgnored, Continue
  <1>5. CASE LeaveStarts(t)
    <2>1. PICK ids \in SUBSET Contents : Continue(t, << ReleaseLocks(f.conn, p, ids) >> \o Rest(t))
      BY <1>5 DEF LeaveStarts, LocksOf
    <2> DEFINE g == ReleaseLocks(f.conn, p, ids)
               s == << g >> \o Rest(t)
    <2>2. g \in Frame /\ g.at = "release_locks" /\ g.project = p
      BY <1>1, NewFrames DEF ReleaseLocks
    <2>3. p \in project_ids /\ project_ids' = project_ids
      BY <1>5 DEF LeaveStarts
    <2> HIDE DEF g
    <2>4. /\ s \in Seq(Frame) /\ s[1].project = p /\ s # << >>
          /\ Shaped(s) /\ Attached(s, project_ids)
      BY <1>3, <2>2
    <2>5. Continue(t, s)
      BY <2>1 DEF g
    <2> HIDE DEF s
    <2> QED
      BY <1>0, <2>3, <2>4, <2>5, LeaveInvStep DEF Continue
  <1>6. CASE LeaveReleasesLock(t)
    <2>1. PICK k \in f.content_ids_to_remove :
            LET rest == << [f EXCEPT !.content_ids_to_remove = @ \ {k}] >> \o Rest(t)
            IN IF content_locks[k] # Free
               THEN Continue(t, Broadcast(p, NoConn) \o rest)
               ELSE Continue(t, rest)
      BY <1>6 DEF LeaveReleasesLock
    <2> DEFINE g == [f EXCEPT !.content_ids_to_remove = @ \ {k}]
               r == << g >> \o Rest(t)
               s == Broadcast(p, NoConn) \o r
    <2>2. f.at = "release_locks" /\ p \in project_ids /\ project_ids' = project_ids
      BY <1>2, <1>6 DEF LeaveReleasesLock, At, Top
    <2>3. g \in Frame /\ g.at = "release_locks" /\ g.project = p
      BY <1>1, <2>2 DEF Frame
    <2>4. Continue(t, s) \/ Continue(t, r)
      BY <2>1
    <2> HIDE DEF g, f
    <2>5. r \in Seq(Frame) /\ r[1].project = p /\ r # << >> /\ Shaped(r) /\ Attached(r, project_ids)
      BY <1>3, <2>3
    <2> HIDE DEF r
    <2>6. s \in Seq(Frame) /\ Shaped(s) /\ Attached(s, project_ids) /\ ~LoopOnTop(s)
      BY <1>1, <2>2, <2>5, PushBroadcast
    <2> HIDE DEF s
    <2>7. CASE Continue(t, s)
      BY <1>0, <2>2, <2>6, <2>7, LeaveInvStep DEF Continue
    <2>8. CASE Continue(t, r)
      BY <1>0, <2>2, <2>5, <2>8, LeaveInvStep DEF Continue
    <2> QED
      BY <2>4, <2>7, <2>8
  <1>7. CASE LeaveEnds(t) /\ project_viewers[p] # {}
    <2>1. p \in project_ids
      BY <1>2, <1>7 DEF LeaveEnds, At, Top
    <2>2. Continue(t, Broadcast(p, NoConn) \o Rest(t)) /\ project_ids' = project_ids
      BY <1>7, <2>1 DEF LeaveEnds
    <2> DEFINE s == Broadcast(p, NoConn) \o Rest(t)
    <2>3. s \in Seq(Frame) /\ Shaped(s) /\ Attached(s, project_ids) /\ ~LoopOnTop(s)
      BY <1>1, <2>1, PushBroadcast
    <2> HIDE DEF s
    <2> QED
      BY <1>0, <2>2, <2>3, LeaveInvStep DEF Continue, s
  <1>8. CASE LeaveEnds(t) /\ project_viewers[p] = {}
    <2>1. p \in project_ids
      BY <1>2, <1>8 DEF LeaveEnds, At, Top
    <2>2. /\ project_ids' = project_ids \ {p}
          /\ stack' = [s \in Tasks |-> Detach(IF s = t THEN Rest(t) ELSE stack[s], p)]
      BY <1>8, <2>1 DEF LeaveEnds, DeleteProject
    <2> DEFINE old(s) == IF s = t THEN Rest(t) ELSE stack[s]
    <2>3. ASSUME NEW s \in Tasks
          PROVE  /\ old(s) \in Seq(Frame) /\ Shaped(old(s)) /\ Attached(old(s), project_ids)
                 /\ ~LoopOnTop(old(s))
      <3>1. s # t => ~LoopOnTop(stack[s])
        BY <1>0, DistinctAssumption DEF LeaveInv, LoopsRun, Turn
      <3> QED
        BY <1>1, <3>1 DEF LeaveInv, StacksShaped, BroadcastsAttached, TypeOK
    <2>4. ASSUME NEW s \in Tasks
          PROVE  /\ Shaped(stack'[s]) /\ Attached(stack'[s], project_ids') /\ ~LoopOnTop(stack'[s])
      <3>1. stack'[s] = Detach(old(s), p)
        BY <2>2
      <3> HIDE DEF old
      <3> QED
        BY <2>2, <2>3, <3>1, DetachShape
    <2> QED
      BY <2>4 DEF LeaveInv, StacksShaped, LoopsRun, BroadcastsAttached, LoopsFindProject
  <1> QED
    BY <1>4, <1>5, <1>6, <1>7, <1>8

LEMMA LeaveInvNext == LeaveInv /\ [Next]_vars => LeaveInv'
  <1> SUFFICES ASSUME LeaveInv, [Next]_vars PROVE LeaveInv'
    OBVIOUS
  <1>0. TypeOK'
    BY TypeNext DEF LeaveInv
  <1>1. CASE UNCHANGED vars
    BY <1>0, <1>1 DEF LeaveInv, vars, rooms, StacksShaped, LoopsRun, BroadcastsAttached,
                      LoopsFindProject
  <1>2. ASSUME NEW c \in Conns, Endpoint(c) \/ Close(c)
        PROVE  LeaveInv'
    BY <1>0, <1>2, LeaveInvRequest, LeaveInvEnvironment DEF Endpoint
  <1>3. ASSUME NEW n \in Notifiers, NEW p \in Projects, NotifyCalendarChange(n, p)
        PROVE  LeaveInv'
    BY <1>0, <1>3, LeaveInvEnvironment
  <1>4. ASSUME NEW t \in Tasks, Step(t)
        PROVE  LeaveInv'
    BY <1>0, <1>4, LeaveInvJoin, LeaveInvLeave, LeaveInvDisconnect, LeaveInvBroadcast DEF Step
  <1> QED
    BY <1>1, <1>2, <1>3, <1>4 DEF Next

(* leave_project never reads the viewers of a project that has been deleted under it. *)
THEOREM LeaveSafe == Spec => []LeaveFindsItsProject
  <1>1. LeaveInv => LeaveFindsItsProject
    BY TopAndRest DEF LeaveInv, LoopsFindProject, LeaveFindsItsProject, LoopOnTop, IsLoop, TypeOK
  <1> QED
    BY <1>1, LeaveInvInit, LeaveInvNext, PTL DEF Spec

-----------------------------------------------------------------------------
(***************************************************************************)
(* The registry: the list of connections of each user and the map from     *)
(* connections to users.                                                   *)
(***************************************************************************)

(* A connection that has not been accepted is nowhere in the manager. *)
Accepted ==
  \A c \in Conns : sock[c] = "new" =>
    /\ c \notin connection_users
    /\ c \notin serving
    /\ \A k \in Contents : content_locks[k] # Free => content_locks[k].by # c

RegistryInv == TypeOK /\ Accepted /\ RegistryConsistent

(* What Append does to a list without repetitions. *)
LEMMA AppendNew ==
  ASSUME NEW S, NEW s \in Seq(S), IsInjective(s), NEW c \in S, c \notin ToSet(s)
  PROVE  IsInjective(Append(s, c)) /\ ToSet(Append(s, c)) = ToSet(s) \cup {c}
  <1> DEFINE r == Append(s, c)
  <1>1. /\ Len(s) \in Nat /\ DOMAIN s = 1..Len(s) /\ DOMAIN r = 1..Len(s)+1
        /\ \A i \in 1..Len(s) : r[i] = s[i]
        /\ r[Len(s)+1] = c
    OBVIOUS
  <1>2. \A i \in 1..Len(s) : s[i] # c
    BY <1>1 DEF ToSet
  <1> HIDE DEF r
  <1>3. IsInjective(r)
    BY <1>1, <1>2 DEF IsInjective
  <1>4. ToSet(r) = ToSet(s) \cup {c}
    BY <1>1 DEF ToSet
  <1> QED
    BY <1>3, <1>4 DEF r

(* What list.remove does to a list without repetitions. *)
LEMMA RemoveListed ==
  ASSUME NEW S, NEW s \in Seq(S), IsInjective(s), NEW i \in DOMAIN s
  PROVE  IsInjective(RemoveAt(s, i)) /\ ToSet(RemoveAt(s, i)) = ToSet(s) \ {s[i]}
  <1> DEFINE r == RemoveAt(s, i)
  <1>1. Len(s) \in Nat /\ DOMAIN s = 1..Len(s) /\ i \in 1..Len(s)
    OBVIOUS
  <1>2. /\ DOMAIN r = 1..Len(s)-1
        /\ \A j \in 1..Len(s)-1 : r[j] = IF j < i THEN s[j] ELSE s[j+1]
    <2> DEFINE a == SubSeq(s, 1, i-1)
               b == SubSeq(s, i+1, Len(s))
    <2>1. a \in Seq(S) /\ Len(a) = i-1 /\ \A j \in 1..i-1 : a[j] = s[j]
      BY <1>1
    <2>2. b \in Seq(S) /\ Len(b) = Len(s)-i /\ \A j \in 1..Len(s)-i : b[j] = s[i+j]
      BY <1>1
    <2>3. r = a \o b
      BY DEF RemoveAt
    <2> HIDE DEF a, b, r
    <2>r. r \in Seq(S) /\ Len(r) = Len(a) + Len(b)
      BY <2>1, <2>2, <2>3, ConcatProperties
    <2>4. DOMAIN r = 1..Len(s)-1
      BY <1>1, <2>1, <2>2, <2>r
    <2>5. ASSUME NEW j \in 1..Len(s)-1, j < i PROVE r[j] = s[j]
      <3>1. j \in 1..Len(a) /\ j \in 1..i-1
        BY <1>1, <2>1, <2>5
      <3>2. r[j] = a[j]
        BY <2>1, <2>2, <2>3, <3>1
      <3> QED
        BY <2>1, <3>1, <3>2
    <2>6. ASSUME NEW j \in 1..Len(s)-1, ~(j < i) PROVE r[j] = s[j+1]
      <3>1. j-(i-1) \in 1..Len(s)-i /\ i+(j-(i-1)) = j+1
        BY <1>1, <2>6
      <3>2. r[j] = b[j-(i-1)]
        BY <1>1, <2>1, <2>2, <2>3, <2>6
      <3> QED
        BY <2>2, <3>1, <3>2
    <2> QED
      BY <2>4, <2>5, <2>6
  <1> HIDE DEF r
  <1>3. IsInjective(r)
    <2> SUFFICES ASSUME NEW j \in 1..Len(s)-1, NEW m \in 1..Len(s)-1, r[j] = r[m] PROVE j = m
      BY <1>2 DEF IsInjective
    <2>1. \A x \in 1..Len(s), y \in 1..Len(s) : s[x] = s[y] => x = y
      BY <1>1 DEF IsInjective
    <2> QED
      BY <1>1, <1>2, <2>1
  <1>4. ASSUME NEW j \in 1..Len(s), j # i PROVE s[j] \in ToSet(r)
    <2>1. CASE j < i
      BY <1>1, <1>2, <2>1 DEF ToSet
    <2>2. CASE j > i
      <3>1. j-1 \in 1..Len(s)-1 /\ r[j-1] = s[j]
        BY <1>1, <1>2, <2>2
      <3> QED
        BY <1>2, <3>1 DEF ToSet
    <2> QED
      BY <1>1, <1>4, <2>1, <2>2
  <1>5. \A j \in DOMAIN r : r[j] \in ToSet(s) \ {s[i]}
    BY <1>1, <1>2 DEF ToSet, IsInjective
  <1>6. ToSet(r) = ToSet(s) \ {s[i]}
    BY <1>1, <1>4, <1>5 DEF ToSet
  <1> QED
    BY <1>3, <1>6 DEF r

LEMMA RegistryInit == Init => RegistryInv
  <1> SUFFICES ASSUME Init PROVE Accepted /\ RegistryConsistent
    BY TypeInit DEF RegistryInv
  <1>1. Accepted
    BY DEF Init, Accepted
  <1>2. \A u \in Users : active_connections[u] = << >> /\ connection_users = {}
    BY DEF Init
  <1>3. IsInjective(<< >>) /\ ToSet(<< >>) = {}
    BY DEF IsInjective, ToSet
  <1> QED
    BY <1>1, <1>2, <1>3 DEF RegistryConsistent

LEMMA RegistryConnect ==
  ASSUME RegistryInv, NEW c \in Conns, Connect(c)
  PROVE  Accepted' /\ RegistryConsistent'
  <1> USE DEF registry, rooms
  <1>1. /\ TypeOK /\ UserOf[c] \in Users
        /\ sock[c] = "new" /\ sock' = [sock EXCEPT ![c] = "open"]
        /\ serving' = serving \cup {c}
        /\ connection_users' = connection_users \cup {c}
        /\ active_connections' = [active_connections EXCEPT ![UserOf[c]] = Append(@, c)]
        /\ content_locks' = content_locks
    BY ConnAssumption DEF RegistryInv, Connect
  <1>2. Accepted'
    BY <1>1 DEF RegistryInv, Accepted, TypeOK
  <1>3. c \notin connection_users
    BY <1>1 DEF RegistryInv, Accepted
  <1>4. ASSUME NEW u \in Users
        PROVE  /\ IsInjective(active_connections'[u])
               /\ ToSet(active_connections'[u]) = {d \in connection_users' : UserOf[d] = u}
    <2>1. /\ active_connections[u] \in Seq(Conns) /\ IsInjective(active_connections[u])
          /\ ToSet(active_connections[u]) = {d \in connection_users : UserOf[d] = u}
      BY <1>1 DEF RegistryInv, RegistryConsistent, TypeOK
    <2>2. CASE u = UserOf[c]
      <3>1. active_connections'[u] = Append(active_connections[u], c)
        BY <1>1, <2>2 DEF TypeOK
      <3>2. c \notin ToSet(active_connections[u])
        BY <1>3, <2>1
      <3> QED
        BY <1>1, <2>1, <2>2, <3>1, <3>2, AppendNew
    <2>3. CASE u # UserOf[c]
      <3>1. active_connections'[u] = active_connections[u]
        BY <1>1, <2>3 DEF TypeOK
      <3> QED
        BY <1>1, <2>1, <2>3, <3>1
    <2> QED
      BY <2>2, <2>3
  <1> QED
    BY <1>2, <1>4 DEF RegistryConsistent

LEMMA RegistryDisconnect ==
  ASSUME RegistryInv, NEW t \in Tasks, DisconnectEnds(t)
  PROVE  RegistryConsistent' /\ content_locks' = content_locks
         /\ connection_users' \subseteq connection_users
  <1> USE DEF registry, rooms
  <1> DEFINE c == Top(t).conn
             u == UserOf[c]
  <1>1. stack[t] # << >> /\ Top(t).at = "unregister"
    BY DEF DisconnectEnds, At, Top
  <1>2. TypeOK /\ c \in Conns /\ u \in Users /\ active_connections[u] \in Seq(Conns)
    BY <1>1, TopAndRest, FrameFields, ConnAssumption DEF RegistryInv, TypeOK
  <1>3. /\ IsInjective(active_connections[u])
        /\ ToSet(active_connections[u]) = {d \in connection_users : UserOf[d] = u}
    BY <1>2 DEF RegistryInv, RegistryConsistent
  <1>4. content_locks' = content_locks /\ connection_users' \subseteq connection_users
    BY DEF DisconnectEnds, UnregisterOrRaise
  <1>5. CASE UNCHANGED registry
    BY <1>4, <1>5 DEF RegistryInv, RegistryConsistent
  <1>6. CASE active_connections[u] = << >> /\ UNCHANGED active_connections /\ UnregisterOrRaise(t, c)
    <2>1. c \notin connection_users
      BY <1>2, <1>3, <1>6 DEF ToSet
    <2> QED
      BY <1>4, <1>6, <2>1 DEF RegistryInv, RegistryConsistent, UnregisterOrRaise
  <1>7. ASSUME NEW i \in DOMAIN active_connections[u], active_connections[u][i] = c,
               active_connections' = [active_connections EXCEPT ![u] = RemoveAt(@, i)],
               UnregisterOrRaise(t, c)
        PROVE  RegistryConsistent'
    <2>1. connection_users' = connection_users \ {c}
      BY <1>7 DEF UnregisterOrRaise
    <2>2. ASSUME NEW v \in Users
          PROVE  /\ IsInjective(active_connections'[v])
                 /\ ToSet(active_connections'[v]) = {d \in connection_users' : UserOf[d] = v}
      <3>1. CASE v = u
        <4>1. active_connections'[v] = RemoveAt(active_connections[u], i)
          BY <1>2, <1>7, <3>1 DEF TypeOK
        <4>2. /\ IsInjective(RemoveAt(active_connections[u], i))
              /\ ToSet(RemoveAt(active_connections[u], i)) = ToSet(active_connections[u]) \ {c}
          BY <1>2, <1>3, <1>7, RemoveListed
        <4> HIDE DEF c
        <4> QED
          BY <1>3, <2>1, <3>1, <4>1, <4>2
      <3>2. CASE v # u
        <4>1. active_connections'[v] = active_connections[v]
          BY <1>2, <1>7, <3>2 DEF TypeOK
        <4>2. /\ IsInjective(active_connections[v])
              /\ ToSet(active_connections[v]) = {d \in connection_users : UserOf[d] = v}
          BY DEF RegistryInv, RegistryConsistent
        <4> QED
          BY <2>1, <3>2, <4>1, <4>2
      <3> QED
        BY <3>1, <3>2
    <2> QED
      BY <2>2 DEF RegistryConsistent
  <1> QED
    BY <1>4, <1>5, <1>6, <1>7 DEF DisconnectEnds

(* No step but connect changes a socket that is new, registers or serves. *)
LEMMA NewStays ==
  ASSUME TypeOK, NEW t \in Tasks, NEW c \in Conns, sock'[c] = "new",
         Raise(t) \/ (\E d \in Conns : \E s : Send(t, d, s)) \/ UNCHANGED sock
         \/ \E d \in Conns : sock' = [sock EXCEPT ![d] = "closed"]
  PROVE  sock[c] = "new"
  BY DEF TypeOK, Raise, Send

(* A step of a task touches a socket only by sending, or by the task's own end. *)
LEMMA StepSocket ==
  ASSUME TypeOK, NEW t \in Tasks, Step(t)
  PROVE  Raise(t) \/ (\E d \in Conns : \E s : Send(t, d, s)) \/ UNCHANGED sock
  <1> USE DEF registry, rooms
  <1>1. CASE SendOne(t)
    <2>1. stack[t] # << >> /\ Top(t).at = "send_message"
      BY <1>1 DEF SendOne, At, Top
    <2> QED
      BY <1>1, <2>1, TopAndRest, FrameFields DEF SendOne
  <1>2. CASE BroadcastSends(t)
    <2> DEFINE f == Top(t)
               d == Listed(f.user)[f.next]
    <2>1. stack[t] # << >> /\ f.at = "broadcast_to_project" /\ MoreConns(f)
      BY <1>2 DEF BroadcastSends, At, Top
    <2>2. f \in Frame /\ f.user \in Users \cup {NoUser} /\ f.next \in Nat \ {0}
      BY <2>1, TopAndRest, FrameFields
    <2>3. Listed(f.user) \in Seq(Conns)
      BY <2>2 DEF Listed, TypeOK
    <2>4. d \in Conns
      BY <2>1, <2>2, <2>3 DEF MoreConns
    <2> QED
      BY <1>2, <2>4 DEF BroadcastSends
  <1>3. CASE ToUserSends(t)
    <2> DEFINE f == Top(t)
               d == active_connections[f.user][f.next]
    <2>1. stack[t] # << >> /\ f.at = "broadcast_to_user" /\ f.next <= Len(active_connections[f.user])
      BY <1>3 DEF ToUserSends, At, Top
    <2>2. f \in Frame /\ f.user \in Users /\ f.next \in Nat \ {0}
      BY <2>1, TopAndRest, FrameFields
    <2>3. active_connections[f.user] \in Seq(Conns)
      BY <2>2 DEF TypeOK
    <2>4. d \in Conns
      BY <2>1, <2>2, <2>3
    <2> QED
      BY <1>3, <2>4 DEF ToUserSends
  <1>4. CASE ~(SendOne(t) \/ BroadcastSends(t) \/ ToUserSends(t))
    BY <1>4 DEF Step, TellJoined, TellContentLocks, LeaveIgnored, LeaveStarts,
         LeaveReleasesLock, LeaveEnds, DisconnectStarts, DisconnectEnds, UnregisterOrRaise,
         BroadcastNextUser, BroadcastEnds, BroadcastFails, ToUserEnds
  <1> QED
    BY <1>1, <1>2, <1>3, <1>4

LEMMA RegistryStep ==
  ASSUME RegistryInv, NEW t \in Tasks, Step(t)
  PROVE  Accepted' /\ RegistryConsistent'
  <1> USE DEF registry, rooms
  <1>1. TypeOK
    BY DEF RegistryInv
  <1>2. \/ UNCHANGED registry \/ DisconnectEnds(t)
    BY DEF Step, SendOne, TellJoined, TellContentLocks, LeaveIgnored, LeaveStarts,
           LeaveReleasesLock, LeaveEnds, DisconnectStarts, BroadcastSends, BroadcastNextUser,
           BroadcastEnds, BroadcastFails, ToUserSends, ToUserEnds
  <1>3. RegistryConsistent' /\ connection_users' \subseteq connection_users
    BY <1>2, RegistryDisconnect DEF RegistryInv, RegistryConsistent
  <1>4. serving' \subseteq serving
    BY DEF Step, SendOne, TellJoined, TellContentLocks, LeaveIgnored, LeaveStarts,
           LeaveReleasesLock, LeaveEnds, DisconnectStarts, DisconnectEnds, UnregisterOrRaise,
           BroadcastSends, BroadcastNextUser, BroadcastEnds, BroadcastFails, ToUserSends,
           ToUserEnds, Raise
  <1>5. \A k \in Contents : content_locks'[k] \in {content_locks[k], Free}
    <2>1. CASE LeaveReleasesLock(t)
      BY <1>1, <2>1 DEF LeaveReleasesLock, TypeOK
    <2>2. CASE ~LeaveReleasesLock(t)
      <3>1. content_locks' = content_locks
        BY <2>2 DEF Step, SendOne, TellJoined, TellContentLocks, LeaveIgnored, LeaveStarts,
               LeaveEnds, DisconnectStarts, DisconnectEnds, BroadcastSends, BroadcastNextUser,
               BroadcastEnds, BroadcastFails, ToUserSends, ToUserEnds
      <3> QED
        BY <3>1
    <2> QED
      BY <2>1, <2>2
  <1>6. Raise(t) \/ (\E d \in Conns : \E s : Send(t, d, s)) \/ UNCHANGED sock
    BY <1>1, StepSocket
  <1>7. Accepted'
    BY <1>1, <1>3, <1>4, <1>5, <1>6, NewStays DEF RegistryInv, Accepted
  <1> QED
    BY <1>3, <1>7

LEMMA RegistryEndpoint ==
  ASSUME RegistryInv, NEW c \in Conns, Endpoint(c) \/ Close(c)
  PROVE  Accepted' /\ RegistryConsistent'
  <1> USE DEF registry, rooms
  <1>1. CASE Connect(c)
    BY <1>1, RegistryConnect
  <1>2. CASE ~Connect(c)
    <2>1. TypeOK /\ c \in Tasks
      BY DEF RegistryInv, Tasks
    <2>2. UNCHANGED registry /\ serving' \subseteq serving
      BY <1>2 DEF Endpoint, Close, ReceiveDisconnect, ReceiveRefused, Request, Answer,
           JoinRequest, LeaveRequest, LockContent, UnlockContent, ForceUnlock, Raise
    <2>3. Raise(c) \/ UNCHANGED sock \/ sock' = [sock EXCEPT ![c] = "closed"]
      BY <1>2 DEF Endpoint, Close, ReceiveDisconnect, ReceiveRefused, Request, Answer,
           JoinRequest, LeaveRequest, LockContent, UnlockContent, ForceUnlock
    <2>4. \A k \in Contents : \/ content_locks'[k] \in {content_locks[k], Free}
                              \/ content_locks'[k].by = c /\ c \in connection_users
      <3>1. CASE \E k \in Contents : LockContent(c, k) \/ UnlockContent(c, k) \/ ForceUnlock(c, k)
        BY <2>1, <3>1 DEF LockContent, UnlockContent, ForceUnlock, TypeOK
      <3>2. CASE ~\E k \in Contents : LockContent(c, k) \/ UnlockContent(c, k) \/ ForceUnlock(c, k)
        <4>1. content_locks' = content_locks
          BY <1>2, <3>2 DEF Endpoint, Close, ReceiveDisconnect, ReceiveRefused, Request, Answer,
             JoinRequest, LeaveRequest
        <4> QED
          BY <4>1
      <3> QED
        BY <3>1, <3>2
    <2>5. \A d \in Conns : sock'[d] = "new" => sock[d] = "new"
      BY <2>1, <2>3, NewStays
    <2>6. Accepted'
      BY <2>2, <2>4, <2>5 DEF RegistryInv, Accepted
    <2> QED
      BY <2>2, <2>6 DEF RegistryInv, RegistryConsistent
  <1> QED
    BY <1>1, <1>2

LEMMA RegistryNext == RegistryInv /\ [Next]_vars => RegistryInv'
  <1> SUFFICES ASSUME RegistryInv, [Next]_vars PROVE RegistryInv'
    OBVIOUS
  <1>0. TypeOK'
    BY TypeNext DEF RegistryInv
  <1>1. CASE UNCHANGED vars
    BY <1>0, <1>1 DEF RegistryInv, Accepted, RegistryConsistent, vars, registry
  <1>2. ASSUME NEW n \in Notifiers, NEW p \in Projects, NotifyCalendarChange(n, p)
        PROVE  RegistryInv'
    BY <1>0, <1>2 DEF NotifyCalendarChange, RegistryInv, Accepted, RegistryConsistent, registry
  <1> QED
    BY <1>0, <1>1, <1>2, RegistryStep, RegistryEndpoint DEF Next, RegistryInv

(* Every user's list holds exactly the user's registered connections, each once. *)
THEOREM RegistrySafe == Spec => []RegistryConsistent
  <1>1. RegistryInv => RegistryConsistent
    BY DEF RegistryInv
  <1> QED
    BY <1>1, RegistryInit, RegistryNext, PTL DEF Spec

-----------------------------------------------------------------------------
(***************************************************************************)
(* A project without viewers exists only while the task that took the last *)
(* one out runs to the end of its loop, through broadcasts to nobody.      *)
(***************************************************************************)
ToNobody(f, p) == IsBroadcast(f, p) /\ f.user = NoUser /\ f.first = {} /\ ~f.detached

Ending(p, t) ==
  /\ running = t
  /\ stack[t] # << >>
  /\ \/ IsLoop(stack[t][1]) /\ stack[t][1].project = p
     \/ ToNobody(stack[t][1], p) /\ Len(stack[t]) >= 2 /\ IsLoop(stack[t][2])

ViewedOrEnding ==
  \A p \in Projects :
    /\ p \notin project_ids => project_viewers[p] = {}
    /\ p \in project_ids /\ project_viewers[p] = {} => \E t \in Tasks : Ending(p, t)

Timestamped == project_ids \subseteq project_last_modified

ViewedInv == LeaveInv /\ ViewedOrEnding /\ Timestamped

(* Nothing is ending while the event loop is free, or in a task inside another call. *)
LEMMA NoneEnding ==
  ASSUME NEW t \in Tasks,
         \/ running = Nobody
         \/ /\ Turn(t) /\ stack[t] # << >> /\ ~IsLoop(stack[t][1])
            /\ stack[t][1].at # "broadcast_to_project"
  PROVE  \A p \in Projects, s \in Tasks : ~Ending(p, s)
  BY DistinctAssumption DEF Ending, Turn, IsBroadcast, ToNobody

(* A step that takes nobody out of a project, when nothing is ending. *)
LEMMA ViewedKept ==
  ASSUME ViewedOrEnding, \A p \in Projects, s \in Tasks : ~Ending(p, s),
         \A p \in Projects :
           \/ (p \in project_ids' <=> p \in project_ids) /\ project_viewers'[p] = project_viewers[p]
           \/ p \in project_ids' /\ project_viewers'[p] # {}
  PROVE  ViewedOrEnding'
  BY DEF ViewedOrEnding

LEMMA ViewedInit == Init => ViewedInv
  <1> SUFFICES ASSUME Init PROVE ViewedOrEnding /\ Timestamped
    BY LeaveInvInit DEF ViewedInv
  <1> QED
    BY DEF Init, ViewedOrEnding, Timestamped

(* The steps that do not go on with a call. *)
LEMMA ViewedEndpoint ==
  ASSUME ViewedInv,
         \/ \E c \in Conns : Endpoint(c) \/ Close(c)
         \/ \E n \in Notifiers, p \in Projects : NotifyCalendarChange(n, p)
  PROVE  ViewedOrEnding' /\ Timestamped'
  <1> USE DEF registry, rooms
  <1>1. ASSUME NEW c \in Conns, Endpoint(c) \/ Close(c)
        PROVE  ViewedOrEnding' /\ Timestamped'
    <2>1. c \in Tasks /\ \A p \in Projects, s \in Tasks : ~Ending(p, s)
      <3>1. c \in Tasks /\ running = Nobody
        BY <1>1 DEF Tasks, Endpoint, Request, Connect, Close, ReceiveDisconnect, ReceiveRefused,
             Answer, JoinRequest, LeaveRequest, LockContent, UnlockContent, ForceUnlock, Receive
      <3> QED
        BY <3>1, NoneEnding
    <2>2. CASE \E p \in Projects : JoinRequest(c, p)
      <3>1. PICK p \in Projects : JoinRequest(c, p)
        BY <2>2
      <3>2. /\ project_ids' = project_ids \cup {p}
            /\ project_last_modified' = IF p \in project_ids THEN project_last_modified
                                        ELSE project_last_modified \cup {p}
            /\ project_viewers' = [project_viewers EXCEPT ![p] = @ \cup {UserOf[c]}]
        BY <3>1 DEF JoinRequest
      <3>3. project_viewers \in [Projects -> SUBSET Users]
        BY DEF ViewedInv, LeaveInv, TypeOK
      <3>4. ViewedOrEnding'
        BY <2>1, <3>2, <3>3, ViewedKept DEF ViewedInv
      <3>5. Timestamped'
        BY <3>2 DEF ViewedInv, Timestamped
      <3> QED
        BY <3>4, <3>5
    <2>3. CASE ~\E p \in Projects : JoinRequest(c, p)
      <3>1. UNCHANGED <<project_ids, project_viewers, project_last_modified>>
        BY <1>1, <2>3 DEF Endpoint, Request, Connect, Close, ReceiveDisconnect, ReceiveRefused,
             Answer, LeaveRequest, LockContent, UnlockContent, ForceUnlock
      <3> QED
        BY <2>1, <3>1, ViewedKept DEF ViewedInv, Timestamped
    <2> QED
      BY <2>2, <2>3
  <1>2. ASSUME NEW n \in Notifiers, NEW p \in Projects, NotifyCalendarChange(n, p)
        PROVE  ViewedOrEnding' /\ Timestamped'
    <2>1. n \in Tasks /\ running = Nobody
      BY <1>2 DEF NotifyCalendarChange, Tasks
    <2>2. /\ UNCHANGED <<project_ids, project_viewers>>
          /\ project_last_modified' = project_last_modified \cup {p}
      BY <1>2 DEF NotifyCalendarChange
    <2> QED
      BY <2>1, <2>2, NoneEnding, ViewedKept DEF ViewedInv, Timestamped
  <1> QED
    BY <1>1, <1>2

(* A call other than a loop over locks and a broadcast. *)
LEMMA ViewedCalls ==
  ASSUME ViewedInv, NEW t \in Tasks,
         \/ SendOne(t) \/ TellJoined(t) \/ TellContentLocks(t) \/ LeaveIgnored(t)
         \/ DisconnectStarts(t) \/ DisconnectEnds(t) \/ ToUserSends(t) \/ ToUserEnds(t)
  PROVE  ViewedOrEnding' /\ Timestamped'
  <1> USE DEF registry, rooms
  <1>1. /\ stack[t] # << >> /\ Turn(t)
        /\ Head(stack[t]).at \in {"send_message", "joined", "tell_locks", "leave_project",
                                  "disconnect", "unregister", "broadcast_to_user"}
    BY DEF SendOne, TellJoined, TellContentLocks, LeaveIgnored, DisconnectStarts, DisconnectEnds,
           ToUserSends, ToUserEnds, At
  <1>2. Head(stack[t]) = stack[t][1]
    BY <1>1, StepStack DEF ViewedInv, Top
  <1>3. \A p \in Projects, s \in Tasks : ~Ending(p, s)
    BY <1>1, <1>2, NoneEnding DEF IsLoop
  <1>4. UNCHANGED <<project_ids, project_viewers, project_last_modified>>
    BY DEF SendOne, TellJoined, TellContentLocks, LeaveIgnored, DisconnectStarts, DisconnectEnds,
           ToUserSends, ToUserEnds
  <1> QED
    BY <1>3, <1>4, ViewedKept DEF ViewedInv, Timestamped

(* leave_project takes a user out: its own task is then in the loop. *)
LEMMA ViewedLeaveStarts ==
  ASSUME ViewedInv, NEW t \in Tasks, LeaveStarts(t)
  PROVE  ViewedOrEnding' /\ Timestamped'
  <1> USE DEF registry, rooms
  <1>1. stack[t] # << >> /\ Turn(t) /\ Top(t).at = "leave_project"
    BY DEF LeaveStarts, At, Top
  <1>2. /\ TypeOK /\ Top(t) \in Frame /\ Top(t) = stack[t][1] /\ Rest(t) \in Seq(Frame)
        /\ Top(t).conn \in Conns /\ Top(t).project \in Projects
    BY <1>1, StepStack, FrameFields DEF ViewedInv
  <1>p. PICK p \in Projects : p = Top(t).project
    BY <1>2
  <1>3. \A q \in Projects, s \in Tasks : ~Ending(q, s)
    BY <1>1, <1>2, NoneEnding DEF IsLoop
  <1>4. PICK ids \in SUBSET Contents :
          Continue(t, << ReleaseLocks(Top(t).conn, p, ids) >> \o Rest(t))
    BY <1>p DEF LeaveStarts, LocksOf
  <1> DEFINE g == ReleaseLocks(Top(t).conn, p, ids)
             s == << g >> \o Rest(t)
  <1>5. g \in Frame /\ IsLoop(g) /\ g.project = p
    BY <1>2, NewFrames DEF ReleaseLocks, IsLoop
  <1> HIDE DEF g
  <1>6. s # << >> /\ s[1] = g
    BY <1>2, <1>5, PushOne
  <1>7. stack'[t] = s /\ running' = t
    BY <1>2, <1>4, <1>6 DEF Continue, TypeOK, g
  <1>8. Ending(p, t)'
    BY <1>5, <1>6, <1>7 DEF Ending
  <1>9. /\ UNCHANGED <<project_ids, project_last_modified>>
        /\ project_viewers' = [project_viewers EXCEPT ![p] = @ \ {UserOf[Top(t).conn]}]
    BY <1>p DEF LeaveStarts, TakeOut
  <1> HIDE DEF s
  <1>10. \A q \in Projects \ {p} : project_viewers'[q] = project_viewers[q]
    BY <1>2, <1>9 DEF TypeOK
  <1>11. project_viewers[p] = {} => project_viewers'[p] = {}
    BY <1>2, <1>9 DEF TypeOK
  <1>12. ViewedOrEnding'
    BY <1>3, <1>8, <1>9, <1>10, <1>11 DEF ViewedInv, ViewedOrEnding
  <1> QED
    BY <1>9, <1>12 DEF ViewedInv, Timestamped

(* While the event loop is with task t, only t can be ending, and only the project of
   its innermost call. *)
LEMMA OnlyTop ==
  ASSUME ViewedInv, NEW t \in Tasks, Turn(t), stack[t] # << >>
  PROVE  \A q \in Projects, s \in Tasks :
           Ending(q, s) => s = t /\ q = Top(t).project /\ running = t
  BY StepStack, DistinctAssumption DEF ViewedInv, Ending, IsBroadcast, ToNobody, Turn

LEMMA ViewedLoop ==
  ASSUME ViewedInv, NEW t \in Tasks, LeaveReleasesLock(t)
  PROVE  ViewedOrEnding' /\ Timestamped'
  <1> USE DEF registry, rooms
  <1> DEFINE f == Top(t)
  <1>1. stack[t] # << >> /\ Turn(t) /\ f.at = "release_locks"
    BY DEF LeaveReleasesLock, At, Top
  <1>2. /\ TypeOK /\ f \in Frame /\ f = stack[t][1] /\ Rest(t) \in Seq(Frame)
        /\ f.conn \in Conns /\ f.project \in Projects
    BY <1>1, StepStack, FrameFields DEF ViewedInv
  <1>p. PICK p \in Projects : p = f.project
    BY <1>2
  <1>3. p \in project_ids
    BY <1>1, <1>2, <1>p DEF ViewedInv, LeaveInv, LoopsFindProject, LoopOnTop, IsLoop
  <1>4. PICK k \in f.content_ids_to_remove :
          LET rest == << [f EXCEPT !.content_ids_to_remove = @ \ {k}] >> \o Rest(t)
          IN IF content_locks[k] # Free
             THEN Continue(t, Broadcast(p, NoConn) \o rest)
             ELSE Continue(t, rest)
    BY <1>p DEF LeaveReleasesLock
  <1> DEFINE g == [f EXCEPT !.content_ids_to_remove = @ \ {k}]
             r == << g >> \o Rest(t)
             b == [at |-> "broadcast_to_project", project |-> p, skip |-> NoConn,
                   first |-> project_viewers[p], seen |-> {}, user |-> NoUser, next |-> 1,
                   detached |-> FALSE]
  <1>5. g \in Frame /\ IsLoop(g) /\ g.project = p
    BY <1>1, <1>2, <1>p DEF Frame, IsLoop
  <1>6. Broadcast(p, NoConn) = << b >> /\ b \in Frame
    <2>1. b \in Frame
      BY <1>2 DEF Frame, TypeOK
    <2> QED
      BY <1>3, <2>1 DEF Broadcast
  <1>7. project_viewers[p] = {} => ToNobody(b, p)
    BY DEF ToNobody, IsBroadcast
  <1>8. Continue(t, << b >> \o r) \/ Continue(t, r)
    BY <1>4, <1>6
  <1>9. UNCHANGED <<project_ids, project_viewers, project_last_modified>>
    BY DEF LeaveReleasesLock
  <1>10. \A q \in Projects \ {p}, s \in Tasks : ~Ending(q, s)
    BY <1>1, <1>p, OnlyTop
  <1> HIDE DEF g, b, f
  <1>11. r \in Seq(Frame) /\ r # << >> /\ r[1] = g
    BY <1>2, <1>5, PushOne
  <1> HIDE DEF r
  <1>12. /\ << b >> \o r # << >> /\ (<< b >> \o r)[1] = b
         /\ Len(<< b >> \o r) >= 2 /\ (<< b >> \o r)[2] = g
    BY <1>6, <1>11
  <1>13. ASSUME project_viewers[p] = {} PROVE Ending(p, t)'
    <2>1. CASE Continue(t, << b >> \o r)
      <3>1. stack'[t] = << b >> \o r /\ running' = t
        BY <1>2, <1>12, <2>1 DEF Continue, TypeOK
      <3> QED
        BY <1>5, <1>7, <1>12, <1>13, <3>1 DEF Ending
    <2>2. CASE Continue(t, r)
      <3>1. stack'[t] = r /\ running' = t
        BY <1>2, <1>11, <2>2 DEF Continue, TypeOK
      <3> QED
        BY <1>5, <1>11, <3>1 DEF Ending
    <2> QED
      BY <1>8, <2>1, <2>2
  <1>14. ViewedOrEnding'
    BY <1>9, <1>10, <1>13 DEF ViewedInv, ViewedOrEnding
  <1> QED
    BY <1>9, <1>14 DEF ViewedInv, Timestamped

LEMMA ViewedLeaveEnds ==
  ASSUME ViewedInv, NEW t \in Tasks, LeaveEnds(t)
  PROVE  ViewedOrEnding' /\ Timestamped'
  <1> USE DEF registry, rooms
  <1> DEFINE p == Top(t).project
  <1>1. stack[t] # << >> /\ Turn(t) /\ Top(t).at = "release_locks"
    BY DEF LeaveEnds, At, Top
  <1>2. TypeOK /\ Top(t) = stack[t][1] /\ p \in Projects
    BY <1>1, StepStack, FrameFields DEF ViewedInv
  <1>3. p \in project_ids
    BY <1>1, <1>2 DEF ViewedInv, LeaveInv, LoopsFindProject, LoopOnTop, IsLoop
  <1>4. \A q \in Projects \ {p}, s \in Tasks : ~Ending(q, s)
    BY <1>1, OnlyTop
  <1>5. /\ project_viewers' = project_viewers
        /\ IF project_viewers[p] = {}
           THEN /\ project_ids' = project_ids \ {p}
                /\ project_last_modified' = project_last_modified \ {p}
           ELSE UNCHANGED <<project_ids, project_last_modified>>
    BY <1>3 DEF LeaveEnds, DeleteProject
  <1> HIDE DEF p
  <1> QED
    BY <1>4, <1>5 DEF ViewedInv, ViewedOrEnding, Timestamped

(* A broadcast to nobody neither sends nor fails: it ends in the loop it was made from. *)
LEMMA ViewedBroadcast ==
  ASSUME ViewedInv, NEW t \in Tasks,
         BroadcastSends(t) \/ BroadcastNextUser(t) \/ BroadcastEnds(t) \/ BroadcastFails(t)
  PROVE  ViewedOrEnding' /\ Timestamped'
  <1> USE DEF registry, rooms
  <1> DEFINE f == Top(t)
  <1>1. stack[t] # << >> /\ Turn(t) /\ f.at = "broadcast_to_project"
    BY DEF BroadcastSends, BroadcastNextUser, BroadcastEnds, BroadcastFails, At, Top
  <1>2. /\ TypeOK /\ f \in Frame /\ f = stack[t][1] /\ Rest(t) \in Seq(Frame) /\ f.project \in Projects
        /\ Shaped(Rest(t)) /\ stack[t] \in Seq(Frame)
        /\ f.next \in Nat \ {0}
    BY <1>1, StepStack, FrameFields DEF ViewedInv, TypeOK
  <1>p. PICK p \in Projects : p = f.project
    BY <1>2
  <1>3. UNCHANGED <<project_ids, project_viewers, project_last_modified>>
    BY DEF BroadcastSends, BroadcastNextUser, BroadcastEnds, BroadcastFails
  <1>4. \A q \in Projects \ {p}, s \in Tasks : ~Ending(q, s)
    BY <1>1, <1>p, OnlyTop
  <1>5. ASSUME p \in project_ids, project_viewers[p] = {} PROVE Ending(p, t)'
    <2>1. Ending(p, t)
      BY <1>1, <1>2, <1>5, OnlyTop DEF ViewedInv, ViewedOrEnding
    <2>2. /\ f.user = NoUser /\ f.first = {} /\ ~f.detached
          /\ Len(stack[t]) >= 2 /\ IsLoop(stack[t][2])
      BY <1>1, <1>2, <2>1 DEF Ending, IsLoop, ToNobody
    <2>3. ~MoreConns(f) /\ ~SizeChanged(f) /\ project_viewers[p] \ f.seen = {}
      <3>1. Len(Listed(f.user)) = 0
        BY <2>2 DEF Listed
      <3> QED
        BY <1>2, <1>p, <1>5, <2>2, <3>1 DEF MoreConns, SizeChanged
    <2>4. Continue(t, Rest(t))
      BY <1>p, <2>3 DEF BroadcastSends, BroadcastNextUser, BroadcastEnds, BroadcastFails
    <2>5. Rest(t) # << >> /\ Rest(t)[1] = stack[t][2]
      BY <1>1, <1>2, <2>2, TopAndRest
    <2>6. stack[t][2].project = p
      BY <1>1, <1>2, <1>p, <2>2 DEF ViewedInv, LeaveInv, StacksShaped, Shaped, IsBroadcast
    <2>7. stack'[t] = Rest(t) /\ running' = t
      BY <1>2, <2>4, <2>5 DEF Continue, TypeOK
    <2> QED
      BY <2>2, <2>5, <2>6, <2>7 DEF Ending
  <1>6. ViewedOrEnding'
    BY <1>3, <1>4, <1>5 DEF ViewedInv, ViewedOrEnding
  <1> QED
    BY <1>3, <1>6 DEF ViewedInv, Timestamped

LEMMA ViewedNext == ViewedInv /\ [Next]_vars => ViewedInv'
  <1> SUFFICES ASSUME ViewedInv, [Next]_vars PROVE ViewedInv'
    OBVIOUS
  <1>0. LeaveInv'
    BY LeaveInvNext DEF ViewedInv
  <1>1. CASE UNCHANGED vars
    BY <1>0, <1>1 DEF ViewedInv, ViewedOrEnding, Timestamped, Ending, vars, rooms
  <1>2. ASSUME NEW t \in Tasks, Step(t)
        PROVE  ViewedInv'
    BY <1>0, <1>2, ViewedCalls, ViewedLeaveStarts, ViewedLoop, ViewedLeaveEnds, ViewedBroadcast
       DEF Step, ViewedInv
  <1> QED
    BY <1>0, <1>1, <1>2, ViewedEndpoint DEF Next, ViewedInv

(* Whenever the event loop is free, the projects are the projects somebody views. *)
THEOREM ProjectsSafe == Spec => []ProjectsAreViewed
  <1>1. ViewedInv => ProjectsAreViewed
    BY DistinctAssumption
       DEF ViewedInv, LeaveInv, TypeOK, ViewedOrEnding, Timestamped, Ending, ProjectsAreViewed
  <1> QED
    BY <1>1, ViewedInit, ViewedNext, PTL DEF Spec
=============================================================================
