------------------------- MODULE CalendarManager -------------------------
(***************************************************************************)
(* The real-time collaboration server of the content calendar:             *)
(* CalendarConnectionManager and calendar_websocket_endpoint of            *)
(* src/src/api/content_calendar_websocket.py.                              *)
(*                                                                         *)
(* The manager is one object in one asyncio process.  Every WebSocket is   *)
(* served by a task of its own, and a REST request that edits the calendar *)
(* runs notify_calendar_change in yet another task.  No lock protects the  *)
(* manager: a task runs alone until it suspends, which it does only where  *)
(* it sends a message.  `running' is the task that holds the event loop,   *)
(* Nobody when every task is suspended, and stack[t] holds the calls that  *)
(* task t is inside of, innermost first, each at the point where it goes   *)
(* on.  A step of a task is the code between two such points; only a send  *)
(* lets another task in.                                                   *)
(*                                                                         *)
(* Message contents, user data and clock readings are left out.            *)
(***************************************************************************)
EXTENDS Naturals, FiniteSets, Sequences, SequencesExt

CONSTANTS
  Users,        \* the user ids a token can carry
  Conns,        \* WebSocket objects, each accepted at most once
  Projects,
  Contents,
  Notifiers,    \* tasks of REST requests that change the calendar
  UserOf,       \* the user whose token a connection carries
  Admins,       \* the users with is_superuser
  MaxRequests,  \* bound: client messages and REST calls handled in a behaviour
  NoUser, NoConn, NoProject, Free, Nobody

Tasks == Conns \cup Notifiers

ASSUME ConnAssumption ==
  /\ UserOf \in [Conns -> Users]
  /\ Admins \subseteq Users
  /\ MaxRequests \in Nat
  /\ IsFiniteSet(Users)
ASSUME DistinctAssumption ==
  /\ NoUser \notin Users
  /\ NoConn \notin Conns
  /\ NoProject \notin Projects
  /\ Nobody \notin Tasks \cup Users
  /\ Free \notin [by : Conns, project : Projects]
  /\ Conns \cap Notifiers = {}

VARIABLES
  sock,                  \* the transport of each connection
  serving,               \* connections whose endpoint task is in its receive loop
  active_connections,    \* user -> list of connections
  connection_users,      \* the keys of that map: the registered connections
  project_ids,           \* the keys of project_viewers
  project_viewers,       \* project -> set of users
  user_projects,         \* user -> set of projects
  connection_projects,   \* connection -> its current project
  project_last_modified, \* the keys of that map
  content_locks,         \* content -> lock
  stack,                 \* task -> the calls it is inside of
  running,               \* the task that holds the event loop
  requests               \* how many requests have been handled

registry == <<active_connections, connection_users>>
rooms    == <<project_ids, project_viewers, user_projects, connection_projects,
              project_last_modified>>
vars     == <<sock, serving, registry, rooms, content_locks, stack, running, requests>>

-----------------------------------------------------------------------------
(***************************************************************************)
(* A lock records the connection that took it last (the code stores that   *)
(* connection's user_id, its user_data and the time) and the project the   *)
(* connection was in.                                                      *)
(***************************************************************************)
Lock == [by : Conns, project : Projects]

Holder(k) == UserOf[content_locks[k].by]

(* Mutant of Joined: the arguments the wrong way round. *)
JoinedSwapped(c, p) == [at |-> "joined", conn |-> p, project |-> c]

(***************************************************************************)
(* The points at which a call can be suspended or about to go on.          *)
(***************************************************************************)
SendMessage(c)  == [at |-> "send_message", conn |-> c]
ToUser(u)       == [at |-> "broadcast_to_user", user |-> u, next |-> 1]
Joined(c, p)    == [at |-> "joined", conn |-> c, project |-> p]
TellLocks(c, p) == [at |-> "tell_locks", conn |-> c, project |-> p]
LeaveProject(c, p)        == [at |-> "leave_project", conn |-> c, project |-> p]
ReleaseLocks(c, p, ids)   == [at |-> "release_locks", conn |-> c, project |-> p,
                              content_ids_to_remove |-> ids]
DisconnectCall(c)         == [at |-> "disconnect", conn |-> c]
Unregister(c)             == [at |-> "unregister", conn |-> c]

(***************************************************************************)
(* A broadcast iterates over the live set project_viewers[p] (first is the *)
(* set when the iteration began, seen the users taken from it) and, for    *)
(* each user, over the live list of connections by index.  When the        *)
(* project's entry is deleted the iteration is left with a set that no     *)
(* longer belongs to the manager and is empty: detached.                   *)
(***************************************************************************)
Broadcast(p, skip) ==
  IF p \in project_ids
  THEN << [at |-> "broadcast_to_project", project |-> p, skip |-> skip,
           first |-> project_viewers[p], seen |-> {}, user |-> NoUser, next |-> 1,
           detached |-> FALSE] >>
  ELSE << >>

Frame ==
       [at : {"send_message", "disconnect", "unregister"}, conn : Conns]
  \cup [at : {"broadcast_to_user"}, user : Users, next : Nat \ {0}]
  \cup [at : {"joined", "tell_locks", "leave_project"}, conn : Conns, project : Projects]
  \cup [at : {"release_locks"}, conn : Conns, project : Projects,
        content_ids_to_remove : SUBSET Contents]
  \cup [at : {"broadcast_to_project"}, project : Projects, skip : Conns \cup {NoConn},
        first : SUBSET Users, seen : SUBSET Users, user : Users \cup {NoUser},
        next : Nat \ {0}, detached : BOOLEAN]

Init ==
  /\ sock = [c \in Conns |-> "new"]
  /\ serving = {}
  /\ active_connections = [u \in Users |-> << >>]
  /\ connection_users = {}
  /\ project_ids = {}
  /\ project_viewers = [p \in Projects |-> {}]
  /\ user_projects = [u \in Users |-> {}]
  /\ connection_projects = [c \in Conns |-> NoProject]
  /\ project_last_modified = {}
  /\ content_locks = [k \in Contents |-> Free]
  /\ stack = [t \in Tasks |-> << >>]
  /\ running = Nobody
  /\ requests = 0

-----------------------------------------------------------------------------
(***************************************************************************)
(* The event loop.                                                         *)
(***************************************************************************)
Turn(t) == running \in {Nobody, t}

(* Task t goes on with the calls in s, without suspending unless none is left. *)
Continue(t, s) ==
  /\ stack' = [stack EXCEPT ![t] = s]
  /\ running' = IF s = << >> THEN Nobody ELSE t

(* Task t suspends inside the calls in s. *)
Suspend(t, s) ==
  /\ stack' = [stack EXCEPT ![t] = s]
  /\ running' = Nobody

At(t, point) == Turn(t) /\ stack[t] # << >> /\ Head(stack[t]).at = point

(***************************************************************************)
(* An exception other than the ones the endpoint names: it unwinds every   *)
(* call of the task, none of which handles it (send_message guards the     *)
(* transport's send, not the disconnect in its own handler).  An endpoint  *)
(* ends by it, the ASGI server closing its socket; a REST request prints   *)
(* it and answers.                                                         *)
(***************************************************************************)
Raise(t) ==
  /\ Suspend(t, << >>)
  /\ serving' = serving \ {t}
  /\ sock' = IF t \in Conns /\ sock[t] = "open" THEN [sock EXCEPT ![t] = "closed"] ELSE sock

(* Mutant of Send: a message that cannot be sent is sent again. *)
SendRetries(t, c, rest) ==
  \/ sock[c] = "open" /\ Suspend(t, rest) /\ UNCHANGED sock
  \/ sock[c] # "open" /\ Suspend(t, << SendMessage(c) >> \o rest) /\ UNCHANGED sock

(***************************************************************************)
(* send_message(c): the transport takes the message and the task suspends, *)
(* or the send fails, at once or after the task was suspended, and the     *)
(* handler calls disconnect(c) in the sending task.                        *)
(***************************************************************************)
Send(t, c, rest) ==
  \/ /\ sock[c] = "open"
     /\ Suspend(t, rest)
     /\ UNCHANGED sock
  \/ /\ sock[c] # "open"
     /\ sock' = [sock EXCEPT ![c] = "failed"]
     /\ stack' = [stack EXCEPT ![t] = << DisconnectCall(c) >> \o rest]
     /\ running' \in {t, Nobody}

-----------------------------------------------------------------------------
(***************************************************************************)
(* The transport and the endpoint's own handling of it.                    *)
(***************************************************************************)

(* connect: the connection is accepted, registered, and sent its status. *)
Connect(c) ==
  /\ running = Nobody
  /\ sock[c] = "new"
  /\ sock' = [sock EXCEPT ![c] = "open"]
  /\ serving' = serving \cup {c}
  /\ active_connections' = [active_connections EXCEPT ![UserOf[c]] = Append(@, c)]
  /\ connection_users' = connection_users \cup {c}
  /\ Continue(c, << SendMessage(c) >>)
  /\ UNCHANGED <<rooms, content_locks, requests>>

(* The client closes the connection or the network loses it. *)
Close(c) ==
  /\ running = Nobody
  /\ sock[c] = "open"
  /\ sock' = [sock EXCEPT ![c] = "closed"]
  /\ UNCHANGED <<serving, registry, rooms, content_locks, stack, running, requests>>

(* receive_text raises WebSocketDisconnect and the endpoint cleans up. *)
ReceiveDisconnect(c) ==
  /\ running = Nobody
  /\ c \in serving /\ stack[c] = << >>
  /\ sock[c] \in {"closed", "failed"}
  /\ serving' = serving \ {c}
  /\ Continue(c, << DisconnectCall(c) >>)
  /\ UNCHANGED <<sock, registry, rooms, content_locks, requests>>

(* After a failed send, receive_text may instead refuse to be called, with a
   RuntimeError that the endpoint does not handle: it ends without cleaning up. *)
ReceiveRefused(c) ==
  /\ running = Nobody
  /\ c \in serving /\ stack[c] = << >>
  /\ sock[c] = "failed"
  /\ Raise(c)
  /\ UNCHANGED <<registry, rooms, content_locks, requests>>

(* A message of the client is taken from the receive loop.  Messages sent before
   the connection was closed are still received. *)
Receive(c) ==
  /\ running = Nobody
  /\ c \in serving /\ stack[c] = << >>
  /\ requests < MaxRequests
  /\ requests' = requests + 1

-----------------------------------------------------------------------------
(***************************************************************************)
(* The client's requests, each up to its first suspension.  A request that *)
(* its handler refuses changes nothing and is answered with an error on    *)
(* its own connection; a ping, or a start or a completion of an operation  *)
(* (module CalendarOperations), is answered in the same way.               *)
(***************************************************************************)
Answer(c) ==
  /\ Receive(c)
  /\ Continue(c, << SendMessage(c) >>)
  /\ UNCHANGED <<sock, serving, registry, rooms, content_locks>>

(* join_project, up to the confirmation it sends.  The connection's former
   project is overwritten, not left. *)
JoinRequest(c, p) ==
  /\ Receive(c)
  /\ c \in connection_users
  /\ project_ids' = project_ids \cup {p}
  /\ project_last_modified' = IF p \in project_ids
                              THEN project_last_modified
                              ELSE project_last_modified \cup {p}
  /\ project_viewers' = [project_viewers EXCEPT ![p] = @ \cup {UserOf[c]}]
  /\ user_projects' = [user_projects EXCEPT ![UserOf[c]] = @ \cup {p}]
  /\ connection_projects' = [connection_projects EXCEPT ![c] = p]
  /\ IF p \in project_last_modified'   \* the confirmation reads the time stamp
     THEN Continue(c, << SendMessage(c), Joined(c, p) >>) /\ UNCHANGED <<sock, serving>>
     ELSE Raise(c)
  /\ UNCHANGED <<registry, content_locks>>

(* leave_project, of whatever project the client names. *)
LeaveRequest(c, p) ==
  /\ Receive(c)
  /\ Continue(c, << LeaveProject(c, p) >>)
  /\ UNCHANGED <<sock, serving, registry, rooms, content_locks>>

(* Mutant of LockedByAnother: a lock is taken without a look at its holder. *)
NeverLocked(c, k) == FALSE

(* Two users exclude each other, two connections of a user do not. *)
LockedByAnother(c, k) == content_locks[k] # Free /\ Holder(k) # UserOf[c]

(* lock_content, granted. *)
LockContent(c, k) ==
  /\ Receive(c)
  /\ c \in connection_users
  /\ connection_projects[c] # NoProject
  /\ ~LockedByAnother(c, k)
  /\ content_locks' = [content_locks EXCEPT
                         ![k] = [by |-> c, project |-> connection_projects[c]]]
  /\ Continue(c, Broadcast(connection_projects[c], NoConn))
  /\ UNCHANGED <<sock, serving, registry, rooms>>

(* unlock_content, granted: the lock is the user's own. *)
UnlockContent(c, k) ==
  /\ Receive(c)
  /\ c \in connection_users
  /\ connection_projects[c] # NoProject
  /\ content_locks[k] # Free
  /\ Holder(k) = UserOf[c]
  /\ content_locks' = [content_locks EXCEPT ![k] = Free]
  /\ Continue(c, Broadcast(connection_projects[c], NoConn))
  /\ UNCHANGED <<sock, serving, registry, rooms>>

(* force_unlock_content, by an administrator in any project or in none. *)
ForceUnlock(c, k) ==
  /\ Receive(c)
  /\ UserOf[c] \in Admins
  /\ c \in connection_users
  /\ content_locks[k] # Free
  /\ content_locks' = [content_locks EXCEPT ![k] = Free]
  /\ Continue(c, Broadcast(content_locks[k].project, NoConn) \o << ToUser(Holder(k)) >>)
  /\ UNCHANGED <<sock, serving, registry, rooms>>

(* notify_calendar_change, called by a REST request: the time stamp is kept
   whether or not anybody views the project. *)
NotifyCalendarChange(n, p) ==
  /\ running = Nobody
  /\ stack[n] = << >>
  /\ requests < MaxRequests
  /\ requests' = requests + 1
  /\ project_last_modified' = project_last_modified \cup {p}
  /\ Continue(n, Broadcast(p, NoConn))
  /\ UNCHANGED <<sock, serving, registry, project_ids, project_viewers, user_projects,
                 connection_projects, content_locks>>

-----------------------------------------------------------------------------
(***************************************************************************)
(* The calls a task is inside of.                                          *)
(***************************************************************************)
Top(t)  == Head(stack[t])
Rest(t) == Tail(stack[t])

SendOne(t) ==
  /\ At(t, "send_message")
  /\ Send(t, Top(t).conn, Rest(t))
  /\ UNCHANGED <<serving, registry, rooms, content_locks, requests>>

(* join_project goes on: the others are told, then the newcomer is told the
   locks of the project, if it has any. *)
TellJoined(t) ==
  /\ At(t, "joined")
  /\ Continue(t, Broadcast(Top(t).project, Top(t).conn)
                   \o << TellLocks(Top(t).conn, Top(t).project) >> \o Rest(t))
  /\ UNCHANGED <<sock, serving, registry, rooms, content_locks, requests>>

TellContentLocks(t) ==
  /\ At(t, "tell_locks")
  /\ IF \E k \in Contents : /\ content_locks[k] # Free
                            /\ content_locks[k].project = Top(t).project
     THEN Continue(t, << SendMessage(Top(t).conn) >> \o Rest(t))
     ELSE Continue(t, Rest(t))
  /\ UNCHANGED <<sock, serving, registry, rooms, content_locks, requests>>

(* leave_project: an unregistered connection or an unknown project is ignored. *)
LeaveIgnored(t) ==
  /\ At(t, "leave_project")
  /\ \/ Top(t).conn \notin connection_users
     \/ Top(t).project \notin project_ids
  /\ Continue(t, Rest(t))
  /\ UNCHANGED <<sock, serving, registry, rooms, content_locks, requests>>

(* Mutant of TakeOut: the connection keeps its current project. *)
TakeOutUser(c, p) ==
  /\ project_viewers' = [project_viewers EXCEPT ![p] = @ \ {UserOf[c]}]
  /\ user_projects' = [user_projects EXCEPT ![UserOf[c]] = @ \ {p}]
  /\ UNCHANGED connection_projects

(* Otherwise the USER leaves the project, the CONNECTION loses its current
   project, and the locks to release are listed. *)
TakeOut(c, p) ==
  /\ project_viewers' = [project_viewers EXCEPT ![p] = @ \ {UserOf[c]}]
  /\ user_projects' = [user_projects EXCEPT ![UserOf[c]] = @ \ {p}]
  /\ connection_projects' = [connection_projects EXCEPT ![c] = NoProject]

(* Mutant of LocksOf: the comparison of the holder inverted. *)
LocksOfOthers(u, p) ==
  {k \in Contents : content_locks[k] # Free /\ content_locks[k].project = p /\ Holder(k) # u}

LocksOf(u, p) ==
  {k \in Contents : content_locks[k] # Free /\ content_locks[k].project = p /\ Holder(k) = u}

LeaveStarts(t) ==
  LET c == Top(t).conn
      p == Top(t).project
  IN /\ At(t, "leave_project")
     /\ c \in connection_users
     /\ p \in project_ids
     /\ TakeOut(c, p)
     /\ Continue(t, << ReleaseLocks(c, p, LocksOf(UserOf[c], p)) >> \o Rest(t))
     /\ UNCHANGED <<sock, serving, registry, project_ids, project_last_modified,
                    content_locks, requests>>

(* One round of the loop over content_ids_to_remove: the content is unlocked if
   it is still locked, by whomever, and the project is told. *)
LeaveReleasesLock(t) ==
  /\ At(t, "release_locks")
  /\ \E k \in Top(t).content_ids_to_remove :
       LET rest == << [Top(t) EXCEPT !.content_ids_to_remove = @ \ {k}] >> \o Rest(t)
       IN /\ content_locks' = [content_locks EXCEPT ![k] = Free]
          /\ IF content_locks[k] # Free
             THEN Continue(t, Broadcast(Top(t).project, NoConn) \o rest)
             ELSE Continue(t, rest)
  /\ UNCHANGED <<sock, serving, registry, rooms, requests>>

(* The iterations over the viewers of p go on over a set nobody can change. *)
Detach(s, p) ==
  [i \in DOMAIN s |-> IF s[i].at = "broadcast_to_project" /\ s[i].project = p
                      THEN [s[i] EXCEPT !.detached = TRUE]
                      ELSE s[i]]

(* Mutant of DeleteProject: only the time stamp is deleted. *)
DeleteTimestamp(t, p) ==
  /\ project_last_modified' = project_last_modified \ {p}
  /\ Continue(t, Rest(t))
  /\ UNCHANGED project_ids

DeleteProject(t, p) ==
  /\ project_ids' = project_ids \ {p}
  /\ project_last_modified' = project_last_modified \ {p}
  /\ stack' = [s \in Tasks |-> Detach(IF s = t THEN Rest(t) ELSE stack[s], p)]
  /\ running' = IF Rest(t) = << >> THEN Nobody ELSE t

(* The loop is over: a project without viewers is deleted, one with viewers is
   told who left.  Reading the viewers of a deleted project is a KeyError. *)
LeaveEnds(t) ==
  LET p == Top(t).project IN
  /\ At(t, "release_locks")
  /\ Top(t).content_ids_to_remove = {}
  /\ IF p \notin project_ids
     THEN Raise(t) /\ UNCHANGED <<project_ids, project_last_modified>>
     ELSE /\ UNCHANGED <<sock, serving>>
          /\ IF project_viewers[p] = {}
             THEN DeleteProject(t, p)
             ELSE /\ Continue(t, Broadcast(p, NoConn) \o Rest(t))
                  /\ UNCHANGED <<project_ids, project_last_modified>>
  /\ UNCHANGED <<registry, project_viewers, user_projects, connection_projects,
                 content_locks, requests>>

(* disconnect: a connection that is still registered leaves its project first. *)
DisconnectStarts(t) ==
  LET c == Top(t).conn
      p == connection_projects[c]
  IN /\ At(t, "disconnect")
     /\ IF c \notin connection_users
        THEN Continue(t, Rest(t))
        ELSE IF p = NoProject
             THEN Continue(t, << Unregister(c) >> \o Rest(t))
             ELSE Continue(t, << LeaveProject(c, p), Unregister(c) >> \o Rest(t))
     /\ UNCHANGED <<sock, serving, registry, rooms, content_locks, requests>>

(* Mutant of UnregisterOrRaise: the map of users keeps the connection. *)
KeepMapping(t, c) == Continue(t, Rest(t)) /\ UNCHANGED <<connection_users, sock, serving>>

(* del self.connection_users[c], which raises when another task has deleted it. *)
UnregisterOrRaise(t, c) ==
  /\ connection_users' = connection_users \ {c}
  /\ IF c \in connection_users
     THEN Continue(t, Rest(t)) /\ UNCHANGED <<sock, serving>>
     ELSE Raise(t)

(* Then it is taken from the user's list and from the map of users.  Another task
   may have done so meanwhile: list.remove raises, or else del does. *)
DisconnectEnds(t) ==
  LET c == Top(t).conn
      u == UserOf[c]
  IN /\ At(t, "unregister")
     /\ IF active_connections[u] = << >>
        THEN UNCHANGED active_connections /\ UnregisterOrRaise(t, c)
        ELSE IF c \in ToSet(active_connections[u])
        THEN /\ \E i \in DOMAIN active_connections[u] :
                  /\ active_connections[u][i] = c
                  /\ active_connections' = [active_connections EXCEPT ![u] = RemoveAt(@, i)]
             /\ UnregisterOrRaise(t, c)
        ELSE Raise(t) /\ UNCHANGED registry
     /\ UNCHANGED <<rooms, content_locks, requests>>

-----------------------------------------------------------------------------
(***************************************************************************)
(* broadcast_to_project.  The current user's list is walked by index, so a *)
(* connection removed from it before the index makes the walk skip one.    *)
(* (A list that was emptied and made anew during the walk is walked on by  *)
(* the model, left by the code: the model then sends more, never less.)    *)
(***************************************************************************)
Listed(u) == IF u = NoUser THEN << >> ELSE active_connections[u]

MoreConns(f) == f.next <= Len(Listed(f.user))

BroadcastSends(t) ==
  LET f == Top(t)
      c == Listed(f.user)[f.next]
      rest == << [f EXCEPT !.next = @ + 1] >> \o Rest(t)
  IN /\ At(t, "broadcast_to_project")
     /\ MoreConns(f)
     /\ IF c = f.skip
        THEN Continue(t, rest) /\ UNCHANGED sock
        ELSE Send(t, c, rest)
     /\ UNCHANGED <<serving, registry, rooms, content_locks, requests>>

(* Mutant of SizeChanged: the iteration takes no notice. *)
SizeIgnored(f) == FALSE

(* Python's set iterator refuses to go on, and to end, when the set has another
   size than at the start; a change that leaves the size alone goes unnoticed. *)
SizeChanged(f) == \/ f.detached
                  \/ Cardinality(project_viewers[f.project]) # Cardinality(f.first)

BroadcastNextUser(t) ==
  LET f == Top(t) IN
  /\ At(t, "broadcast_to_project")
  /\ ~MoreConns(f)
  /\ ~SizeChanged(f)
  /\ \E u \in project_viewers[f.project] \ f.seen :
       Continue(t, << [f EXCEPT !.user = u, !.seen = @ \cup {u}, !.next = 1] >> \o Rest(t))
  /\ UNCHANGED <<sock, serving, registry, rooms, content_locks, requests>>

BroadcastEnds(t) ==
  LET f == Top(t) IN
  /\ At(t, "broadcast_to_project")
  /\ ~MoreConns(f)
  /\ ~SizeChanged(f)
  /\ f.first \cap project_viewers[f.project] \subseteq f.seen
  /\ Continue(t, Rest(t))
  /\ UNCHANGED <<sock, serving, registry, rooms, content_locks, requests>>

(* RuntimeError: Set changed size during iteration. *)
BroadcastFails(t) ==
  /\ At(t, "broadcast_to_project")
  /\ ~MoreConns(Top(t))
  /\ SizeChanged(Top(t))
  /\ Raise(t)
  /\ UNCHANGED <<registry, rooms, content_locks, requests>>

(* broadcast_to_user. *)
ToUserSends(t) ==
  LET f == Top(t) IN
  /\ At(t, "broadcast_to_user")
  /\ f.next <= Len(active_connections[f.user])
  /\ Send(t, active_connections[f.user][f.next], << [f EXCEPT !.next = @ + 1] >> \o Rest(t))
  /\ UNCHANGED <<serving, registry, rooms, content_locks, requests>>

ToUserEnds(t) ==
  LET f == Top(t) IN
  /\ At(t, "broadcast_to_user")
  /\ f.next > Len(active_connections[f.user])
  /\ Continue(t, Rest(t))
  /\ UNCHANGED <<sock, serving, registry, rooms, content_locks, requests>>

-----------------------------------------------------------------------------
Request(c) ==
  \/ Answer(c)
  \/ \E p \in Projects : JoinRequest(c, p) \/ LeaveRequest(c, p)
  \/ \E k \in Contents : LockContent(c, k) \/ UnlockContent(c, k) \/ ForceUnlock(c, k)

(* A task goes on with a call it is inside of. *)
Step(t) ==
  \/ SendOne(t) \/ TellJoined(t) \/ TellContentLocks(t)
  \/ LeaveIgnored(t) \/ LeaveStarts(t) \/ LeaveReleasesLock(t) \/ LeaveEnds(t)
  \/ DisconnectStarts(t) \/ DisconnectEnds(t)
  \/ BroadcastSends(t) \/ BroadcastNextUser(t) \/ BroadcastEnds(t) \/ BroadcastFails(t)
  \/ ToUserSends(t) \/ ToUserEnds(t)

Endpoint(c) == Connect(c) \/ ReceiveDisconnect(c) \/ ReceiveRefused(c) \/ Request(c)

Next ==
  \/ \E c \in Conns : Endpoint(c) \/ Close(c)
  \/ \E n \in Notifiers, p \in Projects : NotifyCalendarChange(n, p)
  \/ \E t \in Tasks : Step(t)

Spec == Init /\ [][Next]_vars

(***************************************************************************)
(* asyncio's ready queue is first in, first out, and a send to a stalled   *)
(* client ends, the WebSocket server's own ping timeout failing it at the  *)
(* latest: every call that can go on does.  Nothing obliges a client to    *)
(* send, or to close.                                                      *)
(***************************************************************************)
FairSpec == Spec /\ \A t \in Tasks : SF_vars(Step(t))

-----------------------------------------------------------------------------
(***************************************************************************)
(* Properties.                                                             *)
(***************************************************************************)

(* Every map has the keys and the values the manager gives it. *)
TypeOK ==
  /\ sock \in [Conns -> {"new", "open", "closed", "failed"}]
  /\ serving \subseteq Conns
  /\ active_connections \in [Users -> Seq(Conns)]
  /\ connection_users \subseteq Conns
  /\ project_ids \subseteq Projects
  /\ project_viewers \in [Projects -> SUBSET Users]
  /\ user_projects \in [Users -> SUBSET Projects]
  /\ connection_projects \in [Conns -> Projects \cup {NoProject}]
  /\ project_last_modified \subseteq Projects
  /\ content_locks \in [Contents -> Lock \cup {Free}]
  /\ stack \in [Tasks -> Seq(Frame)]
  /\ running \in Tasks \cup {Nobody}
  /\ requests \in 0..MaxRequests

(* A user's list holds each of the user's registered connections once and nothing
   else, however many tasks disconnect the same connection at the same time: list
   and map change between the same two suspensions. *)
RegistryConsistent ==
  \A u \in Users : /\ IsInjective(active_connections[u])
                   /\ ToSet(active_connections[u]) = {c \in connection_users : UserOf[c] = u}

(* Whenever the event loop is free, the projects with an entry are the projects
   somebody views, and each of them has a time stamp for the next one to join: no
   project is left behind empty, although leave_project suspends between taking the
   last viewer out and deleting the project. *)
ProjectsAreViewed ==
  running = Nobody =>
    /\ project_ids = {p \in Projects : project_viewers[p] # {}}
    /\ project_ids \subseteq project_last_modified

(* leave_project comes back from the notifications of its loop to a project that
   still has an entry, so that reading its viewers is no KeyError, although another
   task may have deleted the project meanwhile: the broadcast fails first. *)
LeaveFindsItsProject ==
  \A t \in Tasks : stack[t] # << >> /\ Top(t).at = "release_locks"
                     => Top(t).project \in project_ids

(* The calls of every task come to an end: no endpoint is stuck in a broadcast that
   fails into a disconnect that broadcasts, and no message of its client waits
   for ever. *)
CallsEnd == \A t \in Tasks : stack[t] # << >> ~> stack[t] = << >>

(* No other connection of the user's was ever accepted. *)
Alone(c) == \A d \in Conns \ {c} : UserOf[d] = UserOf[c] => sock[d] = "new"

(* A connection that is its user's only one is in a project only as long as its user
   views it.  (Of two, the one that leaves takes the user out of the project the
   other still believes to be in.) *)
CurrentIsViewed ==
  \A c \in Conns : Alone(c) /\ connection_projects[c] # NoProject
                     => UserOf[c] \in project_viewers[connection_projects[c]]

Releasing(k) ==
  \E t \in Tasks : \E i \in DOMAIN stack[t] :
    /\ stack[t][i].at = "release_locks"
    /\ stack[t][i].conn = content_locks[k].by
    /\ stack[t][i].project = content_locks[k].project
    /\ k \in stack[t][i].content_ids_to_remove

(* Content locked over an open connection, its user's only one, is locked by a viewer
   of the project it was locked in, or is about to be unlocked by a call of
   leave_project: a client that stays can never leave a lock behind. *)
OpenHolderViews ==
  \A k \in Contents :
    LET l == content_locks[k] IN
    l # Free /\ sock[l.by] = "open" /\ Alone(l.by)
      => UserOf[l.by] \in project_viewers[l.project] \/ Releasing(k)

(* What each of the following states is not so: see the findings. *)

(* Leaving a project removes the leaving user's own locks. *)
LeaveRemovesOwnLocks ==
  [][\A t \in Tasks, k \in Contents :
       LeaveReleasesLock(t) /\ content_locks[k] # Free /\ content_locks'[k] = Free
         => Holder(k) = UserOf[Top(t).conn]]_vars

(* A connection whose endpoint has ended has been cleaned up once all is quiet. *)
EndedIsForgotten ==
  (\A t \in Tasks : stack[t] = << >>)
    => \A c \in connection_users : c \in serving

(* Who holds what, for the abstract lock service. *)
owner == [k \in Contents |-> IF content_locks[k] = Free THEN Nobody ELSE Holder(k)]

Locks == INSTANCE EditLocks WITH NoOwner <- Nobody

(* The manager is a lock service in which a lock passes from one user to another only
   by being released. *)
LockService == Locks!Spec
=============================================================================
