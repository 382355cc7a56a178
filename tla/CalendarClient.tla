-------------------------- MODULE CalendarClient --------------------------
(***************************************************************************)
(* The browser's side of the content calendar's real-time connection:      *)
(* CalendarWebSocketService of                                             *)
(* src/frontend/src/services/calendarWebSocketService.ts, one per tab.     *)
(*                                                                         *)
(* JavaScript runs one callback at a time.  `jobs' holds the continuations *)
(* of awaits that are ready; they run before the next event of a socket or *)
(* a timer, but after the rest of the page's own callback, which may call  *)
(* the service several times.  The handlers of a socket are bound to the   *)
(* service, so the events of a socket that was replaced reach it as well.  *)
(*                                                                         *)
(* Of the messages only those that change the server's idea of the         *)
(* connection's project are told apart.  The mock socket of development    *)
(* mode is left out.                                                       *)
(***************************************************************************)
EXTENDS Naturals, FiniteSets, Sequences

CONSTANTS
  Projects,
  NoProject, NoSocket,
  MaxReconnectAttempts,
  MaxSockets,  \* bound: sockets created
  MaxPending,  \* bound: messages in the queue
  MaxTimers,   \* bound: reconnect timers at a time
  MaxCalls     \* bound: calls of the page

Sockets == 1..MaxSockets

ASSUME ClientAssumption ==
  /\ NoProject \notin Projects
  /\ MaxSockets \in Nat /\ MaxPending \in Nat /\ MaxTimers \in Nat
  /\ MaxCalls \in Nat
  /\ MaxReconnectAttempts \in Nat
  /\ NoSocket \notin Sockets

VARIABLES
  sock,               \* the state of each WebSocket object
  told,               \* the project the server was last told over each of them
  socket,             \* this.socket
  isConnected, isConnecting,
  reconnectAttempts,
  currentProjectId,
  pendingMessages,
  heartbeat,          \* whether the interval is set
  timers,             \* reconnect timeouts that have not run
  promise,            \* the promise of the connect call that made each socket
  target,             \* the project to join when that promise is fulfilled
  jobs,               \* continuations ready to run
  hung,               \* a callback never returns: the tab is dead
  wanted,             \* history: the page used the service since it disconnected
  calm,               \* history: no disconnect and no connection timeout so far
  calls               \* how many calls the page has made

network == <<sock, told>>
flags   == <<isConnected, isConnecting, reconnectAttempts, heartbeat>>
history == <<wanted, calm>>
vars == <<network, socket, flags, currentProjectId, pendingMessages, timers, promise,
          target, jobs, hung, history, calls>>

-----------------------------------------------------------------------------
JoinMessage(p)  == [type |-> "join_project", project |-> p]
LeaveMessage(p) == [type |-> "leave_project", project |-> p]
OtherMessage    == [type |-> "other", project |-> NoProject]
Message == [type : {"join_project", "leave_project", "other"}, project : Projects \cup {NoProject}]

(* Continuations: connect after the token is read, joinProject after connect and
   after leaveProject. *)
TokenJob(p)     == [job |-> "token", project |-> p]
ConnectedJob(p) == [job |-> "connected", project |-> p]
LeftJob(p)      == [job |-> "left", project |-> p]
Job == [job : {"token", "connected", "left"}, project : Projects \cup {NoProject}]

IsOpen(s) == sock[s] \in {"open", "greeted"}
Live(s)   == sock[s] \in {"connecting", "open", "greeted"}

Init ==
  /\ sock = [s \in Sockets |-> "unused"]
  /\ told = [s \in Sockets |-> NoProject]
  /\ socket = NoSocket
  /\ isConnected = FALSE /\ isConnecting = FALSE
  /\ reconnectAttempts = 0
  /\ currentProjectId = NoProject
  /\ pendingMessages = << >>
  /\ heartbeat = FALSE
  /\ timers = 0
  /\ promise = [s \in Sockets |-> "none"]
  /\ target = [s \in Sockets |-> NoProject]
  /\ jobs = << >>
  /\ hung = FALSE
  /\ wanted = FALSE
  /\ calm = TRUE
  /\ calls = 0

-----------------------------------------------------------------------------
(***************************************************************************)
(* connect and sendMessage, called with the continuations rest to run      *)
(* before and more to run after the one they may add themselves, and what  *)
(* disconnect and handleClose have in common.                              *)
(***************************************************************************)

(* Mutant of Reset: the interval goes on. *)
ResetFlags == isConnected' = FALSE /\ isConnecting' = FALSE /\ UNCHANGED heartbeat

Reset == isConnected' = FALSE /\ isConnecting' = FALSE /\ heartbeat' = FALSE

(* Mutant of Connect: the guard looks at isConnected only. *)
ConnectAnyway(p, rest, more) ==
  IF isConnected
  THEN jobs' = rest \o more /\ UNCHANGED isConnecting
  ELSE jobs' = rest \o << TokenJob(p) >> \o more /\ isConnecting' = TRUE

Connect(p, rest, more) ==
  IF isConnected \/ isConnecting
  THEN jobs' = rest \o more /\ UNCHANGED isConnecting
  ELSE jobs' = rest \o << TokenJob(p) >> \o more /\ isConnecting' = TRUE

(* Mutant of After: the message is kept in place of the project it names. *)
AfterStored(p, m) == IF m.type = "join_project" THEN m
                     ELSE IF m.type = "leave_project" THEN NoProject ELSE p

(* What the server takes the connection's project to be after a message: leaving any
   project ends it. *)
After(p, m) == IF m.type = "join_project" THEN m.project
               ELSE IF m.type = "leave_project" THEN NoProject ELSE p

(* socket.send: a connecting socket throws, which sendMessage catches, a closing or
   closed one drops the message. *)
Transmit(m) == told' = IF IsOpen(socket) THEN [told EXCEPT ![socket] = After(@, m)] ELSE told

Post(m, rest, more) ==
  IF socket # NoSocket /\ isConnected
  THEN Transmit(m) /\ jobs' = rest \o more /\ UNCHANGED <<isConnecting, pendingMessages>>
  ELSE /\ Len(pendingMessages) < MaxPending
       /\ pendingMessages' = Append(pendingMessages, m)
       /\ Connect(NoProject, rest, more)
       /\ UNCHANGED told

(* joinProject once connected: a former project is left first, and awaited. *)
LeaveThenJoin(p, rest) ==
  IF currentProjectId \in {NoProject, p}
  THEN currentProjectId' = p /\ Post(JoinMessage(p), rest, << >>)
  ELSE /\ currentProjectId' = NoProject
       /\ Post(LeaveMessage(currentProjectId), rest, << LeftJob(p) >>)

-----------------------------------------------------------------------------
(***************************************************************************)
(* What the page calls.                                                    *)
(***************************************************************************)
Call == ~hung /\ calls < MaxCalls /\ calls' = calls + 1

CallConnect ==
  /\ Call
  /\ Connect(NoProject, jobs, << >>)
  /\ wanted' = TRUE
  /\ UNCHANGED <<network, socket, isConnected, reconnectAttempts, heartbeat, currentProjectId,
                 pendingMessages, timers, promise, target, hung, calm>>

(* While a connection is being made, joinProject gives up at once. *)
JoinProject(p) ==
  /\ Call
  /\ IF isConnected
     THEN LeaveThenJoin(p, jobs)
     ELSE Connect(p, jobs, << >>) /\ UNCHANGED <<currentProjectId, told, pendingMessages>>
  /\ wanted' = TRUE
  /\ UNCHANGED <<sock, socket, isConnected, reconnectAttempts, heartbeat, timers, promise,
                 target, hung, calm>>

(* The page leaves the project it is in, or, when it is closed, the one it was in. *)
LeaveProject(p) ==
  /\ Call
  /\ currentProjectId \in {NoProject, p}
  /\ currentProjectId' = NoProject
  /\ Post(LeaveMessage(p), jobs, << >>)
  /\ wanted' = TRUE
  /\ UNCHANGED <<sock, socket, isConnected, reconnectAttempts, heartbeat, timers, promise,
                 target, hung, calm>>

(* lockContent, unlockContent, startOperation and the like. *)
SendOther ==
  /\ Call
  /\ Post(OtherMessage, jobs, << >>)
  /\ wanted' = TRUE
  /\ UNCHANGED <<sock, socket, isConnected, reconnectAttempts, heartbeat, currentProjectId,
                 timers, promise, target, hung, calm>>

(* The project is left as by leaveProject, which may queue the message and start to
   connect; the flags are reset afterwards. *)
Disconnect ==
  /\ Call
  /\ socket # NoSocket
  /\ IF currentProjectId = NoProject
     THEN UNCHANGED <<told, jobs, pendingMessages>>
     ELSE IF isConnected
     THEN Transmit(LeaveMessage(currentProjectId)) /\ UNCHANGED <<jobs, pendingMessages>>
     ELSE /\ Len(pendingMessages) < MaxPending
          /\ pendingMessages' = Append(pendingMessages, LeaveMessage(currentProjectId))
          /\ jobs' = IF isConnecting THEN jobs ELSE Append(jobs, TokenJob(NoProject))
          /\ UNCHANGED told
  /\ sock' = [sock EXCEPT ![socket] = IF Live(socket) THEN "closing" ELSE @]
  /\ socket' = NoSocket
  /\ Reset
  /\ reconnectAttempts' = 0
  /\ currentProjectId' = NoProject
  /\ wanted' = FALSE
  /\ calm' = FALSE
  /\ UNCHANGED <<timers, promise, target, hung>>

-----------------------------------------------------------------------------
(***************************************************************************)
(* Continuations.                                                          *)
(***************************************************************************)
RunJob(name) == ~hung /\ jobs # << >> /\ Head(jobs).job = name

(* connect after the token was read: a socket is made, whatever became of the flags. *)
OpenSocket ==
  /\ RunJob("token")
  /\ \E s \in Sockets :
       /\ sock[s] = "unused" /\ \A r \in 1..(s - 1) : sock[r] # "unused"
       /\ sock' = [sock EXCEPT ![s] = "connecting"]
       /\ socket' = s
       /\ promise' = [promise EXCEPT ![s] = "pending"]
       /\ target' = [target EXCEPT ![s] = Head(jobs).project]
  /\ jobs' = Tail(jobs)
  /\ UNCHANGED <<told, flags, currentProjectId, pendingMessages, timers, hung, history, calls>>

(* There is no token: the user is not logged in. *)
NoToken ==
  /\ RunJob("token")
  /\ isConnecting' = FALSE
  /\ jobs' = Tail(jobs)
  /\ UNCHANGED <<network, socket, isConnected, reconnectAttempts, heartbeat, currentProjectId,
                 pendingMessages, timers, promise, target, hung, history, calls>>

JoinGoesOn ==
  /\ RunJob("connected") \/ RunJob("left")
  /\ IF RunJob("connected")
     THEN LeaveThenJoin(Head(jobs).project, Tail(jobs))
     ELSE /\ currentProjectId' = Head(jobs).project
          /\ Post(JoinMessage(Head(jobs).project), Tail(jobs), << >>)
  /\ UNCHANGED <<sock, socket, isConnected, reconnectAttempts, heartbeat, timers, promise,
                 target, hung, history, calls>>

-----------------------------------------------------------------------------
(***************************************************************************)
(* Events of sockets and timers, which wait for the continuations.         *)
(***************************************************************************)
Idle == ~hung /\ jobs = << >>

(* Mutant of Flush: one message is sent, not all. *)
FlushFirst ==
  /\ pendingMessages' = IF pendingMessages = << >> THEN << >> ELSE Tail(pendingMessages)
  /\ hung' = (socket = NoSocket /\ pendingMessages # << >>)
  /\ UNCHANGED told

(* The loop over the queue, run with isConnected.  Over an open socket the server is
   told everything, and the last message about a project counts.  When there is no
   socket, sendMessage queues each message again and the loop never ends. *)
Flush ==
  LET about == {i \in DOMAIN pendingMessages : pendingMessages[i].type # "other"} IN
  /\ IF socket # NoSocket /\ sock'[socket] \in {"open", "greeted"} /\ about # {}
     THEN \E i \in about :
            /\ \A j \in about : j <= i
            /\ told' = [told EXCEPT ![socket] = After(@, pendingMessages[i])]
     ELSE UNCHANGED told
  /\ pendingMessages' = IF socket = NoSocket THEN pendingMessages ELSE << >>
  /\ hung' = (socket = NoSocket /\ pendingMessages # << >>)

(* handleOpen, whichever socket it is that opened: the queue is sent over
   this.socket, which may be another or none. *)
SocketOpens(s) ==
  /\ Idle
  /\ sock[s] = "connecting"
  /\ sock' = [sock EXCEPT ![s] = "open"]
  /\ isConnected' = TRUE /\ isConnecting' = FALSE /\ heartbeat' = TRUE
  /\ reconnectAttempts' = 0
  /\ Flush
  /\ UNCHANGED <<socket, currentProjectId, timers, promise, target, jobs, history, calls>>

(* The sockets whose connect call is fulfilled by the next connection status. *)
Awaited == {s \in Sockets : promise[s] = "pending" /\ target[s] # NoProject}

(* handleMessage for the connection status: the handlers of all connect calls that
   have not seen one run, of the ones that timed out too. *)
StatusArrives(s) ==
  /\ Idle
  /\ sock[s] = "open"
  /\ sock' = [sock EXCEPT ![s] = "greeted"]
  /\ isConnecting' = (isConnecting /\ \A r \in Sockets : promise[r] = "none")
  /\ \E q \in [1..Cardinality(Awaited) -> Awaited] :
       /\ \A i, j \in DOMAIN q : i < j => q[i] < q[j]
       /\ jobs' = [i \in DOMAIN q |-> ConnectedJob(target[q[i]])]
  /\ promise' = [r \in Sockets |-> "none"]
  /\ UNCHANGED <<told, socket, isConnected, reconnectAttempts, heartbeat, currentProjectId,
                 pendingMessages, timers, target, hung, history, calls>>

(* Ten seconds have passed: connect answers false, its handler stays. *)
ConnectTimeout(s) ==
  /\ Idle
  /\ promise[s] = "pending"
  /\ promise' = [promise EXCEPT ![s] = "stale"]
  /\ isConnecting' = FALSE
  /\ calm' = FALSE
  /\ UNCHANGED <<network, socket, isConnected, reconnectAttempts, heartbeat, currentProjectId,
                 pendingMessages, timers, target, jobs, hung, wanted, calls>>

NormalClosure   == 1000
AbnormalClosure == 1006
CloseCodes == {NormalClosure, AbnormalClosure}

(* attemptReconnect: the attempts are counted when their timer runs. *)
Reconnects(code) == code # NormalClosure /\ reconnectAttempts < MaxReconnectAttempts

(* handleClose, whichever socket it is that closed.  An error event comes right
   before the close event of a connection that failed.  close() without an argument,
   the way the service calls it, ends with code 1005, or with 1006 when the socket
   was not open. *)
SocketCloses(s, code) ==
  /\ Idle
  /\ sock[s] \in {"connecting", "open", "greeted", "closing"}
  /\ sock[s] \in {"connecting", "closing"} => code # NormalClosure
  /\ sock' = [sock EXCEPT ![s] = "closed"]
  /\ Reset
  /\ IF Reconnects(code)
     THEN timers < MaxTimers /\ timers' = timers + 1
     ELSE UNCHANGED timers
  /\ UNCHANGED <<told, socket, reconnectAttempts, currentProjectId, pendingMessages, promise,
                 target, jobs, hung, history, calls>>

ReconnectTimer ==
  /\ Idle
  /\ timers > 0
  /\ timers' = timers - 1
  /\ reconnectAttempts' = reconnectAttempts + 1
  /\ Connect(NoProject, << >>, << >>)
  /\ UNCHANGED <<network, socket, isConnected, heartbeat, currentProjectId, pendingMessages,
                 promise, target, hung, history, calls>>

HeartbeatTimer ==
  /\ Idle
  /\ heartbeat /\ isConnected
  /\ Post(OtherMessage, << >>, << >>)
  /\ UNCHANGED <<sock, socket, isConnected, reconnectAttempts, heartbeat, currentProjectId,
                 timers, promise, target, hung, history, calls>>

-----------------------------------------------------------------------------
Page == CallConnect \/ SendOther \/ Disconnect \/ \E p \in Projects : JoinProject(p) \/ LeaveProject(p)

Continuation == OpenSocket \/ NoToken \/ JoinGoesOn

Event ==
  \/ ReconnectTimer \/ HeartbeatTimer
  \/ \E s \in Sockets : \/ SocketOpens(s) \/ StatusArrives(s) \/ ConnectTimeout(s)
                        \/ \E code \in CloseCodes : SocketCloses(s, code)

Next == Page \/ Continuation \/ Event

Spec == Init /\ [][Next]_vars

-----------------------------------------------------------------------------
(* Every field has the values the service gives it. *)
TypeOK ==
  /\ sock \in [Sockets -> {"unused", "connecting", "open", "greeted", "closing", "closed"}]
  /\ told \in [Sockets -> Projects \cup {NoProject}]
  /\ socket \in Sockets \cup {NoSocket}
  /\ isConnected \in BOOLEAN /\ isConnecting \in BOOLEAN /\ heartbeat \in BOOLEAN
  /\ reconnectAttempts \in Nat
  /\ currentProjectId \in Projects \cup {NoProject}
  /\ pendingMessages \in Seq(Message)
  /\ timers \in 0..MaxTimers
  /\ promise \in [Sockets -> {"none", "pending", "stale"}]
  /\ target \in [Sockets -> Projects \cup {NoProject}]
  /\ jobs \in Seq(Job)
  /\ hung \in BOOLEAN /\ wanted \in BOOLEAN /\ calm \in BOOLEAN
  /\ calls \in 0..MaxCalls

(* Until the page disconnects for the first time, and as long as every connect call
   is answered within its ten seconds, a tab has at most one live socket, it is
   this.socket, and isConnected and isConnecting say how it is. *)
OneSocket ==
  calm => /\ \A s \in Sockets : Live(s) => s = socket
          /\ isConnected <=> socket # NoSocket /\ IsOpen(socket)
          /\ socket # NoSocket /\ sock[socket] = "connecting" => isConnecting

(* Under the same conditions no callback loops for ever, and a message that waits in
   the queue waits for a connection that is not there. *)
QueueIsFlushed == calm => ~hung /\ (isConnected => pendingMessages = << >>)

(* The service sends its heartbeat exactly while it takes itself to be connected. *)
BeatsWhileConnected == heartbeat <=> isConnected

(* What the following two state is not so: see the findings. *)

(* After disconnect no socket is made until the page uses the service again. *)
ClosedStaysClosed ==
  [][\A s \in Sockets : ~wanted /\ ~wanted' /\ sock[s] = "unused" => sock'[s] = "unused"]_vars

(* A connection that is up has joined the project the client takes for its current
   one, at the latest when the client is idle. *)
CurrentProjectIsJoined ==
  calm /\ isConnected /\ Idle /\ currentProjectId # NoProject
    => told[socket] = currentProjectId
=============================================================================
