----------------------- MODULE CalendarClientProofs -----------------------
(***************************************************************************)
(* For every number of sockets, of timers and of calls: the fields of the  *)
(* client keep their types, the heartbeat goes with isConnected, and, as   *)
(* long as nothing was disconnected and no connect call timed out, a tab   *)
(* has one socket and no queue that waits for nothing.                     *)
(***************************************************************************)
EXTENDS CalendarClient, FiniteSetTheorems, TLAPS

AnyProject == Projects \cup {NoProject}

(* The messages and the continuations the service makes are of their kinds. *)
LEMMA Kinds ==
  ASSUME NEW p \in AnyProject
  PROVE  /\ JoinMessage(p) \in Message /\ LeaveMessage(p) \in Message
         /\ OtherMessage \in Message
         /\ TokenJob(p) \in Job /\ ConnectedJob(p) \in Job /\ LeftJob(p) \in Job
BY DEF AnyProject, Message, Job, JoinMessage, LeaveMessage, OtherMessage, TokenJob,
       ConnectedJob, LeftJob

(* After a message the server has some project in mind, or none. *)
LEMMA AfterType ==
  ASSUME NEW p \in AnyProject, NEW m \in Message
  PROVE  After(p, m) \in AnyProject
<1>1. m.project \in AnyProject
  BY DEF Message, AnyProject
<1>2. NoProject \in AnyProject
  BY DEF AnyProject
<1> QED
  BY <1>1, <1>2 DEF After

(* connect changes nothing but the continuations and isConnecting. *)
LEMMA ConnectType ==
  ASSUME TypeOK, NEW p \in AnyProject, NEW rest \in Seq(Job), NEW more \in Seq(Job),
         Connect(p, rest, more)
  PROVE  jobs' \in Seq(Job) /\ isConnecting' \in BOOLEAN
<1>1. << TokenJob(p) >> \in Seq(Job)
  BY Kinds
<1>2. rest \o more \in Seq(Job) /\ (rest \o << TokenJob(p) >>) \o more \in Seq(Job)
  BY <1>1
<1> QED
  BY <1>2 DEF Connect, TypeOK

(* sendMessage tells the server about a project, or queues and connects. *)
LEMMA PostType ==
  ASSUME TypeOK, NEW m \in Message, NEW rest \in Seq(Job), NEW more \in Seq(Job),
         Post(m, rest, more)
  PROVE  /\ jobs' \in Seq(Job) /\ isConnecting' \in BOOLEAN
         /\ told' \in [Sockets -> AnyProject]
         /\ pendingMessages' \in Seq(Message)
<1>1. CASE socket # NoSocket /\ isConnected
  <2>1. socket \in Sockets /\ told \in [Sockets -> AnyProject]
    BY <1>1 DEF TypeOK, AnyProject
  <2>2. After(told[socket], m) \in AnyProject
    BY <2>1, AfterType
  <2>3. told' \in [Sockets -> AnyProject]
    BY <1>1, <2>1, <2>2 DEF Post, Transmit
  <2>4. jobs' = rest \o more /\ UNCHANGED <<isConnecting, pendingMessages>>
    BY <1>1 DEF Post
  <2>5. jobs' \in Seq(Job)
    BY <2>4
  <2> QED
    BY <2>3, <2>4, <2>5 DEF TypeOK
<1>2. CASE ~(socket # NoSocket /\ isConnected)
  <2>1. Connect(NoProject, rest, more)
    BY <1>2 DEF Post
  <2>2. NoProject \in AnyProject
    BY DEF AnyProject
  <2>3. jobs' \in Seq(Job) /\ isConnecting' \in BOOLEAN
    BY <2>1, <2>2, ConnectType
  <2>4. pendingMessages' = Append(pendingMessages, m) /\ UNCHANGED told
    BY <1>2 DEF Post
  <2>5. pendingMessages' \in Seq(Message)
    BY <2>4 DEF TypeOK
  <2> QED
    BY <2>3, <2>4, <2>5 DEF TypeOK, AnyProject
<1> QED
  BY <1>1, <1>2

(* What joinProject does once it is connected. *)
LEMMA LeaveThenJoinType ==
  ASSUME TypeOK, NEW p \in AnyProject, NEW rest \in Seq(Job), LeaveThenJoin(p, rest)
  PROVE  /\ jobs' \in Seq(Job) /\ isConnecting' \in BOOLEAN
         /\ told' \in [Sockets -> AnyProject]
         /\ pendingMessages' \in Seq(Message)
         /\ currentProjectId' \in AnyProject
<1>1. << >> \in Seq(Job) /\ << LeftJob(p) >> \in Seq(Job)
  BY Kinds
<1>2. currentProjectId \in AnyProject /\ NoProject \in AnyProject
  BY DEF TypeOK, AnyProject
<1>3. JoinMessage(p) \in Message /\ LeaveMessage(currentProjectId) \in Message
  BY <1>2, Kinds
<1> QED
  BY <1>1, <1>2, <1>3, PostType DEF LeaveThenJoin

(* The continuations of the connect calls a connection status answers. *)
LEMMA AnsweredType ==
  ASSUME TypeOK, NEW q \in [1..Cardinality(Awaited) -> Awaited]
  PROVE  [i \in DOMAIN q |-> ConnectedJob(target[q[i]])] \in Seq(Job)
<1>1. IsFiniteSet(Sockets)
  BY FS_Interval, ClientAssumption DEF Sockets
<1>2. Cardinality(Awaited) \in Nat
  BY <1>1, FS_Subset, FS_CardinalityType DEF Awaited
<1>3. \A i \in DOMAIN q : ConnectedJob(target[q[i]]) \in Job
  <2> TAKE i \in DOMAIN q
  <2>1. target[q[i]] \in AnyProject
    BY DEF Awaited, TypeOK, AnyProject
  <2> QED
    BY <2>1, Kinds
<1> QED
  BY <1>2, <1>3

(* Every field has the values the service gives it, whatever the page calls and in
   whatever order the events of old and new sockets arrive. *)
THEOREM ClientTypeCorrect == Spec => []TypeOK
<1>1. Init => TypeOK
  <2> SUFFICES ASSUME Init PROVE TypeOK
    OBVIOUS
  <2>1. pendingMessages \in Seq(Message) /\ jobs \in Seq(Job)
    BY DEF Init
  <2>2. /\ sock \in [Sockets -> {"unused", "connecting", "open", "greeted", "closing", "closed"}]
        /\ told \in [Sockets -> Projects \cup {NoProject}]
        /\ promise \in [Sockets -> {"none", "pending", "stale"}]
        /\ target \in [Sockets -> Projects \cup {NoProject}]
    BY DEF Init
  <2>3. timers \in 0..MaxTimers /\ calls \in 0..MaxCalls /\ reconnectAttempts \in Nat
    BY ClientAssumption DEF Init
  <2> QED
    BY <2>1, <2>2, <2>3 DEF Init, TypeOK
<1>2. TypeOK /\ [Next]_vars => TypeOK'
  <2> SUFFICES ASSUME TypeOK, [Next]_vars PROVE TypeOK'
    OBVIOUS
  <2> USE ClientAssumption
  <2>0. /\ << >> \in Seq(Job) /\ jobs \in Seq(Job) /\ (jobs # << >> => Tail(jobs) \in Seq(Job))
        /\ NoProject \in AnyProject /\ currentProjectId \in AnyProject
        /\ \A p \in Projects : p \in AnyProject
    BY DEF TypeOK, AnyProject
  <2>head. jobs # << >> => Head(jobs).project \in AnyProject
    <3>1. jobs # << >> => Head(jobs) \in Job
      BY <2>0
    <3> QED
      BY <3>1 DEF Job, AnyProject
  <2>call. Call => calls' \in 0..MaxCalls
    BY DEF Call, TypeOK
  <2>1. CASE CallConnect
    <3>1. jobs' \in Seq(Job) /\ isConnecting' \in BOOLEAN
      BY <2>0, <2>1, ConnectType DEF CallConnect
    <3> QED
      BY <2>1, <2>call, <3>1 DEF CallConnect, TypeOK, network
  <2>2. ASSUME NEW p \in Projects, JoinProject(p) PROVE TypeOK'
    <3>1. /\ jobs' \in Seq(Job) /\ isConnecting' \in BOOLEAN
          /\ told' \in [Sockets -> AnyProject]
          /\ pendingMessages' \in Seq(Message)
          /\ currentProjectId' \in AnyProject
      <4>1. CASE isConnected
        BY <2>0, <2>2, <4>1, LeaveThenJoinType DEF JoinProject
      <4>2. CASE ~isConnected
        BY <2>0, <2>2, <4>2, ConnectType DEF JoinProject, TypeOK, AnyProject
      <4> QED
        BY <4>1, <4>2
    <3> QED
      BY <2>2, <2>call, <3>1 DEF JoinProject, TypeOK, AnyProject
  <2>3. ASSUME NEW p \in Projects, LeaveProject(p) PROVE TypeOK'
    <3>1. /\ jobs' \in Seq(Job) /\ isConnecting' \in BOOLEAN
          /\ told' \in [Sockets -> AnyProject]
          /\ pendingMessages' \in Seq(Message)
      BY <2>0, <2>3, Kinds, PostType DEF LeaveProject
    <3> QED
      BY <2>3, <2>call, <3>1 DEF LeaveProject, TypeOK, AnyProject
  <2>4. CASE SendOther
    <3>1. /\ jobs' \in Seq(Job) /\ isConnecting' \in BOOLEAN
          /\ told' \in [Sockets -> AnyProject]
          /\ pendingMessages' \in Seq(Message)
      BY <2>0, <2>4, Kinds, PostType DEF SendOther
    <3> QED
      BY <2>4, <2>call, <3>1 DEF SendOther, TypeOK, AnyProject
  <2>5. CASE Disconnect
    <3>1. LeaveMessage(currentProjectId) \in Message /\ TokenJob(NoProject) \in Job
      BY <2>0, Kinds
    <3>2. told' \in [Sockets -> AnyProject]
      <4>1. After(told[socket], LeaveMessage(currentProjectId)) = NoProject
        BY DEF After, LeaveMessage
      <4> QED
        BY <2>5, <4>1 DEF Disconnect, Transmit, TypeOK, AnyProject
    <3>3. jobs' \in Seq(Job) /\ pendingMessages' \in Seq(Message)
      <4>1. /\ pendingMessages' \in {pendingMessages,
                   Append(pendingMessages, LeaveMessage(currentProjectId))}
            /\ jobs' \in {jobs, Append(jobs, TokenJob(NoProject))}
        BY <2>5 DEF Disconnect
      <4>2. pendingMessages \in Seq(Message)
        BY DEF TypeOK
      <4>3. /\ Append(pendingMessages, LeaveMessage(currentProjectId)) \in Seq(Message)
            /\ Append(jobs, TokenJob(NoProject)) \in Seq(Job)
        BY <2>0, <3>1, <4>2
      <4> QED
        BY <2>0, <4>1, <4>2, <4>3
    <3>4. sock' \in [Sockets -> {"unused", "connecting", "open", "greeted", "closing", "closed"}]
      BY <2>5 DEF Disconnect, TypeOK
    <3> QED
      BY <2>5, <2>call, <3>2, <3>3, <3>4 DEF Disconnect, Reset, TypeOK, AnyProject
  <2>6. CASE OpenSocket
    BY <2>0, <2>head, <2>6 DEF OpenSocket, RunJob, TypeOK, AnyProject, flags, history
  <2>7. CASE NoToken
    BY <2>0, <2>7 DEF NoToken, RunJob, TypeOK, network, history
  <2>8. CASE JoinGoesOn
    <3>1. /\ jobs' \in Seq(Job) /\ isConnecting' \in BOOLEAN
          /\ told' \in [Sockets -> AnyProject]
          /\ pendingMessages' \in Seq(Message)
          /\ currentProjectId' \in AnyProject
      <4>1. CASE RunJob("connected")
        BY <2>0, <2>head, <2>8, <4>1, LeaveThenJoinType DEF JoinGoesOn, RunJob
      <4>2. CASE ~RunJob("connected")
        <5>1. jobs # << >>
          BY <2>8 DEF JoinGoesOn, RunJob
        <5>2. JoinMessage(Head(jobs).project) \in Message
          BY <2>head, <5>1, Kinds
        <5> QED
          BY <2>0, <2>head, <2>8, <4>2, <5>1, <5>2, PostType DEF JoinGoesOn
      <4> QED
        BY <4>1, <4>2
    <3> QED
      BY <2>8, <3>1 DEF JoinGoesOn, TypeOK, AnyProject, history
  <2>9. CASE ReconnectTimer
    <3>1. jobs' \in Seq(Job) /\ isConnecting' \in BOOLEAN
      BY <2>0, <2>9, ConnectType DEF ReconnectTimer
    <3> QED
      BY <2>9, <3>1 DEF ReconnectTimer, TypeOK, network, history
  <2>10. CASE HeartbeatTimer
    <3>1. /\ jobs' \in Seq(Job) /\ isConnecting' \in BOOLEAN
          /\ told' \in [Sockets -> AnyProject]
          /\ pendingMessages' \in Seq(Message)
      BY <2>0, <2>10, Kinds, PostType DEF HeartbeatTimer
    <3> QED
      BY <2>10, <3>1 DEF HeartbeatTimer, TypeOK, AnyProject, history
  <2>11. ASSUME NEW s \in Sockets, SocketOpens(s) PROVE TypeOK'
    <3>1. told' \in [Sockets -> AnyProject]
      <4>1. /\ told \in [Sockets -> AnyProject]
              /\ \A i \in DOMAIN pendingMessages : pendingMessages[i] \in Message
        BY DEF TypeOK, AnyProject
      <4>2. CASE UNCHANGED told
        BY <4>1, <4>2
      <4>3. CASE socket # NoSocket /\ \E i \in DOMAIN pendingMessages :
                   told' = [told EXCEPT ![socket] = After(@, pendingMessages[i])]
        <5>1. socket \in Sockets
          BY <4>3 DEF TypeOK
        <5>2. PICK i \in DOMAIN pendingMessages :
                told' = [told EXCEPT ![socket] = After(@, pendingMessages[i])]
          BY <4>3
        <5>3. After(told[socket], pendingMessages[i]) \in AnyProject
          BY <4>1, <5>1, AfterType
        <5> QED
          BY <4>1, <5>1, <5>2, <5>3
      <4> QED
        BY <2>11, <4>2, <4>3 DEF SocketOpens, Flush
    <3>2. pendingMessages' \in Seq(Message) /\ hung' \in BOOLEAN
      BY <2>11 DEF SocketOpens, Flush, TypeOK
    <3> QED
      BY <2>11, <3>1, <3>2 DEF SocketOpens, TypeOK, AnyProject, history
  <2>12. ASSUME NEW s \in Sockets, StatusArrives(s) PROVE TypeOK'
    <3>1. jobs' \in Seq(Job)
      BY <2>12, AnsweredType DEF StatusArrives
    <3> QED
      BY <2>12, <3>1 DEF StatusArrives, TypeOK, history
  <2>13. ASSUME NEW s \in Sockets, ConnectTimeout(s) PROVE TypeOK'
    BY <2>13 DEF ConnectTimeout, TypeOK, network
  <2>14. ASSUME NEW s \in Sockets, NEW code \in CloseCodes, SocketCloses(s, code)
         PROVE TypeOK'
    <3>1. timers' \in 0..MaxTimers
      BY <2>14 DEF SocketCloses, TypeOK
    <3> QED
      BY <2>14, <3>1 DEF SocketCloses, Reset, TypeOK, history
  <2>15. CASE UNCHANGED vars
    BY <2>15 DEF vars, network, flags, history, TypeOK
  <2> QED
    BY <2>1, <2>2, <2>3, <2>4, <2>5, <2>6, <2>7, <2>8, <2>9, <2>10, <2>11, <2>12,
       <2>13, <2>14, <2>15 DEF Next, Page, Continuation, Event
<1> QED
  BY <1>1, <1>2, PTL DEF Spec

(* The heartbeat interval is set by handleOpen and cleared by handleClose and
   disconnect, and nothing else changes isConnected. *)
THEOREM BeatsSafe == Spec => []BeatsWhileConnected
<1>1. Init => BeatsWhileConnected
  BY DEF Init, BeatsWhileConnected
<1>2. BeatsWhileConnected /\ [Next]_vars => BeatsWhileConnected'
  BY DEF BeatsWhileConnected, Next, Page, Continuation, Event, vars, flags, CallConnect,
         JoinProject, LeaveProject, SendOther, Disconnect, OpenSocket, NoToken, JoinGoesOn,
         ReconnectTimer, HeartbeatTimer, SocketOpens, StatusArrives, ConnectTimeout,
         SocketCloses, Reset
<1> QED
  BY <1>1, <1>2, PTL DEF Spec

-----------------------------------------------------------------------------
(***************************************************************************)
(* One socket.  The invariant needs the continuations: a connect call that *)
(* reads the token will make a socket whatever it finds, so there must be  *)
(* one of them at most, and no live socket while it waits.                 *)
(***************************************************************************)
Tokens(js) == {i \in DOMAIN js : js[i].job = "token"}

OneToken(js) == \A i, j \in Tokens(js) : i = j

NoneLive == \A s \in Sockets : ~Live(s)

TokenWaits(js) == Tokens(js) # {} => isConnecting /\ ~isConnected /\ NoneLive

NoneClosing == \A s \in Sockets : sock[s] # "closing"

SocketInv ==
  /\ OneSocket
  /\ QueueIsFlushed
  /\ calm => OneToken(jobs) /\ TokenWaits(jobs) /\ NoneClosing

(* Other continuations added at the end add no token. *)
LEMMA TokensOfConcat ==
  ASSUME NEW rest \in Seq(Job), NEW more \in Seq(Job), Tokens(more) = {}
  PROVE  Tokens(rest \o more) = Tokens(rest)
<1> DEFINE all == rest \o more
<1>1. all \in Seq(Job) /\ Len(all) = Len(rest) + Len(more)
  OBVIOUS
<1>2. \A i \in 1..Len(rest) : all[i] = rest[i]
  OBVIOUS
<1>3. \A i \in (Len(rest) + 1)..Len(all) : all[i] = more[i - Len(rest)]
                                           /\ i - Len(rest) \in 1..Len(more)
  OBVIOUS
<1>4. DOMAIN all = 1..Len(all) /\ DOMAIN rest = 1..Len(rest) /\ DOMAIN more = 1..Len(more)
  OBVIOUS
<1>5. \A i \in DOMAIN more : more[i].job # "token"
  BY DEF Tokens
<1> QED
  BY <1>1, <1>2, <1>3, <1>4, <1>5 DEF Tokens

(* A token added to continuations without one is the only one. *)
LEMMA TokensOfToken ==
  ASSUME NEW p \in AnyProject, NEW rest \in Seq(Job), Tokens(rest) = {}
  PROVE  OneToken(rest \o << TokenJob(p) >>)
<1> DEFINE all == rest \o << TokenJob(p) >>
<1>1. TokenJob(p) \in Job
  BY Kinds
<1>2. all \in Seq(Job) /\ Len(all) = Len(rest) + 1
  BY <1>1
<1>3. \A i \in 1..Len(rest) : all[i] = rest[i]
  BY <1>1
<1>4. \A i \in DOMAIN rest : rest[i].job # "token"
  BY DEF Tokens
<1>5. \A i \in Tokens(all) : i = Len(rest) + 1
  BY <1>2, <1>3, <1>4 DEF Tokens
<1> QED
  BY <1>5 DEF OneToken

(* What is left after the first continuation ran. *)
LEMMA TokensOfTail ==
  ASSUME NEW js \in Seq(Job), js # << >>, OneToken(js)
  PROVE  /\ OneToken(Tail(js))
         /\ Tokens(js) = {} => Tokens(Tail(js)) = {}
         /\ Head(js).job = "token" => Tokens(Tail(js)) = {} /\ Tokens(js) # {}
<1>1. \A i \in Tokens(Tail(js)) : i \in Nat /\ i >= 1 /\ i + 1 \in Tokens(js)
  BY DEF Tokens
<1>2. Head(js).job = "token" => 1 \in Tokens(js)
  BY DEF Tokens
<1> QED
  BY <1>1, <1>2 DEF OneToken

(* connect makes a token only where there is no connection, and none being made. *)
LEMMA ConnectOrderly ==
  ASSUME TypeOK, OneSocket, calm,
         NEW p \in AnyProject, NEW rest \in Seq(Job), NEW more \in Seq(Job),
         OneToken(rest), TokenWaits(rest), Tokens(more) = {},
         Connect(p, rest, more), UNCHANGED <<sock, isConnected>>
  PROVE  /\ OneToken(jobs') /\ TokenWaits(jobs)'
         /\ isConnecting => isConnecting'
<1>1. CASE isConnected \/ isConnecting
  <2>1. jobs' = rest \o more /\ isConnecting' = isConnecting
    BY <1>1 DEF Connect
  <2>2. Tokens(jobs') = Tokens(rest)
    BY <2>1, TokensOfConcat
  <2>3. OneToken(jobs')
    BY <2>2 DEF OneToken
  <2> QED
    BY <2>1, <2>2, <2>3 DEF TokenWaits, NoneLive, Live
<1>2. CASE ~(isConnected \/ isConnecting)
  <2>1. jobs' = (rest \o << TokenJob(p) >>) \o more /\ isConnecting'
    BY <1>2 DEF Connect
  <2>2. Tokens(rest) = {}
    BY <1>2 DEF TokenWaits
  <2> DEFINE queue == rest \o << TokenJob(p) >>
  <2>3. queue \in Seq(Job) /\ OneToken(queue)
    BY <2>2, Kinds, TokensOfToken
  <2>4. OneToken(jobs')
    <3> HIDE DEF queue
    <3>1. Tokens(queue \o more) = Tokens(queue)
      BY <2>3, TokensOfConcat
    <3>2. jobs' = queue \o more
      BY <2>1 DEF queue
    <3> QED
      BY <2>3, <3>1, <3>2 DEF OneToken
  <2>5. NoneLive
    BY <1>2, ClientAssumption DEF OneSocket, NoneLive, Live, IsOpen
  <2> QED
    BY <1>2, <2>1, <2>4, <2>5 DEF TokenWaits, NoneLive, Live
<1> QED
  BY <1>1, <1>2

(* What the page's calls, the continuations and the timers keep: they change neither
   the socket nor isConnected. *)
LEMMA ConnectKeeps ==
  ASSUME TypeOK, SocketInv, calm,
         NEW p \in AnyProject, NEW rest \in Seq(Job), NEW more \in Seq(Job),
         OneToken(rest), TokenWaits(rest), Tokens(more) = {},
         Connect(p, rest, more), isConnected => pendingMessages' = << >>,
         UNCHANGED <<sock, socket, isConnected, hung, calm>>
  PROVE  SocketInv'
<1>1. OneToken(jobs') /\ TokenWaits(jobs)' /\ (isConnecting => isConnecting')
  BY ConnectOrderly DEF SocketInv
<1>2. OneSocket'
  BY <1>1 DEF SocketInv, OneSocket, Live, IsOpen
<1>3. QueueIsFlushed'
  BY DEF SocketInv, QueueIsFlushed
<1>4. NoneClosing'
  BY DEF SocketInv, NoneClosing
<1> QED
  BY <1>1, <1>2, <1>3, <1>4 DEF SocketInv

(* The same of sendMessage, which queues a message only without a connection. *)
LEMMA PostKeeps ==
  ASSUME TypeOK, SocketInv, calm, NEW m \in Message,
         NEW rest \in Seq(Job), NEW more \in Seq(Job),
         OneToken(rest), TokenWaits(rest), Tokens(more) = {},
         Post(m, rest, more),
         UNCHANGED <<sock, socket, isConnected, hung, calm>>
  PROVE  SocketInv'
<1>1. CASE socket # NoSocket /\ isConnected
  <2>1. jobs' = rest \o more /\ UNCHANGED <<isConnecting, pendingMessages>>
    BY <1>1 DEF Post
  <2>2. Tokens(jobs') = Tokens(rest)
    BY <2>1, TokensOfConcat
  <2>3. OneToken(jobs') /\ TokenWaits(jobs)'
    BY <2>1, <2>2 DEF OneToken, TokenWaits, NoneLive, Live
  <2>4. OneSocket' /\ QueueIsFlushed' /\ NoneClosing'
    BY <2>1 DEF SocketInv, OneSocket, QueueIsFlushed, NoneClosing, Live, IsOpen
  <2> QED
    BY <2>3, <2>4 DEF SocketInv
<1>2. CASE ~(socket # NoSocket /\ isConnected)
  <2>1. Connect(NoProject, rest, more)
    BY <1>2 DEF Post
  <2>2. ~isConnected
    BY <1>2 DEF SocketInv, OneSocket
  <2>3. NoProject \in AnyProject
    BY DEF AnyProject
  <2> QED
    BY <2>1, <2>2, <2>3, ConnectKeeps
<1> QED
  BY <1>1, <1>2

(* Until the first disconnect and the first timeout of a connect call, whatever the
   page calls and whenever connections open, fail and are made again: one socket at
   most, flags that say how it is, a callback that returns, and no message left in
   the queue of a connection that is up. *)
THEOREM ClientSafe == Spec => [](OneSocket /\ QueueIsFlushed)
<1>1. Init => SocketInv
  BY ClientAssumption DEF Init, SocketInv, OneSocket, QueueIsFlushed, OneToken, TokenWaits, Tokens,
       NoneClosing, Live
<1>2. TypeOK /\ SocketInv /\ [Next]_vars => SocketInv'
  <2> SUFFICES ASSUME TypeOK, SocketInv, [Next]_vars, calm' PROVE SocketInv'
    BY DEF SocketInv, OneSocket, QueueIsFlushed
  <2> USE ClientAssumption
  <2>0. /\ << >> \in Seq(Job) /\ jobs \in Seq(Job) /\ (jobs # << >> => Tail(jobs) \in Seq(Job))
        /\ NoProject \in AnyProject /\ currentProjectId \in AnyProject
        /\ \A p \in Projects : p \in AnyProject
    BY DEF TypeOK, AnyProject
  <2>head. jobs # << >> => Head(jobs).project \in AnyProject
    <3>1. jobs # << >> => Head(jobs) \in Job
      BY <2>0
    <3> QED
      BY <3>1 DEF Job, AnyProject
  <2>none. Tokens(<< >>) = {} /\ OneToken(<< >>) /\ TokenWaits(<< >>)
    BY DEF Tokens, OneToken, TokenWaits
  <2>left. \A p \in AnyProject : << LeftJob(p) >> \in Seq(Job) /\ Tokens(<< LeftJob(p) >>) = {}
    <3> TAKE p \in AnyProject
    <3>1. << LeftJob(p) >> \in Seq(Job)
      BY Kinds
    <3>2. DOMAIN << LeftJob(p) >> = {1} /\ << LeftJob(p) >>[1] = LeftJob(p)
      OBVIOUS
    <3>3. LeftJob(p).job # "token"
      BY DEF LeftJob
    <3> QED
      BY <3>1, <3>2, <3>3 DEF Tokens
  <2>now. calm => OneToken(jobs) /\ TokenWaits(jobs) /\ NoneClosing
    BY DEF SocketInv
  <2>tail. calm /\ jobs # << >> => OneToken(Tail(jobs)) /\ TokenWaits(Tail(jobs))
    BY <2>0, <2>now, TokensOfTail DEF TokenWaits
  <2>join. ASSUME calm, NEW p \in AnyProject, NEW rest \in Seq(Job), OneToken(rest), TokenWaits(rest),
                  LeaveThenJoin(p, rest), UNCHANGED <<sock, socket, isConnected, hung, calm>>
           PROVE  SocketInv'
    <3>1. JoinMessage(p) \in Message /\ LeaveMessage(currentProjectId) \in Message
      BY <2>0, Kinds
    <3>2. CASE Post(JoinMessage(p), rest, << >>)
      BY <2>0, <2>none, <2>join, <3>1, <3>2, PostKeeps
    <3>3. CASE Post(LeaveMessage(currentProjectId), rest, << LeftJob(p) >>)
      BY <2>left, <2>join, <3>1, <3>3, PostKeeps
    <3> QED
      BY <2>join, <3>2, <3>3 DEF LeaveThenJoin
  <2>1. CASE CallConnect
    <3>1. calm /\ UNCHANGED <<sock, socket, isConnected, hung, calm, pendingMessages>>
      BY <2>1 DEF CallConnect, network
    <3>2. isConnected => pendingMessages' = << >>
      BY <3>1 DEF SocketInv, QueueIsFlushed
    <3> QED
      BY <2>0, <2>none, <2>now, <2>1, <3>1, <3>2, ConnectKeeps DEF CallConnect
  <2>2. ASSUME NEW p \in Projects, JoinProject(p) PROVE SocketInv'
    <3>1. calm /\ UNCHANGED <<sock, socket, isConnected, hung, calm>>
      BY <2>2 DEF JoinProject
    <3>2. CASE isConnected
      BY <2>0, <2>now, <2>2, <2>join, <3>1, <3>2 DEF JoinProject
    <3>3. CASE ~isConnected
      BY <2>0, <2>none, <2>now, <2>2, <3>1, <3>3, ConnectKeeps DEF JoinProject
    <3> QED
      BY <3>2, <3>3
  <2>3. ASSUME NEW p \in Projects, LeaveProject(p) PROVE SocketInv'
    BY <2>0, <2>none, <2>now, <2>3, Kinds, PostKeeps DEF LeaveProject
  <2>4. CASE SendOther
    BY <2>0, <2>none, <2>now, <2>4, Kinds, PostKeeps DEF SendOther
  <2>5. CASE Disconnect
    BY <2>5 DEF Disconnect
  <2>6. CASE OpenSocket
    <3>1. calm /\ jobs # << >> /\ Head(jobs).job = "token"
      BY <2>6 DEF OpenSocket, RunJob, history
    <3>2. /\ Tokens(Tail(jobs)) = {} /\ Tokens(jobs) # {}
          /\ isConnecting /\ ~isConnected /\ NoneLive
      BY <2>0, <2>now, <3>1, TokensOfTail DEF TokenWaits
    <3>3. PICK s \in Sockets :
            /\ sock' = [sock EXCEPT ![s] = "connecting"]
            /\ socket' = s
      BY <2>6 DEF OpenSocket
    <3>4. jobs' = Tail(jobs) /\ UNCHANGED <<isConnected, isConnecting, pendingMessages, hung, calm>>
      BY <2>6 DEF OpenSocket, flags, history
    <3>5. OneSocket'
      BY <3>2, <3>3, <3>4 DEF OneSocket, NoneLive, Live, IsOpen, TypeOK
    <3>6. NoneClosing' /\ QueueIsFlushed'
      BY <2>now, <3>1, <3>3, <3>4 DEF NoneClosing, QueueIsFlushed, SocketInv, TypeOK
    <3>7. OneToken(jobs') /\ TokenWaits(jobs)'
      BY <3>2, <3>4 DEF OneToken, TokenWaits
    <3> QED
      BY <3>5, <3>6, <3>7 DEF SocketInv
  <2>7. CASE NoToken
    <3>1. calm /\ jobs # << >> /\ Head(jobs).job = "token"
      BY <2>7 DEF NoToken, RunJob, history
    <3>2. Tokens(Tail(jobs)) = {} /\ ~isConnected /\ NoneLive
      BY <2>0, <2>now, <3>1, TokensOfTail DEF TokenWaits
    <3>3. /\ jobs' = Tail(jobs)
          /\ UNCHANGED <<sock, socket, isConnected, pendingMessages, hung, calm>>
      BY <2>7 DEF NoToken, network, history
    <3>4. OneSocket' /\ QueueIsFlushed' /\ NoneClosing'
      BY <2>now, <3>1, <3>2, <3>3
      DEF SocketInv, OneSocket, QueueIsFlushed, NoneClosing, NoneLive, Live, IsOpen, TypeOK
    <3>5. OneToken(jobs') /\ TokenWaits(jobs)'
      BY <3>2, <3>3 DEF OneToken, TokenWaits
    <3> QED
      BY <3>4, <3>5 DEF SocketInv
  <2>8. CASE JoinGoesOn
    <3>1. calm /\ jobs # << >> /\ UNCHANGED <<sock, socket, isConnected, hung, calm>>
      BY <2>8 DEF JoinGoesOn, RunJob, history
    <3>2. CASE RunJob("connected")
      BY <2>0, <2>head, <2>tail, <2>join, <2>8, <3>1, <3>2 DEF JoinGoesOn
    <3>3. CASE ~RunJob("connected")
      <4>1. JoinMessage(Head(jobs).project) \in Message
        BY <2>head, <3>1, Kinds
      <4> QED
        BY <2>0, <2>none, <2>tail, <2>8, <3>1, <3>3, <4>1, PostKeeps DEF JoinGoesOn
    <3> QED
      BY <3>2, <3>3
  <2>9. CASE ReconnectTimer
    <3>1. calm /\ UNCHANGED <<sock, socket, isConnected, hung, calm, pendingMessages>>
      BY <2>9 DEF ReconnectTimer, network, history
    <3>2. isConnected => pendingMessages' = << >>
      BY <3>1 DEF SocketInv, QueueIsFlushed
    <3> QED
      BY <2>0, <2>none, <2>9, <3>1, <3>2, ConnectKeeps DEF ReconnectTimer
  <2>10. CASE HeartbeatTimer
    <3>1. calm /\ UNCHANGED <<sock, socket, isConnected, hung, calm>>
      BY <2>10 DEF HeartbeatTimer, history
    <3> QED
      BY <2>0, <2>none, <2>10, <3>1, Kinds, PostKeeps DEF HeartbeatTimer
  <2>11. ASSUME NEW s \in Sockets, SocketOpens(s) PROVE SocketInv'
    <3>1. calm /\ jobs = << >> /\ UNCHANGED <<jobs, calm, socket>>
      BY <2>11 DEF SocketOpens, Idle, history
    <3>2. s = socket /\ sock' = [sock EXCEPT ![s] = "open"]
      BY <2>11, <3>1 DEF SocketOpens, SocketInv, OneSocket, Live
    <3>3. isConnected' /\ pendingMessages' = << >> /\ ~hung'
      BY <2>11, <3>2 DEF SocketOpens, Flush
    <3>4. OneSocket'
      BY <3>1, <3>2, <3>3 DEF SocketInv, OneSocket, Live, IsOpen, TypeOK
    <3>5. NoneClosing' /\ QueueIsFlushed'
      BY <2>now, <3>1, <3>2, <3>3 DEF NoneClosing, QueueIsFlushed, TypeOK
    <3>6. OneToken(jobs') /\ TokenWaits(jobs)'
      BY <2>none, <3>1 DEF TokenWaits
    <3> QED
      BY <3>4, <3>5, <3>6 DEF SocketInv
  <2>12. ASSUME NEW s \in Sockets, StatusArrives(s) PROVE SocketInv'
    <3>1. /\ calm /\ UNCHANGED <<calm, socket, isConnected, pendingMessages, hung>>
          /\ sock[s] = "open" /\ sock' = [sock EXCEPT ![s] = "greeted"]
      BY <2>12 DEF StatusArrives, history
    <3>2. s = socket
      BY <3>1 DEF SocketInv, OneSocket, Live
    <3>3. OneSocket' /\ QueueIsFlushed'
      BY <3>1, <3>2 DEF SocketInv, OneSocket, QueueIsFlushed, Live, IsOpen, TypeOK
    <3>4. NoneClosing'
      BY <2>now, <3>1 DEF NoneClosing, TypeOK
    <3>5. Tokens(jobs') = {}
      BY <2>12 DEF StatusArrives, Tokens, ConnectedJob
    <3> QED
      BY <3>3, <3>4, <3>5 DEF SocketInv, OneToken, TokenWaits
  <2>13. ASSUME NEW s \in Sockets, ConnectTimeout(s) PROVE SocketInv'
    BY <2>13 DEF ConnectTimeout
  <2>14. ASSUME NEW s \in Sockets, NEW code \in CloseCodes, SocketCloses(s, code)
         PROVE SocketInv'
    <3>1. /\ calm /\ jobs = << >> /\ UNCHANGED <<jobs, calm, socket, pendingMessages, hung>>
          /\ sock[s] \in {"connecting", "open", "greeted", "closing"}
          /\ sock' = [sock EXCEPT ![s] = "closed"]
      BY <2>14 DEF SocketCloses, Idle, history
    <3>2. ~isConnected'
      BY <2>14 DEF SocketCloses, Reset
    <3>3. s = socket
      BY <2>now, <3>1 DEF SocketInv, OneSocket, Live, NoneClosing
    <3>4. OneSocket' /\ QueueIsFlushed'
      BY <3>1, <3>2, <3>3 DEF SocketInv, OneSocket, QueueIsFlushed, Live, IsOpen, TypeOK
    <3>5. NoneClosing'
      BY <2>now, <3>1 DEF NoneClosing, TypeOK
    <3>6. OneToken(jobs') /\ TokenWaits(jobs)'
      BY <2>none, <3>1 DEF TokenWaits
    <3> QED
      BY <3>4, <3>5, <3>6 DEF SocketInv
  <2>15. CASE UNCHANGED vars
    BY <2>15 DEF vars, network, flags, history, SocketInv, OneSocket, QueueIsFlushed, OneToken,
                 TokenWaits, Tokens, NoneLive, NoneClosing, Live, IsOpen
  <2> QED
    BY <2>1, <2>2, <2>3, <2>4, <2>5, <2>6, <2>7, <2>8, <2>9, <2>10, <2>11, <2>12,
       <2>13, <2>14, <2>15 DEF Next, Page, Continuation, Event
<1>3. SocketInv => OneSocket /\ QueueIsFlushed
  BY DEF SocketInv
<1> QED
  BY <1>1, <1>2, <1>3, ClientTypeCorrect, PTL DEF Spec

(* While nothing was disconnected and no attempt timed out, no callback loops over the
   queue for ever and a connected client has nothing left in it. *)
THEOREM QueueSafe == Spec => []QueueIsFlushed
BY ClientSafe, PTL
=============================================================================
