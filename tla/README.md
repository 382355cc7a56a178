# Verification of the marketing platform's collaboration core

TLA+ modules, TLC instances and TLAPS proofs for the concurrent parts of the platform: the
servers behind the shared content calendar and the shared content editor, the clients that keep
each browser connected to them, the queues over which the agents are given their tasks, and the AI
client they generate content with. Paths below are those of the repository, under `src/`; the Python
package is itself called `src`, so its files are `src/src/...`.

Run everything in this directory:

    tlc -workers 2 -config CalendarTabs.cfg MCCalendarManager.tla
    tlapm CalendarManagerProofs.tla

## 1. The system

The platform is a FastAPI service with PostgreSQL, Redis and RabbitMQ beside it, a set of Python
agents that take tasks from queues, and a React front end that talks to it by REST and by two
WebSocket endpoints.

| Component | State | Operations | What makes it correct |
|---|---|---|---|
| Calendar collaboration server (`src/src/api/content_calendar_websocket.py`) | connections of each user, viewers of each project, current project of each connection, content locks, tracked operations | connect, disconnect, join, leave, lock, unlock, force unlock, start and complete an operation, notify a change | registry and membership agree; locks pass only by release; nobody is left behind; every call ends |
| Calendar collaboration client (`src/frontend/src/services/calendarWebSocketService.ts`) | one socket, flags, queue, timers, current project | connect, join, leave, send, reconnect | one socket; what the client believes joined is joined; a closed client stays closed |
| Content editing server (`src/src/api/websocket.py`) | rooms, shared content and version, comments, cursors | join, leave, edit, comment, presence | registries agree; content lives exactly as long as somebody is in the room; who edits a room is in it |
| Content editing client (`src/frontend/src/services/websocket.ts`) | socket, queue, timers | connect, disconnect, send, reconnect | one socket; nothing overtakes in the queue; a lost connection comes back |
| Messaging and agents (`src/src/core/messaging.py`, `src/src/agents/base_agent.py`, `runner.py`) | queues, deliveries, response queues | publish, consume, acknowledge, reject, request with timeout | a message is settled once and never lost; a request gets its own answer or a timeout |
| AI client (`src/src/agents/integrations/ai_integration.py`) | token counters, adaptive limit, history, cache | complete, retry, fall back | a known overshoot of the limits; every task ends |
| WebSocket bridge, rate limiter, circuit breaker, cache decorators, budget monitor, provider manager | see section 5 | never called | code that does not run |
| Security (`src/src/core/security.py`) | signing keys per process | sign, verify | rotation, the one hard operation, has no caller |
| Everything else | database rows | CRUD, HTTP calls, rendering | listed in `PROJECT.json` with the reason it is left out |

How they interact: a browser tab opens one WebSocket to the calendar server, joins a project and
locks content in it; a REST request that changes the calendar commits and then awaits
`notify_calendar_item_change`, which broadcasts through the same manager object. The content
pages open a second WebSocket to the editing server, join the room of a piece of content and edit it
there. Agents take tasks from RabbitMQ queues, one process per agent; one agent asks another through a
queue of its own for the answer; the content agent asks the AI providers for several variations at
once.

What is hard in it: the calendar server has no lock. Its manager is one object used by one asyncio
task per WebSocket and one per REST request, and each `await` of a send lets every other task in.
A failed send calls `disconnect` inside the sending task, which leaves a project, which broadcasts,
which may fail again: calls nest and interleave, over Python sets and lists that are changed while
they are iterated. No test opens more than two connections or makes a send fail. The
editing server is built the same way. Both clients bind handlers to a service object while sockets and
timers outlive the connection they were made for. The agents rely on the broker to give back what a
crash interrupts, and acknowledge after they answer. The AI client checks its limits before an await
and charges after it. The hazards, with their lines, are in `PROJECT.json`.

## 2. The modules and the code

### CalendarManager

| TLA+ | Code |
|---|---|
| `active_connections`, `connection_users`, `user_projects`, `connection_projects`, `content_locks` | the dictionaries of `CalendarConnectionManager.__init__` |
| `project_ids`, `project_viewers` | the keys and the values of `project_viewers` |
| `project_last_modified` | the keys of that dictionary; the time itself is left out |
| `sock` | the transport: `new`, `open`, `closed` by the client or by the server when the endpoint ended, `failed` after a send raised |
| `serving` | the connections whose endpoint is in its receive loop |
| `stack`, `running` | the coroutine stack of every task, and the task that has the event loop |
| `requests` | a bound for TLC, no part of the code |

A task is a connection's endpoint or a REST request (`Notifiers`). It runs alone until it suspends,
and it suspends in sends only: `Continue` keeps the event loop, `Suspend` gives it up, and `Turn`
lets nobody else in meanwhile. A step is the code between two suspensions or between two calls.

| Action | Code |
|---|---|
| `Connect`, `Close`, `ReceiveDisconnect`, `ReceiveRefused` | accept and register; the client goes away; `receive_text` raises `WebSocketDisconnect`, or, after a failed send, a `RuntimeError` nobody handles |
| `Answer`, `JoinRequest`, `LeaveRequest`, `LockContent`, `UnlockContent`, `ForceUnlock` | the branches of the receive loop with the handler they call, up to its first await |
| `NotifyCalendarChange` | `notify_calendar_change`, in a task of its own |
| `TellJoined`, `TellContentLocks` | the rest of `join_project` |
| `LeaveIgnored`, `LeaveStarts`, `LeaveReleasesLock`, `LeaveEnds` | `leave_project`: early return, removals and list of locks, one round of its loop, its end |
| `DisconnectStarts`, `DisconnectEnds` | `disconnect` before and after it leaves the project |
| `SendOne`, `BroadcastSends`, `BroadcastNextUser`, `BroadcastEnds`, `BroadcastFails`, `ToUserSends`, `ToUserEnds` | `send_message` and the two broadcasts |

Three facts about Python are part of the model because the behaviour hangs on them. A list iterator
walks by index, so a removal before the index skips an element (`BroadcastSends`). A set iterator
raises when the set's size differs from the size at the start, and does not notice a removal and an
addition that cancel out (`SizeChanged`; the elements it then yields are any not yet yielded). And
an entry that is deleted and made anew is another set: the iteration goes on over the old, empty one
(`Detach`). For the list of a user, which the code also deletes when empty, the model walks the new
list where the code would stop: it sends more, never less.

A send fails in two ways, at once (the task keeps running) or after a suspension; both are in
`Send`. A message the handler refuses changes nothing and is answered with one send: `Answer`
stands for all of these, for pings and for the two operation messages. Left out: a client message
that is no JSON object (it ends the endpoint like any exception, see `Raise`), a user deleted from
the database, and the token check, which happens before the connection exists for the manager
(section 5).

What the code leaves behind, and no property denies: a connection that joins a second project without
leaving the first keeps its user a viewer of the first one, and its locks there survive the connection
(the client of the repository leaves before it joins); a connection whose endpoint ended by
another exception than `WebSocketDisconnect` keeps everything (`CalendarEnded`).

### EditLocks

What the editors are promised: content is free or owned by one user, and changes hands only by
being free in between. `CalendarManager` instantiates it with `owner`, the user of the connection
that took the lock; `LockService` says that every behaviour of the manager is one of `EditLocks`.

### CalendarOperations

`start_operation` and `complete_operation` never suspend, so each is one step. Of the rest of the
manager they read which connections are registered and which have a project; these change freely
here, which covers all that `CalendarManager` does to them. The clock is monotone, `Window` stands
for the thirty seconds, and the two clock readings of one call are one. The list of operations is a
set, since no reader depends on its order. It is a module of its own because a clock would multiply
the states of `CalendarManager` without touching its properties.

### CalendarClient

The singleton `CalendarWebSocketService` of one browser tab.

| TLA+ | Code |
|---|---|
| `sock` | the `WebSocket` objects by the order of their creation: `connecting`, `open`, `greeted` (open, and its connection status arrived), `closing`, `closed` |
| `socket`, `isConnected`, `isConnecting`, `reconnectAttempts`, `currentProjectId`, `pendingMessages` | the fields of those names |
| `heartbeat` | whether `heartbeatInterval` is set |
| `timers` | the `setTimeout`s of `attemptReconnect` that have not run; nothing keeps their handles |
| `promise`, `target` | the handler and the timeout of the connect call that made each socket, and the project its `joinProject` waits to join |
| `jobs` | continuations of awaits that are ready (the microtask queue) |
| `told` | the project the server was last told over each socket |
| `hung`, `wanted`, `calm` | history: a callback loops for ever; the page used the service since it disconnected; nothing was disconnected and no connect call timed out so far |

| Action | Code |
|---|---|
| `CallConnect`, `JoinProject`, `LeaveProject`, `SendOther`, `Disconnect` | the public methods, up to their first await; `SendOther` stands for the lock and operation methods, which only send |
| `OpenSocket`, `NoToken` | `connect` after `getAuthToken` |
| `JoinGoesOn` | `joinProject` after `connect`, and after `leaveProject` |
| `SocketOpens`, `StatusArrives`, `SocketCloses` | `handleOpen`, `handleMessage` with the handlers `connect` added, `handleError` and `handleClose` |
| `ConnectTimeout`, `ReconnectTimer`, `HeartbeatTimer` | the three timers |

JavaScript runs one callback at a time, and the continuations it made ready before the next event: the
events wait until `jobs` is empty. The page's calls do not, since one callback of the page may make
several. The handlers are bound to the service and not to a socket, so every event takes any socket,
the replaced ones included. An error event is followed at once by the close event of the same
connection and is one step with it. `close()` without a code ends with 1005, and with 1006 before the
connection is up; only the server closes with 1000. Delays are left out: a timer may run at any
time after it was set. The page leaves the project it is in, or, once closed, the one it was in
(`ContentCalendarContainer.tsx`). What the server makes of `join_project` and `leave_project` is
`After`, the assignment of `connection_projects` in `CalendarManager`.

### AgentTasks and TaskRequests

One agent, its queue in RabbitMQ, and those who send to it (`BaseAgent`, `RabbitMQClient`, `runner.py`).

| TLA+ | Code |
|---|---|
| `declared`, `queue`, `linked`, `responses` | the broker: queues, the agent's connection, the response queue of each `send_task` |
| `agent`, `message` | where the agent's consuming thread is (`handle_task`, publishing, acknowledging), and what it was delivered |
| `outcome` | what `send_task` returned to the sender of each message |
| `accepted`, `settled`, `performed`, `replied` | history |
| `faults` | bound: crashes, broken connections, failed starts and sends |

| Action | Code |
|---|---|
| `SendTask`, `SendFails` | `send_task` and `publish_direct`: to a queue nobody declared the broker drops the message without a word; a send whose connection breaks may have arrived |
| `ReceiveAnswer`, `RequestTimeout`, `LateAnswer` | the response loop of `send_task`; its consuming thread outlives the request and takes late answers for nobody |
| `Start`, `StartFails` | `BaseAgent.start` |
| `Deliver`, `Handle`, `HandleShutdown`, `PublishAnswer`, `PublishFails`, `Acknowledge` | the callback of `consume` with `handle_task` |
| `ConsumerEnds` | `consume` returns after a lost connection |
| `LoseConnection`, `Crash` | the network; the end of the process |

The broker puts what was delivered and not acknowledged back in its place when the connection closes
(`Unlink`). Three things the code makes of this are in the model. The answer is published before the
task is acknowledged, so that a fault in between repeats the work (`RepeatsAreFaults` counts it). The
handler of a shutdown event closes the connection over which the event should then be acknowledged:
the event goes back to the queue, and stops every process that is started afterwards. And when
`consume` returns or fails, the runner's process sleeps on (`idle`), looks healthy to the container
runtime and is not started again. `TaskRequests` is what a sender is promised: each request is decided
once, by its own answer, its timeout or an error. Left out: `AsyncRabbitMQClient`, which nobody uses;
`broadcast_event`, which publishes to an exchange no queue is bound to; a body that `json.loads`
refuses, which the callback would reject and requeue over a connection that is well, and be given
again, for ever (`messaging.py:112-118`): no sender of the repository publishes one; and what pika makes
of two threads that consume over one `BlockingConnection`, which it does not support.

### ContentClient

The singleton `WebSocketService` of one tab, as `App.tsx` and `useContentGeneration.ts` use it.

| TLA+ | Code |
|---|---|
| `sock`, `handled` | the browser's sockets, and those whose handlers are still bound |
| `socket`, `status`, `queue` | `this.socket`, `this.status`, `this.messageQueue`, with messages numbered as they are given to `send` |
| `timer`, `ping`, `beats` | `reconnectTimer`, `pingInterval`, and the intervals that run in the browser whatever the field says |
| `signedIn`, `token` | `isAuthenticated`; whether `localStorage` has an item `token` |
| `sent`, `made`, `stopped`, `orphans`, `calls` | history and bounds |

| Action | Code |
|---|---|
| `SignIn`, `SignOut`, `Mount` | the effects that call `connect` and `disconnect` |
| `UnloadCancelled` | `beforeunload` disconnects, and the user stays |
| `Send` | `send` with `queueMessage` and `scheduleReconnect` |
| `ReconnectTimer`, `Inactive`, `PingTick` | the timers |
| `SocketOpens`, `RemoteCloses`, `SocketCloses`, `SocketFails` | the events; an error event and the close event after it are one step |

The status `reconnecting` is followed by `connect` in the same handler and is never seen. Facts worth
knowing that the model shows or assumes: signing in writes `auth_token` (`authService.ts:32`) and
`connect` reads `token`, which nothing in the repository writes, so as committed every connect is
refused and the model leaves the item to the environment; `disconnect` during connecting removes the
handlers and closes nothing (`orphans`); every message sent while disconnected starts the reconnect
delay again; pings count as activity, so the inactivity check cannot notice a half-open connection. A
refusal by the server closes before the handshake (1006) and is retried for ever. Left out are two
catches: that of `send` (`websocket.ts:296-300`), which queues a message on an open socket when
`stringify` or `send` throws, as neither does for the plain objects the repository sends; and that of
`connect` (203-208: status error, another reconnect), which only a throwing constructor reaches.

### CollabRooms

`ConnectionManager` and the endpoint of the editing server.

| TLA+ | Code |
|---|---|
| `listed`, `mapped`, `current`, `rooms` | `active_connections`, `connection_users`, `connection_rooms`, `self.rooms` |
| `version`, `comments`, `shown` | `room_content`, `room_comments`, the users of the typing, selection and cursor maps |
| `born` | tells the set object of a room from that of the room made anew under its name |
| `sock`, `task`, `stack` | the transport, the endpoint's task, what it does after the send it is in |
| `users` of a broadcast on the stack | the users `broadcast_to_room` may be going through the connections of |
| `metrics` | the metrics task exists |

| Action | Code |
|---|---|
| `Connect` | `connect`; the first of a process starts the metrics task, whose log call raises `NameError` (`websocket.py:119`) |
| `Ping`, `JoinRoom`, `LeaveRoomMessage`, `UpdateUserStatus`, `ContentOperation`, `AddComment`, `ChangeComment`, `Malformed` | the branches of the receive loop with their handlers |
| `ClientDisconnected`, `CleanUp` | `WebSocketDisconnect` and `disconnect` |
| `SendFails` | a send raises, and `send_message` disconnects the recipient in the sender's task |
| `SendsEnd` | the sends to one user are over: the next user of the room, the rest of the handler, or the exception of a set that changed its size |

A send that succeeds changes nothing, so the model does not say which recipient a broadcast has
reached. It keeps the users whose connections the broadcast may be going through: all of the room when
it begins, the recipient's alone once a send failed, those of the room by then when it goes on to the
next. A user who leaves the room meanwhile is gone through to the end, as by the inner loop of the code
(`websocket.py:267-271`). Which user comes next, and how often, is left open, which gives the model
interleavings the code lacks.

A user with two tabs is not well served. `leave_room` takes the user out, and not the connection: when
one tab leaves, or is disconnected, the other keeps its room in `connection_rooms`, its operations and
comments still change the room as long as anybody is in it, the user's marks come back, and nothing is
sent to it any more (see section 3). If nobody else is in the room, it is deleted under the second
tab, whose messages are then ignored. An endpoint that dies of an exception, because a room changed
its size during a broadcast or because it was the first of the process, leaves its connection in
`active_connections` and its user in the room, until a send to it fails; `EndedIsUnregistered` speaks of
the endpoints that came to their end only. The analytics calls are
coroutines over a synchronous database session and never suspend. Left out: user data, payloads, the
order in which members receive versions, and `user_rooms` and `connection_start_times`, which are
only written.

### RoomDocuments

What the users of a room are promised about its document: the first to come loads it, the version
counts the operations on it one by one, and only the last to leave throws it away. `CollabRooms`
instantiates it with `rooms` and `version`; `DocumentService` says that every behaviour of the rooms is
one of `RoomDocuments`, so that neither a later `join_room` with a content nor a disconnection in the
middle of somebody else's broadcast resets a document that is being edited.

### Completions

`AIClient.get_text_completion` under the content agent's `_generate_content_with_ai`.

| TLA+ | Code |
|---|---|
| `configured` | the providers with an API key |
| `round`, `stage`, `attempt` | the two `gather`s of a task, and where each request is in its retry loop |
| `tokens`, `due`, `limit`, `history` | `TOKEN_COUNTERS`, whether its minute is over, the adapted limit, `REQUEST_HISTORY` |
| `cached` | the keys with an answer in Redis |

| Action | Code |
|---|---|
| `StartTask`, `Fallback`, `EndTask` | the rounds of a task; every request looks in the cache and is checked against the limit before the first one suspends |
| `ProviderAnswers`, `ProviderFails`, `Retry` | an attempt and the sleep after it |
| `MinutePasses`, `Expire`, `Forget` | time |

`get_text_completion` logs an answer with the name `kwargs`, which it does not have: the `NameError`
on line 394 is inside of the `try` and makes the attempt, already charged, recorded and cached, a
failure that is retried; the one on line 311 ends a request that found its answer in the cache. No
request ever returns a completion, and the task reports success with no variation (the templates
it could fall back to are used when `_generate_content_with_ai` raises, which it does not). The model
follows the code in this. The limit is lowered when failures pass 5% and is never raised: the branch
for it asks for no failure directly after one was recorded. `Expire` may trim more of the history
than five minutes justify. Left out: the counters of the hour and the day, which are never compared with a
limit, the cost, and two switches that are off.

## 3. What the runs show

| Run | Instance | Checks | States |
|---|---|---|---|
| `CalendarTabs` | 2 users, the first with 2 connections, 1 project, 1 content, 1 notifier, 3 requests | `TypeOK`, `RegistryConsistent`, `ProjectsAreViewed`, `LeaveFindsItsProject`, `CurrentIsViewed`, `OpenHolderViews` | 2.5 million |
| `CalendarSingle` | 2 users with 1 connection each, 2 projects, 2 contents, 4 requests, fairness | `CurrentIsViewed`, `OpenHolderViews`, `LockService`, `CallsEnd` | 390 thousand |
| `CalendarOperations` | 2 users, 3 connections, 1 content, 2 operation ids, window 2, clock to 4 | `TypeOK`, `OneUserOperates` | 83 thousand |
| `CalendarClient` | 2 projects, 3 sockets, 4 calls, 1 reconnect attempt, 2 queued messages, 2 timers | `TypeOK`, `OneSocket`, `QueueIsFlushed`, `BeatsWhileConnected` | 1.8 million |
| `AgentTasks` | 2 requests, 1 shutdown event, 3 faults, fairness | `TypeOK`, `NothingLost`, `SettledIsAnswered`, `RepeatsAreFaults`, `RequestService`, `TakenIsSettled` | 153 thousand |
| `ContentClient` | queue of 2, 3 calls, 4 messages, fairness | `TypeOK`, `OneSocket`, `QueueIsRecent`, `Recovers`, `OneBeat`, `Reconnects` | 37 thousand |
| `CollabRooms` | 2 users, the first with 2 connections, 2 rooms, 4 messages | `TypeOK`, `EndedIsUnregistered`, `RoomDataDies`, `OneTabIsIn`, `DocumentService` | 2.8 million |
| `Completions` | 2 variations, 1 provider, 2 models, 2 attempts, limit 3, 2 tokens a request, history of 3 | `TypeOK`, `Overshoot`, `StarvedStays`, `Starves`, `TaskEnds` | 33 thousand |
| `ClientClosed` | as `CalendarClient` | `ClosedStaysClosed`, violated | |
| `ClientRejoin` | as `CalendarClient` | `CurrentProjectIsJoined`, violated | |
| `CalendarOwnLocks` | 2 users with 1 connection each, 2 contents, 7 requests | `LeaveRemovesOwnLocks`, violated | |
| `CalendarEnded` | 2 users with 1 connection each, 4 requests | `EndedIsForgotten`, violated | |

The bounds. Two connections of one user are what the per-user list, the skipped elements and the
user-against-connection confusion need; a third connection, of another user, is what a broadcast
needs to be interleaved with. `MaxRequests` counts client messages and REST calls only: closings,
failed sends and disconnects are free, so that three requests already give two joins and a lock
with every pattern of failures around them. Two projects matter only where the former project of a
connection does, and four requests where two users compete for a lock
(`CalendarSingle`: two joins, two locks). `CurrentIsViewed` and `OpenHolderViews` are promises to
a user with one connection; `CalendarTabs` checks them again for such a user beside one who has two.
For the client, three sockets are a connection, its replacement and the replacement's, so that events of two old sockets meet a new one; four calls are
enough to connect, join, disconnect and connect again; `MaxReconnectAttempts` is a field of the
code (5 there), and one attempt reaches the limit. For the safety
properties, what lies beyond these bounds is covered by the proofs, which have none.

For the agents, two requests and a shutdown event give every order in the queue, and three faults let
one message be interrupted in delivery, after its answer and once more after the restart. In
`ContentClient` a queue of two overflows with three messages, and the fourth is sent over a connection
or queued behind; sockets and timers are not bounded otherwise, reconnects go on for ever. In
`CollabRooms` four messages are two joins, an edit and a leave, or three joins and an operation, with
failed sends in all of them. In `Completions` two variations pass the check together, with a limit that
admits one of them only if it were charged in time; two tokens a request and a limit of three make the
first lowering shut the provider out, and two attempts make a retry. Under the default models a
variation stays with its provider in both rounds, so that one provider shows what each does; tasks
follow each other without a bound.

Where the system may stop (no client sends any more, the bound is reached) the runs do not check
deadlock; that no task is stuck is `CallsEnd`. `CalendarOperations` and `Completions` never stop, and
check it.

Fairness.

* `CalendarManager`: strong fairness of the steps of each task and nothing of the clients. asyncio's
  ready queue is first in, first out, so a task that can go on does; a send to a stalled client ends,
  because the WebSocket server's ping timeout closes the transport. A task that can go on is kept
  from it while another one runs, and these turns recur, hence strong fairness and not weak.
* `AgentTasks`: the agent's thread runs, the timer of a waiting request fires, and a process that
  ended is started again (`restart: always` in `docker-compose.production.yml`). Nothing restarts a
  process that is idle, and `TakenIsSettled` says so.
* `ContentClient`: the reconnect timer fires. Every message sent while disconnected sets it anew, which
  is why the model's bound on messages matters: a page that sends more often than the delay would
  never reconnect. A closing socket closes. Of the connections tried over and over the server accepts
  one: strong fairness, since each of them can fail.
* `Completions`: the providers' clients have timeouts, sleeps end, and the agent goes on when its
  requests are over.

What the liveness runs show: a broadcast that fails into a disconnect that broadcasts again comes to
an end (`CallsEnd`); a message the queue took is settled through crashes and restarts, or the agent is
idle (`TakenIsSettled`); each request is decided (`RequestService`); a signed-in client is connected
again and again unless it was told to stop (`Reconnects`); retries and fallbacks end (`TaskEnds`); and
a provider whose limit fell below one request is never asked again (`Starves`), which is the price of a
limit that is only lowered. `StarvedStays` is the safety half of `Starves`: no step sends such a
provider a request, other than the retries of requests that were under way.

### Findings

* `CalendarOwnLocks`: `leave_project` lists the leaver's locks and deletes them later, across awaits,
  without looking again at who holds them: a lock that an administrator forced open meanwhile and that
  somebody else took is deleted.
* `CalendarEnded`: the endpoint cleans up after `WebSocketDisconnect` only. A failed send, or a set
  that changes during a broadcast, ends it by another exception: the connection stays registered, its
  user a viewer, its locks held, until some broadcast fails to reach it.
* `ClientClosed`: a disconnected client opens a socket nobody asked for, for one of three reasons: the
  close event of the socket it closed carries 1005 or 1006, which `handleClose` takes for a failure; a
  reconnect timer was running; a connect call was waiting for its token.
* `ClientRejoin`: after a reconnect nothing joins the current project again. The client says that it is
  connected and in the project; the server knows a new connection without one.

### What else TLC finds

The checked properties except some behaviours of the code by a condition that they name. Asked
without the condition, TLC finds each of these within seconds:

* **Two tabs take each other's locks.** In `CalendarManager`, under `CalendarTabs` with four requests:
  a content that stays locked keeps `content_locks[k].by`. `lock_content` refuses other users only, and
  the second tab of the holder, in the same project, locks the content as well, is told of success and
  takes the lock over.
  `src/tests/integration/test_calendar_websockets.py:340` expects a refusal of a second client with the
  same user's token. `LockService`, which speaks of users, sees a stutter.
* **One tab leaves for both.** In `CalendarManager`, `CurrentIsViewed` without `Alone` (eight steps);
  in `CollabRooms`, `OneTabIsIn` for every connection (six steps). `leave_project` and `leave_room`
  take the user out and not the connection, so that the user's other tab is still in the project or room
  and is told nothing of it, although `broadcast_to_project` and `broadcast_to_room` say that they reach
  "all clients" in it.
* **A client mistakes another socket for its own.** In `CalendarClient`, `OneSocket` without `calm` (six
  steps). The timeout of `connect` clears `isConnecting` while its socket is still connecting, or
  while another attempt is, and the next call replaces `this.socket`. The handlers belong to the
  service: the first socket's open event makes it report a connection its own socket does not
  have, and in the same way an old socket's close event marks a new connection as lost.
  `BeatsWhileConnected` does not notice, since flag and interval are always changed together.
* **A client hangs.** In `CalendarClient`, `~hung` (seven steps). If the page disconnects after such
  a timeout with a message queued, `this.socket` is null; when the first socket opens after all,
  `handleOpen` takes the message from the queue, `sendMessage` puts it back, and the loop never ends.
* **An agent idles.** In `AgentTasks`, `TakenIsSettled` without `agent = "idle"`: `consume` swallows
  the exception of a lost connection and returns, the runner sleeps on, and after this one fault what
  is in the queue waits for ever.
* **The first editor is not served.** In `CollabRooms`, no registered connection has a dead endpoint
  (one step): the first connection of the process starts the metrics task, and a log call with an
  undefined name ends its endpoint after it was registered. Any other exception, such as that of a room
  that changed its size during a broadcast, leaves the same registration behind.

## 4. What is proved

Nothing is proved for one instance: users, connections, projects, contents, rooms, notifiers, requests
and tasks are arbitrary sets, connections are assigned to users in any way, and every bound
(`MaxRequests`, `MaxFaults`, `MaxCalls`, `MaxMessages`, the limits of queues and attempts) is any
number. The assumptions are named: `ConnAssumption` (connections have users, the bound is a number, the
users are finitely many), `DistinctAssumption` (values that stand for nothing are not among the values,
a connection is no notifier), `OperationsAssumption`, `ClientAssumption`, `ContentClientAssumption`
(the queue has room for one message), `CollabAssumption` (as for the calendar), `CompletionsAssumption` (limits and sizes are numbers, a
request needs at least one token and no more than the configured limit, the variations are finitely
many), `AgentAssumption`
(requests, tasks and shutdown events are distinct from each other and from the words for outcomes).

| Theorem | States |
|---|---|
| `TypeCorrect` (`CalendarManagerProofs`) | `Spec => []TypeOK` |
| `LeaveSafe` (`CalendarManagerProofs`) | `Spec => []LeaveFindsItsProject` |
| `ProjectsSafe` (`CalendarManagerProofs`) | `Spec => []ProjectsAreViewed` |
| `RegistrySafe` (`CalendarManagerProofs`) | `Spec => []RegistryConsistent` |
| `LocksImplemented` (`CalendarLocksProofs`) | `Spec => LockService` |
| `CurrentSafe`, `HolderSafe` (`CalendarLocksProofs`) | `Spec => []CurrentIsViewed`, `Spec => []OpenHolderViews` |
| `OperationsTypeCorrect`, `OperationsSafe` (`CalendarOperationsProofs`) | `Spec => []TypeOK`, `Spec => []OneUserOperates` |
| `ClientTypeCorrect`, `BeatsSafe` (`CalendarClientProofs`) | `Spec => []TypeOK`, `Spec => []BeatsWhileConnected` |
| `ClientSafe`, `QueueSafe` (`CalendarClientProofs`) | `Spec => [](OneSocket /\ QueueIsFlushed)`, `Spec => []QueueIsFlushed` |
| `ContentTypeCorrect`, `ContentOneSocket`, `ContentQueue`, `ContentRecovers`, `ContentOneBeat` (`ContentClientProofs`) | every safety property of the `ContentClient` run |
| `RoomsTypeCorrect`, `EndedSafe`, `RoomDataSafe`, `OneTabSafe` (`CollabRoomsProofs`) | every invariant of the `CollabRooms` run |
| `DocumentsImplemented` (`CollabRoomsProofs`) | `Spec => DocumentService` |
| `CompletionsTypeCorrect`, `OvershootSafe`, `StarvedSafe` (`CompletionsProofs`) | `Spec => []TypeOK`, `Spec => []Overshoot`, `Spec => StarvedStays` |
| `TasksTypeCorrect`, `NothingLostSafe`, `SettledSafe`, `RepeatsSafe` (`AgentTasksProofs`) | every safety property of the `AgentTasks` run |
| `RequestsImplemented` (`AgentTasksProofs`) | `Spec => RequestsDecided!Safety`, the part of `RequestService` without fairness |

The arguments:

* **Types.** By cases on the actions. Lemmas say that each way of building a stack (`Continue`,
  `Suspend`, `Broadcast`, `Detach`, `Send`, `Raise`) gives a stack of calls.
* **`LeaveSafe`.** The invariant speaks of the whole stack, not of its top: a suspended
  `leave_project` whose project lost its entry has, above it, a broadcast to that project that is
  detached. Such a broadcast never ends, it can only fail, and failing unwinds the `leave_project`
  under it. So coming back to it means that the project is still there. The deleting step itself
  establishes it for every other task, since `Detach` reaches all their stacks.
* **`ProjectsSafe`.** Between taking out the last viewer and deleting the project the task does not
  suspend, or else somebody was sent something, hence was a viewer. The invariant names the one
  `release_locks` call that may be ending a project while its task is running, and states the equality
  for all other projects at all times.
* **`RegistrySafe`.** A connection enters list and map in one step and leaves them in one step; the
  branches of `DisconnectEnds` that raise leave both alone. What the induction needs beyond the
  property is that a connection that is new is in neither.
* **`LocksImplemented`.** Each step changes no owner or the owner of one content, and the guard of
  `lock_content` excludes a change from one user to another.
* **`CurrentSafe`, `HolderSafe`.** Both speak of a connection that is the only one its user ever had
  (`Alone`): nothing is assumed of the other users, who may have any number. Such a connection was
  alone in every earlier state too, since no socket becomes new again, and a registered connection of
  its user can only be itself, so that what `leave_project` takes out of a project is the
  connection's own. `HolderInv` also says which calls may speak of a connection: only the task of a
  connection, or one to which its socket has failed, is inside of its `leave_project`.
* **`OperationsSafe`.** Inductive by itself: time only makes operations older, completion only removes
  them, and a newcomer found no recent operation of another user.
* **`ClientSafe`.** `OneSocket` is not inductive: a `connect` that waits for its token makes a socket
  whatever it finds. `SocketInv` adds that at most one continuation of that kind is queued, that while
  it is `isConnecting` holds and no socket is live, and that no socket is closing, so that the only
  socket that can raise an event that matters is `this.socket`. Lemmas count the waiting tokens in a
  queue that is extended or loses its head.

* **The content client.** `ClientInv` says which sockets still have handlers, which of them can be open,
  and what the status says of `this.socket`; with it `OneSocket`, `Recovers` and `OneBeat` are
  inductive together. `QueueIsRecent` numbers the messages: the queue ends with the last one made, so
  that dropping from its front keeps it what was given most recently.
* **The rooms.** `EndedSafe` needs to know how a task that cleans up comes to its end when the removal
  was begun by another task: `Grounded` says that the outermost of its broadcasts is followed by the
  removal of its own connection, unless that is gone, and an outermost broadcast is what `Raise` and
  `Continue` leave in place. `OneTabSafe` uses that with one connection a user and their connection
  leave a room in the same step; removing a user from a finite room leaves it empty or not.
* **`DocumentsImplemented`.** `RoomDocuments` loads a document only into a room nobody is in. The
  code loads it into a room that does not exist, and keeps whatever version it finds when no content
  is named: that this is none is `RoomDataDies`, which the proof takes from the invariant above.
  Leaving changes the document only with the last user, whoever's task it happens in.
* **The completions.** `Overshoot` is not inductive: it must count what the requests under way may
  still be charged. Instead of a sum over the variations, `Open(p)` is the set of the pairs of a
  variation and an attempt that p may still charge; it is finite, an attempt that ends takes one pair
  out, and a round puts in at most the pairs of the variations that ask p. Tokens and open pairs
  together stay within the bound (`InBudget`). A round is admitted with the tokens below the limit and
  no pair open, because every request of the former round has failed by then (`IdleIsOver`).
  `StarvedSafe` follows from the guard of a round and from `Adapted`, which only lowers.
* **The agents.** What the broker owes the agent, the message it holds unacknowledged followed by the
  queue, is a suffix of what it accepted: sending extends both at the end, a delivery moves the head
  from one part to the other, a connection that ends moves it back, and only an acknowledgement
  shortens it. `RepeatsAreFaults` is made inductive by counting, for each task, where it waits: every
  place costs a fault beyond the first, and only a fault adds one. `RequestsImplemented` needs that a
  response queue holds answers to its own request and nothing else.

Only model-checked: what is liveness, which is beyond the proof system (`CallsEnd`, `TakenIsSettled`,
the fairness of `RequestService`, `Reconnects`, `Starves`, `TaskEnds`). Every invariant and every
action property of a passing run is proved. The four violated properties have counterexamples.

## 5. What is not modelled, and what is left

Code that does not run in the repository, so that no behaviour of it could be checked against a use:

* the WebSocket bridge: `start_websocket_bridge` has no caller, the router that queues events is not
  mounted, and its handler ignores the types that router queues;
* the limiters and circuit breaker of `rate_limiting.py`, the caching decorators and the invalidation
  on commit, `rotate_keys` of the JWT manager, the budget monitor: no caller;
* `AIProviderManager`: its users are imported by nobody;
* the compliance, developer and remaining routers: the application mounts health, templates, seed
  templates, the content calendar and the two WebSocket endpoints.

Code that runs and has nothing to interleave: CRUD handlers over one transaction, outside services,
numeric analytics, rendering, deployment. `PROJECT.json` gives the reason for each component.

The token check in front of both WebSocket endpoints: `decode_token` (`src/src/core/security.py:342`)
calls jose's `jwt.decode` without its `key`, which has no default, and catches `JWTError` only. As
committed the call should raise a `TypeError` for every token and no connection be accepted; the
models begin where a connection was let in.

Left out of the components that are modelled, and worth adding:

1. The composition of `CalendarClient` with the registry of `CalendarManager`: messages in flight,
   and whether what a client shows (users, locks) is what the server holds once all have arrived.
2. The order in which members of a room receive versions of its content: operations are numbered
   before the broadcast suspends.
