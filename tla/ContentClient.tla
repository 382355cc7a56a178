--------------------------- MODULE ContentClient ---------------------------
(***************************************************************************)
(* The connection of the content pages: WebSocketService of                *)
(* src/frontend/src/services/websocket.ts, as App.tsx and                  *)
(* useContentGeneration.ts use it, in one browser tab.                     *)
(*                                                                         *)
(* Every handler runs to its end before the next one.  A socket the        *)
(* service has let go of may live on; its number is used again once it is  *)
(* closed.  The status "reconnecting" is never seen: connect follows in    *)
(* the same handler.                                                       *)
(***************************************************************************)
EXTENDS Integers, FiniteSets, Sequences

CONSTANTS
  QueueSizeLimit,  \* options.queueSizeLimit
  MaxCalls,        \* bound: connect and disconnect calls of the page
  MaxMessages      \* bound: messages given to send

ASSUME ContentClientAssumption ==
  QueueSizeLimit \in Nat \ {0} /\ MaxCalls \in Nat /\ MaxMessages \in Nat

(* A call lets go of at most one connecting socket: there is always one more. *)
Sockets  == 1..(MaxCalls + 1)
NoSocket == 0

VARIABLES
  sock,       \* the browser's sockets: readyState
  socket,     \* this.socket
  handled,    \* sockets whose events reach the service
  status,     \* this.status
  timer,      \* the reconnect timer is set
  ping,       \* this.pingInterval is set
  beats,      \* ping intervals that run in the browser
  queue,      \* this.messageQueue, as message numbers
  sent,       \* the number of the last message given to a socket
  made,       \* the number of the last message given to send
  signedIn,   \* App's isAuthenticated
  token,      \* localStorage has an item "token"
  stopped,    \* history: no token, closed for policy, or an unload that was cancelled
  orphans,    \* history: sockets let go of while they were connecting
  calls       \* calls of the page so far

net      == <<sock, socket, handled, orphans>>
timers   == <<timer, ping, beats>>
messages == <<queue, sent, made>>
vars == <<net, status, timers, messages, signedIn, token, stopped, calls>>

Init ==
  /\ sock = [s \in Sockets |-> "closed"] /\ socket = NoSocket
  /\ handled = {} /\ orphans = {}
  /\ status = "disconnected" /\ timer = FALSE /\ ping = FALSE /\ beats = 0
  /\ queue = << >> /\ sent = 0 /\ made = 0
  /\ signedIn = FALSE /\ token = FALSE /\ stopped = FALSE /\ calls = 0

IsOpen      == socket # NoSocket /\ sock[socket] = "open"
IsConnected == status = "connected" /\ IsOpen

-----------------------------------------------------------------------------
(***************************************************************************)
(* connect and disconnect.                                                 *)
(***************************************************************************)

(* Mutant of Released: the socket is not closed. *)
ReleasedOpen == sock

(* The sockets once disconnect let go of this.socket: it closes an open one, and
   nobody sees the rest of a closing handshake. *)
Released == IF socket # NoSocket /\ sock[socket] \in {"open", "closing"}
            THEN [sock EXCEPT ![socket] = "closed"] ELSE sock

Orphaned == {s \in {socket} : s # NoSocket /\ sock[s] = "connecting"}

ClearPing == ping' = FALSE /\ beats' = IF ping THEN beats - 1 ELSE beats

Disconnect ==
  /\ sock' = Released /\ socket' = NoSocket
  /\ handled' = handled \ {socket} /\ orphans' = orphans \cup Orphaned
  /\ status' = "disconnected" /\ timer' = FALSE /\ ClearPing

(* Without a socket disconnect is not called, and a timer that is set stays set. *)
Connect(pending) ==
  /\ stopped' = ~token'
  /\ timer' = (pending /\ socket = NoSocket)
  /\ IF socket = NoSocket THEN UNCHANGED <<ping, beats>> ELSE ClearPing
  /\ IF token'
     THEN \E s \in Sockets :
            /\ Released[s] = "closed"
            /\ sock' = [Released EXCEPT ![s] = "connecting"] /\ socket' = s
            /\ handled' = (handled \ {socket}) \cup {s}
            /\ orphans' = (orphans \cup Orphaned) \ {s}
            /\ status' = "connecting"
     ELSE /\ sock' = Released /\ socket' = NoSocket
          /\ handled' = handled \ {socket} /\ orphans' = orphans \cup Orphaned
          /\ status' = "error"

Call == calls < MaxCalls /\ calls' = calls + 1

(* App's effect connects on signing in and disconnects on signing out.  Signing in
   here stores the token under another key, "auth_token": whether there is an item
   "token" is up to what else runs on the site, and signing out leaves it there. *)
SignIn ==
  /\ Call /\ ~signedIn /\ signedIn' = TRUE
  /\ token' \in {token, TRUE}
  /\ Connect(timer)
  /\ UNCHANGED messages

SignOut ==
  /\ Call /\ signedIn /\ signedIn' = FALSE
  /\ Disconnect
  /\ UNCHANGED <<messages, token, stopped>>

(* useContentGeneration, when a component that uses it is mounted. *)
Mount ==
  /\ Call /\ signedIn /\ ~IsConnected
  /\ UNCHANGED <<messages, signedIn, token>>
  /\ Connect(timer)

(* The page is about to go, and the user decides to stay. *)
UnloadCancelled ==
  /\ Call /\ IsOpen
  /\ Disconnect
  /\ stopped' = TRUE
  /\ UNCHANGED <<messages, signedIn, token>>

ReconnectTimer ==
  /\ timer
  /\ UNCHANGED <<messages, signedIn, token, calls>>
  /\ Connect(FALSE)

(* The check for inactivity: disconnect, then connect. *)
Inactive ==
  /\ status = "connected"
  /\ UNCHANGED <<messages, signedIn, token, calls>>
  /\ Connect(FALSE)

(* The interval pings, or finds that it is not connected and clears both timers. *)
PingTick ==
  /\ ping /\ ~IsConnected
  /\ timer' = FALSE /\ ClearPing
  /\ UNCHANGED <<net, status, messages, signedIn, token, stopped, calls>>

-----------------------------------------------------------------------------
(***************************************************************************)
(* send and its queue.                                                     *)
(***************************************************************************)

(* Mutants of QueueMessage: the limit is checked too late; the newest goes. *)
QueueMessageLate(m) == LET q == Append(queue, m) IN
                       IF Len(queue) > QueueSizeLimit THEN Tail(q) ELSE q

QueueMessageNewest(m) == IF Len(queue) >= QueueSizeLimit THEN queue ELSE Append(queue, m)

QueueMessage(m) == LET q == Append(queue, m) IN
                   IF Len(queue) >= QueueSizeLimit THEN Tail(q) ELSE q

Send ==
  /\ made < MaxMessages /\ made' = made + 1
  /\ IF IsOpen
     THEN sent' = made' /\ UNCHANGED <<queue, timer>>
     ELSE /\ queue' = QueueMessage(made') /\ UNCHANGED sent
          /\ timer' = (timer \/ status # "connecting")
  /\ UNCHANGED <<net, status, ping, beats, signedIn, token, stopped, calls>>

ProcessQueue ==
  /\ queue' = << >>
  /\ sent' = IF queue = << >> THEN sent ELSE queue[Len(queue)]

-----------------------------------------------------------------------------
(***************************************************************************)
(* Events of the sockets.                                                  *)
(***************************************************************************)
HandleOpen ==
  /\ status' = "connected" /\ ping' = TRUE /\ beats' = beats + 1
  /\ ProcessQueue

(* Mutant of HandleClose: the status is read after it was set. *)
HandleCloseReadsLate(policy) ==
  /\ status' = "disconnected"
  /\ timer' = (timer \/ (status' = "connected" /\ ~policy)) /\ ClearPing

(* No reconnect after a connection that never was, or one closed for policy. *)
HandleClose(policy) ==
  /\ status' = "disconnected"
  /\ timer' = (timer \/ (status = "connected" /\ ~policy)) /\ ClearPing

SocketOpens(s) ==
  /\ sock[s] = "connecting" /\ sock' = [sock EXCEPT ![s] = "open"]
  /\ IF s \in handled THEN HandleOpen ELSE UNCHANGED <<status, ping, beats, queue, sent>>
  /\ UNCHANGED <<socket, handled, orphans, timer, made, signedIn, token, stopped, calls>>

RemoteCloses(s) ==
  /\ s \in handled /\ sock[s] = "open" /\ sock' = [sock EXCEPT ![s] = "closing"]
  /\ UNCHANGED <<socket, handled, orphans, status, timers, messages, signedIn, token, stopped, calls>>

SocketCloses(s) ==
  /\ sock[s] \in {"open", "closing"} /\ sock' = [sock EXCEPT ![s] = "closed"]
  /\ handled' = handled \ {s} /\ orphans' = orphans \ {s}
  /\ IF s \in handled
     THEN \E policy \in BOOLEAN : HandleClose(policy) /\ stopped' = policy
     ELSE UNCHANGED <<status, timers, stopped>>
  /\ UNCHANGED <<socket, messages, signedIn, token, calls>>

(* Mutants of SocketFails: only the close event is handled; only the error event is. *)
SocketFailsUnnoticed(s) ==
  /\ sock[s] # "closed" /\ sock' = [sock EXCEPT ![s] = "closed"]
  /\ handled' = handled \ {s} /\ orphans' = orphans \ {s}
  /\ IF s \in handled THEN HandleClose(FALSE) ELSE UNCHANGED <<status, timers>>
  /\ UNCHANGED <<socket, messages, signedIn, token, stopped, calls>>

SocketFailsKeepsPing(s) ==
  /\ sock[s] # "closed" /\ sock' = [sock EXCEPT ![s] = "closed"]
  /\ handled' = handled \ {s} /\ orphans' = orphans \ {s}
  /\ IF s \in handled
     THEN socket' = NoSocket /\ timer' = TRUE /\ status' = "error" /\ UNCHANGED <<ping, beats>>
     ELSE UNCHANGED <<socket, timers, status>>
  /\ UNCHANGED <<messages, signedIn, token, stopped, calls>>

(* An error event, and in the same task the close event: handleError drops the
   socket and sets the timer, handleClose does the rest. *)
SocketFails(s) ==
  /\ sock[s] # "closed" /\ sock' = [sock EXCEPT ![s] = "closed"]
  /\ handled' = handled \ {s} /\ orphans' = orphans \ {s}
  /\ IF s \in handled
     THEN socket' = NoSocket /\ timer' = TRUE /\ status' = "disconnected" /\ ClearPing
     ELSE UNCHANGED <<socket, timers, status>>
  /\ UNCHANGED <<messages, signedIn, token, stopped, calls>>

SocketEnds(s) == SocketCloses(s) \/ SocketFails(s)

Next ==
  \/ SignIn \/ SignOut \/ Mount \/ UnloadCancelled
  \/ ReconnectTimer \/ Inactive \/ PingTick \/ Send
  \/ \E s \in Sockets : SocketOpens(s) \/ RemoteCloses(s) \/ SocketEnds(s)

Spec == Init /\ [][Next]_vars

(* The page calls and sends a bounded number of times, so that the timer runs out
   in the end; a closing socket closes; and of the connections that are tried over
   and over the server accepts one. *)
FairSpec ==
  /\ Spec
  /\ WF_vars(ReconnectTimer)
  /\ \A s \in Sockets : WF_vars(sock[s] = "closing" /\ SocketEnds(s))
  /\ SF_vars(\E s \in handled : SocketOpens(s))

-----------------------------------------------------------------------------
TypeOK ==
  /\ sock \in [Sockets -> {"connecting", "open", "closing", "closed"}]
  /\ socket \in Sockets \cup {NoSocket} /\ handled \subseteq Sockets /\ orphans \subseteq Sockets
  /\ status \in {"disconnected", "connecting", "connected", "error"}
  /\ timer \in BOOLEAN /\ ping \in BOOLEAN /\ beats \in Nat
  /\ sent \in 0..made /\ made \in 0..MaxMessages
  /\ queue \in Seq(1..made) /\ Len(queue) <= QueueSizeLimit
  /\ signedIn \in BOOLEAN /\ token \in BOOLEAN /\ stopped \in BOOLEAN /\ calls \in 0..MaxCalls

(* The service hears of this.socket only, and the tab has no second connection,
   except those it let go of while they were connecting. *)
OneSocket ==
  /\ handled \subseteq {socket}
  /\ \A s \in Sockets : sock[s] # "closed" => s = socket \/ s \in orphans

(* The queue is what was given to send since the last message sent, up to its limit
   and in order: messages neither overtake each other nor wait on an open connection. *)
QueueIsRecent ==
  /\ IsOpen => queue = << >>
  /\ \A i \in 1..Len(queue) : queue[i] = made - Len(queue) + i
  /\ Len(queue) = IF made - sent < QueueSizeLimit THEN made - sent ELSE QueueSizeLimit

(* While the user is signed in, no connection and no timer is the end only after a
   missing token, a close for policy or a cancelled unload. *)
Recovers ==
  signedIn /\ ~stopped /\ status \notin {"connecting", "connected"} => timer

(* One ping interval runs while the connection is up, none otherwise. *)
OneBeat == beats = IF ping THEN 1 ELSE 0

(* A lost connection comes back. *)
Reconnects == signedIn ~> (IsConnected \/ stopped \/ ~signedIn)
=============================================================================
