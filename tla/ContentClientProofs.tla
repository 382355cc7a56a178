------------------------ MODULE ContentClientProofs ------------------------
(***************************************************************************)
(* Proofs about ContentClient, for any number of calls and messages and    *)
(* any size of the queue.                                                  *)
(***************************************************************************)
EXTENDS ContentClient, TLAPS

(* What the fields of the service say of each other: its socket is heard until it
   closes, it takes itself to be connected once that socket is up, and the interval
   runs only then. *)
Heard  == socket # NoSocket /\ sock[socket] # "closed" => socket \in handled
Alive  == \A s \in handled : sock[s] # "closed"
Up     == \A s \in handled : sock[s] # "connecting" <=> status = "connected"
Down   == handled = {} => status # "connected"
Beaten == ping => status = "connected"

ClientInv == /\ TypeOK /\ OneSocket /\ Recovers /\ OneBeat
             /\ Heard /\ Alive /\ Up /\ Down /\ Beaten

(***************************************************************************)
(* What connect and disconnect do to them.                                 *)
(***************************************************************************)
LEMMA ClearPingStops ==
  ASSUME TypeOK, OneBeat, ClearPing
  PROVE  ping' = FALSE /\ beats' = 0
BY DEF TypeOK, OneBeat, ClearPing

LEMMA ReleasedSockets ==
  ASSUME ClientInv
  PROVE  /\ Released \in [Sockets -> {"connecting", "open", "closing", "closed"}]
         /\ \A s \in Sockets : Released[s] # "closed" => s \in orphans \cup Orphaned
         /\ \A s \in Sockets : Released[s] \in {sock[s], "closed"}
         /\ Orphaned \subseteq Sockets
BY DEF ClientInv, TypeOK, OneSocket, Released, Orphaned, Sockets, NoSocket

LEMMA NumbersOfSockets == NoSocket \notin Sockets
BY ContentClientAssumption DEF NoSocket, Sockets

LEMMA DisconnectKeeps ==
  ASSUME ClientInv, Disconnect
  PROVE  /\ sock' \in [Sockets -> {"connecting", "open", "closing", "closed"}]
         /\ socket' = NoSocket /\ handled' = {} /\ orphans' \subseteq Sockets
         /\ OneSocket' /\ status' = "disconnected" /\ timer' = FALSE /\ ping' = FALSE /\ beats' = 0
<1>1. ping' = FALSE /\ beats' = 0
  BY ClearPingStops DEF Disconnect, ClientInv
<1>2. handled' = {}
  BY DEF Disconnect, ClientInv, OneSocket
<1>3. OneSocket'
  BY ReleasedSockets, <1>2 DEF Disconnect, OneSocket
<1> QED
  BY ReleasedSockets, <1>1, <1>2, <1>3 DEF Disconnect, ClientInv, TypeOK

LEMMA ConnectKeeps ==
  ASSUME ClientInv, NEW pending \in BOOLEAN, Connect(pending), token' \in BOOLEAN
  PROVE  /\ sock' \in [Sockets -> {"connecting", "open", "closing", "closed"}]
         /\ socket' \in Sockets \cup {NoSocket} /\ handled' \subseteq Sockets
         /\ orphans' \subseteq Sockets
         /\ timer' \in BOOLEAN /\ ping' = FALSE /\ beats' = 0
         /\ stopped' \in BOOLEAN /\ status' \in {"connecting", "error"}
         /\ status' # "connecting" => stopped'
         /\ ~IsOpen'
         /\ OneSocket' /\ Heard' /\ Alive' /\ Up' /\ Down'
<1>1. ping' = FALSE /\ beats' = 0
  <2>1. CASE socket = NoSocket
    <3>1. handled = {}
      BY <2>1, NumbersOfSockets DEF ClientInv, OneSocket, TypeOK
    <3> QED
      BY <2>1, <3>1 DEF Connect, ClientInv, Down, Beaten, OneBeat, TypeOK
  <2>2. CASE socket # NoSocket
    BY <2>2, ClearPingStops DEF Connect, ClientInv
  <2> QED
    BY <2>1, <2>2
<1>2. handled \ {socket} = {}
  BY DEF ClientInv, OneSocket
<1>3. CASE token'
  <2>1. PICK s \in Sockets :
          /\ Released[s] = "closed"
          /\ sock' = [Released EXCEPT ![s] = "connecting"] /\ socket' = s
          /\ handled' = (handled \ {socket}) \cup {s}
          /\ orphans' = (orphans \cup Orphaned) \ {s}
          /\ status' = "connecting"
    BY <1>3 DEF Connect
  <2>2. handled' = {s}
    BY <1>2, <2>1
  <2>3. sock' \in [Sockets -> {"connecting", "open", "closing", "closed"}]
    BY <2>1, ReleasedSockets
  <2>4. sock'[s] = "connecting" /\ \A t \in Sockets \ {s} : sock'[t] = Released[t]
    BY <2>1, ReleasedSockets
  <2>5. OneSocket'
    BY <2>1, <2>2, <2>4, ReleasedSockets DEF OneSocket
  <2>6. orphans' \subseteq Sockets
    BY <2>1, ReleasedSockets DEF ClientInv, TypeOK
  <2>7. Heard' /\ Alive' /\ Up' /\ Down'
    BY <2>1, <2>2, <2>4 DEF Heard, Alive, Up, Down
  <2>8. ~IsOpen'
    BY <2>1, <2>4 DEF IsOpen
  <2> QED
    BY <1>1, <1>3, <2>1, <2>2, <2>3, <2>5, <2>6, <2>7, <2>8 DEF Connect
<1>4. CASE ~token'
  <2>1. /\ sock' = Released /\ socket' = NoSocket
        /\ handled' = {} /\ orphans' = orphans \cup Orphaned
        /\ status' = "error" /\ stopped'
    BY <1>2, <1>4 DEF Connect
  <2>2. OneSocket' /\ Heard' /\ Alive' /\ Up' /\ Down'
    BY <2>1, ReleasedSockets DEF OneSocket, Heard, Alive, Up, Down
  <2>3. ~IsOpen'
    BY <2>1 DEF IsOpen
  <2> QED
    BY <1>1, <1>4, <2>1, <2>2, <2>3, ReleasedSockets DEF Connect, ClientInv, TypeOK
<1> QED
  BY <1>3, <1>4

(***************************************************************************)
(* The queue: what waits are the numbers last given to send.               *)
(***************************************************************************)
LEMMA TailIndex ==
  ASSUME NEW S, NEW q \in Seq(S), q # << >>
  PROVE  /\ Tail(q) \in Seq(S) /\ Len(Tail(q)) = Len(q) - 1
         /\ \A i \in 1..Len(Tail(q)) : Tail(q)[i] = q[i + 1]
OBVIOUS

LEMMA QueueMessageKeeps ==
  ASSUME TypeOK, QueueIsRecent, NEW m, m = made + 1
  PROVE  /\ QueueMessage(m) \in Seq(1..m)
         /\ \A i \in 1..Len(QueueMessage(m)) : QueueMessage(m)[i] = m - Len(QueueMessage(m)) + i
         /\ Len(QueueMessage(m)) = IF m - sent < QueueSizeLimit THEN m - sent ELSE QueueSizeLimit
<1> DEFINE q == Append(queue, m)
<1>1. /\ queue \in Seq(1..made) /\ made \in Nat /\ sent \in 0..made
      /\ QueueSizeLimit \in Nat \ {0}
  BY ContentClientAssumption DEF TypeOK
<1>2. queue \in Seq(1..m)
  <2>1. \A i \in 1..Len(queue) : queue[i] \in 1..m
    BY <1>1
  <2> QED
    BY <1>1, <2>1
<1>3. m \in 1..m
  BY <1>1
<1>4. q \in Seq(1..m) /\ Len(q) = Len(queue) + 1 /\ q[Len(q)] = m
  BY <1>2, <1>3
<1>5. \A i \in 1..Len(queue) : q[i] = queue[i]
  BY <1>2, <1>3
<1>recent. /\ Len(queue) \in Nat
           /\ \A i \in 1..Len(queue) : queue[i] = made - Len(queue) + i
           /\ Len(queue) = IF made - sent < QueueSizeLimit THEN made - sent ELSE QueueSizeLimit
  BY <1>1 DEF QueueIsRecent
<1>tail. /\ Tail(q) \in Seq(1..m) /\ Len(Tail(q)) = Len(q) - 1
         /\ \A i \in 1..Len(Tail(q)) : Tail(q)[i] = q[i + 1]
  <2>1. Len(queue) \in Nat
    BY <1>2
  <2>2. Len(q) # 0
    BY <1>4, <2>1
  <2> HIDE DEF q
  <2>3. q # << >>
    BY <2>2
  <2> QED
    BY <1>4, <2>3, TailIndex
<1>message. QueueMessage(m) = IF Len(queue) >= QueueSizeLimit THEN Tail(q) ELSE q
  BY DEF QueueMessage
<1> HIDE DEF q
<1>6. \A i \in 1..Len(q) : q[i] = m - Len(q) + i
  <2> TAKE i \in 1..Len(q)
  <2>1. CASE i = Len(q)
    BY <2>1, <1>1, <1>4
  <2>2. CASE i \in 1..Len(queue)
    BY <2>2, <1>1, <1>4, <1>5, <1>recent
  <2> QED
    BY <1>1, <1>4, <2>1, <2>2
<1>7. CASE Len(queue) < QueueSizeLimit
  <2>1. QueueMessage(m) = q
    BY <1>1, <1>7, <1>recent, <1>message
  <2>2. Len(q) = IF m - sent < QueueSizeLimit THEN m - sent ELSE QueueSizeLimit
    BY <1>1, <1>4, <1>7, <1>recent
  <2> QED
    BY <1>4, <1>6, <2>1, <2>2
<1>8. CASE Len(queue) >= QueueSizeLimit
  <2>1. QueueMessage(m) = Tail(q)
    BY <1>8, <1>message
  <2>2. Len(Tail(q)) \in Nat /\ Len(q) \in Nat
    BY <1>4, <1>recent, <1>tail
  <2>3. \A i \in 1..Len(Tail(q)) : Tail(q)[i] = m - Len(Tail(q)) + i
    <3> TAKE i \in 1..Len(Tail(q))
    <3>1. i + 1 \in 1..Len(q)
      BY <1>tail, <2>2
    <3>2. Tail(q)[i] = m - Len(q) + (i + 1)
      BY <1>6, <1>tail, <3>1
    <3> QED
      BY <1>1, <1>tail, <2>2, <3>2
  <2>4. Len(Tail(q)) = IF m - sent < QueueSizeLimit THEN m - sent ELSE QueueSizeLimit
    BY <1>1, <1>4, <1>8, <1>recent, <1>tail
  <2> QED
    BY <1>tail, <2>1, <2>3, <2>4
<1> QED
  BY <1>1, <1>7, <1>8, <1>recent

(* What is left once the queue was sent. *)
LEMMA ProcessQueueKeeps ==
  ASSUME TypeOK, QueueIsRecent, ProcessQueue
  PROVE  queue' = << >> /\ sent' = made
<1>1. queue \in Seq(1..made) /\ made \in Nat /\ sent \in 0..made /\ QueueSizeLimit \in Nat \ {0}
  BY ContentClientAssumption DEF TypeOK
<1>2. CASE queue = << >>
  <2>1. Len(queue) = 0
    BY <1>2
  <2>2. sent = made
    BY <1>1, <2>1 DEF QueueIsRecent
  <2> QED
    BY <1>2, <2>2 DEF ProcessQueue
<1>3. CASE queue # << >>
  <2>1. Len(queue) \in 1..Len(queue)
    BY <1>1, <1>3
  <2>2. queue[Len(queue)] = made - Len(queue) + Len(queue)
    BY <2>1 DEF QueueIsRecent
  <2> QED
    BY <1>1, <1>3, <2>2 DEF ProcessQueue
<1> QED
  BY <1>2, <1>3

ContentInv == ClientInv /\ QueueIsRecent

(***************************************************************************)
(* Every step keeps the invariant.                                         *)
(***************************************************************************)
LEMMA ReconnectStep ==
  ASSUME ContentInv, NEW pending \in BOOLEAN, Connect(pending), token' \in BOOLEAN,
         UNCHANGED messages, signedIn' \in BOOLEAN, calls' \in 0..MaxCalls
  PROVE  ContentInv'
<1>1. ClientInv
  BY DEF ContentInv
<1>m. UNCHANGED <<queue, sent, made>>
  BY DEF messages
<1>q. /\ sent \in 0..made /\ made \in 0..MaxMessages
      /\ queue \in Seq(1..made) /\ Len(queue) <= QueueSizeLimit
  BY <1>1 DEF ClientInv, TypeOK
<1>k. /\ sock' \in [Sockets -> {"connecting", "open", "closing", "closed"}]
      /\ socket' \in Sockets \cup {NoSocket} /\ handled' \subseteq Sockets
      /\ orphans' \subseteq Sockets /\ timer' \in BOOLEAN /\ ping' \in BOOLEAN /\ beats' \in Nat
      /\ stopped' \in BOOLEAN /\ status' \in {"disconnected", "connecting", "error"} /\ ~IsOpen'
  <2>1. /\ ping' = FALSE /\ beats' = 0 /\ status' \in {"connecting", "error"} /\ ~IsOpen'
        /\ timer' \in BOOLEAN /\ stopped' \in BOOLEAN
    BY <1>1, ConnectKeeps
  <2>2. /\ sock' \in [Sockets -> {"connecting", "open", "closing", "closed"}]
        /\ socket' \in Sockets \cup {NoSocket} /\ handled' \subseteq Sockets
        /\ orphans' \subseteq Sockets
    BY <1>1, ConnectKeeps
  <2> QED
    BY <2>1, <2>2
<1>2. TypeOK'
  BY <1>m, <1>q, <1>k DEF TypeOK
<1>3. OneBeat' /\ Beaten' /\ Recovers'
  BY <1>1, ConnectKeeps DEF OneBeat, Beaten, Recovers
<1>4. QueueIsRecent'
  BY <1>m, <1>k DEF ContentInv, QueueIsRecent
<1> QED
  BY <1>1, <1>2, <1>3, <1>4, ConnectKeeps DEF ContentInv, ClientInv

LEMMA DisconnectStep ==
  ASSUME ContentInv, Disconnect, UNCHANGED messages, token' \in BOOLEAN, stopped' \in BOOLEAN,
         signedIn' \in BOOLEAN, calls' \in 0..MaxCalls, signedIn' => stopped'
  PROVE  ContentInv'
<1>1. ClientInv
  BY DEF ContentInv
<1>m. UNCHANGED <<queue, sent, made>>
  BY DEF messages
<1>q. /\ sent \in 0..made /\ made \in 0..MaxMessages
      /\ queue \in Seq(1..made) /\ Len(queue) <= QueueSizeLimit
  BY <1>1 DEF ClientInv, TypeOK
<1>k. /\ sock' \in [Sockets -> {"connecting", "open", "closing", "closed"}]
      /\ socket' \in Sockets \cup {NoSocket} /\ handled' \subseteq Sockets
      /\ orphans' \subseteq Sockets /\ timer' \in BOOLEAN /\ ping' \in BOOLEAN /\ beats' \in Nat
      /\ stopped' \in BOOLEAN /\ status' \in {"disconnected", "connecting", "error"} /\ ~IsOpen'
  BY <1>1, DisconnectKeeps DEF IsOpen
<1>2. TypeOK'
  BY <1>m, <1>q, <1>k DEF TypeOK
<1>3. OneBeat' /\ Beaten' /\ Recovers' /\ Heard' /\ Alive' /\ Up' /\ Down'
  BY <1>1, DisconnectKeeps DEF OneBeat, Beaten, Recovers, Heard, Alive, Up, Down
<1>4. QueueIsRecent'
  BY <1>m, <1>k DEF ContentInv, QueueIsRecent
<1> QED
  BY <1>1, <1>2, <1>3, <1>4, DisconnectKeeps DEF ContentInv, ClientInv

LEMMA SendStep ==
  ASSUME ContentInv, Send
  PROVE  ContentInv'
<1>1. TypeOK /\ made' = made + 1 /\ made < MaxMessages /\ made \in Nat
  BY DEF ContentInv, ClientInv, TypeOK, Send
<1>2. CASE IsOpen
  <2>1. queue = << >> /\ queue' = queue /\ sent' = made' /\ timer' = timer
    BY <1>2 DEF ContentInv, QueueIsRecent, Send
  <2>2. TypeOK'
    BY <1>1, <2>1, ContentClientAssumption DEF TypeOK, Send, net
  <2>3. QueueIsRecent'
    BY <1>1, <2>1, ContentClientAssumption DEF QueueIsRecent
  <2>4. UNCHANGED <<sock, socket, handled, orphans, status, timer, ping, beats, signedIn, stopped>>
    BY <2>1 DEF Send, net
  <2> QED
    BY <2>2, <2>3, <2>4
       DEF ContentInv, ClientInv, OneSocket, Recovers, OneBeat, Heard, Alive, Up, Down, Beaten
<1>3. CASE ~IsOpen
  <2>1. /\ queue' = QueueMessage(made') /\ sent' = sent
        /\ timer' = (timer \/ status # "connecting")
        /\ UNCHANGED <<sock, socket, handled, orphans, status, ping, beats, signedIn, token,
                       stopped, calls>>
    BY <1>3 DEF Send, net
  <2>2. /\ queue' \in Seq(1..made')
        /\ \A i \in 1..Len(queue') : queue'[i] = made' - Len(queue') + i
        /\ Len(queue') = IF made' - sent' < QueueSizeLimit THEN made' - sent' ELSE QueueSizeLimit
    BY <1>1, <2>1, QueueMessageKeeps DEF ContentInv
  <2>3. QueueIsRecent'
    BY <1>3, <2>1, <2>2 DEF QueueIsRecent, IsOpen
  <2>4. sent' \in 0..made' /\ made' \in 0..MaxMessages /\ Len(queue') <= QueueSizeLimit
    BY <1>1, <2>1, <2>2, ContentClientAssumption DEF TypeOK
  <2>5. TypeOK'
    BY <1>1, <2>1, <2>2, <2>4 DEF TypeOK
  <2>6. OneSocket' /\ Recovers' /\ OneBeat' /\ Heard' /\ Alive' /\ Up' /\ Down' /\ Beaten'
    BY <2>1 DEF ContentInv, ClientInv, OneSocket, Recovers, OneBeat, Heard, Alive, Up, Down, Beaten
  <2> QED
    BY <2>3, <2>5, <2>6 DEF ContentInv, ClientInv
<1> QED
  BY <1>2, <1>3

LEMMA PingStep ==
  ASSUME ContentInv, PingTick
  PROVE  ContentInv'
<1>1. /\ ping /\ timer' = FALSE /\ ping' = FALSE /\ beats' = 0
      /\ UNCHANGED <<sock, socket, handled, orphans, status, queue, sent, made, signedIn, token,
                     stopped, calls>>
  BY ClearPingStops DEF ContentInv, ClientInv, PingTick, net, messages
<1>2. status = "connected"
  BY <1>1 DEF ContentInv, ClientInv, Beaten
<1>3. TypeOK'
  BY <1>1 DEF ContentInv, ClientInv, TypeOK
<1>4. OneSocket' /\ Recovers' /\ OneBeat' /\ Heard' /\ Alive' /\ Up' /\ Down' /\ Beaten'
  BY <1>1, <1>2
     DEF ContentInv, ClientInv, OneSocket, Recovers, OneBeat, Heard, Alive, Up, Down, Beaten
<1>5. QueueIsRecent'
  BY <1>1 DEF ContentInv, QueueIsRecent, IsOpen
<1> QED
  BY <1>3, <1>4, <1>5 DEF ContentInv, ClientInv

LEMMA OpenStep ==
  ASSUME ContentInv, NEW s \in Sockets, SocketOpens(s)
  PROVE  ContentInv'
<1>1. /\ sock[s] = "connecting" /\ sock' = [sock EXCEPT ![s] = "open"]
      /\ UNCHANGED <<socket, handled, orphans, timer, made, signedIn, token, stopped, calls>>
  BY DEF SocketOpens
<1>2. TypeOK /\ sock' \in [Sockets -> {"connecting", "open", "closing", "closed"}]
      /\ sock'[s] = "open" /\ \A t \in Sockets \ {s} : sock'[t] = sock[t]
  BY <1>1 DEF ContentInv, ClientInv, TypeOK
<1>3. OneSocket' /\ Heard' /\ Alive'
  BY <1>1, <1>2 DEF ContentInv, ClientInv, OneSocket, Heard, Alive
<1>4. CASE s \in handled
  <2>1. s = socket /\ handled = {s} /\ status # "connected" /\ ~ping /\ beats = 0
    BY <1>1, <1>4 DEF ContentInv, ClientInv, OneSocket, Up, Beaten, OneBeat, TypeOK
  <2>2. status' = "connected" /\ ping' = TRUE /\ beats' = 1 /\ queue' = << >> /\ sent' = made
    BY <1>4, <2>1, <1>2, ProcessQueueKeeps DEF SocketOpens, HandleOpen, ContentInv
  <2>3. TypeOK'
    BY <1>1, <1>2, <2>2, ContentClientAssumption DEF TypeOK
  <2>4. Recovers' /\ OneBeat' /\ Up' /\ Down' /\ Beaten'
    BY <1>1, <1>2, <2>1, <2>2 DEF Recovers, OneBeat, Up, Down, Beaten
  <2>5. QueueIsRecent'
    BY <1>1, <1>2, <2>2, ContentClientAssumption DEF QueueIsRecent, TypeOK
  <2> QED
    BY <1>3, <2>3, <2>4, <2>5 DEF ContentInv, ClientInv
<1>5. CASE s \notin handled
  <2>1. UNCHANGED <<status, ping, beats, queue, sent>>
    BY <1>5 DEF SocketOpens
  <2>2. s # socket
    BY <1>1, <1>5, NumbersOfSockets DEF ContentInv, ClientInv, Heard
  <2>3. TypeOK'
    BY <1>1, <1>2, <2>1 DEF TypeOK
  <2>4. Recovers' /\ OneBeat' /\ Up' /\ Down' /\ Beaten'
    BY <1>1, <1>2, <1>5, <2>1
       DEF ContentInv, ClientInv, Recovers, OneBeat, Up, Down, Beaten, TypeOK
  <2>5. IsOpen' => IsOpen
    BY <1>1, <1>2, <2>2 DEF IsOpen, TypeOK
  <2>6. QueueIsRecent'
    BY <1>1, <2>1, <2>5 DEF ContentInv, QueueIsRecent
  <2> QED
    BY <1>3, <2>3, <2>4, <2>6 DEF ContentInv, ClientInv
<1> QED
  BY <1>4, <1>5

LEMMA RemoteStep ==
  ASSUME ContentInv, NEW s \in Sockets, RemoteCloses(s)
  PROVE  ContentInv'
<1>1. /\ s \in handled /\ sock[s] = "open" /\ sock' = [sock EXCEPT ![s] = "closing"]
      /\ UNCHANGED <<socket, handled, orphans, status, timer, ping, beats, queue, sent, made,
                     signedIn, token, stopped, calls>>
  BY DEF RemoteCloses, timers, messages
<1>2. TypeOK /\ sock' \in [Sockets -> {"connecting", "open", "closing", "closed"}]
      /\ sock'[s] = "closing" /\ \A t \in Sockets \ {s} : sock'[t] = sock[t]
  BY <1>1 DEF ContentInv, ClientInv, TypeOK
<1>3. TypeOK'
  BY <1>1, <1>2 DEF TypeOK
<1>4. OneSocket' /\ Recovers' /\ OneBeat' /\ Heard' /\ Alive' /\ Up' /\ Down' /\ Beaten'
  BY <1>1, <1>2
     DEF ContentInv, ClientInv, OneSocket, Recovers, OneBeat, Heard, Alive, Up, Down, Beaten, TypeOK
<1>5. IsOpen' => IsOpen
  BY <1>1, <1>2 DEF IsOpen, TypeOK
<1>6. QueueIsRecent'
  BY <1>1, <1>5 DEF ContentInv, QueueIsRecent
<1> QED
  BY <1>3, <1>4, <1>6 DEF ContentInv, ClientInv

LEMMA CloseStep ==
  ASSUME ContentInv, NEW s \in Sockets, SocketEnds(s)
  PROVE  ContentInv'
<1>1. /\ sock[s] # "closed" /\ sock' = [sock EXCEPT ![s] = "closed"]
      /\ handled' = handled \ {s} /\ orphans' = orphans \ {s}
      /\ UNCHANGED <<queue, sent, made, signedIn, token, calls>>
  BY DEF SocketEnds, SocketCloses, SocketFails, messages
<1>2. TypeOK /\ sock' \in [Sockets -> {"connecting", "open", "closing", "closed"}]
      /\ sock'[s] = "closed" /\ \A t \in Sockets \ {s} : sock'[t] = sock[t]
  BY <1>1 DEF ContentInv, ClientInv, TypeOK
<1>3. CASE s \in handled
  <2>1. s = socket /\ handled = {s} /\ handled' = {}
    BY <1>1, <1>3 DEF ContentInv, ClientInv, OneSocket
  <2>2. socket' \in {socket, NoSocket} /\ status' = "disconnected" /\ ping' = FALSE /\ beats' = 0
    BY <1>3, ClearPingStops
       DEF SocketEnds, SocketCloses, SocketFails, HandleClose, ContentInv, ClientInv
  <2>3. timer' \in BOOLEAN /\ stopped' \in BOOLEAN /\ (stopped' \/ timer')
    <3>1. CASE SocketFails(s)
      BY <1>2, <1>3, <3>1 DEF SocketFails, TypeOK
    <3>2. CASE SocketCloses(s)
      <4>1. status = "connected"
        BY <1>3, <3>2 DEF SocketCloses, ContentInv, ClientInv, Up
      <4>2. PICK policy \in BOOLEAN : HandleClose(policy) /\ stopped' = policy
        BY <1>3, <3>2 DEF SocketCloses
      <4>3. timer' = (timer \/ ~policy)
        BY <4>1, <4>2 DEF HandleClose
      <4> QED
        BY <1>2, <4>2, <4>3 DEF TypeOK
    <3> QED
      BY <3>1, <3>2 DEF SocketEnds
  <2>4. TypeOK'
    BY <1>1, <1>2, <2>1, <2>2, <2>3 DEF TypeOK
  <2>5. OneSocket'
    BY <1>1, <1>2, <2>1, <2>2 DEF ContentInv, ClientInv, OneSocket
  <2>6. Recovers' /\ OneBeat' /\ Heard' /\ Alive' /\ Up' /\ Down' /\ Beaten'
    BY <1>1, <1>2, <2>1, <2>2, <2>3 DEF Recovers, OneBeat, Heard, Alive, Up, Down, Beaten
  <2>7. ~IsOpen'
    BY <1>2, <2>1, <2>2 DEF IsOpen
  <2>8. QueueIsRecent'
    BY <1>1, <2>7 DEF ContentInv, QueueIsRecent
  <2> QED
    BY <2>4, <2>5, <2>6, <2>8 DEF ContentInv, ClientInv
<1>4. CASE s \notin handled
  <2>1. UNCHANGED <<socket, status, timer, ping, beats, stopped, handled>>
    BY <1>1, <1>4 DEF SocketEnds, SocketCloses, SocketFails, timers
  <2>2. s # socket
    BY <1>1, <1>4, NumbersOfSockets DEF ContentInv, ClientInv, Heard
  <2>3. TypeOK'
    BY <1>1, <1>2, <2>1 DEF TypeOK
  <2>4. OneSocket' /\ Heard' /\ Alive' /\ Up'
    BY <1>1, <1>2, <1>4, <2>1, <2>2
       DEF ContentInv, ClientInv, OneSocket, Heard, Alive, Up, TypeOK
  <2>5. Recovers' /\ OneBeat' /\ Down' /\ Beaten'
    BY <1>1, <2>1 DEF ContentInv, ClientInv, Recovers, OneBeat, Down, Beaten
  <2>6. IsOpen' => IsOpen
    BY <1>2, <2>1, <2>2 DEF IsOpen, TypeOK
  <2>7. QueueIsRecent'
    BY <1>1, <2>6 DEF ContentInv, QueueIsRecent
  <2> QED
    BY <2>3, <2>4, <2>5, <2>7 DEF ContentInv, ClientInv
<1> QED
  BY <1>3, <1>4

LEMMA ContentInvariant == Spec => []ContentInv
<1>1. Init => ContentInv
  <2> SUFFICES ASSUME Init PROVE ContentInv
    OBVIOUS
  <2>1. queue = << >> /\ Len(queue) = 0 /\ made = 0 /\ sent = 0
    BY DEF Init
  <2>2. TypeOK
    <3>1. queue \in Seq(1..made) /\ Len(queue) <= QueueSizeLimit /\ made \in 0..MaxMessages
      BY <2>1, ContentClientAssumption
    <3>2. sock \in [Sockets -> {"connecting", "open", "closing", "closed"}]
      BY DEF Init
    <3>3. sent \in 0..made /\ beats \in Nat /\ calls \in 0..MaxCalls
      BY ContentClientAssumption DEF Init
    <3>4. /\ socket = NoSocket /\ handled = {} /\ orphans = {} /\ status = "disconnected"
          /\ timer = FALSE /\ ping = FALSE /\ signedIn = FALSE /\ token = FALSE /\ stopped = FALSE
      BY DEF Init
    <3> QED
      BY <3>1, <3>2, <3>3, <3>4 DEF TypeOK
  <2>3. QueueIsRecent
    BY <2>1, ContentClientAssumption DEF QueueIsRecent
  <2> QED
    BY <2>2, <2>3
       DEF Init, ContentInv, ClientInv, OneSocket, Recovers, OneBeat, Heard, Alive, Up, Down, Beaten
<1>2. ContentInv /\ [Next]_vars => ContentInv'
  <2> SUFFICES ASSUME ContentInv, [Next]_vars PROVE ContentInv'
    OBVIOUS
  <2>types. /\ signedIn \in BOOLEAN /\ token \in BOOLEAN /\ stopped \in BOOLEAN /\ timer \in BOOLEAN
            /\ calls \in 0..MaxCalls /\ MaxCalls \in Nat
    BY ContentClientAssumption DEF ContentInv, ClientInv, TypeOK
  <2>call. Call => calls' \in 0..MaxCalls
    BY <2>types DEF Call
  <2>1. CASE SignIn
    BY <2>1, <2>types, <2>call, ReconnectStep DEF SignIn
  <2>2. CASE SignOut
    BY <2>2, <2>types, <2>call, DisconnectStep DEF SignOut
  <2>3. CASE Mount
    BY <2>3, <2>types, <2>call, ReconnectStep DEF Mount
  <2>4. CASE UnloadCancelled
    BY <2>4, <2>types, <2>call, DisconnectStep DEF UnloadCancelled
  <2>5. CASE ReconnectTimer
    BY <2>5, <2>types, ReconnectStep DEF ReconnectTimer
  <2>6. CASE Inactive
    BY <2>6, <2>types, ReconnectStep DEF Inactive
  <2>7. CASE PingTick
    BY <2>7, PingStep
  <2>8. CASE Send
    BY <2>8, SendStep
  <2>9. ASSUME NEW s \in Sockets, SocketOpens(s) \/ RemoteCloses(s) \/ SocketEnds(s)
        PROVE ContentInv'
    BY <2>9, OpenStep, RemoteStep, CloseStep
  <2>10. CASE UNCHANGED vars
    BY <2>10 DEF vars, net, timers, messages, ContentInv, ClientInv, TypeOK, OneSocket, Recovers,
                 OneBeat, Heard, Alive, Up, Down, Beaten, QueueIsRecent, IsOpen
  <2> QED
    BY <2>1, <2>2, <2>3, <2>4, <2>5, <2>6, <2>7, <2>8, <2>9, <2>10 DEF Next
<1> QED
  BY <1>1, <1>2, PTL DEF Spec

(***************************************************************************)
(* The theorems.                                                           *)
(***************************************************************************)

(* Every field keeps its type, and the queue its limit, whatever the page calls and
   in whatever order events and timers arrive. *)
THEOREM ContentTypeCorrect == Spec => []TypeOK
<1>1. ContentInv => TypeOK
  BY DEF ContentInv, ClientInv
<1> QED
  BY <1>1, ContentInvariant, PTL

(* The service hears of one socket only, and a tab has no other but those it let go
   of while they were connecting. *)
THEOREM ContentOneSocket == Spec => []OneSocket
<1>1. ContentInv => OneSocket
  BY DEF ContentInv, ClientInv
<1> QED
  BY <1>1, ContentInvariant, PTL

(* The queue holds the newest unsent messages in order, and none over an open
   connection. *)
THEOREM ContentQueue == Spec => []QueueIsRecent
<1>1. ContentInv => QueueIsRecent
  BY DEF ContentInv
<1> QED
  BY <1>1, ContentInvariant, PTL

(* A signed-in client without a connection has a timer that will connect it, unless
   it was refused for its token, closed for policy or disconnected by an unload. *)
THEOREM ContentRecovers == Spec => []Recovers
<1>1. ContentInv => Recovers
  BY DEF ContentInv, ClientInv
<1> QED
  BY <1>1, ContentInvariant, PTL

(* However many connections were made and lost, one ping interval runs at most, and
   the field ping says whether it does. *)
THEOREM ContentOneBeat == Spec => []OneBeat
<1>1. ContentInv => OneBeat
  BY DEF ContentInv, ClientInv
<1> QED
  BY <1>1, ContentInvariant, PTL
=============================================================================
