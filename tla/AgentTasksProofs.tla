------------------------- MODULE AgentTasksProofs -------------------------
(***************************************************************************)
(* Proofs about AgentTasks, for any requests, tasks and shutdown events    *)
(* and any number of faults.                                               *)
(***************************************************************************)
EXTENDS AgentTasks, TLAPS

Busy == {"handling", "answering", "acking"}

(* What the agent handles, and when it has none. *)
Handling ==
  /\ message # NoMessage <=> agent \in Busy
  /\ agent = "answering" => message \notin Shutdowns

(* What the broker still owes the agent. *)
Owed == Held \o queue

(* Owed is what is left of accepted after the n messages that are settled. *)
Split(n) ==
  /\ settled = {accepted[i] : i \in 1..n}
  /\ Len(Owed) = Len(accepted) - n
  /\ \A i \in 1..Len(Owed) : Owed[i] = accepted[n + i]

Settling == \E n \in 0..Len(accepted) : Split(n)

Queued(m) == \E i \in 1..Len(queue) : queue[i] = m

(* A message is sent once, and appears nowhere before. *)
Once ==
  /\ \A i, j \in 1..Len(accepted) : accepted[i] = accepted[j] => i = j
  /\ \A i \in 1..Len(accepted) : outcome[accepted[i]] # "unsent"
  /\ \A m \in Messages : outcome[m] = "unsent" => performed[m] = 0 /\ ~Queued(m) /\ message # m

(* Every time a task waits or is being handled takes a fault beyond the first. *)
Pending(m) == (IF Queued(m) THEN 1 ELSE 0) + (IF message = m /\ agent = "handling" THEN 1 ELSE 0)

Counted == \A m \in Requests \cup Casts : performed[m] + Pending(m) <= 1 + faults

Answered ==
  /\ SettledIsAnswered
  /\ agent = "acking" /\ message \in Requests => message \in replied

OwnAnswers == \A r \in Requests : responses[r] \in Seq({r})

TaskInv == /\ TypeOK /\ Handling /\ Settling /\ Once /\ Counted /\ Answered /\ OwnAnswers

-----------------------------------------------------------------------------
(***************************************************************************)
(* Sequences.                                                              *)
(***************************************************************************)
LEMMA ConsIndex ==
  ASSUME NEW S, NEW a \in S, NEW q \in Seq(S)
  PROVE  /\ <<a>> \o q \in Seq(S) /\ Len(<<a>> \o q) = Len(q) + 1
         /\ (<<a>> \o q)[1] = a
         /\ \A i \in 1..Len(q) : (<<a>> \o q)[i + 1] = q[i]
OBVIOUS

LEMMA HeadTail ==
  ASSUME NEW S, NEW q \in Seq(S), q # << >>
  PROVE  /\ Head(q) \in S /\ Tail(q) \in Seq(S)
         /\ q[1] = Head(q) /\ Len(q) = Len(Tail(q)) + 1 /\ Len(Tail(q)) \in Nat
         /\ \A i \in 1..Len(Tail(q)) : q[i + 1] = Tail(q)[i]
OBVIOUS

LEMMA SameSequence ==
  ASSUME NEW S, NEW p \in Seq(S), NEW q \in Seq(S), Len(p) = Len(q),
         \A i \in 1..Len(p) : p[i] = q[i]
  PROVE  p = q
OBVIOUS

LEMMA HeadThenTail ==
  ASSUME NEW S, NEW q \in Seq(S), q # << >>
  PROVE  <<Head(q)>> \o Tail(q) = q
<1>1. /\ Head(q) \in S /\ Tail(q) \in Seq(S)
      /\ q[1] = Head(q) /\ Len(q) = Len(Tail(q)) + 1 /\ Len(Tail(q)) \in Nat
      /\ \A i \in 1..Len(Tail(q)) : q[i + 1] = Tail(q)[i]
  BY HeadTail
<1> DEFINE p == <<Head(q)>> \o Tail(q)
<1>2. /\ p \in Seq(S) /\ Len(p) = Len(Tail(q)) + 1 /\ p[1] = Head(q)
      /\ \A i \in 1..Len(Tail(q)) : p[i + 1] = Tail(q)[i]
  BY <1>1, ConsIndex
<1> HIDE DEF p
<1>3. ASSUME NEW i \in 1..Len(p) PROVE p[i] = q[i]
  <2>1. CASE i = 1
    BY <1>1, <1>2, <2>1
  <2>2. CASE i # 1
    <3>1. i - 1 \in 1..Len(Tail(q)) /\ (i - 1) + 1 = i
      BY <1>1, <1>2, <2>2
    <3> QED
      BY <1>1, <1>2, <3>1
  <2> QED
    BY <2>1, <2>2
<1>4. p = q
  BY <1>1, <1>2, <1>3, SameSequence
<1> QED
  BY <1>4 DEF p

(* A message that is put in front, or taken from it, and the others. *)
LEMMA QueuedInFront ==
  ASSUME NEW S, NEW a \in S, NEW q \in Seq(S), NEW m
  PROVE  (\E i \in 1..Len(<<a>> \o q) : (<<a>> \o q)[i] = m)
           <=> m = a \/ \E i \in 1..Len(q) : q[i] = m
<1> DEFINE p == <<a>> \o q
<1>1. /\ Len(p) = Len(q) + 1 /\ p[1] = a /\ Len(q) \in Nat
      /\ \A i \in 1..Len(q) : p[i + 1] = q[i]
  BY ConsIndex
<1> HIDE DEF p
<1>2. ASSUME NEW i \in 1..Len(p), p[i] = m PROVE m = a \/ \E j \in 1..Len(q) : q[j] = m
  <2>1. CASE i = 1
    BY <1>1, <1>2, <2>1
  <2>2. CASE i # 1
    <3>1. i - 1 \in 1..Len(q) /\ (i - 1) + 1 = i
      BY <1>1, <2>2
    <3> QED
      BY <1>1, <1>2, <3>1
  <2> QED
    BY <2>1, <2>2
<1>3. 1 \in 1..Len(p)
  BY <1>1
<1>4. ASSUME NEW i \in 1..Len(q), q[i] = m PROVE \E j \in 1..Len(p) : p[j] = m
  <2>1. i + 1 \in 1..Len(p) /\ p[i + 1] = m
    BY <1>1, <1>4
  <2> QED
    BY <2>1
<1>5. (\E i \in 1..Len(p) : p[i] = m) <=> m = a \/ \E i \in 1..Len(q) : q[i] = m
  BY <1>1, <1>2, <1>3, <1>4
<1> QED
  BY <1>5 DEF p

LEMMA QueuedAtEnd ==
  ASSUME NEW S, NEW a \in S, NEW q \in Seq(S), NEW m
  PROVE  (\E i \in 1..Len(Append(q, a)) : Append(q, a)[i] = m)
           => m = a \/ \E i \in 1..Len(q) : q[i] = m
OBVIOUS

-----------------------------------------------------------------------------
(***************************************************************************)
(* What the broker owes.                                                   *)
(***************************************************************************)
LEMMA EmptyInFront ==
  ASSUME NEW S, NEW q \in Seq(S)
  PROVE  << >> \o q = q
OBVIOUS

LEMMA OwedTyped ==
  ASSUME TypeOK
  PROVE  /\ Owed \in Seq(Messages) /\ Len(Owed) \in Nat /\ Len(queue) \in Nat /\ Len(accepted) \in Nat
         /\ linked /\ message # NoMessage => Owed = <<message>> \o queue
         /\ ~(linked /\ message # NoMessage) => Owed = queue
<1>1. queue \in Seq(Messages) /\ accepted \in Seq(Messages) /\ message \in Messages \cup {NoMessage}
  BY DEF TypeOK
<1>2. CASE linked /\ message # NoMessage
  <2>1. Owed = <<message>> \o queue /\ message \in Messages
    BY <1>1, <1>2 DEF Owed, Held
  <2> QED
    BY <1>1, <1>2, <2>1, ConsIndex
<1>3. CASE ~(linked /\ message # NoMessage)
  <2>1. Owed = << >> \o queue
    BY <1>3 DEF Owed, Held
  <2>2. Owed = queue
    BY <1>1, <2>1, EmptyInFront
  <2> QED
    BY <1>1, <1>3, <2>2
<1> QED
  BY <1>2, <1>3

LEMMA SettlingKept ==
  ASSUME Settling, UNCHANGED <<settled, accepted>>, Owed' = Owed
  PROVE  Settling'
BY DEF Settling, Split

LEMMA SettlingAppended ==
  ASSUME TypeOK, Settling, NEW m \in Messages, Owed' = Append(Owed, m),
         accepted' = Append(accepted, m), settled' = settled
  PROVE  Settling'
<1>1. PICK n \in 0..Len(accepted) : Split(n)
  BY DEF Settling
<1>2. /\ Owed \in Seq(Messages) /\ accepted \in Seq(Messages)
      /\ Len(Owed) \in Nat /\ Len(accepted) \in Nat
  BY OwedTyped DEF TypeOK
<1>3. /\ Len(Owed') = Len(Owed) + 1 /\ Owed'[Len(Owed) + 1] = m
      /\ \A i \in 1..Len(Owed) : Owed'[i] = Owed[i]
  BY <1>2
<1>4. /\ Len(accepted') = Len(accepted) + 1 /\ accepted'[Len(accepted) + 1] = m
      /\ \A i \in 1..Len(accepted) : accepted'[i] = accepted[i]
  BY <1>2
<1>5. /\ settled = {accepted[i] : i \in 1..n} /\ Len(Owed) = Len(accepted) - n
      /\ \A i \in 1..Len(Owed) : Owed[i] = accepted[n + i]
  BY <1>1 DEF Split
<1>6. settled' = {accepted'[i] : i \in 1..n}
  BY <1>2, <1>4, <1>5
<1>7. ASSUME NEW i \in 1..Len(Owed') PROVE Owed'[i] = accepted'[n + i]
  <2>1. CASE i = Len(Owed) + 1
    BY <1>2, <1>3, <1>4, <1>5, <2>1
  <2>2. CASE i # Len(Owed) + 1
    <3>1. i \in 1..Len(Owed) /\ n + i \in 1..Len(accepted)
      <4>1. Len(Owed) \in Nat /\ Len(accepted) \in Nat /\ n \in Nat /\ i \in Nat
            /\ 1 <= i /\ i <= Len(Owed) + 1 /\ Len(Owed) = Len(accepted) - n
        BY <1>2, <1>3, <1>5
      <4> QED
        BY <2>2, <4>1
    <3> QED
      BY <1>3, <1>4, <1>5, <3>1
  <2> QED
    BY <2>1, <2>2
<1>8. n \in 0..Len(accepted') /\ Len(Owed') = Len(accepted') - n
  BY <1>2, <1>3, <1>4, <1>5
<1> QED
  BY <1>6, <1>7, <1>8 DEF Settling, Split

LEMMA SettlingAcknowledged ==
  ASSUME TypeOK, Settling, message \in Messages, Owed = <<message>> \o queue, Owed' = queue,
         settled' = settled \cup {message}, accepted' = accepted
  PROVE  Settling'
<1>1. PICK n \in 0..Len(accepted) : Split(n)
  BY DEF Settling
<1>2. /\ queue \in Seq(Messages) /\ Len(queue) \in Nat /\ Len(accepted) \in Nat
  BY OwedTyped DEF TypeOK
<1>3. /\ Len(Owed) = Len(queue) + 1 /\ Owed[1] = message
      /\ \A i \in 1..Len(queue) : Owed[i + 1] = queue[i]
  BY <1>2, ConsIndex
<1>4. /\ settled = {accepted[i] : i \in 1..n} /\ Len(Owed) = Len(accepted) - n
      /\ \A i \in 1..Len(Owed) : Owed[i] = accepted[n + i]
  BY <1>1 DEF Split
<1>5. message = accepted[n + 1]
  BY <1>2, <1>3, <1>4
<1>6. 1..(n + 1) = (1..n) \cup {n + 1}
  OBVIOUS
<1>7. settled' = {accepted'[i] : i \in 1..(n + 1)}
  BY <1>4, <1>5, <1>6
<1>8. ASSUME NEW i \in 1..Len(Owed') PROVE Owed'[i] = accepted'[(n + 1) + i]
  <2>1. i \in 1..Len(queue) /\ i + 1 \in 1..Len(Owed) /\ n + (i + 1) = (n + 1) + i
    BY <1>2, <1>3
  <2> QED
    BY <1>3, <1>4, <2>1
<1>9. n + 1 \in 0..Len(accepted') /\ Len(Owed') = Len(accepted') - (n + 1)
  BY <1>2, <1>3, <1>4
<1> QED
  BY <1>7, <1>8, <1>9 DEF Settling, Split

(* Nothing waits twice. *)
LEMMA QueueDistinct ==
  ASSUME TypeOK, Settling, Once, Owed = queue
  PROVE  \A i, j \in 1..Len(queue) : queue[i] = queue[j] => i = j
<1>1. PICK n \in 0..Len(accepted) : Split(n)
  BY DEF Settling
<1>2. Len(queue) \in Nat /\ Len(accepted) \in Nat
  BY OwedTyped
<1>3. TAKE i, j \in 1..Len(queue)
<1>4. queue[i] = accepted[n + i] /\ queue[j] = accepted[n + j] /\ Len(queue) = Len(accepted) - n
  BY <1>1 DEF Split
<1>5. n + i \in 1..Len(accepted) /\ n + j \in 1..Len(accepted)
  BY <1>2, <1>4
<1>6. queue[i] = queue[j] => n + i = n + j
  BY <1>4, <1>5 DEF Once
<1> QED
  BY <1>6

(* The broker takes back what it delivered. *)
LEMMA UnlinkKeeps ==
  ASSUME TypeOK, Unlink
  PROVE  /\ linked' = FALSE /\ queue' \in Seq(Messages)
         /\ Owed' = Owed
         /\ \A m \in Messages : Queued(m)' => Queued(m) \/ m = message
<1>1. queue \in Seq(Messages) /\ message \in Messages \cup {NoMessage} /\ linked' = FALSE
  BY DEF TypeOK, Unlink
<1>2. CASE linked /\ message # NoMessage
  <2>1. queue' = <<message>> \o queue /\ message \in Messages
    BY <1>1, <1>2 DEF Unlink
  <2>2. queue' \in Seq(Messages)
    BY <1>1, <2>1, ConsIndex
  <2>3. Owed' = queue'
    BY <1>1, <2>2, EmptyInFront DEF Owed, Held
  <2>4. ASSUME NEW m \in Messages, Queued(m)' PROVE Queued(m) \/ m = message
    BY <1>1, <2>1, <2>4, QueuedInFront DEF Queued
  <2> QED
    BY <1>1, <1>2, <2>1, <2>2, <2>3, <2>4, OwedTyped
<1>3. CASE ~(linked /\ message # NoMessage)
  <2>1. queue' = queue
    BY <1>3 DEF Unlink
  <2>2. Owed' = queue'
    BY <1>1, <2>1, EmptyInFront DEF Owed, Held
  <2> QED
    BY <1>1, <1>3, <2>1, <2>2, OwedTyped DEF Queued
<1> QED
  BY <1>2, <1>3

-----------------------------------------------------------------------------
(***************************************************************************)
(* The senders.                                                            *)
(***************************************************************************)

(* A message is offered to the queue, which may be missing. *)
LEMMA OfferStep ==
  ASSUME TaskInv, NEW m \in Messages, outcome[m] = "unsent",
         NEW o \in {"sent", "waiting", "error"}, outcome' = [outcome EXCEPT ![m] = o],
         Publish(m) \/ UNCHANGED <<queue, accepted>>,
         UNCHANGED <<declared, linked, responses, agent, message, settled, performed, replied>>,
         faults' \in 0..MaxFaults, faults <= faults'
  PROVE  TaskInv'
<1>1. /\ TypeOK /\ Handling /\ Settling /\ Once /\ Counted /\ Answered /\ OwnAnswers
      /\ faults \in Nat /\ faults' \in Nat
  BY AgentAssumption DEF TaskInv, TypeOK
<1>2. /\ queue \in Seq(Messages) /\ accepted \in Seq(Messages)
      /\ outcome \in [Messages -> Words \cup Requests] /\ performed \in [Messages -> Nat]
      /\ Len(queue) \in Nat /\ Len(accepted) \in Nat
  BY <1>1, OwedTyped DEF TypeOK
<1>3. \/ queue' = Append(queue, m) /\ accepted' = Append(accepted, m)
      \/ queue' = queue /\ accepted' = accepted
  BY DEF Publish
<1>4. TypeOK'
  <2>1. queue' \in Seq(Messages) /\ accepted' \in Seq(Messages)
    <3>1. \A q \in Seq(Messages) : Append(q, m) \in Seq(Messages)
      OBVIOUS
    <3> QED
      BY <1>2, <1>3, <3>1
  <2>2. outcome' \in [Messages -> Words \cup Requests]
    BY <1>2 DEF Words
  <2> QED
    BY <1>1, <2>1, <2>2 DEF TypeOK
<1>5. Settling'
  <2>1. CASE queue' = Append(queue, m) /\ accepted' = Append(accepted, m)
    <3>1. Held' = Held
      BY DEF Held
    <3>2. Held \in Seq(Messages)
      BY <1>1 DEF Held, TypeOK
    <3>3. \A h \in Seq(Messages) : h \o Append(queue, m) = Append(h \o queue, m)
      BY <1>2
    <3>4. Owed' = Append(Owed, m)
      BY <2>1, <3>1, <3>2, <3>3 DEF Owed
    <3> QED
      BY <1>1, <2>1, <3>4, SettlingAppended
  <2>2. CASE queue' = queue /\ accepted' = accepted
    <3>1. Owed' = Owed
      BY <2>2 DEF Owed, Held
    <3> QED
      BY <1>1, <2>2, <3>1, SettlingKept
  <2> QED
    BY <1>3, <2>1, <2>2
<1>6. ASSUME NEW k \in Messages, Queued(k)' PROVE Queued(k) \/ k = m
  <2>1. CASE queue' = Append(queue, m)
    BY <1>2, <1>6, <2>1, QueuedAtEnd DEF Queued
  <2>2. CASE queue' = queue
    BY <1>6, <2>2 DEF Queued
  <2> QED
    BY <1>3, <2>1, <2>2
<1>7. \A k \in Messages : outcome'[k] = IF k = m THEN o ELSE outcome[k]
  BY <1>2
<1>8. Once'
  <2>1. CASE accepted' = Append(accepted, m)
    <3>1. /\ Len(accepted') = Len(accepted) + 1 /\ accepted'[Len(accepted) + 1] = m
          /\ \A i \in 1..Len(accepted) : accepted'[i] = accepted[i] /\ accepted[i] \in Messages
      BY <1>2, <2>1
    <3>2. \A i \in 1..Len(accepted) : accepted[i] # m
      BY <1>1 DEF Once
    <3>3. \A i, j \in 1..Len(accepted') : accepted'[i] = accepted'[j] => i = j
      <4> TAKE i, j \in 1..Len(accepted')
      <4>1. /\ i = Len(accepted) + 1 \/ i \in 1..Len(accepted)
            /\ j = Len(accepted) + 1 \/ j \in 1..Len(accepted)
        BY <1>2, <3>1
      <4> QED
        BY <1>1, <3>1, <3>2, <4>1 DEF Once
    <3>4. \A i \in 1..Len(accepted') : outcome'[accepted'[i]] # "unsent"
      <4> TAKE i \in 1..Len(accepted')
      <4>1. i = Len(accepted) + 1 \/ i \in 1..Len(accepted)
        BY <1>2, <3>1
      <4> QED
        BY <1>1, <1>2, <1>7, <3>1, <3>2, <4>1 DEF Once
    <3>5. \A k \in Messages : outcome'[k] = "unsent" => performed'[k] = 0 /\ ~Queued(k)' /\ message' # k
      BY <1>1, <1>6, <1>7 DEF Once
    <3> QED
      BY <3>3, <3>4, <3>5 DEF Once
  <2>2. CASE accepted' = accepted
    <3>1. \A i \in 1..Len(accepted) : accepted[i] \in Messages
      BY <1>2
    <3>2. \A i \in 1..Len(accepted') : outcome'[accepted'[i]] # "unsent"
      BY <1>1, <1>7, <2>2, <3>1 DEF Once
    <3>3. \A k \in Messages : outcome'[k] = "unsent" => performed'[k] = 0 /\ ~Queued(k)' /\ message' # k
      BY <1>1, <1>6, <1>7 DEF Once
    <3> QED
      BY <1>1, <2>2, <3>2, <3>3 DEF Once
  <2> QED
    BY <1>3, <2>1, <2>2
<1>9. Counted'
  <2> SUFFICES ASSUME NEW k \in Requests \cup Casts
               PROVE  (performed[k] + Pending(k) <= 1 + faults)'
    BY DEF Counted
  <2>1. k \in Messages /\ performed[k] \in Nat /\ performed'[k] = performed[k]
    BY <1>2 DEF Messages
  <2>2. CASE k = m
    <3>1. performed'[k] = 0 /\ Pending(k)' \in {0, 1}
      BY <1>1, <2>1, <2>2 DEF Once, Pending
    <3> QED
      BY <1>1, <3>1
  <2>3. CASE k # m
    <3>1. Pending(k)' <= Pending(k) /\ Pending(k) \in Nat /\ Pending(k)' \in Nat
      BY <1>6, <2>1, <2>3 DEF Pending
    <3>2. performed[k] + Pending(k) <= 1 + faults
      BY <1>1 DEF Counted
    <3> QED
      BY <1>1, <2>1, <3>1, <3>2
  <2> QED
    BY <2>2, <2>3
<1>10. Handling' /\ Answered' /\ OwnAnswers'
  BY <1>1 DEF Handling, Answered, SettledIsAnswered, OwnAnswers
<1> QED
  BY <1>4, <1>5, <1>8, <1>9, <1>10 DEF TaskInv

(* What a request learns changes nothing else but its responses. *)
LEMMA AskerStep ==
  ASSUME TaskInv, NEW r \in Requests, SenderStep(r)
  PROVE  TaskInv'
<1>1. /\ TypeOK /\ Handling /\ Settling /\ Once /\ Counted /\ Answered /\ OwnAnswers
      /\ r \in Messages
  BY DEF TaskInv, Messages
<1>2. /\ UNCHANGED <<declared, queue, linked, agent, message, accepted, settled, performed, replied, faults>>
  BY DEF SenderStep, ReceiveAnswer, RequestTimeout, LateAnswer, broker, history
<1>3. /\ responses' \in [Requests -> Seq(Requests)] /\ OwnAnswers'
      /\ responses[r] # << >> => Head(responses[r]) = r
  <2>1. responses \in [Requests -> Seq(Requests)] /\ \A q \in Requests : responses[q] \in Seq({q})
    BY <1>1 DEF TypeOK, OwnAnswers
  <2>2. responses[r] # << >> => /\ Tail(responses[r]) \in Seq({r}) /\ Tail(responses[r]) \in Seq(Requests)
                                /\ Head(responses[r]) = r
    <3>1. ASSUME responses[r] # << >>
          PROVE  /\ Tail(responses[r]) \in Seq({r}) /\ Tail(responses[r]) \in Seq(Requests)
                 /\ Head(responses[r]) \in {r}
      BY <2>1, <3>1, HeadTail
    <3> QED
      BY <3>1
  <2>3. responses' = responses \/ (responses[r] # << >> /\ responses' = [responses EXCEPT ![r] = Tail(@)])
    BY DEF SenderStep, ReceiveAnswer, RequestTimeout, LateAnswer, ResponseQueue
  <2> QED
    BY <2>1, <2>2, <2>3 DEF OwnAnswers
<1>4. outcome' = outcome \/ (outcome[r] = "waiting" /\ \E o \in {r, "timeout"} : outcome' = [outcome EXCEPT ![r] = o])
  BY <1>3 DEF SenderStep, ReceiveAnswer, RequestTimeout, LateAnswer, ResponseQueue
<1>5. /\ outcome' \in [Messages -> Words \cup Requests]
      /\ \A m \in Messages : outcome'[m] = "unsent" => outcome[m] = "unsent"
      /\ \A m \in Messages : outcome[m] # "unsent" => outcome'[m] # "unsent"
  <2>1. outcome \in [Messages -> Words \cup Requests] /\ r # "unsent"
    BY <1>1, AgentAssumption DEF TypeOK, Words, Messages
  <2> QED
    BY <1>1, <1>4, <2>1 DEF Words
<1>6. TypeOK'
  BY <1>1, <1>2, <1>3, <1>5 DEF TypeOK
<1>7. Owed' = Owed /\ \A m \in Messages : Queued(m)' = Queued(m) /\ Pending(m)' = Pending(m)
  BY <1>2 DEF Owed, Held, Queued, Pending
<1>8. Settling'
  BY <1>1, <1>2, <1>7, SettlingKept
<1>9. Once'
  <2>1. \A i \in 1..Len(accepted) : accepted[i] \in Messages
    BY <1>1 DEF TypeOK
  <2> QED
    BY <1>1, <1>2, <1>5, <1>7, <2>1 DEF Once
<1>10. Counted'
  BY <1>1, <1>2, <1>7 DEF Counted, Messages
<1>11. Handling' /\ Answered'
  BY <1>1, <1>2 DEF Handling, Answered, SettledIsAnswered
<1> QED
  BY <1>3, <1>6, <1>8, <1>9, <1>10, <1>11 DEF TaskInv

-----------------------------------------------------------------------------
(***************************************************************************)
(* The agent.  No step of it is a sender's: what was not sent stays        *)
(* unknown, and what it takes for itself it took from the queue.           *)
(***************************************************************************)
LEMMA AgentKeeps ==
  ASSUME TaskInv, UNCHANGED <<accepted, outcome>>,
         TypeOK', Handling', Settling', Answered', OwnAnswers',
         \A m \in Messages : Queued(m)' => Queued(m) \/ m = message,
         \A m \in Messages : message' = m => message = m \/ Queued(m),
         \A m \in Messages : performed'[m] = performed[m] \/ m = message,
         \A m \in Requests \cup Casts :
           performed'[m] + Pending(m)' <= performed[m] + Pending(m) + (faults' - faults)
  PROVE  TaskInv'
<1>1. /\ Once /\ Counted /\ faults \in Nat /\ faults' \in Nat
      /\ performed \in [Messages -> Nat] /\ performed' \in [Messages -> Nat]
  BY AgentAssumption DEF TaskInv, TypeOK
<1>2. Once'
  BY <1>1 DEF Once
<1>3. Counted'
  <2> SUFFICES ASSUME NEW m \in Requests \cup Casts
               PROVE  (performed[m] + Pending(m) <= 1 + faults)'
    BY DEF Counted
  <2>1. performed[m] \in Nat /\ performed'[m] \in Nat
    BY <1>1 DEF Messages
  <2>2. Pending(m) \in Nat /\ Pending(m)' \in Nat
    BY DEF Pending
  <2>3. performed[m] + Pending(m) <= 1 + faults
    BY <1>1 DEF Counted
  <2>4. performed'[m] + Pending(m)' <= performed[m] + Pending(m) + (faults' - faults)
    OBVIOUS
  <2> QED
    BY <1>1, <2>1, <2>2, <2>3, <2>4
<1> QED
  BY <1>2, <1>3 DEF TaskInv

(* Steps that leave the queue and what was performed alone and start no handler. *)
LEMMA QuietKeeps ==
  ASSUME TaskInv, UNCHANGED <<accepted, outcome, queue, performed>>, faults <= faults',
         TypeOK', Handling', Settling', Answered', OwnAnswers',
         message' \in {message, NoMessage}, agent' # "handling"
  PROVE  TaskInv'
<1>1. TypeOK /\ faults \in Nat /\ faults' \in Nat /\ performed \in [Messages -> Nat]
  BY AgentAssumption DEF TaskInv, TypeOK
<1>2. \A m \in Messages : (Queued(m)' => Queued(m)) /\ m # NoMessage
  BY AgentAssumption DEF Queued
<1>3. ASSUME NEW m \in Requests \cup Casts
      PROVE  performed'[m] + Pending(m)' <= performed[m] + Pending(m) + (faults' - faults)
  <2>1. m \in Messages /\ performed[m] \in Nat /\ performed'[m] = performed[m]
    BY <1>1 DEF Messages
  <2>2. Pending(m) \in Nat /\ Pending(m)' \in Nat /\ Pending(m)' <= Pending(m)
    BY <1>2, <2>1 DEF Pending
  <2> QED
    BY <1>1, <2>1, <2>2
<1> QED
  BY <1>2, <1>3, AgentKeeps

LEMMA Parts ==
  ASSUME TaskInv
  PROVE  /\ TypeOK /\ Handling /\ Settling /\ Once /\ Counted /\ Answered /\ OwnAnswers
         /\ faults \in Nat /\ NoMessage \notin Messages
BY AgentAssumption DEF TaskInv, TypeOK

LEMMA StartStep ==
  ASSUME TaskInv, Start \/ StartFails \/ ConsumerEnds
  PROVE  TaskInv'
<1>1. /\ UNCHANGED <<queue, accepted, outcome, performed, settled, replied, responses, message>>
      /\ agent \in {"down", "consuming"} /\ agent' \in {"consuming", "idle"}
      /\ faults' \in 0..MaxFaults /\ faults <= faults'
      /\ declared' \in BOOLEAN /\ linked' \in BOOLEAN
  <2>1. /\ UNCHANGED <<queue, accepted, outcome, performed, settled, replied, responses, message>>
        /\ agent \in {"down", "consuming"} /\ agent' \in {"consuming", "idle"}
    BY DEF Start, StartFails, ConsumerEnds, broker, history
  <2>2. declared' \in BOOLEAN /\ linked' \in BOOLEAN
    BY Parts DEF Start, StartFails, ConsumerEnds, broker, TypeOK
  <2>3. faults' = faults \/ (faults < MaxFaults /\ faults' = faults + 1)
    BY DEF Start, StartFails, ConsumerEnds, Fault
  <2>4. faults \in 0..MaxFaults /\ MaxFaults \in Nat
    BY Parts, AgentAssumption DEF TypeOK
  <2>5. faults' \in 0..MaxFaults /\ faults <= faults'
    BY <2>3, <2>4
  <2> QED
    BY <2>1, <2>2, <2>5
<1>2. message = NoMessage
  BY <1>1, Parts DEF Handling, Busy
<1>3. TypeOK'
  BY <1>1, Parts DEF TypeOK
<1>4. Owed' = Owed
  BY <1>1, <1>2 DEF Owed, Held
<1>5. Settling'
  BY <1>1, <1>4, Parts, SettlingKept
<1>6. Handling' /\ Answered' /\ OwnAnswers'
  BY <1>1, <1>2, Parts DEF Handling, Busy, Answered, SettledIsAnswered, OwnAnswers
<1> QED
  BY <1>1, <1>3, <1>5, <1>6, QuietKeeps

LEMMA AnswerStep ==
  ASSUME TaskInv, PublishAnswer
  PROVE  TaskInv'
<1>1. /\ UNCHANGED <<queue, declared, linked, accepted, outcome, performed, settled, message, faults>>
      /\ agent = "answering" /\ agent' = "acking"
  BY DEF PublishAnswer, broker
<1>2. message \in Messages
  BY <1>1, Parts DEF Handling, Busy, TypeOK
<1>3. /\ responses' \in [Requests -> Seq(Requests)] /\ OwnAnswers'
      /\ replied' \subseteq Requests /\ replied \subseteq replied'
      /\ message \in Requests => message \in replied'
  <2>1. responses \in [Requests -> Seq(Requests)] /\ replied \subseteq Requests
        /\ \A r \in Requests : responses[r] \in Seq({r})
    BY Parts DEF TypeOK, OwnAnswers
  <2>2. CASE message \in Requests
    <3>1. /\ responses' = [responses EXCEPT ![message] = Append(@, message)]
          /\ replied' = replied \cup {message}
      BY <2>2 DEF PublishAnswer, ResponseQueue
    <3>2. /\ Append(responses[message], message) \in Seq(Requests)
          /\ Append(responses[message], message) \in Seq({message})
      BY <2>1, <2>2
    <3> QED
      BY <2>1, <2>2, <3>1, <3>2 DEF OwnAnswers
  <2>3. CASE message \notin Requests
    BY <2>1, <2>3 DEF PublishAnswer, OwnAnswers
  <2> QED
    BY <2>2, <2>3
<1>4. TypeOK'
  BY <1>1, <1>3, Parts DEF TypeOK
<1>5. Settling'
  BY <1>1, Parts, SettlingKept DEF Owed, Held
<1>6. Handling' /\ Answered'
  BY <1>1, <1>2, <1>3, Parts DEF Handling, Busy, Answered, SettledIsAnswered
<1> QED
  BY <1>1, <1>3, <1>4, <1>5, <1>6, Parts, QuietKeeps

LEMMA PublishFailsStep ==
  ASSUME TaskInv, PublishFails
  PROVE  TaskInv'
<1>1. /\ UNCHANGED <<queue, declared, linked, responses, accepted, outcome, performed, settled,
                     replied, faults>>
      /\ ~linked /\ agent' = "idle" /\ message' = NoMessage
  BY DEF PublishFails, broker, history
<1>2. TypeOK'
  BY <1>1, Parts DEF TypeOK
<1>3. Settling'
  BY <1>1, Parts, SettlingKept DEF Owed, Held
<1>4. Handling' /\ Answered' /\ OwnAnswers'
  BY <1>1, Parts DEF Handling, Busy, Answered, SettledIsAnswered, OwnAnswers
<1> QED
  BY <1>1, <1>2, <1>3, <1>4, Parts, QuietKeeps

LEMMA AcknowledgeStep ==
  ASSUME TaskInv, Acknowledge
  PROVE  TaskInv'
<1>1. /\ UNCHANGED <<queue, declared, linked, responses, accepted, outcome, performed, replied,
                     faults>>
      /\ agent = "acking" /\ message' = NoMessage /\ agent' \in {"consuming", "idle"}
  BY DEF Acknowledge, broker
<1>2. message \in Messages /\ message # NoMessage
  BY <1>1, Parts DEF Handling, Busy, TypeOK
<1>3. settled' = IF linked THEN settled \cup {message} ELSE settled
  BY DEF Acknowledge
<1>4. TypeOK'
  BY <1>1, <1>2, <1>3, Parts DEF TypeOK
<1>5. Owed' = queue
  BY <1>1, Parts, EmptyInFront DEF Owed, Held, TypeOK
<1>6. Settling'
  <2>1. CASE linked
    BY <1>1, <1>2, <1>3, <1>5, <2>1, Parts, OwedTyped, SettlingAcknowledged
  <2>2. CASE ~linked
    BY <1>1, <1>3, <1>5, <2>2, Parts, OwedTyped, SettlingKept
  <2> QED
    BY <2>1, <2>2
<1>7. Handling' /\ Answered' /\ OwnAnswers'
  BY <1>1, <1>2, <1>3, Parts DEF Handling, Busy, Answered, SettledIsAnswered, OwnAnswers
<1> QED
  BY <1>1, <1>4, <1>6, <1>7, Parts, QuietKeeps

LEMMA DeliverStep ==
  ASSUME TaskInv, Deliver
  PROVE  TaskInv'
<1>1. /\ UNCHANGED <<declared, linked, responses, outcome, accepted, settled, performed, replied,
                     faults>>
      /\ agent = "consuming" /\ linked /\ queue # << >>
      /\ message' = Head(queue) /\ queue' = Tail(queue) /\ agent' = "handling"
  BY DEF Deliver, history
<1>2. message = NoMessage
  BY <1>1, Parts DEF Handling, Busy
<1>3. queue \in Seq(Messages)
  BY Parts DEF TypeOK
<1>4. /\ Head(queue) \in Messages /\ Tail(queue) \in Seq(Messages)
      /\ queue[1] = Head(queue) /\ Len(queue) = Len(Tail(queue)) + 1 /\ Len(Tail(queue)) \in Nat
      /\ \A i \in 1..Len(Tail(queue)) : queue[i + 1] = Tail(queue)[i]
  BY <1>1, <1>3, HeadTail
<1>5. TypeOK'
  BY <1>1, <1>4, Parts DEF TypeOK
<1>6. Owed = queue /\ Owed' = queue
  <2>1. Owed = queue
    BY <1>2, Parts, OwedTyped
  <2>2. Head(queue) # NoMessage
    BY <1>4, Parts
  <2>3. Owed' = <<Head(queue)>> \o Tail(queue)
    BY <1>1, <2>2 DEF Owed, Held
  <2> QED
    BY <1>1, <1>3, <2>1, <2>3, HeadThenTail
<1>7. Settling'
  BY <1>1, <1>6, Parts, SettlingKept
<1>8. \A m \in Messages : Queued(m)' => Queued(m) /\ m # Head(queue)
  <2> SUFFICES ASSUME NEW m \in Messages, NEW i \in 1..Len(Tail(queue)), Tail(queue)[i] = m
               PROVE  Queued(m) /\ m # Head(queue)
    BY <1>1 DEF Queued
  <2>1. i + 1 \in 1..Len(queue) /\ 1 \in 1..Len(queue) /\ i + 1 # 1 /\ queue[i + 1] = m
    BY <1>4
  <2>2. \A j, k \in 1..Len(queue) : queue[j] = queue[k] => j = k
    BY <1>6, Parts, QueueDistinct
  <2> QED
    BY <1>4, <2>1, <2>2 DEF Queued
<1>9. Queued(Head(queue))
  <2>1. 1 \in 1..Len(queue)
    BY <1>4
  <2> QED
    BY <1>4, <2>1 DEF Queued
<1>10. Handling' /\ Answered' /\ OwnAnswers'
  BY <1>1, <1>4, Parts DEF Handling, Busy, Answered, SettledIsAnswered, OwnAnswers
<1>11. ASSUME NEW m \in Requests \cup Casts
       PROVE  performed'[m] + Pending(m)' <= performed[m] + Pending(m) + (faults' - faults)
  <2>1. /\ m \in Messages /\ performed'[m] = performed[m] /\ performed[m] \in Nat
        /\ faults' = faults /\ faults \in Nat
    BY <1>1, Parts DEF Messages, TypeOK
  <2>2. m # message /\ Pending(m) = IF Queued(m) THEN 1 ELSE 0
    BY <1>2, <2>1, Parts DEF Pending
  <2>3. CASE m = Head(queue)
    <3>1. Pending(m) = 1 /\ Pending(m)' = 1
      BY <1>1, <1>8, <1>9, <2>1, <2>2, <2>3 DEF Pending
    <3> QED
      BY <2>1, <3>1
  <2>4. CASE m # Head(queue)
    <3>1. Pending(m)' = IF Queued(m)' THEN 1 ELSE 0
      BY <1>1, <2>4 DEF Pending
    <3>2. Pending(m)' <= Pending(m) /\ Pending(m) \in Nat /\ Pending(m)' \in Nat
      BY <1>8, <2>1, <2>2, <3>1
    <3> QED
      BY <2>1, <3>2
  <2> QED
    BY <2>3, <2>4
<1>12. /\ \A m \in Messages : Queued(m)' => Queued(m) \/ m = message
       /\ \A m \in Messages : message' = m => message = m \/ Queued(m)
       /\ \A m \in Messages : performed'[m] = performed[m] \/ m = message
  BY <1>1, <1>8, <1>9
<1> QED
  BY <1>1, <1>5, <1>7, <1>10, <1>11, <1>12, AgentKeeps

LEMMA HandleStep ==
  ASSUME TaskInv, Handle
  PROVE  TaskInv'
<1>1. /\ UNCHANGED <<queue, declared, linked, responses, message, outcome, accepted, settled, faults>>
      /\ agent = "handling" /\ message \notin Shutdowns
      /\ performed' = [performed EXCEPT ![message] = @ + 1]
      /\ \/ agent' = "answering" /\ replied' = replied
         \/ agent' = "acking" /\ replied' = replied \cup ({message} \cap Requests)
  BY DEF Handle, broker
<1>2. message \in Messages /\ performed \in [Messages -> Nat]
  BY <1>1, Parts DEF Handling, Busy, TypeOK
<1>3. /\ performed' \in [Messages -> Nat]
      /\ \A m \in Messages : performed'[m] = IF m = message THEN performed[m] + 1 ELSE performed[m]
  BY <1>1, <1>2
<1>4. TypeOK'
  BY <1>1, <1>3, Parts DEF TypeOK
<1>5. Settling'
  BY <1>1, Parts, SettlingKept DEF Owed, Held
<1>6. Handling' /\ OwnAnswers'
  BY <1>1, <1>2, Parts DEF Handling, Busy, OwnAnswers
<1>7. Answered'
  BY <1>1, <1>2, Parts DEF Answered, SettledIsAnswered
<1>8. \A m \in Messages : Queued(m)' <=> Queued(m)
  BY <1>1 DEF Queued
<1>9. ASSUME NEW m \in Requests \cup Casts
      PROVE  performed'[m] + Pending(m)' <= performed[m] + Pending(m) + (faults' - faults)
  <2>1. /\ m \in Messages /\ performed[m] \in Nat /\ faults' = faults /\ faults \in Nat
        /\ performed'[m] = IF m = message THEN performed[m] + 1 ELSE performed[m]
    BY <1>1, <1>2, <1>3, Parts DEF Messages
  <2>2. Pending(m)' = IF Queued(m) THEN 1 ELSE 0
    BY <1>1, <1>8, <2>1 DEF Pending
  <2>3. Pending(m) = (IF Queued(m) THEN 1 ELSE 0) + (IF message = m THEN 1 ELSE 0)
    BY <1>1 DEF Pending
  <2> QED
    BY <2>1, <2>2, <2>3
<1> QED
  BY <1>1, <1>3, <1>4, <1>5, <1>6, <1>7, <1>8, <1>9, AgentKeeps

(* The connection ends: in the handler of a shutdown event, by a fault, or with the
   process. *)
LEMMA UnlinkStep ==
  ASSUME TaskInv, HandleShutdown \/ LoseConnection \/ Crash
  PROVE  TaskInv'
<1>1. /\ UNCHANGED <<declared, responses, outcome, accepted, settled, replied>> /\ Unlink
      /\ message' \in {message, NoMessage}
  BY DEF HandleShutdown, LoseConnection, Crash, history
<1>2. /\ linked' = FALSE /\ queue' \in Seq(Messages) /\ Owed' = Owed
      /\ \A m \in Messages : Queued(m)' => Queued(m) \/ m = message
  BY <1>1, Parts, UnlinkKeeps
<1>3. \/ faults' = faults /\ message \in Shutdowns /\ HandleShutdown
      \/ faults < MaxFaults /\ faults' = faults + 1 /\ performed' = performed
  BY DEF HandleShutdown, LoseConnection, Crash, Fault, history
<1>4. faults' \in 0..MaxFaults
  <2>1. faults \in 0..MaxFaults /\ MaxFaults \in Nat
    BY Parts, AgentAssumption DEF TypeOK
  <2> QED
    BY <1>3, <2>1
<1>5. /\ performed' \in [Messages -> Nat]
      /\ \A m \in Messages : performed'[m] = performed[m] \/ (m = message /\ m \in Shutdowns)
  <2>1. CASE message \in Shutdowns /\ HandleShutdown
    <3>1. message \in Messages /\ performed \in [Messages -> Nat]
      BY <2>1, Parts DEF TypeOK, Messages
    <3>2. performed' = [performed EXCEPT ![message] = performed[message] + 1]
      BY <2>1 DEF HandleShutdown
    <3> QED
      BY <2>1, <3>1, <3>2
  <2>2. CASE performed' = performed
    BY <2>2, Parts DEF TypeOK
  <2> QED
    BY <1>3, <2>1, <2>2
<1>6. /\ message' = NoMessage <=> agent' \notin Busy
      /\ agent' \in Busy \cup {"down", "consuming", "idle"}
      /\ agent' = "answering" => message' \notin Shutdowns
      /\ agent' = "acking" /\ message' \in Requests => message' \in replied
      /\ agent' = "handling" => agent = "handling"
  <2>1. CASE HandleShutdown
    BY <2>1, Parts, AgentAssumption DEF HandleShutdown, Busy, Handling, Messages
  <2>2. CASE LoseConnection
    BY <2>2, Parts DEF LoseConnection, Handling, Busy, TypeOK, Answered, SettledIsAnswered
  <2>3. CASE Crash
    BY <2>3 DEF Crash, Busy
  <2> QED
    BY <2>1, <2>2, <2>3
<1>7. TypeOK'
  BY <1>1, <1>2, <1>4, <1>5, <1>6, Parts DEF TypeOK, Busy
<1>8. Settling'
  BY <1>1, <1>2, Parts, SettlingKept
<1>9. Handling' /\ Answered' /\ OwnAnswers'
  BY <1>1, <1>6, Parts DEF Handling, Answered, SettledIsAnswered, OwnAnswers
<1>10. ASSUME NEW m \in Requests \cup Casts
       PROVE  performed'[m] + Pending(m)' <= performed[m] + Pending(m) + (faults' - faults)
  <2>1. /\ m \in Messages /\ m \notin Shutdowns /\ m # NoMessage
        /\ performed[m] \in Nat /\ performed'[m] = performed[m]
    BY <1>5, Parts, AgentAssumption DEF Messages, TypeOK
  <2>2. Queued(m)' => Queued(m) \/ m = message
    BY <1>2, <2>1
  <2>3. message' = m /\ agent' = "handling" => message = m /\ agent = "handling"
    BY <1>1, <1>6, <2>1
  <2>4. Pending(m) \in Nat /\ Pending(m)' \in Nat
    BY DEF Pending
  <2>5. CASE faults' = faults /\ message \in Shutdowns
    <3>1. Pending(m)' <= Pending(m)
      BY <2>1, <2>2, <2>3, <2>5 DEF Pending
    <3> QED
      BY <2>1, <2>4, <2>5, <3>1, Parts
  <2>6. CASE faults' = faults + 1
    <3>1. Pending(m)' <= Pending(m) + 1
      BY <2>1, <2>2, <2>3 DEF Pending
    <3> QED
      BY <2>1, <2>4, <2>6, <3>1, Parts
  <2> QED
    BY <1>3, <2>5, <2>6
<1>11. \A m \in Messages : message' = m => message = m \/ Queued(m)
  BY <1>1, Parts
<1> QED
  BY <1>1, <1>2, <1>5, <1>7, <1>8, <1>9, <1>10, <1>11, AgentKeeps

LEMMA TasksInvariant == Spec => []TaskInv
<1>1. Init => TaskInv
  <2> SUFFICES ASSUME Init PROVE TaskInv
    OBVIOUS
  <2>1. /\ \A S : << >> \in Seq(S)
        /\ Len(<< >>) = 0 /\ << >> \o << >> = << >>
    OBVIOUS
  <2>2. TypeOK
    <3>1. queue \in Seq(Messages) /\ accepted \in Seq(Messages)
      BY <2>1 DEF Init
    <3>2. responses \in [Requests -> Seq(Requests)]
      <4>1. << >> \in Seq(Requests)
        BY <2>1
      <4> QED
        BY <4>1 DEF Init
    <3>3. outcome \in [Messages -> Words \cup Requests] /\ performed \in [Messages -> Nat]
      BY DEF Init, Words
    <3>4. faults \in 0..MaxFaults
      BY AgentAssumption DEF Init
    <3>5. /\ declared \in BOOLEAN /\ linked \in BOOLEAN /\ agent = "down"
          /\ message \in Messages \cup {NoMessage}
          /\ settled \subseteq Messages /\ replied \subseteq Requests
      BY DEF Init
    <3> QED
      BY <3>1, <3>2, <3>3, <3>4, <3>5 DEF TypeOK
  <2>3. Settling
    BY <2>1 DEF Init, Settling, Split, Owed, Held
  <2>4. Handling /\ Answered /\ OwnAnswers
    BY <2>1 DEF Init, Handling, Busy, Answered, SettledIsAnswered, OwnAnswers
  <2>5. \A m \in Messages : ~Queued(m) /\ message # m /\ performed[m] = 0 /\ faults = 0
                           /\ agent = "down"
    BY <2>1, AgentAssumption DEF Init, Queued
  <2>6. Once
    BY <2>1, <2>5 DEF Init, Once
  <2>7. Counted
    BY <2>5 DEF Counted, Pending, Messages
  <2> QED
    BY <2>2, <2>3, <2>4, <2>6, <2>7 DEF TaskInv
<1>2. TaskInv /\ [Next]_vars => TaskInv'
  <2> SUFFICES ASSUME TaskInv, [Next]_vars PROVE TaskInv'
    OBVIOUS
  <2>1. ASSUME NEW m \in Messages, SendTask(m) PROVE TaskInv'
    <3>1. faults' \in 0..MaxFaults /\ faults <= faults' /\ outcome[m] = "unsent"
      BY <2>1, Parts DEF SendTask, TypeOK
    <3>2. PICK o \in {"sent", "waiting", "error"} : outcome' = [outcome EXCEPT ![m] = o]
      BY <2>1 DEF SendTask
    <3> QED
      BY <2>1, <3>1, <3>2, OfferStep DEF SendTask
  <2>2. ASSUME NEW m \in Messages, SendFails(m) PROVE TaskInv'
    <3>1. faults' \in 0..MaxFaults /\ faults <= faults'
      <4>1. faults \in 0..MaxFaults /\ MaxFaults \in Nat
        BY Parts, AgentAssumption DEF TypeOK
      <4> QED
        BY <2>2, <4>1 DEF SendFails, Fault
    <3>2. outcome' = [outcome EXCEPT ![m] = "error"] /\ outcome[m] = "unsent"
      BY <2>2 DEF SendFails
    <3> QED
      BY <2>2, <3>1, <3>2, OfferStep DEF SendFails
  <2>3. ASSUME NEW r \in Requests, SenderStep(r) PROVE TaskInv'
    BY <2>3, AskerStep
  <2>4. CASE Start \/ StartFails \/ ConsumerEnds
    BY <2>4, StartStep
  <2>5. CASE AgentStep /\ ~ConsumerEnds
    BY <2>5, DeliverStep, HandleStep, UnlinkStep, AnswerStep, PublishFailsStep, AcknowledgeStep
       DEF AgentStep
  <2>6. CASE LoseConnection \/ Crash
    BY <2>6, UnlinkStep
  <2>7. CASE UNCHANGED vars
    <3>1. UNCHANGED <<declared, queue, linked, responses, agent, message, outcome, accepted,
                      settled, performed, replied, faults>>
      BY <2>7 DEF vars, broker, history
    <3>2. TypeOK' /\ Handling' /\ Answered' /\ OwnAnswers'
      BY <3>1, Parts DEF TypeOK, Handling, Answered, SettledIsAnswered, OwnAnswers
    <3>3. Settling'
      <4>1. Owed' = Owed
        BY <3>1 DEF Owed, Held
      <4> QED
        BY <3>1, <4>1, Parts, SettlingKept
    <3>4. \A m : Queued(m)' = Queued(m) /\ Pending(m)' = Pending(m)
      BY <3>1 DEF Queued, Pending
    <3>5. Once' /\ Counted'
      BY <3>1, <3>4, Parts DEF Once, Counted
    <3> QED
      BY <3>2, <3>3, <3>5 DEF TaskInv
  <2> QED
    BY <2>1, <2>2, <2>3, <2>4, <2>5, <2>6, <2>7 DEF Next, AgentStep
<1> QED
  BY <1>1, <1>2, PTL DEF Spec

-----------------------------------------------------------------------------
(***************************************************************************)
(* The properties.                                                         *)
(***************************************************************************)

(* Every variable keeps its type, whatever fails and however often. *)
THEOREM TasksTypeCorrect == Spec => []TypeOK
<1>1. TaskInv => TypeOK
  BY DEF TaskInv
<1> QED
  BY <1>1, TasksInvariant, PTL

LEMMA OwedIsTheRest ==
  ASSUME TypeOK, Settling
  PROVE  NothingLost
<1>1. PICK n \in 0..Len(accepted) : Split(n)
  BY DEF Settling
<1>2. /\ Owed \in Seq(Messages) /\ accepted \in Seq(Messages)
      /\ Len(accepted) \in Nat /\ n \in Nat /\ n <= Len(accepted)
  BY OwedTyped DEF TypeOK
<1> DEFINE rest == SubSeq(accepted, n + 1, Len(accepted))
<1>3. /\ rest \in Seq(Messages) /\ Len(rest) = Len(accepted) - n
      /\ \A i \in 1..(Len(accepted) - n) : rest[i] = accepted[n + i]
  <2>1. ASSUME NEW S, NEW q \in Seq(S), NEW k \in 0..Len(q)
        PROVE  /\ SubSeq(q, k + 1, Len(q)) \in Seq(S)
               /\ Len(SubSeq(q, k + 1, Len(q))) = Len(q) - k
               /\ \A i \in 1..(Len(q) - k) : SubSeq(q, k + 1, Len(q))[i] = q[k + i]
    OBVIOUS
  <2> QED
    BY <1>2, <2>1
<1> HIDE DEF rest
<1>4. Len(Owed) = Len(rest) /\ \A i \in 1..Len(Owed) : Owed[i] = rest[i]
  BY <1>1, <1>3 DEF Split
<1>5. Owed = rest
  BY <1>2, <1>3, <1>4, SameSequence
<1> QED
  BY <1>1, <1>5 DEF Split, Owed, NothingLost, rest

(* Through every crash and every lost connection the broker owes the agent what it took
   and has not been told is settled, in order: nothing is lost, doubled or overtaken. *)
THEOREM NothingLostSafe == Spec => []NothingLost
<1>1. TaskInv => NothingLost
  BY OwedIsTheRest DEF TaskInv
<1> QED
  BY <1>1, TasksInvariant, PTL

(* A request is acknowledged only after its answer was published, or its handler
   returned None. *)
THEOREM SettledSafe == Spec => []SettledIsAnswered
<1>1. TaskInv => SettledIsAnswered
  BY DEF TaskInv, Answered
<1> QED
  BY <1>1, TasksInvariant, PTL

(* A task is performed at most once more than there were crashes, broken connections and
   failed calls. *)
THEOREM RepeatsSafe == Spec => []RepeatsAreFaults
<1>1. ASSUME TaskInv PROVE RepeatsAreFaults
  <2>1. ASSUME NEW m \in Requests \cup Casts PROVE performed[m] <= 1 + faults
    <3>1. performed[m] \in Nat /\ faults \in Nat /\ Pending(m) \in Nat
      BY <1>1, Parts, AgentAssumption DEF TypeOK, Messages, Pending
    <3>2. performed[m] + Pending(m) <= 1 + faults
      BY <1>1, Parts DEF Counted
    <3> QED
      BY <3>1, <3>2
  <2> QED
    BY <2>1 DEF RepeatsAreFaults
<1> QED
  BY <1>1, TasksInvariant, PTL

-----------------------------------------------------------------------------
(***************************************************************************)
(* The refinement.                                                         *)
(***************************************************************************)
Decided == [r \in Requests |-> outcome[r]]

(* A step that gives one request its outcome, and one that gives none. *)
LEMMA OneDecided ==
  ASSUME TypeOK, NEW r \in Requests, NEW o, outcome' = [outcome EXCEPT ![r] = o]
  PROVE  Decided' = [Decided EXCEPT ![r] = o] /\ Decided[r] = outcome[r]
BY DEF Decided, TypeOK, Messages

LEMMA NoneDecided ==
  ASSUME TypeOK,
         \/ outcome' = outcome
         \/ \E m \in Messages \ Requests : \E o : outcome' = [outcome EXCEPT ![m] = o]
  PROVE  Decided' = Decided
BY DEF Decided, TypeOK, Messages

(* An asker is decided once, and by the answer to its own request. *)
LEMMA StepIsDecision ==
  ASSUME TaskInv, [Next]_vars
  PROVE  [RequestsDecided!Next]_Decided
<1>1. TypeOK
  BY Parts
<1>2. ASSUME NEW m \in Messages, SendTask(m) \/ SendFails(m)
      PROVE  [RequestsDecided!Next]_Decided
  <2>1. outcome[m] = "unsent"
    BY <1>2 DEF SendTask, SendFails
  <2>2. PICK o \in {"waiting", "sent", "error"} : 
          /\ outcome' = [outcome EXCEPT ![m] = o]
          /\ m \in Requests => o \in {"waiting", "error"}
    BY <1>2 DEF SendTask, SendFails
  <2>3. CASE m \in Requests
    <3>1. Decided' = [Decided EXCEPT ![m] = o] /\ Decided[m] = "unsent"
      BY <1>1, <2>1, <2>2, <2>3, OneDecided
    <3>2. RequestsDecided!Ask(m) \/ RequestsDecided!Decide(m)
      BY <2>2, <2>3, <3>1 DEF RequestsDecided!Ask, RequestsDecided!Decide, Decided
    <3> QED
      BY <2>3, <3>2 DEF RequestsDecided!Next
  <2>4. CASE m \notin Requests
    BY <1>1, <2>2, <2>4, NoneDecided
  <2> QED
    BY <2>3, <2>4
<1>3. ASSUME NEW r \in Requests, SenderStep(r)
      PROVE  [RequestsDecided!Next]_Decided
  <2>1. CASE LateAnswer(r)
    <3>1. outcome' = outcome
      BY <2>1 DEF LateAnswer
    <3> QED
      BY <1>1, <3>1, NoneDecided
  <2>2. CASE ReceiveAnswer(r) \/ RequestTimeout(r)
    <3>1. Head(responses[r]) = r \/ RequestTimeout(r)
      <4>1. responses[r] \in Seq({r})
        BY Parts DEF OwnAnswers
      <4>2. responses[r] # << >> => Head(responses[r]) \in {r}
        BY <4>1, HeadTail
      <4> QED
        BY <2>2, <4>2 DEF ReceiveAnswer, ResponseQueue
    <3>2. PICK o \in {"timeout", r} : outcome' = [outcome EXCEPT ![r] = o]
      BY <2>2, <3>1 DEF ReceiveAnswer, RequestTimeout, ResponseQueue
    <3>3. outcome[r] = "waiting"
      BY <2>2 DEF ReceiveAnswer, RequestTimeout
    <3>4. Decided' = [Decided EXCEPT ![r] = o] /\ Decided[r] = "waiting"
      BY <1>1, <3>2, <3>3, OneDecided
    <3>5. RequestsDecided!Decide(r)
      BY <3>2, <3>4 DEF RequestsDecided!Decide, Decided
    <3> QED
      BY <3>5 DEF RequestsDecided!Next
  <2> QED
    BY <1>3, <2>1, <2>2 DEF SenderStep
<1>4. CASE Start \/ StartFails \/ AgentStep \/ LoseConnection \/ Crash \/ UNCHANGED vars
  <2>1. outcome' = outcome
    BY <1>4 DEF Start, StartFails, AgentStep, Deliver, Handle, HandleShutdown, PublishAnswer,
                PublishFails, Acknowledge, ConsumerEnds, LoseConnection, Crash, vars
  <2> QED
    BY <1>1, <2>1, NoneDecided
<1> QED
  BY <1>2, <1>3, <1>4 DEF Next

(* The senders, the broker, the agent and their faults implement what send_task
   promises: each request is decided at most once, by its own answer, by its timeout or
   by an error, and never by the answer to another request. *)
THEOREM RequestsImplemented == Spec => RequestsDecided!Safety
<1>1. Init => RequestsDecided!Init
  BY DEF Init, RequestsDecided!Init, Messages
<1>2. TaskInv /\ [Next]_vars => [RequestsDecided!Next]_Decided
  BY StepIsDecision
<1> QED
  BY <1>1, <1>2, TasksInvariant, PTL DEF Spec, RequestsDecided!Safety, Decided
=============================================================================
