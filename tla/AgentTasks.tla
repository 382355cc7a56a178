---------------------------- MODULE AgentTasks ----------------------------
(***************************************************************************)
(* Tasks sent from agent to agent through RabbitMQ: BaseAgent of           *)
(* src/src/agents/base_agent.py over RabbitMQClient of                     *)
(* src/src/core/messaging.py, run by src/src/agents/runner.py.             *)
(*                                                                         *)
(* One agent takes messages from its queue and handles one at a time.      *)
(* Others send it tasks, with or without waiting for an answer, and        *)
(* shutdown events.  The broker keeps a delivered message until it is      *)
(* acknowledged and puts it back in its place when the connection it was   *)
(* delivered over goes away.                                               *)
(***************************************************************************)
EXTENDS Naturals, FiniteSets, Sequences

CONSTANTS
  Requests,   \* tasks sent with wait_for_response
  Casts,      \* tasks sent without
  Shutdowns,  \* shutdown events
  NoMessage,
  MaxFaults   \* bound: crashes, lost connections, failed starts and sends

Messages == Requests \cup Casts \cup Shutdowns
Words    == {"unsent", "sent", "waiting", "timeout", "error"}

ASSUME AgentAssumption ==
  /\ Requests \cap Casts = {} /\ (Requests \cup Casts) \cap Shutdowns = {}
  /\ NoMessage \notin Messages
  /\ Messages \cap Words = {}
  /\ MaxFaults \in Nat

VARIABLES
  declared,   \* broker: the agent's queue exists
  queue,      \* broker: messages that wait in it
  linked,     \* broker: the connection of the agent's consumer is open
  responses,  \* broker: the response queue of each request, as the tasks answered
  agent,      \* where the agent's process is
  message,    \* what its callback is handling
  outcome,    \* what the sender of each message got
  accepted,   \* history: the messages the queue took, in order
  settled,    \* history: those acknowledged
  performed,  \* history: how often each handler was run to its end
  replied,    \* history: requests answered, or whose handler returned None
  faults      \* how many faults there were

broker  == <<declared, queue, linked>>
history == <<accepted, settled, performed, replied>>
vars == <<broker, responses, agent, message, outcome, history, faults>>

Init ==
  /\ declared = FALSE /\ queue = << >> /\ linked = FALSE
  /\ responses = [r \in Requests |-> << >>]
  /\ agent = "down" /\ message = NoMessage
  /\ outcome = [m \in Messages |-> "unsent"]
  /\ accepted = << >> /\ settled = {} /\ replied = {}
  /\ performed = [m \in Messages |-> 0]
  /\ faults = 0

Fault == faults < MaxFaults /\ faults' = faults + 1

-----------------------------------------------------------------------------
(***************************************************************************)
(* The senders.  A message to a queue nobody has declared is dropped by    *)
(* the broker without a word.                                              *)
(***************************************************************************)
Publish(m) ==
  IF declared
  THEN queue' = Append(queue, m) /\ accepted' = Append(accepted, m)
  ELSE UNCHANGED <<queue, accepted>>

SendTask(m) ==
  /\ outcome[m] = "unsent"
  /\ outcome' = [outcome EXCEPT ![m] = IF m \in Requests THEN "waiting" ELSE "sent"]
  /\ Publish(m)
  /\ UNCHANGED <<declared, linked, responses, agent, message, settled, performed, replied, faults>>

(* The sender's connection breaks: an error is returned, and the broker may
   have the message all the same. *)
SendFails(m) ==
  /\ outcome[m] = "unsent"
  /\ Fault
  /\ outcome' = [outcome EXCEPT ![m] = "error"]
  /\ Publish(m) \/ UNCHANGED <<queue, accepted>>
  /\ UNCHANGED <<declared, linked, responses, agent, message, settled, performed, replied>>

(* Mutant of ResponseQueue: one response queue for all requests. *)
SharedQueue(r) == CHOOSE q \in Requests : TRUE

ResponseQueue(r) == r

ReceiveAnswer(r) ==
  LET q == ResponseQueue(r) IN
  /\ outcome[r] = "waiting" /\ responses[q] # << >>
  /\ outcome' = [outcome EXCEPT ![r] = Head(responses[q])]
  /\ responses' = [responses EXCEPT ![q] = Tail(@)]
  /\ UNCHANGED <<broker, agent, message, history, faults>>

RequestTimeout(r) ==
  /\ outcome[r] = "waiting"
  /\ outcome' = [outcome EXCEPT ![r] = "timeout"]
  /\ UNCHANGED <<broker, responses, agent, message, history, faults>>

(* The consuming thread outlives its request: it takes the answers that come
   afterwards, and nobody reads them. *)
LateAnswer(r) ==
  /\ outcome[r] \notin {"unsent", "waiting"} /\ responses[ResponseQueue(r)] # << >>
  /\ responses' = [responses EXCEPT ![ResponseQueue(r)] = Tail(@)]
  /\ UNCHANGED <<broker, agent, message, outcome, history, faults>>

-----------------------------------------------------------------------------
(***************************************************************************)
(* The agent.  `idle' is a process whose consumer has ended: the runner    *)
(* goes on sleeping and starts nothing again.                              *)
(***************************************************************************)
Start ==
  /\ agent = "down"
  /\ agent' = "consuming" /\ declared' = TRUE /\ linked' = TRUE
  /\ UNCHANGED <<queue, responses, message, outcome, history, faults>>

StartFails ==
  /\ agent = "down"
  /\ Fault
  /\ agent' = "idle"
  /\ UNCHANGED <<broker, responses, message, outcome, history>>

Deliver ==
  /\ agent = "consuming" /\ linked /\ queue # << >>
  /\ message' = Head(queue) /\ queue' = Tail(queue)
  /\ agent' = "handling"
  /\ UNCHANGED <<declared, linked, responses, outcome, history, faults>>

(* Mutant of Unlink: the message goes to the end of the queue. *)
UnlinkRequeuesLast ==
  /\ linked' = FALSE
  /\ queue' = IF linked /\ message # NoMessage THEN Append(queue, message) ELSE queue

(* The broker takes back what it delivered over a connection that ends. *)
Unlink ==
  /\ linked' = FALSE
  /\ queue' = IF linked /\ message # NoMessage THEN <<message>> \o queue ELSE queue

(* Mutant of Handle: an exception is swallowed without an answer. *)
HandleSilently ==
  /\ agent = "handling" /\ message \notin Shutdowns
  /\ performed' = [performed EXCEPT ![message] = @ + 1]
  /\ agent' \in {"answering", "acking"}
  /\ UNCHANGED <<broker, responses, message, outcome, accepted, settled, replied, faults>>

(* A task's handler has run, to a result or to an exception, or returned None:
   then there is nothing to publish. *)
Handle ==
  /\ agent = "handling" /\ message \notin Shutdowns
  /\ performed' = [performed EXCEPT ![message] = @ + 1]
  /\ \/ agent' = "answering" /\ UNCHANGED replied
     \/ agent' = "acking" /\ replied' = replied \cup ({message} \cap Requests)
  /\ UNCHANGED <<broker, responses, message, outcome, accepted, settled, faults>>

(* The handler of a shutdown event closes the connection the event is to be
   acknowledged over. *)
HandleShutdown ==
  /\ agent = "handling" /\ message \in Shutdowns
  /\ performed' = [performed EXCEPT ![message] = @ + 1]
  /\ agent' = "acking"
  /\ Unlink
  /\ UNCHANGED <<declared, responses, message, outcome, accepted, settled, replied, faults>>

(* The result, or the error if publishing the result failed: connect opens a
   new connection when the old one is known to be closed. *)
PublishAnswer ==
  /\ agent = "answering"
  /\ agent' = "acking"
  /\ IF message \in Requests
     THEN /\ responses' = [responses EXCEPT ![ResponseQueue(message)] = Append(@, message)]
          /\ replied' = replied \cup {message}
     ELSE UNCHANGED <<responses, replied>>
  /\ UNCHANGED <<broker, message, outcome, accepted, settled, performed, faults>>

(* Both fail: the exception leaves handle_task, and the rejection fails too. *)
PublishFails ==
  /\ agent = "answering" /\ ~linked /\ message \in Requests
  /\ agent' = "idle" /\ message' = NoMessage
  /\ UNCHANGED <<broker, responses, outcome, history, faults>>

(* Mutants of Acknowledge: the tag is read after the message is forgotten; a
   message may be rejected after it was performed. *)
AcknowledgeForgotten ==
  /\ agent = "acking" /\ linked
  /\ message' = NoMessage
  /\ agent' = "consuming" /\ settled' = settled \cup {message'}
  /\ UNCHANGED <<broker, responses, outcome, accepted, performed, replied, faults>>

AcknowledgeOrReject ==
  /\ agent = "acking" /\ linked
  /\ message' = NoMessage /\ agent' = "consuming"
  /\ \/ settled' = settled \cup {message} /\ UNCHANGED queue
     \/ queue' = <<message>> \o queue /\ UNCHANGED settled
  /\ UNCHANGED <<declared, linked, responses, outcome, accepted, performed, replied, faults>>

(* basic_ack over the connection of the delivery; if that is closed, it and
   basic_nack raise, and consume returns. *)
Acknowledge ==
  /\ agent = "acking"
  /\ message' = NoMessage
  /\ IF linked
     THEN agent' = "consuming" /\ settled' = settled \cup {message}
     ELSE agent' = "idle" /\ UNCHANGED settled
  /\ UNCHANGED <<broker, responses, outcome, accepted, performed, replied, faults>>

(* Mutant of ConsumerEnds: after a lost connection it waits on. *)
ConsumerWaits == FALSE /\ UNCHANGED vars

ConsumerEnds ==
  /\ agent = "consuming" /\ ~linked
  /\ agent' = "idle"
  /\ UNCHANGED <<broker, responses, message, outcome, history, faults>>

LoseConnection ==
  /\ linked
  /\ Fault
  /\ Unlink
  /\ UNCHANGED <<declared, responses, agent, message, outcome, history>>

(* The process dies, or is told to end: its thread is not waited for. *)
Crash ==
  /\ agent # "down"
  /\ Fault
  /\ Unlink
  /\ agent' = "down" /\ message' = NoMessage
  /\ UNCHANGED <<declared, responses, outcome, history>>

AgentStep == \/ Deliver \/ Handle \/ HandleShutdown \/ PublishAnswer \/ PublishFails
             \/ Acknowledge \/ ConsumerEnds
SenderStep(r) == ReceiveAnswer(r) \/ RequestTimeout(r) \/ LateAnswer(r)

Next ==
  \/ \E m \in Messages : SendTask(m) \/ SendFails(m)
  \/ \E r \in Requests : SenderStep(r)
  \/ Start \/ StartFails \/ AgentStep \/ LoseConnection \/ Crash

Spec == Init /\ [][Next]_vars

(* The agent's thread runs, and so does the timer of a waiting request; a process
   that died is started again (restart: always in docker-compose.production.yml). *)
FairSpec ==
  /\ Spec
  /\ WF_vars(AgentStep) /\ WF_vars(Start)
  /\ \A r \in Requests : WF_vars(RequestTimeout(r) \/ ReceiveAnswer(r))

-----------------------------------------------------------------------------
TypeOK ==
  /\ declared \in BOOLEAN /\ linked \in BOOLEAN
  /\ queue \in Seq(Messages) /\ accepted \in Seq(Messages)
  /\ responses \in [Requests -> Seq(Requests)]
  /\ agent \in {"down", "consuming", "handling", "answering", "acking", "idle"}
  /\ message \in Messages \cup {NoMessage}
  /\ outcome \in [Messages -> Words \cup Requests]
  /\ settled \subseteq Messages /\ replied \subseteq Requests
  /\ performed \in [Messages -> Nat]
  /\ faults \in 0..MaxFaults

Held == IF linked /\ message # NoMessage THEN <<message>> ELSE << >>

(* Whatever crashes and whichever connection breaks, the messages the queue took
   are, in the order it took them, those acknowledged, the one being handled and
   those that wait: none is lost, doubled or overtaken. *)
NothingLost ==
  \E n \in 0..Len(accepted) :
    /\ settled = {accepted[i] : i \in 1..n}
    /\ Held \o queue = SubSeq(accepted, n + 1, Len(accepted))

(* A request is acknowledged only once its answer is published, unless its
   handler returned None. *)
SettledIsAnswered == settled \cap Requests \subseteq replied

(* A task is performed again only after a fault interrupted it: a request that is
   answered twice, or answered and timed out, has a crash or a lost connection to
   show for it. *)
RepeatsAreFaults == \A m \in Requests \cup Casts : performed[m] <= 1 + faults

(* Every request is decided, once, by its own answer, its timeout or an error. *)
RequestsDecided == INSTANCE TaskRequests WITH outcome <- [r \in Requests |-> outcome[r]]
RequestService  == RequestsDecided!Spec

(* A message the queue took is acknowledged, through every crash and restart, unless
   the consumer ends in a process that lives on: nobody starts that one again. *)
TakenIsSettled ==
  \A m \in Messages :
    (\E i \in 1..Len(accepted) : accepted[i] = m) ~> (m \in settled \/ agent = "idle")
=============================================================================
