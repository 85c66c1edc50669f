------------------------------- MODULE PubSub -------------------------------
(***************************************************************************)
(* The worker processes with the Pub/Sub transport                         *)
(* (internal/pipeline/pubsub.go): Tick publishes a claimed job and marks   *)
(* its row dispatched, and callbacks of the subscription run Consume.      *)
(*                                                                         *)
(* The broker is external.  It delivers a message at least once, in any    *)
(* order, possibly to several callbacks at a time, until one of them acks  *)
(* it; after repeated failures it may move a message to the dead-letter    *)
(* topic, from where an operator republishes it.                           *)
(***************************************************************************)
EXTENDS Worker

CONSTANTS
  Receiver,   \* callbacks that may run at a time
  Home,       \* the process each of them runs in
  Malformed,  \* messages with an invalid envelope
  Orphan      \* messages that name a delivery the store does not have

Stray == Malformed \cup Orphan

ASSUME PubSubAssumption ==
  Home \in [Receiver -> Dispatcher] /\ Stray \cap Nat = {}

VARIABLES
  messages,     \* published and not acknowledged: job indices and strays
  deadLetters,  \* moved to the dead-letter topic
  callbacks,    \* where each callback is
  retained      \* rows of transport_quarantine

brokerVars == <<messages, deadLetters, callbacks, retained>>
busVars == <<vars, workerVars, brokerVars>>

CallbackType ==
  {Idle} \cup [pc : {"received", "processed", "acking"}, message : (Nat \ {0}) \cup Stray]

\* Every message in the system, and every message a callback works on, is a
\* stray or the envelope of a job that was claimed.
PubSubTypeOK ==
  /\ WorkerTypeOK
  /\ messages \cup deadLetters \subseteq DOMAIN jobs \cup Stray
  /\ callbacks \in [Receiver -> CallbackType]
  /\ \A r \in Receiver :
       callbacks[r] # Idle => callbacks[r].message \in DOMAIN jobs \cup Stray
  /\ retained \subseteq Stray

PubSubInit ==
  /\ WorkerInit
  /\ messages = Stray
  /\ deadLetters = {}
  /\ callbacks = [r \in Receiver |-> Idle]
  /\ retained = {}

Step(r, pc) ==
  callbacks' = [callbacks EXCEPT ![r] = [pc |-> pc, message |-> @.message]]
Leave(r) == callbacks' = [callbacks EXCEPT ![r] = Idle]

-----------------------------------------------------------------------------
(* Tick with a Publisher *)

Publish(d) ==
  /\ At(d, "claimed")
  /\ messages' = messages \cup {tasks[d].job}
  /\ Working(d, "published")
  /\ UNCHANGED <<vars, breaker, controls, faults, deadLetters, callbacks, retained>>

\* Publish fails or times out; the broker may have the message all the same.
PublishError(d) ==
  /\ At(d, "claimed")
  /\ Fault
  /\ messages' \in {messages, messages \cup {tasks[d].job}}
  /\ Working(d, "failing")
  /\ UNCHANGED <<vars, breaker, controls, deadLetters, callbacks, retained>>

\* Dispatched by a process that lost the row does nothing, and is a success.
CallDispatched(j) == Dispatched(j) \/ (~Owns(j) /\ UNCHANGED vars)

MarkDispatched(d) ==
  /\ At(d, "published")
  /\ CallDispatched(tasks[d].job)
  /\ breaker' = [breaker EXCEPT ![d] = Closed]
  /\ Goto(d, Idle)
  /\ UNCHANGED <<controls, faults, brokerVars>>

DispatchedError(d) ==
  /\ At(d, "published")
  /\ Fault
  /\ CallDispatched(tasks[d].job) \/ UNCHANGED vars
  /\ Working(d, "failing")
  /\ UNCHANGED <<breaker, controls, brokerVars>>

-----------------------------------------------------------------------------
(* Receive: one callback *)

\* The broker hands out a message, also one that another callback holds.
Deliver(r) ==
  /\ callbacks[r] = Idle
  /\ \E m \in messages :
       callbacks' = [callbacks EXCEPT ![r] = [pc |-> "received", message |-> m]]
  /\ UNCHANGED <<vars, workerVars, messages, deadLetters, retained>>

AtCallback(r, pc) == callbacks[r].pc = pc
IsStray(r) == callbacks[r].message \in Stray
Delivered(r) == jobs[callbacks[r].message].event
ControlsOf(r) == controls[Home[r]]

\* An invalid envelope, or a delivery Process cannot find, is stored before it
\* is acked; only the second one gets as far as Consume's fault injection.
RetainStray(r) ==
  /\ AtCallback(r, "received") /\ IsStray(r)
  /\ callbacks[r].message \in Malformed \/ ControlsOf(r).failNext = 0
  /\ retained' = retained \cup {callbacks[r].message}
  /\ Step(r, "acking")
  /\ UNCHANGED <<vars, workerVars, messages, deadLetters>>

RetainError(r) ==
  /\ AtCallback(r, "received") /\ IsStray(r)
  /\ callbacks[r].message \in Malformed \/ ControlsOf(r).failNext = 0
  /\ Fault
  /\ retained' \in {retained, retained \cup {callbacks[r].message}}
  /\ Leave(r)
  /\ UNCHANGED <<vars, tasks, breaker, controls, messages, deadLetters>>

\* Mutant: an injected failure is not counted down.
NackInjectedForever(r) ==
  /\ AtCallback(r, "received") /\ callbacks[r].message \notin Malformed
  /\ ControlsOf(r).failNext > 0
  /\ Leave(r)
  /\ UNCHANGED <<vars, tasks, breaker, controls, faults, messages, deadLetters, retained>>

\* Consume in a callback.  Nack leaves the message with the broker.
NackInjected(r) ==
  /\ AtCallback(r, "received") /\ callbacks[r].message \notin Malformed
  /\ ControlsOf(r).failNext > 0
  /\ controls' = [controls EXCEPT ![Home[r]].failNext = @ - 1]
  /\ Leave(r)
  /\ UNCHANGED <<vars, tasks, breaker, faults, messages, deadLetters, retained>>

ReceiveProcess(r) ==
  /\ AtCallback(r, "received") /\ ~IsStray(r)
  /\ ControlsOf(r).failNext = 0
  /\ CallProcess(Delivered(r))
  /\ Step(r, "processed")
  /\ UNCHANGED <<workerVars, messages, deadLetters, retained>>

\* Mutant: a message whose processing failed is acknowledged.
AckProcess(r) ==
  /\ AtCallback(r, "received") /\ ~IsStray(r)
  /\ ControlsOf(r).failNext = 0
  /\ Fault
  /\ CallProcess(Delivered(r)) \/ UNCHANGED vars
  /\ messages' = messages \ {callbacks[r].message}
  /\ Leave(r)
  /\ UNCHANGED <<tasks, breaker, controls, deadLetters, retained>>

NackProcess(r) ==
  /\ AtCallback(r, "received") /\ ~IsStray(r)
  /\ ControlsOf(r).failNext = 0
  /\ Fault
  /\ CallProcess(Delivered(r)) \/ UNCHANGED vars
  /\ Leave(r)
  /\ UNCHANGED <<tasks, breaker, controls, messages, deadLetters, retained>>

NackLostAck(r) ==
  /\ AtCallback(r, "processed")
  /\ ControlsOf(r).dropAck
  /\ controls' = [controls EXCEPT ![Home[r]].dropAck = FALSE]
  /\ Leave(r)
  /\ UNCHANGED <<vars, tasks, breaker, faults, messages, deadLetters, retained>>

ReceiveComplete(r) ==
  /\ AtCallback(r, "processed")
  /\ ~ControlsOf(r).dropAck
  /\ CallComplete(Delivered(r))
  /\ Step(r, "acking")
  /\ UNCHANGED <<workerVars, messages, deadLetters, retained>>

NackComplete(r) ==
  /\ AtCallback(r, "processed")
  /\ ~ControlsOf(r).dropAck
  /\ Fault
  /\ CallComplete(Delivered(r)) \/ UNCHANGED vars
  /\ Leave(r)
  /\ UNCHANGED <<tasks, breaker, controls, messages, deadLetters, retained>>

Ack(r) ==
  /\ AtCallback(r, "acking")
  /\ messages' = messages \ {callbacks[r].message}
  /\ Leave(r)
  /\ UNCHANGED <<vars, workerVars, deadLetters, retained>>

-----------------------------------------------------------------------------
(* The broker's dead-letter policy, crashes *)

DeadLetter ==
  /\ Fault
  /\ \E m \in messages :
       /\ messages' = messages \ {m}
       /\ deadLetters' = deadLetters \cup {m}
  /\ UNCHANGED <<vars, tasks, breaker, controls, callbacks, retained>>

Republish ==
  /\ \E m \in deadLetters :
       /\ deadLetters' = deadLetters \ {m}
       /\ messages' = messages \cup {m}
  /\ UNCHANGED <<vars, workerVars, callbacks, retained>>

CrashProcess(d) ==
  /\ Crash(d)
  /\ callbacks' = [r \in Receiver |-> IF Home[r] = d THEN Idle ELSE callbacks[r]]
  /\ UNCHANGED <<messages, deadLetters, retained>>

-----------------------------------------------------------------------------
Publishing(d) == Publish(d) \/ MarkDispatched(d)

SharedSteps(d) ==
  \/ Begin(d) \/ ClaimJob(d) \/ ClaimError(d) \/ FailTick(d) \/ FailJobError(d)
  \/ StartSweep(d) \/ SweepOne(d) \/ SweepError(d) \/ SetPaused(d) \/ ArmFault(d)

Receive(r) ==
  \/ RetainStray(r) \/ NackInjected(r) \/ ReceiveProcess(r) \/ NackLostAck(r)
  \/ ReceiveComplete(r) \/ Ack(r)

ReceiveFault(r) == RetainError(r) \/ NackProcess(r) \/ NackComplete(r)

PubSubNext ==
  \/ \E d \in Dispatcher :
       \/ SharedSteps(d) /\ UNCHANGED brokerVars
       \/ Publishing(d) \/ PublishError(d) \/ DispatchedError(d) \/ CrashProcess(d)
  \/ \E r \in Receiver : Deliver(r) \/ Receive(r) \/ ReceiveFault(r)
  \/ DeadLetter \/ Republish
  \/ (Client \/ PassTime) /\ UNCHANGED brokerVars

PubSubSpec == PubSubInit /\ [][PubSubNext]_busVars

\* Processes and callbacks go on with what they started, Run serves both of its
\* tickers, and the broker delivers what it holds.
PubSubFairness ==
  /\ \A d \in Dispatcher :
       /\ WF_busVars(Publishing(d))
       /\ WF_busVars((ClaimJob(d) \/ FailTick(d) \/ SweepOne(d)) /\ UNCHANGED brokerVars)
       /\ SF_busVars(Begin(d) /\ UNCHANGED brokerVars)
  /\ \A r \in Receiver : WF_busVars(Deliver(r)) /\ WF_busVars(Receive(r))
  /\ WF_busVars(PassTime /\ UNCHANGED brokerVars)

FairPubSubSpec == PubSubSpec /\ PubSubFairness

-----------------------------------------------------------------------------
(* What the transport promises *)

\* An undecided delivery whose row is dispatched, which no dispatcher looks at
\* any more, still has a message in the broker or its dead-letter topic; and a
\* malformed or unresolvable message leaves the broker only after its row in
\* transport_quarantine is stored.
MessageKept ==
  /\ PubSubTypeOK
  /\ \A e \in Event :
       deliveries[e].status = "accepted" /\ outbox[e].state = "dispatched" =>
         \E m \in (messages \cup deadLetters) \ Stray : jobs[m].event = e
  /\ Stray \subseteq messages \cup deadLetters \cup retained

\* Every accepted receipt is decided in the end, across lost publishes, nacks,
\* redelivery and crashes, if no process stays paused and what reaches the
\* dead-letter topic is republished.
MessagesDecided ==
  Running /\ []<>(deadLetters = {}) =>
    \A e \in Event :
      deliveries[e].status = "accepted" ~> deliveries[e].status \in Decided

=============================================================================
