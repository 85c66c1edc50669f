---------------------------- MODULE SystemProofs ----------------------------
(*****************************************************************************)
(* Proofs about the money and the messages of the whole system: that the     *)
(* balances of every campaign add up and stay in its budget, that the store  *)
(* implements the abstract ledger Settlement, and that the Pub/Sub transport *)
(* loses no message, whatever the broker repeats or moves to its dead-letter *)
(* topic, whichever processes crash or lose their lease.  The last theorem   *)
(* states the safety of the running system.                                  *)
(*****************************************************************************)
EXTENDS PipelineProofs

-----------------------------------------------------------------------------
(* The broker's messages *)

\* What the broker or its dead-letter topic has.
Held == messages \cup deadLetters

\* A callback acks a message only when its row is stored or its job finished.
CallbackSafe(r) ==
  callbacks[r].pc \in {"processed", "acking"} =>
    \/ callbacks[r].message \in retained
    \/ callbacks[r].message \in DOMAIN jobs /\ Finished(callbacks[r].message)

\* A process that still owns an undecided row has its message in the broker
\* before it marks the row dispatched.
PublishedHeld(d) ==
  tasks[d].pc = "published" /\ Owns(tasks[d].job) /\ Waiting(EventOf(d))
    => tasks[d].job \in Held

\* The message of a dispatched, undecided row is that of its newest job.
DispatchedHeld(e) ==
  Waiting(e) /\ outbox[e].state = "dispatched" =>
    \E j \in DOMAIN jobs : j \in Held /\ jobs[j].event = e /\ ~Superseded(j)

BrokerInv ==
  /\ \A r \in Receiver : CallbackSafe(r)
  /\ \A d \in Dispatcher : PublishedHeld(d)
  /\ \A e \in Event : DispatchedHeld(e)
  /\ Stray \subseteq Held \cup retained

\* Only a process that has published its job can take the step Dispatched.
LEMMA OnlyPublishedDispatch ==
  ASSUME RowsOK, TasksOK, BusOK, [PubSubNext]_busVars
  PROVE  \/ [OtherNext]_vars
         \/ \E d \in Dispatcher : /\ At(d, "published") /\ tasks[d].job \in DOMAIN jobs
                                  /\ Dispatched(tasks[d].job)
  <1>0. \A d \in Dispatcher : TaskOK(d)
    BY DEF TasksOK
  <1>1. ASSUME NEW e \in Event
        PROVE  /\ CallProcess(e) => [OtherNext]_vars
               /\ CallComplete(e) => [OtherNext]_vars
    BY DEF CallProcess, CallComplete, OtherNext
  <1>2. ASSUME NEW j \in DOMAIN jobs, CallFailJob(j) PROVE [OtherNext]_vars
    BY <1>2 DEF CallFailJob, OtherNext
  <1>3. ASSUME NEW d \in Dispatcher, SharedSteps(d) PROVE [OtherNext]_vars
    <2>1. CASE ClaimJob(d) \/ ClaimError(d)
      BY <2>1 DEF ClaimJob, ClaimError, OtherNext
    <2>2. CASE FailTick(d) \/ FailJobError(d)
      <3>1. tasks[d].job \in DOMAIN jobs
        BY <1>0, <2>2 DEF FailTick, FailJobError, At, TaskOK, Busy
      <3>2. CallFailJob(tasks[d].job) \/ UNCHANGED vars
        BY <2>2 DEF FailTick, FailJobError
      <3>3. QED
        BY <1>2, <3>1, <3>2
    <2>3. CASE SweepOne(d) \/ SweepError(d)
      <3>1. tasks[d].ids \subseteq Key
        BY <1>0, <2>3 DEF SweepOne, SweepError, At, TaskOK
      <3>2. (\E k \in tasks[d].ids : Release(k)) \/ UNCHANGED vars
        BY <2>3, Zenon DEF SweepOne, SweepError
      <3>3. QED
        BY <3>1, <3>2 DEF OtherNext
    <2>4. CASE Begin(d) \/ StartSweep(d) \/ SetPaused(d) \/ ArmFault(d)
      BY <2>4 DEF Begin, StartSweep, SetPaused, ArmFault
    <2>5. QED
      BY <1>3, <2>1, <2>2, <2>3, <2>4 DEF SharedSteps
  <1>4. ASSUME NEW d \in Dispatcher,
               Publishing(d) \/ PublishError(d) \/ DispatchedError(d) \/ CrashProcess(d)
        PROVE  \/ UNCHANGED vars
               \/ /\ At(d, "published") /\ tasks[d].job \in DOMAIN jobs
                  /\ Dispatched(tasks[d].job)
    <2>1. CASE Publish(d) \/ PublishError(d) \/ CrashProcess(d)
      BY <2>1 DEF Publish, PublishError, CrashProcess, Crash
    <2>2. CASE MarkDispatched(d) \/ DispatchedError(d)
      <3>1. At(d, "published")
        BY <2>2 DEF MarkDispatched, DispatchedError
      <3>2. tasks[d].job \in DOMAIN jobs
        BY <1>0, <3>1 DEF At, TaskOK, Busy
      <3>3. QED
        BY <2>2, <3>1, <3>2 DEF MarkDispatched, DispatchedError, CallDispatched
    <2>3. QED
      BY <1>4, <2>1, <2>2 DEF Publishing
  <1>5. ASSUME NEW r \in Receiver, Deliver(r) \/ Receive(r) \/ ReceiveFault(r)
        PROVE  [OtherNext]_vars
    <2>1. CASE ReceiveProcess(r) \/ NackProcess(r) \/ ReceiveComplete(r) \/ NackComplete(r)
      <3>1. callbacks[r].message \in DOMAIN jobs
        BY <2>1 DEF ReceiveProcess, NackProcess, ReceiveComplete, NackComplete, BusOK,
                    CallbackOK, AtCallback, IsStray
      <3>2. Delivered(r) \in Event
        BY <3>1, JobRow DEF Delivered
      <3>3. CallProcess(Delivered(r)) \/ CallComplete(Delivered(r)) \/ UNCHANGED vars
        BY <2>1 DEF ReceiveProcess, NackProcess, ReceiveComplete, NackComplete
      <3>4. QED
        BY <1>1, <3>2, <3>3
    <2>2. CASE Deliver(r) \/ RetainStray(r) \/ RetainError(r) \/ NackInjected(r)
               \/ NackLostAck(r) \/ Ack(r)
      BY <2>2 DEF Deliver, RetainStray, RetainError, NackInjected, NackLostAck, Ack
    <2>3. QED
      BY <1>5, <2>1, <2>2 DEF Receive, ReceiveFault
  <1>6. ASSUME DeadLetter \/ Republish \/ Client \/ PassTime \/ UNCHANGED busVars
        PROVE  [OtherNext]_vars
    BY <1>6 DEF DeadLetter, Republish, Client, PassTime, busVars, OtherNext
  <1>7. QED
    BY <1>3, <1>4, <1>5, <1>6 DEF PubSubNext

\* A message leaves the broker only when a callback acks it.
LEMMA OnlyAckDrops ==
  ASSUME [PubSubNext]_busVars
  PROVE  /\ Held \subseteq Held' \/ \E r \in Receiver : Ack(r)
         /\ retained \subseteq retained'
  <1>1. ASSUME NEW r \in Receiver, Deliver(r) \/ Receive(r) \/ ReceiveFault(r), ~Ack(r)
        PROVE  UNCHANGED <<messages, deadLetters>> /\ retained \subseteq retained'
    BY <1>1 DEF Deliver, Receive, ReceiveFault, RetainStray, NackInjected, ReceiveProcess,
                NackLostAck, ReceiveComplete, RetainError, NackProcess, NackComplete
  <1>2. ASSUME NEW r \in Receiver, Ack(r) PROVE retained' = retained
    BY <1>2 DEF Ack
  <1>3. ASSUME NEW d \in Dispatcher,
               \/ SharedSteps(d) /\ UNCHANGED brokerVars
               \/ Publishing(d) \/ PublishError(d) \/ DispatchedError(d) \/ CrashProcess(d)
        PROVE  messages \subseteq messages' /\ UNCHANGED <<deadLetters, retained>>
    BY <1>3 DEF Publishing, Publish, MarkDispatched, PublishError, DispatchedError,
                CrashProcess, brokerVars
  <1>4. ASSUME DeadLetter \/ Republish
        PROVE  Held' = Held /\ retained' = retained
    BY <1>4 DEF DeadLetter, Republish, Held
  <1>5. ASSUME ((Client \/ PassTime) /\ UNCHANGED brokerVars) \/ UNCHANGED busVars
        PROVE  UNCHANGED <<messages, deadLetters, retained>>
    BY <1>5 DEF brokerVars, busVars
  <1>6. QED
    BY <1>1, <1>2, <1>3, <1>4, <1>5 DEF PubSubNext, Held

\* How a process comes to have published its job.
LEMMA PublishedFrom ==
  ASSUME TasksOK, [PubSubNext]_busVars, NEW d \in Dispatcher, tasks'[d].pc = "published"
  PROVE  tasks'[d] = tasks[d] \/ tasks'[d].job \in Held'
  <1>0. tasks = [x \in Dispatcher |-> tasks[x]]
    BY DEF TasksOK
  <1>1. ASSUME NEW x \in Dispatcher, NEW t, Goto(x, t), t.pc # "published"
        PROVE  tasks'[d] = tasks[d]
    BY <1>0, <1>1 DEF Goto
  <1>2. ASSUME NEW x \in Dispatcher, SharedSteps(x) PROVE tasks'[d] = tasks[d]
    <2>1. CASE SetPaused(x) \/ ArmFault(x)
      BY <2>1 DEF SetPaused, ArmFault
    <2>2. CASE StartSweep(x) \/ SweepOne(x)
      <3>1. \E ids : Goto(x, IF ids = {} THEN Idle ELSE [pc |-> "sweeping", ids |-> ids])
        BY <2>2, Zenon DEF StartSweep, SweepOne
      <3>2. PICK ids : Goto(x, IF ids = {} THEN Idle ELSE [pc |-> "sweeping", ids |-> ids])
        BY <3>1
      <3>3. QED
        BY <1>1, <3>2 DEF Idle
    <2>3. CASE Begin(x) \/ ClaimJob(x) \/ ClaimError(x) \/ FailTick(x) \/ FailJobError(x)
               \/ SweepError(x)
      <3>1. \E t : Goto(x, t) /\ t.pc # "published"
        BY <2>3 DEF Begin, ClaimJob, ClaimError, FailTick, FailJobError, SweepError, Idle
      <3>2. QED
        BY <1>1, <3>1
    <2>4. QED
      BY <1>2, <2>1, <2>2, <2>3 DEF SharedSteps
  <1>3. ASSUME NEW x \in Dispatcher, Publish(x)
        PROVE  tasks'[d] = tasks[d] \/ tasks'[d].job \in Held'
    BY <1>0, <1>3 DEF Publish, Working, Goto, Held
  <1>4. ASSUME NEW x \in Dispatcher,
               MarkDispatched(x) \/ PublishError(x) \/ DispatchedError(x) \/ CrashProcess(x)
        PROVE  tasks'[d] = tasks[d]
    <2>1. \/ Goto(x, Idle)
          \/ Goto(x, [pc |-> "failing", job |-> tasks[x].job])
      BY <1>4 DEF MarkDispatched, PublishError, DispatchedError, CrashProcess, Crash,
                  Working, Goto
    <2>2. Idle.pc # "published" /\ [pc |-> "failing", job |-> tasks[x].job].pc # "published"
      BY DEF Idle
    <2>3. QED
      BY <1>1, <2>1, <2>2
  <1>5. ASSUME NEW r \in Receiver, Deliver(r) \/ Receive(r) \/ ReceiveFault(r)
        PROVE  tasks' = tasks
    BY <1>5 DEF Deliver, Receive, ReceiveFault, RetainStray, NackInjected, ReceiveProcess,
                NackLostAck, ReceiveComplete, Ack, RetainError, NackProcess, NackComplete,
                workerVars
  <1>6. ASSUME DeadLetter \/ Republish \/ Client \/ PassTime \/ UNCHANGED busVars
        PROVE  tasks' = tasks
    BY <1>6 DEF DeadLetter, Republish, Client, PassTime, busVars, workerVars
  <1>7. QED
    BY <1>2, <1>3, <1>4, <1>5, <1>6 DEF PubSubNext, Publishing

\* How a callback comes to be past the processing of its message.
LEMMA CallbackFrom ==
  ASSUME RowsOK, BusOK, [PubSubNext]_busVars, NEW r \in Receiver,
         callbacks'[r].pc \in {"processed", "acking"}
  PROVE  \/ callbacks'[r] = callbacks[r]
         \/ callbacks'[r].message \in retained'
         \/ /\ callbacks[r].pc = "processed"
            /\ callbacks'[r].message = callbacks[r].message
         \/ /\ callbacks'[r].message \in DOMAIN jobs
            /\ jobs' = jobs
            /\ deliveries'[jobs[callbacks'[r].message].event].status \in Decided
  <1>0. callbacks = [x \in Receiver |-> callbacks[x]]
    BY DEF BusOK
  <1>1. ASSUME NEW x \in Receiver, NEW c, callbacks' = [callbacks EXCEPT ![x] = c],
               c.pc \notin {"processed", "acking"}
        PROVE  callbacks'[r] = callbacks[r]
    BY <1>0, <1>1
  <1>2. ASSUME NEW x \in Receiver,
               \/ Deliver(x) \/ NackInjected(x) \/ NackLostAck(x) \/ Ack(x) \/ ReceiveFault(x)
        PROVE  callbacks'[r] = callbacks[r]
    <2>1. \E c : callbacks' = [callbacks EXCEPT ![x] = c] /\ c.pc \notin {"processed", "acking"}
      BY <1>2 DEF Deliver, NackInjected, NackLostAck, Ack, ReceiveFault, RetainError,
                  NackProcess, NackComplete, Leave, Idle
    <2>2. QED
      BY <1>1, <2>1
  <1>3. ASSUME NEW x \in Receiver, RetainStray(x)
        PROVE  callbacks'[r] = callbacks[r] \/ callbacks'[r].message \in retained'
    BY <1>0, <1>3 DEF RetainStray, Step
  <1>4. ASSUME NEW x \in Receiver, ReceiveComplete(x)
        PROVE  \/ callbacks'[r] = callbacks[r]
               \/ /\ callbacks[r].pc = "processed"
                  /\ callbacks'[r].message = callbacks[r].message
    BY <1>0, <1>4 DEF ReceiveComplete, Step, AtCallback
  <1>5. ASSUME NEW x \in Receiver, ReceiveProcess(x)
        PROVE  \/ callbacks'[r] = callbacks[r]
               \/ /\ callbacks'[r].message \in DOMAIN jobs
                  /\ jobs' = jobs
                  /\ deliveries'[jobs[callbacks'[r].message].event].status \in Decided
    <2> DEFINE m == callbacks[x].message
    <2>1. m \in DOMAIN jobs /\ jobs[m].event \in Event
      BY <1>5, JobRow DEF ReceiveProcess, BusOK, CallbackOK, AtCallback, IsStray
    <2>2. jobs' = jobs /\ deliveries'[jobs[m].event].status \in Decided
      <3> DEFINE e == jobs[m].event
      <3>1. CallProcess(e)
        BY <1>5 DEF ReceiveProcess, Delivered
      <3>2. CASE deliveries[e].status \in Decided /\ UNCHANGED vars
        BY <3>2 DEF vars
      <3>3. CASE Process(e)
        <4>1. PICK status \in {"settled", "duplicate", "quarantined"} :
                deliveries' = [deliveries EXCEPT ![e].status = status]
          BY <3>3, Zenon DEF Process, Settle, MarkDuplicate, Quarantine, Decide
        <4>2. deliveries[e] \in Delivery /\ deliveries \in [Event -> Delivery \cup {NoDelivery}]
          BY <2>1, <3>3, DeliveryRow DEF Process, RowsOK
        <4>3. deliveries'[e].status = status
          BY <2>1, <4>1, <4>2 DEF Delivery
        <4>4. QED
          BY <3>3, <4>3 DEF Process, Decided
      <3>4. QED
        BY <3>1, <3>2, <3>3 DEF CallProcess
    <2>3. CASE x = r
      <3>1. callbacks'[r].message = m
        BY <1>0, <1>5, <2>3 DEF ReceiveProcess, Step
      <3>2. QED
        BY <2>1, <2>2, <3>1
    <2>4. CASE x # r
      BY <1>0, <1>5, <2>4 DEF ReceiveProcess, Step
    <2>5. QED
      BY <2>3, <2>4, Zenon
  <1>6. ASSUME NEW d \in Dispatcher, CrashProcess(d) PROVE callbacks'[r] = callbacks[r]
    BY <1>6 DEF CrashProcess, Idle
  <1>7. ASSUME NEW d \in Dispatcher,
               \/ SharedSteps(d) /\ UNCHANGED brokerVars
               \/ Publishing(d) \/ PublishError(d) \/ DispatchedError(d)
        PROVE  callbacks' = callbacks
    BY <1>7 DEF Publishing, Publish, MarkDispatched, PublishError, DispatchedError, brokerVars
  <1>8. ASSUME \/ DeadLetter \/ Republish \/ UNCHANGED busVars
               \/ (Client \/ PassTime) /\ UNCHANGED brokerVars
        PROVE  callbacks' = callbacks
    BY <1>8 DEF DeadLetter, Republish, busVars, brokerVars
  <1>9. QED
    BY <1>2, <1>3, <1>4, <1>5, <1>6, <1>7, <1>8 DEF PubSubNext, Receive

\* The fence of every outbox row.
Fenced == \A e \in Event : OwnerOf(e)

\* Ack drops no message a row depends on.
LEMMA AckSafe ==
  ASSUME RowsOK, TasksOK, BusOK, Fenced, BrokerInv, NEW r \in Receiver, Ack(r),
         retained \subseteq Stray
  PROVE  BrokerInv'
  <1> DEFINE m == callbacks[r].message
  <1>0. /\ UNCHANGED <<vars, tasks, retained>>
        /\ Held \ {m} \subseteq Held'
        /\ callbacks[r].pc = "acking"
        /\ callbacks' = [callbacks EXCEPT ![r] = Idle]
        /\ callbacks = [x \in Receiver |-> callbacks[x]]
    BY DEF Ack, Held, AtCallback, Leave, workerVars, BusOK
  <1>1. UNCHANGED <<outbox, deliveries, jobs>>
    BY <1>0 DEF vars
  <1>2. m \in retained \/ (m \in DOMAIN jobs /\ Finished(m))
    BY <1>0 DEF BrokerInv, CallbackSafe
  <1>3. DOMAIN jobs \cap Stray = {}
    BY PubSubAssumption DEF RowsOK
  <1>4. \A x \in Receiver : CallbackSafe(x)'
    BY <1>0, <1>1 DEF BrokerInv, CallbackSafe, Finished, Superseded, Idle
  <1>5. \A d \in Dispatcher : PublishedHeld(d)'
    <2> SUFFICES ASSUME NEW d \in Dispatcher, tasks[d].pc = "published",
                        Owns(tasks[d].job), Waiting(EventOf(d))
                 PROVE  tasks[d].job \in Held'
      BY <1>0, <1>1, Zenon DEF PublishedHeld, Owns, Waiting, EventOf
    <2> DEFINE j == tasks[d].job
               e == jobs[j].event
    <2>1. j \in DOMAIN jobs /\ e \in Event
      BY JobRow DEF TasksOK, TaskOK, Busy
    <2>2. j \in Held
      BY DEF BrokerInv, PublishedHeld
    <2>3. ~Finished(j)
      <3>1. outbox[e].state = "leased" /\ outbox[e].owner = j
        BY DEF Owns
      <3>2. deliveries[e].status = "accepted"
        BY DEF Waiting, EventOf
      <3>3. j # 0 /\ DOMAIN jobs \subseteq Nat
        BY <2>1 DEF RowsOK
      <3>4. \A i \in DOMAIN jobs : jobs[i].event = e => i <= j
        BY <2>1, <3>1, <3>3, Zenon DEF Fenced, OwnerOf
      <3>5. ~Superseded(j)
        BY <2>1, <3>3, <3>4 DEF Superseded
      <3>6. QED
        BY <3>1, <3>2, <3>5 DEF Finished, Decided
    <2>4. j # m
      BY <1>2, <1>3, <2>1, <2>3
    <2>5. QED
      BY <1>0, <2>2, <2>4, Zenon
  <1>6. \A e \in Event : DispatchedHeld(e)'
    <2> SUFFICES ASSUME NEW e \in Event, Waiting(e), outbox[e].state = "dispatched"
                 PROVE  \E j \in DOMAIN jobs : j \in Held' /\ jobs[j].event = e /\ ~Superseded(j)
      BY <1>1 DEF DispatchedHeld, Waiting, Superseded
    <2>1. PICK j \in DOMAIN jobs : j \in Held /\ jobs[j].event = e /\ ~Superseded(j)
      BY DEF BrokerInv, DispatchedHeld
    <2>2. ~Finished(j)
      BY <2>1 DEF Finished, Waiting, Decided
    <2>3. j # m
      BY <1>2, <1>3, <2>1, <2>2
    <2>4. QED
      BY <1>0, <2>1, <2>3
  <1>7. Stray \subseteq Held' \cup retained'
    BY <1>0, <1>2, <1>3 DEF BrokerInv
  <1>8. QED
    BY <1>4, <1>5, <1>6, <1>7 DEF BrokerInv

\* No step of the brokered system loses a message.
LEMMA BrokerStep ==
  ASSUME RowsOK, Paired, TasksOK, BusOK, MemoryOK, Fenced, BrokerInv, TasksOK',
         [PubSubNext]_busVars
  PROVE  BrokerInv'
  <1>1. CASE \E r \in Receiver : Ack(r)
    BY <1>1, AckSafe DEF MemoryOK
  <1>2. CASE ~\E r \in Receiver : Ack(r)
    <2>1. Held \subseteq Held' /\ retained \subseteq retained'
      BY <1>2, OnlyAckDrops
    <2>2. ASSUME NEW j \in DOMAIN jobs
          PROVE  \E i \in DOMAIN jobs : StoreStep(i)
      BY <2>2, OnlyPublishedDispatch DEF StoreStep
    <2>3. ASSUME NEW j \in DOMAIN jobs PROVE j \in DOMAIN jobs' /\ jobs'[j] = jobs[j]
      BY <2>2, <2>3, JobsKept, StoreStepIsNext
    <2>4. ASSUME NEW j \in DOMAIN jobs, Finished(j) PROVE Finished(j)'
      BY <2>2, <2>4, FinishedStays
    <2>5. \A r \in Receiver : CallbackSafe(r)'
      <3> SUFFICES ASSUME NEW r \in Receiver, callbacks'[r].pc \in {"processed", "acking"}
                   PROVE  \/ callbacks'[r].message \in retained'
                          \/ /\ callbacks'[r].message \in DOMAIN jobs'
                             /\ Finished(callbacks[r].message)'
        BY DEF CallbackSafe
      <3> DEFINE m == callbacks'[r].message
      <3>1. ASSUME m \in DOMAIN jobs, jobs' = jobs,
                   deliveries'[jobs[m].event].status \in Decided
            PROVE  m \in DOMAIN jobs' /\ Finished(callbacks[r].message)'
        BY <3>1 DEF Finished
      <3>2. ASSUME m = callbacks[r].message, callbacks[r].pc \in {"processed", "acking"}
            PROVE  m \in retained' \/ (m \in DOMAIN jobs' /\ Finished(callbacks[r].message)')
        <4>1. m \in retained \/ (m \in DOMAIN jobs /\ Finished(m))
          BY <3>2 DEF BrokerInv, CallbackSafe
        <4>2. ASSUME m \in DOMAIN jobs, Finished(callbacks[r].message)
              PROVE  m \in DOMAIN jobs' /\ Finished(callbacks[r].message)'
          <5>1. PICK n \in DOMAIN jobs : n = m
            BY <4>2
          <5>2. Finished(n) /\ n \in DOMAIN jobs'
            BY <2>3, <3>2, <4>2, <5>1, Zenon
          <5>3. QED
            BY <2>4, <3>2, <5>1, <5>2 DEF Finished, Superseded
        <4>3. QED
          BY <2>1, <3>2, <4>1, <4>2
      <3>3. QED
        BY <3>1, <3>2, CallbackFrom
    <2>6. \A d \in Dispatcher : PublishedHeld(d)'
      <3> SUFFICES ASSUME NEW d \in Dispatcher, tasks'[d].pc = "published",
                          tasks'[d] = tasks[d], Owns(tasks[d].job)', Waiting(EventOf(d))'
                   PROVE  tasks[d].job \in Held'
        BY PublishedFrom DEF PublishedHeld
      <3>1. tasks[d].job \in DOMAIN jobs
        BY DEF TasksOK, TaskOK, Busy
      <3>2. PICK j \in DOMAIN jobs : j = tasks[d].job
        BY <3>1, Zenon
      <3>3. Owns(j)' /\ Waiting(jobs[j].event)'
        BY <3>2, Zenon DEF Owns, Waiting, EventOf
      <3>4. Owns(j) /\ Waiting(jobs[j].event)
        BY <2>2, <3>3, OwnedBefore
      <3>5. QED
        BY <2>1, <3>2, <3>4 DEF BrokerInv, PublishedHeld, EventOf
    <2>7. \A e \in Event : DispatchedHeld(e)'
      <3> SUFFICES ASSUME NEW e \in Event, Waiting(e)', outbox'[e].state = "dispatched"
                   PROVE  \E j \in DOMAIN jobs' :
                            j \in Held' /\ jobs'[j].event = e /\ ~Superseded(j)'
        BY DEF DispatchedHeld
      <3>1. ASSUME NEW j \in DOMAIN jobs, j \in Held, jobs[j].event = e, ~Superseded(j),
                   \A i \in DOMAIN jobs' : jobs'[i].event = e => i \in DOMAIN jobs
            PROVE  j \in DOMAIN jobs' /\ j \in Held' /\ jobs'[j].event = e /\ ~Superseded(j)'
        BY <2>1, <2>3, <3>1 DEF Superseded
      <3>2. CASE Waiting(e) /\ outbox[e].state = "dispatched"
                 /\ \A i \in DOMAIN jobs' : jobs'[i].event = e => i \in DOMAIN jobs
        BY <3>1, <3>2 DEF BrokerInv, DispatchedHeld
      <3>3. CASE [OtherNext]_vars
        BY <3>2, <3>3, DispatchedBefore
      <3>4. ASSUME NEW d \in Dispatcher, At(d, "published"), tasks[d].job \in DOMAIN jobs,
                   Dispatched(tasks[d].job)
            PROVE  \E j \in DOMAIN jobs' :
                     j \in Held' /\ jobs'[j].event = e /\ ~Superseded(j)'
        <4> DEFINE j == tasks[d].job
        <4>1. /\ UNCHANGED <<jobs, deliveries>>
              /\ jobs[j].event # e => outbox'[e] = outbox[e]
              /\ jobs[j].event = e => outbox[e].state = "leased" /\ outbox[e].owner = j
          BY <3>4, DispatchedRow
        <4>2. Waiting(e) /\ \A i \in DOMAIN jobs' : jobs'[i].event = e => i \in DOMAIN jobs
          BY <4>1 DEF Waiting
        <4>3. CASE jobs[j].event # e
          BY <3>2, <4>1, <4>2, <4>3
        <4>4. CASE jobs[j].event = e
          <5>1. j \in Held
            BY <3>4, <4>1, <4>2, <4>4 DEF BrokerInv, PublishedHeld, At, Owns, EventOf
          <5>2. j # 0 /\ DOMAIN jobs \subseteq Nat
            <6>1. j \in DOMAIN jobs
              BY <3>4
            <6>2. DOMAIN jobs \subseteq Nat \ {0}
              BY DEF RowsOK
            <6>3. QED
              BY <6>1, <6>2
          <5>3. \A i \in DOMAIN jobs : jobs[i].event = e => i <= j
            BY <4>1, <4>4, <5>2, Zenon DEF Fenced, OwnerOf
          <5>4. ~Superseded(j)
            BY <3>4, <4>4, <5>2, <5>3 DEF Superseded
          <5>5. QED
            BY <3>1, <3>4, <4>2, <4>4, <5>1, <5>4, Zenon
        <4>5. QED
          BY <4>3, <4>4, Zenon
      <3>5. QED
        BY <3>3, <3>4, OnlyPublishedDispatch
    <2>8. Stray \subseteq Held' \cup retained'
      BY <2>1 DEF BrokerInv
    <2>9. QED
      BY <2>5, <2>6, <2>7, <2>8 DEF BrokerInv
  <1>3. QED
    BY <1>1, <1>2, Zenon

-----------------------------------------------------------------------------
(* The balances *)

INSTANCE FiniteSetTheorems

\* A reservation of cost n stands for n units.
LEMMA BlockSize ==
  ASSUME NEW k, NEW n \in Nat
  PROVE  IsFiniteSet({k} \X (1..n)) /\ Cardinality({k} \X (1..n)) = n
  <1>1. IsFiniteSet({k}) /\ Cardinality({k}) = 1
    BY FS_Singleton
  <1>2. IsFiniteSet(1..n) /\ Cardinality(1..n) = n
    BY FS_Interval
  <1>3. /\ IsFiniteSet({k} \X (1..n))
        /\ Cardinality({k} \X (1..n)) = Cardinality({k}) * Cardinality(1..n)
    BY <1>1, <1>2, FS_Product, Zenon
  <1>4. 1 * n = n
    OBVIOUS
  <1>5. QED
    BY <1>1, <1>2, <1>3, <1>4, Zenon

\* A campaign has finitely many units in one state.
LEMMA UnitsCounted ==
  ASSUME NEW R, NEW c, NEW state
  PROVE  /\ IsFiniteSet(UnitsOf(R, c, state))
         /\ Cardinality(UnitsOf(R, c, state)) \in Nat
  <1>0. IsFiniteSet(Key) /\ MaxCost \in Int /\ 1 \in Int
    BY StoreAssumption
  <1>1. IsFiniteSet(Key \X (1..MaxCost))
    <2>1. IsFiniteSet(1..MaxCost)
      BY <1>0, FS_Interval, Zenon
    <2>2. QED
      BY <1>0, <2>1, FS_Product, Zenon
  <1>2. UnitsOf(R, c, state) \in SUBSET (Key \X (1..MaxCost))
    BY DEF UnitsOf
  <1>3. IsFiniteSet(UnitsOf(R, c, state))
    BY <1>1, <1>2, FS_Subset
  <1>4. QED
    BY <1>3, FS_CardinalityType

\* Sizes of finite sets are what the proofs about money take them to be.
LEMMA CountingHolds == Counting
  <1>1. Cardinality({}) = 0
    BY FS_EmptySet
  <1>2. ASSUME NEW S, NEW T, IsFiniteSet(S), IsFiniteSet(T), S \cap T = {}
        PROVE  Cardinality(S \cup T) = Cardinality(S) + Cardinality(T)
    <2>1. Cardinality(S \cup T) = Cardinality(S) + Cardinality(T) - Cardinality(S \cap T)
      BY <1>2, FS_Union, Zenon
    <2>2. Cardinality(S) \in Nat /\ Cardinality(T) \in Nat
      BY <1>2, FS_CardinalityType
    <2>3. Cardinality(S \cap T) = 0
      BY <1>1, <1>2, Zenon
    <2>4. QED
      BY <2>1, <2>2, <2>3
  <1>3. QED
    BY <1>1, <1>2, BlockSize, UnitsCounted, Zenon DEF Counting

\* In every reachable state the balances add up.
LEMMA BalancesAlways == Spec => []\A c \in Campaign : BalancesOf(c)
  <1>1. Init => \A c \in Campaign : BalancesOf(c)
    BY CountingHolds, InitialBalances
  <1>2. RowsOK /\ (\A c \in Campaign : BalancesOf(c)) /\ [Next]_vars
        => (\A c \in Campaign : BalancesOf(c))'
    BY CountingHolds, BudgetStep
  <1>3. QED
    BY <1>1, <1>2, RowsAlways, PTL DEF Spec

\* Whatever is reserved, accepted, processed, released, claimed, failed or
\* replayed, in any order, what Assurance calls budget_consistent holds: each
\* campaign's counters are the sums of its reservations and stay in its budget.
THEOREM BudgetSafe == Spec => []BudgetConsistent
  BY BalancesAlways, BudgetAsUnits, PTL

\* Every row always has its type; in particular the counters of a campaign never
\* become negative, which schema.sql's CHECKs would otherwise have to prevent.
THEOREM TypeCorrect == Spec => []TypeOK
  <1>1. RowsOK /\ (\A c \in Campaign : BalancesOf(c)) => TypeOK
    BY UnitsCounted DEF RowsOK, BalancesOf, TypeOK
  <1>2. QED
    BY <1>1, RowsAlways, BalancesAlways, PTL

\* The store is a correct implementation of the abstract ledger: the test of
\* two counters in Reserve admits only holds the budget covers, and each hold is
\* charged or returned once, whatever the receipts and the outbox do.
THEOREM StoreImplementsSettlement == Spec => ImplementsSettlement
  <1>1. Init => Ledger!Init
    BY DEF Init, Ledger!Init, Hold, NoReservation, Ledger!NoHold
  <1>2. RowsOK /\ (\A c \in Campaign : BalancesOf(c)) /\ [Next]_vars => [Ledger!Next]_Book
    BY CountingHolds, SettlementStep
  <1>3. QED
    BY <1>1, <1>2, RowsAlways, BalancesAlways, PTL
       DEF Spec, ImplementsSettlement, Ledger!Spec, Book

-----------------------------------------------------------------------------
(* The whole system *)

\* No undecided delivery is ever left with a dispatched row and no message, and
\* no stray message is acked before it is stored: for any number of processes
\* and callbacks, and however leases expire, calls fail and messages repeat.
THEOREM MessagesAlwaysKept == PubSubSpec => []MessageKept
  <1>1. PubSubInit => TasksOK /\ BusOK /\ MemoryOK /\ BrokerInv
    <2> SUFFICES ASSUME PubSubInit PROVE TasksOK /\ BusOK /\ MemoryOK /\ BrokerInv
      OBVIOUS
    <2> USE DEF PubSubInit, WorkerInit, Init
    <2>1. TasksOK /\ BusOK
      BY DEF TasksOK, TaskOK, BusOK, CallbackOK, Idle, Busy
    <2>2. 0 \in 0..Trip /\ 0 \in 0..Cooldown /\ 0 \in 0..Inject /\ 0 \in 0..MaxFaults
      BY WorkerAssumption
    <2>3. Closed \in BreakerType /\ NoFaults \in ControlsType
      BY <2>2 DEF Closed, NoFaults, BreakerType, ControlsType
    <2>4. MemoryOK
      BY <2>2, <2>3 DEF MemoryOK, TaskType, CallbackType
    <2>5. BrokerInv
      BY DEF BrokerInv, CallbackSafe, PublishedHeld, DispatchedHeld, Waiting, Held, Idle,
             NoDelivery
    <2>6. QED
      BY <2>1, <2>4, <2>5
  <1>2. /\ RowsOK /\ Paired /\ TasksOK /\ BusOK /\ MemoryOK /\ Fenced /\ BrokerInv
        /\ [PubSubNext]_busVars
        => TasksOK' /\ BusOK' /\ MemoryOK' /\ BrokerInv'
    BY PubSubStepMaps, MemoryStep, BrokerStep
  <1>3. TypeOK /\ RowsOK /\ TasksOK /\ BusOK /\ MemoryOK /\ BrokerInv => MessageKept
    <2> SUFFICES ASSUME TypeOK, RowsOK, TasksOK, BusOK, MemoryOK, BrokerInv
                 PROVE  MessageKept
      OBVIOUS
    <2>1. DOMAIN jobs \cap Stray = {}
      BY PubSubAssumption DEF RowsOK
    <2>2. QED
      BY <2>1, ShapesTyped DEF MessageKept, BrokerInv, DispatchedHeld, Waiting, Held
  <1>4. Spec => [](RowsOK /\ Paired) /\ []TypeOK /\ []Fenced
    BY RowsAlways, TypeCorrect, OwnerAlways, PTL DEF Fenced
  <1>5. QED
    BY <1>1, <1>2, <1>3, <1>4, PubSubImplementsStore, PTL DEF PubSubSpec

\* So in the running system, with either transport, no campaign's counters ever
\* drift from its reservations or pass its budget, and no hold is charged twice.
THEOREM PipelineSafe ==
  (WorkerSpec \/ PubSubSpec) => []BudgetConsistent /\ []ChargedOnce /\ TerminalStatesKept
  BY WorkerImplementsStore, PubSubImplementsStore, BudgetSafe, ChargedOnceAlways,
     TerminalStatesStay, PTL

=============================================================================
