--------------------------- MODULE PipelineProofs ---------------------------
(***************************************************************************)
(* Proofs that the worker processes, with either transport, only ever take *)
(* steps of Store, so that every theorem about Store holds of the running  *)
(* system: with any number of processes, callbacks, crashes and lost       *)
(* answers; that a lease and a cooldown last as long as they are meant to, *)
(* measured by the clock of Timing; and the type invariant of the brokered *)
(* system.                                                                 *)
(***************************************************************************)
EXTENDS PubSub, Timing, StoreProofs

Busy == {"claimed", "published", "processed", "failing"}

\* A process works on a job Claim returned, and sweeps reservations.
TaskOK(d) ==
  /\ tasks[d].pc \in Busy => tasks[d].job \in DOMAIN jobs
  /\ tasks[d].pc = "sweeping" => tasks[d].ids \subseteq Key

TasksOK ==
  /\ tasks = [d \in Dispatcher |-> tasks[d]]
  /\ \A d \in Dispatcher : TaskOK(d)

\* No step of the store takes a job away.
LEMMA JobsStay ==
  ASSUME RowsOK, [Next]_vars
  PROVE  DOMAIN jobs \subseteq DOMAIN jobs'
  <1>1. ASSUME NEW e \in Event, Claim(e) PROVE DOMAIN jobs \subseteq DOMAIN jobs'
    BY <1>1 DEF Claim, RowsOK
  <1>2. QED
    BY <1>1, Zenon DEF Next, vars, Reserve, Accept, Process, Complete, Replay, Release,
                Dispatched, FailJob, Tick

\* Claim returns the job it appends.
LEMMA ClaimedJob ==
  ASSUME RowsOK, NEW e \in Event, Claim(e)
  PROVE  Len(jobs) + 1 \in DOMAIN jobs'
  BY DEF Claim, RowsOK

\* What a process does in Tick or its sweep is a transaction of the store or
\* none.
LEMMA CallsAreSteps ==
  ASSUME RowsOK, NEW e \in Event
  PROVE  /\ CallProcess(e) => [Transaction]_vars
         /\ CallComplete(e) => [Transaction]_vars
         /\ \A j \in DOMAIN jobs : CallFailJob(j) => [Transaction]_vars
         /\ \A j \in DOMAIN jobs : CallDispatched(j) => [Transaction]_vars
  BY DEF CallProcess, CallComplete, CallFailJob, CallDispatched, Transaction

\* The steps of one process that both transports share.
ProcessStep(d) ==
  \/ Begin(d) \/ Dispatch(d) \/ StartSweep(d) \/ SweepOne(d) \/ Disturb(d)

\* Every such step is a transaction of the store and leaves the process at work on a
\* job that exists.
LEMMA ProcessStepMaps ==
  ASSUME RowsOK, TasksOK, NEW d \in Dispatcher, ProcessStep(d)
  PROVE  [Transaction]_vars /\ TasksOK'
  <1>0. /\ TaskOK(d) /\ tasks = [x \in Dispatcher |-> tasks[x]]
        /\ \A x \in Dispatcher : TaskOK(x)
    BY DEF TasksOK
  <1>1. ASSUME [Transaction]_vars, NEW task, Goto(d, task),
               task.pc \in Busy => task.job \in DOMAIN jobs',
               task.pc = "sweeping" => task.ids \subseteq Key
        PROVE  [Transaction]_vars /\ TasksOK'
    <2>1. DOMAIN jobs \subseteq DOMAIN jobs'
      BY <1>1, JobsStay, TransactionsAreSteps
    <2>2. /\ tasks' = [x \in Dispatcher |-> tasks'[x]]
          /\ tasks'[d] = task
          /\ \A x \in Dispatcher : x # d => tasks'[x] = tasks[x]
      BY <1>0, <1>1 DEF Goto
    <2>3. \A x \in Dispatcher : TaskOK(x)'
      BY <1>0, <1>1, <2>1, <2>2 DEF TaskOK
    <2>4. QED
      BY <1>1, <2>2, <2>3 DEF TasksOK
  <1>2. ASSUME [Transaction]_vars, Goto(d, Idle) PROVE [Transaction]_vars /\ TasksOK'
    BY <1>1, <1>2 DEF Idle, Busy
  <1>3. ASSUME [Transaction]_vars, At(d, "claimed") \/ At(d, "published") \/ At(d, "processed"),
               NEW pc \in Busy, Working(d, pc)
        PROVE  [Transaction]_vars /\ TasksOK'
    <2>1. tasks[d].job \in DOMAIN jobs'
      BY <1>0, <1>3, JobsStay, TransactionsAreSteps DEF TaskOK, At, Busy
    <2>2. QED
      BY <1>1, <1>3, <2>1 DEF Working, Busy
  <1>4. tasks[d].pc \in Busy => tasks[d].job \in DOMAIN jobs /\ EventOf(d) \in Event
    BY <1>0, JobRow DEF TaskOK, EventOf
  <1>5. CASE Begin(d)
    BY <1>1, <1>5 DEF Begin, Busy
  <1>6. CASE ClaimJob(d)
    <2>1. CASE UNCHANGED vars /\ Goto(d, Idle)
      BY <1>2, <2>1
    <2>2. ASSUME NEW e \in Event, Claim(e),
                 Goto(d, [pc |-> "claimed", job |-> Len(jobs) + 1])
          PROVE  [Transaction]_vars /\ TasksOK'
      <3>1. [Transaction]_vars
        BY <2>2 DEF Transaction
      <3>2. QED
        BY <1>1, <2>2, <3>1, ClaimedJob
    <2>3. QED
      BY <1>6, <2>1, <2>2 DEF ClaimJob
  <1>7. CASE ClaimError(d)
    BY <1>2, <1>7 DEF ClaimError, Transaction
  <1>8. CASE InjectedFailure(d) \/ LoseAck(d)
    BY <1>3, <1>8 DEF InjectedFailure, LoseAck, Busy
  <1>9. CASE ConsumeProcess(d) \/ ProcessError(d)
    <2>1. [Transaction]_vars
      BY <1>4, <1>9, CallsAreSteps DEF ConsumeProcess, ProcessError, At, Busy
    <2>2. QED
      BY <1>3, <1>9, <2>1 DEF ConsumeProcess, ProcessError, Busy
  <1>10. CASE ConsumeComplete(d) \/ CompleteError(d)
    <2>1. [Transaction]_vars
      BY <1>4, <1>10, CallsAreSteps DEF ConsumeComplete, CompleteError, At, Busy
    <2>2. QED
      BY <1>2, <1>3, <1>10, <2>1 DEF ConsumeComplete, CompleteError, Busy
  <1>11. CASE FailTick(d) \/ FailJobError(d)
    <2>1. [Transaction]_vars
      BY <1>4, <1>11, CallsAreSteps DEF FailTick, FailJobError, At, Busy
    <2>2. QED
      BY <1>2, <1>11, <2>1 DEF FailTick, FailJobError
  <1>12. CASE StartSweep(d)
    <2>1. PICK ids \in SUBSET Expired :
            Goto(d, IF ids = {} THEN Idle ELSE [pc |-> "sweeping", ids |-> ids])
      BY <1>12 DEF StartSweep
    <2>2. ids \subseteq Key /\ UNCHANGED vars
      BY <1>12 DEF Expired, StartSweep
    <2>3. QED
      BY <1>1, <1>2, <2>1, <2>2 DEF Busy
  <1>13. CASE SweepOne(d)
    <2>1. tasks[d].ids \subseteq Key
      BY <1>0, <1>13 DEF SweepOne, At, TaskOK
    <2>2. PICK k \in tasks[d].ids :
            /\ Release(k) \/ UNCHANGED vars
            /\ LET rest == tasks[d].ids \ {k}
               IN  Goto(d, IF rest = {} THEN Idle ELSE [pc |-> "sweeping", ids |-> rest])
      BY <1>13, Zenon DEF SweepOne
    <2>3. [Transaction]_vars
      BY <2>1, <2>2 DEF Transaction
    <2>4. tasks[d].ids \ {k} \subseteq Key
      BY <2>1
    <2>5. QED
      BY <1>1, <1>2, <2>2, <2>3, <2>4 DEF Busy
  <1>14. CASE SweepError(d)
    <2>1. tasks[d].ids \subseteq Key
      BY <1>0, <1>14 DEF SweepError, At, TaskOK
    <2>2. [Transaction]_vars
      BY <1>14, <2>1 DEF SweepError, Transaction
    <2>3. QED
      BY <1>2, <1>14, <2>2 DEF SweepError
  <1>15. CASE Crash(d)
    BY <1>2, <1>15 DEF Crash, Goto
  <1>16. CASE SetPaused(d) \/ ArmFault(d)
    <2>1. UNCHANGED <<vars, tasks>>
      BY <1>16 DEF SetPaused, ArmFault
    <2>2. QED
      BY <2>1 DEF vars, TasksOK, TaskOK
  <1>17. QED
    BY <1>5, <1>6, <1>7, <1>8, <1>9, <1>10, <1>11, <1>12, <1>13, <1>14, <1>15, <1>16, Zenon
       DEF ProcessStep, Dispatch, Disturb

\* Requests are transactions and time is a step of the store; both leave the
\* processes alone.
LEMMA OutsideStepMaps ==
  ASSUME RowsOK, TasksOK, Client \/ PassTime
  PROVE  (Client => [Transaction]_vars) /\ [Next]_vars /\ TasksOK'
  <1>1. Client => [Transaction]_vars
    BY DEF Client, Transaction
  <1>2. [Next]_vars
    BY <1>1, TransactionsAreSteps DEF PassTime, Next
  <1>3. UNCHANGED tasks
    BY DEF Client, PassTime, workerVars
  <1>4. QED
    BY <1>1, <1>2, <1>3, JobsStay DEF TasksOK, TaskOK

\* Every step of the processes with the local transport is one of the store.
LEMMA WorkerStepMaps ==
  ASSUME RowsOK, TasksOK, [WorkerNext]_allVars
  PROVE  [Next]_vars /\ TasksOK'
  <1>1. CASE UNCHANGED allVars
    BY <1>1 DEF allVars, vars, workerVars, TasksOK, TaskOK
  <1>2. ASSUME NEW d \in Dispatcher, ProcessStep(d) PROVE [Next]_vars /\ TasksOK'
    BY <1>2, ProcessStepMaps, TransactionsAreSteps
  <1>3. QED
    BY <1>1, <1>2, OutsideStepMaps DEF WorkerNext, ProcessStep

\* The rows, and what the processes know of them, are well formed throughout.
LEMMA WorkerShapes == WorkerSpec => [](RowsOK /\ Paired /\ TasksOK)
  <1>1. WorkerInit => RowsOK /\ Paired /\ TasksOK
    BY InitialRows DEF WorkerInit, TasksOK, TaskOK, Idle, Busy
  <1>2. RowsOK /\ Paired /\ TasksOK /\ [WorkerNext]_allVars
        => RowsOK' /\ Paired' /\ TasksOK'
    BY WorkerStepMaps, RowsStep, PairedStep
  <1>3. QED
    BY <1>1, <1>2, PTL DEF WorkerSpec

\* The processes with the local transport implement the store: however their
\* steps interleave, crash or fail, the database only sees Store's transactions.
THEOREM WorkerImplementsStore == WorkerSpec => Spec
  <1>1. WorkerInit => Init
    BY DEF WorkerInit
  <1>2. RowsOK /\ TasksOK /\ [WorkerNext]_allVars => [Next]_vars
    BY WorkerStepMaps
  <1>3. QED
    BY <1>1, <1>2, WorkerShapes, PTL DEF WorkerSpec, Spec

-----------------------------------------------------------------------------
(* The clock *)

\* The history variables leave the processes as they are.
THEOREM WatchingChangesNothing == TimedSpec => WorkerSpec
  <1>1. TimedInit => WorkerInit
    BY DEF TimedInit
  <1>2. [TimedNext]_timedVars => [WorkerNext]_allVars
    <2>1. \A d \in Dispatcher : Fails(d) \/ StartsOver(d) \/ GoesOn(d) => ProcessStep(d)
      BY Zenon DEF Fails, StartsOver, GoesOn, ProcessStep, Dispatch, Disturb
    <2>2. TimePasses => PassTime
      BY Zenon DEF TimePasses
    <2>3. QED
      BY <2>1, <2>2, Zenon DEF TimedNext, WorkerNext, ProcessStep, timedVars
  <1>3. QED
    BY <1>1, <1>2, PTL DEF TimedSpec, WorkerSpec

\* The age of a claim and the rest of its lease make up the whole of Lease.
LeaseInv ==
  /\ held \in [Event -> 0..Lease]
  /\ \A e \in Event : outbox[e].state = "leased" => held[e] + outbox[e].lease >= Lease

TakenOver(e) ==
  /\ outbox[e].state = "leased" /\ outbox'[e].state = "leased"
  /\ outbox'[e].owner # outbox[e].owner

\* Transactions keep the balance of age and rest, and take over only rows whose
\* rest is zero.
LEMMA LeaseAtTransaction ==
  ASSUME RowsOK, LeaseInv, [Transaction]_vars, HeldFor(0)
  PROVE  LeaseInv' /\ \A e \in Event : TakenOver(e) => held[e] = Lease
  <1>0. Lease \in Nat /\ held \in [Event -> 0..Lease]
    BY StoreAssumption DEF LeaseInv
  <1>1. ASSUME NEW e \in Event
        PROVE  held'[e] = IF StillLeased(e) THEN held[e] ELSE 0
    BY <1>0, <1>1 DEF HeldFor, AtMost
  <1>2. held' \in [Event -> 0..Lease]
    BY <1>0 DEF HeldFor, AtMost
  <1>3. ASSUME NEW e \in Event, outbox'[e].state = "leased"
        PROVE  held'[e] + outbox'[e].lease >= Lease
    <2>1. LeaseKept(e)
      BY LeaseMoves
    <2>2. CASE outbox'[e] = outbox[e]
      BY <1>1, <1>3, <2>2 DEF StillLeased, LeaseInv
    <2>3. CASE outbox'[e].lease = Lease
      BY <1>0, <1>1, <2>3
    <2>4. QED
      BY <1>3, <2>1, <2>2, <2>3, Zenon DEF LeaseKept
  <1>4. ASSUME NEW e \in Event, TakenOver(e)
        PROVE  held[e] = Lease
    <2>1. LeaseKept(e)
      BY LeaseMoves
    <2>2. outbox[e].lease = 0
      BY <1>4, <2>1, Zenon DEF LeaseKept, TakenOver
    <2>3. held[e] + outbox[e].lease >= Lease /\ held[e] \in 0..Lease
      BY <1>0, <1>4 DEF LeaseInv, TakenOver
    <2>4. QED
      BY <1>0, <2>2, <2>3
  <1>5. QED
    BY <1>2, <1>3, <1>4 DEF LeaseInv

\* What the clock takes from a lease it adds to the age of its claim.
LEMMA LeaseAtTick ==
  ASSUME RowsOK, LeaseInv, Tick, HeldFor(1)
  PROVE  LeaseInv' /\ \A e \in Event : ~TakenOver(e)
  <1>0. Lease \in Nat /\ held \in [Event -> 0..Lease]
    BY StoreAssumption DEF LeaseInv
  <1>1. ASSUME NEW e \in Event, outbox[e].state # "none"
        PROVE  /\ outbox'[e].state = outbox[e].state /\ outbox'[e].owner = outbox[e].owner
               /\ outbox'[e].lease = Earlier(outbox[e].lease) /\ outbox[e].lease \in Nat
    <2>1. outbox[e] \in OutboxRow
      BY <1>1, OutboxRowFields
    <2>2. outbox'[e] = [outbox[e] EXCEPT !.lease = Earlier(@), !.wait = Earlier(@)]
      BY <1>1, Zenon DEF Tick, Elapsed
    <2>3. QED
      BY <2>1, <2>2 DEF OutboxRow
  <1>2. ASSUME NEW e \in Event, outbox[e].state = "none"
        PROVE  outbox'[e].state = "none"
    BY <1>2, Zenon DEF Tick, Elapsed
  <1>3. held' \in [Event -> 0..Lease]
    BY <1>0 DEF HeldFor, AtMost
  <1>4. ASSUME NEW e \in Event, outbox'[e].state = "leased"
        PROVE  held'[e] + outbox'[e].lease >= Lease
    <2>1. outbox[e].state = "leased" /\ StillLeased(e)
      BY <1>1, <1>2, <1>4 DEF StillLeased
    <2>2. held'[e] = AtMost(Lease, held[e] + 1) /\ held[e] \in 0..Lease
      BY <1>0, <1>4, <2>1 DEF HeldFor
    <2>3. held[e] + outbox[e].lease >= Lease
      BY <1>4, <2>1 DEF LeaseInv
    <2>4. QED
      BY <1>0, <1>1, <1>4, <2>1, <2>2, <2>3 DEF AtMost, Earlier
  <1>5. ASSUME NEW e \in Event PROVE ~TakenOver(e)
    BY <1>1, <1>5 DEF TakenOver
  <1>6. QED
    BY <1>3, <1>4, <1>5 DEF LeaseInv

\* Every timed step keeps the balance and takes over only what has run out.
LEMMA LeaseStep ==
  ASSUME RowsOK, TasksOK, LeaseInv, [TimedNext]_timedVars
  PROVE  LeaseInv' /\ \A e \in Event : TakenOver(e) => held[e] = Lease
  <1>1. CASE TimePasses
    BY <1>1, LeaseAtTick, Zenon DEF TimePasses, PassTime
  <1>2. ASSUME NEW d \in Dispatcher, Fails(d) \/ StartsOver(d) \/ GoesOn(d), HeldFor(0)
        PROVE  LeaseInv' /\ \A e \in Event : TakenOver(e) => held[e] = Lease
    <2>1. ProcessStep(d)
      BY <1>2, Zenon DEF Fails, StartsOver, GoesOn, ProcessStep, Dispatch, Disturb
    <2>2. QED
      BY <1>2, <2>1, ProcessStepMaps, LeaseAtTransaction
  <1>3. CASE Client /\ HeldFor(0)
    BY <1>3, OutsideStepMaps, LeaseAtTransaction
  <1>4. CASE UNCHANGED timedVars
    <2>1. UNCHANGED <<outbox, held>>
      BY <1>4, Zenon DEF timedVars, allVars, vars, watchVars
    <2>2. QED
      BY <2>1, Zenon DEF LeaseInv, TakenOver
  <1>5. QED
    BY <1>1, <1>2, <1>3, <1>4, Zenon DEF TimedNext

\* A claim keeps its row for the whole of Lease, for any number of processes and
\* any lease: the deadline Claim writes and Tick compares with the time neither
\* runs out early nor is written by anyone but a claim.
THEOREM LeaseAlwaysRespected == TimedSpec => LeaseRespected
  <1>1. TimedInit => LeaseInv
    <2>1. SUFFICES ASSUME TimedInit PROVE LeaseInv
      OBVIOUS
    <2>2. held = [e \in Event |-> 0] /\ Lease \in Nat
      BY <2>1, StoreAssumption, Zenon DEF TimedInit
    <2>3. \A e \in Event : outbox[e].state # "leased"
      BY <2>1 DEF TimedInit, WorkerInit, Init, NoOutbox
    <2>4. QED
      BY <2>2, <2>3 DEF LeaseInv
  <1>2. RowsOK /\ TasksOK /\ LeaseInv /\ [TimedNext]_timedVars => LeaseInv'
    BY LeaseStep
  <1>3. RowsOK /\ TasksOK /\ LeaseInv /\ [TimedNext]_timedVars
        => [\A e \in Event :
              (/\ outbox[e].state = "leased" /\ outbox'[e].state = "leased"
               /\ outbox'[e].owner # outbox[e].owner) => held[e] = Lease]_timedVars
    BY LeaseStep, Zenon DEF TakenOver
  <1>4. QED
    BY <1>1, <1>2, <1>3, WatchingChangesNothing, WorkerShapes, PTL
       DEF TimedSpec, LeaseRespected

\* What a breaker looks like.
BreakerType == [failures : 0..Trip, open : 0..Cooldown]

\* The breaker of a process counts its failed Ticks; once it is full, the time
\* the process has rested and the time the breaker stays open make up the whole
\* cooldown; and between Tick's test and its claim the breaker stays closed.
Watched(d) ==
  /\ streak[d] = breaker[d].failures
  /\ streak[d] = Trip => rested[d] + breaker[d].open >= Cooldown
  /\ At(d, "ready") => breaker[d].open = 0

WatchInv ==
  /\ tasks = [d \in Dispatcher |-> tasks[d]]
  /\ breaker \in [Dispatcher -> BreakerType]
  /\ streak \in [Dispatcher -> 0..Trip] /\ rested \in [Dispatcher -> 0..Cooldown]
  /\ \A d \in Dispatcher : Watched(d)

\* A process moves, and its breaker stays as it is.
LEMMA WatchedMove ==
  ASSUME WatchInv, NEW d \in Dispatcher, NEW task, Goto(d, task),
         task.pc = "ready" => breaker[d].open = 0,
         UNCHANGED <<breaker, streak, rested>>
  PROVE  WatchInv'
  <1>1. /\ tasks' = [x \in Dispatcher |-> tasks'[x]] /\ tasks'[d] = task
        /\ \A x \in Dispatcher : x # d => tasks'[x] = tasks[x]
    BY Zenon DEF WatchInv, Goto
  <1>2. ASSUME NEW x \in Dispatcher PROVE Watched(x)'
    <2>1. Watched(x)
      BY DEF WatchInv
    <2>2. QED
      BY <1>1, <2>1 DEF Watched, At
  <1>3. QED
    BY <1>1, <1>2 DEF WatchInv

\* A process ends a Tick or starts again: its breaker and its streak go on
\* together, and a breaker that becomes full opens for the whole cooldown.
LEMMA WatchedEnd ==
  ASSUME WatchInv, NEW d \in Dispatcher, Goto(d, Idle), NEW b \in BreakerType,
         b.failures = Trip => b.open = Cooldown,
         breaker' = [breaker EXCEPT ![d] = b],
         streak' = [streak EXCEPT ![d] = b.failures],
         rested' = [rested EXCEPT ![d] = 0]
  PROVE  WatchInv'
  <1>0. /\ Cooldown \in Nat /\ Trip \in Nat \ {0} /\ b.failures \in 0..Trip
        /\ breaker \in [Dispatcher -> BreakerType]
        /\ streak \in [Dispatcher -> 0..Trip] /\ rested \in [Dispatcher -> 0..Cooldown]
    BY WorkerAssumption DEF BreakerType, WatchInv
  <1>1. /\ tasks' = [x \in Dispatcher |-> tasks'[x]] /\ tasks'[d] = Idle
        /\ \A x \in Dispatcher : x # d => tasks'[x] = tasks[x]
    BY Zenon DEF WatchInv, Goto
  <1>2. /\ breaker' \in [Dispatcher -> BreakerType] /\ breaker'[d] = b
        /\ \A x \in Dispatcher : x # d => breaker'[x] = breaker[x]
    BY <1>0
  <1>3. /\ streak' \in [Dispatcher -> 0..Trip] /\ streak'[d] = b.failures
        /\ \A x \in Dispatcher : x # d => streak'[x] = streak[x]
    BY <1>0
  <1>4. /\ rested' \in [Dispatcher -> 0..Cooldown] /\ rested'[d] = 0
        /\ \A x \in Dispatcher : x # d => rested'[x] = rested[x]
    BY <1>0
  <1>5. Watched(d)'
    <2>1. Idle.pc # "ready"
      BY DEF Idle
    <2>2. QED
      BY <1>0, <1>1, <1>2, <1>3, <1>4, <2>1 DEF Watched, At
  <1>6. ASSUME NEW x \in Dispatcher, x # d PROVE Watched(x)'
    <2>1. Watched(x)
      BY DEF WatchInv
    <2>2. QED
      BY <1>1, <1>2, <1>3, <1>4, <1>6, <2>1 DEF Watched, At
  <1>7. QED
    BY <1>1, <1>2, <1>3, <1>4, <1>5, <1>6 DEF WatchInv

\* A Tick that fails counts once in the breaker and once in the streak.
LEMMA WatchedFails ==
  ASSUME WatchInv, NEW d \in Dispatcher, Fails(d)
  PROVE  WatchInv'
  <1> DEFINE n == IF breaker[d].failures < Trip THEN breaker[d].failures + 1 ELSE Trip
             b == [failures |-> n, open |-> IF n = Trip THEN Cooldown ELSE breaker[d].open]
  <1>0. /\ Cooldown \in Nat /\ Trip \in Nat \ {0}
        /\ breaker \in [Dispatcher -> BreakerType] /\ streak[d] = breaker[d].failures
    BY WorkerAssumption DEF WatchInv, Watched
  <1>1. breaker[d].failures \in 0..Trip /\ breaker[d].open \in 0..Cooldown
    BY <1>0 DEF BreakerType
  <1>2. n \in 0..Trip /\ n = AtMost(Trip, streak[d] + 1)
    BY <1>0, <1>1 DEF AtMost
  <1>3. Goto(d, Idle) /\ MarkFailure(d)
    BY DEF Fails, FailTick, FailJobError
  <1>4. breaker' = [breaker EXCEPT ![d] = b]
    BY <1>0, <1>3 DEF MarkFailure
  <1>5. /\ streak' = [streak EXCEPT ![d] = AtMost(Trip, streak[d] + 1)]
        /\ rested' = [rested EXCEPT ![d] = 0]
    BY Zenon DEF Fails
  <1>6. /\ b \in BreakerType /\ b.failures = n
        /\ n = Trip => b.open = Cooldown
    <2> HIDE DEF n
    <2>1. QED
      BY <1>0, <1>1, <1>2 DEF BreakerType
  <1> HIDE DEF n, b
  <1>7. QED
    BY <1>2, <1>3, <1>4, <1>5, <1>6, WatchedEnd, Zenon

\* A Tick that succeeds and a restart reset both.
LEMMA WatchedStartsOver ==
  ASSUME WatchInv, NEW d \in Dispatcher, StartsOver(d)
  PROVE  WatchInv'
  <1>1. Closed \in BreakerType /\ Closed.failures = 0 /\ Trip # 0
    BY WorkerAssumption DEF Closed, BreakerType
  <1>2. Goto(d, Idle) /\ breaker' = [breaker EXCEPT ![d] = Closed]
    BY DEF StartsOver, ConsumeComplete, Crash, Goto
  <1>3. streak' = [streak EXCEPT ![d] = 0] /\ rested' = [rested EXCEPT ![d] = 0]
    BY Zenon DEF StartsOver
  <1>4. QED
    BY <1>1, <1>2, <1>3, WatchedEnd, Zenon

\* The other steps of a process: only Begin makes it ready, with its breaker
\* closed.
LEMMA WatchedGoesOn ==
  ASSUME WatchInv, NEW d \in Dispatcher, GoesOn(d)
  PROVE  WatchInv'
  <1>0. UNCHANGED <<breaker, streak, rested>>
    BY Zenon DEF GoesOn, Begin, ClaimJob, InjectedFailure, ConsumeProcess, LoseAck, StartSweep,
       SweepOne, ClaimError, ProcessError, CompleteError, SweepError, SetPaused, ArmFault
  <1>1. ASSUME NEW task, Goto(d, task), task.pc # "ready" PROVE WatchInv'
    BY <1>0, <1>1, WatchedMove
  <1>2. ASSUME Goto(d, Idle) PROVE WatchInv'
    BY <1>1, <1>2 DEF Idle
  <1>3. ASSUME NEW pc, pc # "ready", Working(d, pc) PROVE WatchInv'
    BY <1>1, <1>3 DEF Working
  <1>4. CASE Begin(d)
    BY <1>0, <1>4, WatchedMove DEF Begin
  <1>5. CASE ClaimJob(d) \/ ClaimError(d) \/ SweepError(d)
    <2>1. [pc |-> "claimed", job |-> Len(jobs) + 1].pc # "ready"
      OBVIOUS
    <2>2. QED
      BY <1>1, <1>2, <1>5, <2>1, Zenon DEF ClaimJob, ClaimError, SweepError
  <1>6. CASE InjectedFailure(d) \/ LoseAck(d) \/ ConsumeProcess(d) \/ ProcessError(d)
             \/ CompleteError(d)
    BY <1>3, <1>6, Zenon DEF InjectedFailure, LoseAck, ConsumeProcess, ProcessError, CompleteError
  <1>7. CASE StartSweep(d) \/ SweepOne(d)
    <2>1. PICK ids : Goto(d, IF ids = {} THEN Idle ELSE [pc |-> "sweeping", ids |-> ids])
      BY <1>7, Zenon DEF StartSweep, SweepOne
    <2>2. [pc |-> "sweeping", ids |-> ids].pc # "ready"
      OBVIOUS
    <2>3. QED
      BY <1>1, <1>2, <2>1, <2>2, Zenon
  <1>8. CASE SetPaused(d) \/ ArmFault(d)
    <2>1. UNCHANGED tasks
      BY <1>8 DEF SetPaused, ArmFault
    <2>2. QED
      BY <1>0, <2>1 DEF WatchInv, Watched, At
  <1>9. QED
    BY <1>4, <1>5, <1>6, <1>7, <1>8, Zenon DEF GoesOn

\* Time rests a process by what it takes from its open breaker.
LEMMA WatchedTick ==
  ASSUME WatchInv, TimePasses
  PROVE  WatchInv'
  <1>0. /\ Cooldown \in Nat /\ Trip \in Nat \ {0}
        /\ breaker \in [Dispatcher -> BreakerType]
        /\ streak \in [Dispatcher -> 0..Trip] /\ rested \in [Dispatcher -> 0..Cooldown]
        /\ UNCHANGED <<tasks, streak>>
    BY WorkerAssumption DEF WatchInv, TimePasses, PassTime
  <1>1. ASSUME NEW d \in Dispatcher
        PROVE  /\ breaker'[d] \in BreakerType
               /\ breaker'[d].failures = breaker[d].failures
               /\ breaker'[d].open = Earlier(breaker[d].open)
               /\ breaker[d].open \in 0..Cooldown
    <2>1. breaker'[d] = [breaker[d] EXCEPT !.open = Earlier(@)]
      BY DEF TimePasses, PassTime
    <2>2. /\ breaker[d] \in BreakerType /\ breaker[d].open \in 0..Cooldown
          /\ Earlier(breaker[d].open) \in 0..Cooldown
      BY <1>0 DEF BreakerType, Earlier
    <2>3. QED
      BY <2>1, <2>2 DEF BreakerType
  <1>2. breaker' \in [Dispatcher -> BreakerType]
    BY <1>1, Zenon DEF TimePasses, PassTime
  <1>3. ASSUME NEW d \in Dispatcher
        PROVE  rested'[d] = IF streak[d] = Trip THEN AtMost(Cooldown, rested[d] + 1) ELSE 0
    BY DEF TimePasses
  <1>4. rested' \in [Dispatcher -> 0..Cooldown]
    BY <1>0 DEF TimePasses, AtMost
  <1>5. ASSUME NEW d \in Dispatcher PROVE Watched(d)'
    <2>1. Watched(d) /\ rested[d] \in 0..Cooldown
      BY <1>0 DEF WatchInv
    <2>2. ASSUME streak'[d] = Trip PROVE rested'[d] + breaker'[d].open >= Cooldown
      <3>1. PICK r, o : r = rested[d] /\ o = breaker[d].open
        OBVIOUS
      <3>2. r \in Nat /\ o \in Nat /\ Cooldown \in Nat /\ r <= Cooldown
        BY <1>0, <1>1, <2>1, <3>1
      <3>3. r + o >= Cooldown
        BY <1>0, <2>1, <2>2, <3>1 DEF Watched
      <3>4. rested'[d] = AtMost(Cooldown, r + 1) /\ breaker'[d].open = Earlier(o)
        BY <1>0, <1>1, <1>3, <2>2, <3>1
      <3>5. AtMost(Cooldown, r + 1) + Earlier(o) >= Cooldown
        BY <3>2, <3>3 DEF AtMost, Earlier
      <3>6. QED
        BY <3>4, <3>5
    <2>3. At(d, "ready")' => breaker'[d].open = 0
      BY <1>0, <1>1, <2>1, Zenon DEF Watched, At, Earlier
    <2>4. QED
      BY <1>0, <1>1, <2>1, <2>2, <2>3 DEF Watched
  <1>6. QED
    BY <1>0, <1>2, <1>4, <1>5 DEF WatchInv

\* Trip failed Ticks in a row keep a process from claiming for the whole
\* cooldown, for any number of processes and any Trip and Cooldown:
\* markFailure's deadline and Tick's test of it do what the breaker is for.
THEOREM BreakerAlwaysHonoured == TimedSpec => []BreakerHonoured
  <1>1. TimedInit => WatchInv
    <2>1. SUFFICES ASSUME TimedInit PROVE WatchInv
      OBVIOUS
    <2>2. /\ tasks = [d \in Dispatcher |-> Idle] /\ breaker = [d \in Dispatcher |-> Closed]
          /\ streak = [d \in Dispatcher |-> 0] /\ rested = [d \in Dispatcher |-> 0]
      BY <2>1, Zenon DEF TimedInit, WorkerInit
    <2>3. Cooldown \in Nat /\ Trip \in Nat \ {0}
      BY WorkerAssumption
    <2>4. Closed \in BreakerType /\ Closed.failures = 0 /\ Closed.open = 0
      BY <2>3 DEF Closed, BreakerType
    <2>5. \A d \in Dispatcher : Watched(d)
      BY <2>2, <2>3, <2>4 DEF Watched
    <2>6. QED
      BY <2>2, <2>3, <2>4, <2>5 DEF WatchInv
  <1>2. WatchInv /\ [TimedNext]_timedVars => WatchInv'
    <2>1. SUFFICES ASSUME WatchInv, [TimedNext]_timedVars PROVE WatchInv'
      OBVIOUS
    <2>2. CASE Client /\ UNCHANGED <<streak, rested>>
      <3>1. UNCHANGED <<tasks, breaker, streak, rested>>
        BY <2>2, Zenon DEF Client, workerVars
      <3>2. QED
        BY <2>1, <3>1 DEF WatchInv, Watched, At
    <2>3. CASE UNCHANGED timedVars
      <3>1. UNCHANGED <<tasks, breaker, streak, rested>>
        BY <2>3, Zenon DEF timedVars, allVars, workerVars, watchVars
      <3>2. QED
        BY <2>1, <3>1 DEF WatchInv, Watched, At
    <2>4. QED
      BY <2>1, <2>2, <2>3, WatchedFails, WatchedStartsOver, WatchedGoesOn, WatchedTick, Zenon
         DEF TimedNext
  <1>3. WatchInv => BreakerHonoured
    <2>1. SUFFICES ASSUME WatchInv, NEW d \in Dispatcher, At(d, "ready"), streak[d] = Trip
                   PROVE  rested[d] = Cooldown
      BY Zenon DEF BreakerHonoured
    <2>2. /\ Cooldown \in Nat /\ rested[d] \in 0..Cooldown /\ breaker[d].open = 0
          /\ rested[d] + breaker[d].open >= Cooldown
      BY <2>1, WorkerAssumption DEF WatchInv, Watched
    <2>3. QED
      BY <2>2
  <1>4. QED
    BY <1>1, <1>2, <1>3, PTL DEF TimedSpec

-----------------------------------------------------------------------------
(* The Pub/Sub transport *)

\* A callback works on a stray or on the envelope of a claimed job.
CallbackOK(r) == callbacks[r].pc # "idle" => callbacks[r].message \in DOMAIN jobs \cup Stray

BusOK ==
  /\ callbacks = [r \in Receiver |-> callbacks[r]]
  /\ \A r \in Receiver : CallbackOK(r)
  /\ \A r \in Receiver : callbacks[r].pc = "processed" => callbacks[r].message \notin Stray
  /\ messages \cup deadLetters \subseteq DOMAIN jobs \cup Stray

\* A step that leaves the broker and its callbacks alone keeps them well formed.
LEMMA BusUntouched ==
  ASSUME RowsOK, BusOK, [Next]_vars, UNCHANGED brokerVars
  PROVE  BusOK'
  BY JobsStay DEF BusOK, CallbackOK, brokerVars

\* A step that moves one callback and publishes at most a claimed job keeps the
\* broker and its callbacks well formed.
LEMMA BusMoved ==
  ASSUME RowsOK, BusOK, [Next]_vars, NEW r \in Receiver, NEW c,
         callbacks' = [callbacks EXCEPT ![r] = c],
         c.pc # "idle" => c.message \in DOMAIN jobs \cup Stray,
         c.pc = "processed" => c.message \notin Stray,
         messages' \subseteq messages, UNCHANGED deadLetters
  PROVE  BusOK'
  <1>1. DOMAIN jobs \subseteq DOMAIN jobs'
    BY JobsStay
  <1>2. /\ callbacks' = [x \in Receiver |-> callbacks'[x]]
        /\ callbacks'[r] = c
        /\ \A x \in Receiver : x # r => callbacks'[x] = callbacks[x]
    BY DEF BusOK
  <1>3. QED
    BY <1>1, <1>2 DEF BusOK, CallbackOK

\* Tick with a Publisher takes steps of the store or none.
LEMMA PublishMaps ==
  ASSUME RowsOK, TasksOK, BusOK, NEW d \in Dispatcher,
         Publishing(d) \/ PublishError(d) \/ DispatchedError(d)
  PROVE  [Next]_vars /\ TasksOK' /\ BusOK'
  <1>0. /\ TaskOK(d) /\ tasks = [x \in Dispatcher |-> tasks[x]]
        /\ \A x \in Dispatcher : TaskOK(x)
    BY DEF TasksOK
  <1>1. At(d, "claimed") \/ At(d, "published")
    BY DEF Publishing, Publish, MarkDispatched, PublishError, DispatchedError
  <1>2. tasks[d].job \in DOMAIN jobs /\ jobs[tasks[d].job].event \in Event
    BY <1>0, <1>1, JobRow DEF TaskOK, At, Busy
  <1>3. [Next]_vars
    BY <1>2, CallsAreSteps, TransactionsAreSteps
       DEF Publishing, Publish, MarkDispatched, PublishError, DispatchedError
  <1>4. DOMAIN jobs \subseteq DOMAIN jobs'
    BY <1>3, JobsStay
  <1>5. \/ Goto(d, Idle)
        \/ \E pc \in Busy : Goto(d, [pc |-> pc, job |-> tasks[d].job])
    BY DEF Publishing, Publish, MarkDispatched, PublishError, DispatchedError, Working, Busy
  <1>6. TasksOK'
    <2>1. /\ tasks' = [x \in Dispatcher |-> tasks'[x]]
          /\ \A x \in Dispatcher : x # d => tasks'[x] = tasks[x]
          /\ \/ tasks'[d] = Idle
             \/ \E pc \in Busy : tasks'[d] = [pc |-> pc, job |-> tasks[d].job]
      BY <1>0, <1>5 DEF Goto
    <2>2. \A x \in Dispatcher : TaskOK(x)'
      BY <1>0, <1>2, <1>4, <2>1 DEF TaskOK, Idle, Busy
    <2>3. QED
      BY <2>1, <2>2 DEF TasksOK
  <1>7. BusOK'
    <2>1. messages' \subseteq messages \cup {tasks[d].job} /\ UNCHANGED <<deadLetters, callbacks>>
      BY DEF Publishing, Publish, MarkDispatched, PublishError, DispatchedError, brokerVars
    <2>2. QED
      BY <1>2, <1>4, <2>1 DEF BusOK, CallbackOK
  <1>8. QED
    BY <1>3, <1>6, <1>7

\* A callback takes steps of the store or none, and leaves the processes alone.
LEMMA ReceiveMaps ==
  ASSUME RowsOK, TasksOK, BusOK, NEW r \in Receiver,
         Deliver(r) \/ Receive(r) \/ ReceiveFault(r)
  PROVE  [Next]_vars /\ TasksOK' /\ BusOK'
  <1> DEFINE m == callbacks[r].message
  <1>0. UNCHANGED tasks
    BY DEF Deliver, Receive, ReceiveFault, RetainStray, NackInjected, ReceiveProcess,
           NackLostAck, ReceiveComplete, Ack, RetainError, NackProcess, NackComplete,
           workerVars
  <1>1. /\ AtCallback(r, "received") /\ ~IsStray(r) => m \in DOMAIN jobs
        /\ AtCallback(r, "processed") => m \in DOMAIN jobs
        /\ callbacks[r].pc # "idle" => m \in DOMAIN jobs \cup Stray
    BY DEF BusOK, CallbackOK, AtCallback, IsStray
  <1>2. m \in DOMAIN jobs => Delivered(r) \in Event
    BY JobRow DEF Delivered
  <1>3. [Next]_vars
    <2>1. CASE Deliver(r) \/ RetainStray(r) \/ RetainError(r) \/ NackInjected(r)
               \/ NackLostAck(r) \/ Ack(r)
      BY <2>1 DEF Deliver, RetainStray, RetainError, NackInjected, NackLostAck, Ack
    <2>2. CASE ReceiveProcess(r) \/ NackProcess(r)
      BY <1>1, <1>2, <2>2, CallsAreSteps, TransactionsAreSteps DEF ReceiveProcess, NackProcess
    <2>3. CASE ReceiveComplete(r) \/ NackComplete(r)
      BY <1>1, <1>2, <2>3, CallsAreSteps, TransactionsAreSteps DEF ReceiveComplete, NackComplete
    <2>4. QED
      BY <2>1, <2>2, <2>3 DEF Receive, ReceiveFault
  <1>4. TasksOK'
    BY <1>0, <1>3, JobsStay DEF TasksOK, TaskOK
  <1>5. BusOK'
    <2>1. ASSUME Leave(r), messages' \subseteq messages, UNCHANGED deadLetters
          PROVE  BusOK'
      BY <1>3, <2>1, BusMoved, Zenon DEF Leave, Idle
    <2>2. ASSUME NEW pc \in {"processed", "acking"}, Step(r, pc),
                 callbacks[r].pc # "idle", pc = "processed" => ~IsStray(r),
                 UNCHANGED <<messages, deadLetters>>
          PROVE  BusOK'
      <3>1. callbacks' = [callbacks EXCEPT ![r] = [pc |-> pc, message |-> m]]
        BY <2>2 DEF Step
      <3>2. QED
        BY <1>1, <1>3, <2>2, <3>1, BusMoved, Zenon DEF IsStray
    <2>3. CASE Deliver(r)
      <3>1. PICK x \in messages :
              callbacks' = [callbacks EXCEPT ![r] = [pc |-> "received", message |-> x]]
        BY <2>3, Zenon DEF Deliver
      <3>2. x \in DOMAIN jobs \cup Stray
        BY DEF BusOK
      <3>3. UNCHANGED <<messages, deadLetters>>
        BY <2>3 DEF Deliver
      <3>4. QED
        BY <1>3, <3>1, <3>2, <3>3, BusMoved, Zenon
    <2>4. CASE RetainStray(r)
      BY <2>2, <2>4 DEF RetainStray, AtCallback
    <2>5. CASE ReceiveProcess(r)
      BY <2>2, <2>5 DEF ReceiveProcess, AtCallback
    <2>6. CASE ReceiveComplete(r)
      BY <2>2, <2>6 DEF ReceiveComplete, AtCallback
    <2>7. CASE NackInjected(r) \/ NackLostAck(r) \/ Ack(r) \/ ReceiveFault(r)
      BY <2>1, <2>7 DEF NackInjected, NackLostAck, Ack, ReceiveFault, RetainError,
                        NackProcess, NackComplete
    <2>8. QED
      BY <2>3, <2>4, <2>5, <2>6, <2>7 DEF Receive
  <1>6. QED
    BY <1>3, <1>4, <1>5

\* Every step of the brokered system is a step of the store or none.
LEMMA PubSubStepMaps ==
  ASSUME RowsOK, TasksOK, BusOK, [PubSubNext]_busVars
  PROVE  [Next]_vars /\ TasksOK' /\ BusOK'
  <1>1. ASSUME NEW d \in Dispatcher, SharedSteps(d) /\ UNCHANGED brokerVars
        PROVE  [Next]_vars /\ TasksOK' /\ BusOK'
    <2>1. ProcessStep(d)
      BY <1>1 DEF SharedSteps, ProcessStep, Dispatch, Disturb
    <2>2. QED
      BY <1>1, <2>1, ProcessStepMaps, TransactionsAreSteps, BusUntouched
  <1>2. ASSUME NEW d \in Dispatcher, CrashProcess(d)
        PROVE  [Next]_vars /\ TasksOK' /\ BusOK'
    <2>1. [Next]_vars /\ TasksOK' /\ UNCHANGED vars
      BY <1>2, ProcessStepMaps, TransactionsAreSteps, Zenon DEF CrashProcess, ProcessStep, Disturb, Crash
    <2>2. BusOK'
      BY <1>2, <2>1 DEF CrashProcess, BusOK, CallbackOK, Idle, vars
    <2>3. QED
      BY <2>1, <2>2
  <1>3. CASE DeadLetter \/ Republish
    <2>1. UNCHANGED <<vars, tasks, callbacks>>
      BY <1>3 DEF DeadLetter, Republish, workerVars
    <2>2. messages' \cup deadLetters' \subseteq messages \cup deadLetters
      BY <1>3 DEF DeadLetter, Republish
    <2>3. QED
      BY <2>1, <2>2 DEF vars, TasksOK, TaskOK, BusOK, CallbackOK
  <1>4. CASE (Client \/ PassTime) /\ UNCHANGED brokerVars
    BY <1>4, OutsideStepMaps, BusUntouched
  <1>5. CASE UNCHANGED busVars
    BY <1>5 DEF busVars, vars, workerVars, brokerVars, TasksOK, TaskOK, BusOK, CallbackOK
  <1>6. QED
    BY <1>1, <1>2, <1>3, <1>4, <1>5, PublishMaps, ReceiveMaps DEF PubSubNext

\* The processes with the Pub/Sub transport implement the store as well, under
\* at-least-once delivery to any number of concurrent callbacks.
THEOREM PubSubImplementsStore == PubSubSpec => Spec
  <1>1. PubSubInit => Init /\ RowsOK /\ Paired /\ TasksOK /\ BusOK
    BY InitialRows DEF PubSubInit, WorkerInit, TasksOK, TaskOK, BusOK, CallbackOK, Idle, Busy
  <1>2. RowsOK /\ TasksOK /\ BusOK /\ [PubSubNext]_busVars
          => [Next]_vars /\ TasksOK' /\ BusOK'
    BY PubSubStepMaps
  <1>3. RowsOK /\ Paired /\ [Next]_vars => RowsOK' /\ Paired'
    BY RowsStep, PairedStep
  <1>4. QED
    BY <1>1, <1>2, <1>3, PTL DEF PubSubSpec, Spec

-----------------------------------------------------------------------------
(* The shape of memory and broker *)

ControlsType == [paused : BOOLEAN, failNext : 0..Inject, dropAck : BOOLEAN]

MemoryOK ==
  /\ tasks \in [Dispatcher -> TaskType]
  /\ breaker \in [Dispatcher -> BreakerType]
  /\ controls \in [Dispatcher -> ControlsType]
  /\ faults \in 0..MaxFaults
  /\ callbacks \in [Receiver -> CallbackType]
  /\ retained \subseteq Stray

\* A step leaves a process idle, ready, at work on a job or sweeping keys.
LEMMA TasksTyped ==
  ASSUME RowsOK, TasksOK, MemoryOK, [PubSubNext]_busVars
  PROVE  tasks' \in [Dispatcher -> TaskType]
  <1>0. tasks \in [Dispatcher -> TaskType]
    BY DEF MemoryOK
  <1>1. ASSUME NEW d \in Dispatcher, NEW t \in TaskType, Goto(d, t)
        PROVE  tasks' \in [Dispatcher -> TaskType]
    BY <1>0, <1>1 DEF Goto
  <1>2. ASSUME NEW d \in Dispatcher, Goto(d, Idle) PROVE tasks' \in [Dispatcher -> TaskType]
    BY <1>1, <1>2, Zenon DEF TaskType
  <1>3. ASSUME NEW d \in Dispatcher, NEW pc \in Busy, tasks[d].pc \in Busy, Working(d, pc)
        PROVE  tasks' \in [Dispatcher -> TaskType]
    <2>1. tasks[d].job \in Nat \ {0}
      BY <1>3 DEF TasksOK, TaskOK, RowsOK
    <2>2. [pc |-> pc, job |-> tasks[d].job] \in TaskType
      BY <1>3, <2>1 DEF TaskType, Busy
    <2>3. QED
      BY <1>1, <1>3, <2>2 DEF Working
  <1>4. ASSUME NEW d \in Dispatcher, NEW ids \in SUBSET Key,
               Goto(d, IF ids = {} THEN Idle ELSE [pc |-> "sweeping", ids |-> ids])
        PROVE  tasks' \in [Dispatcher -> TaskType]
    <2>1. [pc |-> "sweeping", ids |-> ids] \in TaskType /\ Idle \in TaskType
      BY DEF TaskType
    <2>2. QED
      BY <1>1, <1>4, <2>1
  <1>5. ASSUME NEW d \in Dispatcher, SharedSteps(d)
        PROVE  tasks' \in [Dispatcher -> TaskType]
    <2>1. CASE Begin(d)
      <3>1. [pc |-> "ready"] \in TaskType
        BY DEF TaskType
      <3>2. QED
        BY <1>1, <2>1, <3>1 DEF Begin
    <2>2. CASE ClaimJob(d)
      <3>1. Len(jobs) + 1 \in Nat \ {0}
        BY DEF RowsOK
      <3>2. [pc |-> "claimed", job |-> Len(jobs) + 1] \in TaskType
        BY <3>1 DEF TaskType
      <3>3. Goto(d, Idle) \/ Goto(d, [pc |-> "claimed", job |-> Len(jobs) + 1])
        BY <2>2 DEF ClaimJob
      <3>4. QED
        BY <1>1, <1>2, <3>2, <3>3
    <2>3. CASE ClaimError(d) \/ FailTick(d) \/ FailJobError(d) \/ SweepError(d)
      BY <1>2, <2>3 DEF ClaimError, FailTick, FailJobError, SweepError
    <2>4. CASE StartSweep(d)
      <3>1. PICK ids \in SUBSET Expired :
              Goto(d, IF ids = {} THEN Idle ELSE [pc |-> "sweeping", ids |-> ids])
        BY <2>4 DEF StartSweep
      <3>2. ids \in SUBSET Key
        BY DEF Expired
      <3>3. QED
        BY <1>4, <3>1, <3>2
    <2>5. CASE SweepOne(d)
      <3>1. PICK k \in tasks[d].ids :
              LET rest == tasks[d].ids \ {k}
              IN  Goto(d, IF rest = {} THEN Idle ELSE [pc |-> "sweeping", ids |-> rest])
        BY <2>5, Zenon DEF SweepOne
      <3>2. tasks[d].ids \ {k} \in SUBSET Key
        BY <2>5 DEF SweepOne, At, TasksOK, TaskOK
      <3>3. QED
        BY <1>4, <3>1, <3>2
    <2>6. CASE SetPaused(d) \/ ArmFault(d)
      BY <1>0, <2>6 DEF SetPaused, ArmFault
    <2>7. QED
      BY <1>5, <2>1, <2>2, <2>3, <2>4, <2>5, <2>6 DEF SharedSteps
  <1>6. ASSUME NEW d \in Dispatcher,
               Publishing(d) \/ PublishError(d) \/ DispatchedError(d) \/ CrashProcess(d)
        PROVE  tasks' \in [Dispatcher -> TaskType]
    <2>1. CASE Publish(d) \/ PublishError(d) \/ DispatchedError(d)
      BY <1>3, <2>1 DEF Publish, PublishError, DispatchedError, At, Busy
    <2>2. CASE MarkDispatched(d) \/ CrashProcess(d)
      BY <1>2, <2>2, Zenon DEF MarkDispatched, CrashProcess, Crash, Goto
    <2>3. QED
      BY <1>6, <2>1, <2>2 DEF Publishing
  <1>7. ASSUME NEW r \in Receiver, Deliver(r) \/ Receive(r) \/ ReceiveFault(r)
        PROVE  tasks' = tasks
    BY <1>7 DEF Deliver, Receive, ReceiveFault, RetainStray, NackInjected, ReceiveProcess,
                NackLostAck, ReceiveComplete, Ack, RetainError, NackProcess, NackComplete,
                workerVars
  <1>8. ASSUME DeadLetter \/ Republish \/ Client \/ PassTime \/ UNCHANGED busVars
        PROVE  tasks' = tasks
    BY <1>8 DEF DeadLetter, Republish, Client, PassTime, busVars, workerVars
  <1>9. QED
    BY <1>0, <1>5, <1>6, <1>7, <1>8 DEF PubSubNext

\* A breaker never counts past Trip nor stays open longer than Cooldown.
LEMMA BreakerTyped ==
  ASSUME MemoryOK, [PubSubNext]_busVars
  PROVE  breaker' \in [Dispatcher -> BreakerType]
  <1>0. /\ breaker \in [Dispatcher -> BreakerType]
        /\ Trip \in Nat \ {0} /\ Cooldown \in Nat
    BY WorkerAssumption DEF MemoryOK
  <1>1. ASSUME NEW d \in Dispatcher, NEW b \in BreakerType,
               breaker' = [breaker EXCEPT ![d] = b]
        PROVE  breaker' \in [Dispatcher -> BreakerType]
    BY <1>0, <1>1
  <1>2. ASSUME NEW d \in Dispatcher, breaker' = [breaker EXCEPT ![d] = Closed]
        PROVE  breaker' \in [Dispatcher -> BreakerType]
    <2>1. Closed \in BreakerType
      BY <1>0 DEF Closed, BreakerType
    <2>2. QED
      BY <1>1, <1>2, <2>1, Zenon
  <1>3. ASSUME NEW d \in Dispatcher, MarkFailure(d)
        PROVE  breaker' \in [Dispatcher -> BreakerType]
    <2> DEFINE n == IF breaker[d].failures < Trip THEN breaker[d].failures + 1 ELSE Trip
               o == IF n = Trip THEN Cooldown ELSE breaker[d].open
    <2>1. breaker[d] \in BreakerType
      BY <1>0
    <2>2. breaker[d].failures \in 0..Trip /\ breaker[d].open \in 0..Cooldown
      BY <2>1 DEF BreakerType
    <2>3. n \in 0..Trip /\ o \in 0..Cooldown
      BY <1>0, <2>2
    <2>4. breaker' = [breaker EXCEPT ![d] = [failures |-> n, open |-> o]]
      BY <1>0, <1>3 DEF MarkFailure
    <2> HIDE DEF n, o
    <2>5. [failures |-> n, open |-> o] \in BreakerType
      BY <2>3 DEF BreakerType
    <2>6. QED
      BY <1>1, <2>4, <2>5, Zenon
  <1>4. CASE PassTime
    <2>1. \A d \in Dispatcher : [breaker[d] EXCEPT !.open = Earlier(@)] \in BreakerType
      <3>1. SUFFICES ASSUME NEW d \in Dispatcher
                     PROVE  [breaker[d] EXCEPT !.open = Earlier(@)] \in BreakerType
        OBVIOUS
      <3>2. breaker[d] \in BreakerType
        BY <1>0
      <3>3. Earlier(breaker[d].open) \in 0..Cooldown
        BY <1>0, <3>2 DEF BreakerType, Earlier
      <3>4. QED
        BY <3>2, <3>3 DEF BreakerType
    <2>2. QED
      BY <1>4, <2>1 DEF PassTime
  <1>5. ASSUME NEW d \in Dispatcher, SharedSteps(d)
        PROVE  MarkFailure(d) \/ breaker' = breaker
    BY <1>5 DEF SharedSteps, Begin, ClaimJob, ClaimError, FailTick, FailJobError,
                StartSweep, SweepOne, SweepError, SetPaused, ArmFault
  <1>6. ASSUME NEW d \in Dispatcher,
               Publishing(d) \/ PublishError(d) \/ DispatchedError(d) \/ CrashProcess(d)
        PROVE  breaker' = breaker \/ breaker' = [breaker EXCEPT ![d] = Closed]
    BY <1>6 DEF Publishing, Publish, MarkDispatched, PublishError, DispatchedError,
                CrashProcess, Crash
  <1>7. ASSUME NEW r \in Receiver, Deliver(r) \/ Receive(r) \/ ReceiveFault(r)
        PROVE  breaker' = breaker
    BY <1>7 DEF Deliver, Receive, ReceiveFault, RetainStray, NackInjected, ReceiveProcess,
                NackLostAck, ReceiveComplete, Ack, RetainError, NackProcess, NackComplete,
                workerVars
  <1>8. ASSUME DeadLetter \/ Republish \/ Client \/ UNCHANGED busVars
        PROVE  breaker' = breaker
    BY <1>8 DEF DeadLetter, Republish, Client, busVars, workerVars
  <1>9. QED
    BY <1>0, <1>2, <1>3, <1>4, <1>5, <1>6, <1>7, <1>8 DEF PubSubNext

\* The faults armed in a process never run below zero.
LEMMA ControlsTyped ==
  ASSUME MemoryOK, [PubSubNext]_busVars
  PROVE  controls' \in [Dispatcher -> ControlsType]
  <1>0. /\ controls \in [Dispatcher -> ControlsType]
        /\ Inject \in Nat
        /\ \A r \in Receiver : Home[r] \in Dispatcher
    BY WorkerAssumption, PubSubAssumption DEF MemoryOK
  <1>1. ASSUME NEW d \in Dispatcher, NEW c \in ControlsType,
               controls' = [controls EXCEPT ![d] = c]
        PROVE  controls' \in [Dispatcher -> ControlsType]
    BY <1>0, <1>1
  <1>2. ASSUME NEW d \in Dispatcher, NEW b \in BOOLEAN
        PROVE  /\ [controls[d] EXCEPT !.paused = b] \in ControlsType
               /\ [controls[d] EXCEPT !.dropAck = b] \in ControlsType
    BY <1>0, Zenon DEF ControlsType
  <1>3. ASSUME NEW d \in Dispatcher, NEW n \in 0..Inject
        PROVE  [controls[d] EXCEPT !.failNext = n] \in ControlsType
    BY <1>0, Zenon DEF ControlsType
  <1>4. ASSUME NEW d \in Dispatcher, controls[d].failNext > 0
        PROVE  controls[d].failNext - 1 \in 0..Inject
    <2>1. controls[d].failNext \in 0..Inject
      BY <1>0 DEF ControlsType
    <2>2. QED
      BY <1>0, <1>4, <2>1
  <1>5. NoFaults \in ControlsType
    <2>1. 0 \in 0..Inject
      BY <1>0
    <2>2. QED
      BY <2>1 DEF NoFaults, ControlsType
  <1>6. ASSUME NEW d \in Dispatcher, SharedSteps(d)
        PROVE  controls' \in [Dispatcher -> ControlsType]
    <2>1. CASE SetPaused(d)
      <3>1. PICK b \in BOOLEAN : controls' = [controls EXCEPT ![d].paused = b]
        BY <2>1, Zenon DEF SetPaused
      <3>2. controls' = [controls EXCEPT ![d] = [controls[d] EXCEPT !.paused = b]]
        BY <1>0, <3>1
      <3>3. QED
        BY <1>1, <1>2, <3>2, Zenon
    <2>2. CASE ArmFault(d)
      <3>1. CASE controls' = [controls EXCEPT ![d].dropAck = TRUE]
        <4>1. controls' = [controls EXCEPT ![d] = [controls[d] EXCEPT !.dropAck = TRUE]]
          BY <1>0, <3>1
        <4>2. QED
          BY <1>1, <1>2, <4>1, Zenon
      <3>2. CASE controls' = [controls EXCEPT ![d].failNext = Inject]
        <4>1. controls' = [controls EXCEPT ![d] = [controls[d] EXCEPT !.failNext = Inject]]
          BY <1>0, <3>2
        <4>2. Inject \in 0..Inject
          BY <1>0
        <4>3. QED
          BY <1>1, <1>3, <4>1, <4>2, Zenon
      <3>3. QED
        BY <2>2, <3>1, <3>2 DEF ArmFault
    <2>3. QED
      BY <1>0, <1>6, <2>1, <2>2, Zenon DEF SharedSteps, Begin, ClaimJob, ClaimError, FailTick,
         FailJobError, StartSweep, SweepOne, SweepError
  <1>7. ASSUME NEW d \in Dispatcher,
               Publishing(d) \/ PublishError(d) \/ DispatchedError(d) \/ CrashProcess(d)
        PROVE  controls' = controls \/ controls' = [controls EXCEPT ![d] = NoFaults]
    BY <1>7, Zenon DEF Publishing, Publish, MarkDispatched, PublishError, DispatchedError,
                CrashProcess, Crash
  <1>8. ASSUME NEW r \in Receiver, Deliver(r) \/ Receive(r) \/ ReceiveFault(r)
        PROVE  controls' \in [Dispatcher -> ControlsType]
    <2> DEFINE d == Home[r]
    <2>0. d \in Dispatcher
      BY <1>0
    <2>1. CASE NackInjected(r)
      <3>1. controls' = [controls EXCEPT ![d] =
                           [controls[d] EXCEPT !.failNext = controls[d].failNext - 1]]
        BY <1>0, <2>0, <2>1 DEF NackInjected
      <3>2. controls[d].failNext > 0
        BY <2>1 DEF NackInjected, ControlsOf
      <3>3. QED
        BY <1>1, <1>3, <1>4, <2>0, <3>1, <3>2, Zenon
    <2>2. CASE NackLostAck(r)
      <3>1. controls' = [controls EXCEPT ![d] = [controls[d] EXCEPT !.dropAck = FALSE]]
        BY <1>0, <2>0, <2>2 DEF NackLostAck
      <3>2. QED
        BY <1>1, <1>2, <2>0, <3>1, Zenon
    <2>3. QED
      BY <1>0, <1>8, <2>1, <2>2 DEF Deliver, Receive, ReceiveFault, RetainStray,
         ReceiveProcess, ReceiveComplete, Ack, RetainError, NackProcess, NackComplete,
         workerVars
  <1>9. ASSUME DeadLetter \/ Republish \/ Client \/ PassTime \/ UNCHANGED busVars
        PROVE  controls' = controls
    BY <1>9 DEF DeadLetter, Republish, Client, PassTime, busVars, workerVars
  <1>10. QED
    BY <1>0, <1>1, <1>5, <1>6, <1>7, <1>8, <1>9 DEF PubSubNext

\* The fault bound is respected, and callbacks and retained rows keep their shape.
LEMMA BrokerTyped ==
  ASSUME RowsOK, BusOK, MemoryOK, [PubSubNext]_busVars
  PROVE  /\ faults' \in 0..MaxFaults
         /\ callbacks' \in [Receiver -> CallbackType]
         /\ retained' \subseteq Stray
  <1>0. /\ faults \in 0..MaxFaults /\ MaxFaults \in Nat
        /\ callbacks \in [Receiver -> CallbackType]
        /\ retained \subseteq Stray
    BY WorkerAssumption DEF MemoryOK
  <1>1. DOMAIN jobs \subseteq Nat \ {0}
    BY DEF RowsOK
  <1>2. Fault => faults' \in 0..MaxFaults
    BY <1>0 DEF Fault
  <1>3. ASSUME NEW r \in Receiver, Deliver(r) \/ Receive(r) \/ ReceiveFault(r)
        PROVE  /\ faults' = faults \/ Fault
               /\ callbacks' \in [Receiver -> CallbackType]
               /\ retained' \subseteq Stray
    <2> DEFINE m == callbacks[r].message
    <2>1. /\ callbacks[r].pc # "idle" => m \in DOMAIN jobs \cup Stray
          /\ messages \subseteq DOMAIN jobs \cup Stray
      BY DEF BusOK, CallbackOK
    <2>2. ASSUME NEW pc \in {"received", "processed", "acking"},
                 NEW x \in DOMAIN jobs \cup Stray,
                 callbacks' = [callbacks EXCEPT ![r] = [pc |-> pc, message |-> x]]
          PROVE  callbacks' \in [Receiver -> CallbackType]
      <3>1. [pc |-> pc, message |-> x] \in CallbackType
        BY <1>1 DEF CallbackType
      <3>2. QED
        BY <1>0, <2>2, <3>1
    <2>3. Leave(r) => callbacks' \in [Receiver -> CallbackType]
      BY <1>0 DEF Leave, CallbackType
    <2>4. CASE Deliver(r)
      <3>1. PICK x \in messages :
              callbacks' = [callbacks EXCEPT ![r] = [pc |-> "received", message |-> x]]
        BY <2>4, Zenon DEF Deliver
      <3>2. callbacks' \in [Receiver -> CallbackType]
        BY <2>1, <2>2, <3>1, Zenon
      <3>3. QED
        BY <1>0, <2>4, <3>2 DEF Deliver, workerVars
    <2>5. CASE RetainStray(r)
      <3>1. m \in Stray /\ callbacks' = [callbacks EXCEPT ![r] = [pc |-> "acking", message |-> m]]
        BY <2>5 DEF RetainStray, IsStray, Step
      <3>2. callbacks' \in [Receiver -> CallbackType]
        BY <2>2, <3>1, Zenon
      <3>3. QED
        BY <1>0, <2>5, <3>1, <3>2 DEF RetainStray, workerVars
    <2>6. CASE RetainError(r)
      BY <1>0, <2>3, <2>6 DEF RetainError, IsStray
    <2>7. CASE ReceiveProcess(r) \/ ReceiveComplete(r)
      <3>1. callbacks[r].pc # "idle"
        BY <2>7, Zenon DEF ReceiveProcess, ReceiveComplete, AtCallback
      <3>2. \E pc \in {"processed", "acking"} :
              callbacks' = [callbacks EXCEPT ![r] = [pc |-> pc, message |-> m]]
        BY <2>7 DEF ReceiveProcess, ReceiveComplete, Step
      <3>3. callbacks' \in [Receiver -> CallbackType]
        BY <2>1, <2>2, <3>1, <3>2, Zenon
      <3>4. QED
        BY <1>0, <2>7, <3>3 DEF ReceiveProcess, ReceiveComplete, workerVars
    <2>8. CASE NackInjected(r) \/ NackLostAck(r) \/ Ack(r) \/ NackProcess(r) \/ NackComplete(r)
      <3>1. Leave(r) /\ retained' = retained /\ (faults' = faults \/ Fault)
        BY <2>8 DEF NackInjected, NackLostAck, Ack, NackProcess, NackComplete, workerVars
      <3>2. QED
        BY <1>0, <2>3, <3>1
    <2>9. QED
      BY <1>3, <2>4, <2>5, <2>6, <2>7, <2>8 DEF Receive, ReceiveFault
  <1>4. ASSUME NEW d \in Dispatcher, SharedSteps(d) /\ UNCHANGED brokerVars
        PROVE  (faults' = faults \/ Fault) /\ UNCHANGED <<callbacks, retained>>
    BY <1>4 DEF SharedSteps, Begin, ClaimJob, ClaimError, FailTick, FailJobError,
                StartSweep, SweepOne, SweepError, SetPaused, ArmFault, brokerVars
  <1>5. ASSUME NEW d \in Dispatcher, Publishing(d) \/ PublishError(d) \/ DispatchedError(d)
        PROVE  (faults' = faults \/ Fault) /\ UNCHANGED <<callbacks, retained>>
    BY <1>5 DEF Publishing, Publish, MarkDispatched, PublishError, DispatchedError, brokerVars
  <1>6. ASSUME NEW d \in Dispatcher, CrashProcess(d)
        PROVE  Fault /\ callbacks' \in [Receiver -> CallbackType] /\ retained' = retained
    BY <1>0, <1>6 DEF CrashProcess, Crash, CallbackType
  <1>7. ASSUME \/ DeadLetter \/ Republish \/ UNCHANGED busVars
               \/ (Client \/ PassTime) /\ UNCHANGED brokerVars
        PROVE  (faults' = faults \/ Fault) /\ UNCHANGED <<callbacks, retained>>
    BY <1>7 DEF DeadLetter, Republish, Client, PassTime, busVars, workerVars, brokerVars
  <1>8. QED
    BY <1>0, <1>2, <1>3, <1>4, <1>5, <1>6, <1>7 DEF PubSubNext

\* The memory of the processes and the broker keeps its shape.
LEMMA MemoryStep ==
  ASSUME RowsOK, TasksOK, BusOK, MemoryOK, [PubSubNext]_busVars
  PROVE  MemoryOK'
  BY TasksTyped, BreakerTyped, ControlsTyped, BrokerTyped DEF MemoryOK

\* Together with the rows these shapes are the type invariant.
LEMMA ShapesTyped ==
  ASSUME TypeOK, RowsOK, TasksOK, BusOK, MemoryOK
  PROVE  PubSubTypeOK
  <1>1. \A d \in Dispatcher : "job" \in DOMAIN tasks[d] => tasks[d].job \in DOMAIN jobs
    <2> SUFFICES ASSUME NEW d \in Dispatcher, "job" \in DOMAIN tasks[d]
                 PROVE  tasks[d].job \in DOMAIN jobs
      OBVIOUS
    <2>1. tasks[d] \in TaskType
      BY DEF MemoryOK
    <2>2. tasks[d].pc \in Busy
      BY <2>1 DEF TaskType, Idle, Busy
    <2>3. QED
      BY <2>2 DEF TasksOK, TaskOK
  <1>2. WorkerTypeOK
    BY <1>1 DEF WorkerTypeOK, MemoryOK, BreakerType, ControlsType
  <1>3. \A r \in Receiver :
          callbacks[r] # Idle => callbacks[r].message \in DOMAIN jobs \cup Stray
    BY DEF MemoryOK, BusOK, CallbackOK, CallbackType
  <1>4. QED
    BY <1>2, <1>3, Zenon DEF PubSubTypeOK, MemoryOK, BusOK

=============================================================================
