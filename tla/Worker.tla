------------------------------- MODULE Worker -------------------------------
(***************************************************************************)
(* The worker processes of Afterglow (internal/pipeline/worker.go) on top  *)
(* of Store: each one loops over Tick, which claims a due outbox row and   *)
(* reconciles its delivery, and over the sweep that releases expired       *)
(* holds.  WorkerSpec has the local transport, where Consume runs inside   *)
(* Tick; module PubSub replaces that part by a broker.                     *)
(*                                                                         *)
(* A step is one transaction of the store or one change of the process's   *)
(* own memory; between two steps any other process, client or operator may *)
(* act, time may pass and the process may crash.  A database call may also *)
(* fail, with its transaction rolled back or, when only the answer to      *)
(* COMMIT is lost, with it applied.                                        *)
(***************************************************************************)
EXTENDS Store

CONSTANTS
  Dispatcher,   \* the worker processes
  Cooldown,     \* how long an open breaker blocks Tick (2 seconds)
  Trip,         \* consecutive failures that open it (3)
  Inject,       \* failures the retry scenario arms (5)
  SweepLimit,   \* rows one sweep selects (100)
  MaxFaults     \* bound of the model: crashes, failed calls, armed faults

ASSUME WorkerAssumption ==
  /\ Cooldown \in Nat /\ Trip \in Nat \ {0} /\ Inject \in Nat
  /\ SweepLimit \in Nat \ {0} /\ MaxFaults \in Nat

VARIABLES
  tasks,     \* where each process is in Tick or in its sweep
  breaker,   \* failures and the rest of openUntil, per process
  controls,  \* Paused, FailNext and DropAck, per process
  faults     \* how many faults have happened

workerVars == <<tasks, breaker, controls, faults>>
allVars == <<vars, workerVars>>

Idle == [pc |-> "idle"]
Closed == [failures |-> 0, open |-> 0]
NoFaults == [paused |-> FALSE, failNext |-> 0, dropAck |-> FALSE]

\* A process is idle, has passed Tick's checks, works on a job, or releases the
\* rows its sweep selected.
TaskType ==
  {Idle, [pc |-> "ready"]}
    \cup [pc : {"claimed", "published", "processed", "failing"}, job : Nat \ {0}]
    \cup [pc : {"sweeping"}, ids : SUBSET Key]

\* Every process is at one of the points of its loop, and works on a job that
\* Claim really returned.
WorkerTypeOK ==
  /\ TypeOK
  /\ tasks \in [Dispatcher -> TaskType]
  /\ \A d \in Dispatcher : "job" \in DOMAIN tasks[d] => tasks[d].job \in DOMAIN jobs
  /\ breaker \in [Dispatcher -> [failures : 0..Trip, open : 0..Cooldown]]
  /\ controls \in [Dispatcher -> [paused : BOOLEAN, failNext : 0..Inject, dropAck : BOOLEAN]]
  /\ faults \in 0..MaxFaults

WorkerInit ==
  /\ Init
  /\ tasks = [d \in Dispatcher |-> Idle]
  /\ breaker = [d \in Dispatcher |-> Closed]
  /\ controls = [d \in Dispatcher |-> NoFaults]
  /\ faults = 0

Goto(d, task) == tasks' = [tasks EXCEPT ![d] = task]
Working(d, pc) == Goto(d, [pc |-> pc, job |-> tasks[d].job])
At(d, pc) == tasks[d].pc = pc
EventOf(d) == jobs[tasks[d].job].event
Fault == faults < MaxFaults /\ faults' = faults + 1

-----------------------------------------------------------------------------
(* The store's calls, with the answers that change nothing *)

\* Process on a delivery decided before only counts the attempt.
CallProcess(e) ==
  Process(e) \/ (deliveries[e].status \in Decided /\ UNCHANGED vars)

\* Complete on a delivery reopened meanwhile leaves its intent alone.
CallComplete(e) ==
  Complete(e) \/ (deliveries[e].status = "accepted" /\ UNCHANGED vars)

\* FailJob by a process that lost the row does nothing.
CallFailJob(j) ==
  (\E delay \in Delays : FailJob(j, delay)) \/ (~Owns(j) /\ UNCHANGED vars)

-----------------------------------------------------------------------------
(* Tick *)

\* Tick's checks of Paused and BreakerOpen, before it claims.
Begin(d) ==
  /\ At(d, "idle")
  /\ ~controls[d].paused /\ breaker[d].open = 0
  /\ Goto(d, [pc |-> "ready"])
  /\ UNCHANGED <<vars, breaker, controls, faults>>

Due(e) == /\ outbox[e].state \in {"pending", "leased"}
          /\ outbox[e].wait = 0 /\ outbox[e].lease = 0

\* Claim returns a job, or nil when no row is due.
ClaimJob(d) ==
  /\ At(d, "ready")
  /\ \/ /\ \E e \in Event : Claim(e)
        /\ Goto(d, [pc |-> "claimed", job |-> Len(jobs) + 1])
     \/ /\ \A e \in Event : ~Due(e)
        /\ Goto(d, Idle) /\ UNCHANGED vars
  /\ UNCHANGED <<breaker, controls, faults>>

\* Claim fails; if it commits and its answer is lost, nobody works on the row
\* until its lease has run out.
ClaimError(d) ==
  /\ At(d, "ready")
  /\ Fault
  /\ (\E e \in Event : Claim(e)) \/ UNCHANGED vars
  /\ Goto(d, Idle)
  /\ UNCHANGED <<breaker, controls>>

\* Consume up to its call of Process: an armed fault fails it first.
InjectedFailure(d) ==
  /\ At(d, "claimed")
  /\ controls[d].failNext > 0
  /\ controls' = [controls EXCEPT ![d].failNext = @ - 1]
  /\ Working(d, "failing")
  /\ UNCHANGED <<vars, breaker, faults>>

ConsumeProcess(d) ==
  /\ At(d, "claimed")
  /\ controls[d].failNext = 0
  /\ CallProcess(EventOf(d))
  /\ Working(d, "processed")
  /\ UNCHANGED <<breaker, controls, faults>>

ProcessError(d) ==
  /\ At(d, "claimed")
  /\ controls[d].failNext = 0
  /\ Fault
  /\ CallProcess(EventOf(d)) \/ UNCHANGED vars
  /\ Working(d, "failing")
  /\ UNCHANGED <<breaker, controls>>

\* Consume after Process: DropAck loses the acknowledgement of a committed
\* decision, else Complete closes the intent and Tick calls markSuccess.
LoseAck(d) ==
  /\ At(d, "processed")
  /\ controls[d].dropAck
  /\ controls' = [controls EXCEPT ![d].dropAck = FALSE]
  /\ Working(d, "failing")
  /\ UNCHANGED <<vars, breaker, faults>>

ConsumeComplete(d) ==
  /\ At(d, "processed")
  /\ ~controls[d].dropAck
  /\ CallComplete(EventOf(d))
  /\ breaker' = [breaker EXCEPT ![d] = Closed]
  /\ Goto(d, Idle)
  /\ UNCHANGED <<controls, faults>>

CompleteError(d) ==
  /\ At(d, "processed")
  /\ ~controls[d].dropAck
  /\ Fault
  /\ CallComplete(EventOf(d)) \/ UNCHANGED vars
  /\ Working(d, "failing")
  /\ UNCHANGED <<breaker, controls>>

\* Mutant: the failure that should open the breaker only makes it ready to.
MarkFailureLate(d) ==
  LET n == IF breaker[d].failures < Trip THEN breaker[d].failures + 1 ELSE Trip
  IN  breaker' = [breaker EXCEPT ![d] =
                    [failures |-> n,
                     open |-> IF @.failures = Trip THEN Cooldown ELSE @.open]]

\* markFailure: failures counts on while the breaker only asks for Trip of
\* them, so it stops at Trip here.
MarkFailure(d) ==
  LET n == IF breaker[d].failures < Trip THEN breaker[d].failures + 1 ELSE Trip
  IN  breaker' = [breaker EXCEPT ![d] =
                    [failures |-> n, open |-> IF n = Trip THEN Cooldown ELSE @.open]]

\* The end of a Tick that failed: markFailure, then FailJob.
FailTick(d) ==
  /\ At(d, "failing")
  /\ MarkFailure(d)
  /\ CallFailJob(tasks[d].job)
  /\ Goto(d, Idle)
  /\ UNCHANGED <<controls, faults>>

FailJobError(d) ==
  /\ At(d, "failing")
  /\ Fault
  /\ MarkFailure(d)
  /\ CallFailJob(tasks[d].job) \/ UNCHANGED vars
  /\ Goto(d, Idle)
  /\ UNCHANGED controls

-----------------------------------------------------------------------------
(* The sweep *)

Expired == {k \in Key : /\ reservations[k].state = "held"
                        /\ reservations[k].age > Window + Grace}

\* Mutant: the sweep stands behind Tick's checks.
StartSweepUnlessPaused(d) ==
  /\ At(d, "idle")
  /\ ~controls[d].paused
  /\ \E ids \in SUBSET Expired :
       /\ IF Cardinality(Expired) <= SweepLimit THEN ids = Expired
                                                ELSE Cardinality(ids) = SweepLimit
       /\ Goto(d, IF ids = {} THEN Idle ELSE [pc |-> "sweeping", ids |-> ids])
  /\ UNCHANGED <<vars, breaker, controls, faults>>

\* ReleaseExpired's SELECT: at most SweepLimit rows, and all when they fit.
StartSweep(d) ==
  /\ At(d, "idle")
  /\ \E ids \in SUBSET Expired :
       /\ IF Cardinality(Expired) <= SweepLimit THEN ids = Expired
                                                ELSE Cardinality(ids) = SweepLimit
       /\ Goto(d, IF ids = {} THEN Idle ELSE [pc |-> "sweeping", ids |-> ids])
  /\ UNCHANGED <<vars, breaker, controls, faults>>

\* One release of the loop; a row settled or released meanwhile is skipped.
SweepOne(d) ==
  /\ At(d, "sweeping")
  /\ \E k \in tasks[d].ids :
       /\ Release(k) \/ (reservations[k].state # "held" /\ UNCHANGED vars)
       /\ LET rest == tasks[d].ids \ {k}
          IN  Goto(d, IF rest = {} THEN Idle ELSE [pc |-> "sweeping", ids |-> rest])
  /\ UNCHANGED <<breaker, controls, faults>>

\* A failed release ends the loop; the rows left wait for the next sweep.
SweepError(d) ==
  /\ At(d, "sweeping")
  /\ Fault
  /\ (\E k \in tasks[d].ids : Release(k)) \/ UNCHANGED vars
  /\ Goto(d, Idle)
  /\ UNCHANGED <<breaker, controls>>

-----------------------------------------------------------------------------
(* Crashes, demo controls, clients and time *)

\* A process dies and is restarted: its memory is lost, its leases stay.
Crash(d) ==
  /\ Fault
  /\ tasks' = [tasks EXCEPT ![d] = Idle]
  /\ breaker' = [breaker EXCEPT ![d] = Closed]
  /\ controls' = [controls EXCEPT ![d] = NoFaults]
  /\ UNCHANGED vars

\* POST /api/demo/control, and the crash and retry scenarios.
SetPaused(d) ==
  /\ \E b \in BOOLEAN : controls' = [controls EXCEPT ![d].paused = b]
  /\ UNCHANGED <<vars, tasks, breaker, faults>>

ArmFault(d) ==
  /\ Fault
  /\ \/ controls' = [controls EXCEPT ![d].dropAck = TRUE]
     \/ controls' = [controls EXCEPT ![d].failNext = Inject]
  /\ UNCHANGED <<vars, tasks, breaker>>

\* Requests served by any process: they never touch the worker's memory.
Client ==
  /\ \/ \E k \in Key, in \in Requests : Reserve(k, in)
     \/ \E e \in Event, p \in Receipts : Accept(e, p)
     \/ \E e \in Event : Replay(e)
  /\ UNCHANGED workerVars

PassTime ==
  /\ Tick
  /\ breaker' = [d \in Dispatcher |-> [breaker[d] EXCEPT !.open = Earlier(@)]]
  /\ UNCHANGED <<tasks, controls, faults>>

-----------------------------------------------------------------------------
Dispatch(d) ==
  \/ ClaimJob(d) \/ InjectedFailure(d) \/ ConsumeProcess(d) \/ LoseAck(d)
  \/ ConsumeComplete(d) \/ FailTick(d)

Disturb(d) ==
  \/ ClaimError(d) \/ ProcessError(d) \/ CompleteError(d) \/ FailJobError(d)
  \/ SweepError(d) \/ Crash(d) \/ SetPaused(d) \/ ArmFault(d)

WorkerNext ==
  \/ \E d \in Dispatcher :
       Begin(d) \/ Dispatch(d) \/ StartSweep(d) \/ SweepOne(d) \/ Disturb(d)
  \/ Client
  \/ PassTime

WorkerSpec == WorkerInit /\ [][WorkerNext]_allVars

\* A process goes on with what it started, and Run's select takes each ticker
\* that keeps firing again and again; the clock does not stop.
WorkerFairness ==
  /\ \A d \in Dispatcher :
       /\ WF_allVars(Dispatch(d)) /\ WF_allVars(SweepOne(d))
       /\ SF_allVars(Begin(d)) /\ SF_allVars(StartSweep(d))
  /\ WF_allVars(PassTime)

FairWorkerSpec == WorkerSpec /\ WorkerFairness

-----------------------------------------------------------------------------
(* What the workers promise *)

Running == <>[](\A d \in Dispatcher : ~controls[d].paused)

\* Every accepted receipt is decided in the end, whatever crashes, lost answers
\* and expired leases happen on the way, once no process stays paused; and the
\* intent of a decided delivery is closed in the end, also when the
\* acknowledgement of the decision was lost, unless an operator reopens it.
ReceiptsDecided ==
  Running => \A e \in Event :
    /\ deliveries[e].status = "accepted" ~> deliveries[e].status \in Decided
    /\ deliveries[e].status \in Decided
         ~> (outbox[e].state \in {"done", "dead"} \/ deliveries[e].status = "accepted")

\* Every hold is settled or its funds are released, even while dispatching is
\* paused or cooling down for ever and though sweeps are cut short by errors.
HoldsResolved ==
  \A k \in Key : reservations[k].state = "held" ~> reservations[k].state # "held"

=============================================================================
