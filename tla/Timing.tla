------------------------------- MODULE Timing -------------------------------
(***************************************************************************)
(* Worker watched by a clock of its own.  The lease of an outbox row and   *)
(* the cooldown of a circuit breaker are deadlines the code writes down    *)
(* and compares with the time; whether they keep the distance they are     *)
(* meant to keep is not to be read off those deadlines.  The variables of  *)
(* this module are history variables: no step of Worker depends on them,   *)
(* and they measure, from the steps alone, how long a claim has lasted,    *)
(* how many Ticks of a process failed in a row, and how long it has        *)
(* claimed nothing since.                                                  *)
(***************************************************************************)
EXTENDS Worker

VARIABLES
  held,    \* time since the row was leased to its owner, up to Lease
  streak,  \* failed Ticks since the process succeeded or started, up to Trip
  rested   \* time since the last failed Tick of a full streak, up to Cooldown

watchVars == <<held, streak, rested>>
timedVars == <<allVars, watchVars>>

TimedInit ==
  /\ WorkerInit
  /\ held = [e \in Event |-> 0]
  /\ streak = [d \in Dispatcher |-> 0]
  /\ rested = [d \in Dispatcher |-> 0]

AtMost(limit, n) == IF n <= limit THEN n ELSE limit

\* The step leaves row e leased to the claim that has it.
StillLeased(e) ==
  /\ outbox[e].state = "leased" /\ outbox'[e].state = "leased"
  /\ outbox'[e].owner = outbox[e].owner

\* Claims last n longer; a new one starts at zero.
HeldFor(n) ==
  held' = [e \in Event |-> IF StillLeased(e) THEN AtMost(Lease, held[e] + n) ELSE 0]

\* A Tick of process d ends with an error.
Fails(d) ==
  /\ FailTick(d) \/ FailJobError(d)
  /\ streak' = [streak EXCEPT ![d] = AtMost(Trip, @ + 1)]
  /\ rested' = [rested EXCEPT ![d] = 0]

\* A Tick of process d delivers its receipt, or the process starts again.
StartsOver(d) ==
  /\ ConsumeComplete(d) \/ Crash(d)
  /\ streak' = [streak EXCEPT ![d] = 0]
  /\ rested' = [rested EXCEPT ![d] = 0]

\* The steps of process d that say nothing about its failures.
GoesOn(d) ==
  /\ \/ Begin(d) \/ ClaimJob(d) \/ InjectedFailure(d) \/ ConsumeProcess(d) \/ LoseAck(d)
     \/ StartSweep(d) \/ SweepOne(d)
     \/ ClaimError(d) \/ ProcessError(d) \/ CompleteError(d) \/ SweepError(d)
     \/ SetPaused(d) \/ ArmFault(d)
  /\ UNCHANGED <<streak, rested>>

TimePasses ==
  /\ PassTime
  /\ HeldFor(1)
  /\ rested' = [d \in Dispatcher |->
                  IF streak[d] = Trip THEN AtMost(Cooldown, rested[d] + 1) ELSE 0]
  /\ UNCHANGED streak

TimedNext ==
  \/ /\ \/ \E d \in Dispatcher : Fails(d) \/ StartsOver(d) \/ GoesOn(d)
        \/ Client /\ UNCHANGED <<streak, rested>>
     /\ HeldFor(0)
  \/ TimePasses

TimedSpec == TimedInit /\ [][TimedNext]_timedVars

FairTimedSpec == TimedSpec /\ WorkerFairness

-----------------------------------------------------------------------------
\* A claim keeps its row for the whole of its lease: a leased row goes to
\* another owner only when Lease has passed since Claim gave it to this one,
\* whoever fails, crashes or loses an answer, and however the clock and the
\* claims of the other processes interleave.
LeaseRespected ==
  [][\A e \in Event :
       (/\ outbox[e].state = "leased" /\ outbox'[e].state = "leased"
        /\ outbox'[e].owner # outbox[e].owner) => held[e] = Lease]_timedVars

\* Trip failed Ticks in a row stop a process: it is not about to claim again
\* before it has rested for the whole cooldown since the last of them,
\* although Tick tests the breaker in a step of its own, before it claims.
BreakerHonoured ==
  \A d \in Dispatcher :
    (At(d, "ready") /\ streak[d] = Trip) => rested[d] = Cooldown

=============================================================================
