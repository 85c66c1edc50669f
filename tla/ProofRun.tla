------------------------------ MODULE ProofRun ------------------------------
(***************************************************************************)
(* The integration proof of the console (proof.js) as a client of Store:   *)
(* six stages that reserve two plays, send a batch, send it again, observe *)
(* the verdicts, send a correction and observe all four receipts.  A run   *)
(* is saved in the tab's session storage before its first mutation and     *)
(* after every stage, and is resumed with the same keys and events.        *)
(*                                                                         *)
(* One run is modelled, with the identities PlayA, PlayB and First, Second,*)
(* Broken, Corrected of its plan, in one tab.  Requests take effect at the *)
(* server at some time, also after the page gave up on them or was         *)
(* reloaded.  Workers process accepted deliveries or fail them, and a      *)
(* receipt they fail too often ends as failed until an operator replays    *)
(* it; an evidence read is one step, as module Readers shows.  Session     *)
(* storage is assumed to work: save only warns if it does not.             *)
(***************************************************************************)
EXTENDS Store

CONSTANTS
  PlayA, PlayB,                      \* plan.keys
  First, Second, Broken, Corrected,  \* plan.events
  Play,                              \* the reservation request of both plays
  MaxFaults                          \* bound of the model: see faults

\* What the run sends: the receipts of its events.
Body(e) ==
  [reservation |-> IF e \in {First, Second} THEN PlayA ELSE PlayB,
   screen |-> Play.screen, offset |-> 0, sound |-> e # Broken]

ASSUME ProofRunAssumption ==
  /\ {PlayA, PlayB} \subseteq Key /\ PlayA # PlayB
  /\ Event = {First, Second, Broken, Corrected} /\ Key \cap Event = {}
  /\ Play \in Requests /\ \A e \in Event : Body(e) \in Receipts
  /\ MaxFaults \in Nat

VARIABLES
  page,    \* the script of the page: where execute is, and its run
  saved,   \* the run in session storage
  late,    \* requests the server still works on and nobody waits for
  faults   \* how many requests failed, reloads, claims, replays and
           \* reservations of other clients there were

pageVars == <<page, saved, late, faults>>
proofVars == <<vars, pageVars>>

\* A run is known by the number of its verified stages, in their order.
NoRun == -1
AllStages == 6

\* A request at the server: the number of its items done and how many of them
\* were stored before; ok is FALSE once an item was refused or failed.
Ask(op) == [op |-> op, item |-> 1, replayed |-> 0, ok |-> TRUE]
NoAsk == [op |-> "none"]

Fresh(run) == [pc |-> "idle", run |-> run, ask |-> NoAsk, seen |-> <<>>]

ProofInit ==
  /\ Init
  /\ page = Fresh(NoRun)
  /\ saved = NoRun
  /\ late = {}
  /\ faults = 0

Fault == faults < MaxFaults /\ faults' = faults + 1

-----------------------------------------------------------------------------
(* The server's side of a request *)

\* The items of a request, in order.  The fourth one of a batch, which does not
\* decode, never reaches the store.
Items(op) ==
  CASE op = "holdA" -> <<PlayA>>
    [] op = "holdB" -> <<PlayB>>
    [] op = "batch" -> <<First, Second, Broken>>
    [] op = "fix" -> <<Corrected>>

Served(x) == x.item > Len(Items(x.op))

Stored(i) ==
  IF i \in Key THEN reservations[i].state # "none" ELSE deliveries[i].status # "none"

Write(i) == IF i \in Key THEN Reserve(i, Play) ELSE Accept(i, Body(i))

Affordable ==
  Budget[Play.campaign] - spent[Play.campaign] - reserved[Play.campaign] >= Play.cost

\* One item of request x, which becomes y: stored now, found stored, or
\* refused because the budget is short.
ServeItem(x, y) ==
  LET i == Items(x.op)[x.item]
  IN  /\ ~Served(x)
      /\ \/ Write(i) /\ y = [x EXCEPT !.item = @ + 1]
         \/ Stored(i) /\ y = [x EXCEPT !.item = @ + 1, !.replayed = @ + 1] /\ UNCHANGED vars
         \/ /\ i \in Key /\ ~Stored(i) /\ ~Affordable
            /\ y = [x EXCEPT !.item = @ + 1, !.ok = FALSE]
            /\ UNCHANGED vars

Serve ==
  /\ page.pc = "asking"
  /\ \E y \in [op : {page.ask.op}, item : {page.ask.item + 1},
               replayed : 0..3, ok : BOOLEAN] :
       /\ ServeItem(page.ask, y)
       /\ page' = [page EXCEPT !.ask = y]
  /\ UNCHANGED <<saved, late, faults>>

\* The server finishes a request whose answer nobody waits for, or its context
\* ends.
ServeLate(x) ==
  \/ /\ \E y \in [op : {x.op}, item : {x.item + 1}, replayed : 0..3, ok : BOOLEAN] :
          ServeItem(x, y) /\ late' = (late \ {x}) \cup (IF Served(y) THEN {} ELSE {y})
     /\ UNCHANGED <<page, saved, faults>>
  \/ /\ late' = late \ {x}
     /\ UNCHANGED <<vars, page, saved, faults>>

\* An item fails at the server: its transaction is rolled back, or committed
\* with the answer lost.
FailItem ==
  /\ page.pc = "asking" /\ ~Served(page.ask)
  /\ Fault
  /\ UNCHANGED vars \/ Write(Items(page.ask.op)[page.ask.item])
  /\ page' = [page EXCEPT !.ask.item = @ + 1, !.ask.ok = FALSE]
  /\ UNCHANGED <<saved, late>>

-----------------------------------------------------------------------------
(* execute *)

\* Where execute goes on with a run that has n verified stages.
Continue(n) ==
  [run |-> n, seen |-> <<>>,
   pc |-> IF n = AllStages THEN "idle" ELSE IF n \in {3, 5} THEN "observing" ELSE "asking",
   ask |-> CASE n = 0 -> Ask("holdA") [] n \in {1, 2} -> Ask("batch")
             [] n = 4 -> Ask("fix") [] OTHER -> NoAsk]

\* Mutant: a new run is saved only once its first stage is verified.
CreateUnsaved ==
  /\ page.pc = "idle" /\ page.run = NoRun
  /\ Budget[Play.campaign] - spent[Play.campaign] - reserved[Play.campaign] >= 2 * Play.cost
  /\ page' = Continue(0)
  /\ UNCHANGED <<vars, saved, late, faults>>

\* The snapshot shows enough budget: a run is planned and saved.
Create ==
  /\ page.pc = "idle" /\ page.run = NoRun
  /\ Budget[Play.campaign] - spent[Play.campaign] - reserved[Play.campaign] >= 2 * Play.cost
  /\ page' = Continue(0)
  /\ saved' = 0
  /\ UNCHANGED <<vars, late, faults>>

\* The button resumes an unfinished run.
Resume ==
  /\ page.pc = "idle" /\ page.run \in 0..5
  /\ page' = Continue(page.run)
  /\ UNCHANGED <<vars, saved, late, faults>>

\* A stage is verified: save, and on to the next.
Verified(n) ==
  /\ page' = Continue(n)
  /\ saved' = n
  /\ UNCHANGED <<vars, late, faults>>

\* An assertion or a request failed: save, and wait for the user.
GiveUp ==
  /\ page' = Fresh(page.run)
  /\ saved' = page.run

\* Mutant: the first batch is taken for wrong if the server had stored it already.
AnsweredIfNew ==
  LET x == page.ask
      n == page.run
  IN  /\ page.pc = "asking" /\ Served(x)
      /\ IF ~x.ok \/ (n = 1 /\ x.replayed # 0) \/ (n = 2 /\ x.replayed # 3)
         THEN GiveUp /\ UNCHANGED <<vars, late, faults>>
         ELSE IF x.op = "holdA"
         THEN /\ page' = [page EXCEPT !.ask = Ask("holdB")]
              /\ UNCHANGED <<vars, saved, late, faults>>
         ELSE Verified(n + 1)

\* The answer arrives.  The second batch has to replay all three receipts.
Answered ==
  LET x == page.ask
      n == page.run
  IN  /\ page.pc = "asking" /\ Served(x)
      /\ IF ~x.ok \/ (n = 2 /\ x.replayed # 3)
         THEN GiveUp /\ UNCHANGED <<vars, late, faults>>
         ELSE IF x.op = "holdA"
         THEN /\ page' = [page EXCEPT !.ask = Ask("holdB")]
              /\ UNCHANGED <<vars, saved, late, faults>>
         ELSE Verified(n + 1)

\* The receipts a stage observes, each with a request of its own.
Observed(n) == IF n = 3 THEN {First, Second, Broken} ELSE Event

\* Evidence: a receipt's status with the state of its reservation.
Observe ==
  /\ page.pc = "observing"
  /\ \E e \in Observed(page.run) \ DOMAIN page.seen :
       page' = [page EXCEPT !.seen =
         [x \in DOMAIN @ \cup {e} |->
            IF x = e THEN [status |-> deliveries[e].status,
                           hold |-> reservations[Body(e).reservation].state]
                     ELSE @[x]]]
  /\ UNCHANGED <<vars, saved, late, faults>>

OneSettled(seen) ==
  {seen[First].status, seen[Second].status} = {"settled", "duplicate"}

\* Mutant: any decided receipts are taken for the expected ones.
AsExpectedIfDecided(n, seen) == \A e \in DOMAIN seen : seen[e].status # "accepted"

\* The assertions of the stages Reconcile and Verify.
AsExpected(n, seen) ==
  /\ OneSettled(seen)
  /\ seen[Broken].status = "quarantined"
  /\ n = 3 => seen[Broken].hold = "held"
  /\ n = 5 => /\ seen[Corrected].status = "settled"
              /\ \A e \in Event : seen[e].hold = "settled"

\* All of them were read: verify if they are decided, else read them again or,
\* after the deadline, give up.
Judge ==
  LET n == page.run
      seen == page.seen
      decided == \A e \in DOMAIN seen : seen[e].status # "accepted"
  IN  /\ page.pc = "observing" /\ DOMAIN seen = Observed(n)
      /\ \/ decided /\ AsExpected(n, seen) /\ Verified(n + 1)
         \/ /\ ~(decided /\ AsExpected(n, seen))
            /\ GiveUp /\ UNCHANGED <<vars, late, faults>>
         \/ /\ ~decided
            /\ page' = [page EXCEPT !.seen = <<>>]
            /\ UNCHANGED <<vars, saved, late, faults>>

-----------------------------------------------------------------------------
(* What happens to the page *)

Abandoned ==
  IF page.pc = "asking" /\ ~Served(page.ask) THEN {page.ask} ELSE {}

\* A request times out or its answer is lost; the server may go on with it.
LoseAnswer ==
  /\ page.pc # "idle" /\ Fault
  /\ GiveUp
  /\ late' = late \cup Abandoned
  /\ UNCHANGED vars

\* A reload forgets the page's memory and reads the saved run.
Reload ==
  /\ Fault
  /\ page' = Fresh(saved)
  /\ late' = late \cup Abandoned
  /\ UNCHANGED <<vars, saved>>

Execute == Resume \/ Serve \/ Answered \/ Observe \/ Judge

\* What others do to the run's receipts and budget, bounded with the faults: a
\* worker claims a row, an operator replays a receipt, another client reserves.
\* Claims matter for the Ticks that fail: one that succeeds is its Process.
Disturb ==
  /\ Fault
  /\ \/ \E e \in Event : Claim(e) \/ Replay(e)
     \/ \E k \in Key \ {PlayA, PlayB}, in \in Requests : Reserve(k, in)
  /\ UNCHANGED <<page, saved, late>>

\* The steps of workers and sweeps, and the clock.  Dispatched and Complete are
\* left out: all they do is keep a row from being claimed.
Others ==
  /\ \/ \E e \in Event : Process(e)
     \/ \E j \in DOMAIN jobs, d \in Delays : FailJob(j, d)
     \/ \E k \in Key : Release(k)
     \/ Tick
  /\ UNCHANGED pageVars

ProofNext ==
  \/ Create \/ Execute \/ FailItem \/ LoseAnswer \/ Reload
  \/ \E x \in late : ServeLate(x)
  \/ Disturb \/ Others

ProofSpec == ProofInit /\ [][ProofNext]_proofVars

\* The page and the server go on, the user resumes, and a receipt that stays
\* accepted is decided: workers that fail it first make it a failed one.
FairProofSpec ==
  /\ ProofSpec
  /\ WF_proofVars(Execute)
  /\ WF_proofVars(UNCHANGED pageVars /\ \E e \in Event : Process(e))

-----------------------------------------------------------------------------
(* What a run promises *)

\* What a stage has verified is true of the store from then on, although the
\* receipts were read one by one while workers, operators and late requests
\* were at work: after Reconcile one of the two receipts of play A settled it
\* and the other is a duplicate, the broken one has moved no money and never
\* will, though it may be replayed and quarantined again or fail, and a
\* complete run has settled both plays.
VerifiedStaysTrue ==
  /\ saved >= 1 => \A k \in {PlayA, PlayB} : reservations[k].state # "none"
  /\ saved >= 2 => \A e \in {First, Second, Broken} : deliveries[e].status # "none"
  /\ saved >= 4 =>
       /\ {deliveries[First].status, deliveries[Second].status} = {"settled", "duplicate"}
       /\ deliveries[Broken].status \in {"quarantined", "accepted", "failed"}
  /\ saved = 6 =>
       /\ deliveries[Corrected].status = "settled"
       /\ \A k \in {PlayA, PlayB} : reservations[k].state = "settled"

\* The plan is saved before the first mutation and kept: no reload, lost answer
\* or late request leaves budget held under a key that is lost.
HoldsRemembered ==
  \A k \in {PlayA, PlayB} :
    reservations[k].state # "none" => saved # NoRun

Ended == \/ saved = AllStages
         \/ \E k \in {PlayA, PlayB} : reservations[k].state = "released"
         \/ ~Affordable /\ \E k \in {PlayA, PlayB} : reservations[k].state = "none"

\* Receipts that failed are replayed, until none is left.
FailuresReplayed == <>[](\A e \in Event : deliveries[e].status # "failed")

\* A run that is resumed again and again completes, whatever requests failed
\* before and even if receipts of it failed at the workers, as long as an
\* operator replays those: a receipt that stays failed blocks its stage for
\* good.  Two other ends are final too: the budget went elsewhere before the
\* plays were held, or the sweep released a hold of the run, whose receipts
\* are then quarantined each time it is resumed.
RunsComplete == FailuresReplayed => (saved # NoRun ~> Ended)
=============================================================================
