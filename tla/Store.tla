------------------------------- MODULE Store -------------------------------
(***************************************************************************)
(* The transactional store of Afterglow (internal/core): campaigns with a  *)
(* budget, reservations that hold part of it, playback receipts            *)
(* (deliveries) that settle a reservation, and the outbox that carries     *)
(* every accepted receipt to the reconciler.                               *)
(*                                                                         *)
(* One action is one committed transaction of one Store method.  A call    *)
(* that is refused (invalid input, unknown row, conflict, no budget) or    *)
(* that only replays an earlier answer rolls back or changes nothing, so   *)
(* it is a stuttering step.  The callers are unconstrained here: any       *)
(* method may be called at any time, in any order, by any number of        *)
(* processes, and a Job returned by Claim may be used arbitrarily late or  *)
(* twice.                                                                  *)
(*                                                                         *)
(* A reservation is named by its idempotency key and a delivery by its     *)
(* event ID: schema.sql makes both UNIQUE.  One tenant is modelled: every  *)
(* statement but Claim's and the sweep's SELECT filters by tenant, and     *)
(* those two act on the single row they found.                             *)
(*                                                                         *)
(* Time is kept relative to the clock, which only the differences below    *)
(* need: a reservation's age is now - created (its expires is created +    *)
(* Window), an outbox row's wait is next_at - now and its lease is         *)
(* lease_until - now, both 0 once that moment has passed.                  *)
(***************************************************************************)
EXTENDS Integers, Sequences, FiniteSets

CONSTANTS
  Campaign,     \* campaign rows, seeded once and never inserted again
  Budget,       \* their budget column, which no statement updates
  Screen,       \* screen rows
  Key,          \* reservation idempotency keys
  Event,        \* receipt event IDs
  Requests,     \* the valid reservation inputs clients may send
  Receipts,     \* the receipts clients may send
  MaxCost,      \* the largest cost of a reservation (1000000000 micros)
  Window,       \* life of a reservation (15 minutes)
  Grace,        \* wait for late receipts after it (15 minutes)
  Skew,         \* how far in the future a play may be (60 seconds)
  Lease,        \* length of a dispatch lease (30 seconds)
  Delays,       \* the delays Backoff may return
  MaxAttempts,  \* claims before a failing job is dead (5)
  MaxJobs,      \* bound of the model: number of claims
  MaxReplays,   \* bound of the model: operator replays per delivery
  Unknown       \* a reservation ID that names no row

ReservationInput == [campaign : Campaign, screen : Screen, cost : 1..MaxCost]

\* A receipt as JSON stores it.  offset is its played_at minus the created
\* time of the reservation it names; sound says that its version is 1 and its
\* duration between 1 and 120 seconds.
Receipt == [reservation : Key \cup {Unknown}, screen : Screen,
            offset : Int, sound : BOOLEAN]

ASSUME StoreAssumption ==
  /\ Budget \in [Campaign -> Nat \ {0}]
  /\ IsFiniteSet(Key)
  /\ Requests \subseteq ReservationInput
  /\ Receipts \subseteq Receipt
  /\ MaxCost \in Nat /\ Window \in Nat /\ Grace \in Nat /\ Skew \in Nat
  /\ Lease \in Nat \ {0}
  /\ Delays \subseteq Nat
  /\ MaxAttempts \in Nat \ {0} /\ MaxJobs \in Nat /\ MaxReplays \in Nat
  /\ Unknown \notin Key

VARIABLES
  reserved,      \* campaigns.reserved
  spent,         \* campaigns.spent
  reservations,  \* the row of each idempotency key
  deliveries,    \* the row of each event ID
  outbox,        \* the dispatch intent of each delivery
  jobs,          \* every Job Claim has returned; its owner token is its index
  audit          \* number of audit rows per resource and kind

ledgerVars == <<reserved, spent, reservations>>
vars == <<reserved, spent, reservations, deliveries, outbox, jobs, audit>>

-----------------------------------------------------------------------------
(* Rows *)

Horizon == Window + Grace + 1   \* an age from which nothing changes any more

Reservation == [state : {"held", "settled", "released"}, campaign : Campaign,
                screen : Screen, cost : 1..MaxCost, age : 0..Horizon]
NoReservation == [state |-> "none"]

Decided == {"settled", "duplicate", "quarantined", "failed"}
Delivery == [status : {"accepted"} \cup Decided, receipt : Receipt]
NoDelivery == [status |-> "none"]

OutboxState == {"pending", "leased", "dispatched", "done", "dead"}
OutboxRow == [state : OutboxState, owner : Nat, lease : Nat, wait : Nat,
              attempts : Nat]
NoOutbox == [state |-> "none"]

Job == [event : Event, attempts : Nat]

AuditKind == {"reserved", "accepted", "settled", "duplicate", "quarantined",
              "released", "retry", "replayed"}
Audited(x, kind) == audit' = [audit EXCEPT ![x][kind] = @ + 1]

\* Rows keep the columns and the states of schema.sql, and no counter of a
\* campaign ever goes below zero (the schema's CHECKs).
TypeOK ==
  /\ reserved \in [Campaign -> Nat]
  /\ spent \in [Campaign -> Nat]
  /\ reservations \in [Key -> Reservation \cup {NoReservation}]
  /\ deliveries \in [Event -> Delivery \cup {NoDelivery}]
  /\ outbox \in [Event -> OutboxRow \cup {NoOutbox}]
  /\ jobs \in Seq(Job)
  /\ audit \in [Key \cup Event -> [AuditKind -> Nat]]

Init ==
  /\ reserved = [c \in Campaign |-> 0]
  /\ spent = [c \in Campaign |-> 0]
  /\ reservations = [k \in Key |-> NoReservation]
  /\ deliveries = [e \in Event |-> NoDelivery]
  /\ outbox = [e \in Event |-> NoOutbox]
  /\ jobs = <<>>
  /\ audit = [x \in Key \cup Event |-> [kind \in AuditKind |-> 0]]

-----------------------------------------------------------------------------
(* store.go: reservations and receipts *)

\* Mutant: the budget test forgets what is already held.
ReserveIgnoringHolds(k, in) ==
  /\ reservations[k].state = "none"
  /\ Budget[in.campaign] - spent[in.campaign] >= in.cost
  /\ reserved' = [reserved EXCEPT ![in.campaign] = @ + in.cost]
  /\ reservations' = [reservations EXCEPT ![k] =
                        [state |-> "held", campaign |-> in.campaign,
                         screen |-> in.screen, cost |-> in.cost, age |-> 0]]
  /\ Audited(k, "reserved")
  /\ UNCHANGED <<spent, deliveries, outbox, jobs>>

\* Reserve holds in.cost of the campaign's budget under a key not used before.
\* A key already used replays its row or conflicts: no step.
Reserve(k, in) ==
  /\ reservations[k].state = "none"
  /\ Budget[in.campaign] - spent[in.campaign] - reserved[in.campaign] >= in.cost
  /\ reserved' = [reserved EXCEPT ![in.campaign] = @ + in.cost]
  /\ reservations' = [reservations EXCEPT ![k] =
                        [state |-> "held", campaign |-> in.campaign,
                         screen |-> in.screen, cost |-> in.cost, age |-> 0]]
  /\ Audited(k, "reserved")
  /\ UNCHANGED <<spent, deliveries, outbox, jobs>>

\* Accept stores a receipt and its dispatch intent together.  An event ID
\* already used replays its delivery or conflicts: no step.  A reservation ID
\* is random, so no receipt names one before its row exists.
Accept(e, p) ==
  /\ deliveries[e].status = "none"
  /\ p.reservation # Unknown => reservations[p.reservation].state # "none"
  /\ deliveries' = [deliveries EXCEPT ![e] =
                      [status |-> "accepted", receipt |-> p]]
  /\ outbox' = [outbox EXCEPT ![e] =
                  [state |-> "pending", owner |-> 0, lease |-> 0, wait |-> 0,
                   attempts |-> 0]]
  /\ Audited(e, "accepted")
  /\ UNCHANGED <<ledgerVars, jobs>>

\* Mutant: a play after the reservation expired passes.
MatchesAfterExpiry(p) ==
  /\ p.sound
  /\ p.reservation # Unknown
  /\ LET r == reservations[p.reservation]
     IN  /\ r.state \notin {"none", "released"}
         /\ p.offset <= r.age + Skew
         /\ r.screen = p.screen
         /\ 0 <= p.offset

\* The checks Process makes before it looks for a hold to settle.  The first
\* one that fails only chooses the reason it records.
Matches(p) ==
  /\ p.sound
  /\ p.reservation # Unknown
  /\ LET r == reservations[p.reservation]
     IN  /\ r.state # "none"
         /\ p.offset <= r.age + Skew
         /\ r.screen = p.screen
         /\ 0 <= p.offset /\ p.offset <= Window
         /\ r.state # "released"

Decide(e, status) ==
  /\ deliveries' = [deliveries EXCEPT ![e].status = status]
  /\ Audited(e, status)

\* Mutant: the receipt is settled without testing that the hold is still open.
SettleUnlessReleased(e) ==
  LET p == deliveries[e].receipt
      r == reservations[p.reservation]
  IN  /\ Matches(p)
      /\ reservations' = [reservations EXCEPT ![p.reservation].state = "settled"]
      /\ reserved' = reserved
      /\ spent' = [spent EXCEPT ![r.campaign] = @ + r.cost]
      /\ Decide(e, "settled")

\* Process decides an accepted delivery in one transaction; one decided before
\* (a redelivery) only has its attempts counter raised: no step.
Settle(e) ==
  LET p == deliveries[e].receipt
      r == reservations[p.reservation]
  IN  /\ Matches(p)
      /\ r.state = "held"
      /\ reservations' = [reservations EXCEPT ![p.reservation].state = "settled"]
      /\ reserved' = [reserved EXCEPT ![r.campaign] = @ - r.cost]
      /\ spent' = [spent EXCEPT ![r.campaign] = @ + r.cost]
      /\ Decide(e, "settled")

MarkDuplicate(e) ==
  LET p == deliveries[e].receipt
  IN  /\ Matches(p)
      /\ reservations[p.reservation].state # "held"
      /\ Decide(e, "duplicate")
      /\ UNCHANGED ledgerVars

Quarantine(e) ==
  /\ ~Matches(deliveries[e].receipt)
  /\ Decide(e, "quarantined")
  /\ UNCHANGED ledgerVars

\* Mutant: a redelivery of a delivery already decided is decided again.
ProcessAgain(e) ==
  /\ deliveries[e].status # "none"
  /\ Settle(e) \/ MarkDuplicate(e) \/ Quarantine(e)
  /\ UNCHANGED <<outbox, jobs>>

Process(e) ==
  /\ deliveries[e].status = "accepted"
  /\ Settle(e) \/ MarkDuplicate(e) \/ Quarantine(e)
  /\ UNCHANGED <<outbox, jobs>>

\* Mutant: release trusts the SELECT and does not recheck the state.
ReleaseSelected(k) ==
  LET r == reservations[k]
  IN  /\ r.state # "none"
      /\ r.age > Window + Grace
      /\ reservations' = [reservations EXCEPT ![k].state = "released"]
      /\ reserved' = [reserved EXCEPT ![r.campaign] = @ - r.cost]
      /\ Audited(k, "released")
      /\ UNCHANGED <<spent, deliveries, outbox, jobs>>

\* One release of ReleaseExpired's loop: the row is rechecked under its lock,
\* whatever the SELECT before the loop saw.
Release(k) ==
  LET r == reservations[k]
  IN  /\ r.state = "held"
      /\ r.age > Window + Grace
      /\ reservations' = [reservations EXCEPT ![k].state = "released"]
      /\ reserved' = [reserved EXCEPT ![r.campaign] = @ - r.cost]
      /\ Audited(k, "released")
      /\ UNCHANGED <<spent, deliveries, outbox, jobs>>

-----------------------------------------------------------------------------
(* queue.go: the outbox *)

\* Mutant: the lease Claim writes ends a moment too early.
ClaimShortLease(e) ==
  LET o == outbox[e]
  IN  /\ o.state \in {"pending", "leased"}
      /\ o.wait = 0 /\ o.lease = 0
      /\ Len(jobs) < MaxJobs
      /\ outbox' = [outbox EXCEPT ![e] =
                      [o EXCEPT !.state = "leased", !.owner = Len(jobs) + 1,
                                !.lease = Lease - 1, !.attempts = @ + 1]]
      /\ jobs' = Append(jobs, [event |-> e, attempts |-> o.attempts + 1])
      /\ UNCHANGED <<ledgerVars, deliveries, audit>>

\* Mutant: Claim never takes back a row whose lease has run out.
ClaimPendingOnly(e) ==
  LET o == outbox[e]
  IN  /\ o.state = "pending"
      /\ o.wait = 0
      /\ Len(jobs) < MaxJobs
      /\ outbox' = [outbox EXCEPT ![e] =
                      [o EXCEPT !.state = "leased", !.owner = Len(jobs) + 1,
                                !.lease = Lease, !.attempts = @ + 1]]
      /\ jobs' = Append(jobs, [event |-> e, attempts |-> o.attempts + 1])
      /\ UNCHANGED <<ledgerVars, deliveries, audit>>

\* Claim leases one due row to a fresh owner token.  The order of next_at does
\* not bind the choice: SKIP LOCKED passes over rows another transaction holds.
Claim(e) ==
  LET o == outbox[e]
  IN  /\ o.state \in {"pending", "leased"}
      /\ o.wait = 0 /\ o.lease = 0
      /\ Len(jobs) < MaxJobs
      /\ outbox' = [outbox EXCEPT ![e] =
                      [o EXCEPT !.state = "leased", !.owner = Len(jobs) + 1,
                                !.lease = Lease, !.attempts = @ + 1]]
      /\ jobs' = Append(jobs, [event |-> e, attempts |-> o.attempts + 1])
      /\ UNCHANGED <<ledgerVars, deliveries, audit>>

\* Mutant: the fence compares the state and not the owner.
OwnsAnyLease(j) == outbox[jobs[j].event].state = "leased"

\* The fence of Dispatched and FailJob: the row is still leased to job j.
Owns(j) ==
  LET o == outbox[jobs[j].event] IN o.state = "leased" /\ o.owner = j

Dispatched(j) ==
  /\ Owns(j)
  /\ outbox' = [outbox EXCEPT ![jobs[j].event] =
                  [@ EXCEPT !.state = "dispatched", !.owner = 0, !.lease = 0]]
  /\ UNCHANGED <<ledgerVars, deliveries, jobs, audit>>

\* Mutant: Complete closes the row without reading the delivery's status.
CompleteUnread(e) ==
  /\ deliveries[e].status # "none"
  /\ outbox' = [outbox EXCEPT ![e] =
                  [@ EXCEPT !.state = "done", !.owner = 0, !.lease = 0]]
  /\ UNCHANGED <<ledgerVars, deliveries, jobs, audit>>

\* Complete is not fenced: it closes the intent of any decided delivery.
Complete(e) ==
  /\ deliveries[e].status \in Decided
  /\ outbox' = [outbox EXCEPT ![e] =
                  [@ EXCEPT !.state = "done", !.owner = 0, !.lease = 0]]
  /\ UNCHANGED <<ledgerVars, deliveries, jobs, audit>>

\* FailJob returns the row for a retry after a delay, or gives it up; a job
\* that lost its row changes nothing: no step.
FailJob(j, delay) ==
  LET e == jobs[j].event
      dead == jobs[j].attempts >= MaxAttempts
  IN  /\ Owns(j)
      /\ outbox' = [outbox EXCEPT ![e] =
                      [@ EXCEPT !.state = IF dead THEN "dead" ELSE "pending",
                                !.owner = 0, !.lease = 0, !.wait = delay]]
      /\ deliveries' = IF dead /\ deliveries[e].status = "accepted"
                       THEN [deliveries EXCEPT ![e].status = "failed"]
                       ELSE deliveries
      /\ Audited(e, "retry")
      /\ UNCHANGED <<ledgerVars, jobs>>

\* Mutant: Replay leaves the owner of a running lease in the row.
ReplayKeepingOwner(e) ==
  /\ deliveries[e].status \in {"failed", "quarantined"}
  /\ audit[e]["replayed"] < MaxReplays
  /\ deliveries' = [deliveries EXCEPT ![e].status = "accepted"]
  /\ outbox' = [outbox EXCEPT ![e] =
                  [@ EXCEPT !.state = "pending", !.lease = 0, !.wait = 0,
                            !.attempts = 0]]
  /\ Audited(e, "replayed")
  /\ UNCHANGED <<ledgerVars, jobs>>

\* Replay reopens a failed or quarantined delivery; its payload is kept.
Replay(e) ==
  /\ deliveries[e].status \in {"failed", "quarantined"}
  /\ audit[e]["replayed"] < MaxReplays
  /\ deliveries' = [deliveries EXCEPT ![e].status = "accepted"]
  /\ outbox' = [outbox EXCEPT ![e] =
                  [state |-> "pending", owner |-> 0, lease |-> 0, wait |-> 0,
                   attempts |-> 0]]
  /\ Audited(e, "replayed")
  /\ UNCHANGED <<ledgerVars, jobs>>

-----------------------------------------------------------------------------
(* The clock *)

Aged(r) ==
  IF r.state = "none" THEN r
  ELSE [r EXCEPT !.age = IF @ < Horizon THEN @ + 1 ELSE @]

Earlier(n) == IF n = 0 THEN 0 ELSE n - 1

Elapsed(o) ==
  IF o.state = "none" THEN o
  ELSE [o EXCEPT !.lease = Earlier(@), !.wait = Earlier(@)]

\* One unit of time passes.
Tick ==
  /\ reservations' = [k \in Key |-> Aged(reservations[k])]
  /\ outbox' = [e \in Event |-> Elapsed(outbox[e])]
  /\ UNCHANGED <<reserved, spent, deliveries, jobs, audit>>

-----------------------------------------------------------------------------
Next ==
  \/ \E k \in Key, in \in Requests : Reserve(k, in)
  \/ \E e \in Event, p \in Receipts : Accept(e, p)
  \/ \E e \in Event : Process(e) \/ Claim(e) \/ Complete(e) \/ Replay(e)
  \/ \E k \in Key : Release(k)
  \/ \E j \in DOMAIN jobs : Dispatched(j) \/ \E d \in Delays : FailJob(j, d)
  \/ Tick

Spec == Init /\ [][Next]_vars

-----------------------------------------------------------------------------
(* What the store promises *)

\* The money of campaign c that its reservations in one state stand for, one
\* element per unit: the set's size is the sum of their costs.
Units(c, state) ==
  {u \in Key \X (1..MaxCost) :
     /\ reservations[u[1]].state = state
     /\ reservations[u[1]].campaign = c
     /\ u[2] <= reservations[u[1]].cost}

\* The counters of every campaign row equal the sums over its reservations:
\* no interleaving of Reserve, Process and release loses or doubles an amount.
BalancesMatch ==
  \A c \in Campaign : /\ reserved[c] = Cardinality(Units(c, "held"))
                      /\ spent[c] = Cardinality(Units(c, "settled"))

\* No campaign ever commits more than its budget, although Reserve tests the
\* counters and never the reservations themselves.
BudgetCap == \A c \in Campaign : reserved[c] + spent[c] <= Budget[c]

\* What Assurance reports as budget_consistent is true of every state.
BudgetConsistent == BalancesMatch /\ BudgetCap

\* The deliveries that charged reservation k.
SettledBy(k) == {e \in Event : /\ deliveries[e].status = "settled"
                               /\ deliveries[e].receipt.reservation = k}

\* A reservation is settled by exactly one delivery, however often receipts
\* for it are accepted, processed again after a lost ack, failed or replayed;
\* every duplicate verdict refers to a reservation that was really settled.
ChargedOnce ==
  /\ \A k \in Key :
       IF reservations[k].state = "settled"
       THEN \E e \in Event : SettledBy(k) = {e}
       ELSE SettledBy(k) = {}
  /\ \A e \in Event :
       deliveries[e].status = "duplicate" =>
         reservations[deliveries[e].receipt.reservation].state = "settled"

\* A settled or duplicate verdict rests on a sound receipt of a play on the
\* reserved screen inside the reservation's window, also when the verdict was
\* reached by a retry or a replay long after the receipt was accepted.
VerdictJustified ==
  \A e \in Event :
    deliveries[e].status \in {"settled", "duplicate"} =>
      LET p == deliveries[e].receipt
      IN  /\ p.sound
          /\ p.reservation \in Key
          /\ reservations[p.reservation].screen = p.screen
          /\ p.offset \in 0..Window

\* An accepted delivery always has a dispatch intent that can still lead to a
\* decision: Complete, FailJob and Replay never close or bury the outbox row of
\* a delivery that a concurrent call left or made undecided.
IntentKept ==
  \A e \in Event :
    /\ deliveries[e].status = "none" <=> outbox[e].state = "none"
    /\ deliveries[e].status = "accepted" =>
         outbox[e].state \in {"pending", "leased", "dispatched"}

\* A leased row belongs to the newest claim of its delivery, and that job
\* carries the row's attempt count; a row that is not leased has no owner.
NewestClaimOwns ==
  \A e \in Event :
    outbox[e].state # "none" =>
      LET o == outbox[e]
      IN  /\ (o.state = "leased") <=> (o.owner # 0)
          /\ o.owner # 0 =>
               /\ o.owner \in DOMAIN jobs
               /\ jobs[o.owner] = [event |-> e, attempts |-> o.attempts]
               /\ \A j \in DOMAIN jobs : jobs[j].event = e => j <= o.owner

\* The jobs Claim returned for delivery e.
ClaimsOf(e) == {j \in DOMAIN jobs : jobs[j].event = e}

\* A claim is reported failed at most once, even by a stale dispatcher, and a
\* row is given up only after MaxAttempts claims since it was last requeued.
RetriesFenced ==
  \A e \in Event :
    /\ audit[e]["retry"] <= Cardinality(ClaimsOf(e))
    /\ outbox[e].state = "dead" => outbox[e].attempts >= MaxAttempts

Once(b) == IF b THEN 1 ELSE 0

\* Each transaction writes its audit row or does not commit: the trail tells
\* every one-time transition exactly once, and a delivery reopened n times has
\* at most n + 1 quarantine verdicts.
AuditTrail ==
  /\ \A k \in Key :
       /\ audit[k]["reserved"] = Once(reservations[k].state # "none")
       /\ audit[k]["released"] = Once(reservations[k].state = "released")
  /\ \A e \in Event :
       /\ audit[e]["accepted"] = Once(deliveries[e].status # "none")
       /\ audit[e]["settled"] = Once(deliveries[e].status = "settled")
       /\ audit[e]["duplicate"] = Once(deliveries[e].status = "duplicate")
       /\ audit[e]["quarantined"] + Once(deliveries[e].status = "failed")
            <= audit[e]["replayed"]
                 + Once(deliveries[e].status \in {"quarantined", "failed"})

ResolvedReservationKept(k) ==
  reservations[k].state \in {"settled", "released"} =>
    reservations'[k] \in {reservations[k], Aged(reservations[k])}

FinalVerdictKept(e) ==
  /\ deliveries[e].status \in {"settled", "duplicate"} =>
       deliveries'[e] = deliveries[e]
  /\ deliveries[e].status # "none" =>
       deliveries'[e].receipt = deliveries[e].receipt

\* Terminal states never go backwards: a settled or released reservation, a
\* settled or duplicate delivery and any stored receipt stay as they are.
TerminalStatesKept ==
  [][/\ \A k \in Key : ResolvedReservationKept(k)
     /\ \A e \in Event : FinalVerdictKept(e)]_vars

-----------------------------------------------------------------------------
(* The abstract ledger this store implements *)

Hold(r) ==
  IF r.state = "none" THEN r
  ELSE [state |-> r.state, campaign |-> r.campaign, cost |-> r.cost]

Ledger == INSTANCE Settlement WITH book <- [k \in Key |-> Hold(reservations[k])]

\* Seen through its reservations alone, the store is the abstract ledger: its
\* test of two counters admits exactly the holds the budget covers, and no
\* receipt, retry, replay or sweep charges or returns a hold a second time.
ImplementsSettlement == Ledger!Spec

=============================================================================
