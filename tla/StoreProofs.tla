---------------------------- MODULE StoreProofs -----------------------------
(*****************************************************************************)
(* Proofs about Store, for every set of campaigns, keys, events, requests    *)
(* and receipts, every budget and every length of the time windows: its rows *)
(* and balances, its verdicts and its outbox.                                *)
(*****************************************************************************)
EXTENDS Store, TLAPS

\* The types of all rows, with counters that could still be negative: that
\* they are not follows from the balances.
RowsOK ==
  /\ reserved \in [Campaign -> Int]
  /\ spent \in [Campaign -> Int]
  /\ reservations \in [Key -> Reservation \cup {NoReservation}]
  /\ deliveries \in [Event -> Delivery \cup {NoDelivery}]
  /\ outbox \in [Event -> OutboxRow \cup {NoOutbox}]
  /\ jobs \in Seq(Job)
  /\ audit \in [Key \cup Event -> [AuditKind -> Nat]]

\* The outbox's foreign key, and Accept's two inserts in one transaction: a
\* delivery and its dispatch intent exist together.
Paired ==
  \A e \in Event : deliveries[e].status = "none" <=> outbox[e].state = "none"

\* Every audit write adds a row under a known resource and kind.
LEMMA AuditedType ==
  ASSUME audit \in [Key \cup Event -> [AuditKind -> Nat]],
         NEW x \in Key \cup Event, NEW kind \in AuditKind, Audited(x, kind)
  PROVE  audit' \in [Key \cup Event -> [AuditKind -> Nat]]
  <1> DEFINE S == Key \cup Event
             T == [AuditKind -> Nat]
  <1>1. audit \in [S -> T] /\ x \in S
    OBVIOUS
  <1>2. audit' = [audit EXCEPT ![x] = [audit[x] EXCEPT ![kind] = audit[x][kind] + 1]]
    BY DEF Audited
  <1>3. [audit[x] EXCEPT ![kind] = audit[x][kind] + 1] \in T
    OBVIOUS
  <1> HIDE DEF S, T
  <1>4. audit' \in [S -> T]
    BY <1>1, <1>2, <1>3
  <1>5. QED
    BY <1>4 DEF S, T

\* A row of the reservations table that exists has all its columns.
LEMMA ReservationRow ==
  ASSUME RowsOK, NEW k \in Key, reservations[k].state # "none"
  PROVE  /\ reservations[k] \in Reservation
         /\ reservations[k].campaign \in Campaign
         /\ reservations[k].cost \in 1..MaxCost
         /\ reservations[k].age \in 0..Horizon
  BY DEF RowsOK, NoReservation, Reservation

\* A row of the deliveries table that exists has all its columns.
LEMMA DeliveryRow ==
  ASSUME RowsOK, NEW e \in Event, deliveries[e].status # "none"
  PROVE  /\ deliveries[e] \in Delivery
         /\ deliveries[e].receipt \in Receipt
         /\ deliveries[e].status \in {"accepted"} \cup Decided
  BY DEF RowsOK, NoDelivery, Delivery

\* A row of the outbox table that exists has all its columns.
LEMMA OutboxRowFields ==
  ASSUME RowsOK, NEW e \in Event, outbox[e].state # "none"
  PROVE  outbox[e] \in OutboxRow
  BY DEF RowsOK, NoOutbox, OutboxRow

\* A job returned by Claim names a delivery and carries an attempt count.
LEMMA JobRow ==
  ASSUME RowsOK, NEW j \in DOMAIN jobs
  PROVE  jobs[j].event \in Event /\ jobs[j].attempts \in Nat
  <1>1. j \in 1..Len(jobs) /\ jobs \in Seq(Job)
    BY DEF RowsOK
  <1>2. jobs[j] \in Job
    BY <1>1
  <1>3. QED
    BY <1>2 DEF Job

\* Every transaction and every unit of time keeps the rows well formed.
LEMMA RowsStep == RowsOK /\ Paired /\ [Next]_vars => RowsOK'
  <1> SUFFICES ASSUME RowsOK, Paired, [Next]_vars PROVE RowsOK'
    OBVIOUS
  <1>1. ASSUME NEW k \in Key, NEW in \in Requests, Reserve(k, in)
        PROVE  RowsOK'
    <2>1. in \in ReservationInput
      BY StoreAssumption
    <2>2. [state |-> "held", campaign |-> in.campaign, screen |-> in.screen,
           cost |-> in.cost, age |-> 0] \in Reservation
      BY <2>1, StoreAssumption DEF ReservationInput, Reservation, Horizon
    <2>3. reservations' \in [Key -> Reservation \cup {NoReservation}]
      BY <1>1, <2>2 DEF Reserve, RowsOK
    <2>4. reserved' \in [Campaign -> Int]
      BY <1>1, <2>1 DEF Reserve, RowsOK, ReservationInput
    <2>5. audit' \in [Key \cup Event -> [AuditKind -> Nat]]
      BY <1>1, AuditedType, Zenon DEF Reserve, RowsOK, AuditKind
    <2>6. QED
      BY <1>1, <2>3, <2>4, <2>5 DEF Reserve, RowsOK
  <1>2. ASSUME NEW e \in Event, NEW p \in Receipts, Accept(e, p)
        PROVE  RowsOK'
    <2>1. [status |-> "accepted", receipt |-> p] \in Delivery
      BY StoreAssumption DEF Delivery
    <2>2. deliveries' \in [Event -> Delivery \cup {NoDelivery}]
      BY <1>2, <2>1 DEF Accept, RowsOK
    <2>3. [state |-> "pending", owner |-> 0, lease |-> 0, wait |-> 0,
           attempts |-> 0] \in OutboxRow
      BY DEF OutboxRow, OutboxState
    <2>4. outbox' \in [Event -> OutboxRow \cup {NoOutbox}]
      BY <1>2, <2>3 DEF Accept, RowsOK
    <2>5. audit' \in [Key \cup Event -> [AuditKind -> Nat]]
      BY <1>2, AuditedType, Zenon DEF Accept, RowsOK, AuditKind
    <2>6. QED
      BY <1>2, <2>2, <2>4, <2>5 DEF Accept, RowsOK, ledgerVars
  <1>3. ASSUME NEW e \in Event, Process(e)
        PROVE  RowsOK'
    <2> DEFINE p == deliveries[e].receipt
               r == reservations[p.reservation]
    <2>1. deliveries[e] \in Delivery /\ p \in Receipt
      BY <1>3, DeliveryRow DEF Process
    <2>2. ASSUME NEW status \in {"settled", "duplicate", "quarantined"},
                 Decide(e, status)
          PROVE  /\ deliveries' \in [Event -> Delivery \cup {NoDelivery}]
                 /\ audit' \in [Key \cup Event -> [AuditKind -> Nat]]
      <3>1. [deliveries[e] EXCEPT !.status = status] \in Delivery
        BY <2>1 DEF Delivery, Decided
      <3>2. deliveries' \in [Event -> Delivery \cup {NoDelivery}]
        BY <2>2, <3>1 DEF Decide, RowsOK
      <3>3. status \in AuditKind
        BY DEF AuditKind
      <3>4. audit' \in [Key \cup Event -> [AuditKind -> Nat]]
        BY <2>2, <3>3, AuditedType, Zenon DEF Decide, RowsOK
      <3>5. QED
        BY <3>2, <3>4
    <2>3. CASE Settle(e)
      <3>1. p.reservation \in Key
        BY <2>1, <2>3 DEF Settle, Matches, Receipt
      <3>2. r \in Reservation /\ r.campaign \in Campaign /\ r.cost \in Int
        BY <2>3, <3>1, ReservationRow DEF Settle
      <3>3. [r EXCEPT !.state = "settled"] \in Reservation
        BY <3>2 DEF Reservation
      <3>4. reservations' \in [Key -> Reservation \cup {NoReservation}]
        BY <2>3, <3>1, <3>3 DEF Settle, RowsOK
      <3>5. reserved' \in [Campaign -> Int] /\ spent' \in [Campaign -> Int]
        <4>1. /\ reserved' = [reserved EXCEPT ![r.campaign] = @ - r.cost]
              /\ spent' = [spent EXCEPT ![r.campaign] = @ + r.cost]
          BY <2>3 DEF Settle
        <4>2. QED
          BY <3>2, <4>1 DEF RowsOK
      <3>6. QED
        BY <1>3, <2>2, <2>3, <3>4, <3>5, Zenon DEF Process, Settle, RowsOK
    <2>4. CASE MarkDuplicate(e)
      BY <1>3, <2>2, <2>4 DEF Process, MarkDuplicate, RowsOK, ledgerVars
    <2>5. CASE Quarantine(e)
      BY <1>3, <2>2, <2>5 DEF Process, Quarantine, RowsOK, ledgerVars
    <2>6. QED
      BY <1>3, <2>3, <2>4, <2>5 DEF Process
  <1>4. ASSUME NEW k \in Key, Release(k)
        PROVE  RowsOK'
    <2> DEFINE r == reservations[k]
    <2>1. r \in Reservation /\ r.campaign \in Campaign /\ r.cost \in Int
      BY <1>4, ReservationRow DEF Release
    <2>2. [r EXCEPT !.state = "released"] \in Reservation
      BY <2>1 DEF Reservation
    <2>3. reservations' \in [Key -> Reservation \cup {NoReservation}]
      BY <1>4, <2>2 DEF Release, RowsOK
    <2>4. reserved' \in [Campaign -> Int]
      BY <1>4, <2>1 DEF Release, RowsOK
    <2>5. audit' \in [Key \cup Event -> [AuditKind -> Nat]]
      BY <1>4, AuditedType, Zenon DEF Release, RowsOK, AuditKind
    <2>6. QED
      BY <1>4, <2>3, <2>4, <2>5 DEF Release, RowsOK
  <1>5. ASSUME NEW e \in Event, Claim(e)
        PROVE  RowsOK'
    <2> DEFINE o == outbox[e]
    <2>1. o \in OutboxRow
      BY <1>5, OutboxRowFields DEF Claim
    <2>2. Len(jobs) + 1 \in Nat /\ o.attempts + 1 \in Nat /\ Lease \in Nat
      BY <2>1, StoreAssumption DEF OutboxRow, RowsOK
    <2>3. [o EXCEPT !.state = "leased", !.owner = Len(jobs) + 1,
                    !.lease = Lease, !.attempts = @ + 1] \in OutboxRow
      <3> DEFINE n == Len(jobs) + 1
                 a == o.attempts + 1
      <3>1. n \in Nat /\ a \in Nat
        BY <2>2
      <3> HIDE DEF n, a
      <3>2. [o EXCEPT !.state = "leased", !.owner = n, !.lease = Lease,
                      !.attempts = a] \in OutboxRow
        BY <2>1, <2>2, <3>1, Zenon DEF OutboxRow, OutboxState
      <3>3. QED
        BY <3>2 DEF n, a
    <2>4. outbox' \in [Event -> OutboxRow \cup {NoOutbox}]
      BY <1>5, <2>3 DEF Claim, RowsOK
    <2>5. jobs' \in Seq(Job)
      <3>1. [event |-> e, attempts |-> o.attempts + 1] \in Job
        BY <2>2 DEF Job
      <3>2. QED
        BY <1>5, <3>1 DEF Claim, RowsOK
    <2>6. QED
      BY <1>5, <2>4, <2>5 DEF Claim, RowsOK, ledgerVars
  <1>6. ASSUME NEW j \in DOMAIN jobs, Dispatched(j)
        PROVE  RowsOK'
    <2> DEFINE e == jobs[j].event
    <2>1. e \in Event
      BY JobRow
    <2>2. outbox[e] \in OutboxRow
      BY <1>6, <2>1, OutboxRowFields DEF Dispatched, Owns
    <2>3. [outbox[e] EXCEPT !.state = "dispatched", !.owner = 0, !.lease = 0]
            \in OutboxRow
      BY <2>2, Zenon DEF OutboxRow, OutboxState
    <2>4. outbox' \in [Event -> OutboxRow \cup {NoOutbox}]
      BY <1>6, <2>1, <2>3 DEF Dispatched, RowsOK
    <2>5. QED
      BY <1>6, <2>4 DEF Dispatched, RowsOK, ledgerVars
  <1>7. ASSUME NEW e \in Event, Complete(e)
        PROVE  RowsOK'
    <2>1. outbox[e] \in OutboxRow
      BY <1>7, OutboxRowFields DEF Complete, Decided, Paired
    <2>2. [outbox[e] EXCEPT !.state = "done", !.owner = 0, !.lease = 0]
            \in OutboxRow
      BY <2>1, Zenon DEF OutboxRow, OutboxState
    <2>3. outbox' \in [Event -> OutboxRow \cup {NoOutbox}]
      BY <1>7, <2>2 DEF Complete, RowsOK
    <2>4. QED
      BY <1>7, <2>3 DEF Complete, RowsOK, ledgerVars
  <1>8. ASSUME NEW j \in DOMAIN jobs, NEW d \in Delays, FailJob(j, d)
        PROVE  RowsOK'
    <2> DEFINE e == jobs[j].event
               state == IF jobs[j].attempts >= MaxAttempts THEN "dead" ELSE "pending"
    <2>1. e \in Event
      BY JobRow
    <2>2. outbox[e] \in OutboxRow
      BY <1>8, <2>1, OutboxRowFields DEF FailJob, Owns
    <2>3. [outbox[e] EXCEPT !.state = state, !.owner = 0, !.lease = 0,
                            !.wait = d] \in OutboxRow
      BY <2>2, StoreAssumption, Zenon DEF OutboxRow, OutboxState
    <2>4. outbox' \in [Event -> OutboxRow \cup {NoOutbox}]
      BY <1>8, <2>1, <2>3 DEF FailJob, RowsOK
    <2>5. deliveries' \in [Event -> Delivery \cup {NoDelivery}]
      <3>1. CASE deliveries[e].status = "accepted"
        <4>1. [deliveries[e] EXCEPT !.status = "failed"] \in Delivery
          BY <2>1, <3>1, DeliveryRow DEF Delivery, Decided
        <4>2. QED
          BY <1>8, <2>1, <4>1 DEF FailJob, RowsOK
      <3>2. CASE deliveries[e].status # "accepted"
        BY <1>8, <3>2 DEF FailJob, RowsOK
      <3>3. QED
        BY <3>1, <3>2, Zenon
    <2>6. audit' \in [Key \cup Event -> [AuditKind -> Nat]]
      BY <1>8, <2>1, AuditedType, Zenon DEF FailJob, RowsOK, AuditKind
    <2>7. QED
      BY <1>8, <2>4, <2>5, <2>6 DEF FailJob, RowsOK, ledgerVars
  <1>9. ASSUME NEW e \in Event, Replay(e)
        PROVE  RowsOK'
    <2>1. [deliveries[e] EXCEPT !.status = "accepted"] \in Delivery
      BY <1>9, DeliveryRow DEF Replay, Delivery
    <2>2. deliveries' \in [Event -> Delivery \cup {NoDelivery}]
      BY <1>9, <2>1 DEF Replay, RowsOK
    <2>3. [state |-> "pending", owner |-> 0, lease |-> 0, wait |-> 0,
           attempts |-> 0] \in OutboxRow
      BY DEF OutboxRow, OutboxState
    <2>4. outbox' \in [Event -> OutboxRow \cup {NoOutbox}]
      BY <1>9, <2>3 DEF Replay, RowsOK
    <2>5. audit' \in [Key \cup Event -> [AuditKind -> Nat]]
      BY <1>9, AuditedType, Zenon DEF Replay, RowsOK, AuditKind
    <2>6. QED
      BY <1>9, <2>2, <2>4, <2>5 DEF Replay, RowsOK, ledgerVars
  <1>10. CASE Tick
    <2>1. ASSUME NEW k \in Key
          PROVE  Aged(reservations[k]) \in Reservation \cup {NoReservation}
      <3>1. CASE reservations[k].state = "none"
        BY <3>1 DEF Aged, RowsOK
      <3>2. CASE reservations[k].state # "none"
        BY <3>2, ReservationRow, StoreAssumption DEF Aged, Reservation, Horizon
      <3>3. QED
        BY <3>1, <3>2, Zenon
    <2>2. ASSUME NEW e \in Event
          PROVE  Elapsed(outbox[e]) \in OutboxRow \cup {NoOutbox}
      <3>1. CASE outbox[e].state = "none"
        BY <3>1 DEF Elapsed, RowsOK
      <3>2. CASE outbox[e].state # "none"
        <4> DEFINE lease == Earlier(outbox[e].lease)
                   wait == Earlier(outbox[e].wait)
        <4>1. outbox[e] \in OutboxRow
          BY <3>2, OutboxRowFields
        <4>2. lease \in Nat /\ wait \in Nat
          BY <4>1 DEF Earlier, OutboxRow
        <4>3. Elapsed(outbox[e]) = [outbox[e] EXCEPT !.lease = lease, !.wait = wait]
          BY <3>2 DEF Elapsed
        <4> HIDE DEF lease, wait
        <4>4. QED
          BY <4>1, <4>2, <4>3, Zenon DEF OutboxRow
      <3>3. QED
        BY <3>1, <3>2, Zenon
    <2>3. QED
      BY <1>10, <2>1, <2>2 DEF Tick, RowsOK
  <1>11. CASE UNCHANGED vars
    BY <1>11 DEF vars, RowsOK
  <1>12. QED
    BY <1>1, <1>2, <1>3, <1>4, <1>5, <1>6, <1>7, <1>8, <1>9, <1>10, <1>11
       DEF Next

\* Accept is the only step that creates either row, and it creates both.
LEMMA PairedStep == RowsOK /\ Paired /\ [Next]_vars => Paired'
  <1> SUFFICES ASSUME RowsOK, Paired, [Next]_vars, NEW f \in Event
               PROVE  deliveries'[f].status = "none" <=> outbox'[f].state = "none"
    BY DEF Paired
  <1>0. /\ deliveries[f].status = "none" <=> outbox[f].state = "none"
        /\ deliveries[f].status # "none" => deliveries[f] \in Delivery
        /\ outbox[f].state # "none" => outbox[f] \in OutboxRow
        /\ deliveries \in [Event -> Delivery \cup {NoDelivery}]
        /\ outbox \in [Event -> OutboxRow \cup {NoOutbox}]
    BY DeliveryRow, OutboxRowFields DEF Paired, RowsOK
  <1>1. ASSUME NEW k \in Key, NEW in \in Requests, Reserve(k, in)
        PROVE  UNCHANGED <<deliveries, outbox>>
    BY <1>1 DEF Reserve
  <1>2. ASSUME NEW e \in Event, NEW p \in Receipts, Accept(e, p)
        PROVE  deliveries'[f].status = "none" <=> outbox'[f].state = "none"
    BY <1>0, <1>2 DEF Accept
  <1>3. ASSUME NEW e \in Event, Process(e)
        PROVE  deliveries'[f].status = "none" <=> outbox'[f].state = "none"
    <2>1. PICK status \in {"settled", "duplicate", "quarantined"} :
            deliveries' = [deliveries EXCEPT ![e].status = status]
      BY <1>3, Zenon DEF Process, Settle, MarkDuplicate, Quarantine, Decide
    <2>2. deliveries[e].status = "accepted" /\ outbox' = outbox
      BY <1>3 DEF Process
    <2>3. QED
      BY <1>0, <2>1, <2>2
  <1>4. ASSUME NEW k \in Key, Release(k)
        PROVE  UNCHANGED <<deliveries, outbox>>
    BY <1>4 DEF Release
  <1>5. ASSUME NEW e \in Event, Claim(e)
        PROVE  deliveries'[f].status = "none" <=> outbox'[f].state = "none"
    BY <1>0, <1>5 DEF Claim, OutboxRow
  <1>6. ASSUME NEW j \in DOMAIN jobs, Dispatched(j)
        PROVE  deliveries'[f].status = "none" <=> outbox'[f].state = "none"
    BY <1>0, <1>6, JobRow DEF Dispatched, Owns, OutboxRow
  <1>7. ASSUME NEW e \in Event, Complete(e)
        PROVE  deliveries'[f].status = "none" <=> outbox'[f].state = "none"
    BY <1>0, <1>7 DEF Complete, OutboxRow, Decided
  <1>8. ASSUME NEW j \in DOMAIN jobs, NEW d \in Delays, FailJob(j, d)
        PROVE  deliveries'[f].status = "none" <=> outbox'[f].state = "none"
    <2> DEFINE e == jobs[j].event
    <2>1. e \in Event
      BY JobRow
    <2>2. outbox'[f].state = "none" <=> outbox[f].state = "none"
      BY <1>0, <1>8, <2>1 DEF FailJob, Owns, OutboxRow
    <2>3. deliveries'[f].status = "none" <=> deliveries[f].status = "none"
      BY <1>0, <1>8, <2>1 DEF FailJob, Delivery
    <2>4. QED
      BY <1>0, <2>2, <2>3
  <1>9. ASSUME NEW e \in Event, Replay(e)
        PROVE  deliveries'[f].status = "none" <=> outbox'[f].state = "none"
    BY <1>0, <1>9 DEF Replay, Delivery
  <1>10. CASE Tick
    BY <1>0, <1>10, Zenon DEF Tick, Elapsed, OutboxRow
  <1>11. CASE UNCHANGED vars
    BY <1>0, <1>11 DEF vars
  <1>12. QED
    BY <1>0, <1>1, <1>2, <1>3, <1>4, <1>5, <1>6, <1>7, <1>8, <1>9, <1>10, <1>11
       DEF Next

\* The seeded database is well formed.
LEMMA InitialRows == Init => RowsOK /\ Paired
  BY DEF Init, RowsOK, Paired, NoReservation, NoDelivery, NoOutbox

\* In every reachable state the rows are well formed, and deliveries and outbox
\* rows exist in pairs: the base of all later proofs.
THEOREM RowsAlways == Spec => [](RowsOK /\ Paired)
  BY InitialRows, RowsStep, PairedStep, PTL DEF Spec

-----------------------------------------------------------------------------
(* Sums of money as sizes of sets of units *)

UnitsOf(R, c, state) ==
  {u \in Key \X (1..MaxCost) : /\ R[u[1]].state = state
                               /\ R[u[1]].campaign = c
                               /\ u[2] <= R[u[1]].cost}

\* Row r counts towards the sum of campaign c's reservations in one state.
Counts(r, c, state) == r.state = state /\ r.campaign = c

\* What the proofs about money use of the size of finite sets.
Counting ==
  /\ Cardinality({}) = 0
  /\ \A S, T : IsFiniteSet(S) /\ IsFiniteSet(T) /\ S \cap T = {} =>
       Cardinality(S \cup T) = Cardinality(S) + Cardinality(T)
  /\ \A k : \A n \in Nat : IsFiniteSet({k} \X (1..n)) /\ Cardinality({k} \X (1..n)) = n
  /\ \A R, c, state : /\ IsFiniteSet(UnitsOf(R, c, state))
                      /\ Cardinality(UnitsOf(R, c, state)) \in Nat

\* The units of a campaign in one state can be counted.
LEMMA UnitsFinite ==
  ASSUME Counting, NEW R, NEW c, NEW state
  PROVE  /\ IsFiniteSet(UnitsOf(R, c, state))
         /\ Cardinality(UnitsOf(R, c, state)) \in Nat
  BY Zenon DEF Counting

\* Rows that count alike add up alike.
LEMMA UnitsSame ==
  ASSUME NEW R, NEW Q, NEW c, NEW state,
         \A k \in Key : /\ Counts(R[k], c, state) <=> Counts(Q[k], c, state)
                        /\ Counts(R[k], c, state) => R[k].cost = Q[k].cost
  PROVE  UnitsOf(Q, c, state) = UnitsOf(R, c, state)
  BY DEF UnitsOf, Counts

\* A row that starts to count adds exactly its cost.
LEMMA UnitsGain ==
  ASSUME Counting, NEW R, NEW Q, NEW c, NEW state, NEW k \in Key,
         \A i \in Key \ {k} :
            /\ Counts(R[i], c, state) <=> Counts(Q[i], c, state)
            /\ Counts(R[i], c, state) => R[i].cost = Q[i].cost,
         ~Counts(R[k], c, state), Counts(Q[k], c, state),
         Q[k].cost \in 1..MaxCost
  PROVE  Cardinality(UnitsOf(Q, c, state))
           = Cardinality(UnitsOf(R, c, state)) + Q[k].cost
  <1> DEFINE block == {k} \X (1..Q[k].cost)
  <1>1. UnitsOf(Q, c, state) = UnitsOf(R, c, state) \cup block
    <2>1. ASSUME NEW i \in Key, NEW m \in 1..MaxCost
          PROVE  <<i, m>> \in UnitsOf(Q, c, state)
                   <=> <<i, m>> \in UnitsOf(R, c, state) \cup block
      BY StoreAssumption DEF UnitsOf, Counts
    <2>2. block \subseteq Key \X (1..MaxCost)
      BY StoreAssumption
    <2>3. QED
      BY <2>1, <2>2 DEF UnitsOf
  <1>2. UnitsOf(R, c, state) \cap block = {}
    BY DEF UnitsOf, Counts
  <1>3. Q[k].cost \in Nat
    BY StoreAssumption
  <1>4. IsFiniteSet(block) /\ Cardinality(block) = Q[k].cost
    BY <1>3, Zenon DEF Counting
  <1> HIDE DEF block
  <1> DEFINE U == UnitsOf(R, c, state)
  <1>5. IsFiniteSet(U) /\ Cardinality(U) \in Nat
    BY UnitsFinite
  <1>6. U \cap block = {}
    BY <1>2
  <1> HIDE DEF U
  <1>7. Cardinality(U \cup block) = Cardinality(U) + Cardinality(block)
    BY <1>4, <1>5, <1>6, Zenon DEF Counting
  <1>8. QED
    BY <1>1, <1>4, <1>7 DEF U

\* Settling or releasing a hold takes its cost out of the held sum of its
\* campaign, adds it to the sum of its new state, and touches no other sum.
LEMMA HoldResolved ==
  ASSUME Counting, RowsOK, NEW k \in Key, reservations[k].state = "held",
         NEW t \in {"settled", "released"}, NEW c \in Campaign,
         reservations' = [reservations EXCEPT ![k].state = t]
  PROVE  LET R == reservations
             Q == reservations'
             amount == IF R[k].campaign = c THEN R[k].cost ELSE 0
         IN  /\ Cardinality(UnitsOf(Q, c, "held"))
                  = Cardinality(UnitsOf(R, c, "held")) - amount
             /\ Cardinality(UnitsOf(Q, c, t))
                  = Cardinality(UnitsOf(R, c, t)) + amount
             /\ t # "settled" => UnitsOf(Q, c, "settled") = UnitsOf(R, c, "settled")
  <1> DEFINE R == reservations
             Q == reservations'
  <1>1. /\ R[k] \in Reservation /\ R[k].cost \in 1..MaxCost
        /\ R \in [Key -> Reservation \cup {NoReservation}]
    BY ReservationRow DEF RowsOK
  <1>2. /\ \A i \in Key \ {k} : Q[i] = R[i]
        /\ Q[k].state = t /\ Q[k].campaign = R[k].campaign /\ Q[k].cost = R[k].cost
    BY <1>1 DEF Reservation
  <1>3. R[k].state = "held" /\ t # "held"
    OBVIOUS
  <1>4. /\ Cardinality(UnitsOf(R, c, "held")) \in Nat
        /\ Cardinality(UnitsOf(Q, c, "held")) \in Nat
        /\ Cardinality(UnitsOf(R, c, t)) \in Nat
        /\ R[k].cost \in Nat
    BY <1>1, UnitsFinite, StoreAssumption
  <1> HIDE DEF R, Q
  <1>5. t # "settled" => UnitsOf(Q, c, "settled") = UnitsOf(R, c, "settled")
    <2>1. ASSUME t # "settled"
          PROVE  \A i \in Key :
                   /\ Counts(R[i], c, "settled") <=> Counts(Q[i], c, "settled")
                   /\ Counts(R[i], c, "settled") => R[i].cost = Q[i].cost
      BY <1>2, <1>3, <2>1 DEF Counts
    <2>2. QED
      BY <2>1, UnitsSame
  <1>6. CASE R[k].campaign = c
    <2>1. Cardinality(UnitsOf(R, c, "held"))
            = Cardinality(UnitsOf(Q, c, "held")) + R[k].cost
      BY <1>1, <1>2, <1>3, <1>6, UnitsGain DEF Counts
    <2>2. Cardinality(UnitsOf(Q, c, t)) = Cardinality(UnitsOf(R, c, t)) + Q[k].cost
      BY <1>1, <1>2, <1>3, <1>6, UnitsGain DEF Counts
    <2>3. QED
      BY <1>2, <1>4, <1>5, <1>6, <2>1, <2>2 DEF R, Q
  <1>7. CASE R[k].campaign # c
    <2>1. ASSUME NEW st
          PROVE  \A i \in Key : /\ Counts(R[i], c, st) <=> Counts(Q[i], c, st)
                                /\ Counts(R[i], c, st) => R[i].cost = Q[i].cost
      BY <1>2, <1>7 DEF Counts
    <2>2. /\ UnitsOf(Q, c, "held") = UnitsOf(R, c, "held")
          /\ UnitsOf(Q, c, t) = UnitsOf(R, c, t)
      BY <2>1, UnitsSame
    <2>3. QED
      BY <1>4, <1>5, <1>7, <2>2 DEF R, Q
  <1>8. QED
    BY <1>6, <1>7, Zenon

\* The balances are the sums over the reservations, and the cap holds.
BalancesOf(c) ==
  /\ reserved[c] = Cardinality(UnitsOf(reservations, c, "held"))
  /\ spent[c] = Cardinality(UnitsOf(reservations, c, "settled"))
  /\ reserved[c] + spent[c] <= Budget[c]

\* budget_consistent is the conjunction of the balances of the campaigns.
LEMMA BudgetAsUnits == BudgetConsistent <=> \A c \in Campaign : BalancesOf(c)
  BY Zenon DEF BudgetConsistent, BalancesMatch, BudgetCap, BalancesOf, Units, UnitsOf

\* No step breaks the balances of any campaign or its cap.
LEMMA BudgetStep ==
  ASSUME Counting, RowsOK, \A d \in Campaign : BalancesOf(d), [Next]_vars, NEW c \in Campaign
  PROVE  BalancesOf(c)'
  <1> DEFINE R == reservations
             Q == reservations'
  <1>0. /\ BalancesOf(c)
        /\ reserved \in [Campaign -> Int] /\ spent \in [Campaign -> Int]
        /\ R \in [Key -> Reservation \cup {NoReservation}]
        /\ Budget[c] \in Nat
        /\ reserved[c] \in Nat /\ spent[c] \in Nat
    BY StoreAssumption, UnitsFinite DEF RowsOK, BalancesOf
  <1>1. ASSUME NEW k \in Key, NEW in \in Requests, Reserve(k, in)
        PROVE  BalancesOf(c)'
    <2>1. in.campaign \in Campaign /\ in.cost \in 1..MaxCost /\ in.cost \in Nat
      BY StoreAssumption DEF ReservationInput
    <2>2. /\ \A i \in Key \ {k} : Q[i] = R[i]
          /\ Q[k].state = "held" /\ Q[k].campaign = in.campaign
          /\ Q[k].cost = in.cost /\ R[k].state = "none"
      BY <1>0, <1>1 DEF Reserve
    <2>3. UnitsOf(Q, c, "settled") = UnitsOf(R, c, "settled")
      <3>1. \A i \in Key : /\ Counts(R[i], c, "settled") <=> Counts(Q[i], c, "settled")
                           /\ Counts(R[i], c, "settled") => R[i].cost = Q[i].cost
        BY <2>2 DEF Counts
      <3> HIDE DEF R, Q
      <3>2. QED
        BY <3>1, UnitsSame
    <2>4. CASE in.campaign = c
      <3>1. Cardinality(UnitsOf(Q, c, "held"))
              = Cardinality(UnitsOf(R, c, "held")) + in.cost
        <4> HIDE DEF R, Q
        <4>1. QED
          BY <2>1, <2>2, <2>4, UnitsGain DEF Counts
      <3>2. /\ reserved'[c] = reserved[c] + in.cost /\ spent' = spent
            /\ Budget[c] - spent[c] - reserved[c] >= in.cost
        BY <1>0, <1>1, <2>4 DEF Reserve
      <3>3. QED
        BY <1>0, <2>1, <2>3, <3>1, <3>2 DEF BalancesOf
    <2>5. CASE in.campaign # c
      <3>1. \A i \in Key : /\ Counts(R[i], c, "held") <=> Counts(Q[i], c, "held")
                           /\ Counts(R[i], c, "held") => R[i].cost = Q[i].cost
        BY <2>2, <2>5 DEF Counts
      <3>2. UnitsOf(Q, c, "held") = UnitsOf(R, c, "held")
        <4> HIDE DEF R, Q
        <4>1. QED
          BY <3>1, UnitsSame
      <3>3. reserved'[c] = reserved[c] /\ spent' = spent
        BY <1>0, <1>1, <2>1, <2>5 DEF Reserve
      <3>4. QED
        BY <1>0, <2>3, <3>2, <3>3 DEF BalancesOf
    <2>6. QED
      BY <2>4, <2>5, Zenon
  <1>2. ASSUME NEW e \in Event, Process(e)
        PROVE  BalancesOf(c)'
    <2> DEFINE p == deliveries[e].receipt
               k == p.reservation
    <2>1. CASE Settle(e)
      <3>1. k \in Key
        BY <1>2, <2>1, DeliveryRow, ZenonT(30) DEF Process, Settle, Matches, Receipt
      <3>2. /\ R[k].state = "held"
            /\ Q = [R EXCEPT ![k].state = "settled"]
            /\ reserved' = [reserved EXCEPT ![R[k].campaign] = @ - R[k].cost]
            /\ spent' = [spent EXCEPT ![R[k].campaign] = @ + R[k].cost]
        BY <2>1 DEF Settle
      <3>3. R[k].campaign \in Campaign /\ R[k].cost \in Nat
        BY <3>1, <3>2, ReservationRow, StoreAssumption
      <3> DEFINE amount == IF R[k].campaign = c THEN R[k].cost ELSE 0
      <3>4. /\ Cardinality(UnitsOf(Q, c, "held"))
                 = Cardinality(UnitsOf(R, c, "held")) - amount
            /\ Cardinality(UnitsOf(Q, c, "settled"))
                 = Cardinality(UnitsOf(R, c, "settled")) + amount
        BY <3>1, <3>2, HoldResolved, Zenon
      <3>5. reserved'[c] = reserved[c] - amount /\ spent'[c] = spent[c] + amount
        <4> HIDE DEF k, p
        <4>1. CASE R[k].campaign = c
          BY <1>0, <3>2, <3>3, <4>1
        <4>2. CASE R[k].campaign # c
          BY <1>0, <3>2, <3>3, <4>2
        <4>3. QED
          BY <4>1, <4>2, Zenon
      <3>6. amount \in Nat
        BY <3>3
      <3> HIDE DEF amount, k, p
      <3>7. QED
        BY <1>0, <3>4, <3>5, <3>6, SMTT(30) DEF BalancesOf
    <2>2. CASE MarkDuplicate(e)
      BY <1>0, <2>2 DEF MarkDuplicate, ledgerVars, BalancesOf
    <2>3. CASE Quarantine(e)
      BY <1>0, <2>3 DEF Quarantine, ledgerVars, BalancesOf
    <2>4. QED
      BY <1>2, <2>1, <2>2, <2>3 DEF Process
  <1>3. ASSUME NEW k \in Key, Release(k)
        PROVE  BalancesOf(c)'
    <2>1. /\ R[k].state = "held"
          /\ Q = [R EXCEPT ![k].state = "released"]
          /\ reserved' = [reserved EXCEPT ![R[k].campaign] = @ - R[k].cost]
          /\ spent' = spent
      BY <1>3 DEF Release
    <2>2. R[k].campaign \in Campaign /\ R[k].cost \in Nat
      BY <2>1, ReservationRow, StoreAssumption
    <2> DEFINE amount == IF R[k].campaign = c THEN R[k].cost ELSE 0
    <2>3. /\ Cardinality(UnitsOf(Q, c, "held"))
               = Cardinality(UnitsOf(R, c, "held")) - amount
          /\ UnitsOf(Q, c, "settled") = UnitsOf(R, c, "settled")
      BY <2>1, HoldResolved, Zenon
    <2>4. reserved'[c] = reserved[c] - amount /\ amount \in Nat
      BY <1>0, <2>1, <2>2
    <2> HIDE DEF amount
    <2>5. QED
      BY <1>0, <2>1, <2>3, <2>4 DEF BalancesOf
  <1>4. CASE Tick
    <2>1. \A i \in Key : /\ Q[i].state = R[i].state
                         /\ R[i].state # "none" =>
                              Q[i].campaign = R[i].campaign /\ Q[i].cost = R[i].cost
      BY <1>0, <1>4, ReservationRow DEF Tick, Aged, Reservation, NoReservation
    <2>2. ASSUME NEW st \in {"held", "settled"}
          PROVE  UnitsOf(Q, c, st) = UnitsOf(R, c, st)
      <3>1. \A i \in Key : /\ Counts(R[i], c, st) <=> Counts(Q[i], c, st)
                           /\ Counts(R[i], c, st) => R[i].cost = Q[i].cost
        BY <2>1 DEF Counts
      <3> HIDE DEF R, Q
      <3>2. QED
        BY <3>1, UnitsSame
    <2>3. QED
      BY <1>0, <1>4, <2>2 DEF Tick, BalancesOf
  <1>5. ASSUME UNCHANGED ledgerVars
        PROVE  BalancesOf(c)'
    BY <1>0, <1>5 DEF ledgerVars, BalancesOf
  <1>6. QED
    BY <1>1, <1>2, <1>3, <1>4, <1>5, Zenon
       DEF Next, vars, ledgerVars, Accept, Claim, Complete, Replay, Dispatched, FailJob

\* The seeded balances are all zero.
LEMMA InitialBalances ==
  ASSUME Counting, Init, NEW c \in Campaign
  PROVE  BalancesOf(c)
  <1>1. UnitsOf(reservations, c, "held") = {} /\ UnitsOf(reservations, c, "settled") = {}
    BY DEF Init, UnitsOf, NoReservation
  <1>2. Cardinality({}) = 0
    BY DEF Counting
  <1>3. reserved[c] = 0 /\ spent[c] = 0 /\ Budget[c] \in Nat
    BY StoreAssumption DEF Init
  <1>4. QED
    BY <1>1, <1>2, <1>3 DEF BalancesOf

-----------------------------------------------------------------------------
(* The store implements Settlement *)

Book == [k \in Key |-> Hold(reservations[k])]

\* What the abstract ledger has committed for a campaign is what the two
\* counters say.
LEMMA CommittedIsCounted ==
  ASSUME Counting, RowsOK, NEW c \in Campaign, BalancesOf(c)
  PROVE  Cardinality(Ledger!Committed(c)) = reserved[c] + spent[c]
  <1> DEFINE H == UnitsOf(reservations, c, "held")
             S == UnitsOf(reservations, c, "settled")
  <1>1. Ledger!Committed(c) = H \cup S
    <2>1. \A k \in Key :
            /\ Hold(reservations[k]).state = reservations[k].state
            /\ reservations[k].state # "none" =>
                 /\ Hold(reservations[k]).campaign = reservations[k].campaign
                 /\ Hold(reservations[k]).cost = reservations[k].cost
      BY DEF Hold
    <2>2. QED
      BY <2>1 DEF Ledger!Committed, UnitsOf
  <1>2. H \cap S = {}
    BY DEF UnitsOf
  <1>3. /\ IsFiniteSet(H) /\ Cardinality(H) \in Nat
        /\ IsFiniteSet(S) /\ Cardinality(S) \in Nat
    BY UnitsFinite
  <1>4. reserved[c] = Cardinality(H) /\ spent[c] = Cardinality(S)
    BY DEF BalancesOf
  <1> HIDE DEF H, S
  <1>5. Cardinality(H \cup S) = Cardinality(H) + Cardinality(S)
    BY <1>2, <1>3, Zenon DEF Counting
  <1>6. QED
    BY <1>1, <1>3, <1>4, <1>5

\* The instance's Cardinality is the one of FiniteSets.
LEMMA SameCardinality ==
  ASSUME NEW S
  PROVE  Ledger!Cardinality(S) = Cardinality(S)
  BY DEF Ledger!Cardinality, Cardinality

\* Every transaction is a step of the abstract ledger or leaves it alone: the
\* test of two counters in Reserve admits only holds the budget covers.
LEMMA SettlementStep ==
  ASSUME Counting, RowsOK, \A c \in Campaign : BalancesOf(c), [Next]_vars
  PROVE  [Ledger!Next]_Book
  <1>0. reservations \in [Key -> Reservation \cup {NoReservation}]
    BY DEF RowsOK
  <1>1. ASSUME NEW k \in Key, NEW in \in Requests, Reserve(k, in)
        PROVE  Ledger!Next
    <2>1. in.campaign \in Campaign /\ in.cost \in 1..MaxCost /\ in.cost \in Nat
      BY StoreAssumption DEF ReservationInput
    <2>2. Book[k].state = "none"
      BY <1>1 DEF Reserve, Book, Hold
    <2>3. Cardinality(Ledger!Committed(in.campaign)) + in.cost <= Budget[in.campaign]
      <3>1. Cardinality(Ledger!Committed(in.campaign))
              = reserved[in.campaign] + spent[in.campaign]
        BY <2>1, CommittedIsCounted
      <3>2. /\ reserved[in.campaign] \in Int /\ spent[in.campaign] \in Int
            /\ Budget[in.campaign] \in Int
        BY <2>1, StoreAssumption DEF RowsOK
      <3>3. Budget[in.campaign] - spent[in.campaign] - reserved[in.campaign] >= in.cost
        BY <1>1 DEF Reserve
      <3>4. QED
        BY <2>1, <3>1, <3>2, <3>3
    <2>4. Book' = [Book EXCEPT ![k] = [state |-> "held", campaign |-> in.campaign,
                                       cost |-> in.cost]]
      BY <1>0, <1>1, Zenon DEF Reserve, Book, Hold
    <2>5. Ledger!Hold(k, in.campaign, in.cost)
      BY <2>2, <2>3, <2>4, SameCardinality DEF Ledger!Hold, Book
    <2>6. QED
      BY <2>1, <2>5 DEF Ledger!Next
  <1>2. ASSUME NEW k \in Key, NEW t \in {"settled", "released"},
               reservations[k].state = "held",
               reservations' = [reservations EXCEPT ![k].state = t]
        PROVE  Ledger!Next
    <2>1. reservations[k] \in Reservation
      BY <1>2, ReservationRow
    <2>2. Book[k].state = "held"
      BY <1>2 DEF Book, Hold
    <2>3. Book' = [Book EXCEPT ![k].state = t]
      <3>1. Hold(reservations'[k]) = [Hold(reservations[k]) EXCEPT !.state = t]
        BY <1>0, <1>2, <2>1 DEF Hold, Reservation
      <3>2. \A i \in Key \ {k} : reservations'[i] = reservations[i]
        BY <1>0, <1>2
      <3>3. QED
        BY <3>1, <3>2, Zenon DEF Book
    <2>4. Ledger!Resolve(k, t)
      BY <2>2, <2>3 DEF Ledger!Resolve, Book
    <2>5. QED
      BY <2>4 DEF Ledger!Next
  <1>3. ASSUME NEW e \in Event, Process(e), Settle(e)
        PROVE  Ledger!Next
    <2>1. deliveries[e].receipt.reservation \in Key
      BY <1>3, DeliveryRow, Zenon DEF Process, Settle, Matches, Receipt
    <2>2. QED
      BY <1>2, <1>3, <2>1, ZenonT(30) DEF Settle
  <1>4. ASSUME NEW k \in Key, Release(k)
        PROVE  Ledger!Next
    BY <1>2, <1>4, Zenon DEF Release
  <1>5. CASE Tick
    <2>1. \A k \in Key : Hold(Aged(reservations[k])) = Hold(reservations[k])
      BY <1>0, ReservationRow DEF Hold, Aged, Reservation, NoReservation
    <2>2. Book' = Book
      BY <1>5, <2>1 DEF Tick, Book
    <2>3. QED
      BY <2>2
  <1>6. ASSUME UNCHANGED reservations
        PROVE  Book' = Book
    BY <1>6 DEF Book
  <1>7. QED
    BY <1>1, <1>3, <1>4, <1>5, <1>6, Zenon
       DEF Next, vars, ledgerVars, Process, MarkDuplicate, Quarantine, Accept,
           Claim, Complete, Replay, Dispatched, FailJob

-----------------------------------------------------------------------------
(* Verdicts *)

Final == {"settled", "duplicate"}

\* Only Process reaches a final verdict or settles a reservation; no step
\* changes a delivery with a final verdict, a stored receipt, or the terms of a
\* reservation, and no step moves a reservation out of settled or released.
OnlyAged(k) ==
  /\ reservations'[k].state = reservations[k].state
  /\ reservations[k].state # "none" =>
       reservations'[k].screen = reservations[k].screen

VerdictUntouched(e) ==
  /\ deliveries[e].status \in Final \/ deliveries'[e].status \in Final
       => deliveries'[e] = deliveries[e]
  /\ deliveries[e].status # "none" =>
       deliveries'[e].receipt = deliveries[e].receipt

\* A step that does not process a delivery leaves every verdict as it is, and
\* changes the state of a reservation only by holding or releasing it.
Quiet ==
  /\ \A e \in Event : VerdictUntouched(e)
  /\ \A k \in Key :
       \/ OnlyAged(k)
       \/ reservations[k].state = "none" /\ reservations'[k].state = "held"
       \/ /\ reservations[k].state = "held" /\ reservations'[k].state = "released"
          /\ reservations'[k].screen = reservations[k].screen

\* Every step but Process is quiet.
LEMMA QuietStep ==
  ASSUME RowsOK, [Next]_vars, \A e \in Event : ~Process(e)
  PROVE  Quiet
  <1>0. /\ reservations \in [Key -> Reservation \cup {NoReservation}]
        /\ deliveries \in [Event -> Delivery \cup {NoDelivery}]
    BY DEF RowsOK
  <1>1. ASSUME NEW k \in Key, NEW in \in Requests, Reserve(k, in)
        PROVE  Quiet
    BY <1>0, <1>1 DEF Reserve, Quiet, VerdictUntouched, OnlyAged
  <1>2. ASSUME NEW e \in Event, NEW p \in Receipts, Accept(e, p)
        PROVE  Quiet
    BY <1>0, <1>2 DEF Accept, Quiet, VerdictUntouched, OnlyAged, Final, ledgerVars
  <1>3. ASSUME NEW k \in Key, Release(k)
        PROVE  Quiet
    BY <1>0, <1>3, ReservationRow
       DEF Release, Quiet, VerdictUntouched, OnlyAged, Reservation
  <1>4. ASSUME NEW j \in DOMAIN jobs, NEW d \in Delays, FailJob(j, d)
        PROVE  Quiet
    <2> DEFINE e == jobs[j].event
    <2>1. e \in Event
      BY JobRow
    <2>2. \A f \in Event : VerdictUntouched(f)
      BY <1>0, <1>4, <2>1 DEF FailJob, VerdictUntouched, Final, Delivery
    <2>3. QED
      BY <1>4, <2>2 DEF FailJob, ledgerVars, Quiet, OnlyAged
  <1>5. ASSUME NEW e \in Event, Replay(e)
        PROVE  Quiet
    BY <1>0, <1>5
       DEF Replay, Quiet, VerdictUntouched, OnlyAged, Final, ledgerVars, Delivery
  <1>6. CASE Tick
    <2>1. \A k \in Key : OnlyAged(k)
      BY <1>0, <1>6, ReservationRow DEF Tick, Aged, OnlyAged, Reservation
    <2>2. QED
      BY <1>6, <2>1 DEF Tick, Quiet, VerdictUntouched
  <1>7. ASSUME UNCHANGED <<deliveries, reservations>>
        PROVE  Quiet
    BY <1>7 DEF Quiet, VerdictUntouched, OnlyAged
  <1>8. QED
    BY <1>1, <1>2, <1>3, <1>4, <1>5, <1>6, <1>7, Zenon
       DEF Next, vars, ledgerVars, Claim, Complete, Dispatched

\* The inductive form of ChargedOnce and VerdictJustified.
Justified(e) ==
  deliveries[e].status \in Final =>
    LET p == deliveries[e].receipt
    IN  /\ p.sound
        /\ p.reservation \in Key
        /\ reservations[p.reservation].screen = p.screen
        /\ reservations[p.reservation].state = "settled"
        /\ p.offset \in 0..Window

SettledAlone(e, f) ==
  /\ deliveries[e].status = "settled" /\ deliveries[f].status = "settled"
  /\ deliveries[e].receipt.reservation = deliveries[f].receipt.reservation
  => e = f

VerdictInv ==
  /\ \A e \in Event : Justified(e)
  /\ \A e, f \in Event : SettledAlone(e, f)
  /\ \A k \in Key : reservations[k].state = "settled" =>
       \E e \in Event : e \in SettledBy(k)

\* No step breaks the link between verdicts, receipts and reservations.
LEMMA VerdictStep == RowsOK /\ VerdictInv /\ [Next]_vars => VerdictInv'
  <1> SUFFICES ASSUME RowsOK, VerdictInv, [Next]_vars PROVE VerdictInv'
    OBVIOUS
  <1>0. /\ reservations \in [Key -> Reservation \cup {NoReservation}]
        /\ deliveries \in [Event -> Delivery \cup {NoDelivery}]
    BY DEF RowsOK
  <1>1. CASE Quiet
    <2>1. ASSUME NEW e \in Event PROVE Justified(e)'
      BY <1>1 DEF Quiet, VerdictUntouched, OnlyAged, VerdictInv, Justified, Final
    <2>2. ASSUME NEW e \in Event, NEW f \in Event PROVE SettledAlone(e, f)'
      BY <1>1 DEF Quiet, VerdictUntouched, VerdictInv, SettledAlone, Final
    <2>3. ASSUME NEW k \in Key, reservations'[k].state = "settled"
          PROVE  \E e \in Event : e \in SettledBy(k)'
      <3>1. reservations[k].state = "settled"
        BY <1>1, <2>3 DEF Quiet, OnlyAged
      <3>2. PICK e \in Event : e \in SettledBy(k)
        BY <3>1 DEF VerdictInv
      <3>3. deliveries'[e] = deliveries[e]
        BY <1>1, <3>2 DEF Quiet, VerdictUntouched, SettledBy, Final
      <3>4. QED
        BY <3>2, <3>3 DEF SettledBy
    <2>4. QED
      BY <2>1, <2>2, <2>3 DEF VerdictInv
  <1>2. ASSUME NEW e \in Event, Process(e)
        PROVE  VerdictInv'
    <2> DEFINE p == deliveries[e].receipt
               k == p.reservation
    <2>1. deliveries[e] \in Delivery /\ p \in Receipt /\ deliveries[e].status = "accepted"
      BY <1>2, DeliveryRow DEF Process
    <2>2. ASSUME NEW status, deliveries' = [deliveries EXCEPT ![e].status = status]
          PROVE  /\ \A f \in Event \ {e} : deliveries'[f] = deliveries[f]
                 /\ deliveries'[e].status = status
                 /\ deliveries'[e].receipt = p
      BY <1>0, <2>1, <2>2 DEF Delivery
    <2>3. Matches(p) =>
            /\ k \in Key /\ p.sound /\ reservations[k].screen = p.screen
            /\ p.offset \in 0..Window
            /\ reservations[k].state \in {"held", "settled"}
      BY <1>0, <2>1, StoreAssumption DEF Matches, Receipt, Reservation, NoReservation
    <2>4. CASE Settle(e)
      <3>1. /\ k \in Key /\ p.sound /\ reservations[k].screen = p.screen
            /\ p.offset \in 0..Window /\ reservations[k].state = "held"
        BY <2>3, <2>4 DEF Settle
      <3>2. /\ \A i \in Key \ {k} : reservations'[i] = reservations[i]
            /\ reservations'[k].state = "settled"
            /\ reservations'[k].screen = reservations[k].screen
        BY <1>0, <2>4, <3>1, ReservationRow DEF Settle, Reservation
      <3>3. /\ \A f \in Event \ {e} : deliveries'[f] = deliveries[f]
            /\ deliveries'[e].status = "settled"
            /\ deliveries'[e].receipt = p
        BY <2>2, <2>4, Zenon DEF Settle, Decide
      <3>4. \A f \in Event : deliveries[f].status \in Final =>
              deliveries[f].receipt.reservation # k
        BY <3>1 DEF VerdictInv, Justified
      <3> HIDE DEF p, k
      <3>5. ASSUME NEW f \in Event PROVE Justified(f)'
        <4>1. CASE f = e
          BY <3>1, <3>2, <3>3, <4>1 DEF Justified, k
        <4>2. CASE f # e
          BY <3>2, <3>3, <3>4, <4>2 DEF VerdictInv, Justified
        <4>3. QED
          BY <4>1, <4>2, Zenon
      <3>6. ASSUME NEW f \in Event, NEW g \in Event PROVE SettledAlone(f, g)'
        BY <3>3, <3>4 DEF VerdictInv, SettledAlone, Final, k
      <3>7. ASSUME NEW i \in Key, reservations'[i].state = "settled"
            PROVE  \E f \in Event : f \in SettledBy(i)'
        <4>1. CASE i = k
          BY <3>3, <4>1 DEF SettledBy, k
        <4>2. CASE i # k
          <5>1. PICK f \in Event : f \in SettledBy(i)
            BY <3>2, <3>7, <4>2 DEF VerdictInv
          <5>2. f # e
            BY <2>1, <5>1 DEF SettledBy
          <5>3. QED
            BY <3>3, <5>1, <5>2 DEF SettledBy
        <4>3. QED
          BY <4>1, <4>2, Zenon
      <3>8. QED
        BY <3>5, <3>6, <3>7 DEF VerdictInv
    <2>5. ASSUME NEW status \in {"duplicate", "quarantined"},
                 Decide(e, status), UNCHANGED reservations,
                 status = "duplicate" =>
                   Matches(p) /\ reservations[k].state # "held"
          PROVE  VerdictInv'
      <3>1. /\ \A f \in Event \ {e} : deliveries'[f] = deliveries[f]
            /\ deliveries'[e].status = status
            /\ deliveries'[e].receipt = p
        BY <2>2, <2>5, Zenon DEF Decide
      <3>2. \A f \in Event : deliveries'[f].status = "settled" <=>
                             deliveries[f].status = "settled"
        BY <2>1, <3>1
      <3>3. \A f \in Event : deliveries'[f].status = "settled" =>
                             deliveries'[f] = deliveries[f]
        BY <2>1, <3>1
      <3>4. ASSUME NEW f \in Event PROVE Justified(f)'
        <4>1. CASE f = e
          BY <2>3, <2>5, <3>1, <4>1 DEF Justified, Final
        <4>2. CASE f # e
          BY <2>5, <3>1, <4>2 DEF VerdictInv, Justified
        <4>3. QED
          BY <4>1, <4>2, Zenon
      <3>5. ASSUME NEW f \in Event, NEW g \in Event PROVE SettledAlone(f, g)'
        BY <3>2, <3>3 DEF VerdictInv, SettledAlone
      <3>6. ASSUME NEW i \in Key, reservations'[i].state = "settled"
            PROVE  \E f \in Event : f \in SettledBy(i)'
        BY <2>5, <3>2, <3>3, <3>6 DEF VerdictInv, SettledBy
      <3>7. QED
        BY <3>4, <3>5, <3>6 DEF VerdictInv
    <2>6. QED
      BY <1>2, <2>4, <2>5
         DEF Process, MarkDuplicate, Quarantine, ledgerVars
  <1>3. QED
    BY <1>1, <1>2, QuietStep

-----------------------------------------------------------------------------
\* The link between verdicts, receipts and reservations holds throughout.
LEMMA VerdictAlways == Spec => []VerdictInv
  <1>1. Init => VerdictInv
    BY DEF Init, VerdictInv, Justified, SettledAlone, Final, NoDelivery, NoReservation
  <1>2. QED
    BY <1>1, VerdictStep, RowsAlways, PTL DEF Spec

\* For any number of receipts, redeliveries, failures and replays, a settled
\* reservation has exactly one settled delivery, one that is not settled has
\* none, and a duplicate verdict always refers to a settled reservation.
THEOREM ChargedOnceAlways == Spec => []ChargedOnce
  <1>1. VerdictInv => ChargedOnce
    <2> SUFFICES ASSUME VerdictInv PROVE ChargedOnce
      OBVIOUS
    <2>1. ASSUME NEW k \in Key, reservations[k].state = "settled"
          PROVE  \E e \in Event : SettledBy(k) = {e}
      <3>1. PICK e \in Event : e \in SettledBy(k)
        BY <2>1 DEF VerdictInv
      <3>2. SettledBy(k) = {e}
        BY <3>1 DEF VerdictInv, SettledAlone, SettledBy
      <3>3. QED
        BY <3>2
    <2>2. ASSUME NEW k \in Key, reservations[k].state # "settled"
          PROVE  SettledBy(k) = {}
      BY <2>2 DEF VerdictInv, Justified, SettledBy, Final
    <2>3. ASSUME NEW e \in Event, deliveries[e].status = "duplicate"
          PROVE  reservations[deliveries[e].receipt.reservation].state = "settled"
      BY <2>3 DEF VerdictInv, Justified, Final
    <2>4. QED
      BY <2>1, <2>2, <2>3 DEF ChargedOnce
  <1>2. QED
    BY <1>1, VerdictAlways, PTL

\* Every settled or duplicate verdict rests on a sound receipt for the reserved
\* screen inside the reservation's window.
THEOREM VerdictsJustified == Spec => []VerdictJustified
  <1>1. VerdictInv => VerdictJustified
    BY DEF VerdictInv, Justified, VerdictJustified, Final
  <1>2. QED
    BY <1>1, VerdictAlways, PTL

\* No step moves a settled or released reservation, or a settled or duplicate
\* delivery, or a stored receipt: terminal states never go backwards.
THEOREM TerminalStatesStay == Spec => TerminalStatesKept
  <1>1. ASSUME RowsOK, [Next]_vars
        PROVE  [/\ \A k \in Key : ResolvedReservationKept(k)
                /\ \A e \in Event : FinalVerdictKept(e)]_vars
    <2>0. /\ reservations \in [Key -> Reservation \cup {NoReservation}]
          /\ deliveries \in [Event -> Delivery \cup {NoDelivery}]
      BY <1>1 DEF RowsOK
    <2>1. \A e \in Event : FinalVerdictKept(e)
      <3>1. ASSUME NEW e \in Event, Process(e)
            PROVE  \A f \in Event : FinalVerdictKept(f)
        <4>1. PICK status : deliveries' = [deliveries EXCEPT ![e].status = status]
          BY <3>1, Zenon DEF Process, Settle, MarkDuplicate, Quarantine, Decide
        <4>2. deliveries[e].status = "accepted" /\ deliveries[e] \in Delivery
          BY <1>1, <3>1, DeliveryRow DEF Process
        <4>3. QED
          BY <2>0, <4>1, <4>2 DEF FinalVerdictKept, Delivery
      <3>2. CASE \A e \in Event : ~Process(e)
        BY <1>1, <3>2, QuietStep DEF Quiet, VerdictUntouched, FinalVerdictKept, Final
      <3>3. QED
        BY <3>1, <3>2
    <2>2. \A k \in Key : ResolvedReservationKept(k)
      <3>1. ASSUME NEW e \in Event, Settle(e)
            PROVE  \A k \in Key : ResolvedReservationKept(k)
        BY <2>0, <3>1 DEF Settle, ResolvedReservationKept
      <3>2. ASSUME NEW k \in Key, NEW in \in Requests, Reserve(k, in)
            PROVE  \A i \in Key : ResolvedReservationKept(i)
        BY <2>0, <3>2 DEF Reserve, ResolvedReservationKept
      <3>3. ASSUME NEW k \in Key, Release(k)
            PROVE  \A i \in Key : ResolvedReservationKept(i)
        BY <2>0, <3>3 DEF Release, ResolvedReservationKept
      <3>4. CASE Tick
        BY <3>4 DEF Tick, ResolvedReservationKept
      <3>5. ASSUME UNCHANGED reservations
            PROVE  \A k \in Key : ResolvedReservationKept(k)
        BY <3>5 DEF ResolvedReservationKept
      <3>6. QED
        BY <1>1, <3>1, <3>2, <3>3, <3>4, <3>5, ZenonT(30)
           DEF Next, vars, ledgerVars, Process, MarkDuplicate, Quarantine, Accept,
               Claim, Complete, Replay, Dispatched, FailJob
    <2>3. QED
      BY <2>1, <2>2
  <1>2. QED
    BY <1>1, RowsAlways, PTL DEF Spec, TerminalStatesKept

-----------------------------------------------------------------------------
(* The outbox *)

\* How each step changes one outbox row, its delivery's status and the jobs.
LEMMA OutboxUntouched ==
  ASSUME [Next]_vars,
         \A e \in Event : ~Claim(e) /\ ~Complete(e) /\ ~Replay(e) /\ ~Process(e),
         \A e \in Event, p \in Receipts : ~Accept(e, p),
         \A j \in DOMAIN jobs : ~Dispatched(j) /\ \A d \in Delays : ~FailJob(j, d),
         ~Tick
  PROVE  UNCHANGED <<outbox, jobs, deliveries>>
  BY DEF Next, vars, Reserve, Release

IntentOf(e) ==
  deliveries[e].status = "accepted" =>
    outbox[e].state \in {"pending", "leased", "dispatched"}

\* No step closes or buries the outbox row of an undecided delivery.
LEMMA IntentStep ==
  RowsOK /\ Paired /\ (\A e \in Event : IntentOf(e)) /\ [Next]_vars
    => (\A e \in Event : IntentOf(e)')
  <1> SUFFICES ASSUME RowsOK, Paired, \A e \in Event : IntentOf(e), [Next]_vars,
                      NEW f \in Event
               PROVE  IntentOf(f)'
    OBVIOUS
  <1>0. /\ IntentOf(f)
        /\ deliveries \in [Event -> Delivery \cup {NoDelivery}]
        /\ outbox \in [Event -> OutboxRow \cup {NoOutbox}]
        /\ deliveries[f].status # "none" => outbox[f] \in OutboxRow
    BY OutboxRowFields, Zenon DEF RowsOK, Paired
  <1>1. ASSUME NEW e \in Event, NEW p \in Receipts, Accept(e, p)
        PROVE  IntentOf(f)'
    BY <1>0, <1>1 DEF Accept, IntentOf
  <1>2. ASSUME NEW e \in Event, Process(e)
        PROVE  IntentOf(f)'
    <2>1. PICK status \in {"settled", "duplicate", "quarantined"} :
            deliveries' = [deliveries EXCEPT ![e].status = status]
      BY <1>2, Zenon DEF Process, Settle, MarkDuplicate, Quarantine, Decide
    <2>2. deliveries[e] \in Delivery /\ outbox' = outbox
      BY <1>2, DeliveryRow DEF Process
    <2>3. QED
      BY <1>0, <2>1, <2>2 DEF IntentOf, Delivery
  <1>3. ASSUME NEW e \in Event, Claim(e)
        PROVE  IntentOf(f)'
    BY <1>0, <1>3, OutboxRowFields DEF Claim, IntentOf, OutboxRow
  <1>4. ASSUME NEW e \in Event, Complete(e)
        PROVE  IntentOf(f)'
    BY <1>0, <1>4 DEF Complete, IntentOf, Decided
  <1>5. ASSUME NEW e \in Event, Replay(e)
        PROVE  IntentOf(f)'
    BY <1>0, <1>5 DEF Replay, IntentOf
  <1>6. ASSUME NEW j \in DOMAIN jobs, Dispatched(j)
        PROVE  IntentOf(f)'
    BY <1>0, <1>6, JobRow, OutboxRowFields DEF Dispatched, Owns, IntentOf, OutboxRow
  <1>7. ASSUME NEW j \in DOMAIN jobs, NEW d \in Delays, FailJob(j, d)
        PROVE  IntentOf(f)'
    <2> DEFINE e == jobs[j].event
               dead == jobs[j].attempts >= MaxAttempts
    <2>1. e \in Event /\ outbox[e] \in OutboxRow
      BY <1>7, JobRow, OutboxRowFields DEF FailJob, Owns
    <2>2. outbox'[e].state = IF dead THEN "dead" ELSE "pending"
      BY <1>0, <1>7, <2>1 DEF FailJob, OutboxRow
    <2>3. f # e => outbox'[f] = outbox[f] /\ deliveries'[f] = deliveries[f]
      BY <1>0, <1>7, <2>1 DEF FailJob
    <2>4. dead => deliveries'[e].status # "accepted"
      <3>1. CASE deliveries[e].status = "accepted"
        BY <1>0, <1>7, <2>1, <3>1, DeliveryRow DEF FailJob, Delivery
      <3>2. CASE deliveries[e].status # "accepted"
        BY <1>7, <3>2 DEF FailJob
      <3>3. QED
        BY <3>1, <3>2, Zenon
    <2>5. QED
      BY <1>0, <2>2, <2>3, <2>4 DEF IntentOf
  <1>8. CASE Tick
    BY <1>0, <1>8, Zenon DEF Tick, Elapsed, IntentOf, OutboxRow
  <1>9. ASSUME UNCHANGED <<outbox, jobs, deliveries>>
        PROVE  IntentOf(f)'
    BY <1>0, <1>9 DEF IntentOf
  <1>10. QED
    BY <1>1, <1>2, <1>3, <1>4, <1>5, <1>6, <1>7, <1>8, <1>9, OutboxUntouched

\* An accepted delivery always has a pending, leased or dispatched outbox row,
\* whatever stale dispatchers, completions and replays do around it.
THEOREM IntentAlwaysKept == Spec => []IntentKept
  <1>1. Init => \A e \in Event : IntentOf(e)
    BY DEF Init, IntentOf, NoDelivery
  <1>2. Paired /\ (\A e \in Event : IntentOf(e)) => IntentKept
    BY DEF Paired, IntentOf, IntentKept
  <1>3. Spec => []\A e \in Event : IntentOf(e)
    <2>1. /\ RowsOK /\ Paired /\ (\A e \in Event : IntentOf(e)) /\ [Next]_vars
          => (\A e \in Event : IntentOf(e))'
      BY IntentStep
    <2>2. QED
      BY <1>1, <2>1, RowsAlways, PTL DEF Spec
  <1>4. QED
    BY <1>2, <1>3, RowsAlways, PTL

-----------------------------------------------------------------------------
(* Fencing *)

OwnerOf(e) ==
  outbox[e].state # "none" =>
    /\ (outbox[e].state = "leased") <=> (outbox[e].owner # 0)
    /\ outbox[e].owner # 0 =>
         /\ outbox[e].owner \in DOMAIN jobs
         /\ jobs[outbox[e].owner] = [event |-> e, attempts |-> outbox[e].attempts]
         /\ \A j \in DOMAIN jobs : jobs[j].event = e => j <= outbox[e].owner

\* A step that gives one row back and hands out no job keeps the fence.
LEMMA OwnerCleared ==
  ASSUME RowsOK, NEW e \in Event, NEW f \in Event, OwnerOf(f),
         UNCHANGED jobs, outbox'[e].owner = 0, outbox'[e].state # "leased",
         f # e => outbox'[f] = outbox[f]
  PROVE  OwnerOf(f)'
  BY DEF OwnerOf

\* No step leaves a row with a stale owner: only Claim sets one, a fresh one.
LEMMA OwnerStep ==
  RowsOK /\ Paired /\ (\A e \in Event : OwnerOf(e)) /\ [Next]_vars
    => (\A e \in Event : OwnerOf(e)')
  <1> SUFFICES ASSUME RowsOK, Paired, \A e \in Event : OwnerOf(e), [Next]_vars,
                      NEW f \in Event
               PROVE  OwnerOf(f)'
    OBVIOUS
  <1>0. /\ OwnerOf(f)
        /\ outbox \in [Event -> OutboxRow \cup {NoOutbox}]
        /\ outbox[f].state # "none" => outbox[f] \in OutboxRow
        /\ jobs \in Seq(Job)
    BY OutboxRowFields DEF RowsOK
  <1>1. ASSUME NEW e \in Event, NEW p \in Receipts, Accept(e, p)
        PROVE  OwnerOf(f)'
    BY <1>0, <1>1, OwnerCleared DEF Accept
  <1>2. ASSUME NEW e \in Event, Claim(e)
        PROVE  OwnerOf(f)'
    <2> DEFINE n == Len(jobs) + 1
               a == outbox[e].attempts + 1
    <2>1. outbox[e] \in OutboxRow
      BY <1>2, OutboxRowFields DEF Claim
    <2>2. /\ jobs' = Append(jobs, [event |-> e, attempts |-> a])
          /\ f # e => outbox'[f] = outbox[f]
          /\ outbox'[e].state = "leased" /\ outbox'[e].owner = n
          /\ outbox'[e].attempts = a
      BY <1>0, <1>2, <2>1 DEF Claim, OutboxRow
    <2>3. /\ DOMAIN jobs = 1..Len(jobs) /\ DOMAIN jobs' = 1..n
          /\ Len(jobs) \in Nat /\ n \in Nat /\ n # 0
          /\ \A j \in DOMAIN jobs : jobs'[j] = jobs[j]
          /\ jobs'[n] = [event |-> e, attempts |-> a]
      BY <1>0, <2>2
    <2> HIDE DEF n, a
    <2>4. CASE f = e
      BY <2>2, <2>3, <2>4 DEF OwnerOf
    <2>5. CASE f # e
      <3>1. jobs'[n].event # f
        BY <2>3, <2>5
      <3>2. \A j \in DOMAIN jobs' : jobs'[j].event = f =>
              j \in DOMAIN jobs /\ jobs[j].event = f
        BY <2>3, <3>1 DEF n
      <3>3. DOMAIN jobs \subseteq DOMAIN jobs'
        BY <2>3 DEF n
      <3>4. outbox'[f] = outbox[f]
        BY <2>2, <2>5
      <3>5. QED
        BY <1>0, <2>3, <3>2, <3>3, <3>4 DEF OwnerOf
    <2>6. QED
      BY <2>4, <2>5, Zenon
  <1>3. ASSUME NEW e \in Event, Complete(e)
        PROVE  OwnerOf(f)'
    <2>1. outbox[e] \in OutboxRow
      BY <1>3, OutboxRowFields DEF Complete, Decided, Paired
    <2>2. QED
      BY <1>0, <1>3, <2>1, OwnerCleared DEF Complete, OutboxRow
  <1>4. ASSUME NEW e \in Event, Replay(e)
        PROVE  OwnerOf(f)'
    BY <1>0, <1>4, OwnerCleared DEF Replay
  <1>5. ASSUME NEW j \in DOMAIN jobs, Dispatched(j)
        PROVE  OwnerOf(f)'
    BY <1>0, <1>5, JobRow, OutboxRowFields, OwnerCleared
       DEF Dispatched, Owns, OutboxRow
  <1>6. ASSUME NEW j \in DOMAIN jobs, NEW d \in Delays, FailJob(j, d)
        PROVE  OwnerOf(f)'
    <2> DEFINE e == jobs[j].event
    <2>1. e \in Event /\ outbox[e] \in OutboxRow
      BY <1>6, JobRow, OutboxRowFields DEF FailJob, Owns
    <2>2. /\ outbox'[e].owner = 0 /\ outbox'[e].state # "leased"
          /\ f # e => outbox'[f] = outbox[f]
          /\ UNCHANGED jobs
      BY <1>0, <1>6, <2>1 DEF FailJob, OutboxRow
    <2>3. QED
      BY <1>0, <2>1, <2>2, OwnerCleared
  <1>7. CASE Tick
    <2>1. CASE outbox[f].state = "none"
      BY <1>7, <2>1, Zenon DEF Tick, Elapsed, OwnerOf
    <2>2. CASE outbox[f].state # "none"
      <3>1. /\ outbox'[f].state = outbox[f].state /\ outbox'[f].owner = outbox[f].owner
            /\ outbox'[f].attempts = outbox[f].attempts /\ jobs' = jobs
        BY <1>0, <1>7, <2>2, Zenon DEF Tick, Elapsed, OutboxRow
      <3>2. QED
        BY <1>0, <3>1 DEF OwnerOf
    <2>3. QED
      BY <2>1, <2>2, Zenon
  <1>8. ASSUME UNCHANGED <<outbox, jobs>>
        PROVE  OwnerOf(f)'
    BY <1>0, <1>8 DEF OwnerOf
  <1>9. QED
    BY <1>1, <1>2, <1>3, <1>4, <1>5, <1>6, <1>7, <1>8, OutboxUntouched DEF Process

\* The fence of every outbox row holds throughout.
LEMMA OwnerAlways == Spec => []\A e \in Event : OwnerOf(e)
  <1>1. Init => \A e \in Event : OwnerOf(e)
    BY DEF Init, OwnerOf, NoOutbox
  <1>2. /\ RowsOK /\ Paired /\ (\A e \in Event : OwnerOf(e)) /\ [Next]_vars
        => (\A e \in Event : OwnerOf(e))'
    BY OwnerStep
  <1>3. QED
    BY <1>1, <1>2, RowsAlways, PTL DEF Spec

\* A leased row is always owned by the newest claim of its delivery: the token
\* of every older dispatcher is stale, also after replays and lease expiry.
THEOREM NewestClaimAlwaysOwns == Spec => []NewestClaimOwns
  <1>1. (\A e \in Event : OwnerOf(e)) => NewestClaimOwns
    BY DEF OwnerOf, NewestClaimOwns
  <1>2. QED
    BY <1>1, OwnerAlways, PTL

-----------------------------------------------------------------------------
(* Leases *)

\* Every step of the store but the clock's.
Transaction ==
  \/ \E k \in Key, in \in Requests : Reserve(k, in)
  \/ \E e \in Event, p \in Receipts : Accept(e, p)
  \/ \E e \in Event : Process(e) \/ Claim(e) \/ Complete(e) \/ Replay(e)
  \/ \E k \in Key : Release(k)
  \/ \E j \in DOMAIN jobs : Dispatched(j) \/ \E d \in Delays : FailJob(j, d)

\* Transactions are steps of the store.
LEMMA TransactionsAreSteps == [Transaction]_vars => [Next]_vars
  BY DEF Transaction, Next

\* What a transaction may do to the lease of row f: nothing, end it, or give a
\* row without a running lease to a new owner, for the whole of Lease.
LeaseKept(f) ==
  \/ outbox'[f] = outbox[f]
  \/ outbox'[f].state # "leased"
  \/ /\ outbox'[f].lease = Lease
     /\ outbox[f].state = "leased" => outbox[f].lease = 0

\* Every transaction keeps to it.
LEMMA LeaseMoves ==
  ASSUME RowsOK, [Transaction]_vars, NEW f \in Event
  PROVE  LeaseKept(f)
  <1>0. outbox \in [Event -> OutboxRow \cup {NoOutbox}]
    BY DEF RowsOK
  <1>1. ASSUME NEW e \in Event, NEW p \in Receipts, Accept(e, p)
        PROVE  LeaseKept(f)
    BY <1>0, <1>1 DEF Accept, LeaseKept
  <1>2. ASSUME NEW e \in Event, Claim(e)
        PROVE  LeaseKept(f)
    <2>1. outbox[e] \in OutboxRow
      BY <1>2, OutboxRowFields DEF Claim
    <2>2. QED
      BY <1>0, <1>2, <2>1 DEF Claim, OutboxRow, LeaseKept
  <1>3. ASSUME NEW e \in Event, NEW r, r.state # "leased", outbox' = [outbox EXCEPT ![e] = r]
        PROVE  LeaseKept(f)
    BY <1>0, <1>3 DEF LeaseKept
  <1>4. ASSUME NEW e \in Event, Replay(e)
        PROVE  LeaseKept(f)
    BY <1>3, <1>4, Zenon DEF Replay
  <1>5. ASSUME NEW e \in Event, NEW s \in {"done", "dispatched", "pending", "dead"}, NEW w,
               outbox[e] \in OutboxRow,
               \/ outbox' = [outbox EXCEPT ![e] =
                               [@ EXCEPT !.state = s, !.owner = 0, !.lease = 0]]
               \/ outbox' = [outbox EXCEPT ![e] =
                               [@ EXCEPT !.state = s, !.owner = 0, !.lease = 0, !.wait = w]]
        PROVE  LeaseKept(f)
    BY <1>0, <1>5, Zenon DEF LeaseKept, OutboxRow
  <1>6. ASSUME NEW e \in Event, Complete(e)
        PROVE  LeaseKept(f)
    <2>1. CASE e = f
      BY <1>0, <1>6, <2>1 DEF Complete, LeaseKept, OutboxRow, NoOutbox
    <2>2. CASE e # f
      BY <1>0, <1>6, <2>2 DEF Complete, LeaseKept
    <2>3. QED
      BY <2>1, <2>2, Zenon
  <1>7. ASSUME NEW j \in DOMAIN jobs, NEW d, Dispatched(j) \/ FailJob(j, d)
        PROVE  LeaseKept(f)
    <2>1. jobs[j].event \in Event /\ outbox[jobs[j].event] \in OutboxRow
      BY <1>7, JobRow, OutboxRowFields DEF Dispatched, FailJob, Owns
    <2>2. QED
      BY <1>5, <1>7, <2>1, Zenon DEF Dispatched, FailJob
  <1>8. ASSUME UNCHANGED outbox
        PROVE  LeaseKept(f)
    BY <1>8 DEF LeaseKept
  <1>9. ASSUME NEW j \in DOMAIN jobs, Dispatched(j) \/ \E d \in Delays : FailJob(j, d)
        PROVE  LeaseKept(f)
    BY <1>7, <1>9, Zenon
  <1>10. QED
    BY <1>1, <1>2, <1>4, <1>6, <1>8, <1>9, Zenon
       DEF Transaction, vars, Reserve, Process, Release

-----------------------------------------------------------------------------
(* Retries *)

\* An audit write raises one count by one and leaves the others.
LEMMA AuditedCount ==
  ASSUME RowsOK, NEW x \in Key \cup Event, NEW kind \in AuditKind, Audited(x, kind),
         NEW y \in Key \cup Event, NEW m \in AuditKind
  PROVE  audit'[y][m] = IF y = x /\ m = kind THEN audit[y][m] + 1 ELSE audit[y][m]
  <1>1. audit \in [Key \cup Event -> [AuditKind -> Nat]]
    BY DEF RowsOK
  <1>2. audit' = [audit EXCEPT ![x] = [audit[x] EXCEPT ![kind] = audit[x][kind] + 1]]
    BY DEF Audited
  <1>3. audit[x] \in [AuditKind -> Nat]
    BY <1>1
  <1>4. QED
    BY <1>1, <1>2, <1>3

\* The counts of a delivery or reservation are numbers.
LEMMA AuditNumbers ==
  ASSUME RowsOK, NEW y \in Key \cup Event, NEW m \in AuditKind
  PROVE  audit[y][m] \in Nat
  <1>1. audit \in [Key \cup Event -> [AuditKind -> Nat]]
    BY DEF RowsOK
  <1>2. QED
    BY <1>1

\* The inductive form of RetriesFenced: a leased row has one claim that has not
\* been reported failed yet.
RetriesOf(e) ==
  /\ audit[e]["retry"] + Once(outbox[e].state = "leased") <= Cardinality(ClaimsOf(e))
  /\ outbox[e].state = "dead" => outbox[e].attempts >= MaxAttempts

\* What the proofs use of the sizes of finite sets.
ClaimsCount ==
  /\ Cardinality({}) = 0
  /\ \A n \in Nat : \A S \in SUBSET (1..n) :
       Cardinality(S) \in Nat /\ \A x : x \notin S => Cardinality(S \cup {x}) = Cardinality(S) + 1

\* The claims of a delivery can be counted.
LEMMA ClaimsFinite ==
  ASSUME ClaimsCount, RowsOK, NEW e \in Event
  PROVE  /\ Cardinality(ClaimsOf(e)) \in Nat
         /\ \A x : x \notin ClaimsOf(e) =>
              Cardinality(ClaimsOf(e) \cup {x}) = Cardinality(ClaimsOf(e)) + 1
  <1>1. ClaimsOf(e) \in SUBSET (1..Len(jobs)) /\ Len(jobs) \in Nat
    BY DEF ClaimsOf, RowsOK
  <1>2. QED
    BY <1>1, Zenon DEF ClaimsCount

\* Claim adds one claim to its delivery and none to the others.
LEMMA ClaimAdds ==
  ASSUME ClaimsCount, RowsOK, NEW e \in Event, Claim(e), NEW f \in Event
  PROVE  IF f = e THEN Cardinality(ClaimsOf(f))' = Cardinality(ClaimsOf(f)) + 1
                  ELSE ClaimsOf(f)' = ClaimsOf(f)
  <1> DEFINE n == Len(jobs) + 1
             job == [event |-> e, attempts |-> outbox[e].attempts + 1]
  <1>1. jobs \in Seq(Job) /\ jobs' = Append(jobs, job) /\ job.event = e
    BY DEF RowsOK, Claim
  <1> HIDE DEF job
  <1>2. /\ DOMAIN jobs = 1..Len(jobs) /\ DOMAIN jobs' = 1..n /\ Len(jobs) \in Nat
        /\ \A j \in DOMAIN jobs : jobs'[j] = jobs[j]
        /\ jobs'[n] = job
    BY <1>1
  <1>3. ClaimsOf(f)' = IF f = e THEN ClaimsOf(f) \cup {n} ELSE ClaimsOf(f)
    <2>1. DOMAIN jobs' = DOMAIN jobs \cup {n}
      BY <1>2
    <2>2. QED
      BY <1>1, <1>2, <2>1 DEF ClaimsOf
  <1>4. n \notin ClaimsOf(f)
    BY <1>2 DEF ClaimsOf
  <1> HIDE DEF n
  <1>5. CASE f = e
    <2>2. Cardinality(ClaimsOf(f) \cup {n}) = Cardinality(ClaimsOf(f)) + 1
      BY <1>4, ClaimsFinite
    <2>3. ClaimsOf(f)' = ClaimsOf(f) \cup {n}
      BY <1>3, <1>5
    <2>4. QED
      BY <1>5, <2>2, <2>3
  <1>6. CASE f # e
    BY <1>3, <1>6
  <1>7. QED
    BY <1>5, <1>6, Zenon

\* No step reports a claim twice or buries a row that has attempts left.
LEMMA RetriesStep ==
  ASSUME ClaimsCount, RowsOK, Paired, \A e \in Event : OwnerOf(e),
         \A e \in Event : RetriesOf(e), [Next]_vars, NEW f \in Event
  PROVE  RetriesOf(f)'
  <1> DEFINE n == Cardinality(ClaimsOf(f))
             a == audit[f]["retry"]
  <1>0. /\ RetriesOf(f)
        /\ outbox \in [Event -> OutboxRow \cup {NoOutbox}]
        /\ outbox[f].state # "none" => outbox[f] \in OutboxRow
        /\ n \in Nat /\ a \in Nat /\ "retry" \in AuditKind /\ MaxAttempts \in Nat
        /\ f \in Key \cup Event
    BY OutboxRowFields, ClaimsFinite, AuditNumbers, StoreAssumption DEF RowsOK, AuditKind
  <1>1. ASSUME NEW x \in Key \cup Event, NEW kind \in AuditKind \ {"retry"},
               Audited(x, kind)
        PROVE  a' = a
    BY <1>0, <1>1, AuditedCount
  <1>2. UNCHANGED jobs => n' = n
    BY DEF ClaimsOf
  <1> HIDE DEF n, a
  <1>3. RetriesOf(f) <=> /\ a + Once(outbox[f].state = "leased") <= n
                         /\ outbox[f].state = "dead" => outbox[f].attempts >= MaxAttempts
    BY DEF RetriesOf, a, n
  <1>4. RetriesOf(f)' <=> /\ a' + Once(outbox'[f].state = "leased") <= n'
                          /\ outbox'[f].state = "dead" => outbox'[f].attempts >= MaxAttempts
    BY DEF RetriesOf, a, n, Once
  <1>5. ASSUME a' = a, n' = n,
               \/ outbox'[f] = outbox[f]
               \/ outbox'[f].state \in {"pending", "dispatched", "done"}
        PROVE  RetriesOf(f)'
    BY <1>0, <1>3, <1>4, <1>5 DEF Once
  <1>6. ASSUME NEW e \in Event, NEW p \in Receipts, Accept(e, p)
        PROVE  RetriesOf(f)'
    <2>1. a' = a /\ n' = n
      BY <1>1, <1>2, <1>6 DEF Accept, AuditKind
    <2>2. outbox'[f] = outbox[f] \/ outbox'[f].state = "pending"
      BY <1>0, <1>6 DEF Accept
    <2>3. QED
      BY <1>5, <2>1, <2>2
  <1>7. ASSUME NEW e \in Event, Process(e)
        PROVE  RetriesOf(f)'
    <2>1. PICK kind \in {"settled", "duplicate", "quarantined"} : Audited(e, kind)
      BY <1>7, Zenon DEF Process, Settle, MarkDuplicate, Quarantine, Decide
    <2>2. a' = a
      BY <1>1, <2>1 DEF AuditKind
    <2>3. QED
      BY <1>2, <1>5, <1>7, <2>2 DEF Process
  <1>8. ASSUME NEW e \in Event, Claim(e)
        PROVE  RetriesOf(f)'
    <2>1. a' = a
      BY <1>8 DEF Claim, a
    <2>2. CASE f = e
      <3>1. n' = n + 1
        BY <1>8, <2>2, ClaimAdds DEF n
      <3>2. outbox'[f].state = "leased"
        BY <1>0, <1>8, <2>2 DEF Claim, OutboxRow
      <3>3. QED
        BY <1>0, <1>3, <1>4, <2>1, <3>1, <3>2 DEF Once
    <2>3. CASE f # e
      <3>1. n' = n
        BY <1>8, <2>3, ClaimAdds DEF n
      <3>2. outbox'[f] = outbox[f]
        BY <1>0, <1>8, <2>3 DEF Claim
      <3>3. QED
        BY <1>5, <2>1, <3>1, <3>2
    <2>4. QED
      BY <2>2, <2>3, Zenon
  <1>9. ASSUME NEW e \in Event, Complete(e)
        PROVE  RetriesOf(f)'
    <2>1. outbox[e] \in OutboxRow
      BY <1>9, OutboxRowFields DEF Complete, Decided, Paired
    <2>2. outbox'[f] = outbox[f] \/ outbox'[f].state = "done"
      BY <1>0, <1>9, <2>1 DEF Complete, OutboxRow
    <2>3. a' = a /\ n' = n
      BY <1>2, <1>9 DEF Complete, a
    <2>4. QED
      BY <1>5, <2>2, <2>3
  <1>10. ASSUME NEW e \in Event, Replay(e)
         PROVE  RetriesOf(f)'
    <2>1. a' = a /\ n' = n
      BY <1>1, <1>2, <1>10 DEF Replay, AuditKind
    <2>2. outbox'[f] = outbox[f] \/ outbox'[f].state = "pending"
      BY <1>0, <1>10 DEF Replay
    <2>3. QED
      BY <1>5, <2>1, <2>2
  <1>11. ASSUME NEW j \in DOMAIN jobs, Dispatched(j)
         PROVE  RetriesOf(f)'
    <2>1. jobs[j].event \in Event /\ outbox[jobs[j].event] \in OutboxRow
      BY <1>11, JobRow, OutboxRowFields DEF Dispatched, Owns
    <2>2. outbox'[f] = outbox[f] \/ outbox'[f].state = "dispatched"
      BY <1>0, <1>11, <2>1 DEF Dispatched, OutboxRow
    <2>3. a' = a /\ n' = n
      BY <1>2, <1>11 DEF Dispatched, a
    <2>4. QED
      BY <1>5, <2>2, <2>3
  <1>12. ASSUME NEW j \in DOMAIN jobs, NEW d \in Delays, FailJob(j, d)
         PROVE  RetriesOf(f)'
    <2> DEFINE e == jobs[j].event
    <2>1. /\ e \in Event /\ outbox[e] \in OutboxRow /\ Audited(e, "retry")
          /\ outbox[e].state = "leased" /\ outbox[e].owner = j /\ n' = n
      BY <1>2, <1>12, JobRow, OutboxRowFields DEF FailJob, Owns
    <2>2. jobs[j].attempts = outbox[e].attempts
      <3>1. OwnerOf(e)
        BY <2>1
      <3>2. jobs[j] = [event |-> e, attempts |-> outbox[e].attempts]
        BY <2>1, <3>1 DEF OwnerOf
      <3>3. QED
        BY <3>2
    <2>3. CASE f = e
      <3>1. a' = a + 1
        BY <1>0, <2>1, <2>3, AuditedCount DEF a
      <3>2. /\ outbox'[f].state =
                 IF jobs[j].attempts >= MaxAttempts THEN "dead" ELSE "pending"
            /\ outbox'[f].attempts = outbox[f].attempts
        BY <1>0, <1>12, <2>1, <2>3 DEF FailJob, OutboxRow
      <3>3. QED
        <4>1. a + 1 <= n
          BY <1>0, <1>3, <2>1, <2>3 DEF Once
        <4>2. /\ outbox'[f].state \in {"dead", "pending"}
              /\ outbox'[f].state = "dead" => outbox'[f].attempts >= MaxAttempts
          BY <2>2, <2>3, <3>2
        <4>3. QED
          BY <1>0, <1>4, <2>1, <3>1, <4>1, <4>2 DEF Once
    <2>4. CASE f # e
      <3>1. a' = a
        BY <1>0, <2>1, <2>4, AuditedCount DEF a
      <3>2. outbox'[f] = outbox[f]
        BY <1>0, <1>12, <2>1, <2>4 DEF FailJob
      <3>3. QED
        BY <1>5, <2>1, <3>1, <3>2
    <2>5. QED
      BY <2>3, <2>4, Zenon
  <1>13. CASE Tick
    <2>1. a' = a /\ n' = n
      BY <1>2, <1>13 DEF Tick, a
    <2>2. /\ outbox'[f].state = outbox[f].state
          /\ outbox[f].state # "none" => outbox'[f].attempts = outbox[f].attempts
      BY <1>0, <1>13, Zenon DEF Tick, Elapsed, OutboxRow, NoOutbox
    <2>3. QED
      BY <1>0, <1>3, <1>4, <2>1, <2>2 DEF Once
  <1>14. ASSUME NEW k \in Key, Release(k) \/ \E in \in Requests : Reserve(k, in)
         PROVE  RetriesOf(f)'
    <2>1. PICK kind \in {"reserved", "released"} : Audited(k, kind)
      BY <1>14 DEF Reserve, Release
    <2>2. a' = a
      BY <1>1, <2>1 DEF AuditKind
    <2>3. n' = n /\ outbox' = outbox
      BY <1>2, <1>14 DEF Reserve, Release
    <2>4. QED
      BY <1>5, <2>2, <2>3
  <1>15. ASSUME UNCHANGED vars
         PROVE  RetriesOf(f)'
    BY <1>2, <1>5, <1>15 DEF vars, a
  <1>16. QED
    BY <1>6, <1>7, <1>8, <1>9, <1>10, <1>11, <1>12, <1>13, <1>14, <1>15 DEF Next

-----------------------------------------------------------------------------
(* What the store can do to a job that was claimed *)

\* A later claim took the delivery of job j over.
Superseded(j) == \E i \in DOMAIN jobs : jobs[i].event = jobs[j].event /\ i > j

\* Nothing depends on the message of job j any more: its delivery is decided,
\* or was reopened and waits in the outbox or for a later job's message.
Finished(j) ==
  \/ deliveries[jobs[j].event].status \in Decided
  \/ outbox[jobs[j].event].state = "pending"
  \/ Superseded(j)

\* Every transaction of the store but Dispatched.
OtherNext ==
  \/ \E k \in Key, in \in Requests : Reserve(k, in)
  \/ \E e \in Event, p \in Receipts : Accept(e, p)
  \/ \E e \in Event : Process(e) \/ Claim(e) \/ Complete(e) \/ Replay(e)
  \/ \E k \in Key : Release(k)
  \/ \E j \in DOMAIN jobs, d \in Delays : FailJob(j, d)
  \/ Tick

\* How one row of the outbox, its delivery and its jobs may change in such a step.
LEMMA RowMoves ==
  ASSUME RowsOK, Paired, [OtherNext]_vars, NEW e \in Event
  PROVE  \/ \* nothing of it but the clock moves
            /\ outbox'[e].state = outbox[e].state /\ outbox'[e].owner = outbox[e].owner
            /\ deliveries'[e].status = deliveries[e].status
            /\ \A i \in DOMAIN jobs' : jobs'[i].event = e => i \in DOMAIN jobs
         \/ \* Process, Complete and FailJob on a decided delivery
            /\ deliveries'[e].status \in Decided
            /\ \A i \in DOMAIN jobs' : jobs'[i].event = e => i \in DOMAIN jobs
         \/ \* Accept, Replay and FailJob
            /\ outbox'[e].state = "pending" /\ outbox'[e].owner = 0
            /\ \A i \in DOMAIN jobs' : jobs'[i].event = e => i \in DOMAIN jobs
         \/ Claim(e)
  <1>0. /\ deliveries \in [Event -> Delivery \cup {NoDelivery}]
        /\ outbox \in [Event -> OutboxRow \cup {NoOutbox}]
        /\ outbox[e].state # "none" => outbox[e] \in OutboxRow
        /\ jobs \in Seq(Job)
    BY OutboxRowFields DEF RowsOK
  <1> DEFINE Same == \A i \in DOMAIN jobs' : jobs'[i].event = e => i \in DOMAIN jobs
             Still == /\ outbox'[e].state = outbox[e].state
                      /\ outbox'[e].owner = outbox[e].owner
                      /\ deliveries'[e].status = deliveries[e].status
             Waits == outbox'[e].state = "pending" /\ outbox'[e].owner = 0
             Ended == deliveries'[e].status \in Decided
  <1>a. SUFFICES (Same /\ (Still \/ Waits \/ Ended)) \/ Claim(e)
    OBVIOUS
  <1>b. UNCHANGED jobs => Same
    OBVIOUS
  <1>1. ASSUME NEW k \in Key, NEW in \in Requests, Reserve(k, in) PROVE Same /\ Still
    BY <1>1 DEF Reserve
  <1>2. ASSUME NEW f \in Event, NEW p \in Receipts, Accept(f, p)
        PROVE  Same /\ (Still \/ Waits)
    <2>1. CASE f = e
      BY <1>0, <1>2, <2>1 DEF Accept
    <2>2. CASE f # e
      BY <1>0, <1>2, <2>2 DEF Accept
    <2>3. QED
      BY <2>1, <2>2, Zenon
  <1>3. ASSUME NEW f \in Event, Process(f) PROVE Same /\ (Still \/ Ended)
    <2>1. PICK status \in {"settled", "duplicate", "quarantined"} :
            deliveries' = [deliveries EXCEPT ![f].status = status]
      BY <1>3, Zenon DEF Process, Settle, MarkDuplicate, Quarantine, Decide
    <2>2. deliveries[f] \in Delivery
      BY <1>0, <1>3, DeliveryRow DEF Process
    <2>3. CASE f = e
      <3>1. deliveries'[e].status = status
        BY <1>0, <2>1, <2>2, <2>3 DEF Delivery
      <3>2. QED
        BY <1>3, <3>1 DEF Process, Decided
    <2>4. CASE f # e
      BY <1>0, <1>3, <2>1, <2>4 DEF Process
    <2>5. QED
      BY <2>3, <2>4, Zenon
  <1>4. ASSUME NEW f \in Event, Claim(f) PROVE (Same /\ Still) \/ Claim(e)
    <2>1. CASE f = e
      BY <1>4, <2>1
    <2>2. CASE f # e
      <3>1. /\ jobs' = Append(jobs, [event |-> f, attempts |-> outbox[f].attempts + 1])
            /\ outbox'[e] = outbox[e] /\ deliveries' = deliveries
        BY <1>0, <1>4, <2>2 DEF Claim
      <3>2. Same
        BY <1>0, <2>2, <3>1
      <3>3. QED
        BY <3>1, <3>2
    <2>3. QED
      BY <2>1, <2>2, Zenon
  <1>5. ASSUME NEW f \in Event, Complete(f) PROVE Same /\ (Still \/ Ended)
    <2>1. CASE f = e
      BY <1>5, <2>1 DEF Complete
    <2>2. CASE f # e
      BY <1>0, <1>5, <2>2 DEF Complete
    <2>3. QED
      BY <2>1, <2>2, Zenon
  <1>6. ASSUME NEW f \in Event, Replay(f) PROVE Same /\ (Still \/ Waits)
    <2>1. CASE f = e
      BY <1>0, <1>6, <2>1 DEF Replay
    <2>2. CASE f # e
      BY <1>0, <1>6, <2>2 DEF Replay
    <2>3. QED
      BY <2>1, <2>2, Zenon
  <1>7. ASSUME NEW k \in Key, Release(k) PROVE Same /\ Still
    BY <1>7 DEF Release
  <1>8. ASSUME NEW j \in DOMAIN jobs, NEW d \in Delays, FailJob(j, d)
        PROVE  Same /\ (Still \/ Waits \/ Ended)
    <2> DEFINE f == jobs[j].event
               dead == jobs[j].attempts >= MaxAttempts
    <2>1. f \in Event /\ outbox[f] \in OutboxRow /\ UNCHANGED jobs
      BY <1>8, JobRow, OutboxRowFields DEF FailJob, Owns
    <2>2. CASE f = e
      <3>1. CASE dead
        <4>1. deliveries[e].status \in {"accepted"} \cup Decided
          BY <2>1, <2>2, DeliveryRow DEF Paired, Delivery, OutboxRow, OutboxState
        <4>2. CASE deliveries[e].status = "accepted"
          <5>1. deliveries' = [deliveries EXCEPT ![e].status = "failed"]
            BY <1>8, <2>2, <3>1, <4>2 DEF FailJob
          <5>2. deliveries[e] \in Delivery
            BY <1>0, <4>2, DeliveryRow
          <5>3. deliveries'[e].status = "failed"
            BY <1>0, <5>1, <5>2 DEF Delivery
          <5>4. QED
            BY <1>b, <2>1, <5>3 DEF Decided
        <4>3. CASE deliveries[e].status \in Decided
          <5>1. deliveries' = deliveries
            BY <1>8, <2>2, <3>1, <4>3 DEF FailJob, Decided
          <5>2. QED
            BY <1>b, <2>1, <4>3, <5>1
        <4>4. QED
          BY <4>1, <4>2, <4>3
      <3>2. CASE ~dead
        BY <1>0, <1>8, <1>b, <2>1, <2>2, <3>2 DEF FailJob, OutboxRow
      <3>3. QED
        BY <3>1, <3>2, Zenon
    <2>3. CASE f # e
      BY <1>0, <1>8, <1>b, <2>1, <2>3 DEF FailJob
    <2>4. QED
      BY <2>2, <2>3, Zenon
  <1>9. CASE Tick
    <2>1. UNCHANGED <<jobs, deliveries>> /\ outbox'[e] = Elapsed(outbox[e])
      BY <1>9 DEF Tick
    <2>2. Elapsed(outbox[e]).state = outbox[e].state /\ Elapsed(outbox[e]).owner = outbox[e].owner
      BY <1>0 DEF Elapsed, OutboxRow
    <2>3. QED
      BY <1>b, <2>1, <2>2
  <1>10. CASE UNCHANGED vars
    BY <1>10 DEF vars
  <1> HIDE DEF Same, Still, Waits, Ended
  <1>11. QED
    BY <1>1, <1>2, <1>3, <1>4, <1>5, <1>6, <1>7, <1>8, <1>9, <1>10 DEF OtherNext

\* Jobs are only ever appended.
LEMMA JobsKept ==
  ASSUME RowsOK, [Next]_vars, NEW j \in DOMAIN jobs
  PROVE  j \in DOMAIN jobs' /\ jobs'[j] = jobs[j]
  <1>1. ASSUME NEW e \in Event, Claim(e) PROVE j \in DOMAIN jobs' /\ jobs'[j] = jobs[j]
    BY <1>1 DEF Claim, RowsOK
  <1>2. QED
    BY <1>1, Zenon DEF Next, vars, Reserve, Accept, Process, Complete, Replay, Release,
                Dispatched, FailJob, Tick

\* These are steps of the store.
LEMMA OtherIsNext == OtherNext => Next
  BY DEF OtherNext, Next

\* A claim's index is larger than every earlier one, and it owns the row.
LEMMA ClaimIsNewest ==
  ASSUME RowsOK, NEW e \in Event, Claim(e)
  PROVE  /\ Len(jobs) + 1 \in DOMAIN jobs'
         /\ jobs'[Len(jobs) + 1].event = e
         /\ \A j \in DOMAIN jobs : j < Len(jobs) + 1
         /\ outbox'[e].state = "leased" /\ outbox'[e].owner = Len(jobs) + 1
  <1>1. /\ jobs \in Seq(Job) /\ outbox[e] \in OutboxRow
        /\ outbox \in [Event -> OutboxRow \cup {NoOutbox}]
    BY OutboxRowFields DEF Claim, RowsOK
  <1>2. jobs' = Append(jobs, [event |-> e, attempts |-> outbox[e].attempts + 1])
    BY DEF Claim
  <1>3. /\ Len(jobs) + 1 \in DOMAIN jobs'
        /\ jobs'[Len(jobs) + 1].event = e
        /\ \A j \in DOMAIN jobs : j < Len(jobs) + 1
    BY <1>1, <1>2
  <1>4. outbox'[e].state = "leased" /\ outbox'[e].owner = Len(jobs) + 1
    BY <1>1 DEF Claim, OutboxRow
  <1>5. QED
    BY <1>3, <1>4

\* What Dispatched does to the row of delivery e.
LEMMA DispatchedRow ==
  ASSUME RowsOK, NEW i \in DOMAIN jobs, Dispatched(i), NEW e \in Event
  PROVE  /\ UNCHANGED <<jobs, deliveries>>
         /\ jobs[i].event # e => outbox'[e] = outbox[e]
         /\ jobs[i].event = e => /\ outbox[e].state = "leased" /\ outbox[e].owner = i
                                 /\ outbox'[e].state = "dispatched"
  <1>1. /\ jobs[i].event \in Event /\ outbox[jobs[i].event] \in OutboxRow
        /\ outbox \in [Event -> OutboxRow \cup {NoOutbox}]
    BY JobRow, OutboxRowFields DEF Dispatched, Owns, RowsOK
  <1>2. QED
    BY <1>1 DEF Dispatched, Owns, OutboxRow

\* A step of the store that marks no row dispatched but that of job j.
StoreStep(j) == [OtherNext]_vars \/ Dispatched(j)

\* Such a step is a step of the store as well.
LEMMA StoreStepIsNext ==
  ASSUME NEW i \in DOMAIN jobs, StoreStep(i)
  PROVE  [Next]_vars
  BY OtherIsNext DEF StoreStep, Next

\* Once nothing depends on a job's message, nothing ever does again.
LEMMA FinishedStays ==
  ASSUME RowsOK, Paired, NEW i \in DOMAIN jobs, StoreStep(i),
         NEW j \in DOMAIN jobs, Finished(j)
  PROVE  Finished(j)'
  <1> DEFINE e == jobs[j].event
  <1>0. e \in Event /\ j \in DOMAIN jobs' /\ jobs'[j] = jobs[j]
    BY JobRow, JobsKept, StoreStepIsNext
  <1>1. CASE Superseded(j)
    <2>1. PICK n \in DOMAIN jobs : jobs[n].event = e /\ n > j
      BY <1>1 DEF Superseded
    <2>2. n \in DOMAIN jobs' /\ jobs'[n] = jobs[n]
      BY JobsKept, StoreStepIsNext
    <2>3. QED
      BY <1>0, <2>1, <2>2 DEF Finished, Superseded
  <1>2. CASE ~Superseded(j) /\ Dispatched(i)
    <2>1. deliveries[e].status \in Decided \/ outbox[e].state = "pending"
      BY <1>2 DEF Finished
    <2>2. UNCHANGED <<jobs, deliveries>> /\ (outbox[e].state = "pending" => outbox'[e] = outbox[e])
      BY <1>0, <1>2, DispatchedRow
    <2>3. QED
      BY <1>0, <2>1, <2>2 DEF Finished
  <1>3. CASE ~Superseded(j) /\ [OtherNext]_vars
    <2>1. deliveries[e].status \in Decided \/ outbox[e].state = "pending"
      BY <1>3 DEF Finished
    <2>2. CASE Claim(e)
      <3>1. /\ Len(jobs) + 1 \in DOMAIN jobs' /\ jobs'[Len(jobs) + 1].event = e
            /\ Len(jobs) + 1 > j
        BY <1>0, <2>2, ClaimIsNewest DEF RowsOK
      <3>2. QED
        BY <1>0, <3>1 DEF Finished, Superseded
    <2>3. CASE ~Claim(e)
      <3>1. deliveries'[e].status \in Decided \/ outbox'[e].state = "pending"
        BY <1>0, <1>3, <2>1, <2>3, RowMoves
      <3>2. QED
        BY <1>0, <3>1 DEF Finished
    <2>4. QED
      BY <2>2, <2>3, Zenon
  <1>4. QED
    BY <1>1, <1>2, <1>3 DEF StoreStep

\* Delivery e is undecided.
Waiting(e) == deliveries[e].status = "accepted"

\* A job that owns its undecided row after a step of the store did so before.
LEMMA OwnedBefore ==
  ASSUME RowsOK, Paired, NEW i \in DOMAIN jobs, StoreStep(i),
         NEW j \in DOMAIN jobs, Owns(j)', Waiting(jobs[j].event)'
  PROVE  Owns(j) /\ Waiting(jobs[j].event)
  <1> DEFINE e == jobs[j].event
  <1>0. e \in Event /\ j \in DOMAIN jobs' /\ jobs'[j] = jobs[j]
    BY JobRow, JobsKept, StoreStepIsNext
  <1>1. /\ outbox'[e].state = "leased" /\ outbox'[e].owner = j
        /\ deliveries'[e].status = "accepted"
    BY <1>0 DEF Owns, Waiting
  <1>2. CASE Dispatched(i)
    BY <1>0, <1>1, <1>2, DispatchedRow DEF Owns, Waiting
  <1>3. CASE [OtherNext]_vars
    <2>1. ~Claim(e)
      <3>1. SUFFICES ASSUME Claim(e) PROVE FALSE
        OBVIOUS
      <3>2. j < Len(jobs) + 1 /\ j = Len(jobs) + 1
        BY <1>0, <1>1, <3>1, ClaimIsNewest
      <3>3. Len(jobs) \in Nat
        BY DEF RowsOK
      <3>4. QED
        BY <3>2, <3>3
    <2>2. /\ outbox'[e].state = outbox[e].state /\ outbox'[e].owner = outbox[e].owner
          /\ deliveries'[e].status = deliveries[e].status
      BY <1>0, <1>1, <1>3, <2>1, RowMoves DEF Decided
    <2>3. QED
      BY <1>1, <2>2, Zenon DEF Owns, Waiting
  <1>4. QED
    BY <1>2, <1>3 DEF StoreStep

\* No other step than Dispatched makes an undecided row dispatched.
LEMMA DispatchedBefore ==
  ASSUME RowsOK, Paired, [OtherNext]_vars, NEW e \in Event,
         Waiting(e)', outbox'[e].state = "dispatched"
  PROVE  /\ Waiting(e) /\ outbox[e].state = "dispatched"
         /\ \A i \in DOMAIN jobs' : jobs'[i].event = e => i \in DOMAIN jobs
  <1>1. ~Claim(e)
    BY ClaimIsNewest, Zenon
  <1>2. deliveries'[e].status \notin Decided
    BY DEF Waiting, Decided
  <1>3. QED
    BY <1>1, <1>2, RowMoves, Zenon DEF Waiting

=============================================================================
