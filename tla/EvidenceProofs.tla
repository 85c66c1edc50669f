--------------------------- MODULE EvidenceProofs ---------------------------
(*****************************************************************************)
(* Proofs about what is kept and shown of the store's work: the audit trail, *)
(* and what the integration proof of the console verifies.                   *)
(*****************************************************************************)
EXTENDS StoreProofs, ProofRun

(* The audit trail *)

TrailOfKey(k) ==
  /\ audit[k]["reserved"] = Once(reservations[k].state # "none")
  /\ audit[k]["released"] = Once(reservations[k].state = "released")

TrailOfEvent(e) ==
  /\ audit[e]["accepted"] = Once(deliveries[e].status # "none")
  /\ audit[e]["settled"] = Once(deliveries[e].status = "settled")
  /\ audit[e]["duplicate"] = Once(deliveries[e].status = "duplicate")
  /\ audit[e]["quarantined"] + Once(deliveries[e].status = "failed")
       <= audit[e]["replayed"]
            + Once(deliveries[e].status \in {"quarantined", "failed"})

\* How one step moves the state of reservation k and the counts that tell it.
KeyMove(k) ==
  LET from == reservations[k].state
      to   == reservations'[k].state
  IN  \/ /\ from = to \/ (from = "held" /\ to = "settled")
         /\ audit'[k]["reserved"] = audit[k]["reserved"]
         /\ audit'[k]["released"] = audit[k]["released"]
      \/ /\ from = "none" /\ to = "held"
         /\ audit'[k]["reserved"] = audit[k]["reserved"] + 1
         /\ audit'[k]["released"] = audit[k]["released"]
      \/ /\ from = "held" /\ to = "released"
         /\ audit'[k]["reserved"] = audit[k]["reserved"]
         /\ audit'[k]["released"] = audit[k]["released"] + 1

\* How one step moves the verdict of delivery e and the counts that tell it.
Told == {"accepted", "settled", "duplicate", "quarantined", "replayed"}

OneMore(e, kind) ==
  \A m \in Told : audit'[e][m] = IF m = kind THEN audit[e][m] + 1 ELSE audit[e][m]

EventMove(e) ==
  LET from == deliveries[e].status
      to   == deliveries'[e].status
  IN  \/ from = to /\ OneMore(e, "none")
      \/ from = "accepted" /\ to = "failed" /\ OneMore(e, "none")
      \/ from = "none" /\ to = "accepted" /\ OneMore(e, "accepted")
      \/ /\ from = "accepted" /\ to \in {"settled", "duplicate", "quarantined"}
         /\ OneMore(e, to)
      \/ /\ from \in {"failed", "quarantined"} /\ to = "accepted"
         /\ OneMore(e, "replayed")

\* Every step moves every reservation and its trail together.
LEMMA KeyMoves ==
  ASSUME RowsOK, [Next]_vars, NEW k \in Key
  PROVE  KeyMove(k)
  <1>0. /\ reservations \in [Key -> Reservation \cup {NoReservation}]
        /\ k \in Key \cup Event
        /\ {"reserved", "released"} \subseteq AuditKind
    BY DEF RowsOK, AuditKind
  <1>1. ASSUME NEW x \in Key \cup Event,
               NEW kind \in AuditKind \ {"reserved", "released"}, Audited(x, kind)
        PROVE  /\ audit'[k]["reserved"] = audit[k]["reserved"]
               /\ audit'[k]["released"] = audit[k]["released"]
    BY <1>0, <1>1, AuditedCount
  <1>2. ASSUME NEW i \in Key, NEW in \in Requests, Reserve(i, in)
        PROVE  KeyMove(k)
    <2>1. i \in Key \cup Event /\ Audited(i, "reserved") /\ "reserved" # "released"
      BY <1>2 DEF Reserve
    <2>2. /\ audit'[k]["reserved"] =
                IF k = i THEN audit[k]["reserved"] + 1 ELSE audit[k]["reserved"]
          /\ audit'[k]["released"] = audit[k]["released"]
      BY <1>0, <2>1, AuditedCount
    <2>3. IF k = i THEN reservations[k].state = "none" /\ reservations'[k].state = "held"
                   ELSE reservations'[k] = reservations[k]
      BY <1>0, <1>2 DEF Reserve
    <2>4. QED
      BY <2>2, <2>3 DEF KeyMove
  <1>3. ASSUME NEW i \in Key, Release(i)
        PROVE  KeyMove(k)
    <2>1. i \in Key \cup Event /\ Audited(i, "released") /\ "reserved" # "released"
      BY <1>3 DEF Release
    <2>2. /\ audit'[k]["released"] =
                IF k = i THEN audit[k]["released"] + 1 ELSE audit[k]["released"]
          /\ audit'[k]["reserved"] = audit[k]["reserved"]
      BY <1>0, <2>1, AuditedCount
    <2>3. IF k = i THEN reservations[k].state = "held" /\ reservations'[k].state = "released"
                   ELSE reservations'[k] = reservations[k]
      BY <1>0, <1>3, ReservationRow DEF Release, Reservation
    <2>4. QED
      BY <2>2, <2>3 DEF KeyMove
  <1>4. ASSUME NEW e \in Event, Process(e)
        PROVE  KeyMove(k)
    <2>1. PICK kind \in {"settled", "duplicate", "quarantined"} : Audited(e, kind)
      BY <1>4, Zenon DEF Process, Settle, MarkDuplicate, Quarantine, Decide
    <2>2. \/ reservations'[k].state = reservations[k].state
          \/ reservations[k].state = "held" /\ reservations'[k].state = "settled"
      <3>1. CASE Settle(e)
        <4> DEFINE i == deliveries[e].receipt.reservation
        <4>1. /\ i \in Key
              /\ reservations[i].state = "held"
              /\ reservations' = [reservations EXCEPT ![i].state = "settled"]
          BY <1>4, <3>1, DeliveryRow, Zenon DEF Process, Settle, Matches, Receipt
        <4>2. reservations[i] \in Reservation
          BY <4>1, ReservationRow
        <4> HIDE DEF i
        <4>3. QED
          BY <1>0, <4>1, <4>2, SMTT(30) DEF Reservation
      <3>2. CASE UNCHANGED ledgerVars
        BY <3>2 DEF ledgerVars
      <3>3. QED
        BY <1>4, <3>1, <3>2 DEF Process, MarkDuplicate, Quarantine
    <2>3. e \in Key \cup Event /\ kind \in AuditKind \ {"reserved", "released"}
      BY DEF AuditKind
    <2>4. QED
      BY <1>1, <2>1, <2>2, <2>3 DEF KeyMove
  <1>5. ASSUME NEW e \in Event, NEW kind \in AuditKind \ {"reserved", "released"},
               Audited(e, kind), UNCHANGED ledgerVars
        PROVE  KeyMove(k)
    BY <1>1, <1>5 DEF KeyMove, ledgerVars
  <1>6. CASE Tick
    BY <1>0, <1>6, ReservationRow DEF Tick, Aged, KeyMove, Reservation
  <1>7. ASSUME UNCHANGED <<reservations, audit>>
        PROVE  KeyMove(k)
    BY <1>7 DEF KeyMove
  <1>8. ASSUME NEW e \in Event, Replay(e) \/ \E p \in Receipts : Accept(e, p)
        PROVE  KeyMove(k)
    BY <1>5, <1>8 DEF Accept, Replay, AuditKind
  <1>9. ASSUME NEW j \in DOMAIN jobs, NEW d \in Delays, FailJob(j, d)
        PROVE  KeyMove(k)
    BY <1>5, <1>9, JobRow DEF FailJob, AuditKind
  <1>10. QED
    BY <1>2, <1>3, <1>4, <1>6, <1>7, <1>8, <1>9, Zenon
       DEF Next, vars, ledgerVars, Claim, Complete, Dispatched

\* Every step moves every delivery and its trail together.
LEMMA EventMoves ==
  ASSUME RowsOK, [Next]_vars, NEW f \in Event
  PROVE  EventMove(f)
  <1>0. /\ deliveries \in [Event -> Delivery \cup {NoDelivery}]
        /\ f \in Key \cup Event
        /\ Told \subseteq AuditKind
    BY DEF RowsOK, AuditKind, Told
  <1>1. ASSUME NEW x \in Key \cup Event, NEW kind \in AuditKind, Audited(x, kind)
        PROVE  IF f = x /\ kind \in Told THEN OneMore(f, kind) ELSE OneMore(f, "none")
    <2>1. \A m \in Told :
            audit'[f][m] = IF f = x /\ m = kind THEN audit[f][m] + 1 ELSE audit[f][m]
      BY <1>0, <1>1, AuditedCount
    <2>2. "none" \notin Told
      BY DEF Told
    <2>3. QED
      BY <2>1, <2>2 DEF OneMore
  <1>2. ASSUME NEW k \in Key, NEW kind \in {"reserved", "released"},
               Audited(k, kind), UNCHANGED deliveries
        PROVE  EventMove(f)
    <2>1. OneMore(f, "none")
      BY <1>1, <1>2 DEF Told, AuditKind
    <2>2. QED
      BY <1>2, <2>1 DEF EventMove
  <1>3. ASSUME NEW e \in Event, NEW p \in Receipts, Accept(e, p)
        PROVE  EventMove(f)
    <2>1. IF f = e THEN OneMore(f, "accepted") ELSE OneMore(f, "none")
      BY <1>1, <1>3 DEF Accept, Told, AuditKind
    <2>2. IF f = e THEN deliveries[f].status = "none" /\ deliveries'[f].status = "accepted"
                   ELSE deliveries'[f] = deliveries[f]
      BY <1>0, <1>3 DEF Accept
    <2>3. QED
      BY <2>1, <2>2 DEF EventMove
  <1>4. ASSUME NEW e \in Event, Process(e)
        PROVE  EventMove(f)
    <2>1. PICK status \in {"settled", "duplicate", "quarantined"} :
            /\ deliveries' = [deliveries EXCEPT ![e].status = status]
            /\ Audited(e, status)
      BY <1>4, Zenon DEF Process, Settle, MarkDuplicate, Quarantine, Decide
    <2>2. IF f = e THEN OneMore(f, status) ELSE OneMore(f, "none")
      BY <1>1, <2>1 DEF Told, AuditKind
    <2>3. deliveries[e].status = "accepted" /\ deliveries[e] \in Delivery
      BY <1>4, DeliveryRow DEF Process
    <2>4. IF f = e THEN deliveries'[f].status = status
                   ELSE deliveries'[f] = deliveries[f]
      BY <1>0, <2>1, <2>3 DEF Delivery
    <2>5. QED
      BY <2>2, <2>3, <2>4 DEF EventMove
  <1>5. ASSUME NEW e \in Event, Replay(e)
        PROVE  EventMove(f)
    <2>1. IF f = e THEN OneMore(f, "replayed") ELSE OneMore(f, "none")
      BY <1>1, <1>5 DEF Replay, Told, AuditKind
    <2>2. deliveries[e] \in Delivery
      BY <1>5, DeliveryRow DEF Replay
    <2>3. IF f = e THEN /\ deliveries[f].status \in {"failed", "quarantined"}
                        /\ deliveries'[f].status = "accepted"
                   ELSE deliveries'[f] = deliveries[f]
      BY <1>0, <1>5, <2>2 DEF Replay, Delivery
    <2>4. QED
      BY <2>1, <2>3 DEF EventMove
  <1>6. ASSUME NEW j \in DOMAIN jobs, NEW d \in Delays, FailJob(j, d)
        PROVE  EventMove(f)
    <2> DEFINE e == jobs[j].event
    <2>1. e \in Event /\ Audited(e, "retry")
      BY <1>6, JobRow DEF FailJob
    <2>2. OneMore(f, "none")
      BY <1>1, <2>1 DEF Told, AuditKind
    <2>3. \/ deliveries' = deliveries
          \/ /\ deliveries[e].status = "accepted"
             /\ deliveries' = [deliveries EXCEPT ![e].status = "failed"]
      BY <1>6 DEF FailJob
    <2> HIDE DEF e
    <2>4. \/ deliveries'[f].status = deliveries[f].status
          \/ deliveries[f].status = "accepted" /\ deliveries'[f].status = "failed"
      BY <1>0, <2>1, <2>3, DeliveryRow DEF Delivery
    <2>5. QED
      BY <2>2, <2>4 DEF EventMove
  <1>7. ASSUME UNCHANGED <<deliveries, audit>>
        PROVE  EventMove(f)
    <2>1. OneMore(f, "none")
      BY <1>7 DEF OneMore, Told
    <2>2. QED
      BY <1>7, <2>1 DEF EventMove
  <1>8. QED
    BY <1>2, <1>3, <1>4, <1>5, <1>6, <1>7, Zenon
       DEF Next, vars, ledgerVars, Reserve, Release, Claim, Complete, Dispatched, Tick

\* Each transaction writes its audit row or does not commit, in every
\* interleaving: the trail agrees with the rows it tells of.
THEOREM TrailAlwaysAgrees == Spec => []AuditTrail
  <1> DEFINE Trail == /\ \A k \in Key : TrailOfKey(k)
                      /\ \A e \in Event : TrailOfEvent(e)
  <1>1. Init => Trail
    BY DEF Init, TrailOfKey, TrailOfEvent, Once, NoReservation, NoDelivery, AuditKind
  <1>2. ASSUME RowsOK, Trail, [Next]_vars PROVE Trail'
    <2>1. ASSUME NEW k \in Key PROVE TrailOfKey(k)'
      <3>1. KeyMove(k) /\ TrailOfKey(k)
        BY <1>2, KeyMoves
      <3>2. QED
        BY <3>1 DEF KeyMove, TrailOfKey, Once
    <2>2. ASSUME NEW e \in Event PROVE TrailOfEvent(e)'
      <3>1. EventMove(e) /\ TrailOfEvent(e)
        BY <1>2, EventMoves
      <3>2. \A m \in Told : audit[e][m] \in Nat
        BY <1>2, AuditNumbers DEF Told, AuditKind
      <3>3. QED
        BY <3>1, <3>2 DEF EventMove, TrailOfEvent, Once, OneMore, Told
    <2>3. QED
      BY <2>1, <2>2
  <1>3. Trail => AuditTrail
    BY DEF TrailOfKey, TrailOfEvent, AuditTrail
  <1> HIDE DEF Trail
  <1>4. QED
    BY <1>1, <1>2, <1>3, RowsAlways, PTL DEF Spec

-----------------------------------------------------------------------------
(* The integration proof *)

Ops == {"holdA", "holdB", "batch", "fix"}

AskType == [op : Ops, item : Nat \ {0}, replayed : Nat, ok : BOOLEAN]

PageFields == {"pc", "run", "ask", "seen"}

\* Where a receipt that matches nothing stays.
Unpaid == {"accepted", "quarantined", "failed"}

\* What the store may do to a receipt and to a hold while the run goes on.
ReceiptSteady(e) ==
  /\ deliveries[e].status \in {"settled", "duplicate"} => deliveries'[e] = deliveries[e]
  /\ deliveries[e].status # "none" =>
       deliveries'[e].status # "none" /\ deliveries'[e].receipt = deliveries[e].receipt
  /\ deliveries[e].status \in Unpaid /\ ~deliveries[e].receipt.sound
     => deliveries'[e].status \in Unpaid
  /\ deliveries[e].status = "none" /\ deliveries'[e].status # "none" =>
       deliveries'[e].receipt = Body(e)

HoldSteady(k) ==
  /\ reservations[k].state # "none" => reservations'[k].state # "none"
  /\ reservations[k].state = "settled" => reservations'[k].state = "settled"

Steady == (\A e \in Event : ReceiptSteady(e)) /\ (\A k \in Key : HoldSteady(k))

\* The items of a request that went well are stored; the run is at its stage.
AskOK(x) ==
  /\ x \in AskType
  /\ x.op \in {"holdA", "holdB"} => saved = 0
  /\ x.op = "holdB" => reservations[PlayA].state # "none"
  /\ x.op = "batch" => saved \in {1, 2}
  /\ x.op = "fix" => saved = 4
  /\ x.ok => \A j \in 1..Len(Items(x.op)) : j < x.item => Stored(Items(x.op)[j])

\* What was seen of a receipt is still true, unless it can be undone.
SeenOK(e, v) ==
  /\ v.status \in {"settled", "duplicate"} => deliveries[e].status = v.status
  /\ e = Broken /\ v.status = "quarantined" => deliveries[e].status \in Unpaid
  /\ v.hold = "settled" => reservations[Body(e).reservation].state = "settled"

PageOK ==
  /\ page = [f \in PageFields |-> page[f]] /\ page.run = saved
  /\ saved \in {NoRun} \cup (0..AllStages)
  /\ page.pc \in {"idle", "asking", "observing"}
  /\ page.pc = "asking" => AskOK(page.ask)
  /\ page.pc = "observing" =>
       /\ saved \in {3, 5} /\ page.seen = [e \in DOMAIN page.seen |-> page.seen[e]]
       /\ DOMAIN page.seen \subseteq Event
       /\ \A e \in DOMAIN page.seen : SeenOK(e, page.seen[e])

\* Nothing was sent before the run was saved.
Unsent ==
  saved = NoRun =>
    /\ late = {} /\ page.pc = "idle"
    /\ reservations[PlayA].state = "none" /\ reservations[PlayB].state = "none"

ReceiptsOK == \A e \in Event : deliveries[e].status # "none" => deliveries[e].receipt = Body(e)

RunInv ==
  /\ PageOK /\ Unsent /\ ReceiptsOK /\ late \subseteq AskType
  /\ VerifiedStaysTrue

-----------------------------------------------------------------------------
\* What a step of the run or of the others does to the store.
Moves ==
  \/ UNCHANGED vars
  \/ \E i \in {PlayA, PlayB} \cup Event : Write(i)
  \/ Disturb \/ Others

\* It is a step of the store or none.
LEMMA MovesNext ==
  ASSUME Moves
  PROVE  [Next]_vars
  <1>1. CASE UNCHANGED vars
    BY <1>1
  <1>2. CASE \E i \in {PlayA, PlayB} \cup Event : Write(i)
    <2>1. PICK i \in {PlayA, PlayB} \cup Event : Write(i)
      BY <1>2
    <2>2. CASE i \in Key
      BY <2>1, <2>2, ProofRunAssumption DEF Write, Next
    <2>3. CASE i \notin Key
      BY <2>1, <2>3, ProofRunAssumption DEF Write, Next
    <2>4. QED
      BY <2>2, <2>3, Zenon
  <1>3. CASE Disturb
    BY <1>3 DEF Disturb, Next
  <1>4. CASE Others
    BY <1>4 DEF Others, Next
  <1>5. QED
    BY <1>1, <1>2, <1>3, <1>4 DEF Moves

\* Nobody undoes a final verdict or a settlement, or makes a bad receipt good.
LEMMA MovesSteady ==
  ASSUME RowsOK, Moves, ReceiptsOK
  PROVE  Steady
  <1>0. /\ reservations \in [Key -> Reservation \cup {NoReservation}]
        /\ deliveries \in [Event -> Delivery \cup {NoDelivery}]
    BY DEF RowsOK
  <1>a. ASSUME UNCHANGED <<reservations, deliveries>>
        PROVE  Steady
    BY <1>a DEF Steady, ReceiptSteady, HoldSteady
  <1>b. UNCHANGED deliveries => \A e \in Event : ReceiptSteady(e)
    BY DEF ReceiptSteady
  <1>c. UNCHANGED reservations => \A k \in Key : HoldSteady(k)
    BY DEF HoldSteady
  <1>1. ASSUME NEW k \in Key, NEW in, Reserve(k, in)
        PROVE  Steady
    <2>1. \A j \in Key : HoldSteady(j)
      BY <1>0, <1>1 DEF Reserve, HoldSteady
    <2>2. QED
      BY <1>1, <1>b, <2>1 DEF Steady, Reserve
  <1>2. ASSUME NEW e \in Event, Accept(e, Body(e))
        PROVE  Steady
    <2>1. \A f \in Event : ReceiptSteady(f)
      BY <1>0, <1>2 DEF Accept, ReceiptSteady, Unpaid
    <2>2. QED
      BY <1>2, <1>c, <2>1 DEF Steady, Accept, ledgerVars
  <1>3. ASSUME NEW e \in Event, Process(e)
        PROVE  Steady
    <2>1. PICK status : /\ deliveries' = [deliveries EXCEPT ![e].status = status]
                        /\ status \in Decided
                        /\ ~deliveries[e].receipt.sound => status = "quarantined"
      BY <1>3, Zenon DEF Process, Settle, MarkDuplicate, Quarantine, Decide, Matches, Decided
    <2>2. deliveries[e].status = "accepted" /\ deliveries[e] \in Delivery
      BY <1>3, DeliveryRow DEF Process
    <2>3. /\ \A f \in Event \ {e} : deliveries'[f] = deliveries[f]
          /\ deliveries'[e].status = status /\ deliveries'[e].receipt = deliveries[e].receipt
      BY <1>0, <2>1, <2>2 DEF Delivery
    <2>4. \A f \in Event : ReceiptSteady(f)
      BY <2>1, <2>2, <2>3 DEF ReceiptSteady, Decided, Unpaid
    <2>5. \A k \in Key : HoldSteady(k)
      <3>1. CASE Settle(e)
        BY <1>0, <3>1 DEF Settle, HoldSteady
      <3>2. CASE UNCHANGED reservations
        BY <3>2, <1>c
      <3>3. QED
        BY <1>3, <3>1, <3>2 DEF Process, MarkDuplicate, Quarantine, ledgerVars
    <2>6. QED
      BY <2>4, <2>5 DEF Steady
  <1>4. ASSUME NEW e \in Event, Replay(e)
        PROVE  Steady
    <2>1. deliveries[e] \in Delivery
      BY <1>4, DeliveryRow DEF Replay
    <2>2. \A f \in Event : ReceiptSteady(f)
      BY <1>0, <1>4, <2>1 DEF Replay, ReceiptSteady, Delivery, Unpaid
    <2>3. QED
      BY <1>4, <1>c, <2>2 DEF Steady, Replay, ledgerVars
  <1>5. ASSUME NEW k \in Key, Release(k)
        PROVE  Steady
    <2>1. \A j \in Key : HoldSteady(j)
      BY <1>0, <1>5 DEF Release, HoldSteady
    <2>2. QED
      BY <1>5, <1>b, <2>1 DEF Steady, Release
  <1>6. CASE Tick
    <2>1. \A k \in Key : Aged(reservations[k]).state = reservations[k].state
      BY <1>0, ReservationRow DEF Aged, Reservation
    <2>2. \A j \in Key : HoldSteady(j)
      BY <1>6, <2>1 DEF Tick, HoldSteady
    <2>3. QED
      BY <1>6, <1>b, <2>2 DEF Steady, Tick
  <1>d. ASSUME NEW j \in DOMAIN jobs, NEW d \in Delays, FailJob(j, d)
        PROVE  Steady
    <2>1. PICK e \in Event : e = jobs[j].event
      BY JobRow
    <2>2. CASE UNCHANGED deliveries
      BY <1>d, <1>b, <1>c, <2>2 DEF Steady, FailJob, ledgerVars
    <2>3. CASE /\ deliveries[e].status = "accepted"
               /\ deliveries' = [deliveries EXCEPT ![e].status = "failed"]
      <3>1. deliveries[e] \in Delivery
        BY <2>3, DeliveryRow
      <3>2. \A f \in Event : ReceiptSteady(f)
        BY <1>0, <2>3, <3>1 DEF ReceiptSteady, Delivery, Unpaid
      <3>3. QED
        BY <1>d, <1>c, <3>2 DEF Steady, FailJob, ledgerVars
    <2>4. QED
      BY <1>d, <2>1, <2>2, <2>3, Zenon DEF FailJob
  <1>e. ASSUME NEW e \in Event, Claim(e)
        PROVE  Steady
    BY <1>e, <1>a, Zenon DEF Claim, ledgerVars
  <1>7. CASE \E i \in {PlayA, PlayB} \cup Event : Write(i)
    <2>1. PICK i \in {PlayA, PlayB} \cup Event : Write(i)
      BY <1>7
    <2>2. QED
      BY <1>1, <1>2, <2>1, ProofRunAssumption DEF Write
  <1>8. CASE Disturb \/ Others
    BY <1>1, <1>3, <1>4, <1>5, <1>6, <1>8, <1>d, <1>e, Zenon DEF Disturb, Others
  <1>9. CASE UNCHANGED vars
    BY <1>9, <1>a DEF vars
  <1>10. QED
    BY <1>7, <1>8, <1>9 DEF Moves

\* Steady steps keep what the page knows.
LEMMA SteadyKeeps ==
  ASSUME Steady, ReceiptsOK
  PROVE  /\ ReceiptsOK'
         /\ \A i \in {PlayA, PlayB} \cup Event : Stored(i) => Stored(i)'
         /\ \A e \in Event : \A v : SeenOK(e, v) => SeenOK(e, v)'
  <1>1. ReceiptsOK'
    BY DEF Steady, ReceiptSteady, ReceiptsOK
  <1>2. ASSUME NEW i \in {PlayA, PlayB} \cup Event, Stored(i)
        PROVE  Stored(i)'
    BY <1>2, ProofRunAssumption DEF Steady, ReceiptSteady, HoldSteady, Stored
  <1>3. ASSUME NEW e \in Event, NEW v, SeenOK(e, v)
        PROVE  SeenOK(e, v)'
    <2>1. Body(e).reservation \in Key /\ (e = Broken => ~Body(e).sound)
      BY ProofRunAssumption, Zenon DEF Body
    <2>2. v.status \in {"settled", "duplicate"} => deliveries'[e].status = v.status
      BY <1>3 DEF SeenOK, Steady, ReceiptSteady
    <2>3. e = Broken /\ v.status = "quarantined" => deliveries'[e].status \in Unpaid
      BY <1>3, <2>1 DEF SeenOK, Steady, ReceiptSteady, ReceiptsOK, Unpaid
    <2>4. v.hold = "settled" => reservations'[Body(e).reservation].state = "settled"
      BY <1>3, <2>1 DEF SeenOK, Steady, HoldSteady
    <2>5. QED
      BY <2>2, <2>3, <2>4 DEF SeenOK
  <1>4. QED
    BY <1>1, <1>2, <1>3

\* So what a run verified stays true as long as it verifies nothing more.
LEMMA VerifiedKept ==
  ASSUME Steady, ReceiptsOK, VerifiedStaysTrue, saved' = saved
  PROVE  VerifiedStaysTrue'
  <1>0. /\ PlayA \in Key /\ PlayB \in Key
        /\ First \in Event /\ Second \in Event /\ Broken \in Event /\ Corrected \in Event
        /\ ~Body(Broken).sound
    BY ProofRunAssumption, Zenon DEF Body
  <1>1. saved >= 1 => \A k \in {PlayA, PlayB} : reservations'[k].state # "none"
    BY <1>0 DEF VerifiedStaysTrue, Steady, HoldSteady
  <1>2. saved >= 2 => \A e \in {First, Second, Broken} : deliveries'[e].status # "none"
    BY <1>0 DEF VerifiedStaysTrue, Steady, ReceiptSteady
  <1>3. saved >= 4 =>
          /\ deliveries'[First] = deliveries[First] /\ deliveries'[Second] = deliveries[Second]
          /\ deliveries'[Broken].status \in Unpaid
    <2>1. ASSUME saved >= 4
          PROVE  /\ deliveries[First].status \in {"settled", "duplicate"}
                 /\ deliveries[Second].status \in {"settled", "duplicate"}
                 /\ deliveries[Broken].status \in Unpaid
      BY <2>1 DEF VerifiedStaysTrue, Unpaid
    <2>2. QED
      BY <1>0, <2>1 DEF Steady, ReceiptSteady, ReceiptsOK, Unpaid
  <1>4. saved = 6 =>
          /\ deliveries'[Corrected].status = "settled"
          /\ \A k \in {PlayA, PlayB} : reservations'[k].state = "settled"
    BY <1>0 DEF VerifiedStaysTrue, Steady, ReceiptSteady, HoldSteady
  <1>5. QED
    BY <1>1, <1>2, <1>3, <1>4 DEF VerifiedStaysTrue, Unpaid

-----------------------------------------------------------------------------
\* The items are the run's keys and events.
LEMMA ItemNamed ==
  ASSUME NEW op \in Ops, NEW j \in 1..Len(Items(op))
  PROVE  Items(op)[j] \in {PlayA, PlayB} \cup Event
  <1>1. {First, Second, Broken, Corrected} \subseteq Event
    BY ProofRunAssumption
  <1>2. CASE op \in {"holdA", "holdB", "fix"}
    BY <1>1, <1>2 DEF Items
  <1>3. CASE op = "batch"
    <2>1. PICK t : t = <<First, Second, Broken>>
      BY Zenon
    <2>2. Items(op) = t /\ Len(t) = 3
      BY <1>3, <2>1 DEF Items
    <2>3. j \in {1, 2, 3}
      BY <2>2
    <2>4. t[1] = First /\ t[2] = Second /\ t[3] = Broken
      BY <2>1
    <2>5. QED
      BY <1>1, <2>2, <2>3, <2>4
  <1>4. QED
    BY <1>2, <1>3 DEF Ops

\* The next item of a request under way.
LEMMA ItemDue ==
  ASSUME NEW x \in AskType, ~Served(x)
  PROVE  /\ x.item \in 1..Len(Items(x.op)) /\ x.op \in Ops
         /\ Items(x.op)[x.item] \in {PlayA, PlayB} \cup Event
  <1>1. x.op \in Ops /\ x.item \in Nat /\ x.item >= 1
    BY DEF AskType
  <1>2. Len(Items(x.op)) \in Nat
    BY <1>1 DEF Ops, Items
  <1>3. x.item \in 1..Len(Items(x.op))
    BY <1>1, <1>2 DEF Served
  <1>4. QED
    BY <1>1, <1>3, ItemNamed

\* A written item is stored.
LEMMA WriteStores ==
  ASSUME RowsOK, NEW i \in {PlayA, PlayB} \cup Event, Write(i)
  PROVE  Stored(i)'
  <1>1. CASE i \in Key
    BY <1>1 DEF Write, Reserve, RowsOK, Stored
  <1>2. CASE i \notin Key
    BY <1>2, ProofRunAssumption DEF Write, Accept, RowsOK, Stored
  <1>3. QED
    BY <1>1, <1>2, Zenon

\* The request after its next item: done, found stored, refused or failed.
LEMMA ItemServed ==
  ASSUME RowsOK, ReceiptsOK, NEW x, AskOK(x), ~Served(x), NEW y \in AskType,
         y.op = x.op, y.item = x.item + 1, y.ok => x.ok,
         LET i == Items(x.op)[x.item]
         IN  UNCHANGED vars \/ Write(i),
         y.ok => Write(Items(x.op)[x.item]) \/ Stored(Items(x.op)[x.item]),
         saved' = saved
  PROVE  Moves /\ AskOK(y)'
  <1>1. PICK i : i = Items(x.op)[x.item]
    OBVIOUS
  <1>2. x \in AskType /\ x.item \in 1..Len(Items(x.op)) /\ i \in {PlayA, PlayB} \cup Event
        /\ x.item \in Nat
    BY <1>1, ItemDue DEF AskOK, AskType
  <1>3. Moves
    BY <1>1, <1>2 DEF Moves
  <1>4. \A j \in {PlayA, PlayB} \cup Event : Stored(j) => Stored(j)'
    BY <1>3, MovesSteady, SteadyKeeps
  <1>5. y.ok => Stored(i)'
    BY <1>1, <1>2, <1>4, WriteStores
  <1>6. ASSUME y.ok, NEW j \in 1..Len(Items(y.op)), j < y.item
        PROVE  Stored(Items(y.op)[j])'
    <2>1. CASE j = x.item
      BY <1>1, <1>5, <1>6, <2>1
    <2>2. CASE j # x.item
      <3>1. j < x.item /\ x.ok
        BY <1>2, <1>6, <2>2
      <3>2. Stored(Items(x.op)[j])
        BY <1>6, <3>1 DEF AskOK
      <3>3. Items(x.op)[j] \in {PlayA, PlayB} \cup Event
        BY <1>2, <1>6, ItemNamed DEF AskType
      <3>4. PICK k : k = Items(x.op)[j]
        OBVIOUS
      <3>5. Stored(k)'
        BY <1>4, <3>2, <3>3, <3>4
      <3>6. QED
        BY <3>4, <3>5
    <2>3. QED
      BY <2>1, <2>2, Zenon
  <1>7. x.op = "holdB" => reservations'[PlayA].state # "none"
    BY <1>4, ProofRunAssumption DEF AskOK, Stored
  <1>8. QED
    BY <1>3, <1>6, <1>7 DEF AskOK

\* A page that waits for the same request, or for none, or has read as much.
LEMMA ContinueOK ==
  ASSUME NEW n \in 0..AllStages, page' = Continue(n), saved' = n
  PROVE  PageOK'
  <1>0. AllStages = 6 /\ NoRun = -1
    BY DEF AllStages, NoRun
  <1>1. /\ page'.run = n /\ page'.seen = <<>>
        /\ page'.pc = IF n = 6 THEN "idle" ELSE IF n \in {3, 5} THEN "observing" ELSE "asking"
        /\ page' = [f \in PageFields |-> page'[f]]
    BY <1>0 DEF Continue, PageFields
  <1>2. ASSUME page'.pc = "asking"
        PROVE  AskOK(page.ask)'
    <2>1. n \in {0, 1, 2, 4}
      BY <1>0, <1>1, <1>2
    <2>2. page'.ask = Ask(IF n = 0 THEN "holdA" ELSE IF n = 4 THEN "fix" ELSE "batch")
      BY <2>1 DEF Continue
    <2>3. ASSUME NEW op \in Ops
          PROVE  /\ Ask(op) \in AskType /\ Ask(op).op = op
                 /\ \A j \in 1..Len(Items(op)) : ~(j < Ask(op).item)
      BY DEF Ask, AskType
    <2>4. QED
      BY <2>1, <2>2, <2>3 DEF AskOK, Ops
  <1>3. page'.pc = "observing" => saved' \in {3, 5}
    BY <1>1
  <1>4. DOMAIN page'.seen = {} /\ page'.seen = [e \in DOMAIN page'.seen |-> page'.seen[e]]
    BY <1>1
  <1>5. QED
    BY <1>0, <1>1, <1>2, <1>3, <1>4 DEF PageOK

\* The page forgets what it was at.
LEMMA FreshOK ==
  ASSUME PageOK, page' = Fresh(saved), saved' = saved
  PROVE  PageOK'
  BY DEF PageOK, Fresh, PageFields

\* The page goes on as it is.
LEMMA SamePage ==
  ASSUME Steady, ReceiptsOK, PageOK, page' = page, saved' = saved
  PROVE  PageOK'
  <1>1. AskOK(page.ask) /\ page.pc = "asking" => AskOK(page.ask)'
    <2>1. SUFFICES ASSUME AskOK(page.ask) PROVE AskOK(page.ask)'
      OBVIOUS
    <2>2. PICK x : x = page.ask
      OBVIOUS
    <2>3. \A j \in 1..Len(Items(x.op)) : Stored(Items(x.op)[j]) => Stored(Items(x.op)[j])'
      <3>1. ASSUME NEW j \in 1..Len(Items(x.op)), Stored(Items(x.op)[j])
            PROVE  Stored(Items(x.op)[j])'
        <4>1. PICK k : k = Items(x.op)[j]
          OBVIOUS
        <4>2. k \in {PlayA, PlayB} \cup Event
          BY <2>1, <2>2, <4>1, ItemNamed DEF AskOK, AskType
        <4>3. Stored(k)'
          BY <3>1, <4>1, <4>2, SteadyKeeps
        <4>4. QED
          BY <4>1, <4>3
      <3>2. QED
        BY <3>1
    <2>4. reservations[PlayA].state # "none" => reservations'[PlayA].state # "none"
      BY ProofRunAssumption DEF Steady, HoldSteady
    <2>5. AskOK(x)'
      BY <2>1, <2>2, <2>3, <2>4 DEF AskOK
    <2>6. QED
      BY <2>2, <2>5
  <1>2. \A e \in Event : \A v : SeenOK(e, v) => SeenOK(e, v)'
    BY SteadyKeeps
  <1>3. QED
    BY <1>1, <1>2 DEF PageOK

\* Nobody else reserves under the run's keys.
LEMMA OthersElsewhere ==
  ASSUME RowsOK, Disturb \/ Others, NEW k \in {PlayA, PlayB}, reservations[k].state = "none"
  PROVE  reservations'[k].state = "none"
  <1>0. /\ reservations \in [Key -> Reservation \cup {NoReservation}] /\ k \in Key
        /\ deliveries \in [Event -> Delivery \cup {NoDelivery}]
    BY ProofRunAssumption DEF RowsOK
  <1>1. ASSUME NEW e \in Event, Process(e)
        PROVE  reservations'[k].state = "none"
    <2>1. CASE Settle(e)
      <3>1. k # deliveries[e].receipt.reservation
        BY <2>1 DEF Settle
      <3>2. QED
        BY <1>0, <2>1, <3>1 DEF Settle
    <2>2. CASE UNCHANGED reservations
      BY <2>2
    <2>3. QED
      BY <1>1, <2>1, <2>2 DEF Process, MarkDuplicate, Quarantine, ledgerVars
  <1>2. ASSUME NEW j \in Key, Release(j)
        PROVE  reservations'[k].state = "none"
    BY <1>0, <1>2 DEF Release
  <1>3. ASSUME NEW j \in Key \ {PlayA, PlayB}, NEW in \in Requests, Reserve(j, in)
        PROVE  reservations'[k].state = "none"
    BY <1>0, <1>3 DEF Reserve
  <1>4. CASE Tick
    BY <1>0, <1>4 DEF Tick, Aged
  <1>5. CASE \/ \E e \in Event : Claim(e) \/ Replay(e)
             \/ \E j \in DOMAIN jobs, d \in Delays : FailJob(j, d)
    BY <1>5, Zenon DEF Claim, Replay, FailJob, ledgerVars
  <1>6. QED
    BY <1>1, <1>2, <1>3, <1>4, <1>5, Zenon DEF Disturb, Others

\* What a step of the run has to show beside the page's part of the invariant.
LEMMA RunKept ==
  ASSUME RowsOK, RunInv, Moves, PageOK', late' \subseteq AskType, saved' = saved,
         saved = NoRun => UNCHANGED <<late, reservations>> /\ page'.pc = "idle"
  PROVE  RunInv'
  <1>1. Steady /\ ReceiptsOK
    BY MovesSteady DEF RunInv
  <1>2. ReceiptsOK' /\ VerifiedStaysTrue'
    BY <1>1, SteadyKeeps, VerifiedKept DEF RunInv
  <1>3. Unsent'
    BY DEF RunInv, Unsent
  <1>4. QED
    BY <1>2, <1>3 DEF RunInv

\* A stage is verified, or a run begins or goes on.
LEMMA RunContinues ==
  ASSUME RunInv, NEW n \in 0..AllStages, page' = Continue(n), saved' = n,
         UNCHANGED <<vars, late>>, VerifiedStaysTrue'
  PROVE  RunInv'
  <1>1. PageOK'
    BY ContinueOK
  <1>2. Unsent'
    BY DEF Unsent, NoRun
  <1>3. ReceiptsOK' /\ late' \subseteq AskType
    BY DEF RunInv, ReceiptsOK, vars
  <1>4. QED
    BY <1>1, <1>2, <1>3 DEF RunInv

\* Give up, reload or lose an answer.
LEMMA RunPauses ==
  ASSUME RowsOK, RunInv, page' = Fresh(saved), saved' = saved, UNCHANGED vars,
         late' = late \/ late' = late \cup Abandoned
  PROVE  RunInv'
  <1>1. PageOK'
    BY FreshOK DEF RunInv
  <1>2. Abandoned \subseteq AskType /\ (page.pc = "idle" => Abandoned = {})
    BY DEF Abandoned, RunInv, PageOK, AskOK
  <1>3. saved = NoRun => UNCHANGED late
    BY <1>2 DEF RunInv, Unsent
  <1>4. page'.pc = "idle"
    BY DEF Fresh
  <1>5. Moves
    BY DEF Moves
  <1>6. QED
    BY <1>1, <1>2, <1>3, <1>4, <1>5, RunKept DEF RunInv, vars

\* An item of the request the page waits for.
LEMMA RunServes ==
  ASSUME RowsOK, RunInv, Serve \/ FailItem
  PROVE  RunInv'
  <1>1. /\ page.pc = "asking" /\ AskOK(page.ask) /\ page.ask \in AskType
        /\ saved' = saved /\ late' = late /\ saved # NoRun
        /\ page = [f \in PageFields |-> page[f]] /\ page.run = saved
    BY Zenon DEF Serve, FailItem, RunInv, PageOK, AskOK, Unsent
  <1>2. ASSUME NEW y \in AskType, page' = [page EXCEPT !.ask = y], Moves, AskOK(y)'
        PROVE  RunInv'
    <2>1. /\ page' = [f \in PageFields |-> page'[f]] /\ page'.run = saved
          /\ page'.pc = "asking" /\ page'.ask = y
      BY <1>1, <1>2, Zenon DEF PageFields
    <2>2. PageOK'
      BY <1>1, <1>2, <2>1 DEF RunInv, PageOK
    <2>3. QED
      BY <1>1, <1>2, <2>2, RunKept DEF RunInv
  <1>3. CASE Serve
    <2>1. PICK y \in [op : {page.ask.op}, item : {page.ask.item + 1},
                      replayed : 0..3, ok : BOOLEAN] :
            ServeItem(page.ask, y) /\ page' = [page EXCEPT !.ask = y]
      BY <1>3 DEF Serve
    <2>x. PICK x : x = page.ask
      OBVIOUS
    <2>2. y \in AskType /\ y.op = x.op /\ y.item = x.item + 1 /\ x \in AskType
      BY <1>1, <2>1, <2>x DEF AskType
    <2>3. ServeItem(x, y) /\ AskOK(x)
      BY <1>1, <2>1, <2>x
    <2>4. /\ ~Served(x) /\ (y.ok => x.ok)
          /\ UNCHANGED vars \/ Write(Items(x.op)[x.item])
          /\ y.ok => Write(Items(x.op)[x.item]) \/ Stored(Items(x.op)[x.item])
      BY <2>2, <2>3, Zenon DEF ServeItem, AskType
    <2>5. Moves /\ AskOK(y)'
      BY <1>1, <2>2, <2>3, <2>4, ItemServed DEF RunInv
    <2>6. QED
      BY <1>2, <2>1, <2>2, <2>5
  <1>4. CASE FailItem
    <2>x. PICK x : x = page.ask
      OBVIOUS
    <2>y. PICK y : y = [x EXCEPT !.item = @ + 1, !.ok = FALSE]
      OBVIOUS
    <2>1. y \in AskType /\ y.op = x.op /\ y.item = x.item + 1 /\ ~y.ok
      <3>1. x \in AskType /\ x.item \in Nat \ {0}
        BY <1>1, <2>x DEF AskType
      <3>2. PICK m \in Nat \ {0} : m = x.item + 1
        BY <3>1
      <3>3. y = [x EXCEPT !.item = m, !.ok = FALSE]
        BY <2>y, <3>2
      <3>4. QED
        BY <3>1, <3>2, <3>3, Zenon DEF AskType
    <2>2. page' = [page EXCEPT !.ask = y]
      BY <1>1, <1>4, <2>x, <2>y, Zenon DEF FailItem, AskType, PageFields
    <2>3. /\ AskOK(x) /\ ~Served(x)
          /\ UNCHANGED vars \/ Write(Items(x.op)[x.item])
      BY <1>1, <1>4, <2>x DEF FailItem
    <2>4. Moves /\ AskOK(y)'
      BY <1>1, <2>1, <2>3, ItemServed DEF RunInv
    <2>5. QED
      BY <1>2, <2>1, <2>2, <2>4
  <1>5. QED
    BY <1>3, <1>4, Zenon

\* The answer of a request.
LEMMA RunAnswered ==
  ASSUME RowsOK, RunInv, Answered
  PROVE  RunInv'
  <1>x. PICK x : x = page.ask
    OBVIOUS
  <1>1. /\ page.pc = "asking" /\ Served(x) /\ AskOK(x) /\ x \in AskType
        /\ page.run = saved /\ saved # NoRun
        /\ page = [f \in PageFields |-> page[f]]
    BY <1>x, Zenon DEF Answered, RunInv, PageOK, AskOK, Unsent
  <1>2. UNCHANGED <<vars, late>>
    BY DEF Answered, Verified
  <1>3. x.op \in Ops /\ Len(Items(x.op)) \in Nat /\ x.item \in Nat
        /\ \A j \in 1..Len(Items(x.op)) : j < x.item
    <2>1. x.op \in Ops /\ x.item \in Nat
      BY <1>1 DEF AskType
    <2>2. Len(Items(x.op)) \in Nat
      BY <2>1 DEF Ops, Items
    <2>3. QED
      BY <1>1, <2>1, <2>2 DEF Served
  <1>4. x.ok => \A j \in 1..Len(Items(x.op)) : Stored(Items(x.op)[j])
    BY <1>1, <1>3 DEF AskOK
  <1>5. CASE GiveUp
    BY <1>1, <1>2, <1>5, RunPauses DEF GiveUp
  <1>6. CASE x.ok /\ x.op = "holdA" /\ page' = [page EXCEPT !.ask = Ask("holdB")] /\ saved' = saved
    <2>1. reservations[PlayA].state # "none"
      <3>1. Items(x.op) = <<PlayA>>
        BY <1>6 DEF Items
      <3>2. Stored(PlayA)
        BY <1>4, <1>6, <3>1
      <3>3. QED
        BY <3>2, ProofRunAssumption DEF Stored
    <2>2. PICK y : y = Ask("holdB")
      OBVIOUS
    <2>3. y \in AskType /\ y.op = "holdB" /\ y.item = 1
      BY <2>2 DEF Ask, AskType, Ops
    <2>4. saved = 0
      BY <1>1, <1>6 DEF AskOK
    <2>5. AskOK(y)'
      BY <1>2, <1>6, <2>1, <2>3, <2>4 DEF AskOK, vars
    <2>6. /\ page' = [f \in PageFields |-> page'[f]] /\ page'.run = saved
          /\ page'.pc = "asking" /\ page'.ask = y
      BY <1>1, <1>6, <2>2, Zenon DEF PageFields
    <2>7. PageOK'
      BY <1>6, <2>4, <2>5, <2>6 DEF PageOK, AllStages
    <2>8. QED
      BY <1>1, <1>2, <1>6, <2>7, RunKept DEF RunInv, Moves
  <1>7. CASE x.ok /\ x.op # "holdA" /\ Verified(saved + 1)
    <2>1. PICK n : n = saved + 1
      OBVIOUS
    <2>2. saved \in {0, 1, 2, 4} /\ n \in 0..AllStages /\ n \in {1, 2, 3, 5}
      BY <1>1, <1>3, <1>7, <2>1 DEF AskOK, Ops, AllStages
    <2>3. page' = Continue(n) /\ saved' = n
      BY <1>7, <2>1 DEF Verified
    <2>4. CASE saved = 0
      <3>1. x.op = "holdB"
        BY <1>1, <1>3, <1>7, <2>4 DEF AskOK, Ops
      <3>2. Items(x.op) = <<PlayB>>
        BY <3>1 DEF Items
      <3>3. Stored(PlayB)
        BY <1>4, <1>7, <3>2
      <3>4. reservations[PlayA].state # "none" /\ reservations[PlayB].state # "none"
        BY <1>1, <3>1, <3>3, ProofRunAssumption DEF AskOK, Stored
      <3>5. VerifiedStaysTrue'
        BY <1>2, <2>1, <2>3, <2>4, <3>4 DEF VerifiedStaysTrue, vars
      <3>6. QED
        BY <1>2, <2>2, <2>3, <3>5, RunContinues
    <2>5. CASE saved = 1
      <3>1. x.op = "batch"
        BY <1>1, <1>3, <1>7, <2>5 DEF AskOK, Ops
      <3>2. PICK t : t = <<First, Second, Broken>>
        BY Zenon
      <3>3. Items(x.op) = t /\ Len(t) = 3 /\ t[1] = First /\ t[2] = Second /\ t[3] = Broken
        BY <3>1, <3>2 DEF Items
      <3>4. Stored(First) /\ Stored(Second) /\ Stored(Broken)
        BY <1>4, <1>7, <3>3
      <3>5. \A e \in {First, Second, Broken} : deliveries[e].status # "none"
        BY <3>4, ProofRunAssumption DEF Stored
      <3>6. VerifiedStaysTrue'
        BY <1>2, <2>1, <2>3, <2>5, <3>5 DEF VerifiedStaysTrue, RunInv, vars
      <3>7. QED
        BY <1>2, <2>2, <2>3, <3>6, RunContinues
    <2>6. CASE saved \in {2, 4}
      <3>1. VerifiedStaysTrue'
        BY <1>2, <2>1, <2>3, <2>6 DEF VerifiedStaysTrue, RunInv, vars
      <3>2. QED
        BY <1>2, <2>2, <2>3, <3>1, RunContinues
    <2>7. QED
      BY <2>2, <2>4, <2>5, <2>6
  <1>8. QED
    BY <1>1, <1>5, <1>6, <1>7, <1>x DEF Answered

\* The evidence is read and judged.
LEMMA RunObserves ==
  ASSUME RowsOK, RunInv, Observe
  PROVE  RunInv'
  <1>1. PICK e \in Observed(page.run) \ DOMAIN page.seen :
          page' = [page EXCEPT !.seen =
            [x \in DOMAIN @ \cup {e} |->
               IF x = e THEN [status |-> deliveries[e].status,
                              hold |-> reservations[Body(e).reservation].state]
                        ELSE @[x]]]
    BY Zenon DEF Observe
  <1>2. /\ page.pc = "observing" /\ UNCHANGED <<vars, saved, late>> /\ saved # NoRun
        /\ page.run = saved /\ page = [f \in PageFields |-> page[f]] /\ saved \in {3, 5}
        /\ DOMAIN page.seen \subseteq Event
        /\ \A x \in DOMAIN page.seen : SeenOK(x, page.seen[x])
    BY DEF Observe, RunInv, PageOK, Unsent
  <1>3. e \in Event
    BY <1>1, ProofRunAssumption DEF Observed
  <1>s. PICK seen : seen = [x \in DOMAIN page.seen \cup {e} |->
               IF x = e THEN [status |-> deliveries[e].status,
                              hold |-> reservations[Body(e).reservation].state]
                        ELSE page.seen[x]]
    BY Zenon
  <1>4. /\ page' = [f \in PageFields |-> page'[f]] /\ page'.run = saved
        /\ page'.pc = "observing" /\ page'.seen = seen
    BY <1>1, <1>2, <1>s, Zenon DEF PageFields
  <1>5. DOMAIN seen \subseteq Event /\ seen = [x \in DOMAIN seen |-> seen[x]]
    BY <1>2, <1>3, <1>s
  <1>6. ASSUME NEW x \in DOMAIN seen PROVE SeenOK(x, seen[x])
    <2>1. CASE x = e
      BY <1>s, <2>1 DEF SeenOK, Unpaid
    <2>2. CASE x # e
      BY <1>2, <1>6, <1>s, <2>2
    <2>3. QED
      BY <2>1, <2>2, Zenon
  <1>7. \A x \in DOMAIN seen : SeenOK(x, seen[x])'
    BY <1>2, <1>6 DEF SeenOK, vars
  <1>8. PageOK'
    BY <1>2, <1>4, <1>5, <1>7 DEF PageOK, AllStages
  <1>9. QED
    BY <1>2, <1>8, RunKept DEF RunInv, Moves

\* A verdict on what was observed.
LEMMA RunJudged ==
  ASSUME RowsOK, RunInv, Judge
  PROVE  RunInv'
  <1>s. PICK seen : seen = page.seen
    OBVIOUS
  <1>1. /\ page.pc = "observing" /\ saved # NoRun /\ UNCHANGED <<vars, late>>
        /\ page.run = saved /\ page = [f \in PageFields |-> page[f]] /\ saved \in {3, 5}
        /\ DOMAIN seen = Observed(saved)
        /\ \A x \in DOMAIN seen : SeenOK(x, seen[x])
    BY <1>s, Zenon DEF Judge, Verified, RunInv, PageOK, Unsent
  <1>2. CASE AsExpected(saved, seen) /\ Verified(saved + 1)
    <2>1. PICK n : n = saved + 1
      OBVIOUS
    <2>2. n \in {4, 6} /\ n \in 0..AllStages /\ page' = Continue(n) /\ saved' = n
      BY <1>1, <1>2, <2>1 DEF Verified, AllStages
    <2>3. First \in DOMAIN seen /\ Second \in DOMAIN seen /\ Broken \in DOMAIN seen
      BY <1>1, ProofRunAssumption DEF Observed
    <2>4. seen[First].status \in {"settled", "duplicate"}
          /\ seen[Second].status \in {"settled", "duplicate"}
      BY <1>2 DEF AsExpected, OneSettled
    <2>5. deliveries[First].status = seen[First].status
          /\ deliveries[Second].status = seen[Second].status
      BY <1>1, <2>3, <2>4 DEF SeenOK
    <2>6. deliveries[Broken].status \in Unpaid
      BY <1>1, <1>2, <2>3 DEF SeenOK, AsExpected
    <2>7. {deliveries[First].status, deliveries[Second].status} = {"settled", "duplicate"}
      BY <1>2, <2>5 DEF AsExpected, OneSettled
    <2>8. n = 6 => /\ deliveries[Corrected].status = "settled"
                   /\ \A k \in {PlayA, PlayB} : reservations[k].state = "settled"
      <3>1. SUFFICES ASSUME saved = 5
                     PROVE  /\ deliveries[Corrected].status = "settled"
                            /\ \A k \in {PlayA, PlayB} : reservations[k].state = "settled"
        BY <1>1, <2>1
      <3>2. Corrected \in DOMAIN seen /\ seen[Corrected].status = "settled"
            /\ \A e \in Event : seen[e].hold = "settled" /\ e \in DOMAIN seen
        BY <1>1, <1>2, <3>1, ProofRunAssumption DEF AsExpected, Observed
      <3>3. \A e \in Event : reservations[Body(e).reservation].state = "settled"
        BY <1>1, <3>2 DEF SeenOK
      <3>4. Body(First).reservation = PlayA /\ \E e \in Event : Body(e).reservation = PlayB
        <4>1. Broken \in Event /\ (Broken \notin {First, Second} => Body(Broken).reservation = PlayB)
          BY ProofRunAssumption DEF Body
        <4>2. Broken \notin {First, Second}
          BY <1>1, <1>2, <2>4 DEF AsExpected
        <4>3. QED
          BY <4>1, <4>2 DEF Body
      <3>5. QED
        BY <1>1, <3>2, <3>3, <3>4, ProofRunAssumption DEF SeenOK
    <2>9. VerifiedStaysTrue'
      BY <1>1, <2>1, <2>2, <2>6, <2>7, <2>8 DEF VerifiedStaysTrue, RunInv, Unpaid, vars
    <2>10. QED
      BY <1>1, <2>2, <2>9, RunContinues
  <1>3. CASE GiveUp
    BY <1>1, <1>3, RunPauses DEF GiveUp
  <1>4. CASE page' = [page EXCEPT !.seen = <<>>] /\ saved' = saved
    <2>1. /\ page' = [f \in PageFields |-> page'[f]] /\ page'.run = saved
          /\ page'.pc = "observing" /\ page'.seen = <<>>
      BY <1>1, <1>4, Zenon DEF PageFields
    <2>2. DOMAIN page'.seen = {} /\ page'.seen = [e \in DOMAIN page'.seen |-> page'.seen[e]]
      BY <2>1
    <2>3. PageOK'
      BY <1>1, <1>4, <2>1, <2>2 DEF PageOK, AllStages
    <2>4. QED
      BY <1>1, <1>4, <2>3, RunKept DEF RunInv, Moves
  <1>5. QED
    BY <1>1, <1>2, <1>3, <1>4, <1>s DEF Judge

\* Every step of the run, and of everyone else, keeps the run's invariant.
LEMMA RunStep ==
  ASSUME RowsOK, RunInv, [ProofNext]_proofVars
  PROVE  RunInv'
  <1>1. CASE Create
    <2>1. VerifiedStaysTrue'
      BY <1>1 DEF Create, VerifiedStaysTrue
    <2>2. QED
      BY <1>1, <2>1, RunContinues DEF Create, AllStages
  <1>2. CASE Resume
    <2>1. saved \in 0..AllStages /\ page' = Continue(saved) /\ saved' = saved
          /\ UNCHANGED <<vars, late>>
      BY <1>2 DEF Resume, RunInv, PageOK, AllStages
    <2>2. VerifiedStaysTrue'
      BY <2>1 DEF RunInv, VerifiedStaysTrue, vars
    <2>3. PICK n : n = saved
      OBVIOUS
    <2>4. QED
      BY <2>1, <2>2, <2>3, RunContinues
  <1>3. CASE Serve \/ FailItem \/ Answered \/ Observe \/ Judge
    BY <1>3, RunServes, RunAnswered, RunObserves, RunJudged
  <1>4. CASE LoseAnswer \/ Reload
    <2>1. page.run = saved
      BY DEF RunInv, PageOK
    <2>2. QED
      BY <1>4, <2>1, RunPauses DEF LoseAnswer, Reload, GiveUp
  <1>5. ASSUME Moves, page' = page, saved' = saved, late' \subseteq AskType,
               saved = NoRun => late' = late /\ \A k \in {PlayA, PlayB} : reservations'[k].state = "none"
        PROVE  RunInv'
    <2>1. Steady /\ ReceiptsOK
      BY <1>5, MovesSteady DEF RunInv
    <2>2. PageOK' /\ ReceiptsOK' /\ VerifiedStaysTrue'
      BY <1>5, <2>1, SamePage, SteadyKeeps, VerifiedKept, Zenon DEF RunInv
    <2>3. Unsent'
      BY <1>5 DEF RunInv, Unsent
    <2>4. QED
      BY <1>5, <2>2, <2>3 DEF RunInv
  <1>6. ASSUME NEW x \in late, ServeLate(x)
        PROVE  RunInv'
    <2>1. x \in AskType /\ saved # NoRun /\ page' = page /\ saved' = saved
      BY <1>6 DEF ServeLate, RunInv, Unsent
    <2>2. Moves /\ late' \subseteq AskType
      <3>1. ASSUME NEW y \in [op : {x.op}, item : {x.item + 1}, replayed : 0..3, ok : BOOLEAN],
                   ServeItem(x, y), late' = (late \ {x}) \cup (IF Served(y) THEN {} ELSE {y})
            PROVE  Moves /\ late' \subseteq AskType
        <4>1. y \in AskType
          BY <2>1 DEF AskType
        <4>2. Moves
          BY <2>1, <3>1, ItemDue DEF ServeItem, Moves
        <4>3. QED
          BY <3>1, <4>1, <4>2 DEF RunInv
      <3>2. CASE late' = late \ {x} /\ UNCHANGED vars
        BY <3>2 DEF RunInv, Moves
      <3>3. QED
        BY <1>6, <3>1, <3>2 DEF ServeLate
    <2>3. QED
      BY <1>5, <2>1, <2>2
  <1>7. CASE Disturb \/ Others
    <2>1. UNCHANGED <<page, saved, late>>
      BY <1>7, Zenon DEF Disturb, Others, pageVars
    <2>2. QED
      BY <1>5, <1>7, <2>1, OthersElsewhere DEF Moves, RunInv, Unsent
  <1>8. CASE UNCHANGED proofVars
    BY <1>5, <1>8 DEF proofVars, pageVars, vars, Moves, RunInv, Unsent
  <1>9. QED
    BY <1>1, <1>2, <1>3, <1>4, <1>6, <1>7, <1>8 DEF ProofNext, Execute

\* Every step of the run is a step of the store or leaves the store alone.
LEMMA RunMoves ==
  ASSUME RowsOK, RunInv, [ProofNext]_proofVars
  PROVE  [Next]_vars
  <1>1. ASSUME NEW x \in AskType, NEW y, ServeItem(x, y)
        PROVE  Moves
    BY <1>1, ItemDue DEF ServeItem, Moves
  <1>2. CASE Serve
    BY <1>1, <1>2, MovesNext DEF Serve, RunInv, PageOK, AskOK
  <1>3. CASE FailItem
    <2>1. page.ask \in AskType /\ ~Served(page.ask)
      BY <1>3 DEF FailItem, RunInv, PageOK, AskOK
    <2>2. Moves
      BY <1>3, <2>1, ItemDue DEF FailItem, Moves
    <2>3. QED
      BY <2>2, MovesNext
  <1>4. CASE \E x \in late : ServeLate(x)
    <2>1. PICK x \in late : ServeLate(x)
      BY <1>4
    <2>2. Moves
      BY <1>1, <2>1 DEF ServeLate, RunInv, Moves
    <2>3. QED
      BY <2>2, MovesNext
  <1>5. CASE Disturb \/ Others
    BY <1>5, MovesNext DEF Moves
  <1>6. CASE UNCHANGED vars
    BY <1>6
  <1>7. QED
    BY <1>2, <1>3, <1>4, <1>5, <1>6 DEF ProofNext, Execute, Create, Resume, Answered,
       Verified, Observe, Judge, LoseAnswer, Reload, proofVars

\* So the run's invariant always holds.
LEMMA RunInvariant == ProofSpec => [](RowsOK /\ Paired /\ RunInv)
  <1>1. ProofInit => RowsOK /\ Paired /\ RunInv
    <2>1. SUFFICES ASSUME ProofInit PROVE RowsOK /\ Paired /\ RunInv
      OBVIOUS
    <2>2. RowsOK /\ Paired
      BY <2>1, InitialRows DEF ProofInit
    <2>3. /\ \A k \in Key : reservations[k].state = "none"
          /\ \A e \in Event : deliveries[e].status = "none"
      BY <2>1 DEF ProofInit, Init, NoReservation, NoDelivery
    <2>4. PageOK
      BY <2>1, Zenon DEF ProofInit, PageOK, Fresh, PageFields, NoRun
    <2>5. QED
      BY <2>1, <2>2, <2>3, <2>4, ProofRunAssumption
         DEF ProofInit, RunInv, Unsent, ReceiptsOK, VerifiedStaysTrue, Fresh, NoRun
  <1>2. RowsOK /\ Paired /\ RunInv /\ [ProofNext]_proofVars => RowsOK' /\ Paired' /\ RunInv'
    BY RunMoves, RunStep, RowsStep, PairedStep
  <1>3. QED
    BY <1>1, <1>2, PTL DEF ProofSpec

\* What a stage of the integration proof has verified stays true of the store,
\* for any other clients, workers that fail, replays, sweeps, lost answers,
\* reloads and late requests (execute in proof.js, which reads the receipts one
\* by one).
THEOREM VerifiedAlwaysTrue == ProofSpec => []VerifiedStaysTrue
  <1>1. RunInv => VerifiedStaysTrue
    BY DEF RunInv
  <1>2. QED
    BY <1>1, RunInvariant, PTL

\* The plan of a run is in session storage before anything is held under its
\* keys, and stays there (execute and save in proof.js).
THEOREM HoldsAlwaysRemembered == ProofSpec => []HoldsRemembered
  <1>1. RunInv => HoldsRemembered
    BY DEF RunInv, Unsent, HoldsRemembered
  <1>2. QED
    BY <1>1, RunInvariant, PTL

-----------------------------------------------------------------------------
(* Retries *)

INSTANCE FiniteSetTheorems

\* A claim is reported failed at most once, also by dispatchers that come back
\* after their lease, and a dead row has used its attempts up.
THEOREM RetriesAlwaysFenced == Spec => []RetriesFenced
  <1>0. ClaimsCount
    <2>1. ASSUME NEW n \in Nat, NEW S \in SUBSET (1..n)
          PROVE  /\ Cardinality(S) \in Nat
                 /\ \A x : x \notin S => Cardinality(S \cup {x}) = Cardinality(S) + 1
      <3>1. IsFiniteSet(1..n)
        BY FS_Interval
      <3>2. IsFiniteSet(S)
        BY <3>1, FS_Subset, Zenon
      <3>3. QED
        BY <3>2, FS_CardinalityType, FS_AddElement, Zenon
    <2>2. QED
      BY <2>1, FS_EmptySet, Zenon DEF ClaimsCount
  <1>1. Init => \A e \in Event : RetriesOf(e)
    <2> SUFFICES ASSUME Init, NEW e \in Event PROVE RetriesOf(e)
      OBVIOUS
    <2>1. ClaimsOf(e) = {}
      BY DEF Init, ClaimsOf
    <2>2. Cardinality({}) = 0
      BY FS_EmptySet
    <2>3. audit[e]["retry"] = 0 /\ outbox[e].state = "none"
      BY DEF Init, NoOutbox, AuditKind
    <2>4. QED
      BY <2>1, <2>2, <2>3 DEF RetriesOf, Once
  <1>2. /\ RowsOK /\ Paired /\ (\A e \in Event : OwnerOf(e))
        /\ (\A e \in Event : RetriesOf(e)) /\ [Next]_vars
        => (\A e \in Event : RetriesOf(e))'
    BY <1>0, RetriesStep
  <1>3. RowsOK /\ (\A e \in Event : RetriesOf(e)) => RetriesFenced
    <2> SUFFICES ASSUME RowsOK, \A e \in Event : RetriesOf(e), NEW e \in Event
                 PROVE  /\ audit[e]["retry"] <= Cardinality(ClaimsOf(e))
                        /\ outbox[e].state = "dead" => outbox[e].attempts >= MaxAttempts
      BY DEF RetriesFenced
    <2>1. audit[e]["retry"] \in Nat /\ Cardinality(ClaimsOf(e)) \in Nat
      BY <1>0, AuditNumbers, ClaimsFinite DEF AuditKind
    <2>2. QED
      BY <2>1 DEF RetriesOf, Once
  <1>4. QED
    BY <1>1, <1>2, <1>3, RowsAlways, OwnerAlways, PTL DEF Spec

=============================================================================
