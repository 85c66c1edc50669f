------------------------------ MODULE Readers ------------------------------
(***************************************************************************)
(* The reads of the store: Assurance, Evidence and Snapshot.  Each one is  *)
(* a transaction of several SELECTs, and any other transaction of Store    *)
(* may commit between two of them.  BeginTx asks for repeatable read, so   *)
(* every statement sees the tables as they were at the first one; SQLite's *)
(* read transaction does the same.                                         *)
(*                                                                         *)
(* A step is one statement.  The last one also computes the answer and     *)
(* commits.  Names, screens, audit rows and times are read without a step: *)
(* nothing below is about them.                                            *)
(***************************************************************************)
EXTENDS Store, FiniteSetsExt, TLC

CONSTANTS
  Reader,   \* requests that read
  Limit     \* rows of a table Snapshot returns (100)

ASSUME ReadersAssumption == Limit \in Nat

VARIABLES
  reads,    \* the read transaction of each reader
  reports   \* the last answer each reader got

readVars == <<reads, reports>>
readerVars == <<vars, readVars>>

NoRead == [kind |-> "none"]
NoReport == [kind |-> "none"]

Tables == [reservations |-> reservations, deliveries |-> deliveries]

ReadersInit ==
  /\ Init
  /\ reads = [r \in Reader |-> NoRead]
  /\ reports = [r \in Reader |-> NoReport]

\* Mutant: the transaction runs at PostgreSQL's default level, read committed.
SeesLatest(r) == Tables

\* What the second and later statements of a transaction see.
Sees(r) == reads[r].snap

\* The first statement fixes what the others see.
Open(r, kind, about, got) ==
  /\ reads[r] = NoRead
  /\ reads' = [reads EXCEPT ![r] =
                 [kind |-> kind, about |-> about, snap |-> Tables, got |-> got]]
  /\ reports' = [reports EXCEPT ![r] = NoReport]
  /\ UNCHANGED vars

Reading(r, kind, fields) ==
  reads[r].kind = kind /\ DOMAIN reads[r].got = fields

Keep(r, got) ==
  /\ reads' = [reads EXCEPT ![r].got = got @@ @]
  /\ UNCHANGED <<reports, vars>>

Answer(r, report) ==
  /\ reports' = [reports EXCEPT ![r] = report]
  /\ reads' = [reads EXCEPT ![r] = NoRead]
  /\ UNCHANGED vars

-----------------------------------------------------------------------------
(* assurance.go *)

\* Reservations of campaign c on screen s in one state, and what they cost.
Plays(T, c, s, state) ==
  {k \in Key : /\ T.reservations[k].state = state
               /\ T.reservations[k].campaign = c
               /\ T.reservations[k].screen = s}

\* Mutant: the money of a reservation is added once per receipt linked to it.
MicrosPerReceipt(T, plays) ==
  MapThenSumSet(LAMBDA k : T.reservations[k].cost
    * Cardinality({e \in Event : /\ T.deliveries[e].status # "none"
                                 /\ T.deliveries[e].receipt.reservation = k}), plays)

Micros(T, plays) == MapThenSumSet(LAMBDA k : T.reservations[k].cost, plays)

ScreensOf(T, c) ==
  {T.reservations[k].screen : k \in
     {x \in Key : T.reservations[x].state # "none" /\ T.reservations[x].campaign = c}}

\* The receipts with one status linked to campaign c's reservations on s: the
\* JOIN goes by the reservation the payload names.
Linked(T, c, s, status) ==
  {e \in Event :
     /\ T.deliveries[e].status = status
     /\ T.deliveries[e].receipt.reservation # Unknown
     /\ LET r == T.reservations[T.deliveries[e].receipt.reservation]
        IN  r.state # "none" /\ r.campaign = c /\ r.screen = s}

AssuranceCampaign(r, c) ==
  Open(r, "assurance", c, [reserved |-> reserved[c], spent |-> spent[c]])

\* One row per screen with a reservation, money summed over reservations only.
\* The plays held, released and awaiting evidence are left out: they are
\* counted like the settled ones.
AssuranceScreens(r) ==
  /\ Reading(r, "assurance", {"reserved", "spent"})
  /\ LET T == Sees(r)
         c == reads[r].about
         row(s) == [settledPlays |-> Cardinality(Plays(T, c, s, "settled")),
                    heldMicros |-> Micros(T, Plays(T, c, s, "held")),
                    settledMicros |-> Micros(T, Plays(T, c, s, "settled"))]
     IN  Keep(r, [screens |-> [s \in ScreensOf(T, c) |-> row(s)]])

Verdicts == {"settled", "duplicate", "quarantined", "failed", "accepted"}

\* Decisions are added to a screen only if the second statement listed it.
AssuranceDecisions(r) ==
  /\ Reading(r, "assurance", {"reserved", "spent", "screens"})
  /\ LET T == Sees(r)
         c == reads[r].about
         got == reads[r].got
         held == MapThenSumSet(LAMBDA s : got.screens[s].heldMicros, DOMAIN got.screens)
         paid == MapThenSumSet(LAMBDA s : got.screens[s].settledMicros, DOMAIN got.screens)
     IN  Answer(r,
           [kind |-> "assurance", campaign |-> c,
            settledPlays |-> [s \in DOMAIN got.screens |-> got.screens[s].settledPlays],
            decisions |-> [s \in DOMAIN got.screens |->
              [v \in Verdicts |-> Cardinality(Linked(T, c, s, v))]],
            total |-> [v \in Verdicts |->
              MapThenSumSet(LAMBDA s : Cardinality(Linked(T, c, s, v)), Screen)],
            budgetConsistent |-> /\ held = got.reserved /\ paid = got.spent
                                 /\ held + paid <= Budget[c]])

-----------------------------------------------------------------------------
(* evidence.go *)

\* The receipt with its outbox row; one that does not exist is answered 404.
EvidenceDelivery(r, e) ==
  /\ deliveries[e].status # "none"
  /\ Open(r, "evidence", e, [status |-> deliveries[e].status, outbox |-> outbox[e].state])

EvidenceReservation(r) ==
  /\ Reading(r, "evidence", {"status", "outbox"})
  /\ LET T == Sees(r)
         k == T.deliveries[reads[r].about].receipt.reservation
     IN  Answer(r, [kind |-> "evidence", event |-> reads[r].about,
                    status |-> reads[r].got.status, outbox |-> reads[r].got.outbox,
                    hold |-> IF k = Unknown THEN "none" ELSE T.reservations[k].state])

-----------------------------------------------------------------------------
(* Store.Snapshot *)

\* Up to Limit rows.
Page(rows) == {p \in SUBSET rows : Cardinality(p) = Min({Limit, Cardinality(rows)})}

SnapshotCampaigns(r) ==
  Open(r, "snapshot", "all", [reserved |-> reserved, spent |-> spent])

\* The newest reservations.
SnapshotReservations(r) ==
  /\ Reading(r, "snapshot", {"reserved", "spent"})
  /\ LET R == Sees(r).reservations
         rows == {k \in Key : R[k].state # "none"}
     IN  \E p \in Page(rows) :
           /\ \A k \in p, x \in rows \ p : R[k].age <= R[x].age
           /\ Keep(r, [holds |-> [k \in p |-> R[k]]])

\* The newest deliveries, whose order Store does not keep.
SnapshotDeliveries(r) ==
  /\ Reading(r, "snapshot", {"reserved", "spent", "holds"})
  /\ LET D == Sees(r).deliveries
     IN  \E p \in Page({e \in Event : D[e].status # "none"}) :
           Keep(r, [receipts |-> [e \in p |-> D[e]]])

\* The counts of all deliveries, and whether one is still pending.
SnapshotCounts(r) ==
  /\ Reading(r, "snapshot", {"reserved", "spent", "holds", "receipts"})
  /\ LET D == Sees(r).deliveries
     IN  Answer(r, [kind |-> "snapshot",
           counts |-> [v \in Verdicts |-> Cardinality({e \in Event : D[e].status = v})]]
           @@ reads[r].got)

-----------------------------------------------------------------------------
\* A statement fails or the request ends: the reader gets an error.
Abort(r) ==
  /\ reads[r] # NoRead
  /\ reads' = [reads EXCEPT ![r] = NoRead]
  /\ UNCHANGED <<reports, vars>>

Read(r) ==
  \/ \E c \in Campaign : AssuranceCampaign(r, c)
  \/ AssuranceScreens(r) \/ AssuranceDecisions(r)
  \/ \E e \in Event : EvidenceDelivery(r, e)
  \/ EvidenceReservation(r)
  \/ SnapshotCampaigns(r) \/ SnapshotReservations(r)
  \/ SnapshotDeliveries(r) \/ SnapshotCounts(r)
  \/ Abort(r)

ReadersNext ==
  \/ \E r \in Reader : Read(r)
  \/ Next /\ UNCHANGED readVars

ReadersSpec == ReadersInit /\ [][ReadersNext]_readerVars

-----------------------------------------------------------------------------
(* What the answers promise *)

Reported(kind) == {reports[r] : r \in {x \in Reader : reports[x].kind = kind}}

\* An assurance report adds up although its parts are read one after another:
\* the budget is consistent, a screen has as many settled plays as settled
\* receipts, no receipt of the campaign is missing from its screens, and a
\* duplicate is never shown for a screen without a settled play.
AssuranceAddsUp ==
  \A a \in Reported("assurance") :
    /\ a.budgetConsistent
    /\ \A s \in DOMAIN a.decisions :
         /\ a.settledPlays[s] = a.decisions[s]["settled"]
         /\ a.decisions[s]["duplicate"] > 0 => a.settledPlays[s] > 0
    /\ \A v \in Verdicts :
         a.total[v] = MapThenSumSet(LAMBDA s : a.decisions[s][v], DOMAIN a.decisions)

\* Evidence never misleads about who was paid: it shows a settled or duplicate
\* receipt only with a settled reservation, and if it shows a settled
\* reservation with a receipt that did not settle it, that receipt never will.
EvidenceStaysTrue ==
  \A v \in Reported("evidence") :
    /\ v.status \in {"settled", "duplicate"} => v.hold = "settled"
    /\ v.status # "settled" /\ v.hold = "settled" =>
         deliveries[v.event].status # "settled"
    /\ v.status = "accepted" => v.outbox \in {"pending", "leased", "dispatched"}

\* The console never shows a budget from before a receipt with a status from
\* after it: a campaign's counters cover the reservations listed, exactly so
\* if all are listed, and a receipt is listed as settled only if its
\* reservation is, and is counted.
SnapshotCoherent ==
  \A n \in Reported("snapshot") :
    LET of(c, state) == {k \in DOMAIN n.holds :
                           n.holds[k].campaign = c /\ n.holds[k].state = state}
        sum(ks) == MapThenSumSet(LAMBDA k : n.holds[k].cost, ks)
        settled == {e \in DOMAIN n.receipts : n.receipts[e].status = "settled"}
    IN  /\ \A c \in Campaign :
             /\ sum(of(c, "held")) <= n.reserved[c]
             /\ sum(of(c, "settled")) <= n.spent[c]
             /\ Cardinality(DOMAIN n.holds) < Limit =>
                  /\ sum(of(c, "held")) = n.reserved[c]
                  /\ sum(of(c, "settled")) = n.spent[c]
        /\ \A e \in settled :
             LET k == n.receipts[e].receipt.reservation
             IN  k \in DOMAIN n.holds => n.holds[k].state = "settled"
        /\ Cardinality(settled) <= n.counts["settled"]

\* Every answer of several statements is one moment's: both of the above hold
\* whatever is reserved, settled or released between two of its statements.
AnswersCoherent == EvidenceStaysTrue /\ SnapshotCoherent

=============================================================================
