# Afterglow in TLA+

Afterglow holds part of an advertising campaign's budget for a play on a screen,
accepts playback receipts from partners at least once, and settles
each hold once. Around that core it has a foot-traffic measurement service, an
airport catalog, a local demo with a data reset, and browser pages that drive it.

This directory holds TLA+ models of the system, TLC runs that check them on
small instances, and TLAPS proofs that hold for every instance. `PROJECT.json`
lists components, runs, mutants, hazards and theorems, and gives the source lines
of every definition that models code.

## The system's parts

| Part | Source | Module | State |
| --- | --- | --- | --- |
| Settlement ledger, receipts | `internal/core/store.go`, `schema.sql` | `Store`, `Settlement` | modelled |
| Transactional outbox | `internal/core/queue.go` | `Store` | modelled |
| Worker processes | `internal/pipeline/worker.go` | `Worker`, `Timing` | modelled |
| Pub/Sub transport | `internal/pipeline/pubsub.go` | `PubSub` | modelled |
| Fault controls of the demo | `internal/httpapi/demo.go` | `Worker` | partly |
| Receipt batches, rate limit, slots | `internal/httpapi/batch.go`, `server.go` | `Admission` | modelled; authentication and formatting are not |
| Data reset, generations | `internal/localdemo/reset.go`, `server.go`, `demo-reset.js` | `DemoReset` | modelled |
| Foot-traffic measurement | `internal/foottraffic/store.go`, `http.go` | `FootTraffic`, `TrafficReport` | modelled |
| Airport catalog | `internal/airports/catalog.go`, `cmd/airports` | `AirportCatalog` | modelled; search is not |
| Readers: snapshot, assurance, evidence | `internal/core/store.go`, `assurance.go`, `evidence.go` | `Readers` | modelled |
| Integration proof page | `internal/console/web/proof.js` | `ProofRun`, `DemoReset` | modelled |
| Console shell: polling, ledger, dialogs, forms | `internal/console/web/app.js`, `navigation.js` | `Console` | partly: no drawing |
| Campaign assurance page | `internal/console/web/assurance.js` | `AssurancePage` | modelled |
| Receipt intake page | `internal/console/web/intake.js` | `IntakePage` | modelled |
| Foot-traffic page | `internal/console/web/foottraffic.js` | `TrafficPage` | modelled |
| Migration, start and shutdown | `internal/core/migrations.go`, `cmd/afterglow` | | not modelled |
| Drawing, telemetry, tools, deployment | | | not modelled: no state the system depends on |

How they interact: clients call `Reserve` and `Accept` through the HTTP server.
`Accept` writes a delivery and its outbox row in one transaction. A worker
process claims a due outbox row with a lease, and either reconciles the delivery
itself (local transport) or publishes an envelope and marks the row dispatched
(Pub/Sub), in which case a subscription callback reconciles it. Reconciling
(`Process`) decides the delivery and, if it matches, settles the hold. A sweep in
each worker releases expired holds. Operators reopen failed and quarantined
deliveries with `Replay`.

## Modules

```
Settlement <-- refines -- Store <-- extends -- Worker <-- extends -- PubSub
                                               Worker <-- extends -- Timing
                          Store <-- extends -- Readers
                          Store <-- extends -- ProofRun
FootTraffic <-- extends -- TrafficReport
DemoReset      Admission      AirportCatalog      TrafficPage
Console <-- extends -- AssurancePage, IntakePage <-- extend -- ConsolePages
StoreProofs <- PipelineProofs (PubSub, Timing) <- SystemProofs
StoreProofs <- EvidenceProofs (ProofRun)
ConsoleProofs, ReservationProofs (ConsolePages)
TrafficProofs (TrafficPage, TrafficReport)
ServiceProofs (DemoReset, Admission, AirportCatalog)
MC* : instances for TLC
```

### Store and Settlement

One action of `Store` is one committed transaction of one method: `Reserve`,
`Accept`, `Process`, `release`, `Claim`, `Dispatched`, `Complete`, `FailJob`,
`Replay`; one more lets time pass. A call that is refused, or that repeats an
earlier answer, changes nothing and is a stuttering step. Callers are
unconstrained: a job returned by `Claim` may be used late, twice or never, so
`jobs` keeps all of them, and a job's index is its owner token.

* Rows are named by the columns the schema makes unique: a reservation by its
  idempotency key, a delivery and its outbox row by the event ID. One tenant is
  modelled.
* Time is kept as differences to the clock (age of a hold, rest of a lease, rest
  of a retry delay), which stop at the value after which nothing depends on them.
  All processes share one clock. The two readings of the clock in `Reserve` are
  one instant.
* `Claim` may take any due row. The code takes the oldest one that is not locked,
  so the model has more behaviours.
* The `attempts` column of deliveries and the wording of reasons are left out.
  The reason `malformed_payload` cannot occur: `Accept` marshals the payload.
* The CHECK constraints of the schema are not guards. That they never fire is
  part of `TypeOK`.
* On SQLite transactions are serial. On PostgreSQL the methods lock the row they
  decide on before reading it; that this makes them atomic is assumed here.

`Settlement` is what the ledger promises with no counters, receipts or clocks: a
hold is placed only if the budget covers it with all that is held or paid, and is
then charged once or returned once. `ImplementsSettlement` maps the reservations
of `Store` to it.

### Worker

Each process is idle or at a point of `Tick` or of its sweep; a step is one
transaction or one change of the process's own memory. Between two steps other
processes, clients and operators act, time passes, the process crashes (its
memory is gone, the lease stays), or the call fails: rolled back, or applied with
its answer lost. `Paused`, `FailNext` and `DropAck` are set by the demo's
handlers at any time. The breaker counts failures up to `Trip`; the code's counter
goes on but is only compared with that limit. The 8-second timeout of an operation
is not modelled: a step may take any time, longer than the lease, too.

`Timing` watches `Worker` with history variables: how long a row has been leased to
its owner (`held`), how many Ticks of a process failed in a row (`streak`), and how
long it has rested since the last of them (`rested`). They are computed from the
steps, not from the deadlines the code stores, so a lease or a cooldown that is too
short, or a breaker that opens too late or never, is seen. No step depends on them
(`WatchingChangesNothing`).

### PubSub

Replaces `Consume` inside `Tick` by `Publish` and `Dispatched`, and adds
subscription callbacks. The broker (external) keeps a message until it is
acknowledged, delivers it any number of times in any order, and may move a
negatively acknowledged one to the dead-letter topic, from which operators
republish. Malformed messages and envelopes of unknown deliveries are there from
the start; they leave by way of `QuarantineTransport`. The receivers of one
process share its fault controls.

### Readers

`Assurance`, `Evidence` and `Snapshot` as transactions with one step per SELECT;
any transaction of `Store` may commit between two of them. `Sees` is what the later
statements see: the tables at the first one, because `BeginTx` asks for repeatable
read. With PostgreSQL's default level instead (the mutant `SeesLatest`) reports,
evidence and snapshots all go wrong. Screens' names, audit rows and times are not read.
A snapshot's `oldest_pending_ms` is left out: `Now` is taken before the transaction
begins, so it can be slightly negative.

### ProofRun

`execute` of `proof.js` as a client of `Store`: the page of each tab, the run in its
session storage, and its requests, which take effect item by item at the server,
possibly after the page gave up or was reloaded. A run is known by the number of its
verified stages. One run in one tab is modelled; another run has identities of its
own and meets this one only in the budget, where any other client (`Disturb`) stands
for it. Session storage is assumed to work.

Workers decide accepted receipts (`Process`), or claim them and give them up at the
attempt limit (`FailJob`), and operators replay those. A stage whose receipt failed is
not verified, and `observe` waits for it in vain until it is replayed. `Dispatched` and
`Complete` are left out here: all they do is keep a row from being claimed. Claims,
replays and the other client's reservations (`Disturb`) count as disturbances and share
their bound with lost answers and reloads.

### FootTraffic and TrafficReport

A session is one call of `Ingest`, `ReplaceSample` or `EmptySample`, statement by
statement: checks on the input, `lockScope`, the ledger lookup, the deletions, the
insertions and the commit. It may fail at any point, or lose its answer. What a
transaction has done is visible to others only after the commit. `TrafficReport`
is `Report` as a function of the stored windows.

### DemoReset

The gate (an `RWMutex`) of the server, the operation mutex of the worker, the
reset's transaction, the announced generation, requests in flight, and browser
tabs with their remembered generation, saved run and storage events. The reset
runs on SQLite only, so its transaction commits or rolls back with a known
outcome. The model lets a reader in although a writer waits, which Go does not.

### Admission

The token bucket (a call may need several tokens), the slots, `acceptBatch` item
by item, and clients that send their list again unchanged while the answer is
lost, refused or has retryable items. Tokens are whole numbers, refilled by
`Rate` every second; the code refills continuously.

### AirportCatalog

The refresh loop with its delays, the checks of the file, writing the cache
atomically, publishing the snapshot, `New` after a restart, and the stale mark of
answers. A file is a set of rows with what the checks look at. Only the process
crashes: an operating-system crash that loses the renamed file is not modelled.

### Console and ConsolePages

`Console` is the document of `app.js`: the snapshot it shows, the address and the
view drawn for it, the ledger's filter, search and page, the one dialog and the
palette over it, the forms that were opened, and the requests that wait. A handler is
one action up to its request and one from its answer on; a refresh has two
requests, whose answers are read from the engine at different times. The engine is
only what the document reads: statuses, holds, the pause and a version that every
change increases. A call the document gave up may still be served, and the key of a
reservation decides whether it makes another hold.

`AssurancePage` adds the report requests, of which several may be under way, and
`IntakePage` the plan, its hold, the example on the page and the batch that is sent.
A plan's request key is `<<0, n>>`, a form's `<<form, n>>`: `crypto.randomUUID` gives
a new one every time. `ConsolePages` puts them together. In one behaviour the user
acts either on the intake page or on the others; answers, the timer and the
engine's steps interleave with both. What the receipts of an example contain is
reduced to the hold they report, since `Admission` and `Store` cover the rest.
A hidden document (`document.hidden`) is treated like paused updates.

### TrafficPage

`foottraffic.js` with its in-memory attempts, what `sessionStorage` keeps of them,
and the requests under way with their generation number. `net` also keeps writes the page
gave up or was reloaded over, because the service may still carry them out. The
service is its stored batches and a version for each sample; that imports are atomic and
idempotent is what `FootTraffic` shows. Other clients write the same samples, and
batches grow too old: for the page at seven days (`old`, `foottraffic.js:23`), and for the
service at seven days before the full hour (`refused`, `store.go:98-106`), which is up to
an hour later. So the service still takes some batches a reload has dropped, and refuses
none that a reload has just kept. `waits` marks a write whose handler awaits the report it
asked for, `posted` and `stamp` are histories the properties use. Storage
is assumed to work.

## Runs

Every property of a run is violated by at least one mutant: a plausible slip in
the code, defined beside the definition it replaces (`PROJECT.json`).

| Run | Instance | What it shows |
| --- | --- | --- |
| `Store` | 1 campaign, 2 keys, 2 receipts (one may name no hold), 3 claims, 2 attempts, 1 replay | balances, single charge, justified verdicts, intents, fencing, retries, audit trail, refinement of `Settlement`; 1,936,526 states |
| `Worker` | 2 processes, lease and cooldown of 2, 6 claims, 2 faults, no replays | receipts are decided and their intents closed, holds resolved; a lease lasts its whole length, and after `Trip` failures a process claims nothing for the whole cooldown; 169,652 states |
| `PubSub` | 1 process, 1 receiver, 1 receipt, 2 strays, 7 claims, 2 faults, 1 replay | dispatched work keeps a message, strays are retained, receipts are decided; 466,262 states |
| `Traffic` | 3 sessions, 7 feeds, 4 hours | windows and ledger agree, nothing counted twice, replacements atomic, small counts hidden; 28,428 states |
| `TrafficRetry` | 2 sessions | **violated**, see Findings |
| `Reset` | 2 tabs, 2 requests, 2 resets, 1 fault | nothing stale survives or returns, no lock is left behind; 2,433,181 states |
| `Batch` | 3 clients, burst 5, rate 4, 2 slots, 2 mishaps | writes are paid for, credited once, batches finish; 107,345 states |
| `Airports` | 6 files, 3 failures | the catalog stays, is never cut short, and becomes fresh; 3,456 states |
| `Readers` | 3 keys, 2 receipts, 2 screens, 1 reader, limit 2 | reports add up, evidence stays true, snapshots are coherent; 823,999 states |
| `Proof` | 1 run, another client, 1 claim, 1 attempt, 1 replay, 2 faults and disturbances | verified stages stay true although receipts fail, holds are remembered, a resumed run completes if failed receipts are replayed; 738,842 states |
| `Console` | 3 receipts on pages of 1, 2 campaigns, 2 prices, 3 clicks, 4 intake actions, 1 fault | no second hold for a form, ledger in range, snapshots in order, reports of the selected campaign, examples as asked, holds tracked, the page catches up; 1,347,577 states |
| `TrafficPage` | 2 samples (one generated), 2 batches each, 4 clicks, 2 faults, 1 other step | the last import can be repeated, confirmed writes show in the report, the page never stays busy; 1,826,386 states |

### Bounds

`MaxJobs` (claims), `MaxReplays`, `MaxFaults`, `MaxMishaps`, `MaxFailures`, `MaxResets`,
`MaxHour`, and for the
pages `MaxClicks`, `MaxIntake`, `MaxReads`, `MaxBatches` and `MaxOthers`, bound the
models and stand in guards. The time constants are small but
keep the order of the cases: before, at and after the end of a window, a grace
period, a lease, a delay and a cooldown. With two attempts a row is retried, given
up and replayed. Budget 3 with costs 1 and 2 fits one large hold and not two. In
`Worker` and `PubSub` the bound `MaxJobs` is above what all faults and replays
together can use up: `Len(jobs) < MaxJobs` holds in every state of both, so no
behaviour ends at the bound. Replays under liveness are left to `PubSub`.

The `Worker` and `PubSub` runs use fewer rows than the `Store` run because what
they add is per process; that they only take steps of `Store` is proved.
One reader is enough, since readers change nothing others see. With a limit of 2
and three reservations `Snapshot` cuts its list. `Proof` has exactly the budget of
its two plays, and another client may take it first; with one attempt a claimed receipt
can fail at once, and two disturbances are enough for it to fail and be replayed, or to
fail and stay so while an answer is lost.
The `PubSub` run has no holds: its receipt names an unknown reservation, is
quarantined and can be replayed.

Three clicks on the console are enough to open a form, submit it and submit it again after a
lost answer, or to leave a filtered page while a refresh is under way; pages of one row make
the last page disappear when one receipt leaves the selection. Four actions on the
intake page load an example, change the price, load another and send it. Four clicks on the
foot-traffic page load, lose the answer, reload the document and replay. The proofs
below need none of these bounds.

### Fairness

* Processes, handlers and callbacks go on with what they started (weak fairness):
  they are goroutines without a condition to wait for, under deadlines.
* `Run` selects between two tickers. Go chooses at random among the ready ones,
  so one that keeps firing is taken again and again (strong fairness on beginning
  a tick and on starting a sweep).
* Time passes, clients retry, and the broker delivers what it holds.
* `ReceiptsDecided` and `MessagesDecided` assume that a process does not stay
  paused for ever, and the latter that dead letters are republished.
* `RunsComplete` assumes that the user presses the button again after a failure, that
  workers decide a receipt that stays accepted (`ReceiptsDecided`), and, as its premise
  `FailuresReplayed`, that receipts which failed are replayed. A receipt that stays
  `failed` blocks the run's stage for good.
* `PageCatchesUp` assumes that the two-second timer keeps firing while updates are on
  and that the requests of a refresh end: `fetch` is given up after twelve seconds.
* `PageSettles` assumes that every request of the foot-traffic page is answered,
  refused or given up after the same twelve seconds.
* Faults are finitely many. Nothing forces an operator, a client or a fault to act.

`BatchesFinish` depends on its numbers: a refused batch still costs the token the
middleware took, so the bucket must be able to hold a whole batch and the other
clients' refused attempts (`Burst >= MaxBatch + clients - 1`), and fill faster than
those use it up. The code's numbers (burst 60, 30 per second, batches of up to 50)
satisfy this for up to eleven clients; more, sending full batches in step with one
another, can keep each other out. No run shows that case: the instance has as many
clients as its numbers allow.

## Proofs

| Module | Theorems |
| --- | --- |
| `StoreProofs` | `ChargedOnceAlways`, `VerdictsJustified`, `TerminalStatesStay`, `IntentAlwaysKept`, `NewestClaimAlwaysOwns` |
| `PipelineProofs` | `WorkerImplementsStore`, `PubSubImplementsStore`, `WatchingChangesNothing`, `LeaseAlwaysRespected`, `BreakerAlwaysHonoured` |
| `SystemProofs` | `TypeCorrect`, `BudgetSafe`, `StoreImplementsSettlement`, `MessagesAlwaysKept`, `PipelineSafe` |
| `EvidenceProofs` | `TrailAlwaysAgrees`, `RetriesAlwaysFenced`, `VerifiedAlwaysTrue`, `HoldsAlwaysRemembered` |
| `ConsoleProofs` | `SnapshotsInOrder`, `ReportOfSelected`, `LedgerAlwaysInRange` |
| `ReservationProofs` | `AlwaysReservedOnce`, `ExampleAlwaysAsAsked`, `HoldsAlwaysTracked` |
| `TrafficProofs` | `AlwaysCountedOnce`, `SwapsAlwaysAtomic`, `SmallCountsAlwaysHidden`, `LastImportKept`, `ReportAlwaysCurrent` |
| `ServiceProofs` | `LocksAlwaysHeldAtWork`, `NeverAnythingStale`, `AlwaysCreditedOnce`, `ServedAlwaysStored`, `AlwaysStaysAvailable` |

They hold for any campaigns, budgets, events, processes and receivers, any finite
set of keys, and any time constants; those about the pages and services for any
receipts, samples, tabs, requests, clicks and faults, any finite set of clients and of
deliveries, and any files and feeds that are finite. They rest on the named assumptions of the
modules (`StoreAssumption`, `WorkerAssumption`, `PubSubAssumption`, `ProofRunAssumption`,
`ConsoleAssumption`, `CampaignAssumption`, `IntakeAssumption`, `TrafficPageAssumption`,
`TrafficAssumption`, `ReportAssumption`, `ResetAssumption`, `AdmissionAssumption` and
`CatalogAssumption`), which TLC evaluates in the runs.

* **Base.** `LedgerInvariant`: rows are well formed (`RowsOK`), a delivery and its
  outbox row exist together (`Paired`), and each campaign's counters are the sums
  of its reservations and stay within its budget (`BalancesOf`). `TypeOK` is not
  inductive: that `reserved` does not become negative when a hold is resolved
  needs the sum to contain that hold. Sums are cardinalities of sets of units
  (key, 1..cost), so that a changed reservation adds or removes a block of known
  size, and no induction over data is needed.
* **Verdicts.** `VerdictInv`: a settled or duplicate delivery has a sound receipt
  inside the window of a settled reservation; no two settled deliveries name one
  reservation; a settled reservation has its delivery. `ChargedOnce` alone is not
  inductive, because a duplicate needs the reservation to stay settled.
* **Refinement.** Every step maps to a hold, a resolution or a stutter of
  `Settlement`; the guard on two counters in `Reserve` is the abstract guard by
  `BalancesOf`.
* **Outbox.** `IntentOf` and `OwnerOf` say, per delivery, that an undecided one
  has an open row, and that a leased row belongs to its newest claim, whose job
  has the row's attempt count.
* **Audit.** Per key and per event, the numbers of audit rows are functions of the
  status; retries are bounded by claims, using `OwnerOf` for stale dispatchers.
* **Pipeline.** With `TasksOK` (processes work on jobs that exist and sweep
  keys) each step of `Worker` and of `PubSub`, crashes and failed calls included,
  is a step of `Store` or leaves it alone. So all the safety theorems hold of the
  running system with either transport.
* **Leases.** `LeaseInv`: what a leased row has been held for and the rest of its lease
  together are at least `Lease`. `Claim` takes a leased row only when nothing of the
  rest is left. Only the clock shortens it, and the clock lengthens what was held.
* **Breaker.** `WatchInv`: a process's failure count is its streak, and while the streak
  is full, the time it has rested and the rest of `openUntil` together are at least the
  cooldown. Between Tick's test and its claim the breaker stays closed, because only the
  process itself could fail meanwhile.
* **Broker.** `MessageKept` says that a dispatched, undecided row has a message;
  it does not say which one, and so is not inductive: an ack might drop it. `BrokerInv`
  says that it is the message of the row's newest job, that a process which has
  published and still owns an undecided row has its message in the broker, and that
  a callback past `Process` holds a message nothing depends on any more (`Finished`:
  the delivery is decided, or was reopened and waits in the outbox or for a later
  job). Once a job is finished it stays so (`FinishedStays`), and by `OwnerOf` the job
  that marks a row dispatched is its newest, which no ack can have dropped. TLC checks
  `MessageKept` with one process; the theorem covers any number, and so the
  stale process that marks a row dispatched after another has claimed it.
* **Console.** `PollsInOrder`: at most one refresh is under way, exactly while
  `refreshing` is set, and the snapshot it has read lies between the one on the page and
  the engine. `NeverOlder` is about single steps; without the bound on
  requests under way an old answer could replace a newer one. All other steps of the
  document leave the snapshot alone or begin a refresh (`ConsoleSteps`).
* **Assurance page.** `AssuranceInv`: tickets never run ahead of the generation, and
  while the newest request is under way the page shows no report. So an older
  answer does not match and the newest one is of the selected campaign.
* **Foot-traffic page.** `OneAtATime`: the page waits for one request, a write or a
  report, and it is for the selected sample. `InOrder`: a confirmed write is no newer
  than the service, and a report asked for after it is no older. `ReportCurrent`
  alone is not inductive, because what matters is which report is still under way
  when the write is confirmed. `AttemptKept` needs `OneAtATime`: the answer of
  `Empty` forgets the attempt of the selected sample.
* **Integration proof.** `RunInv`: before a run is planned nothing is held under its keys
  and nothing is under way; every stored receipt is the one the run sends; and what each
  verified stage saw is so. The store's part comes from the invariants of `StoreProofs`:
  every step of the run and of the others is one of `Store` (`MovesNext`), so a settled
  receipt stays settled and a quarantined one cannot settle a hold a second time.
* **Ledger page.** The page number is clamped when the list is drawn, and every step that
  can shorten the selection or change the view draws it or resets the page.
* **Reservation form.** `ReserveInv`: every request under way and every hold goes back to a
  submission that named its key, a key being the place in the form's log where a run of equal
  payloads starts. One key has one hold, so there are no more holds of a payload than
  times the user changed the form to it.
* **Intake page.** `IntakeInv` follows a plan's key from the plan to the request, the hold
  and the example: `PlanOK`, `DraftOK` and `WireOK` say which of them may exist together,
  `TrackedOK` that every hold is known to the page or was dropped.
* **Foot-traffic service.** `FeedInv`: besides `CountedOnce`, what an open transaction has
  read (`TxOK`) is still so, because `lockScope` keeps the others out from before the
  ledger lookup until the commit. A report depends on the windows only through
  its cells, and a cell of a small count is the same for any small count.
* **Reset.** `ResetInv`: the gate has one writer or readers, the mutex is held by the one
  at work, rows and the worker's job belong to the generation in force, a mutation for a run
  carries the run's generation, and an active page knows the generation its tab
  has stored.
* **Batches.** `AdmissionInv`: a result "new" that is still to be answered is of a
  receipt that is stored, not yet credited and in no other such answer; that is what
  lost answers and crashes could break and `CreditedOnce` does not say.
* **Airport catalog.** `CatalogInv`: once a file is renamed the cache is that snapshot,
  and every list that is kept has at least `Minimum` airports: identifiers of an
  accepted file are as many as its rows.

Only model-checked: every liveness property (`ReceiptsDecided`, `HoldsResolved`,
`MessagesDecided`, `BatchesFinish`, `BecomesFresh`, `RunsComplete`, `PageCatchesUp`,
`PageSettles`), which this prover does not handle; and `AssuranceAddsUp` and
`AnswersCoherent` of `Readers`, which compare sums over sets of rows (by screen, or cut at
a limit) with the campaign's counters: how a sum splits over parts of a set needs induction
over data.

## Findings

`TrafficRetry`: the documentation promises that an exact retry returns the first
result. `Ingest` checks the age of every window before it looks at the ledger
(`foottraffic/store.go:106`), so a retry that arrives when a window has left the
seven-day range is answered as invalid, although the batch is in the ledger.

Behaviours worth knowing that contradict no property:

* a lost acknowledgement at the last attempt leaves the outbox row `dead` while the
  delivery is decided (`ReceiptsDecided` counts that as closed);
* a claim that ends in a crash counts as an attempt without reporting a failure,
  so a row can be claimed more often than the five attempts after which `FailJob`
  gives it up;
* a dispatched delivery whose message became a dead letter stays `accepted`, which
  `Replay` refuses: only republishing the dead letter decides it;
* a proof run one of whose holds was released before its receipt settled can never
  complete, and as `execute` plans a new run only when there is none or all stages
  are verified, that tab cannot start another one (`Ended` allows this case);
* a receipt of a proof run that a worker gave up blocks the run until an operator replays
  it: sending it again is answered as a duplicate and reopens nothing;
* `await refresh()` at the end of an action returns at once when a poll is under way, and
  that poll may have read the engine before the action: the page then shows the
  result with the next poll (`PageCatchesUp`);
* the answer of a replay closes whatever dialog is open by then, also another one;
* a reservation form that is opened again, or edited and edited back, gets a new request
  key, so after an unknown outcome it can make a second hold. `ReservedOnce` is about
  submitting an unchanged form;
* sending the batch of an older example discards a plan whose reservation is
  uncertain (`intake.js:250`), although only definitive rejections are said to do so
  (`intake.js:215`). The hold is then released by its expiry (`dropped` in
  `HoldsTracked`);
* a generated feed clears the error of the foot-traffic page, and when its example request fails the
  older report stays, without the banner;
* an import that the foot-traffic page gave up may be carried out after a later
  `Empty` or after a newer generated feed, which it then replaces.

## Not modelled

* PostgreSQL's row locks. Read from the code, they are taken in the order delivery,
  reservation, campaign and delivery, outbox row; `Reserve` takes the campaign before
  its key, and `Claim` skips locked rows. So no two transactions wait for each
  other; no run shows it.
* Migration under the advisory lock, start-up and draining at shutdown: they happen
  before or after everything modelled here.
* What the pages draw and export, the contents of sample feeds and searches, and the
  inline proof when it is opened from the overview (`ProofRun` is the same code).
* Browser storage that fails or is full.
* That failure reports between two replays stay within the attempt limit for every
  number of claims, and that every page reaches the generation in force after the
  last reset.
