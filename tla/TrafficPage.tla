---------------------------- MODULE TrafficPage ----------------------------
(***************************************************************************)
(* The foot-traffic page (internal/console/web/foottraffic.js): it loads,  *)
(* replays, generates and empties sample feeds and reads their reports.    *)
(* Every sample's last batch is kept in the page and in sessionStorage, so *)
(* that an import with an unknown outcome can be sent again, also after    *)
(* the page was reloaded.                                                  *)
(*                                                                         *)
(* The service is what FootTraffic shows of it: imports are atomic and a   *)
(* batch that is stored is not counted again.  "version" numbers the       *)
(* changes of a sample.  A write the page has given up, or whose page is   *)
(* gone, may still be carried out.  Storage is assumed to work.            *)
(***************************************************************************)
EXTENDS Integers, FiniteSets

CONSTANTS
  Sample, Random,   \* the samples and the one that is generated
  None,
  MaxBatches,       \* bound of the model: batches offered for a sample
  MaxClicks,        \* bound of the model: what the user does
  MaxOthers,        \* bound of the model: what other clients write
  MaxFaults         \* bound of the model: lost answers and failed requests

ASSUME TrafficPageAssumption ==
  /\ Random \in Sample /\ None \notin Sample
  /\ None \notin [sample : Sample, version : Int]
  /\ MaxBatches \in Nat \ {0}
  /\ MaxClicks \in Nat /\ MaxOthers \in Nat /\ MaxFaults \in Nat

Batch == 1..MaxBatches

\* An error answer; the others are batches and versions.
Refusal == -1

VARIABLES
  stored,     \* the batches of each sample
  version,    \* the number of changes of each sample
  offered,    \* the last batch offered for each sample
  old,        \* [sample, batch]: older than the seven days the page keeps
  refused,    \* those also older than the service takes, to the full hour
  page,       \* the variables of foottraffic.js
  saved,      \* what sessionStorage holds
  net,        \* requests under way
  posted,     \* history: the last batch the page sent for each sample
  stamp,      \* history: the version the page's last confirmed write made
  clicks, others, faults

server == <<stored, version, offered, old, refused>>
bounds == <<clicks, others, faults>>
trafficPageVars == <<server, page, saved, net, posted, stamp, bounds>>

NoAttempt == [batch |-> None, confirmed |-> FALSE]

FreshPage(selected, attempts) ==
  [selected |-> selected, attempts |-> attempts, report |-> None, loading |-> FALSE,
   importing |-> FALSE, emptying |-> FALSE, waits |-> FALSE, error |-> FALSE,
   notice |-> "", generation |-> 0]

Blank == [s \in Sample |-> NoAttempt]

TrafficPageInit ==
  /\ stored = [s \in Sample |-> {}]
  /\ version = [s \in Sample |-> 0]
  /\ offered = [s \in Sample |-> 0]
  /\ old = {} /\ refused = {}
  /\ \E s \in Sample \ {Random} :
       page = FreshPage(s, Blank) /\ saved = [selected |-> s, attempts |-> Blank]
  /\ net = {}
  /\ posted = [s \in Sample |-> None]
  /\ stamp = [s \in Sample |-> 0]
  /\ clicks = 0 /\ others = 0 /\ faults = 0

-----------------------------------------------------------------------------
(* Pieces of the handlers; p is the page after the handler's own changes *)

Idle(p) == ~p.loading /\ ~p.importing /\ ~p.emptying

Ask(p, kind, batch, manual) ==
  [kind |-> kind, sample |-> p.selected, batch |-> batch, manual |-> manual,
   ticket |-> p.generation, awaited |-> TRUE, answer |-> None]

\* remember: what is kept of the page.
Remember(p) == saved' = [selected |-> p.selected, attempts |-> p.attempts]

\* refresh up to its request; the other requests under way are "rest".
Refresh(p, manual, rest) ==
  LET q == [p EXCEPT !.generation = @ + 1, !.loading = TRUE, !.error = FALSE]
  IN  IF p.loading THEN page' = p /\ net' = rest
      ELSE page' = q /\ net' = rest \cup {Ask(q, "report", None, manual)}

\* "await refresh(false)" at the end of a write: one under way is not awaited.
RefreshAndWait(p, rest) ==
  Refresh(IF p.loading THEN [p EXCEPT !.importing = FALSE, !.emptying = FALSE]
                       ELSE [p EXCEPT !.waits = TRUE], FALSE, rest)

\* Mutant: the input is kept once its import is confirmed.
PostForgetful(p, batch, rest) ==
  LET q == [p EXCEPT !.attempts[p.selected] = [batch |-> batch, confirmed |-> FALSE]]
  IN  /\ page' = q
      /\ posted' = [posted EXCEPT ![p.selected] = batch]
      /\ net' = rest \cup {Ask(q, "post", batch, FALSE)}
      /\ UNCHANGED saved

\* The exact input is kept before it is sent.
Post(p, batch, rest) ==
  LET q == [p EXCEPT !.attempts[p.selected] = [batch |-> batch, confirmed |-> FALSE]]
  IN  /\ page' = q
      /\ Remember(q)
      /\ posted' = [posted EXCEPT ![p.selected] = batch]
      /\ net' = rest \cup {Ask(q, "post", batch, FALSE)}

Click == clicks < MaxClicks /\ clicks' = clicks + 1 /\ UNCHANGED <<others, faults>>

-----------------------------------------------------------------------------
(* The user *)

\* ingest(false): the service is asked for the batch to import.
Load ==
  /\ Click /\ Idle(page)
  /\ page' = [page EXCEPT !.importing = TRUE, !.notice = "working"]
  /\ net' = net \cup {Ask(page, "example", None, FALSE)}
  /\ UNCHANGED <<server, saved, posted, stamp>>

\* ingest(true): the kept batch is sent again.
Replay ==
  LET last == page.attempts[page.selected].batch
  IN  /\ Click /\ Idle(page) /\ last # None
      /\ Post([page EXCEPT !.importing = TRUE, !.notice = "working"], last, net)
      /\ UNCHANGED <<server, stamp>>

\* randomFeed: the random sample is selected and ingest(false) begins.
GenerateRandom ==
  LET p == [page EXCEPT !.report = IF page.selected = Random THEN @ ELSE None,
                        !.selected = Random, !.error = FALSE,
                        !.importing = TRUE, !.notice = "working"]
  IN  /\ Click /\ Idle(page)
      /\ page' = p
      /\ Remember(p)
      /\ net' = net \cup {Ask(p, "example", None, FALSE)}
      /\ UNCHANGED <<server, posted, stamp>>

EmptyBatch ==
  /\ Click /\ Idle(page)
  /\ page' = [page EXCEPT !.emptying = TRUE, !.notice = "working"]
  /\ net' = net \cup {Ask(page, "empty", None, FALSE)}
  /\ UNCHANGED <<server, saved, posted, stamp>>

SelectSample(s) ==
  LET p == [page EXCEPT !.selected = s, !.report = None, !.error = FALSE, !.notice = ""]
  IN  /\ Click /\ Idle(page) /\ s # page.selected
      /\ Remember(p)
      /\ Refresh(p, FALSE, net)
      /\ UNCHANGED <<server, posted, stamp>>

\* The page's own refresh button and the console's.
RefreshReport ==
  /\ Click /\ Idle(page)
  /\ Refresh(page, TRUE, net)
  /\ UNCHANGED <<server, saved, posted, stamp>>

\* Mutant: entering the view does not look for a write.
RenderAnyTime ==
  /\ ~page.loading /\ page.report = None /\ ~page.error
  /\ Refresh(page, FALSE, net)
  /\ UNCHANGED <<server, saved, posted, stamp, bounds>>

\* render: entering the view reads a report that is missing.
Render ==
  /\ Idle(page) /\ page.report = None /\ ~page.error
  /\ Refresh(page, FALSE, net)
  /\ UNCHANGED <<server, saved, posted, stamp, bounds>>

\* The document is loaded again: what sessionStorage holds is all that is left,
\* but for batches that are too old.
Reload ==
  /\ Click
  /\ page' = FreshPage(saved.selected,
       [s \in Sample |-> IF <<s, saved.attempts[s].batch>> \in old
                         THEN NoAttempt ELSE saved.attempts[s]])
  /\ net' = {[r EXCEPT !.awaited = FALSE] :
               r \in {q \in net : q.kind \in {"post", "empty"} /\ q.answer = None}}
  /\ UNCHANGED <<server, saved, posted, stamp>>

-----------------------------------------------------------------------------
(* The service *)

\* A fixed sample's batch changes with the hour, a random one every time.
Offer(s) ==
  \/ offered[s] < MaxBatches /\ offered' = [offered EXCEPT ![s] = @ + 1]
  \/ s # Random /\ offered[s] # 0 /\ UNCHANGED offered

Change(s, batches) ==
  IF stored[s] = batches THEN UNCHANGED <<stored, version>>
  ELSE /\ stored' = [stored EXCEPT ![s] = batches]
       /\ version' = [version EXCEPT ![s] = @ + 1]

\* A generated feed replaces its predecessor, a fixed one adds to it.
Import(s, b) ==
  Change(s, IF b \in stored[s] THEN stored[s]
            ELSE IF s = Random THEN {b} ELSE stored[s] \cup {b})

\* The request is answered: with a batch, a version or a refusal.
Answer(r, a) ==
  net' = (net \ {r}) \cup IF r.awaited THEN {[r EXCEPT !.answer = a]} ELSE {}

ServeExample(r) ==
  /\ r.kind = "example"
  /\ \/ Offer(r.sample) /\ Answer(r, offered'[r.sample])
     \/ UNCHANGED offered /\ Answer(r, Refusal)
  /\ UNCHANGED <<stored, version>>

ServePost(r) ==
  /\ r.kind = "post"
  /\ IF <<r.sample, r.batch>> \in refused
     THEN Answer(r, Refusal) /\ UNCHANGED <<stored, version>>
     ELSE Import(r.sample, r.batch) /\ Answer(r, version'[r.sample])
  /\ UNCHANGED offered

ServeEmpty(r) ==
  /\ r.kind = "empty"
  /\ Change(r.sample, {}) /\ Answer(r, version'[r.sample])
  /\ UNCHANGED offered

ServeReport(r) ==
  /\ r.kind = "report"
  /\ Answer(r, version[r.sample])
  /\ UNCHANGED <<stored, version, offered>>

Serve(r) ==
  /\ r.answer = None
  /\ ServeExample(r) \/ ServePost(r) \/ ServeEmpty(r) \/ ServeReport(r)
  /\ UNCHANGED <<old, refused, page, saved, posted, stamp, bounds>>

\* Another client loads or empties a sample.
OtherClient(s) ==
  /\ others < MaxOthers /\ others' = others + 1
  /\ \/ \E b \in 1..offered[s] : Import(s, b)
     \/ Change(s, {})
  /\ UNCHANGED <<offered, old, refused, page, saved, net, posted, stamp, clicks, faults>>

\* Seven days pass: the page counts them from now and the service from the
\* last full hour, so that it still takes batches the page has dropped.
Expire(s, b) ==
  /\ others < MaxOthers /\ others' = others + 1
  /\ b <= offered[s] /\ <<s, b>> \notin refused
  /\ old' = old \cup {<<s, c>> : c \in 1..b}
  /\ \E n \in 0..b : refused' = refused \cup {<<s, c>> : c \in 1..n}
  /\ UNCHANGED <<stored, version, offered, page, saved, net, posted, stamp, clicks, faults>>

-----------------------------------------------------------------------------
(* The answers *)

Awaited(r) == r.awaited /\ r.answer \notin {None, Refusal}

GetExample(r) ==
  /\ r.kind = "example" /\ Awaited(r)
  /\ Post(page, r.answer, net \ {r})
  /\ UNCHANGED <<server, stamp, bounds>>

\* The import is confirmed and the report is read again.
GetPost(r) ==
  LET p == [page EXCEPT !.attempts[page.selected].confirmed = TRUE, !.notice = "committed"]
  IN  /\ r.kind = "post" /\ Awaited(r)
      /\ Remember(p)
      /\ RefreshAndWait(p, net \ {r})
      /\ stamp' = [stamp EXCEPT ![r.sample] = r.answer]
      /\ UNCHANGED <<server, posted, bounds>>

GetEmpty(r) ==
  LET p == [page EXCEPT !.attempts[page.selected] = NoAttempt, !.report = None,
                        !.error = FALSE, !.notice = "emptied"]
  IN  /\ r.kind = "empty" /\ Awaited(r)
      /\ Remember(p)
      /\ RefreshAndWait(p, net \ {r})
      /\ posted' = [posted EXCEPT ![r.sample] = None]
      /\ stamp' = [stamp EXCEPT ![r.sample] = r.answer]
      /\ UNCHANGED <<server, bounds>>

\* Mutant: a report that ends leaves the write that waits for it under way.
LoadedOnly(p) == [p EXCEPT !.loading = FALSE, !.waits = FALSE]

\* A write that waits for this report is over with it.
Loaded(p) ==
  [p EXCEPT !.loading = FALSE, !.waits = FALSE,
            !.importing = @ /\ ~p.waits, !.emptying = @ /\ ~p.waits]

GetReport(r) ==
  /\ r.kind = "report" /\ Awaited(r)
  /\ page' = IF r.ticket # page.generation THEN page
             ELSE [Loaded(page) EXCEPT
                     !.report = [sample |-> r.sample, version |-> r.answer],
                     !.notice = IF r.manual THEN "refreshed" ELSE @]
  /\ net' = net \ {r}
  /\ UNCHANGED <<server, saved, posted, stamp, bounds>>

\* A request fails: a report's error keeps the last report on the page, a
\* write's ends the handler with its attempt kept.
Failed(r) ==
  page' = IF r.kind # "report"
          THEN [page EXCEPT !.importing = FALSE, !.emptying = FALSE, !.notice = "failed"]
          ELSE IF r.ticket # page.generation THEN page
          ELSE [Loaded(page) EXCEPT !.error = TRUE]

Refused(r) ==
  /\ r.awaited /\ r.answer = Refusal
  /\ Failed(r) /\ net' = net \ {r}
  /\ UNCHANGED <<server, saved, posted, stamp, bounds>>

\* The answer is lost or late; a write may still be carried out.
Lose(r) ==
  /\ r.awaited /\ faults < MaxFaults /\ faults' = faults + 1
  /\ Failed(r)
  /\ net' = (net \ {r}) \cup
       IF r.kind \in {"post", "empty"} /\ r.answer = None
       THEN {[r EXCEPT !.awaited = FALSE]} ELSE {}
  /\ UNCHANGED <<server, saved, posted, stamp, clicks, others>>

-----------------------------------------------------------------------------
Reply(r) ==
  Serve(r) \/ GetExample(r) \/ GetPost(r) \/ GetEmpty(r) \/ GetReport(r) \/ Refused(r)

TrafficPageNext ==
  \/ Load \/ Replay \/ GenerateRandom \/ EmptyBatch \/ RefreshReport \/ Render \/ Reload
  \/ \E s \in Sample :
       SelectSample(s) \/ OtherClient(s) \/ \E b \in Batch : Expire(s, b)
  \/ \E r \in net : Reply(r) \/ Lose(r)

\* Every request is answered, refused or given up after twelve seconds.
TrafficPageSpec ==
  /\ TrafficPageInit /\ [][TrafficPageNext]_trafficPageVars
  /\ WF_trafficPageVars(\E r \in net : Reply(r))

-----------------------------------------------------------------------------
\* The page can repeat its last import: the batch it last sent for a sample is
\* the one it keeps, in memory and in sessionStorage, whatever answer was lost
\* and however often the document is loaded again, until the sample is emptied
\* or the batch is older than seven days (a reload drops it then, though the
\* service may take it for the rest of the hour).
AttemptKept ==
  \A s \in Sample :
    (posted[s] # None /\ <<s, posted[s]>> \notin old) =>
      /\ page.attempts[s].batch = posted[s]
      /\ saved.attempts[s] = page.attempts[s]

\* When the page says that a batch was committed or a sample emptied, and shows
\* a report with no error, the report is of the selected sample and was read
\* after the write: no report that was asked for earlier takes its place.
ReportCurrent ==
  /\ page.report # None => page.report.sample = page.selected
  /\ (Idle(page) /\ page.notice \in {"committed", "emptied"} /\ ~page.error) =>
       /\ page.report # None
       /\ page.report.version >= stamp[page.selected]

\* The page never stays busy: its buttons, disabled while a write or a report
\* is under way, come back whatever fails and wherever the user goes.
PageSettles == []<>Idle(page)

=============================================================================
