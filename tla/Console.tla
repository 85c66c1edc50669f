------------------------------ MODULE Console ------------------------------
(***************************************************************************)
(* The console's document (internal/console/web/app.js): it polls the      *)
(* engine, shows the ledger page by page, runs demo scenarios, replays and *)
(* records receipts and reserves budget, each in a handler that waits for  *)
(* its answer while others run.                                            *)
(*                                                                         *)
(* The engine is reduced to what the document reads: statuses, holds, the  *)
(* dispatcher's pause and the number of changes so far.  A call that the   *)
(* document has given up may still be served.  Clicks on what a modal      *)
(* dialog covers are impossible.                                           *)
(***************************************************************************)
EXTENDS Integers, Sequences, FiniteSets

CONSTANTS
  Delivery,     \* receipts, the ones still to come included
  Initials,     \* their statuses when the document is opened
  Decision,     \* what the engine decides, of Final
  Payload,      \* valid contents of the reservation form
  None,
  PageSize,     \* rows on a page of the ledger (20)
  MaxClicks,    \* bound of the model: what the user does
  MaxFaults     \* bound of the model: lost answers

\* The pages; "other" is the proof, the foot traffic or the architecture page,
\* which use nothing of what is modelled here.  The address may name none.
Views == {"overview", "campaigns", "ledger", "recovery", "lab", "assurance", "intake", "other"}
Address == Views \cup {"unknown"}
Ledgers == {"ledger", "recovery"}
Exceptions == {"quarantined", "failed"}
Final == Exceptions \cup {"settled", "duplicate"}

ASSUME ConsoleAssumption ==
  /\ Initials \subseteq [Delivery -> Final \cup {"absent", "accepted"}]
  /\ Decision \subseteq Final
  /\ IsFiniteSet(Delivery) /\ None \notin Delivery \cup Payload
  /\ PageSize \in Nat \ {0}
  /\ MaxClicks \in Nat /\ MaxFaults \in Nat

VARIABLES
  engine,   \* the service behind the API
  doc,      \* the variables of app.js and the dialog
  forms,    \* reservation forms, in the order they were opened
  polls,    \* refreshes under way
  calls,    \* other requests under way
  clicks,
  faults

consoleVars == <<engine, doc, forms, polls, calls, clicks, faults>>

NoDialog == [open |-> FALSE, content |-> <<"empty">>]

Unanswered == [snapshot |-> None, paused |-> None]

\* The script ends with a first refresh.
ConsoleInit ==
  /\ \E statuses \in Initials :
       engine = [version |-> 0, deliveries |-> statuses, holds |-> {}, paused |-> FALSE]
  /\ \E hash \in Address :
     doc = [state |-> None, paused |-> FALSE, hash |-> hash, moved |-> FALSE,
            active |-> "overview", filter |-> "all", search |-> None, page |-> 0,
            live |-> TRUE, lost |-> FALSE, refreshing |-> TRUE, busy |-> "no",
            dialog |-> NoDialog, palette |-> FALSE]
  /\ forms = <<>>
  /\ polls = <<Unanswered>>
  /\ calls = {}
  /\ clicks = 0 /\ faults = 0

-----------------------------------------------------------------------------
(* The ledger *)

\* The buttons above the table.
Options(view) ==
  {"all"} \cup IF view = "recovery" THEN Exceptions ELSE Final \cup {"accepted"}

Present(s) == {x \in Delivery : s.deliveries[x] # "absent"}

\* filtered: the statuses of the view, the filter and the search.
Rows(d) ==
  {x \in Present(d.state) :
     /\ d.active = "recovery" => d.state.deliveries[x] \in Exceptions
     /\ d.filter \in {"all", d.state.deliveries[x]}
     /\ d.search \in {None, x}}

Pages(d) ==
  LET n == (Cardinality(Rows(d)) + PageSize - 1) \div PageSize
  IN  IF n = 0 THEN 1 ELSE n

\* Mutant: the page is kept when rows disappear.
ClampNever(d) == d

\* ledgerResults: the page number follows the rows down.
Clamp(d) ==
  IF d.active \in Ledgers /\ d.page >= Pages(d) THEN [d EXCEPT !.page = Pages(d) - 1] ELSE d

\* render: nothing before the first snapshot, else the view of the address.
Render(d) ==
  IF d.state = None THEN d
  ELSE Clamp([d EXCEPT !.active = IF d.hash \in Views THEN d.hash ELSE "overview"])

-----------------------------------------------------------------------------
(* Polling *)

\* Mutant: a refresh does not look for one that is under way.
RefreshAlways(d) ==
  /\ doc' = [d EXCEPT !.refreshing = TRUE]
  /\ polls' = Append(polls, Unanswered)

\* refresh: one at a time; a caller that finds one under way goes on.
Refresh(d) ==
  IF d.refreshing THEN doc' = d /\ UNCHANGED polls
  ELSE /\ doc' = [d EXCEPT !.refreshing = TRUE]
       /\ polls' = Append(polls, Unanswered)

\* A scenario is over when the refresh it waits for is.
Refreshed(d) ==
  [d EXCEPT !.refreshing = FALSE, !.busy = IF @ = "refreshing" THEN "no" ELSE @]

Drop(i) == polls' = [k \in 1..(Len(polls) - 1) |-> IF k < i THEN polls[k] ELSE polls[k + 1]]

\* The two answers of a refresh are read at different times.
ReadSnapshot(i) ==
  /\ polls[i].snapshot = None
  /\ polls' = [polls EXCEPT ![i].snapshot =
       [version |-> engine.version, deliveries |-> engine.deliveries]]
  /\ UNCHANGED <<engine, doc, forms, calls, clicks, faults>>

ReadRuntime(i) ==
  /\ polls[i].paused = None
  /\ polls' = [polls EXCEPT ![i].paused = engine.paused]
  /\ UNCHANGED <<engine, doc, forms, calls, clicks, faults>>

ReceivePoll(i) ==
  /\ polls[i].snapshot # None /\ polls[i].paused # None
  /\ doc' = Render([Refreshed(doc) EXCEPT !.state = polls[i].snapshot,
                                          !.paused = polls[i].paused, !.lost = FALSE])
  /\ Drop(i)
  /\ UNCHANGED <<engine, forms, calls, clicks, faults>>

Fault == faults < MaxFaults /\ faults' = faults + 1

\* Mutant: a failed refresh stays under way.
LosePollForGood(i) ==
  /\ Fault
  /\ doc' = [doc EXCEPT !.lost = TRUE]
  /\ Drop(i)
  /\ UNCHANGED <<engine, forms, calls, clicks>>

\* One of the answers is lost, late or an error: the last snapshot stays.
LosePoll(i) ==
  /\ Fault
  /\ doc' = [Refreshed(doc) EXCEPT !.lost = TRUE]
  /\ Drop(i)
  /\ UNCHANGED <<engine, forms, calls, clicks>>

\* The timer, every two seconds.
Timer ==
  /\ doc.live /\ ~doc.refreshing
  /\ Refresh(doc)
  /\ UNCHANGED <<engine, forms, calls, clicks, faults>>

-----------------------------------------------------------------------------
(* Moving around *)

Click == clicks < MaxClicks /\ clicks' = clicks + 1

InMain == ~doc.dialog.open /\ ~doc.palette

\* The handler runs without waiting for anything.
Handled(d) == doc' = d /\ UNCHANGED <<engine, forms, polls, calls, faults>>

ToggleLive ==
  /\ Click /\ InMain
  /\ IF doc.live THEN doc' = [doc EXCEPT !.live = FALSE] /\ UNCHANGED polls
                 ELSE Refresh([doc EXCEPT !.live = TRUE])
  /\ UNCHANGED <<engine, forms, calls, faults>>

RefreshNow ==
  /\ Click /\ InMain
  /\ Refresh(doc)
  /\ UNCHANGED <<engine, forms, calls, faults>>

\* A link changes the address; its event is handled later.
Follow(d, v) == [d EXCEPT !.hash = v, !.moved = TRUE]

Navigate(v) == Click /\ InMain /\ v # doc.hash /\ Handled(Follow(doc, v))

\* navigation.js: the palette opens over the page and not over the dialog.
OpenPalette == Click /\ InMain /\ Handled([doc EXCEPT !.palette = TRUE])

ChoosePage(v) ==
  /\ Click /\ doc.palette
  /\ Handled(IF v = doc.hash THEN [doc EXCEPT !.palette = FALSE]
             ELSE Follow([doc EXCEPT !.palette = FALSE], v))

ClosePalette == Click /\ doc.palette /\ Handled([doc EXCEPT !.palette = FALSE])

\* The first page of what matches, or of everything.
Select(d, f, q) == Render([d EXCEPT !.filter = f, !.search = q, !.page = 0])

HashChange ==
  /\ doc.moved
  /\ Handled(Select([doc EXCEPT !.moved = FALSE], "all", None))
  /\ UNCHANGED clicks

InLedger == InMain /\ doc.active \in Ledgers

FilterBy(f) == Click /\ InLedger /\ f \in Options(doc.active) /\ Handled(Select(doc, f, doc.search))

Search(q) == Click /\ InLedger /\ Handled(Clamp([doc EXCEPT !.search = q, !.page = 0]))

ClearFilters == Click /\ InLedger /\ Handled(Select(doc, "all", None))

SortBy == Click /\ InLedger /\ Handled(Select(doc, doc.filter, doc.search))

\* The buttons are disabled at the first and the last page.
TurnPage(n) ==
  /\ Click /\ InLedger
  /\ doc.page + n \in 0..(Pages(doc) - 1)
  /\ Handled(Render([doc EXCEPT !.page = @ + n]))

-----------------------------------------------------------------------------
(* What the engine does *)

Change(e) == engine' = [e EXCEPT !.version = @ + 1]

Decide(x) ==
  /\ ~engine.paused /\ engine.deliveries[x] = "accepted"
  /\ \E s \in Decision : Change([engine EXCEPT !.deliveries[x] = s])
  /\ UNCHANGED <<doc, forms, polls, calls, clicks, faults>>

Arrives(x) ==
  /\ engine.deliveries[x] = "absent"
  /\ Change([engine EXCEPT !.deliveries[x] = "accepted"])

\* A call is carried out, or refused without a change.
Perform(c) ==
  CASE c.kind = "pause"  -> engine' = [engine EXCEPT !.version = @ + 1, !.paused = c.arg]
    [] c.kind = "replay" -> /\ engine.deliveries[c.arg] \in Exceptions
                            /\ Change([engine EXCEPT !.deliveries[c.arg] = "accepted"])
    [] c.kind = "reserve" ->
         IF \E h \in engine.holds : h.key = c.key THEN UNCHANGED engine
         ELSE Change([engine EXCEPT !.holds = @ \cup
                        {[form |-> c.arg, key |-> c.key, payload |-> c.payload]}])
    [] OTHER -> \E x \in Delivery : Arrives(x)

ServeCall(c) ==
  /\ c.stage = "sent"
  /\ \E outcome \in {"done", "refused"} :
       /\ IF outcome = "done" THEN Perform(c) ELSE UNCHANGED engine
       /\ calls' = (calls \ {c}) \cup
            IF c.awaited THEN {[c EXCEPT !.stage = outcome]} ELSE {}
  /\ UNCHANGED <<doc, forms, polls, clicks, faults>>

-----------------------------------------------------------------------------
(* Handlers that wait *)

Send(kind, arg, key, payload) ==
  calls' = calls \cup {[id |-> clicks, kind |-> kind, arg |-> arg, key |-> key,
                        payload |-> payload, stage |-> "sent", awaited |-> TRUE]}

\* Buttons of the failure lab.
LabActions == {"traffic", "pause"}

\* scenario: the demo's buttons are disabled while one of them is at work.
\* Pausing asks for the opposite of what the last refresh saw.
Scenario(kind) ==
  /\ Click /\ InMain
  /\ doc.busy = "no" /\ doc.active = "lab"
  /\ doc' = [doc EXCEPT !.busy = "calling"]
  /\ Send(kind, ~doc.paused, None, None)
  /\ UNCHANGED <<engine, forms, polls, faults>>

OpenDialog(d, content) == [d EXCEPT !.dialog = [open |-> TRUE, content |-> content]]

\* details of a receipt on the page; what it offers stays as it was opened.
Details(x) ==
  /\ Click /\ InMain /\ doc.state # None
  /\ \/ doc.active \in Ledgers /\ x \in Rows(doc)
     \/ doc.active = "overview" /\ x \in Present(doc.state)
  /\ Handled(OpenDialog(doc, <<"detail", x, doc.state.deliveries[x] \in Exceptions, clicks>>))

\* A screen on the map of the overview, by mouse or keyboard.
ShowScreen ==
  /\ Click /\ InMain /\ doc.state # None /\ doc.active = "overview"
  /\ Handled(OpenDialog(doc, <<"screen">>))

CloseDialog ==
  /\ Click /\ doc.dialog.open
  /\ Handled([doc EXCEPT !.dialog.open = FALSE])

\* The button of this dialog is disabled until its answer is in.
Replay ==
  /\ Click /\ doc.dialog.open
  /\ doc.dialog.content[1] = "detail" /\ doc.dialog.content[3]
  /\ \A c \in calls : ~(c.kind = "replay" /\ c.awaited /\ c.key = doc.dialog.content)
  /\ Send("replay", doc.dialog.content[2], doc.dialog.content, None)
  /\ UNCHANGED <<engine, doc, forms, polls, faults>>

\* A receipt for one of the holds the page shows.
RecordPlayback ==
  /\ Click /\ InMain /\ doc.active = "campaigns"
  /\ Send("record", None, None, None)
  /\ UNCHANGED <<engine, doc, forms, polls, faults>>

\* A fresh form; nothing else of the scenario handler is left to wait for.
OpenForm ==
  /\ Click /\ InMain
  /\ doc.busy = "no" /\ doc.active = "campaigns"
  /\ \E p \in Payload :
       forms' = Append(forms, [payload |-> p, fingerprint |-> None, key |-> None,
                               disabled |-> FALSE, log |-> <<>>])
  /\ doc' = OpenDialog(doc, <<"reserve", Len(forms) + 1>>)
  /\ UNCHANGED <<engine, polls, calls, faults>>

\* The form is the content of the dialog, open or closed.
Connected(n) == doc.dialog.content = <<"reserve", n>>

EditForm(n, p) ==
  /\ Click /\ doc.dialog.open /\ Connected(n)
  /\ p # forms[n].payload
  /\ forms' = [forms EXCEPT ![n].payload = p]
  /\ UNCHANGED <<engine, doc, polls, calls, faults>>

\* Mutant: every submission gets a key of its own.
SubmitWithNewKey(n) ==
  LET f == forms[n]
      key == <<n, Len(f.log)>>
  IN  /\ Click /\ doc.dialog.open /\ Connected(n) /\ ~f.disabled
      /\ forms' = [forms EXCEPT ![n] =
           [f EXCEPT !.disabled = TRUE, !.fingerprint = f.payload, !.key = key,
                     !.log = Append(@, f.payload)]]
      /\ Send("reserve", n, key, f.payload)
      /\ UNCHANGED <<engine, doc, polls, faults>>

\* submit: a changed form gets a new request key, an unchanged one keeps it.
Submit(n) ==
  LET f == forms[n]
      key == IF f.fingerprint = f.payload THEN f.key ELSE <<n, Len(f.log)>>
  IN  /\ Click /\ doc.dialog.open /\ Connected(n) /\ ~f.disabled
      /\ forms' = [forms EXCEPT ![n] =
           [f EXCEPT !.disabled = TRUE, !.fingerprint = f.payload, !.key = key,
                     !.log = Append(@, f.payload)]]
      /\ Send("reserve", n, key, f.payload)
      /\ UNCHANGED <<engine, doc, polls, faults>>

Enable(c) ==
  forms' = IF c.kind = "reserve" THEN [forms EXCEPT ![c.arg].disabled = FALSE] ELSE forms

IsScenario(c) == c.kind \in LabActions

\* The answer of a call that was carried out: a replay closes the dialog, a
\* reservation closes its own form, and the handler refreshes the page.
Answered(c) ==
  LET closes == c.kind = "replay" \/ (c.kind = "reserve" /\ Connected(c.arg))
      d == [doc EXCEPT !.dialog.open = @ /\ ~closes,
                       !.busy = IF ~IsScenario(c) THEN @
                                ELSE IF doc.refreshing THEN "no" ELSE "refreshing"]
  IN  /\ c \in calls /\ c.awaited /\ c.stage = "done"
      /\ calls' = calls \ {c}
      /\ Enable(c)
      /\ Refresh(d)
      /\ UNCHANGED <<engine, clicks, faults>>

\* An error answer: the handler reports it and ends.
GiveUp(c) ==
  /\ doc' = [doc EXCEPT !.busy = IF IsScenario(c) THEN "no" ELSE @]
  /\ Enable(c)
  /\ UNCHANGED <<engine, polls, clicks>>

Refused(c) ==
  /\ c.awaited /\ c.stage = "refused"
  /\ calls' = calls \ {c}
  /\ GiveUp(c)
  /\ UNCHANGED faults

\* The answer is lost, or twelve seconds are over; the engine may still work.
LoseCall(c) ==
  /\ c.awaited /\ Fault
  /\ calls' = (calls \ {c}) \cup
       IF c.stage = "sent" THEN {[c EXCEPT !.awaited = FALSE]} ELSE {}
  /\ GiveUp(c)

-----------------------------------------------------------------------------
Polling(i) == ReadSnapshot(i) \/ ReadRuntime(i) \/ ReceivePoll(i)

Moving ==
  \/ ToggleLive \/ RefreshNow \/ OpenPalette \/ ClosePalette
  \/ ClearFilters \/ SortBy
  \/ \E v \in Address : Navigate(v) \/ ChoosePage(v)
  \/ \E f \in Final \cup {"all", "accepted"} : FilterBy(f)
  \/ \E x \in Delivery : Search(x)
  \/ \E n \in {-1, 1} : TurnPage(n)

Working ==
  \/ \E kind \in LabActions : Scenario(kind)
  \/ \E x \in Delivery : Details(x)
  \/ ShowScreen \/ Replay \/ RecordPlayback \/ OpenForm \/ CloseDialog
  \/ \E n \in 1..Len(forms) : Submit(n) \/ \E p \in Payload : EditForm(n, p)

ConsoleNext ==
  \/ \E i \in 1..Len(polls) : Polling(i) \/ LosePoll(i)
  \/ Timer \/ HashChange
  \/ Moving \/ Working
  \/ \E c \in calls : ServeCall(c) \/ Answered(c) \/ Refused(c) \/ LoseCall(c)
  \/ \E x \in Delivery : Decide(x)

ConsoleSpec == ConsoleInit /\ [][ConsoleNext]_consoleVars

-----------------------------------------------------------------------------
(* What the console promises *)

\* Lines of the form that ask for payload p after another one or none.
Blocks(log, p) ==
  Cardinality({i \in 1..Len(log) : log[i] = p /\ (i = 1 \/ log[i - 1] # p)})

\* Submitting an unchanged form again, after whatever lost, late or refused
\* answer, never makes a second hold: a form makes no more holds for a payload
\* than the user changed it to that payload.
ReservedOnce ==
  \A n \in 1..Len(forms), p \in Payload :
    Cardinality({h \in engine.holds : h.form = n /\ h.payload = p}) <= Blocks(forms[n].log, p)

\* The ledger is always on a page that exists and under a filter it offers,
\* also when receipts leave the selection between two refreshes or a refresh
\* draws the new view before the address change is handled.
LedgerInRange ==
  doc.active \in Ledgers =>
    /\ doc.page \in 0..(Pages(doc) - 1)
    /\ ~doc.moved => doc.filter \in Options(doc.active)

\* What the page shows never goes back in time: no slow answer of an earlier
\* refresh replaces a later one.
NeverOlder ==
  [][doc.state # None => doc'.state # None /\ doc'.state.version >= doc.state.version]_consoleVars

=============================================================================
