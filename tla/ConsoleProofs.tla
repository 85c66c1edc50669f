--------------------------- MODULE ConsoleProofs ---------------------------
(***************************************************************************)
(* What the console shows never goes back in time, and a report of the     *)
(* assurance page is of the selected campaign and the newest request, and  *)
(* the ledger is on a page that exists, for any receipts, campaigns, forms,*)
(* clicks and faults.                                                      *)
(***************************************************************************)
EXTENDS ConsolePages, TLAPS

-----------------------------------------------------------------------------
(* The document and the engine *)

DocFields == {"state", "paused", "hash", "moved", "active", "filter", "search", "page",
              "live", "lost", "refreshing", "busy", "dialog", "palette"}

Document(d) == d = [f \in DocFields |-> d[f]]

\* The same snapshot, and the same refresh under way.
Alike(d, e) == Document(e) /\ e.state = d.state /\ e.refreshing = d.refreshing

\* Turning the ledger back to a page that exists leaves the snapshot alone.
LEMMA ClampAlike ==
  ASSUME NEW d, Document(d)
  PROVE  Alike(d, Clamp(d))
  <1>1. ASSUME NEW n PROVE Alike(d, [d EXCEPT !.page = n])
    BY DEF Document, Alike, DocFields
  <1>2. QED
    BY <1>1 DEF Clamp, Alike

\* So does render.
LEMMA RenderAlike ==
  ASSUME NEW d, Document(d)
  PROVE  Alike(d, Render(d))
  <1>1. ASSUME NEW v PROVE Alike(d, [d EXCEPT !.active = v])
    BY DEF Document, Alike, DocFields
  <1>2. QED
    BY <1>1, ClampAlike, Zenon DEF Render, Alike

\* So does a choice of filter and search.
LEMMA SelectAlike ==
  ASSUME NEW d, Document(d), NEW f, NEW q
  PROVE  Alike(d, Select(d, f, q))
  <1>1. Alike(d, [d EXCEPT !.filter = f, !.search = q, !.page = 0])
    BY Zenon DEF Document, Alike, DocFields
  <1>2. QED
    BY <1>1, RenderAlike, Zenon DEF Select, Alike

EngineFields == {"version", "deliveries", "holds", "paused"}

Service(e) == e = [f \in EngineFields |-> e[f]] /\ e.version \in Nat

\* The engine goes on.
EngineStep == Service(engine') /\ engine'.version >= engine.version

\* A step that leaves the snapshot alone and starts no refresh but an own one.
Quiet == Alike(doc, doc') /\ polls' = polls

Begins ==
  /\ Document(doc') /\ doc'.state = doc.state
  /\ ~doc.refreshing /\ doc'.refreshing = TRUE /\ polls' = Append(polls, Unanswered)

\* refresh begins one poll, or none while one is under way.
LEMMA RefreshBegins ==
  ASSUME NEW d, Alike(doc, d), Refresh(d)
  PROVE  Quiet \/ Begins
  <1>1. Alike(doc, d) => Document([d EXCEPT !.refreshing = TRUE])
                         /\ [d EXCEPT !.refreshing = TRUE].state = doc.state
                         /\ [d EXCEPT !.refreshing = TRUE].refreshing = TRUE
    BY Zenon DEF Document, Alike, DocFields
  <1>2. QED
    BY <1>1, Zenon DEF Refresh, Quiet, Begins, Alike

\* A change at the engine makes a newer version.
LEMMA ChangeGrows ==
  ASSUME NEW e, Service(e), e.version = engine.version, Change(e)
  PROVE  EngineStep
  <1>1. engine' = [e EXCEPT !.version = @ + 1]
    BY DEF Change
  <1>2. engine'.version = e.version + 1 /\ e.version \in Nat
        /\ engine' = [f \in EngineFields |-> engine'[f]]
    BY <1>1 DEF Service, EngineFields
  <1>3. QED
    BY <1>2 DEF EngineStep, Service

\* Whatever a call does, the engine goes on.
LEMMA PerformGrows ==
  ASSUME Service(engine), NEW c, Perform(c)
  PROVE  EngineStep
  <1>1. ASSUME NEW v PROVE /\ Service([engine EXCEPT !.deliveries = v])
                           /\ [engine EXCEPT !.deliveries = v].version = engine.version
    BY DEF Service, EngineFields
  <1>2. ASSUME NEW v PROVE /\ Service([engine EXCEPT !.holds = v])
                           /\ [engine EXCEPT !.holds = v].version = engine.version
    BY DEF Service, EngineFields
  <1>3. ASSUME NEW x, NEW v PROVE /\ Service([engine EXCEPT !.deliveries[x] = v])
                                  /\ [engine EXCEPT !.deliveries[x] = v].version = engine.version
    BY <1>1
  <1>4. engine' = engine => EngineStep
    BY DEF EngineStep, Service
  <1>5. CASE c.kind = "pause"
    <2>1. engine' = [engine EXCEPT !.version = @ + 1, !.paused = c.arg]
      BY <1>5 DEF Perform
    <2>2. /\ engine'.version = engine.version + 1 /\ engine.version \in Nat
          /\ engine' = [f \in EngineFields |-> engine'[f]]
      BY <2>1, Zenon DEF Service, EngineFields
    <2>3. QED
      BY <2>2 DEF EngineStep, Service
  <1>6. CASE c.kind = "replay"
    BY <1>3, <1>6, ChangeGrows, Zenon DEF Perform
  <1>7. CASE c.kind = "reserve"
    BY <1>2, <1>4, <1>7, ChangeGrows, Zenon DEF Perform
  <1>8. CASE c.kind \notin {"pause", "replay", "reserve"}
    BY <1>3, <1>8, ChangeGrows, Zenon DEF Perform, Arrives
  <1>9. QED
    BY <1>5, <1>6, <1>7, <1>8

-----------------------------------------------------------------------------
\* But for the answers of a refresh, a step of the console is quiet or begins a
\* refresh, and the engine goes on.
LEMMA ConsoleSteps ==
  ASSUME Document(doc), Service(engine), ConsoleNext,
         \A i \in 1..Len(polls) : ~Polling(i) /\ ~LosePoll(i)
  PROVE  (Quiet \/ Begins) /\ EngineStep
  <1>a. engine' = engine => EngineStep
    BY DEF EngineStep, Service
  <1>b. polls' = polls /\ doc' = doc => Quiet
    BY DEF Quiet, Alike
  <1>c. Alike(doc, doc)
    BY DEF Alike
  <1>d. ASSUME NEW d, Alike(doc, d), Handled(d)
        PROVE  Quiet /\ EngineStep
    BY <1>a, <1>d DEF Handled, Quiet
  <1>e. ASSUME NEW v
        PROVE  /\ Alike(doc, [doc EXCEPT !.live = v])
               /\ Alike(doc, [doc EXCEPT !.palette = v])
               /\ Alike(doc, [doc EXCEPT !.moved = v])
               /\ Alike(doc, [doc EXCEPT !.page = v])
               /\ Alike(doc, [doc EXCEPT !.busy = v])
               /\ Alike(doc, [doc EXCEPT !.dialog = v])
    BY Zenon DEF Alike, Document, DocFields
  <1>1. CASE Timer \/ RefreshNow
    BY <1>1, <1>a, <1>c, RefreshBegins DEF Timer, RefreshNow
  <1>2. CASE ToggleLive
    BY <1>2, <1>a, <1>e, RefreshBegins, Zenon DEF ToggleLive, Quiet
  <1>3. CASE HashChange
    <2> DEFINE e == [doc EXCEPT !.moved = FALSE]
    <2>1. Alike(doc, e)
      BY <1>e, Zenon
    <2>2. Handled(Select(e, "all", None))
      BY <1>3 DEF HashChange
    <2> HIDE DEF e
    <2>3. QED
      BY <1>d, <2>1, <2>2, SelectAlike DEF Alike
  <1>4. CASE OpenPalette \/ ClosePalette
    BY <1>4, <1>d, <1>e, Zenon DEF OpenPalette, ClosePalette
  <1>5. CASE ClearFilters \/ SortBy \/ \E f \in Final \cup {"all", "accepted"} : FilterBy(f)
    BY <1>5, <1>d, SelectAlike DEF ClearFilters, SortBy, FilterBy
  <1>6. ASSUME NEW v \in Address, Navigate(v) \/ ChoosePage(v)
        PROVE  Quiet /\ EngineStep
    <2>1. Alike(doc, Follow(doc, v)) /\ Alike(doc, Follow([doc EXCEPT !.palette = FALSE], v))
      BY Zenon DEF Follow, Alike, Document, DocFields
    <2>2. QED
      BY <1>6, <1>d, <1>e, <2>1, Zenon DEF Navigate, ChoosePage
  <1>7. ASSUME NEW x \in Delivery, Search(x)
        PROVE  Quiet /\ EngineStep
    <2> DEFINE e == [doc EXCEPT !.search = x, !.page = 0]
    <2>1. Alike(doc, e)
      BY Zenon DEF Alike, Document, DocFields
    <2>2. Handled(Clamp(e))
      BY <1>7 DEF Search
    <2> HIDE DEF e
    <2>3. QED
      BY <1>d, <2>1, <2>2, ClampAlike DEF Alike
  <1>8. ASSUME NEW n \in {-1, 1}, TurnPage(n)
        PROVE  Quiet /\ EngineStep
    <2> DEFINE e == [doc EXCEPT !.page = @ + n]
    <2>1. Alike(doc, e)
      BY <1>e, Zenon
    <2>2. Handled(Render(e))
      BY <1>8 DEF TurnPage
    <2> HIDE DEF e
    <2>3. QED
      BY <1>d, <2>1, <2>2, RenderAlike DEF Alike
  <1>9. ASSUME NEW kind \in LabActions, Scenario(kind)
        PROVE  Quiet /\ EngineStep
    BY <1>9, <1>a, <1>e, Zenon DEF Scenario, Quiet
  <1>10. CASE ShowScreen \/ CloseDialog \/ \E x \in Delivery : Details(x)
    <2>1. ASSUME NEW content PROVE Alike(doc, OpenDialog(doc, content))
      BY <1>e, Zenon DEF OpenDialog
    <2>2. Alike(doc, [doc EXCEPT !.dialog.open = FALSE])
      BY <1>e, Zenon
    <2>3. QED
      BY <1>10, <1>d, <2>1, <2>2, Zenon DEF ShowScreen, CloseDialog, Details
  <1>11. CASE OpenForm
    <2>1. Alike(doc, OpenDialog(doc, <<"reserve", Len(forms) + 1>>))
      BY <1>e, Zenon DEF OpenDialog
    <2>2. QED
      BY <1>11, <1>a, <2>1 DEF OpenForm, Quiet
  <1>12. CASE Replay \/ RecordPlayback \/ \E n \in 1..Len(forms) :
                Submit(n) \/ \E p \in Payload : EditForm(n, p)
    BY <1>12, <1>a, <1>b, Zenon DEF Replay, RecordPlayback, Submit, EditForm
  <1>13. ASSUME NEW c \in calls, ServeCall(c)
         PROVE  Quiet /\ EngineStep
    BY <1>13, <1>a, <1>b, PerformGrows DEF ServeCall
  <1>14. ASSUME NEW c \in calls, Answered(c)
         PROVE  (Quiet \/ Begins) /\ EngineStep
    <2> DEFINE d == [doc EXCEPT !.dialog.open = @ /\ ~(c.kind = "replay"
                                    \/ (c.kind = "reserve" /\ Connected(c.arg))),
                       !.busy = IF ~IsScenario(c) THEN @
                                ELSE IF doc.refreshing THEN "no" ELSE "refreshing"]
    <2>1. Alike(doc, d)
      BY Zenon DEF Alike, Document, DocFields
    <2>2. Refresh(d) /\ engine' = engine
      BY <1>14 DEF Answered
    <2> HIDE DEF d
    <2>3. QED
      BY <1>a, <2>1, <2>2, RefreshBegins
  <1>15. ASSUME NEW c \in calls, Refused(c) \/ LoseCall(c)
         PROVE  Quiet /\ EngineStep
    BY <1>15, <1>a, <1>e, Zenon DEF Refused, LoseCall, GiveUp, Quiet
  <1>16. ASSUME NEW x \in Delivery, Decide(x)
         PROVE  Quiet /\ EngineStep
    <2>1. ASSUME NEW v PROVE /\ Service([engine EXCEPT !.deliveries[x] = v])
                             /\ [engine EXCEPT !.deliveries[x] = v].version = engine.version
      BY DEF Service, EngineFields
    <2>2. QED
      BY <1>16, <1>b, <2>1, ChangeGrows, Zenon DEF Decide
  <1>17. QED
    BY <1>1, <1>2, <1>3, <1>4, <1>5, <1>6, <1>7, <1>8, <1>9, <1>10, <1>11, <1>12, <1>13,
       <1>14, <1>15, <1>16 DEF ConsoleNext, Moving, Working

-----------------------------------------------------------------------------
(* Polling *)

\* A sequence of one poll.
LEMMA OnlyOne ==
  ASSUME NEW x
  PROVE  Len(<<x>>) = 1 /\ <<x>>[1] = x /\ Append(<<>>, x) = <<x>>
  OBVIOUS

\* Dropping the only poll leaves none.
LEMMA DroppedEmpty ==
  ASSUME NEW x, polls = <<x>>, NEW i, Drop(i)
  PROVE  polls' = <<>>
  <1>1. Len(polls) - 1 = 0
    BY OnlyOne
  <1>2. polls' = [k \in 1..0 |-> IF k < i THEN polls[k] ELSE polls[k + 1]]
    BY <1>1 DEF Drop
  <1>3. 1..0 = {}
    OBVIOUS
  <1>4. QED
    BY <1>2, <1>3

\* A poll starts without an answer.
LEMMA UnansweredFields ==
  /\ Unanswered.snapshot = None
  /\ Unanswered = [snapshot |-> Unanswered.snapshot, paused |-> Unanswered.paused]
  BY DEF Unanswered

\* At most one refresh is under way; what it has read is no older than what the
\* page shows and no newer than the engine.
PollsInOrder ==
  /\ Document(doc) /\ Service(engine)
  /\ doc.state # None => doc.state.version \in Nat /\ doc.state.version <= engine.version
  /\ \/ doc.refreshing = FALSE /\ polls = <<>>
     \/ /\ doc.refreshing = TRUE
        /\ polls = <<polls[1]>>
        /\ polls[1] = [snapshot |-> polls[1].snapshot, paused |-> polls[1].paused]
        /\ polls[1].snapshot # None =>
             /\ polls[1].snapshot.version \in Nat
             /\ polls[1].snapshot.version <= engine.version
             /\ doc.state # None => doc.state.version <= polls[1].snapshot.version

Forward == doc.state # None => doc'.state # None /\ doc'.state.version >= doc.state.version

\* The steps that only leave the snapshot alone keep the order of the polls.
LEMMA QuietKeeps ==
  ASSUME PollsInOrder, Quiet \/ Begins, EngineStep
  PROVE  PollsInOrder' /\ Forward
  <1>1. Document(doc') /\ Service(engine') /\ doc'.state = doc.state
        /\ engine.version \in Nat /\ engine'.version \in Nat /\ engine'.version >= engine.version
    BY DEF Quiet, Begins, Alike, EngineStep, Service, PollsInOrder
  <1>2. CASE Quiet
    BY <1>1, <1>2 DEF PollsInOrder, Quiet, Alike, Forward
  <1>3. CASE Begins
    <2>1. polls = <<>> /\ polls' = Append(polls, Unanswered) /\ doc'.refreshing = TRUE
      BY <1>3 DEF PollsInOrder, Begins
    <2>2. polls' = <<polls'[1]>> /\ polls'[1] = Unanswered
      BY <2>1, OnlyOne
    <2>3. doc.state # None => doc.state.version \in Nat /\ doc.state.version <= engine'.version
      BY <1>1 DEF PollsInOrder
    <2>4. QED
      BY <1>1, <2>1, <2>2, <2>3, UnansweredFields DEF PollsInOrder, Forward
  <1>4. QED
    BY <1>2, <1>3

\* So do the steps of a poll: what it shows is no older than what was shown.
LEMMA PollingKeeps ==
  ASSUME PollsInOrder, NEW i \in 1..Len(polls), Polling(i) \/ LosePoll(i)
  PROVE  PollsInOrder' /\ Forward
  <1>0. i = 1 /\ Len(polls) = 1 /\ polls = <<polls[1]>> /\ doc.refreshing = TRUE
    <2>1. polls # <<>>
      <3>1. Len(<<>>) = 0 /\ 1..0 = {}
        OBVIOUS
      <3>2. QED
        BY <3>1
    <2>2. polls = <<polls[1]>> /\ doc.refreshing = TRUE
      BY <2>1 DEF PollsInOrder
    <2>3. Len(polls) = 1
      BY <2>2, OnlyOne
    <2>4. QED
      BY <2>2, <2>3
  <1>a. /\ polls[1] = [snapshot |-> polls[1].snapshot, paused |-> polls[1].paused]
        /\ engine.version \in Nat
    BY <1>0 DEF PollsInOrder, Service
  <1>1. CASE ReadSnapshot(i)
    <2> DEFINE now == [version |-> engine.version, deliveries |-> engine.deliveries]
    <2>1. polls' = <<[polls[1] EXCEPT !.snapshot = now]>> /\ UNCHANGED <<doc, engine>>
      BY <1>0, <1>1 DEF ReadSnapshot
    <2>2. /\ polls' = <<polls'[1]>> /\ polls'[1].snapshot = now
          /\ polls'[1] = [snapshot |-> polls'[1].snapshot, paused |-> polls'[1].paused]
      BY <1>a, <2>1
    <2>3. QED
      BY <1>0, <1>a, <2>1, <2>2 DEF PollsInOrder, Forward
  <1>2. CASE ReadRuntime(i)
    <2> DEFINE next == [polls[1] EXCEPT !.paused = engine.paused]
    <2>0. polls' = <<next>> /\ UNCHANGED <<doc, engine>>
      BY <1>0, <1>2 DEF ReadRuntime
    <2>1. /\ next.snapshot = polls[1].snapshot
          /\ next = [snapshot |-> next.snapshot, paused |-> next.paused]
      BY <1>a
    <2> HIDE DEF next
    <2>2. polls' = <<polls'[1]>> /\ polls'[1] = next
      BY <2>0
    <2>3. QED
      BY <1>0, <1>a, <2>0, <2>1, <2>2 DEF PollsInOrder, Forward
  <1>b. Drop(i) => polls' = <<>>
    BY <1>0, DroppedEmpty
  <1>3. CASE ReceivePoll(i)
    <2> DEFINE d == [Refreshed(doc) EXCEPT !.state = polls[i].snapshot,
                                           !.paused = polls[i].paused, !.lost = FALSE]
    <2>1. Document(d) /\ d.state = polls[1].snapshot /\ d.refreshing = FALSE
      BY <1>0, Zenon DEF PollsInOrder, Document, DocFields, Refreshed
    <2>2. doc' = Render(d) /\ polls' = <<>> /\ engine' = engine /\ polls[1].snapshot # None
      BY <1>0, <1>3, <1>b DEF ReceivePoll
    <2> HIDE DEF d
    <2>3. Document(doc') /\ doc'.state = polls[1].snapshot /\ doc'.refreshing = FALSE
      BY <2>1, <2>2, RenderAlike DEF Alike
    <2>4. QED
      BY <1>0, <2>2, <2>3 DEF PollsInOrder, Forward
  <1>4. CASE LosePoll(i)
    <2> DEFINE d == [Refreshed(doc) EXCEPT !.lost = TRUE]
    <2>1. Document(d) /\ d.state = doc.state /\ d.refreshing = FALSE
      BY Zenon DEF PollsInOrder, Document, DocFields, Refreshed
    <2>2. doc' = d /\ polls' = <<>> /\ engine' = engine
      BY <1>4, <1>b DEF LosePoll
    <2> HIDE DEF d
    <2>3. QED
      BY <2>1, <2>2 DEF PollsInOrder, Forward
  <1>5. QED
    BY <1>1, <1>2, <1>3, <1>4 DEF Polling

\* The pages' own steps leave the snapshot alone and let the engine go on.
LEMMA PagesQuiet ==
  ASSUME Document(doc), Service(engine), AssuranceNext \/ IntakeNext
  PROVE  (Quiet \/ Begins) /\ EngineStep
  <1>a. UNCHANGED <<engine, doc, polls>> => Quiet /\ EngineStep
    BY DEF Quiet, Alike, EngineStep, Service
  <1>b. Alike(doc, doc) /\ (engine' = engine => EngineStep)
    BY DEF Alike, EngineStep, Service
  <1>1. CASE AssuranceNext
    BY <1>1, <1>a, Zenon DEF AssuranceNext, ChangeCampaign, RefreshReport, ProofComplete,
                      ReceiveRead, LoseRead, StaysConsole, consoleVars
  <1>2. CASE LoadExample \/ SendBatch \/ ChooseCampaign \/ ChooseNone
             \/ (\E p \in Price : EditPrice(p)) \/ \E h \in engine.holds : ExpireHold(h)
    BY <1>2, <1>a DEF LoadExample, SendBatch, ChooseCampaign, ChooseNone, EditPrice,
                      ExpireHold, consoleVars
  <1>3. ASSUME NEW r \in wire, GetHold(r) \/ Reject(r) \/ Uncertain(r)
        PROVE  Quiet /\ EngineStep
    BY <1>3, <1>a DEF GetHold, Reject, Uncertain, consoleVars
  <1>4. ASSUME NEW r \in wire, GetBatch(r)
        PROVE  (Quiet \/ Begins) /\ EngineStep
    BY <1>4, <1>b, RefreshBegins DEF GetBatch
  <1>5. ASSUME NEW r \in wire, ServeReserve(r)
        PROVE  Quiet /\ EngineStep
    <2>1. ASSUME NEW v PROVE /\ Service([engine EXCEPT !.holds = v])
                             /\ [engine EXCEPT !.holds = v].version = engine.version
      BY DEF Service, EngineFields
    <2>2. EngineStep
      BY <1>5, <1>b, <2>1, ChangeGrows, Zenon DEF ServeReserve
    <2>3. QED
      BY <1>5, <1>b, <2>2 DEF ServeReserve, Quiet
  <1>6. ASSUME NEW r \in wire, ServeBatch(r)
        PROVE  Quiet /\ EngineStep
    BY <1>6, <1>b, ChangeGrows DEF ServeBatch, Quiet
  <1>7. QED
    BY <1>1, <1>2, <1>3, <1>4, <1>5, <1>6 DEF IntakeNext

\* So does every step of the console.
LEMMA PollsStep ==
  ASSUME PollsInOrder, [PagesNext]_pageVars
  PROVE  PollsInOrder' /\ (Forward \/ UNCHANGED consoleVars)
  <1>1. Document(doc) /\ Service(engine)
    BY DEF PollsInOrder
  <1>2. CASE ConsoleNext
    BY <1>1, <1>2, ConsoleSteps, QuietKeeps, PollingKeeps
  <1>3. CASE AssuranceNext \/ IntakeNext
    BY <1>1, <1>3, PagesQuiet, QuietKeeps
  <1>4. CASE UNCHANGED pageVars
    BY <1>4 DEF pageVars, consoleVars, PollsInOrder
  <1>5. QED
    BY <1>2, <1>3, <1>4 DEF PagesNext

\* The console starts in order.
LEMMA PollsInitial ==
  ASSUME ConsoleInit
  PROVE  PollsInOrder
  <1>1. Document(doc) /\ doc.state = None /\ doc.refreshing = TRUE
    BY DEF ConsoleInit, Document, DocFields
  <1>2. Service(engine)
    <2>1. PICK statuses \in Initials :
            engine = [version |-> 0, deliveries |-> statuses, holds |-> {}, paused |-> FALSE]
      BY Zenon DEF ConsoleInit
    <2>2. QED
      BY <2>1, Zenon DEF Service, EngineFields
  <1>3. polls = <<Unanswered>>
    BY DEF ConsoleInit
  <1>4. polls = <<polls[1]>> /\ polls[1] = Unanswered
    BY <1>3, OnlyOne
  <1>5. QED
    BY <1>1, <1>2, <1>4, UnansweredFields DEF PollsInOrder

\* What the console shows never goes back in time: the snapshot it replaces is
\* never newer than the one it shows next, for any clicks, slow or lost answers
\* and changes of the engine (refresh and its one-at-a-time flag in app.js).
THEOREM SnapshotsInOrder == PagesSpec => NeverOlder
  <1>1. ConsoleInit => PollsInOrder
    BY PollsInitial
  <1>2. PollsInOrder /\ [PagesNext]_pageVars =>
          PollsInOrder' /\ [doc.state # None => doc'.state # None /\ doc'.state.version >= doc.state.version]_consoleVars
    BY PollsStep DEF Forward
  <1>3. QED
    BY <1>1, <1>2, PTL DEF PagesSpec, PagesInit, NeverOlder

-----------------------------------------------------------------------------
(* The assurance page *)

Read == [ticket : Nat, campaign : Campaign]

AssuranceType ==
  [selected : Campaign \cup {None}, report : Read \cup {None}, loading : BOOLEAN,
   error : BOOLEAN, generation : Nat]

\* Tickets of requests never run ahead; while the newest request is under way,
\* the page is loading and shows nothing else.
AssuranceInv ==
  /\ assurance \in AssuranceType
  /\ reads \subseteq Read
  /\ doc.active = "assurance" => assurance.selected # None
  /\ assurance.selected = None => reads = {} /\ assurance.report = None
  /\ \A r \in reads :
       /\ r.ticket <= assurance.generation
       /\ r.ticket = assurance.generation =>
            /\ r.campaign = assurance.selected
            /\ assurance.report = None /\ assurance.loading /\ ~assurance.error
  /\ ReportIsSelected

\* A new request makes every other one an older one.
LEMMA FetchKeeps ==
  ASSUME reads \subseteq Read, NEW a \in AssuranceType, a.selected # None,
         \A r \in reads : r.ticket <= a.generation,
         FetchReport(a)
  PROVE  AssuranceInv' /\ assurance'.selected = a.selected
  <1> DEFINE b == [a EXCEPT !.generation = @ + 1, !.loading = TRUE, !.error = FALSE,
                            !.report = None]
             q == [ticket |-> a.generation + 1, campaign |-> a.selected]
  <1>1. a.generation \in Nat /\ a.selected \in Campaign
    BY DEF AssuranceType
  <1>2. a.generation + 1 \in Nat
    BY <1>1
  <1>3. /\ b \in AssuranceType
        /\ b.selected = a.selected /\ b.report = None /\ b.loading /\ ~b.error
        /\ b.generation = a.generation + 1
    <2>1. ASSUME NEW g \in Nat, NEW c, c = [a EXCEPT !.generation = g, !.loading = TRUE,
                                                    !.error = FALSE, !.report = None]
          PROVE  /\ c \in AssuranceType
                 /\ c.selected = a.selected /\ c.report = None /\ c.loading /\ ~c.error
                 /\ c.generation = g
      BY <2>1, Zenon DEF AssuranceType
    <2>2. QED
      BY <1>2, <2>1, Zenon
  <1>4. q \in Read /\ q.ticket = a.generation + 1 /\ q.campaign = a.selected
    BY <1>1, <1>2 DEF Read
  <1>5. assurance' = b /\ reads' = reads \cup {q}
    BY DEF FetchReport
  <1> HIDE DEF b, q
  <1>6. \A r \in reads : r.ticket \in Nat /\ r.ticket < a.generation + 1
    BY <1>1 DEF Read
  <1>7. \A r \in reads' :
          /\ r.ticket <= assurance'.generation
          /\ r.ticket = assurance'.generation => r = q
    BY <1>1, <1>3, <1>4, <1>5, <1>6
  <1>8. reads' \subseteq Read
    BY <1>4, <1>5
  <1>9. QED
    BY <1>3, <1>4, <1>5, <1>7, <1>8 DEF AssuranceInv, ReportIsSelected

\* The page is drawn: what is under way for it stays as it is.
LEMMA RenderKeeps ==
  ASSUME AssuranceInv, RenderAssurance
  PROVE  AssuranceInv' /\ assurance'.selected # None
  <1> USE CampaignAssumption
  <1> DEFINE a == [assurance EXCEPT !.selected = IF @ = None THEN First ELSE @]
  <1>1. /\ a \in AssuranceType /\ a.selected # None
        /\ a.generation = assurance.generation /\ a.report = assurance.report
        /\ a.loading = assurance.loading /\ a.error = assurance.error
        /\ assurance.selected # None => a = assurance
    BY DEF AssuranceInv, AssuranceType
  <1>2. \/ FetchReport(a)
        \/ assurance' = a /\ reads' = reads
    BY DEF RenderAssurance
  <1> HIDE DEF a
  <1>3. CASE FetchReport(a)
    <2>1. reads \subseteq Read /\ \A r \in reads : r.ticket <= a.generation
      BY <1>1 DEF AssuranceInv
    <2>2. QED
      BY <1>1, <1>3, <2>1, FetchKeeps
  <1>4. CASE assurance' = a /\ reads' = reads
    <2>1. CASE assurance.selected # None
      BY <1>1, <1>4, <2>1 DEF AssuranceInv, ReportIsSelected
    <2>2. CASE assurance.selected = None
      BY <1>1, <1>4, <2>2 DEF AssuranceInv, ReportIsSelected
    <2>3. QED
      BY <2>1, <2>2
  <1>5. QED
    BY <1>2, <1>3, <1>4

\* An answer that is not the newest request's changes nothing, and the newest
\* one's ends it.
LEMMA ReadEnds ==
  ASSUME AssuranceInv, NEW r \in reads, doc' = doc, ReceiveRead(r) \/ LoseRead(r)
  PROVE  AssuranceInv'
  <1>1. reads' = reads \ {r}
    BY DEF ReceiveRead, LoseRead
  <1>2. CASE r.ticket # assurance.generation
    <2>1. assurance' = assurance
      BY <1>2 DEF ReceiveRead, LoseRead
    <2>2. QED
      BY <1>1, <2>1 DEF AssuranceInv, ReportIsSelected
  <1>3. CASE r.ticket = assurance.generation
    <2>1. /\ r \in Read /\ r.campaign = assurance.selected /\ assurance \in AssuranceType
          /\ assurance.report = None /\ ~assurance.error
      BY <1>3 DEF AssuranceInv
    <2>2. \A q \in reads : q.ticket = assurance.generation => q = r
      BY <1>3 DEF AssuranceInv, Read
    <2>3. /\ assurance' \in AssuranceType
          /\ assurance'.selected = assurance.selected
          /\ assurance'.generation = assurance.generation
          /\ \/ assurance'.report = None
             \/ assurance'.report = r /\ ~assurance'.loading /\ ~assurance'.error
      BY <1>3, <2>1, Zenon DEF ReceiveRead, LoseRead, AssuranceType
    <2>4. \A q \in reads' : q \in reads /\ q.ticket # assurance'.generation
      BY <1>1, <2>2, <2>3
    <2>5. QED
      BY <1>1, <1>3, <2>1, <2>3, <2>4 DEF AssuranceInv, ReportIsSelected
  <1>4. QED
    BY <1>2, <1>3

\* The intake page opens no other page.
LEMMA IntakeStays ==
  ASSUME Document(doc), IntakeNext
  PROVE  doc'.active = doc.active
  <1>1. CASE \E r \in wire : GetBatch(r)
    <2>1. Refresh(doc)
      BY <1>1 DEF GetBatch
    <2>2. QED
      BY <2>1 DEF Refresh, Document, DocFields
  <1>2. CASE ~ \E r \in wire : GetBatch(r)
    <2>1. doc' = doc
      BY <1>2, Zenon DEF IntakeNext, LoadExample, SendBatch, ChooseCampaign, ChooseNone, EditPrice,
                  ExpireHold, GetHold, Reject, Uncertain, ServeReserve, ServeBatch, consoleVars
    <2>2. QED
      BY <2>1
  <1>3. QED
    BY <1>1, <1>2

\* Every step keeps the report with the request it answers.
LEMMA AssuranceStep ==
  ASSUME Document(doc), AssuranceInv, [PagesNext]_pageVars
  PROVE  AssuranceInv'
  <1>1. CASE AssuranceFollows
    <2>1. CASE doc.active # "assurance" /\ doc'.active = "assurance"
      BY <1>1, <2>1, RenderKeeps DEF AssuranceFollows
    <2>2. CASE ~(doc.active # "assurance" /\ doc'.active = "assurance")
      <3>1. UNCHANGED <<assurance, reads>>
        BY <1>1, <2>2 DEF AssuranceFollows, assuranceVars
      <3>2. QED
        BY <2>2, <3>1 DEF AssuranceInv, ReportIsSelected
    <2>3. QED
      BY <2>1, <2>2
  <1>2. ASSUME NEW c \in Campaign, ChangeCampaign(c)
        PROVE  AssuranceInv'
    <2> DEFINE a == [assurance EXCEPT !.selected = c]
    <2>1. a \in AssuranceType /\ a.selected = c /\ a.generation = assurance.generation
      BY DEF AssuranceInv, AssuranceType
    <2>2. FetchReport(a) /\ c # None
      BY <1>2, CampaignAssumption DEF ChangeCampaign
    <2> HIDE DEF a
    <2>3. QED
      BY <2>1, <2>2, FetchKeeps DEF AssuranceInv
  <1>3. CASE RefreshReport \/ ProofComplete
    <2>1. FetchReport(assurance) /\ doc.active = "assurance"
      BY <1>3 DEF RefreshReport, ProofComplete, OnAssurance
    <2>2. QED
      BY <2>1, FetchKeeps DEF AssuranceInv
  <1>4. ASSUME NEW r \in reads, ReceiveRead(r) \/ LoseRead(r)
        PROVE  AssuranceInv'
    BY <1>4, ReadEnds, Zenon DEF ReceiveRead, LoseRead, consoleVars
  <1>5. CASE IntakeNext /\ UNCHANGED assuranceVars
    <2>1. doc'.active = doc.active
      BY <1>5, IntakeStays
    <2>2. QED
      BY <1>5, <2>1 DEF assuranceVars, AssuranceInv, ReportIsSelected
  <1>6. CASE UNCHANGED pageVars
    BY <1>6 DEF pageVars, consoleVars, assuranceVars, AssuranceInv, ReportIsSelected
  <1>7. QED
    BY <1>1, <1>2, <1>3, <1>4, <1>5, <1>6 DEF PagesNext, Follows, AssuranceNext

\* A report the assurance page shows or exports is of the selected campaign and
\* answers the newest request, for any campaigns, any number of requests under
\* way and any order of their answers (fetchReport's ticket in assurance.js).
THEOREM ReportOfSelected == PagesSpec => []ReportIsSelected
  <1>1. PagesInit => PollsInOrder /\ AssuranceInv
    <2>1. PagesInit => PollsInOrder
      BY PollsInitial DEF PagesInit
    <2>2. PagesInit => AssuranceInv
      <3> SUFFICES ASSUME PagesInit PROVE AssuranceInv
        OBVIOUS
      <3>1. doc.active = "overview"
        BY DEF PagesInit, ConsoleInit
      <3>2. QED
        BY <3>1 DEF PagesInit, AssuranceInit, AssuranceInv, AssuranceType, ReportIsSelected
    <2>3. QED
      BY <2>1, <2>2
  <1>2. PollsInOrder /\ AssuranceInv /\ [PagesNext]_pageVars => PollsInOrder' /\ AssuranceInv'
    <2>1. PollsInOrder => Document(doc)
      BY DEF PollsInOrder
    <2>2. QED
      BY <2>1, PollsStep, AssuranceStep
  <1>3. AssuranceInv => ReportIsSelected
    BY DEF AssuranceInv
  <1>4. QED
    BY <1>1, <1>2, <1>3, PTL DEF PagesSpec

-----------------------------------------------------------------------------
(* The ledger *)

INSTANCE FiniteSetTheorems

\* The view of an address.
View(h) == IF h \in Views THEN h ELSE "overview"

\* Before the first snapshot the overview is shown; later, unless an address
\* change is still to be handled, the view of the address.
LedgerOK(d) ==
  /\ Document(d) /\ d.page \in Nat
  /\ d.state = None => d.active = "overview" /\ d.filter = "all"
  /\ d.state # None /\ ~d.moved => d.active = View(d.hash)
  /\ d.active \in Ledgers =>
       /\ d.page \in 0..(Pages(d) - 1)
       /\ ~d.moved => d.filter \in Options(d.active)

\* The same selection of receipts, on the same or another page.
Selects(d, e) ==
  /\ Document(e) /\ e.state = d.state /\ e.hash = d.hash /\ e.moved = d.moved
  /\ e.active = d.active /\ e.filter = d.filter /\ e.search = d.search

SameLedger(d, e) == Selects(d, e) /\ e.page = d.page

\* There is always a page.
LEMMA PagesPositive ==
  ASSUME NEW d
  PROVE  Pages(d) \in Nat \ {0}
  <1> DEFINE n == Cardinality(Rows(d))
             m == (n + PageSize - 1) \div PageSize
  <1>1. Rows(d) \subseteq Delivery
    BY DEF Rows, Present
  <1>2. n \in Nat
    BY <1>1, ConsoleAssumption, FS_Subset, FS_CardinalityType
  <1>3. Pages(d) = IF m = 0 THEN 1 ELSE m
    BY DEF Pages
  <1> HIDE DEF n
  <1>4. m \in Nat
    BY <1>2, ConsoleAssumption
  <1> HIDE DEF m
  <1>5. QED
    BY <1>3, <1>4

\* The same selection of the same snapshot has as many pages.
LEMMA SamePages ==
  ASSUME NEW d, NEW e, Selects(d, e)
  PROVE  Pages(e) = Pages(d)
  <1>1. Rows(e) = Rows(d)
    BY DEF Rows, Selects
  <1>2. QED
    BY <1>1 DEF Pages

\* A ledger that stays as it is stays in range.
LEMMA LedgerKept ==
  ASSUME NEW d, NEW e, LedgerOK(d), SameLedger(d, e)
  PROVE  LedgerOK(e)
  BY SamePages, Zenon DEF LedgerOK, SameLedger, Selects

\* ledgerResults puts the ledger on a page that exists.
LEMMA ClampLedger ==
  ASSUME NEW d, Document(d), d.page \in Nat
  PROVE  /\ Selects(d, Clamp(d)) /\ Clamp(d).page \in Nat
         /\ d.active \in Ledgers => Clamp(d).page \in 0..(Pages(Clamp(d)) - 1)
  <1> DEFINE e == [d EXCEPT !.page = Pages(d) - 1]
  <1>1. Pages(d) \in Nat \ {0}
    BY PagesPositive
  <1>2. Selects(d, d)
    BY DEF Selects
  <1>3. Selects(d, e) /\ e.page = Pages(d) - 1
    BY Zenon DEF Selects, Document, DocFields
  <1>4. Pages(e) = Pages(d)
    BY <1>3, SamePages
  <1>5. Clamp(d) = IF d.active \in Ledgers /\ d.page >= Pages(d) THEN e ELSE d
    BY DEF Clamp
  <1> HIDE DEF e
  <1>6. CASE d.active \in Ledgers /\ d.page >= Pages(d)
    <2>1. Clamp(d) = e
      BY <1>5, <1>6
    <2>2. e.page \in Nat /\ e.page \in 0..(Pages(e) - 1)
      BY <1>1, <1>3, <1>4
    <2>3. QED
      BY <1>3, <2>1, <2>2
  <1>7. CASE ~(d.active \in Ledgers /\ d.page >= Pages(d))
    <2>1. Clamp(d) = d
      BY <1>5, <1>7
    <2>2. d.active \in Ledgers => d.page \in 0..(Pages(d) - 1)
      BY <1>1, <1>7
    <2>3. QED
      BY <1>2, <2>1, <2>2
  <1>8. QED
    BY <1>6, <1>7

\* render draws the view of the address, on a page that exists.
LEMMA RenderLedger ==
  ASSUME NEW d, Document(d), d.page \in Nat,
         d.state = None => d.active = "overview" /\ d.filter = "all",
         d.state # None /\ ~d.moved /\ View(d.hash) \in Ledgers => d.filter \in Options(View(d.hash))
  PROVE  LedgerOK(Render(d))
  <1>1. CASE d.state = None
    <2>1. Render(d) = d /\ "overview" \notin Ledgers
      BY <1>1 DEF Render, Ledgers
    <2>2. QED
      BY <1>1, <2>1 DEF LedgerOK
  <1>2. CASE d.state # None
    <2> DEFINE e == [d EXCEPT !.active = View(d.hash)]
    <2>1. /\ Document(e) /\ e.active = View(d.hash) /\ e.state = d.state /\ e.hash = d.hash
          /\ e.moved = d.moved /\ e.filter = d.filter /\ e.page = d.page
      BY Zenon DEF Document, DocFields
    <2>2. Render(d) = Clamp(e)
      BY <1>2 DEF Render, View
    <2> HIDE DEF e
    <2>3. /\ Selects(e, Clamp(e)) /\ Clamp(e).page \in Nat
          /\ e.active \in Ledgers => Clamp(e).page \in 0..(Pages(Clamp(e)) - 1)
      BY <2>1, ClampLedger
    <2>4. QED
      BY <1>2, <2>1, <2>2, <2>3, Zenon DEF LedgerOK, Selects
  <1>3. QED
    BY <1>1, <1>2

\* A choice of filter and search leaves the ledger in range.
LEMMA SelectLedger ==
  ASSUME NEW d, Document(d), NEW f, NEW q, d.state = None => d.active = "overview",
         \/ f = "all"
         \/ d.state # None /\ (~d.moved => d.active = View(d.hash) /\ f \in Options(d.active))
  PROVE  LedgerOK(Select(d, f, q))
  <1> DEFINE e == [d EXCEPT !.filter = f, !.search = q, !.page = 0]
  <1>1. /\ Document(e) /\ e.filter = f /\ e.page = 0 /\ e.active = d.active
        /\ e.state = d.state /\ e.hash = d.hash /\ e.moved = d.moved
    BY Zenon DEF Document, DocFields
  <1>2. Select(d, f, q) = Render(e)
    BY DEF Select
  <1>3. \A v : "all" \in Options(v)
    BY DEF Options
  <1> HIDE DEF e
  <1>4. QED
    BY <1>1, <1>2, <1>3, RenderLedger

\* Starting a refresh leaves the ledger alone.
LEMMA RefreshLedger ==
  ASSUME NEW d, LedgerOK(d), Refresh(d)
  PROVE  LedgerOK(doc')
  <1>1. SameLedger(d, [d EXCEPT !.refreshing = TRUE])
    BY Zenon DEF LedgerOK, SameLedger, Selects, Document, DocFields
  <1>2. QED
    BY <1>1, LedgerKept, Zenon DEF Refresh

\* Every step of the console keeps the ledger in order.
LEMMA LedgerSteps ==
  ASSUME LedgerOK(doc), ConsoleNext
  PROVE  LedgerOK(doc')
  <1>0. Document(doc) /\ SameLedger(doc, doc)
    BY DEF LedgerOK, SameLedger, Selects
  <1>a. ASSUME NEW v
        PROVE  /\ SameLedger(doc, [doc EXCEPT !.live = v])
               /\ SameLedger(doc, [doc EXCEPT !.palette = v])
               /\ SameLedger(doc, [doc EXCEPT !.busy = v])
               /\ SameLedger(doc, [doc EXCEPT !.dialog = v])
    BY <1>0, Zenon DEF SameLedger, Selects, Document, DocFields
  <1>b. ASSUME NEW v
        PROVE  /\ LedgerOK([doc EXCEPT !.live = v]) /\ LedgerOK([doc EXCEPT !.palette = v])
               /\ LedgerOK([doc EXCEPT !.busy = v]) /\ LedgerOK([doc EXCEPT !.dialog = v])
    BY <1>a, LedgerKept, Zenon
  <1>1. ASSUME NEW i \in 1..Len(polls), Polling(i)
        PROVE  LedgerOK(doc')
    <2>1. CASE ReadSnapshot(i) \/ ReadRuntime(i)
      BY <2>1 DEF ReadSnapshot, ReadRuntime
    <2>2. CASE ReceivePoll(i)
      <3> DEFINE d == [Refreshed(doc) EXCEPT !.state = polls[i].snapshot,
                                             !.paused = polls[i].paused, !.lost = FALSE]
      <3>1. /\ Document(d) /\ d.page = doc.page /\ d.state = polls[i].snapshot
            /\ d.active = doc.active /\ d.hash = doc.hash /\ d.moved = doc.moved
            /\ d.filter = doc.filter
        BY <1>0, Zenon DEF Document, DocFields, Refreshed
      <3>2. doc' = Render(d) /\ polls[i].snapshot # None
        BY <2>2 DEF ReceivePoll
      <3> HIDE DEF d
      <3>3. ~doc.moved /\ View(doc.hash) \in Ledgers => doc.filter \in Options(View(doc.hash))
        BY DEF LedgerOK, Options
      <3>4. d.page \in Nat
        BY <3>1 DEF LedgerOK
      <3>5. QED
        BY <3>1, <3>2, <3>3, <3>4, RenderLedger
    <2>3. QED
      BY <1>1, <2>1, <2>2 DEF Polling
  <1>2. ASSUME NEW i \in 1..Len(polls), LosePoll(i)
        PROVE  LedgerOK(doc')
    <2>1. SameLedger(doc, [Refreshed(doc) EXCEPT !.lost = TRUE])
      BY <1>0, Zenon DEF SameLedger, Selects, Document, DocFields, Refreshed
    <2>2. QED
      BY <1>2, <2>1, LedgerKept DEF LosePoll
  <1>3. CASE Timer \/ RefreshNow
    BY <1>3, RefreshLedger DEF Timer, RefreshNow
  <1>4. CASE ToggleLive
    BY <1>4, <1>b, RefreshLedger, Zenon DEF ToggleLive
  <1>5. CASE HashChange
    <2> DEFINE e == [doc EXCEPT !.moved = FALSE]
    <2>1. Document(e) /\ e.state = doc.state /\ e.active = doc.active
      BY <1>0, Zenon DEF Document, DocFields
    <2>2. doc' = Select(e, "all", None)
      BY <1>5 DEF HashChange, Handled
    <2> HIDE DEF e
    <2>3. doc.state = None => doc.active = "overview"
      BY DEF LedgerOK
    <2>4. QED
      BY <2>1, <2>2, <2>3, SelectLedger
  <1>6. CASE OpenPalette \/ ClosePalette
    BY <1>6, <1>b, Zenon DEF OpenPalette, ClosePalette, Handled
  <1>7. CASE ClearFilters \/ SortBy \/ \E f \in Final \cup {"all", "accepted"} : FilterBy(f)
    <2>1. doc.active \in Ledgers
      BY <1>7 DEF ClearFilters, SortBy, FilterBy, InLedger
    <2>2. doc.state # None
      BY <2>1 DEF LedgerOK, Ledgers
    <2>3. PICK f, q : /\ doc' = Select(doc, f, q)
                      /\ f \in {"all", doc.filter} \cup Options(doc.active)
      BY <1>7 DEF ClearFilters, SortBy, FilterBy, Handled
    <2>4. ~doc.moved => doc.active = View(doc.hash) /\ f \in Options(doc.active)
      BY <2>1, <2>2, <2>3 DEF LedgerOK, Options
    <2>5. QED
      BY <1>0, <2>2, <2>3, <2>4, SelectLedger
  <1>8. ASSUME NEW v \in Address, Navigate(v) \/ ChoosePage(v)
        PROVE  LedgerOK(doc')
    <2>1. ASSUME NEW d, LedgerOK(d)
          PROVE  LedgerOK(Follow(d, v))
      <3> DEFINE e == Follow(d, v)
      <3>1. /\ Document(e) /\ e.moved = TRUE /\ e.state = d.state /\ e.active = d.active
            /\ e.filter = d.filter /\ e.search = d.search /\ e.page = d.page
        BY <2>1, Zenon DEF LedgerOK, Document, DocFields, Follow
      <3> HIDE DEF e
      <3>2. Rows(e) = Rows(d)
        BY <3>1 DEF Rows
      <3>3. Pages(e) = Pages(d)
        BY <3>2 DEF Pages
      <3>4. LedgerOK(e)
        BY <2>1, <3>1, <3>3 DEF LedgerOK
      <3>5. QED
        BY <3>4 DEF e
    <2>2. QED
      BY <1>8, <1>b, <2>1, Zenon DEF Navigate, ChoosePage, Handled
  <1>9. ASSUME NEW x \in Delivery, Search(x)
        PROVE  LedgerOK(doc')
    <2> DEFINE e == [doc EXCEPT !.search = x, !.page = 0]
    <2>1. /\ Document(e) /\ e.page = 0 /\ e.state = doc.state /\ e.hash = doc.hash
          /\ e.moved = doc.moved /\ e.active = doc.active /\ e.filter = doc.filter
      BY <1>0, Zenon DEF Document, DocFields
    <2>2. doc' = Clamp(e)
      BY <1>9 DEF Search, Handled
    <2> HIDE DEF e
    <2>3. /\ Selects(e, doc') /\ doc'.page \in Nat
          /\ e.active \in Ledgers => doc'.page \in 0..(Pages(doc') - 1)
      BY <2>1, <2>2, ClampLedger
    <2>4. QED
      BY <2>1, <2>3 DEF LedgerOK, Selects
  <1>10. ASSUME NEW n \in {-1, 1}, TurnPage(n)
         PROVE  LedgerOK(doc')
    <2> DEFINE e == [doc EXCEPT !.page = @ + n]
    <2>1. /\ Document(e) /\ e.page = doc.page + n /\ e.state = doc.state /\ e.hash = doc.hash
          /\ e.moved = doc.moved /\ e.active = doc.active /\ e.filter = doc.filter
      BY <1>0, Zenon DEF Document, DocFields
    <2>2. /\ doc' = Render(e) /\ doc.active \in Ledgers
          /\ doc.page + n \in 0..(Pages(doc) - 1)
      BY <1>10 DEF TurnPage, InLedger, Handled
    <2> HIDE DEF e
    <2>3. doc.page + n \in Nat
      BY <2>2, PagesPositive
    <2>4. doc.state # None
      BY <2>2 DEF LedgerOK, Ledgers
    <2>5. ~doc.moved => doc.filter \in Options(View(doc.hash))
      BY <2>2, <2>4 DEF LedgerOK
    <2>6. QED
      BY <2>1, <2>2, <2>3, <2>4, <2>5, RenderLedger
  <1>11. ASSUME NEW kind \in LabActions, Scenario(kind)
         PROVE  LedgerOK(doc')
    BY <1>11, <1>b, Zenon DEF Scenario
  <1>12. CASE ShowScreen \/ CloseDialog \/ OpenForm \/ \E x \in Delivery : Details(x)
    <2>1. ASSUME NEW content PROVE LedgerOK(OpenDialog(doc, content))
      BY <1>b, Zenon DEF OpenDialog
    <2>2. LedgerOK([doc EXCEPT !.dialog.open = FALSE])
      BY <1>b, Zenon
    <2>3. QED
      BY <1>12, <2>1, <2>2, Zenon DEF ShowScreen, CloseDialog, OpenForm, Details, Handled
  <1>13. CASE Replay \/ RecordPlayback \/ \E n \in 1..Len(forms) :
                Submit(n) \/ \E p \in Payload : EditForm(n, p)
    BY <1>13, Zenon DEF Replay, RecordPlayback, Submit, EditForm
  <1>14. ASSUME NEW c \in calls, ServeCall(c) PROVE LedgerOK(doc')
    BY <1>14 DEF ServeCall
  <1>15. ASSUME NEW c \in calls, Answered(c) PROVE LedgerOK(doc')
    <2> DEFINE d == [doc EXCEPT !.dialog.open = @ /\ ~(c.kind = "replay"
                                    \/ (c.kind = "reserve" /\ Connected(c.arg))),
                       !.busy = IF ~IsScenario(c) THEN @
                                ELSE IF doc.refreshing THEN "no" ELSE "refreshing"]
    <2>1. SameLedger(doc, d)
      BY <1>0, Zenon DEF SameLedger, Selects, Document, DocFields
    <2>2. Refresh(d)
      BY <1>15 DEF Answered
    <2> HIDE DEF d
    <2>3. QED
      BY <2>1, <2>2, LedgerKept, RefreshLedger
  <1>16. ASSUME NEW c \in calls, Refused(c) \/ LoseCall(c) PROVE LedgerOK(doc')
    BY <1>16, <1>b, Zenon DEF Refused, LoseCall, GiveUp
  <1>17. ASSUME NEW x \in Delivery, Decide(x) PROVE LedgerOK(doc')
    BY <1>17 DEF Decide
  <1>18. QED
    BY <1>1, <1>2, <1>3, <1>4, <1>5, <1>6, <1>7, <1>8, <1>9, <1>10, <1>11, <1>12, <1>13,
       <1>14, <1>15, <1>16, <1>17 DEF ConsoleNext, Moving, Working

\* The pages' own steps leave the document alone or refresh it.
LEMMA LedgerStep ==
  ASSUME LedgerOK(doc), [PagesNext]_pageVars
  PROVE  LedgerOK(doc')
  <1>1. CASE ConsoleNext
    BY <1>1, LedgerSteps
  <1>2. CASE AssuranceNext
    <2>1. doc' = doc
      BY <1>2, Zenon DEF AssuranceNext, ChangeCampaign, RefreshReport, ProofComplete,
                         ReceiveRead, LoseRead, StaysConsole, consoleVars
    <2>2. QED
      BY <2>1
  <1>3. CASE IntakeNext
    <2>1. CASE \E r \in wire : GetBatch(r)
      BY <2>1, RefreshLedger DEF GetBatch
    <2>2. CASE ~ \E r \in wire : GetBatch(r)
      <3>1. doc' = doc
        BY <1>3, <2>2, Zenon DEF IntakeNext, LoadExample, SendBatch, ChooseCampaign, ChooseNone,
             EditPrice, ExpireHold, GetHold, Reject, Uncertain, ServeReserve, ServeBatch, consoleVars
      <3>2. QED
        BY <3>1
    <2>3. QED
      BY <2>1, <2>2
  <1>4. CASE UNCHANGED pageVars
    BY <1>4 DEF pageVars, consoleVars
  <1>5. QED
    BY <1>1, <1>2, <1>3, <1>4 DEF PagesNext

\* The ledger and the recovery queue are always on a page that exists and under
\* a filter they offer, for any receipts, page size and clicks, however the
\* engine changes between two refreshes (render, ledgerResults and the
\* hashchange handler in app.js).
THEOREM LedgerAlwaysInRange == PagesSpec => []LedgerInRange
  <1>1. PagesInit => LedgerOK(doc)
    <2> SUFFICES ASSUME PagesInit PROVE LedgerOK(doc)
      OBVIOUS
    <2>1. /\ Document(doc) /\ doc.state = None /\ doc.active = "overview"
          /\ doc.filter = "all" /\ doc.page = 0
      BY DEF PagesInit, ConsoleInit, Document, DocFields
    <2>2. QED
      BY <2>1 DEF LedgerOK, Ledgers
  <1>2. LedgerOK(doc) /\ [PagesNext]_pageVars => LedgerOK(doc)'
    BY LedgerStep
  <1>3. LedgerOK(doc) => LedgerInRange
    BY DEF LedgerOK, LedgerInRange
  <1>4. QED
    BY <1>1, <1>2, <1>3, PTL DEF PagesSpec

=============================================================================
