--------------------------- MODULE AssurancePage ---------------------------
(***************************************************************************)
(* The campaign assurance page (internal/console/web/assurance.js) inside  *)
(* the console.  Unlike the console's own refresh, its requests are not    *)
(* kept to one at a time: a ticket tells the newest from the others.       *)
(***************************************************************************)
EXTENDS Console

CONSTANTS
  Campaign,
  First,      \* the first campaign of the snapshot
  MaxReads    \* bound of the model: report requests under way

ASSUME CampaignAssumption ==
  First \in Campaign /\ None \notin Campaign /\ MaxReads \in Nat

VARIABLES
  assurance,   \* the variables of assurance.js
  reads        \* report requests under way

assuranceVars == <<assurance, reads>>

AssuranceInit ==
  /\ assurance = [selected |-> None, report |-> None, loading |-> FALSE,
                  error |-> FALSE, generation |-> 0]
  /\ reads = {}

\* fetchReport, up to its request.
FetchReport(a) ==
  /\ assurance' = [a EXCEPT !.generation = @ + 1, !.loading = TRUE, !.error = FALSE,
                            !.report = None]
  /\ reads' = reads \cup {[ticket |-> a.generation + 1, campaign |-> a.selected]}

\* render: the first campaign is selected, a missing report is fetched.
RenderAssurance ==
  LET a == [assurance EXCEPT !.selected = IF @ = None THEN First ELSE @]
  IN  IF a.report = None /\ ~a.loading /\ ~a.error
      THEN FetchReport(a)
      ELSE assurance' = a /\ UNCHANGED reads

\* Mutant: an answer is shown whatever was asked after it.
ReceiveReadUnticketed(r) ==
  /\ reads' = reads \ {r}
  /\ assurance' = [assurance EXCEPT !.report = r, !.loading = FALSE]
  /\ UNCHANGED consoleVars

\* fetchReport, from its answer on.
ReceiveRead(r) ==
  /\ reads' = reads \ {r}
  /\ assurance' = IF r.ticket = assurance.generation
                  THEN [assurance EXCEPT !.report = r, !.loading = FALSE]
                  ELSE assurance
  /\ UNCHANGED consoleVars

\* fetchReport, when the request fails.
LoseRead(r) ==
  /\ Fault
  /\ reads' = reads \ {r}
  /\ assurance' = IF r.ticket = assurance.generation
                  THEN [assurance EXCEPT !.error = TRUE, !.loading = FALSE]
                  ELSE assurance
  /\ UNCHANGED <<engine, doc, forms, polls, calls, clicks>>

OnAssurance == Click /\ doc.active = "assurance" /\ Cardinality(reads) < MaxReads

StaysConsole == UNCHANGED <<engine, doc, forms, polls, calls, faults>>

ChangeCampaign(c) ==
  /\ OnAssurance /\ InMain /\ c # assurance.selected
  /\ FetchReport([assurance EXCEPT !.selected = c])
  /\ StaysConsole

\* The refresh and retry buttons.
RefreshReport == OnAssurance /\ InMain /\ FetchReport(assurance) /\ StaysConsole

\* The inline proof of the page announces its end, also under a dialog.
ProofComplete == OnAssurance /\ FetchReport(assurance) /\ StaysConsole

\* The console draws the page when it becomes the active one and leaves it
\* alone while it is.
AssuranceFollows ==
  IF doc.active # "assurance" /\ doc'.active = "assurance"
  THEN RenderAssurance ELSE UNCHANGED assuranceVars

AssuranceNext ==
  \/ \E c \in Campaign : ChangeCampaign(c)
  \/ RefreshReport \/ ProofComplete
  \/ \E r \in reads : ReceiveRead(r) \/ LoseRead(r)

-----------------------------------------------------------------------------
\* A report on the page, which is also the one that is exported, is of the
\* selected campaign and answers the newest request for one, in whatever
\* order the answers arrive and whether or not others fail.
ReportIsSelected ==
  assurance.report # None =>
    /\ assurance.report.campaign = assurance.selected
    /\ assurance.report.ticket = assurance.generation
    /\ ~assurance.loading /\ ~assurance.error

=============================================================================
