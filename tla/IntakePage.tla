----------------------------- MODULE IntakePage -----------------------------
(***************************************************************************)
(* The partner intake page (internal/console/web/intake.js) inside the     *)
(* console: it prepares an example batch for a hold it reserves under a    *)
(* plan's request key, and sends the batch.                                *)
(*                                                                         *)
(* The receipts of an example are reduced to the hold they report; the     *)
(* scenario that is chosen and edits of the request body change nothing    *)
(* that is told apart here.  Holds are the engine's, with form 0.  What    *)
(* Admission and Store show of the batch endpoint is not repeated.         *)
(***************************************************************************)
EXTENDS Console

CONSTANTS
  Price,        \* valid prices
  MaxIntake     \* bound of the model: what the user does on this page

ASSUME IntakeAssumption ==
  /\ Price \subseteq Nat /\ MaxIntake \in Nat
  /\ \E p \in Price : \A q \in Price : p <= q
  /\ None \notin [key : {0} \X Nat, cost : Price \cup {None}, hold : {None}]

VARIABLES
  intake,     \* the variables of intake.js
  wire,       \* its requests under way, given up or not
  ended,      \* request keys of its holds that are settled
  expired,    \* request keys of its holds whose time is over
  shown,      \* history: request keys of the holds an example was shown for
  sent,       \* history: request keys of the holds a batch was sent for
  rejected,   \* history: request keys the service refused
  dropped,    \* history: request keys of uncertain plans a batch was sent over
  touches     \* what the user did

intakeVars == <<intake, wire, ended, expired, shown, sent, rejected, dropped, touches>>
intakeHistory == <<shown, sent, rejected, dropped>>

\* The price field starts with $0.01.
Lowest == CHOOSE p \in Price : \A q \in Price : p <= q

IntakeInit ==
  /\ intake = [price |-> Lowest, cost |-> None, plan |-> None, draft |-> None,
               stage |-> "idle", plans |-> 0]
  /\ wire = {} /\ ended = {} /\ expired = {}
  /\ shown = {} /\ sent = {} /\ rejected = {} /\ dropped = {}
  /\ touches = 0

Pending == intake.stage # "idle"

Touch ==
  /\ touches < MaxIntake /\ touches' = touches + 1
  /\ doc.active = "intake" /\ InMain /\ ~Pending

-----------------------------------------------------------------------------
(* Preparing an example *)

\* Mutant: the price can be changed while a reservation is uncertain.
EditPriceAnyTime(p) ==
  /\ Touch /\ p # intake.price
  /\ intake' = [intake EXCEPT !.price = p]
  /\ UNCHANGED <<consoleVars, wire, ended, expired, intakeHistory>>

\* The field is disabled while a plan has no hold yet.
EditPrice(p) ==
  /\ Touch /\ p # intake.price
  /\ intake.plan # None => intake.plan.hold # None
  /\ intake' = [intake EXCEPT !.price = p]
  /\ UNCHANGED <<consoleVars, wire, ended, expired, intakeHistory>>

\* The example for a hold replaces the request body.
Ready(i) ==
  [i EXCEPT !.stage = "idle",
            !.draft = [key |-> i.plan.key, cost |-> i.plan.hold.cost, asked |-> i.cost,
                       again |-> i.plan.key \in sent]]

Reserving(i) == [kind |-> "reserve", key |-> i.plan.key, cost |-> i.plan.cost,
                 awaited |-> TRUE, answer |-> None]

\* A hold whose time is over or whose price is another one is not used again.
NeedsPlan(i) ==
  i.plan # None => i.plan.hold # None /\ (i.plan.key \in expired \/ i.plan.cost # i.cost)

LoadExample ==
  LET i == [intake EXCEPT !.cost = intake.price]
  IN  /\ Touch
      /\ \/ /\ NeedsPlan(i)
            /\ intake' = [i EXCEPT !.stage = "choosing"]
            /\ UNCHANGED <<wire, shown>>
         \/ /\ ~NeedsPlan(i) /\ i.plan.hold = None
            /\ intake' = [i EXCEPT !.stage = "reserving"]
            /\ wire' = wire \cup {Reserving(i)}
            /\ UNCHANGED shown
         \/ /\ ~NeedsPlan(i) /\ i.plan.hold # None
            /\ intake' = Ready(i)
            /\ shown' = shown \cup {i.plan.key}
            /\ UNCHANGED wire
      /\ UNCHANGED <<consoleVars, ended, expired, sent, rejected, dropped>>

\* The snapshot names a campaign with enough budget: a plan with a new request
\* key is made and its hold reserved.
ChooseCampaign ==
  LET i == [intake EXCEPT !.stage = "reserving", !.plans = @ + 1,
              !.plan = [key |-> <<0, intake.plans>>, cost |-> intake.cost, hold |-> None]]
  IN  /\ intake.stage = "choosing"
      /\ intake' = i
      /\ wire' = wire \cup {Reserving(i)}
      /\ UNCHANGED <<consoleVars, ended, expired, intakeHistory, touches>>

\* No campaign has, or the snapshot could not be read.
ChooseNone ==
  /\ intake.stage = "choosing"
  /\ intake' = [intake EXCEPT !.stage = "idle"]
  /\ UNCHANGED <<consoleVars, wire, ended, expired, intakeHistory, touches>>

\* The hold is there: an example is shown, unless the hold is over already.
GetHold(r) ==
  LET i == [intake EXCEPT !.plan.hold = r.answer]
      usable == r.answer.held /\ r.key \notin expired
  IN  /\ r.kind = "reserve" /\ r.awaited /\ r.answer # None
      /\ intake' = IF usable THEN Ready(i) ELSE [i EXCEPT !.plan = None, !.stage = "idle"]
      /\ shown' = IF usable THEN shown \cup {r.key} ELSE shown
      /\ wire' = wire \ {r}
      /\ UNCHANGED <<consoleVars, ended, expired, sent, rejected, dropped, touches>>

\* A definitive rejection: the plan is discarded.
Reject(r) ==
  /\ r.kind = "reserve" /\ r.awaited /\ r.answer = None
  /\ intake' = [intake EXCEPT !.plan = None, !.stage = "idle"]
  /\ wire' = wire \ {r}
  /\ rejected' = rejected \cup {r.key}
  /\ UNCHANGED <<consoleVars, ended, expired, shown, sent, dropped, touches>>

\* Mutant: every failure discards the plan.
UncertainDiscards(r) ==
  /\ r.awaited /\ Fault
  /\ intake' = [intake EXCEPT !.stage = "idle", !.plan = None]
  /\ wire' = (wire \ {r}) \cup IF r.answer = None THEN {[r EXCEPT !.awaited = FALSE]} ELSE {}
  /\ UNCHANGED <<engine, doc, forms, polls, calls, clicks>>
  /\ UNCHANGED <<ended, expired, intakeHistory, touches>>

\* A timeout, a lost answer or a failing service: the plan, if the page has
\* one, and its request key are kept.  The request may still be carried out.
Uncertain(r) ==
  /\ r.awaited /\ Fault
  /\ intake' = [intake EXCEPT !.stage = "idle"]
  /\ wire' = (wire \ {r}) \cup IF r.answer = None THEN {[r EXCEPT !.awaited = FALSE]} ELSE {}
  /\ UNCHANGED <<engine, doc, forms, polls, calls, clicks>>
  /\ UNCHANGED <<ended, expired, intakeHistory, touches>>

-----------------------------------------------------------------------------
(* Sending the batch *)

Sending == [kind |-> "batch", key |-> intake.draft.key, cost |-> None,
            awaited |-> TRUE, answer |-> None]

\* A plan that waits for its hold to be confirmed.
Uncertainty ==
  {k \in {<<0, n>> : n \in 0..intake.plans} :
     intake.plan # None /\ intake.plan.key = k /\ intake.plan.hold = None}

\* A submitted hold is not used for a new example, whatever the answer.  The
\* plan is discarded also when the batch on the page is an older example's.
SendBatch ==
  /\ Touch /\ intake.draft # None
  /\ intake' = [intake EXCEPT !.plan = None, !.stage = "sending"]
  /\ wire' = wire \cup {Sending}
  /\ sent' = sent \cup {intake.draft.key}
  /\ dropped' = dropped \cup Uncertainty
  /\ UNCHANGED <<consoleVars, ended, expired, shown, rejected>>

\* The result is shown and the page refreshed; the handler waits for that.
GetBatch(r) ==
  /\ r.kind = "batch" /\ r.awaited /\ r.answer # None
  /\ intake' = [intake EXCEPT !.stage = IF doc.refreshing THEN "idle" ELSE "refreshing"]
  /\ wire' = wire \ {r}
  /\ Refresh(doc)
  /\ UNCHANGED <<engine, forms, calls, clicks, faults>>
  /\ UNCHANGED <<ended, expired, intakeHistory, touches>>

\* The console's part of that: it ends with the refresh.
IntakeFollows ==
  /\ intake' = IF intake.stage = "refreshing" /\ ~doc'.refreshing
               THEN [intake EXCEPT !.stage = "idle"] ELSE intake
  /\ UNCHANGED <<wire, ended, expired, intakeHistory, touches>>

-----------------------------------------------------------------------------
(* The engine's part *)

Replied(r, a) ==
  wire' = (wire \ {r}) \cup IF r.awaited THEN {[r EXCEPT !.answer = a]} ELSE {}

\* Reserve under the request key, or the hold that was reserved under it.
ServeReserve(r) ==
  /\ r.kind = "reserve" /\ r.answer = None
  /\ IF \E h \in engine.holds : h.key = r.key THEN UNCHANGED engine
     ELSE Change([engine EXCEPT !.holds = @ \cup
                    {[form |-> 0, key |-> r.key, payload |-> r.cost]}])
  /\ Replied(r, [cost |-> r.cost, held |-> r.key \notin ended])
  /\ UNCHANGED <<doc, forms, polls, calls, clicks, faults>>
  /\ UNCHANGED <<intake, ended, expired, intakeHistory, touches>>

\* The receipts are accepted; they may settle the hold, now or never.
ServeBatch(r) ==
  /\ r.kind = "batch" /\ r.answer = None
  /\ Change(engine)
  /\ ended' \in {ended, ended \cup {r.key}}
  /\ Replied(r, r.key)
  /\ UNCHANGED <<doc, forms, polls, calls, clicks, faults>>
  /\ UNCHANGED <<intake, expired, intakeHistory, touches>>

\* Time passes, and the worker releases the hold.
ExpireHold(h) ==
  /\ h.form = 0 /\ h.key \notin expired
  /\ expired' = expired \cup {h.key} /\ ended' = ended \cup {h.key}
  /\ UNCHANGED <<consoleVars, intake, wire, intakeHistory, touches>>

IntakeNext ==
  \/ LoadExample \/ SendBatch \/ ChooseCampaign \/ ChooseNone
  \/ \E p \in Price : EditPrice(p)
  \/ \E r \in wire :
       GetHold(r) \/ Reject(r) \/ Uncertain(r) \/ GetBatch(r) \/ ServeReserve(r) \/ ServeBatch(r)
  \/ \E h \in engine.holds : ExpireHold(h)

-----------------------------------------------------------------------------
\* The example on the page is the one that was asked for: its hold costs what
\* the price field said when it was loaded, also when an earlier reservation
\* was uncertain, and no batch had been sent for that hold before.
ExampleAsAsked ==
  intake.draft # None => intake.draft.cost = intake.draft.asked /\ ~intake.draft.again

\* No hold is lost track of by a lost answer: every hold the page reserves is
\* the one of its plan, or was shown in an example, or is over.  The exceptions
\* are a request the service refused once (an abandoned attempt of it may be
\* carried out later) and an uncertain plan the user sent an older example over.
HoldsTracked ==
  \A h \in engine.holds :
    h.form = 0 =>
      \/ h.key \in shown \cup ended \cup rejected \cup dropped
      \/ intake.plan # None /\ intake.plan.key = h.key

=============================================================================
