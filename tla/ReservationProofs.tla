------------------------- MODULE ReservationProofs -------------------------
(***************************************************************************)
(* Proofs about what the console reserves: holds of the reservation form   *)
(* and of the intake page, however answers are lost, late or refused.      *)
(* Every request under way and every hold goes back to the submission that *)
(* named its key, so a key never stands for two reservations.              *)
(***************************************************************************)
EXTENDS ConsolePages, TLAPS

-----------------------------------------------------------------------------
(* The engine's state *)

EngineFields == {"version", "deliveries", "holds", "paused"}

Service(e) == e = [f \in EngineFields |-> e[f]]

\* Whatever a call does, the engine's state keeps its shape.
LEMMA PerformKeeps ==
  ASSUME Service(engine), NEW c, Perform(c)
  PROVE  Service(engine')
  <1>1. ASSUME NEW e, Service(e), Change(e) PROVE Service(engine')
    BY <1>1 DEF Change, Service, EngineFields
  <1>2. ASSUME NEW v PROVE Service([engine EXCEPT !.deliveries = v])
    BY DEF Service, EngineFields
  <1>3. ASSUME NEW v PROVE Service([engine EXCEPT !.holds = v])
    BY DEF Service, EngineFields
  <1>4. ASSUME NEW x, NEW v PROVE Service([engine EXCEPT !.deliveries[x] = v])
    BY <1>2
  <1>5. CASE c.kind = "pause"
    BY <1>5 DEF Perform, Service, EngineFields
  <1>6. CASE c.kind = "replay"
    BY <1>1, <1>4, <1>6, Zenon DEF Perform
  <1>7. CASE c.kind = "reserve"
    BY <1>1, <1>3, <1>7, Zenon DEF Perform
  <1>8. CASE c.kind \notin {"pause", "replay", "reserve"}
    BY <1>1, <1>4, <1>8, Zenon DEF Perform, Arrives
  <1>9. QED
    BY <1>5, <1>6, <1>7, <1>8

\* The engine changes by calls, decisions and the intake page's requests alone.
LEMMA ServiceStep ==
  ASSUME Service(engine), [PagesNext]_pageVars
  PROVE  Service(engine')
  <1>0. engine' = engine => Service(engine')
    OBVIOUS
  <1>1. ASSUME NEW e, Service(e), Change(e) PROVE Service(engine')
    BY <1>1 DEF Change, Service, EngineFields
  <1>2. ASSUME NEW v PROVE /\ Service([engine EXCEPT !.deliveries = v])
                           /\ Service([engine EXCEPT !.holds = v])
    BY DEF Service, EngineFields
  <1>3. CASE \E c \in calls : ServeCall(c)
    BY <1>0, <1>3, PerformKeeps, Zenon DEF ServeCall
  <1>4. CASE \E x \in Delivery : Decide(x)
    <2>1. PICK x \in Delivery, s \in Decision : Change([engine EXCEPT !.deliveries[x] = s])
      BY <1>4, Zenon DEF Decide
    <2>2. QED
      BY <1>1, <1>2, <2>1, Zenon
  <1>5. CASE \E r \in wire : ServeReserve(r) \/ ServeBatch(r)
    BY <1>0, <1>1, <1>2, <1>5, Zenon DEF ServeReserve, ServeBatch
  <1>6. CASE AssuranceNext
    BY <1>0, <1>6, Zenon DEF AssuranceNext, ChangeCampaign, RefreshReport, ProofComplete,
                             ReceiveRead, LoseRead, StaysConsole, consoleVars
  <1>7. CASE IntakeNext /\ ~\E r \in wire : ServeReserve(r) \/ ServeBatch(r)
    BY <1>0, <1>7, Zenon DEF IntakeNext, LoadExample, SendBatch, ChooseCampaign, ChooseNone,
         EditPrice, ExpireHold, GetHold, Reject, Uncertain, GetBatch, consoleVars
  <1>8. CASE \/ \E i \in 1..Len(polls) : Polling(i) \/ LosePoll(i)
             \/ \E c \in calls : Answered(c) \/ Refused(c) \/ LoseCall(c)
    BY <1>0, <1>8, Zenon DEF Polling, ReadSnapshot, ReadRuntime, ReceivePoll, LosePoll,
         Answered, Refused, LoseCall, GiveUp
  <1>9. CASE Timer \/ HashChange \/ Moving
    BY <1>0, <1>9, Zenon DEF Timer, HashChange, Moving, ToggleLive, RefreshNow, OpenPalette,
         ClosePalette, ClearFilters, SortBy, Navigate, ChoosePage, FilterBy, Search, TurnPage, Handled
  <1>10. CASE Working
    BY <1>0, <1>10, Zenon DEF Working, ShowScreen, CloseDialog, Details, Handled, Replay,
         RecordPlayback, Scenario, OpenForm, EditForm, Submit
  <1>11. CASE UNCHANGED pageVars
    BY <1>0, <1>11 DEF pageVars, consoleVars
  <1>12. QED
    BY <1>3, <1>4, <1>5, <1>6, <1>7, <1>8, <1>9, <1>10, <1>11 DEF PagesNext, ConsoleNext

\* The engine starts well formed.
LEMMA ServiceInitial ==
  ASSUME PagesInit
  PROVE  Service(engine)
  <1>1. PICK statuses \in Initials :
          engine = [version |-> 0, deliveries |-> statuses, holds |-> {}, paused |-> FALSE]
    BY Zenon DEF PagesInit, ConsoleInit
  <1>2. QED
    BY <1>1, Zenon DEF Service, EngineFields

-----------------------------------------------------------------------------
(* Reservations *)

FormType ==
  [payload : Payload, fingerprint : Payload \cup {None}, key : (Nat \X Nat) \cup {None},
   disabled : BOOLEAN, log : Seq(Payload)]

CallFields == {"id", "kind", "arg", "key", "payload", "stage", "awaited"}

Calling(c) == c = [f \in CallFields |-> c[f]]

\* Line i of the log is the first of those that ask for p in a row.
Start(log, i, p) == i \in 1..Len(log) /\ log[i] = p /\ (i = 1 \/ log[i - 1] # p)

\* The request key names the first submission of the payload.
Asked(fs, n, key, p) ==
  n \in 1..Len(fs) /\ \E i \in 1..Len(fs[n].log) : key = <<n, i - 1>> /\ Start(fs[n].log, i, p)

\* The form remembers its last submission and the key of it.
Keyed(fs, n) ==
  LET f == fs[n]
  IN  \/ f.log = <<>> /\ f.fingerprint = None
      \/ /\ f.log # <<>> /\ f.fingerprint = f.log[Len(f.log)]
         /\ Asked(fs, n, f.key, f.fingerprint)

FormsOK == forms \in Seq(FormType) /\ \A n \in 1..Len(forms) : Keyed(forms, n)

CallsOK(cs, fs) ==
  \A c \in cs : Calling(c) /\ (c.kind = "reserve" => Asked(fs, c.arg, c.key, c.payload))

HoldsOK(hs, fs) ==
  /\ \A h \in hs : h.form # 0 => Asked(fs, h.form, h.key, h.payload)
  /\ \A g, h \in hs : g.key = h.key => g = h

\* Every hold and every request for one goes back to a submission, and a
\* request key has one hold.
ReserveInv == FormsOK /\ CallsOK(calls, forms) /\ HoldsOK(engine.holds, forms)

\* A log that grows keeps what was asked.
LEMMA AskedStays ==
  ASSUME NEW fs, NEW gs, NEW n, NEW key, NEW p, Asked(fs, n, key, p),
         Len(fs) \in Nat, Len(gs) \in Nat, Len(fs) <= Len(gs),
         \A m \in 1..Len(fs) :
           /\ Len(fs[m].log) \in Nat /\ Len(gs[m].log) \in Nat
           /\ Len(fs[m].log) <= Len(gs[m].log)
           /\ \A i \in 1..Len(fs[m].log) : gs[m].log[i] = fs[m].log[i]
  PROVE  Asked(gs, n, key, p)
  <1>1. n \in 1..Len(fs) /\ n \in 1..Len(gs)
    BY DEF Asked
  <1>2. PICK i \in 1..Len(fs[n].log) : key = <<n, i - 1>> /\ Start(fs[n].log, i, p)
    BY DEF Asked
  <1>3. i \in 1..Len(gs[n].log) /\ gs[n].log[i] = fs[n].log[i]
    BY <1>1, <1>2
  <1>4. i # 1 => i - 1 \in 1..Len(fs[n].log) /\ gs[n].log[i - 1] = fs[n].log[i - 1]
    BY <1>1, <1>2
  <1>5. Start(gs[n].log, i, p)
    BY <1>2, <1>3, <1>4 DEF Start
  <1>6. QED
    BY <1>1, <1>2, <1>3, <1>5 DEF Asked

\* Forms change, but no log loses a line.
LogsGrow ==
  /\ forms' \in Seq(FormType) /\ Len(forms) <= Len(forms')
  /\ \A m \in 1..Len(forms) :
       /\ Len(forms[m].log) <= Len(forms'[m].log)
       /\ \A i \in 1..Len(forms[m].log) : forms'[m].log[i] = forms[m].log[i]

\* A submission that named a key is never forgotten.
LEMMA GrownAsked ==
  ASSUME forms \in Seq(FormType), LogsGrow
  PROVE  \A n, key, p : Asked(forms, n, key, p) => Asked(forms', n, key, p)
  <1>1. /\ Len(forms) \in Nat /\ Len(forms') \in Nat /\ Len(forms) <= Len(forms')
        /\ \A m \in 1..Len(forms) : m \in 1..Len(forms')
    BY DEF LogsGrow
  <1>2. \A m \in 1..Len(forms) : Len(forms[m].log) \in Nat /\ Len(forms'[m].log) \in Nat
    BY <1>1 DEF LogsGrow, FormType
  <1>3. QED
    BY <1>1, <1>2, AskedStays DEF LogsGrow

\* One form changes and its log stays.
LEMMA FormTouched ==
  ASSUME FormsOK, NEW n \in 1..Len(forms), NEW f \in FormType, forms' = [forms EXCEPT ![n] = f],
         f.log = forms[n].log, f.fingerprint = forms[n].fingerprint, f.key = forms[n].key
  PROVE  FormsOK' /\ LogsGrow
  <1>1. /\ forms' \in Seq(FormType) /\ Len(forms') = Len(forms) /\ forms'[n] = f
        /\ \A m \in 1..Len(forms) \ {n} : forms'[m] = forms[m]
    BY DEF FormsOK
  <1>2. \A m \in 1..Len(forms) : /\ forms'[m].log = forms[m].log
                                 /\ forms'[m].fingerprint = forms[m].fingerprint
                                 /\ forms'[m].key = forms[m].key
    BY <1>1
  <1>3. \A m \in 1..Len(forms) : Len(forms[m].log) \in Nat
    BY DEF FormsOK, FormType
  <1>4. LogsGrow
    BY <1>1, <1>2, <1>3 DEF LogsGrow, FormsOK
  <1>5. \A m \in 1..Len(forms) : Keyed(forms', m)
    BY <1>1, <1>2, Zenon DEF FormsOK, Keyed, Asked
  <1>6. QED
    BY <1>1, <1>4, <1>5, Zenon DEF FormsOK

\* A submission adds a line; its key names the first line of this payload.
LEMMA SubmitKeeps ==
  ASSUME FormsOK, NEW n \in 1..Len(forms), Submit(n)
  PROVE  /\ FormsOK' /\ LogsGrow
         /\ \E key : /\ Send("reserve", n, key, forms[n].payload)
                     /\ Asked(forms', n, key, forms[n].payload)
  <1> DEFINE f == forms[n]
             p == f.payload
             log == f.log
             key == IF f.fingerprint = p THEN f.key ELSE <<n, Len(log)>>
             g == [f EXCEPT !.disabled = TRUE, !.fingerprint = p, !.key = key,
                            !.log = Append(log, p)]
  <1>0. f \in FormType /\ Len(forms) \in Nat
    BY DEF FormsOK
  <1>1. /\ p \in Payload /\ p # None /\ log \in Seq(Payload) /\ Len(log) \in Nat
        /\ Append(log, p) \in Seq(Payload) /\ Len(Append(log, p)) = Len(log) + 1
        /\ Append(log, p)[Len(log) + 1] = p
        /\ \A i \in 1..Len(log) : Append(log, p)[i] = log[i]
    BY <1>0, ConsoleAssumption DEF FormType
  <1>2. forms' = [forms EXCEPT ![n] = g] /\ Send("reserve", n, key, p)
    BY DEF Submit
  <1>3. key \in (Nat \X Nat) \cup {None}
    BY <1>0, <1>1 DEF FormType
  <1>4. g \in FormType /\ g.log = Append(log, p) /\ g.fingerprint = p /\ g.key = key
    BY <1>0, <1>1, <1>3, Zenon DEF FormType
  <1>k. /\ f.fingerprint = p => key = f.key
        /\ f.fingerprint # p => key = <<n, Len(log)>>
    OBVIOUS
  <1>f. Keyed(forms, n) /\ (f.fingerprint = p => log # <<>> /\ Asked(forms, n, f.key, p))
        /\ (log # <<>> => f.fingerprint = log[Len(log)])
    BY <1>1 DEF FormsOK, Keyed
  <1> HIDE DEF g, key
  <1>5. /\ forms' \in Seq(FormType) /\ Len(forms') = Len(forms) /\ forms'[n] = g
        /\ \A m \in 1..Len(forms) \ {n} : forms'[m] = forms[m]
    BY <1>2, <1>4 DEF FormsOK
  <1>6. \A m \in 1..Len(forms) : Len(forms[m].log) \in Nat
    BY DEF FormsOK, FormType
  <1>7. LogsGrow
    <2>1. /\ Len(forms[n].log) <= Len(forms'[n].log)
          /\ \A i \in 1..Len(forms[n].log) : forms'[n].log[i] = forms[n].log[i]
      BY <1>1, <1>4, <1>5
    <2>2. \A m \in 1..Len(forms) \ {n} :
            /\ Len(forms[m].log) <= Len(forms'[m].log)
            /\ \A i \in 1..Len(forms[m].log) : forms'[m].log[i] = forms[m].log[i]
      BY <1>5, <1>6
    <2>3. QED
      BY <1>0, <1>5, <2>1, <2>2 DEF LogsGrow
  <1>8. \A m, k, q : Asked(forms, m, k, q) => Asked(forms', m, k, q)
    BY <1>7, GrownAsked DEF FormsOK
  <1>9. Asked(forms', n, key, p)
    <2>1. CASE f.fingerprint = p
      BY <1>8, <1>f, <1>k, <2>1
    <2>2. CASE f.fingerprint # p
      <3>1. Len(log) + 1 \in 1..Len(Append(log, p)) /\ Len(log) + 1 - 1 = Len(log)
        BY <1>1
      <3>2. Len(log) + 1 = 1 \/ Append(log, p)[Len(log)] # p
        <4>1. CASE log = <<>>
          BY <4>1
        <4>2. CASE log # <<>>
          <5>1. Len(log) \in 1..Len(log)
            BY <1>1, <4>2
          <5>2. QED
            BY <1>1, <1>f, <2>2, <4>2, <5>1
        <4>3. QED
          BY <4>1, <4>2
      <3>3. Start(Append(log, p), Len(log) + 1, p)
        BY <1>1, <3>1, <3>2 DEF Start
      <3>4. QED
        <4>1. forms'[n].log = Append(log, p) /\ n \in 1..Len(forms')
          BY <1>4, <1>5
        <4>2. key = <<n, Len(log) + 1 - 1>>
          BY <1>k, <2>2, <3>1
        <4>3. QED
          BY <3>1, <3>3, <4>1, <4>2 DEF Asked
    <2>3. QED
      BY <2>1, <2>2
  <1>10. Keyed(forms', n)
    <2>1. g.log # <<>> /\ g.log[Len(g.log)] = p
      BY <1>1, <1>4
    <2>2. QED
      BY <1>4, <1>5, <1>9, <2>1 DEF Keyed
  <1>11. \A m \in 1..Len(forms) \ {n} : Keyed(forms', m)
    BY <1>5, <1>8 DEF FormsOK, Keyed
  <1>12. QED
    BY <1>2, <1>5, <1>7, <1>9, <1>10, <1>11, Zenon DEF FormsOK

\* Requests go on or end, others are sent, holds stay: what was asked remains.
LEMMA CallsKeep ==
  ASSUME ReserveInv, FormsOK', LogsGrow, engine'.holds = engine.holds,
         \A c \in calls' :
           /\ Calling(c)
           /\ c.kind = "reserve" =>
                \/ Asked(forms', c.arg, c.key, c.payload)
                \/ \E b \in calls : b.kind = "reserve" /\ b.arg = c.arg /\ b.key = c.key
                                    /\ b.payload = c.payload
  PROVE  ReserveInv'
  <1>1. \A n, key, p : Asked(forms, n, key, p) => Asked(forms', n, key, p)
    BY GrownAsked DEF ReserveInv, FormsOK
  <1>2. CallsOK(calls, forms)'
    BY <1>1 DEF ReserveInv, CallsOK
  <1>3. HoldsOK(engine.holds, forms)'
    BY <1>1 DEF ReserveInv, HoldsOK
  <1>4. QED
    BY <1>2, <1>3 DEF ReserveInv

\* A step that leaves the forms alone loses no line of their logs.
LEMMA FormsStay ==
  ASSUME FormsOK, forms' = forms
  PROVE  FormsOK' /\ LogsGrow
  <1>1. Len(forms) \in Nat /\ \A m \in 1..Len(forms) : Len(forms[m].log) \in Nat
    BY DEF FormsOK, FormType
  <1>2. QED
    BY <1>1 DEF FormsOK, LogsGrow

\* The button of a form is enabled again.
LEMMA EnableKeeps ==
  ASSUME ReserveInv, NEW c \in calls, Enable(c)
  PROVE  FormsOK' /\ LogsGrow
  <1>0. FormsOK
    BY DEF ReserveInv
  <1>1. CASE c.kind # "reserve"
    BY <1>0, <1>1, FormsStay DEF Enable
  <1>2. CASE c.kind = "reserve"
    <2> DEFINE f == [forms[c.arg] EXCEPT !.disabled = FALSE]
    <2>1. c.arg \in 1..Len(forms)
      BY <1>2 DEF ReserveInv, CallsOK, Asked
    <2>2. forms[c.arg] \in FormType
      BY <1>0, <2>1 DEF FormsOK
    <2>3. /\ f \in FormType /\ f.log = forms[c.arg].log
          /\ f.fingerprint = forms[c.arg].fingerprint /\ f.key = forms[c.arg].key
      BY <2>2, Zenon DEF FormType
    <2>4. forms' = [forms EXCEPT ![c.arg] = f]
      BY <1>2 DEF Enable
    <2> HIDE DEF f
    <2>5. QED
      BY <1>0, <2>1, <2>3, <2>4, FormTouched, Zenon
  <1>3. QED
    BY <1>1, <1>2

\* A call that is sent, and one that is answered or given up, is a call.
LEMMA CallFieldsKept ==
  ASSUME NEW c, Calling(c), NEW v, NEW d,
         d = [c EXCEPT !.stage = v] \/ d = [c EXCEPT !.awaited = v]
  PROVE  Calling(d) /\ d.kind = c.kind /\ d.arg = c.arg /\ d.key = c.key /\ d.payload = c.payload
  <1>1. CASE d = [c EXCEPT !.stage = v]
    BY <1>1, Zenon DEF Calling, CallFields
  <1>2. CASE d = [c EXCEPT !.awaited = v]
    BY <1>2, Zenon DEF Calling, CallFields
  <1>3. QED
    BY <1>1, <1>2

\* Each of its requests goes back to one that was there before.
LEMMA CallMoved ==
  ASSUME CallsOK(calls, forms), NEW c \in calls, NEW d,
         d \in calls \/ \E v : d = [c EXCEPT !.stage = v] \/ d = [c EXCEPT !.awaited = v]
  PROVE  /\ Calling(d)
         /\ \E b \in calls : b.kind = d.kind /\ b.arg = d.arg /\ b.key = d.key
                             /\ b.payload = d.payload
  <1>1. CASE d \in calls
    BY <1>1 DEF CallsOK
  <1>2. ASSUME NEW v, d = [c EXCEPT !.stage = v] \/ d = [c EXCEPT !.awaited = v]
        PROVE  Calling(d) /\ d.kind = c.kind /\ d.arg = c.arg /\ d.key = c.key /\ d.payload = c.payload
    <2>1. Calling(c)
      BY DEF CallsOK
    <2>2. QED
      BY <1>2, <2>1, CallFieldsKept
  <1>3. QED
    BY <1>1, <1>2

\* Send puts one call under way.
LEMMA SentCall ==
  ASSUME NEW kind, NEW arg, NEW key, NEW p, Send(kind, arg, key, p)
  PROVE  \E c : /\ calls' = calls \cup {c} /\ Calling(c)
                /\ c.kind = kind /\ c.arg = arg /\ c.key = key /\ c.payload = p
  <1> DEFINE c == [id |-> clicks, kind |-> kind, arg |-> arg, key |-> key,
                   payload |-> p, stage |-> "sent", awaited |-> TRUE]
  <1>1. calls' = calls \cup {c}
    BY DEF Send
  <1>2. Calling(c) /\ c.kind = kind /\ c.arg = arg /\ c.key = key /\ c.payload = p
    BY Zenon DEF Calling, CallFields
  <1> HIDE DEF c
  <1>3. QED
    BY <1>1, <1>2

\* Only a reservation adds a hold, its own, and only under a new key.
LEMMA PerformHolds ==
  ASSUME Service(engine), NEW c, Perform(c)
  PROVE  \/ engine'.holds = engine.holds
         \/ /\ c.kind = "reserve" /\ \A h \in engine.holds : h.key # c.key
            /\ engine'.holds = engine.holds \cup
                 {[form |-> c.arg, key |-> c.key, payload |-> c.payload]}
  <1>1. ASSUME NEW x, NEW v, Change([engine EXCEPT !.deliveries[x] = v])
        PROVE  engine'.holds = engine.holds
    BY <1>1, Zenon DEF Change, Service, EngineFields
  <1>2. CASE c.kind = "pause"
    BY <1>2, Zenon DEF Perform, Service, EngineFields
  <1>3. CASE c.kind = "replay"
    BY <1>1, <1>3, Zenon DEF Perform
  <1>4. CASE c.kind = "reserve"
    <2> DEFINE hs == engine.holds \cup {[form |-> c.arg, key |-> c.key, payload |-> c.payload]}
    <2>1. CASE \E h \in engine.holds : h.key = c.key
      BY <1>4, <2>1 DEF Perform
    <2>2. CASE ~\E h \in engine.holds : h.key = c.key
      <3>1. Change([engine EXCEPT !.holds = hs])
        BY <1>4, <2>2 DEF Perform
      <3> HIDE DEF hs
      <3>2. engine'.holds = hs
        BY <3>1, Zenon DEF Change, Service, EngineFields
      <3>3. QED
        BY <1>4, <2>2, <3>2 DEF hs
    <2>3. QED
      BY <2>1, <2>2
  <1>5. CASE c.kind \notin {"pause", "replay", "reserve"}
    BY <1>1, <1>5, Zenon DEF Perform, Arrives
  <1>6. QED
    BY <1>2, <1>3, <1>4, <1>5

\* Holds of the forms alone change: those of the intake page stay.
LEMMA ReserveSteps ==
  ASSUME Service(engine), ReserveInv, ConsoleNext
  PROVE  ReserveInv' /\ \A h \in engine'.holds : h.form = 0 => h \in engine.holds
  <1>0. FormsOK /\ CallsOK(calls, forms) /\ HoldsOK(engine.holds, forms)
        /\ Len(forms) \in Nat
    BY DEF ReserveInv, FormsOK
  <1>a. ASSUME engine'.holds = engine.holds, UNCHANGED <<forms, calls>>
        PROVE  ReserveInv' /\ engine'.holds = engine.holds
    BY <1>0, <1>a, CallsKeep, FormsStay DEF CallsOK
  <1>b. ASSUME engine' = engine, FormsOK', LogsGrow, NEW kind, NEW arg, NEW key, NEW p,
               Send(kind, arg, key, p), kind = "reserve" => Asked(forms', arg, key, p)
        PROVE  ReserveInv' /\ engine'.holds = engine.holds
    <2>1. PICK c : /\ calls' = calls \cup {c} /\ Calling(c)
                   /\ c.kind = kind /\ c.arg = arg /\ c.key = key /\ c.payload = p
      BY <1>b, SentCall
    <2>2. \A d \in calls' : /\ Calling(d)
                            /\ d.kind = "reserve" => d \in calls \/ Asked(forms', d.arg, d.key, d.payload)
      BY <1>0, <1>b, <2>1 DEF CallsOK
    <2>3. QED
      BY <1>b, <2>2, CallsKeep
  <1>1. CASE \E i \in 1..Len(polls) : Polling(i) \/ LosePoll(i)
    BY <1>1, <1>a, Zenon DEF Polling, ReadSnapshot, ReadRuntime, ReceivePoll, LosePoll
  <1>2. CASE Timer \/ HashChange \/ Moving
    <2>1. UNCHANGED <<engine, forms, calls>>
      BY <1>2, Zenon DEF Timer, HashChange, Moving, ToggleLive, RefreshNow, OpenPalette, ClosePalette,
           ClearFilters, SortBy, Navigate, ChoosePage, FilterBy, Search, TurnPage, Handled
    <2>2. QED
      BY <1>a, <2>1
  <1>3. CASE ShowScreen \/ CloseDialog \/ \E x \in Delivery : Details(x)
    BY <1>3, <1>a, Zenon DEF ShowScreen, CloseDialog, Details, Handled
  <1>4. CASE Replay \/ RecordPlayback \/ \E kind \in LabActions : Scenario(kind)
    <2>1. forms' = forms /\ engine' = engine
      BY <1>4 DEF Replay, RecordPlayback, Scenario
    <2>2. PICK kind, arg, key, p : Send(kind, arg, key, p) /\ kind # "reserve"
      <3>1. CASE Replay
        BY <3>1 DEF Replay
      <3>2. CASE RecordPlayback
        BY <3>2 DEF RecordPlayback
      <3>3. CASE \E kind \in LabActions : Scenario(kind)
        BY <3>3 DEF Scenario, LabActions
      <3>4. QED
        BY <1>4, <3>1, <3>2, <3>3
    <2>3. QED
      BY <1>0, <1>b, <2>1, <2>2, FormsStay
  <1>5. CASE OpenForm
    <2> DEFINE f(p) == [payload |-> p, fingerprint |-> None, key |-> None,
                        disabled |-> FALSE, log |-> <<>>]
    <2>1. PICK p \in Payload : forms' = Append(forms, f(p))
      BY <1>5, Zenon DEF OpenForm
    <2>2. f(p) \in FormType /\ f(p).log = <<>> /\ f(p).fingerprint = None
      BY DEF FormType
    <2> HIDE DEF f
    <2>3. /\ forms' \in Seq(FormType) /\ Len(forms') = Len(forms) + 1
          /\ \A m \in 1..Len(forms) : forms'[m] = forms[m]
          /\ forms'[Len(forms) + 1] = f(p)
      BY <1>0, <2>1, <2>2 DEF FormsOK
    <2>4. \A m \in 1..Len(forms) : Len(forms[m].log) \in Nat
      BY <1>0 DEF FormsOK, FormType
    <2>5. LogsGrow
      BY <1>0, <2>3, <2>4 DEF LogsGrow
    <2>6. \A n, key, q : Asked(forms, n, key, q) => Asked(forms', n, key, q)
      BY <1>0, <2>5, GrownAsked DEF FormsOK
    <2>7. \A n \in 1..Len(forms) : Keyed(forms', n)
      BY <1>0, <2>3, <2>6 DEF FormsOK, Keyed
    <2>8. Keyed(forms', Len(forms) + 1)
      BY <2>2, <2>3 DEF Keyed
    <2>9. FormsOK'
      <3>1. \A n \in 1..Len(forms') : n \in 1..Len(forms) \/ n = Len(forms) + 1
        BY <1>0, <2>3
      <3>2. QED
        BY <2>3, <2>7, <2>8, <3>1 DEF FormsOK
    <2>10. QED
      BY <1>0, <1>5, <2>5, <2>9, CallsKeep DEF OpenForm, CallsOK
  <1>6. ASSUME NEW n \in 1..Len(forms), NEW p \in Payload, EditForm(n, p)
        PROVE  ReserveInv' /\ engine'.holds = engine.holds
    <2> DEFINE f == [forms[n] EXCEPT !.payload = p]
    <2>1. forms[n] \in FormType
      BY <1>0 DEF FormsOK
    <2>2. /\ f \in FormType /\ f.log = forms[n].log
          /\ f.fingerprint = forms[n].fingerprint /\ f.key = forms[n].key
      BY <2>1, Zenon DEF FormType
    <2>3. forms' = [forms EXCEPT ![n] = f]
      BY <1>6 DEF EditForm
    <2> HIDE DEF f
    <2>4. FormsOK' /\ LogsGrow
      BY <1>0, <2>2, <2>3, FormTouched, Zenon
    <2>5. QED
      BY <1>0, <1>6, <2>4, CallsKeep DEF EditForm, CallsOK
  <1>7. ASSUME NEW n \in 1..Len(forms), Submit(n)
        PROVE  ReserveInv' /\ engine'.holds = engine.holds
    BY <1>0, <1>7, <1>b, SubmitKeeps, Zenon DEF Submit
  <1>8. ASSUME NEW c \in calls, Answered(c) \/ Refused(c) \/ LoseCall(c)
        PROVE  ReserveInv' /\ engine'.holds = engine.holds
    <2>1. FormsOK' /\ LogsGrow /\ engine' = engine
      BY <1>8, EnableKeeps DEF Answered, Refused, LoseCall, GiveUp
    <2>2. \A d \in calls' : d \in calls \/ d = [c EXCEPT !.awaited = FALSE]
      BY <1>8 DEF Answered, Refused, LoseCall
    <2>3. ASSUME NEW d \in calls'
          PROVE  /\ Calling(d)
                 /\ \E b \in calls : b.kind = d.kind /\ b.arg = d.arg /\ b.key = d.key
                                     /\ b.payload = d.payload
      <3>1. d \in calls \/ \E v : d = [c EXCEPT !.stage = v] \/ d = [c EXCEPT !.awaited = v]
        BY <2>2, Zenon
      <3>2. QED
        BY <1>0, <3>1, CallMoved, Zenon
    <2>4. QED
      BY <2>1, <2>3, CallsKeep
  <1>9. ASSUME NEW c \in calls, ServeCall(c)
        PROVE  ReserveInv' /\ \A h \in engine'.holds : h.form = 0 => h \in engine.holds
    <2>1. forms' = forms /\ FormsOK' /\ LogsGrow
      BY <1>0, <1>9, FormsStay DEF ServeCall
    <2>2. \A d \in calls' : d \in calls \/ \E v : d = [c EXCEPT !.stage = v]
      BY <1>9 DEF ServeCall
    <2>3. ASSUME NEW d \in calls'
          PROVE  /\ Calling(d)
                 /\ \E b \in calls : b.kind = d.kind /\ b.arg = d.arg /\ b.key = d.key
                                     /\ b.payload = d.payload
      <3>1. d \in calls \/ \E v : d = [c EXCEPT !.stage = v] \/ d = [c EXCEPT !.awaited = v]
        BY <2>2, Zenon
      <3>2. QED
        BY <1>0, <3>1, CallMoved, Zenon
    <2>4. CASE engine'.holds = engine.holds
      BY <2>1, <2>3, <2>4, CallsKeep
    <2>5. CASE engine'.holds # engine.holds
      <3> DEFINE new == [form |-> c.arg, key |-> c.key, payload |-> c.payload]
      <3>1. /\ c.kind = "reserve" /\ \A h \in engine.holds : h.key # c.key
            /\ engine'.holds = engine.holds \cup {new}
        BY <1>9, <2>5, PerformHolds DEF ServeCall
      <3>2. new.form = c.arg /\ new.key = c.key /\ new.payload = c.payload
        OBVIOUS
      <3> HIDE DEF new
      <3>3. Asked(forms, c.arg, c.key, c.payload) /\ c.arg # 0
        BY <1>0, <3>1 DEF CallsOK, Asked
      <3>4. HoldsOK(engine.holds, forms)'
        BY <1>0, <2>1, <3>1, <3>2, <3>3 DEF HoldsOK
      <3>5. CallsOK(calls, forms)'
        BY <1>0, <2>1, <2>3 DEF CallsOK
      <3>6. QED
        BY <2>1, <3>1, <3>2, <3>3, <3>4, <3>5 DEF ReserveInv
    <2>6. QED
      BY <2>4, <2>5
  <1>10. ASSUME NEW x \in Delivery, Decide(x)
         PROVE  ReserveInv' /\ engine'.holds = engine.holds
    <2>1. engine'.holds = engine.holds
      BY <1>10, Zenon DEF Decide, Change, Service, EngineFields
    <2>2. QED
      BY <1>10, <1>a, <2>1 DEF Decide
  <1>11. QED
    BY <1>1, <1>2, <1>3, <1>4, <1>5, <1>6, <1>7, <1>8, <1>9, <1>10 DEF ConsoleNext, Working

\* The intake page's own holds are no form's.
LEMMA ReserveStep ==
  ASSUME Service(engine), ReserveInv, [PagesNext]_pageVars
  PROVE  ReserveInv'
  <1>0. FormsOK /\ CallsOK(calls, forms) /\ HoldsOK(engine.holds, forms)
    BY DEF ReserveInv
  <1>a. ASSUME engine'.holds = engine.holds, UNCHANGED <<forms, calls>>
        PROVE  ReserveInv'
    BY <1>0, <1>a, CallsKeep, FormsStay DEF CallsOK
  <1>1. CASE ConsoleNext
    BY <1>1, ReserveSteps
  <1>2. CASE AssuranceNext
    BY <1>2, <1>a, Zenon DEF AssuranceNext, ChangeCampaign, RefreshReport, ProofComplete,
                             ReceiveRead, LoseRead, StaysConsole, consoleVars
  <1>3. CASE \E r \in wire : ServeReserve(r)
    <2>1. PICK r \in wire : ServeReserve(r)
      BY <1>3
    <2> DEFINE new == [form |-> 0, key |-> r.key, payload |-> r.cost]
    <2>2. UNCHANGED <<forms, calls>>
      BY <2>1 DEF ServeReserve
    <2>3. CASE \E h \in engine.holds : h.key = r.key
      BY <1>a, <2>1, <2>2, <2>3 DEF ServeReserve
    <2>4. CASE ~\E h \in engine.holds : h.key = r.key
      <3>1. Change([engine EXCEPT !.holds = @ \cup {new}])
        BY <2>1, <2>4 DEF ServeReserve
      <3>2. new.form = 0 /\ new.key = r.key
        OBVIOUS
      <3> HIDE DEF new
      <3>3. engine'.holds = engine.holds \cup {new}
        BY <3>1, Zenon DEF Change, Service, EngineFields
      <3>4. HoldsOK(engine.holds, forms)'
        BY <1>0, <2>2, <2>4, <3>2, <3>3 DEF HoldsOK
      <3>5. QED
        BY <1>0, <2>2, <3>4, FormsStay DEF ReserveInv
    <2>5. QED
      BY <2>3, <2>4
  <1>4. CASE \E r \in wire : ServeBatch(r)
    <2>1. engine'.holds = engine.holds
      BY <1>4, Zenon DEF ServeBatch, Change, Service, EngineFields
    <2>2. QED
      BY <1>4, <1>a, <2>1 DEF ServeBatch
  <1>5. CASE IntakeNext /\ ~\E r \in wire : ServeReserve(r) \/ ServeBatch(r)
    <2>1. UNCHANGED <<engine, forms, calls>>
      BY <1>5, Zenon DEF IntakeNext, LoadExample, SendBatch, ChooseCampaign, ChooseNone,
           EditPrice, ExpireHold, GetHold, Reject, Uncertain, GetBatch, consoleVars
    <2>2. QED
      BY <1>a, <2>1
  <1>6. CASE UNCHANGED pageVars
    BY <1>6, <1>a DEF pageVars, consoleVars
  <1>7. QED
    BY <1>1, <1>2, <1>3, <1>4, <1>5, <1>6 DEF PagesNext

\* Nothing is held at first.
LEMMA ReserveEmpty ==
  ASSUME PagesInit
  PROVE  engine.holds = {}
  <1>1. PICK statuses \in Initials :
          engine = [version |-> 0, deliveries |-> statuses, holds |-> {}, paused |-> FALSE]
    BY Zenon DEF PagesInit, ConsoleInit
  <1>2. QED
    BY <1>1

\* The invariant of the reservation form holds at first.
LEMMA ReserveInitial ==
  ASSUME PagesInit
  PROVE  ReserveInv
  <1>1. forms = <<>> /\ calls = {}
    BY DEF PagesInit, ConsoleInit
  <1>2. QED
    BY <1>1, ReserveEmpty DEF ReserveInv, FormsOK, CallsOK, HoldsOK

-----------------------------------------------------------------------------
(* The intake page *)

IntakeKey == {0} \X Nat

HoldType == [cost : Price, held : BOOLEAN]

PlanType == [key : IntakeKey, cost : Price, hold : HoldType \cup {None}]

DraftType == [key : IntakeKey, cost : Price, asked : Price \cup {None}, again : BOOLEAN]

IntakeType ==
  [price : Price, cost : Price \cup {None}, plan : PlanType \cup {None},
   draft : DraftType \cup {None}, plans : Nat,
   stage : {"idle", "choosing", "reserving", "sending", "refreshing"}]

WireType ==
  [kind : {"reserve", "batch"}, key : IntakeKey, cost : Price \cup {None},
   awaited : BOOLEAN, answer : HoldType \cup IntakeKey \cup {None}]

IntakeTyped ==
  /\ intake \in IntakeType /\ wire \subseteq WireType
  /\ sent \subseteq IntakeKey /\ expired \subseteq ended
  /\ \A k \in sent : k[2] < intake.plans

\* The plan has a request key of its own; it has a hold at its price that an
\* example was shown for, or is at the price in the field.
PlanOK ==
  intake.plan # None =>
    /\ intake.plan.key[2] < intake.plans /\ intake.plan.key \notin sent
    /\ intake.plan.hold = None => intake.price = intake.plan.cost
    /\ intake.plan.hold # None =>
         intake.plan.hold.cost = intake.plan.cost /\ intake.plan.key \in shown

DraftOK ==
  /\ intake.draft # None => intake.draft.key[2] < intake.plans
  /\ intake.stage = "choosing" =>
       intake.price = intake.cost /\ (intake.plan # None => intake.plan.hold # None)
  /\ ExampleAsAsked

\* The handler that awaits a request is at it.
AwaitedOK(r) ==
  \/ /\ r.kind = "reserve" /\ intake.stage = "reserving"
     /\ intake.plan # None /\ intake.plan.hold = None
     /\ r.key = intake.plan.key /\ r.cost = intake.plan.cost /\ intake.cost = r.cost
     /\ r.answer # None =>
          r.answer \in HoldType /\ r.answer.cost = r.cost /\ (~r.answer.held => r.key \in ended)
  \/ r.kind = "batch" /\ intake.stage = "sending"

WireOK ==
  /\ \A r \in wire : r.awaited => AwaitedOK(r)
  /\ \A r, q \in wire : r.awaited /\ q.awaited => r = q

Tracked(k) ==
  \/ k \in shown \cup ended \cup rejected \cup dropped
  \/ intake.plan # None /\ intake.plan.key = k

TrackedOK ==
  /\ \A r \in wire : r.kind = "reserve" => Tracked(r.key)
  /\ \A h \in engine.holds : h.form = 0 => Tracked(h.key)

IntakeInv == IntakeTyped /\ PlanOK /\ DraftOK /\ WireOK /\ TrackedOK

\* A handler that starts finds no request awaited.
LEMMA NoneAwaited ==
  ASSUME WireOK, intake.stage \notin {"reserving", "sending"}
  PROVE  \A r \in wire : ~r.awaited
  BY DEF WireOK, AwaitedOK

\* A new price is for the next example only.
LEMMA PriceEdited ==
  ASSUME IntakeInv, NEW p \in Price, EditPrice(p)
  PROVE  IntakeInv'
  <1>1. /\ intake \in IntakeType /\ intake.stage = "idle"
        /\ intake' = [intake EXCEPT !.price = p]
        /\ intake.plan # None => intake.plan.hold # None
        /\ UNCHANGED <<engine, wire, ended, expired, shown, sent, rejected, dropped>>
    BY DEF EditPrice, Touch, Pending, IntakeInv, IntakeTyped, intakeHistory, consoleVars
  <1>2. /\ intake' \in IntakeType
        /\ intake'.plan = intake.plan /\ intake'.draft = intake.draft
        /\ intake'.plans = intake.plans /\ intake'.stage = "idle" /\ intake'.cost = intake.cost
    BY <1>1 DEF IntakeType
  <1>3. IntakeTyped' /\ PlanOK'
    BY <1>1, <1>2 DEF IntakeInv, IntakeTyped, PlanOK
  <1>4. DraftOK'
    BY <1>1, <1>2 DEF IntakeInv, DraftOK, ExampleAsAsked
  <1>5. WireOK'
    BY <1>1, NoneAwaited DEF IntakeInv, WireOK
  <1>6. TrackedOK'
    BY <1>1, <1>2 DEF IntakeInv, TrackedOK, Tracked
  <1>7. QED
    BY <1>3, <1>4, <1>5, <1>6 DEF IntakeInv

\* A request that is sent is the only one awaited.
LEMMA RequestSent ==
  ASSUME \A q \in wire : ~q.awaited, NEW r, wire' = wire \cup {r},
         r.awaited => AwaitedOK(r)'
  PROVE  WireOK'
  BY DEF WireOK

\* The example button asks for a campaign, or goes on with the plan it has.
LEMMA ExampleLoaded ==
  ASSUME IntakeInv, LoadExample
  PROVE  IntakeInv'
  <1> DEFINE i == [intake EXCEPT !.cost = intake.price]
  <1>1. /\ intake \in IntakeType /\ intake.stage = "idle"
        /\ UNCHANGED <<engine, ended, expired, sent, rejected, dropped>>
    BY DEF LoadExample, Touch, Pending, IntakeInv, IntakeTyped, consoleVars
  <1>2. \/ NeedsPlan(i) /\ intake' = [i EXCEPT !.stage = "choosing"] /\ UNCHANGED <<wire, shown>>
        \/ /\ ~NeedsPlan(i) /\ i.plan.hold = None /\ intake' = [i EXCEPT !.stage = "reserving"]
           /\ wire' = wire \cup {Reserving(i)} /\ UNCHANGED shown
        \/ /\ ~NeedsPlan(i) /\ i.plan.hold # None /\ intake' = Ready(i)
           /\ shown' = shown \cup {i.plan.key} /\ UNCHANGED wire
    BY DEF LoadExample
  <1>3. /\ i \in IntakeType /\ i.plan = intake.plan /\ i.draft = intake.draft
        /\ i.plans = intake.plans /\ i.price = intake.price /\ i.cost = intake.price
    BY <1>1 DEF IntakeType
  <1> HIDE DEF i
  <1>4. \A q \in wire : ~q.awaited
    BY <1>1, NoneAwaited DEF IntakeInv
  <1>5. CASE NeedsPlan(i) /\ intake' = [i EXCEPT !.stage = "choosing"] /\ UNCHANGED <<wire, shown>>
    <2>1. /\ intake' \in IntakeType /\ intake'.plan = intake.plan /\ intake'.draft = intake.draft
          /\ intake'.plans = intake.plans /\ intake'.price = intake.price
          /\ intake'.cost = intake.price /\ intake'.stage = "choosing"
      BY <1>3, <1>5 DEF IntakeType
    <2>2. intake.plan # None => intake.plan.hold # None
      BY <1>3, <1>5 DEF NeedsPlan
    <2>3. IntakeTyped' /\ PlanOK'
      BY <1>1, <1>5, <2>1 DEF IntakeInv, IntakeTyped, PlanOK
    <2>4. DraftOK'
      BY <1>1, <2>1, <2>2 DEF IntakeInv, DraftOK, ExampleAsAsked
    <2>5. WireOK'
      BY <1>4, <1>5 DEF WireOK
    <2>6. TrackedOK'
      BY <1>1, <1>5, <2>1 DEF IntakeInv, TrackedOK, Tracked
    <2>7. QED
      BY <2>3, <2>4, <2>5, <2>6 DEF IntakeInv
  <1>6. CASE /\ ~NeedsPlan(i) /\ i.plan.hold = None /\ intake' = [i EXCEPT !.stage = "reserving"]
             /\ wire' = wire \cup {Reserving(i)} /\ UNCHANGED shown
    <2>1. /\ intake' \in IntakeType /\ intake'.plan = intake.plan /\ intake'.draft = intake.draft
          /\ intake'.plans = intake.plans /\ intake'.price = intake.price
          /\ intake'.cost = intake.price /\ intake'.stage = "reserving"
      BY <1>3, <1>6 DEF IntakeType
    <2>2. intake.plan # None /\ intake.plan.hold = None /\ intake.plan \in PlanType
      BY <1>1, <1>3, <1>6 DEF NeedsPlan, IntakeType
    <2>r. PICK r : r = Reserving(i)
      OBVIOUS
    <2>3. /\ r \in WireType /\ r.kind = "reserve" /\ r.key = intake.plan.key
          /\ r.cost = intake.plan.cost /\ r.answer = None
      BY <1>3, <2>2, <2>r DEF Reserving, WireType, PlanType
    <2>4. wire' = wire \cup {r}
      BY <1>6, <2>r
    <2>5. IntakeTyped' /\ PlanOK'
      BY <1>1, <1>6, <2>1, <2>3, <2>4 DEF IntakeInv, IntakeTyped, PlanOK
    <2>6. DraftOK'
      BY <1>1, <2>1 DEF IntakeInv, DraftOK, ExampleAsAsked
    <2>7. AwaitedOK(r)'
      BY <2>1, <2>2, <2>3 DEF IntakeInv, AwaitedOK, PlanOK
    <2>8. WireOK'
      BY <1>4, <2>4, <2>7, RequestSent
    <2>9. TrackedOK'
      BY <1>1, <1>6, <2>1, <2>2, <2>3, <2>4 DEF IntakeInv, TrackedOK, Tracked
    <2>10. QED
      BY <2>5, <2>6, <2>8, <2>9 DEF IntakeInv
  <1>7. CASE /\ ~NeedsPlan(i) /\ i.plan.hold # None /\ intake' = Ready(i)
             /\ shown' = shown \cup {i.plan.key} /\ UNCHANGED wire
    <2>1. intake.plan \in PlanType /\ intake.plan # None /\ intake.plan.hold \in HoldType
          /\ intake.plan.cost = intake.price
      BY <1>1, <1>3, <1>7 DEF NeedsPlan, IntakeType, PlanType
    <2> DEFINE d == [key |-> i.plan.key, cost |-> i.plan.hold.cost, asked |-> i.cost,
                     again |-> i.plan.key \in sent]
    <2>2. d \in DraftType
      BY <1>1, <1>3, <2>1 DEF DraftType, PlanType, HoldType, IntakeType
    <2>3. d.key = intake.plan.key /\ d.cost = intake.price /\ d.asked = intake.price /\ ~d.again
      BY <1>3, <1>7, <2>1, Zenon DEF IntakeInv, PlanOK
    <2>4. intake' = [i EXCEPT !.stage = "idle", !.draft = d]
      BY <1>7 DEF Ready
    <2> HIDE DEF d
    <2>5. /\ intake' \in IntakeType /\ intake'.plan = intake.plan /\ intake'.draft = d
          /\ intake'.plans = intake.plans /\ intake'.price = intake.price
          /\ intake'.stage = "idle"
      BY <1>3, <2>2, <2>4, Zenon DEF IntakeType
    <2>6. IntakeTyped' /\ PlanOK'
      BY <1>1, <1>7, <2>5 DEF IntakeInv, IntakeTyped, PlanOK
    <2>7. DraftOK'
      BY <1>1, <2>1, <2>3, <2>5 DEF IntakeInv, DraftOK, PlanOK, ExampleAsAsked
    <2>8. WireOK'
      BY <1>4, <1>7 DEF WireOK
    <2>9. TrackedOK'
      BY <1>1, <1>7, <2>5, Zenon DEF IntakeInv, TrackedOK, Tracked
    <2>10. QED
      BY <2>6, <2>7, <2>8, <2>9 DEF IntakeInv
  <1>8. QED
    BY <1>2, <1>5, <1>6, <1>7

\* A campaign is chosen: a new plan, with a key of its own, is sent.
LEMMA CampaignChosen ==
  ASSUME IntakeInv, ChooseCampaign
  PROVE  IntakeInv'
  <1> DEFINE p == [key |-> <<0, intake.plans>>, cost |-> intake.cost, hold |-> None]
             i == [intake EXCEPT !.stage = "reserving", !.plans = @ + 1, !.plan = p]
  <1>1. /\ intake \in IntakeType /\ intake.stage = "choosing" /\ intake' = i
        /\ wire' = wire \cup {Reserving(i)}
        /\ UNCHANGED <<engine, ended, expired, shown, sent, rejected, dropped>>
    BY DEF ChooseCampaign, IntakeInv, IntakeTyped, consoleVars, intakeHistory
  <1>2. /\ intake.price = intake.cost /\ intake.cost \in Price
        /\ intake.plan # None => intake.plan.hold # None
    BY <1>1 DEF IntakeInv, DraftOK, IntakeType
  <1>3. p \in PlanType /\ p # None
    BY <1>1, <1>2, IntakeAssumption DEF PlanType, IntakeType, IntakeKey
  <1>4. /\ p.key = <<0, intake.plans>> /\ p.key[2] = intake.plans
        /\ p.cost = intake.cost /\ p.hold = None
    OBVIOUS
  <1>r. PICK r : r = Reserving(i)
    OBVIOUS
  <1> HIDE DEF p
  <1>5. /\ intake' \in IntakeType /\ intake'.plan = p /\ intake'.draft = intake.draft
        /\ intake'.plans = intake.plans + 1 /\ intake.plans \in Nat
        /\ intake'.price = intake.price
        /\ intake'.cost = intake.cost /\ intake'.stage = "reserving"
    <2>1. intake.plans \in Nat /\ intake.plans + 1 \in Nat
      BY <1>1 DEF IntakeType
    <2>2. PICK m \in Nat : m = intake.plans + 1
      BY <2>1
    <2>3. intake' = [intake EXCEPT !.stage = "reserving", !.plans = m, !.plan = p]
      BY <1>1, <2>2
    <2>4. QED
      BY <1>1, <1>3, <2>1, <2>2, <2>3, Zenon DEF IntakeType
  <1>6. r = Reserving(intake)' /\ wire' = wire \cup {r}
    BY <1>1, <1>r DEF Reserving
  <1> HIDE DEF i
  <1>7. /\ r \in WireType /\ r.kind = "reserve" /\ r.key = p.key /\ r.cost = p.cost
        /\ r.answer = None
    BY <1>3, <1>5, <1>6 DEF Reserving, WireType, PlanType
  <1>8. IntakeTyped'
    <2>1. \A k \in sent' : k[2] < intake'.plans
      <3>1. \A k \in sent : k[2] \in Nat /\ k[2] < intake.plans
        BY DEF IntakeInv, IntakeTyped, IntakeKey
      <3>2. QED
        BY <1>1, <1>5, <3>1
    <2>2. QED
      BY <1>1, <1>5, <1>6, <1>7, <2>1 DEF IntakeInv, IntakeTyped
  <1>9. PlanOK'
    <2>1. p.key \notin sent
      BY <1>4, <1>5 DEF IntakeInv, IntakeTyped
    <2>2. QED
      BY <1>1, <1>2, <1>4, <1>5, <2>1 DEF PlanOK
  <1>10. DraftOK'
    <2>1. intake.draft # None => intake.draft.key[2] \in Nat
      BY <1>1 DEF IntakeType, DraftType, IntakeKey
    <2>2. intake.draft # None => intake.draft.key[2] < intake.plans + 1
      BY <1>5, <2>1 DEF IntakeInv, DraftOK
    <2>3. QED
      BY <1>5, <2>2 DEF IntakeInv, DraftOK, ExampleAsAsked
  <1>11. WireOK'
    <2>1. AwaitedOK(r)'
      BY <1>3, <1>4, <1>5, <1>7 DEF AwaitedOK
    <2>2. QED
      BY <1>1, <1>6, <2>1, NoneAwaited, RequestSent DEF IntakeInv
  <1>12. TrackedOK'
    <2>1. \A k : Tracked(k) => Tracked(k)'
      BY <1>1, <1>2 DEF IntakeInv, Tracked, PlanOK
    <2>2. Tracked(r.key)'
      BY <1>3, <1>5, <1>7 DEF Tracked
    <2>3. QED
      BY <1>1, <1>6, <2>1, <2>2 DEF IntakeInv, TrackedOK
  <1>13. QED
    BY <1>8, <1>9, <1>10, <1>11, <1>12 DEF IntakeInv

\* A batch is sent, and the plan behind its draft is over.
LEMMA BatchSent ==
  ASSUME IntakeInv, SendBatch
  PROVE  IntakeInv'
  <1>r. PICK r : r = Sending
    OBVIOUS
  <1>1. /\ intake \in IntakeType /\ intake.stage = "idle" /\ intake.draft # None
        /\ intake' = [intake EXCEPT !.plan = None, !.stage = "sending"]
        /\ wire' = wire \cup {r} /\ sent' = sent \cup {intake.draft.key}
        /\ dropped' = dropped \cup Uncertainty
        /\ UNCHANGED <<engine, ended, expired, shown, rejected>>
    BY <1>r DEF SendBatch, Touch, Pending, IntakeInv, IntakeTyped, consoleVars
  <1>2. /\ intake' \in IntakeType /\ intake'.plan = None /\ intake'.draft = intake.draft
        /\ intake'.plans = intake.plans /\ intake'.stage = "sending"
    BY <1>1, Zenon DEF IntakeType
  <1>3. intake.draft \in DraftType /\ intake.draft.key \in IntakeKey
    BY <1>1 DEF IntakeType, DraftType
  <1>4. r \in WireType /\ r.kind = "batch"
    BY <1>r, <1>3 DEF Sending, WireType
  <1>5. IntakeTyped' /\ PlanOK'
    BY <1>1, <1>2, <1>3, <1>4 DEF IntakeInv, IntakeTyped, PlanOK, DraftOK
  <1>6. DraftOK'
    BY <1>2 DEF IntakeInv, DraftOK, ExampleAsAsked
  <1>7. AwaitedOK(r)'
    BY <1>2, <1>4 DEF AwaitedOK
  <1>8. WireOK'
    BY <1>1, <1>7, NoneAwaited, RequestSent DEF IntakeInv
  <1>9. \A k : Tracked(k) => Tracked(k)'
    <2>1. SUFFICES ASSUME intake.plan # None, intake.plan.hold = None
                   PROVE  intake.plan.key \in dropped'
      BY <1>1 DEF IntakeInv, Tracked, PlanOK
    <2>2. intake.plan.key \in IntakeKey /\ intake.plan.key[2] < intake.plans /\ intake.plans \in Nat
      BY <1>1, <2>1 DEF IntakeInv, PlanOK, IntakeType, PlanType
    <2>3. \E n \in 0..intake.plans : intake.plan.key = <<0, n>>
      BY <2>2 DEF IntakeKey
    <2>4. QED
      BY <1>1, <2>1, <2>3 DEF Uncertainty
  <1>10. TrackedOK'
    BY <1>1, <1>4, <1>9 DEF IntakeInv, TrackedOK
  <1>11. QED
    BY <1>5, <1>6, <1>8, <1>10 DEF IntakeInv

\* The request that is awaited is over.
LEMMA RequestOver ==
  ASSUME WireOK, NEW r \in wire, r.awaited
  PROVE  \A q \in wire \ {r} : ~q.awaited
  BY DEF WireOK

\* The answer to a reservation arrives: a usable hold becomes the example.
LEMMA HoldGot ==
  ASSUME IntakeInv, NEW r \in wire, GetHold(r)
  PROVE  IntakeInv'
  <1> DEFINE i == [intake EXCEPT !.plan.hold = r.answer]
             usable == r.answer.held /\ r.key \notin expired
  <1>1. /\ intake \in IntakeType /\ r.kind = "reserve" /\ r.awaited /\ r.answer # None
        /\ intake' = IF usable THEN Ready(i) ELSE [i EXCEPT !.plan = None, !.stage = "idle"]
        /\ shown' = IF usable THEN shown \cup {r.key} ELSE shown
        /\ wire' = wire \ {r}
        /\ UNCHANGED <<engine, ended, expired, sent, rejected, dropped>>
    BY DEF GetHold, IntakeInv, IntakeTyped, consoleVars
  <1>2. /\ intake.stage = "reserving" /\ intake.plan \in PlanType /\ intake.plan # None
        /\ r.key = intake.plan.key /\ r.cost = intake.plan.cost
        /\ intake.cost = r.cost /\ intake.plan.hold = None
        /\ r.answer \in HoldType /\ r.answer.cost = r.cost /\ (~r.answer.held => r.key \in ended)
    BY <1>1 DEF IntakeInv, WireOK, AwaitedOK, IntakeType
  <1> DEFINE p == [intake.plan EXCEPT !.hold = r.answer]
  <1>3. p \in PlanType /\ p.key = r.key /\ p.cost = r.cost /\ p.hold = r.answer
    BY <1>2 DEF PlanType
  <1>4. i = [intake EXCEPT !.plan = p]
    BY <1>1, <1>2 DEF IntakeType, PlanType
  <1> HIDE DEF p
  <1>5. /\ i \in IntakeType /\ i.plan = p /\ i.draft = intake.draft /\ i.plans = intake.plans
        /\ i.price = intake.price /\ i.cost = intake.cost
    BY <1>1, <1>3, <1>4 DEF IntakeType
  <1> HIDE DEF i
  <1>6. \A q \in wire' : ~q.awaited
    BY <1>1, RequestOver DEF IntakeInv
  <1>7. WireOK'
    BY <1>6 DEF WireOK
  <1>8. CASE usable
    <2> DEFINE d == [key |-> i.plan.key, cost |-> i.plan.hold.cost, asked |-> i.cost,
                     again |-> i.plan.key \in sent]
    <2>1. d \in DraftType
      BY <1>2, <1>3, <1>5 DEF DraftType, PlanType, HoldType, IntakeType
    <2>2. d.key = r.key /\ d.cost = d.asked /\ ~d.again
      BY <1>2, <1>3, <1>5, Zenon DEF IntakeInv, PlanOK
    <2>3. intake' = [i EXCEPT !.stage = "idle", !.draft = d]
      BY <1>1, <1>8 DEF Ready
    <2> HIDE DEF d
    <2>4. /\ intake' \in IntakeType /\ intake'.plan = p /\ intake'.draft = d
          /\ intake'.plans = intake.plans /\ intake'.price = intake.price
          /\ intake'.stage = "idle" /\ shown' = shown \cup {r.key}
      BY <1>1, <1>5, <1>8, <2>1, <2>3, Zenon DEF IntakeType
    <2>5. IntakeTyped'
      BY <1>1, <2>4 DEF IntakeInv, IntakeTyped
    <2>6. PlanOK'
      BY <1>1, <1>2, <1>3, <2>4 DEF IntakeInv, PlanOK
    <2>7. DraftOK'
      BY <1>2, <2>2, <2>4, Zenon DEF IntakeInv, DraftOK, PlanOK, ExampleAsAsked
    <2>8. TrackedOK'
      <3>1. \A k : Tracked(k) => Tracked(k)'
        BY <1>1, <1>2, <2>4 DEF Tracked
      <3>2. QED
        BY <1>1, <3>1 DEF IntakeInv, TrackedOK
    <2>9. QED
      BY <1>7, <2>5, <2>6, <2>7, <2>8 DEF IntakeInv
  <1>9. CASE ~usable
    <2>1. /\ intake' \in IntakeType /\ intake'.plan = None /\ intake'.draft = intake.draft
          /\ intake'.plans = intake.plans /\ intake'.stage = "idle" /\ shown' = shown
      BY <1>1, <1>5, <1>9, Zenon DEF IntakeType
    <2>2. IntakeTyped' /\ PlanOK'
      BY <1>1, <2>1 DEF IntakeInv, IntakeTyped, PlanOK
    <2>3. DraftOK'
      BY <2>1 DEF IntakeInv, DraftOK, ExampleAsAsked
    <2>4. r.key \in ended
      BY <1>2, <1>9 DEF IntakeInv, IntakeTyped
    <2>5. TrackedOK'
      <3>1. \A k : Tracked(k) => Tracked(k)'
        BY <1>1, <1>2, <2>1, <2>4 DEF Tracked
      <3>2. QED
        BY <1>1, <3>1 DEF IntakeInv, TrackedOK
    <2>6. QED
      BY <1>7, <2>2, <2>3, <2>5 DEF IntakeInv
  <1>10. QED
    BY <1>8, <1>9

\* The handler ends, with or without its plan.
LEMMA HandlerEnds ==
  ASSUME IntakeInv, NEW r \in wire, r.awaited,
         Reject(r) \/ Uncertain(r) \/ GetBatch(r)
  PROVE  IntakeInv'
  <1>0. intake \in IntakeType
    BY DEF IntakeInv, IntakeTyped
  <1>1. /\ intake' \in IntakeType /\ intake'.draft = intake.draft
        /\ intake'.plans = intake.plans /\ intake'.price = intake.price
        /\ intake'.stage \in {"idle", "refreshing"}
        /\ intake'.plan \in {intake.plan, None}
    <2>1. ASSUME NEW s \in {"idle", "refreshing"}
          PROVE  /\ [intake EXCEPT !.stage = s] \in IntakeType
                 /\ [intake EXCEPT !.stage = s].draft = intake.draft
                 /\ [intake EXCEPT !.stage = s].plans = intake.plans
                 /\ [intake EXCEPT !.stage = s].price = intake.price
                 /\ [intake EXCEPT !.stage = s].plan = intake.plan
                 /\ [intake EXCEPT !.stage = s].stage = s
      BY <1>0 DEF IntakeType
    <2>2. CASE Reject(r)
      BY <1>0, <2>2, Zenon DEF Reject, IntakeType
    <2>3. CASE Uncertain(r) \/ GetBatch(r)
      BY <2>1, <2>3, Zenon DEF Uncertain, GetBatch
    <2>4. QED
      BY <2>2, <2>3
  <1>2. /\ UNCHANGED <<ended, expired, shown, sent, dropped>> /\ engine' = engine
        /\ rejected \subseteq rejected'
    BY DEF Reject, Uncertain, GetBatch, consoleVars, intakeHistory
  <1>3. /\ wire' \subseteq WireType
        /\ \A q \in wire' : ~q.awaited
        /\ \A q \in wire' : \E o \in wire : q.kind = o.kind /\ q.key = o.key
    <2>1. \A q \in wire \ {r} : ~q.awaited
      BY RequestOver DEF IntakeInv
    <2>2. /\ [r EXCEPT !.awaited = FALSE] \in WireType
          /\ ~[r EXCEPT !.awaited = FALSE].awaited
          /\ [r EXCEPT !.awaited = FALSE].kind = r.kind
          /\ [r EXCEPT !.awaited = FALSE].key = r.key
      BY Zenon DEF IntakeInv, IntakeTyped, WireType
    <2>3. \A q \in wire' : q \in wire \ {r} \/ q = [r EXCEPT !.awaited = FALSE]
      BY Zenon DEF Reject, Uncertain, GetBatch
    <2>4. QED
      BY <2>1, <2>2, <2>3, Zenon DEF IntakeInv, IntakeTyped
  <1>4. IntakeTyped' /\ PlanOK' /\ WireOK'
    BY <1>1, <1>2, <1>3 DEF IntakeInv, IntakeTyped, PlanOK, WireOK
  <1>5. DraftOK'
    BY <1>1 DEF IntakeInv, DraftOK, ExampleAsAsked
  <1>6. \A k : Tracked(k) => Tracked(k)'
    <2>1. intake'.plan = intake.plan \/ (Reject(r) /\ intake'.plan = None)
      BY <1>0, <1>1 DEF Uncertain, GetBatch, IntakeType
    <2>2. Reject(r) => r.key \in rejected' /\ r.key = intake.plan.key
      BY DEF Reject, IntakeInv, WireOK, AwaitedOK
    <2>3. QED
      BY <1>2, <2>1, <2>2 DEF Tracked
  <1>7. TrackedOK'
    BY <1>2, <1>3, <1>6 DEF IntakeInv, TrackedOK
  <1>8. QED
    BY <1>4, <1>5, <1>7 DEF IntakeInv

\* What the engine and the clock do leaves the page's variables alone.
LEMMA PageStays ==
  ASSUME IntakeInv, ended \subseteq ended', expired' \subseteq ended', wire' \subseteq WireType,
         UNCHANGED <<intake, shown, sent, rejected, dropped>>
  PROVE  IntakeTyped' /\ PlanOK' /\ DraftOK' /\ \A k : Tracked(k) => Tracked(k)'
  <1>1. IntakeTyped' /\ PlanOK'
    BY DEF IntakeInv, IntakeTyped, PlanOK
  <1>2. DraftOK' /\ \A k : Tracked(k) => Tracked(k)'
    BY DEF IntakeInv, DraftOK, ExampleAsAsked, Tracked
  <1>3. QED
    BY <1>1, <1>2

\* The server answers a reservation or a batch.
LEMMA Served ==
  ASSUME Service(engine), IntakeInv, NEW r \in wire, ServeReserve(r) \/ ServeBatch(r)
  PROVE  IntakeInv'
  <1>1. PICK a : Replied(r, a) /\ a = IF r.kind = "batch" THEN r.key
                                      ELSE [cost |-> r.cost, held |-> r.key \notin ended]
    BY DEF ServeReserve, ServeBatch
  <1>2. /\ UNCHANGED <<intake, expired, shown, sent, rejected, dropped>>
        /\ ended \subseteq ended' /\ r \in WireType /\ expired' \subseteq ended'
    BY DEF ServeReserve, ServeBatch, intakeHistory, IntakeInv, IntakeTyped
  <1>3. r.awaited => AwaitedOK(r)
    BY DEF IntakeInv, WireOK
  <1>4. r.awaited /\ r.kind = "reserve" => a \in HoldType /\ a.cost = r.cost /\ (~a.held => r.key \in ended)
    <2>1. r.awaited /\ r.kind = "reserve" => r.cost \in Price
      BY <1>3 DEF AwaitedOK, IntakeInv, IntakeTyped, IntakeType, PlanType
    <2>2. QED
      BY <1>1, <2>1, Zenon DEF HoldType
  <1>5. r.awaited => a \in HoldType \cup IntakeKey
    BY <1>1, <1>2, <1>4 DEF WireType
  <1>q. PICK q : q = [r EXCEPT !.answer = a]
    BY Zenon
  <1>6. /\ q.kind = r.kind /\ q.key = r.key /\ q.cost = r.cost /\ q.answer = a
        /\ q.awaited = r.awaited
        /\ r.awaited => q \in WireType
    BY <1>2, <1>5, <1>q DEF WireType
  <1>7. \A o \in wire' : o \in wire \ {r} \/ (o = q /\ r.awaited)
    BY <1>1, <1>q DEF Replied
  <1>8. wire' \subseteq WireType
    BY <1>6, <1>7 DEF IntakeInv, IntakeTyped
  <1>9. IntakeTyped' /\ PlanOK' /\ DraftOK' /\ \A k : Tracked(k) => Tracked(k)'
    BY <1>2, <1>8, PageStays
  <1>10. WireOK'
    <2>1. r.awaited => AwaitedOK(q)'
      BY <1>2, <1>3, <1>4, <1>6 DEF AwaitedOK
    <2>2. \A o \in wire : AwaitedOK(o) => AwaitedOK(o)'
      BY <1>2 DEF AwaitedOK
    <2>3. \A o \in wire' : o.awaited => AwaitedOK(o)'
      BY <1>7, <2>1, <2>2 DEF IntakeInv, WireOK
    <2>4. r.awaited => \A o \in wire \ {r} : ~o.awaited
      BY RequestOver DEF IntakeInv
    <2>5. \A o, n \in wire' : o.awaited /\ n.awaited => o = n
      BY <1>7, <2>4 DEF IntakeInv, WireOK
    <2>6. QED
      BY <2>3, <2>5 DEF WireOK
  <1>11. TrackedOK'
    <2>1. \A h \in engine'.holds : h \in engine.holds \/ (r.kind = "reserve" /\ h.key = r.key)
      <3>1. engine'.holds = engine.holds \/ (r.kind = "reserve" /\ engine'.holds =
              engine.holds \cup {[form |-> 0, key |-> r.key, payload |-> r.cost]})
        BY Zenon DEF ServeReserve, ServeBatch, Change, Service, EngineFields
      <3>2. QED
        BY <3>1
    <2>2. \A o \in wire' : o.kind = "reserve" => Tracked(o.key)
      BY <1>6, <1>7 DEF IntakeInv, TrackedOK
    <2>3. \A h \in engine'.holds : h.form = 0 => Tracked(h.key)
      BY <2>1 DEF IntakeInv, TrackedOK
    <2>4. QED
      BY <1>9, <2>2, <2>3 DEF TrackedOK
  <1>12. QED
    BY <1>9, <1>10, <1>11 DEF IntakeInv

\* A hold runs out.
LEMMA TimePasses ==
  ASSUME IntakeInv, NEW h \in engine.holds, ExpireHold(h)
  PROVE  IntakeInv'
  <1>1. /\ UNCHANGED <<engine, intake, wire, shown, sent, rejected, dropped>>
        /\ ended \subseteq ended' /\ expired' \subseteq ended' /\ wire' \subseteq WireType
    BY DEF ExpireHold, intakeHistory, consoleVars, IntakeInv, IntakeTyped
  <1>2. IntakeTyped' /\ PlanOK' /\ DraftOK' /\ \A k : Tracked(k) => Tracked(k)'
    BY <1>1, PageStays
  <1>3. \A r \in wire : AwaitedOK(r) => AwaitedOK(r)'
    BY <1>1 DEF AwaitedOK
  <1>4. WireOK' /\ TrackedOK'
    BY <1>1, <1>2, <1>3 DEF IntakeInv, WireOK, TrackedOK
  <1>5. QED
    BY <1>2, <1>4 DEF IntakeInv

\* A step beside the page, which may end its refresh, and a choice of no campaign.
LEMMA Beside ==
  ASSUME IntakeInv,
         \/ intake' = intake
         \/ intake' = [intake EXCEPT !.stage = "idle"] /\ intake.stage \in {"choosing", "refreshing"},
         UNCHANGED <<wire, ended, expired, shown, sent, rejected, dropped>>,
         \A h \in engine'.holds : h.form = 0 => h \in engine.holds
  PROVE  IntakeInv'
  <1>1. CASE intake' = intake
    <2>1. IntakeTyped' /\ PlanOK' /\ DraftOK' /\ \A k : Tracked(k) => Tracked(k)'
      <3>1. wire' \subseteq WireType /\ expired' \subseteq ended'
        BY DEF IntakeInv, IntakeTyped
      <3>2. QED
        BY <1>1, <3>1, PageStays
    <2>2. \A r \in wire : AwaitedOK(r) => AwaitedOK(r)'
      BY <1>1 DEF AwaitedOK
    <2>3. WireOK' /\ TrackedOK'
      BY <2>1, <2>2 DEF IntakeInv, WireOK, TrackedOK
    <2>4. QED
      BY <2>1, <2>3 DEF IntakeInv
  <1>2. CASE /\ intake' = [intake EXCEPT !.stage = "idle"]
             /\ intake.stage \in {"choosing", "refreshing"}
    <2>1. /\ intake' \in IntakeType /\ intake'.draft = intake.draft
          /\ intake'.plans = intake.plans /\ intake'.price = intake.price
          /\ intake'.stage = "idle" /\ intake'.plan = intake.plan
      BY <1>2 DEF IntakeInv, IntakeTyped, IntakeType
    <2>2. \A r \in wire : ~r.awaited
      BY <1>2, NoneAwaited DEF IntakeInv
    <2>3. IntakeTyped' /\ PlanOK' /\ WireOK'
      BY <2>1, <2>2 DEF IntakeInv, IntakeTyped, PlanOK, WireOK
    <2>4. DraftOK' /\ TrackedOK'
      BY <2>1 DEF IntakeInv, DraftOK, ExampleAsAsked, TrackedOK, Tracked
    <2>5. QED
      BY <2>3, <2>4 DEF IntakeInv
  <1>3. QED
    BY <1>1, <1>2

\* Every step keeps the invariant of the intake page.
LEMMA IntakeStep ==
  ASSUME Service(engine), ReserveInv, IntakeInv, [PagesNext]_pageVars
  PROVE  IntakeInv'
  <1>1. CASE ConsoleNext /\ Follows
    <2>1. \A h \in engine'.holds : h.form = 0 => h \in engine.holds
      BY <1>1, ReserveSteps
    <2>2. QED
      BY <1>1, <2>1, Beside, Zenon DEF Follows, IntakeFollows, intakeHistory
  <1>2. CASE AssuranceNext /\ UNCHANGED intakeVars
    <2>1. engine' = engine
      BY <1>2, Zenon DEF AssuranceNext, ChangeCampaign, RefreshReport, ProofComplete,
                         ReceiveRead, LoseRead, StaysConsole, consoleVars
    <2>2. QED
      BY <1>2, <2>1, Beside DEF intakeVars
  <1>3. CASE IntakeNext
    <2>1. CASE LoadExample \/ SendBatch \/ ChooseCampaign
      BY <2>1, ExampleLoaded, BatchSent, CampaignChosen
    <2>2. CASE ChooseNone
      BY <2>2, Beside DEF ChooseNone, consoleVars, intakeHistory
    <2>3. CASE \E p \in Price : EditPrice(p)
      BY <2>3, PriceEdited
    <2>4. CASE \E r \in wire : GetHold(r) \/ ServeReserve(r) \/ ServeBatch(r)
      BY <2>4, HoldGot, Served
    <2>5. CASE \E r \in wire : Reject(r) \/ Uncertain(r) \/ GetBatch(r)
      <3>1. PICK r \in wire : Reject(r) \/ Uncertain(r) \/ GetBatch(r)
        BY <2>5
      <3>2. r.awaited
        BY <3>1 DEF Reject, Uncertain, GetBatch
      <3>3. QED
        BY <3>1, <3>2, HandlerEnds
    <2>6. CASE \E h \in engine.holds : ExpireHold(h)
      BY <2>6, TimePasses
    <2>7. QED
      BY <1>3, <2>1, <2>2, <2>3, <2>4, <2>5, <2>6 DEF IntakeNext
  <1>4. CASE UNCHANGED pageVars
    BY <1>4, Beside DEF pageVars, consoleVars, intakeVars
  <1>5. QED
    BY <1>1, <1>2, <1>3, <1>4 DEF PagesNext

\* It holds at first.
LEMMA IntakeInitial ==
  ASSUME PagesInit
  PROVE  IntakeInv
  <1>1. Lowest \in Price
    <2>1. PICK p \in Price : \A q \in Price : p <= q
      BY IntakeAssumption
    <2>2. QED
      BY <2>1, Zenon DEF Lowest
  <1>2. /\ intake = [price |-> Lowest, cost |-> None, plan |-> None, draft |-> None,
                     stage |-> "idle", plans |-> 0]
        /\ wire = {} /\ sent = {} /\ expired = {}
    BY DEF PagesInit, IntakeInit
  <1>3. intake \in IntakeType
    BY <1>1, <1>2 DEF IntakeType
  <1>4. engine.holds = {}
    BY ReserveEmpty
  <1>5. intake.plan = None /\ intake.draft = None /\ intake.stage = "idle"
    BY <1>2
  <1>6. IntakeTyped /\ PlanOK /\ DraftOK
    BY <1>2, <1>3, <1>5 DEF IntakeTyped, PlanOK, DraftOK, ExampleAsAsked
  <1>7. QED
    BY <1>2, <1>4, <1>6 DEF IntakeInv, WireOK, TrackedOK

\* So it always holds.
LEMMA IntakeInvariant == PagesSpec => []IntakeInv
  <1>1. PagesInit => Service(engine) /\ ReserveInv /\ IntakeInv
    BY ServiceInitial, ReserveInitial, IntakeInitial
  <1>2. Service(engine) /\ ReserveInv /\ IntakeInv /\ [PagesNext]_pageVars
          => Service(engine)' /\ ReserveInv' /\ IntakeInv'
    BY ServiceStep, ReserveStep, IntakeStep
  <1>3. QED
    BY <1>1, <1>2, PTL DEF PagesSpec

\* The example on the intake page is for a hold at the price that was in the
\* field when it was asked for, and no batch was sent for that hold before,
\* whatever answers are lost, late or refused (the example button of intake.js).
THEOREM ExampleAlwaysAsAsked == PagesSpec => []ExampleAsAsked
  <1>1. IntakeInv => ExampleAsAsked
    BY DEF IntakeInv, DraftOK
  <1>2. QED
    BY <1>1, IntakeInvariant, PTL

\* The intake page loses no hold it reserved: each is its plan's, was shown, is
\* over, was refused once, or was dropped by a batch sent over its uncertain
\* plan, for any prices, requests and faults.
THEOREM HoldsAlwaysTracked == PagesSpec => []HoldsTracked
  <1>1. IntakeInv => HoldsTracked
    BY DEF IntakeInv, TrackedOK, Tracked, HoldsTracked
  <1>2. QED
    BY <1>1, IntakeInvariant, PTL

-----------------------------------------------------------------------------
(* How many holds there are *)

INSTANCE FiniteSetTheorems

\* No more holds than first submissions.
LEMMA ReserveImplies ==
  ASSUME ReserveInv PROVE ReservedOnce
  <1> SUFFICES ASSUME NEW n \in 1..Len(forms), NEW p \in Payload
               PROVE  Cardinality({h \in engine.holds : h.form = n /\ h.payload = p})
                        <= Blocks(forms[n].log, p)
    BY DEF ReservedOnce
  <1> DEFINE log == forms[n].log
             S == {h \in engine.holds : h.form = n /\ h.payload = p}
             T == {i \in 1..Len(log) : log[i] = p /\ (i = 1 \/ log[i - 1] # p)}
             line == [h \in S |-> CHOOSE i \in T : h.key = <<n, i - 1>>]
  <1>1. Len(log) \in Nat /\ n # 0
    BY DEF ReserveInv, FormsOK, FormType
  <1>2. IsFiniteSet(T)
    <2>1. \A m \in Nat : IsFiniteSet(1..m)
      BY FS_Interval
    <2>2. T \subseteq 1..Len(log)
      OBVIOUS
    <2>3. QED
      BY <1>1, <2>1, <2>2, FS_Subset
  <1>3. \A h \in S : \E i \in T : h.key = <<n, i - 1>>
    BY <1>1 DEF ReserveInv, HoldsOK, Asked, Start
  <1>4. \A h \in S : line[h] \in T /\ h.key = <<n, line[h] - 1>>
    BY <1>3, Zenon
  <1>5. \A g, h \in S : line[g] = line[h] => g = h
    <2>1. S \subseteq engine.holds
      OBVIOUS
    <2> HIDE DEF line, S, T
    <2>2. QED
      BY <1>4, <2>1 DEF ReserveInv, HoldsOK
  <1>6. line \in [S -> T]
    BY <1>4, Zenon
  <1> HIDE DEF line, S, T
  <1>7. line \in Injection(S, T)
    BY <1>5, <1>6 DEF Injection, IsInjective
  <1>8. Cardinality(S) <= Cardinality(T)
    BY <1>2, <1>7, FS_Injection
  <1>9. QED
    BY <1>8 DEF S, T, Blocks

\* Submitting an unchanged form again never makes a second hold, for any forms,
\* edits and lost, late or refused answers (the fingerprint and the request key
\* of the reservation form in app.js, the unique key of the engine).
THEOREM AlwaysReservedOnce == PagesSpec => []ReservedOnce
  <1>1. PagesInit => Service(engine) /\ ReserveInv
    BY ServiceInitial, ReserveInitial
  <1>2. Service(engine) /\ ReserveInv /\ [PagesNext]_pageVars => Service(engine)' /\ ReserveInv'
    BY ServiceStep, ReserveStep
  <1>3. ReserveInv => ReservedOnce
    BY ReserveImplies
  <1>4. QED
    BY <1>1, <1>2, <1>3, PTL DEF PagesSpec

=============================================================================
