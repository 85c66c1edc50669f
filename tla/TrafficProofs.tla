--------------------------- MODULE TrafficProofs ----------------------------
(*****************************************************************************)
(* Proofs about the demo's foot traffic: what the service stores and reports,*)
(* and what the traffic page of the console shows of it.                     *)
(*****************************************************************************)
EXTENDS TrafficPage, TrafficReport, TLAPS

-----------------------------------------------------------------------------
(* The foot traffic page *)

Attempt == [batch : Int \cup {None}, confirmed : BOOLEAN]

PageType ==
  [selected : Sample, attempts : [Sample -> Attempt],
   report : {None} \cup [sample : Sample, version : Int],
   loading : BOOLEAN, importing : BOOLEAN, emptying : BOOLEAN, waits : BOOLEAN,
   error : BOOLEAN, generation : Nat,
   notice : {"", "working", "committed", "emptied", "failed", "refreshed"}]

RequestType ==
  [kind : {"example", "post", "empty", "report"}, sample : Sample,
   batch : Int \cup {None}, manual : BOOLEAN, ticket : Nat, awaited : BOOLEAN,
   answer : Int \cup {None}]

\* The variables have their types.
PageTypeOK ==
  /\ version \in [Sample -> Nat]
  /\ offered \in [Sample -> Nat]
  /\ page \in PageType
  /\ saved \in [selected : Sample, attempts : [Sample -> Attempt]]
  /\ net \subseteq RequestType
  /\ posted \in [Sample -> Int \cup {None}]
  /\ stamp \in [Sample -> Int]

\* Steps of a write the page waits for.
Write(r) == r.awaited /\ r.kind # "report"

Reading(r) == r.awaited /\ r.kind = "report"

\* What the page waits for: one write or one report, for the selected sample.
OneAtATime ==
  /\ page.waits => page.loading
  /\ \A r \in net :
       /\ Write(r) => /\ r.sample = page.selected /\ ~page.loading
                      /\ page.importing \/ page.emptying
       /\ Reading(r) => /\ r.sample = page.selected /\ page.loading
                        /\ r.ticket = page.generation
  /\ \A r, q \in net : r.awaited /\ q.awaited => r = q

Acknowledged == page.notice \in {"committed", "emptied"}

Given(r) == r.answer \notin {None, Refusal}

\* Confirmed writes are no newer than the service, and a report that is read
\* after one is no older than it.
InOrder ==
  /\ \A s \in Sample : stamp[s] <= version[s]
  /\ \A r \in net : Given(r) /\ r.kind \in {"post", "empty"} => r.answer <= version[r.sample]
  /\ page.report # None => page.report.sample = page.selected
  /\ (Acknowledged /\ ~page.loading /\ ~page.error) =>
       page.report # None /\ page.report.version >= stamp[page.selected]
  /\ (Acknowledged /\ page.loading) =>
       \A r \in net : Reading(r) /\ Given(r) => r.answer >= stamp[page.selected]

PageInv == PageTypeOK /\ OneAtATime /\ AttemptKept /\ InOrder

-----------------------------------------------------------------------------
\* A request the page sends is well formed.
LEMMA AskTyped ==
  ASSUME NEW p \in PageType, NEW kind \in {"example", "post", "empty", "report"},
         NEW batch \in Int \cup {None}, NEW manual \in BOOLEAN
  PROVE  Ask(p, kind, batch, manual) \in RequestType
  BY Zenon DEF Ask, PageType, RequestType

\* So are the page and its requests after a refresh.
LEMMA RefreshTyped ==
  ASSUME NEW p \in PageType, NEW manual \in BOOLEAN, NEW rest \in SUBSET RequestType,
         Refresh(p, manual, rest)
  PROVE  page' \in PageType /\ net' \in SUBSET RequestType
  <1> DEFINE q == [p EXCEPT !.generation = @ + 1, !.loading = TRUE, !.error = FALSE]
  <1>1. q \in PageType
    <2>0. p.generation \in Nat
      BY Zenon DEF PageType
    <2>1. p.generation + 1 \in Nat
      BY <2>0
    <2>2. ASSUME NEW g \in Nat
          PROVE  [p EXCEPT !.generation = g, !.loading = TRUE, !.error = FALSE] \in PageType
      BY Zenon DEF PageType
    <2>3. QED
      BY <2>1, <2>2, Zenon
  <1>2. Ask(q, "report", None, manual) \in RequestType
    BY <1>1, AskTyped
  <1>3. CASE p.loading
    BY <1>3 DEF Refresh
  <1>4. CASE ~p.loading
    <2>1. page' = q /\ net' = rest \cup {Ask(q, "report", None, manual)}
      BY <1>4 DEF Refresh
    <2>2. QED
      BY <1>1, <1>2, <2>1
  <1>5. QED
    BY <1>3, <1>4

\* And after a refresh a button waits for.
LEMMA RefreshAndWaitTyped ==
  ASSUME NEW p \in PageType, NEW rest \in SUBSET RequestType, RefreshAndWait(p, rest)
  PROVE  page' \in PageType /\ net' \in SUBSET RequestType
  <1> DEFINE q == IF p.loading THEN [p EXCEPT !.importing = FALSE, !.emptying = FALSE]
                               ELSE [p EXCEPT !.waits = TRUE]
  <1>1. q \in PageType
    BY Zenon DEF PageType
  <1>2. Refresh(q, FALSE, rest)
    BY Zenon DEF RefreshAndWait
  <1>3. QED
    BY <1>1, <1>2, RefreshTyped, Zenon

\* Every step keeps the types.
LEMMA TrafficPageTypeStep ==
  ASSUME PageTypeOK, [TrafficPageNext]_trafficPageVars
  PROVE  PageTypeOK'
  <1> USE TrafficPageAssumption
  <1>a. Random \in Sample /\ Blank \in [Sample -> Attempt] /\ NoAttempt \in Attempt
    BY DEF Blank, NoAttempt, Attempt
  <1>b. page \in PageType /\ page.selected \in Sample
        /\ page.attempts \in [Sample -> Attempt]
    BY Zenon DEF PageTypeOK, PageType
  <1>1. CASE Load
    <2>1. page' \in PageType
      BY <1>1, <1>b, Zenon DEF Load, PageType
    <2>2. Ask(page, "example", None, FALSE) \in RequestType
      BY <1>b, AskTyped, Zenon
    <2>3. QED
      BY <1>1, <2>1, <2>2, Zenon DEF PageTypeOK, Load, server
  <1>2. CASE Replay
    <2> DEFINE last == page.attempts[page.selected].batch
               q == [page EXCEPT !.importing = TRUE, !.notice = "working",
                       !.attempts[page.selected] = [batch |-> last, confirmed |-> FALSE]]
    <2>1. last \in Int \cup {None}
      BY <1>b DEF Attempt
    <2>2. page' \in PageType /\ page'.attempts \in [Sample -> Attempt]
          /\ page'.selected \in Sample /\ page'.generation \in Nat
      BY <1>2, <1>b, <2>1, Zenon DEF Replay, Post, PageType, Attempt
    <2>3. saved' = [selected |-> page'.selected, attempts |-> page'.attempts]
          /\ net' = net \cup {Ask(page', "post", last, FALSE)}
          /\ posted' = [posted EXCEPT ![page.selected] = last]
          /\ UNCHANGED <<version, offered, stamp>>
      BY <1>2 DEF Replay, Post, Remember, server
    <2>4. Ask(page', "post", last, FALSE) \in RequestType
      BY <2>1, <2>2 DEF Ask, RequestType
    <2>5. QED
      BY <1>b, <2>1, <2>2, <2>3, <2>4, Zenon DEF PageTypeOK
  <1>3. CASE GenerateRandom
    <2>1. page' \in PageType /\ page'.attempts \in [Sample -> Attempt] /\ page'.selected \in Sample
      BY <1>3, <1>a, <1>b, Zenon DEF GenerateRandom, PageType
    <2>2. Ask(page', "example", None, FALSE) \in RequestType
      BY <2>1, AskTyped, Zenon
    <2>3. /\ net' = net \cup {Ask(page', "example", None, FALSE)}
          /\ saved' = [selected |-> page'.selected, attempts |-> page'.attempts]
          /\ UNCHANGED <<version, offered, posted, stamp>>
      BY <1>3 DEF GenerateRandom, Remember, server
    <2>4. QED
      BY <2>1, <2>2, <2>3, Zenon DEF PageTypeOK
  <1>4. CASE EmptyBatch
    <2>1. page' \in PageType
      BY <1>4, <1>b, Zenon DEF EmptyBatch, PageType
    <2>2. Ask(page, "empty", None, FALSE) \in RequestType
      BY <1>b, AskTyped, Zenon
    <2>3. QED
      BY <1>4, <2>1, <2>2, Zenon DEF PageTypeOK, EmptyBatch, server
  <1>5. CASE RefreshReport
    BY <1>5, <1>b, RefreshTyped, Zenon DEF PageTypeOK, RefreshReport, server
  <1>6. CASE Render
    BY <1>6, <1>b, RefreshTyped, Zenon DEF PageTypeOK, Render, server
  <1>7. CASE Reload
    <2> DEFINE kept == [s \in Sample |-> IF <<s, saved.attempts[s].batch>> \in old
                                         THEN NoAttempt ELSE saved.attempts[s]]
    <2>1. saved.selected \in Sample /\ kept \in [Sample -> Attempt]
      BY <1>a DEF PageTypeOK
    <2>2. FreshPage(saved.selected, kept) \in PageType
      BY <2>1 DEF FreshPage, PageType
    <2>3. net' \subseteq RequestType
      <3>1. \A r \in RequestType : [r EXCEPT !.awaited = FALSE] \in RequestType
        BY Zenon DEF RequestType
      <3>2. QED
        BY <1>7, <3>1 DEF PageTypeOK, Reload
    <2>4. QED
      BY <1>7, <2>2, <2>3 DEF PageTypeOK, Reload, server
  <1>8. ASSUME NEW s \in Sample, SelectSample(s) PROVE PageTypeOK'
    <2> DEFINE p == [page EXCEPT !.selected = s, !.report = None, !.error = FALSE, !.notice = ""]
    <2>1. p \in PageType /\ p.attempts \in [Sample -> Attempt] /\ p.selected \in Sample
      BY <1>b, Zenon DEF PageType
    <2>2. /\ saved' = [selected |-> p.selected, attempts |-> p.attempts]
          /\ Refresh(p, FALSE, net)
          /\ UNCHANGED <<version, offered, posted, stamp>>
      BY <1>8, Zenon DEF SelectSample, Remember, server
    <2>3. QED
      BY <2>1, <2>2, RefreshTyped, Zenon DEF PageTypeOK
  <1>9. ASSUME NEW s \in Sample, OtherClient(s) PROVE PageTypeOK'
    <2>1. \E feed : Change(s, feed)
      BY <1>9, Zenon DEF OtherClient, Import
    <2>2. version' = version \/ version' = [version EXCEPT ![s] = @ + 1]
      BY <2>1 DEF Change
    <2>3. version' \in [Sample -> Nat]
      BY <2>2 DEF PageTypeOK
    <2>4. QED
      BY <1>9, <2>3 DEF PageTypeOK, OtherClient
  <1>10. ASSUME NEW s \in Sample, NEW b \in Batch, Expire(s, b) PROVE PageTypeOK'
    BY <1>10 DEF PageTypeOK, Expire
  <1>11. ASSUME NEW r \in net, Serve(r) PROVE PageTypeOK'
    <2>1. r \in RequestType /\ r.sample \in Sample
      BY DEF PageTypeOK, RequestType
    <2>2. version' \in [Sample -> Nat] /\ offered' \in [Sample -> Nat]
      BY <1>11, <2>1 DEF PageTypeOK, Serve, ServeExample, ServePost, ServeEmpty,
                         ServeReport, Import, Change, Offer
    <2>3. \E a \in Int : Answer(r, a)
      BY <1>11, <2>1, <2>2 DEF PageTypeOK, Serve, ServeExample, ServePost, ServeEmpty,
                               ServeReport, Refusal
    <2>4. net' \subseteq RequestType
      BY <2>1, <2>3 DEF PageTypeOK, Answer, RequestType
    <2>5. QED
      BY <1>11, <2>2, <2>4 DEF PageTypeOK, Serve
  <1>12. ASSUME NEW r \in net, GetExample(r) PROVE PageTypeOK'
    <2>1. r.answer \in Int \cup {None}
      BY DEF PageTypeOK, RequestType
    <2>2. page' \in PageType /\ page'.attempts \in [Sample -> Attempt]
          /\ page'.selected \in Sample /\ page'.generation \in Nat
      BY <1>12, <1>b, <2>1, Zenon DEF GetExample, Post, PageType, Attempt
    <2>3. saved' = [selected |-> page'.selected, attempts |-> page'.attempts]
          /\ net' = (net \ {r}) \cup {Ask(page', "post", r.answer, FALSE)}
          /\ posted' = [posted EXCEPT ![page.selected] = r.answer]
          /\ UNCHANGED <<version, offered, stamp>>
      BY <1>12 DEF GetExample, Post, Remember, server
    <2>4. Ask(page', "post", r.answer, FALSE) \in RequestType
      BY <2>1, <2>2 DEF Ask, RequestType
    <2>5. QED
      BY <1>b, <2>1, <2>2, <2>3, <2>4, Zenon DEF PageTypeOK
  <1>13. ASSUME NEW r \in net, GetPost(r) PROVE PageTypeOK'
    <2> DEFINE p == [page EXCEPT !.attempts[page.selected].confirmed = TRUE, !.notice = "committed"]
    <2> DEFINE kept == [page.attempts EXCEPT ![page.selected].confirmed = TRUE]
    <2>0. kept \in [Sample -> Attempt] /\ p = [page EXCEPT !.attempts = kept, !.notice = "committed"]
      BY <1>b, Zenon DEF Attempt, PageType
    <2>1. p \in PageType /\ p.attempts \in [Sample -> Attempt] /\ p.selected \in Sample
      BY <1>b, <2>0, Zenon DEF PageType
    <2>2. saved' = [selected |-> p.selected, attempts |-> p.attempts]
          /\ RefreshAndWait(p, net \ {r})
          /\ stamp' = [stamp EXCEPT ![r.sample] = r.answer] /\ r.answer # None
          /\ UNCHANGED <<version, offered, posted>>
      BY <1>13 DEF GetPost, Remember, server, Awaited
    <2>3. page' \in PageType /\ net' \subseteq RequestType
      BY <2>1, <2>2, RefreshAndWaitTyped DEF PageTypeOK
    <2>4. QED
      BY <2>1, <2>2, <2>3 DEF PageTypeOK, RequestType
  <1>14. ASSUME NEW r \in net, GetEmpty(r) PROVE PageTypeOK'
    <2> DEFINE p == [page EXCEPT !.attempts[page.selected] = NoAttempt, !.report = None,
                                 !.error = FALSE, !.notice = "emptied"]
    <2>1. p \in PageType /\ p.attempts \in [Sample -> Attempt] /\ p.selected \in Sample
      BY <1>a, <1>b, Zenon DEF PageType
    <2>2. saved' = [selected |-> p.selected, attempts |-> p.attempts]
          /\ RefreshAndWait(p, net \ {r})
          /\ stamp' = [stamp EXCEPT ![r.sample] = r.answer] /\ r.answer # None
          /\ posted' = [posted EXCEPT ![r.sample] = None]
          /\ UNCHANGED <<version, offered>>
      BY <1>14 DEF GetEmpty, Remember, server, Awaited
    <2>3. page' \in PageType /\ net' \subseteq RequestType
      BY <2>1, <2>2, RefreshAndWaitTyped DEF PageTypeOK
    <2>4. QED
      BY <2>1, <2>2, <2>3 DEF PageTypeOK, RequestType
  <1>15. ASSUME NEW r \in net, GetReport(r) PROVE PageTypeOK'
    BY <1>15, ZenonT(30) DEF PageTypeOK, GetReport, Awaited, Loaded, PageType, RequestType, server
  <1>16. ASSUME NEW r \in net, Refused(r) PROVE PageTypeOK'
    BY <1>16, ZenonT(30) DEF PageTypeOK, Refused, Failed, Loaded, PageType, server
  <1>17. ASSUME NEW r \in net, Lose(r) PROVE PageTypeOK'
    <2>1. page' \in PageType
      BY <1>17, <1>b, ZenonT(30) DEF Lose, Failed, Loaded, PageType
    <2>2. net' \subseteq RequestType
      BY <1>17, ZenonT(30) DEF PageTypeOK, Lose, RequestType
    <2>3. QED
      BY <1>17, <2>1, <2>2 DEF PageTypeOK, Lose, server
  <1>18. CASE UNCHANGED trafficPageVars
    BY <1>18 DEF PageTypeOK, trafficPageVars, server
  <1>19. QED
    BY <1>1, <1>2, <1>3, <1>4, <1>5, <1>6, <1>7, <1>8, <1>9, <1>10, <1>11, <1>12, <1>13,
       <1>14, <1>15, <1>16, <1>17, <1>18 DEF TrafficPageNext, Reply

-----------------------------------------------------------------------------
(* What the page waits for *)

\* An idle page waits for no answer.
LEMMA NoneAwaited ==
  ASSUME OneAtATime, Idle(page)
  PROVE  \A r \in net : ~r.awaited
  BY DEF OneAtATime, Idle, Write, Reading

\* A request the page waits for is the only one, for what is selected.
LEMMA AloneAwaited ==
  ASSUME OneAtATime, NEW r \in net, r.awaited
  PROVE  /\ \A q \in net \ {r} : ~q.awaited
         /\ r.sample = page.selected
         /\ r.kind # "report" => ~page.loading /\ ~page.waits
         /\ r.kind = "report" => r.ticket = page.generation
  BY DEF OneAtATime, Write, Reading

\* A handler sends a request and waits for nothing else.
LEMMA WriteBegins ==
  ASSUME InOrder, UNCHANGED <<version, stamp>>,
         NEW rest \in SUBSET net, \A q \in rest : ~q.awaited,
         NEW a, net' = rest \cup {a},
         a.awaited, a.kind # "report", a.answer = None, a.sample = page'.selected,
         ~page'.loading, ~page'.waits, page'.importing \/ page'.emptying,
         page'.report # None => page'.report.sample = page'.selected,
         \/ page'.notice = "working"
         \/ /\ page'.notice = page.notice /\ page'.error = page.error
            /\ page'.report = page.report /\ page'.selected = page.selected
            /\ ~page.loading
  PROVE  OneAtATime' /\ InOrder'
  <1>1. OneAtATime'
    BY DEF OneAtATime, Write, Reading
  <1>2. \A r \in net' : Given(r) => r \in net
    BY DEF Given
  <1>3. QED
    BY <1>1, <1>2 DEF InOrder, Acknowledged, Given

\* A report is asked for, and nothing else is awaited.
LEMMA ReadBegins ==
  ASSUME InOrder, version' = version, \A s \in Sample : stamp'[s] <= version[s],
         NEW rest \in SUBSET net, \A q \in rest : ~q.awaited,
         NEW p \in PageType, ~p.loading, NEW manual,
         p.report # None => p.report.sample = p.selected,
         Refresh(p, manual, rest)
  PROVE  OneAtATime' /\ InOrder'
  <1> DEFINE q == [p EXCEPT !.generation = @ + 1, !.loading = TRUE, !.error = FALSE]
             a == Ask(q, "report", None, manual)
  <1>1. page' = q /\ net' = rest \cup {a}
    BY DEF Refresh
  <1>2. /\ page'.selected = p.selected /\ page'.report = p.report /\ page'.loading
    BY <1>1, Zenon DEF PageType
  <1>3. /\ a.kind = "report" /\ a.awaited /\ a.answer = None
        /\ a.sample = page'.selected /\ a.ticket = page'.generation
    BY <1>1 DEF Ask
  <1> HIDE DEF a, q
  <1>4. OneAtATime'
    BY <1>1, <1>2, <1>3 DEF OneAtATime, Write, Reading
  <1>5. \A r \in net' : Given(r) => r \in net /\ ~r.awaited
    BY <1>1, <1>3 DEF Given
  <1>6. QED
    BY <1>1, <1>2, <1>4, <1>5 DEF InOrder, Reading, Given

-----------------------------------------------------------------------------
\* Every step keeps one request at a time and the reports in order.
LEMMA OrderStep ==
  ASSUME PageTypeOK, OneAtATime, InOrder, [TrafficPageNext]_trafficPageVars
  PROVE  OneAtATime' /\ InOrder'
  <1>a. page \in PageType /\ net \in SUBSET net
    BY DEF PageTypeOK
  <1>b. page.report # None => page.report.sample = page.selected
    BY DEF InOrder
  <1>c. \A s \in Sample : stamp[s] <= version[s]
    BY DEF InOrder
  <1>1. CASE Load
    <2>1. /\ page'.importing /\ page'.notice = "working" /\ page'.selected = page.selected
          /\ page'.report = page.report /\ ~page'.loading /\ (page'.waits <=> page.waits)
      BY <1>1, <1>a, Zenon DEF Load, PageType, Idle
    <2>2. ~page.waits
      BY <1>1 DEF Load, Idle, OneAtATime
    <2> DEFINE a == Ask(page, "example", None, FALSE)
    <2>3. a.awaited /\ a.kind # "report" /\ a.answer = None /\ a.sample = page'.selected
      BY <2>1 DEF Ask
    <2>4. net' = net \cup {a} /\ UNCHANGED <<version, stamp>> /\ Idle(page)
      BY <1>1 DEF Load, server
    <2> HIDE DEF a
    <2>5. QED
      BY <1>b, <2>1, <2>2, <2>3, <2>4, NoneAwaited, WriteBegins
  <1>2. CASE Replay
    <2> DEFINE last == page.attempts[page.selected].batch
               a == Ask(page', "post", last, FALSE)
    <2>1. /\ page'.importing /\ page'.notice = "working" /\ page'.selected = page.selected
          /\ page'.report = page.report /\ ~page'.loading /\ (page'.waits <=> page.waits)
      BY <1>2, <1>a, Zenon DEF Replay, Post, PageType, Idle
    <2>2. ~page.waits
      BY <1>2 DEF Replay, Idle, OneAtATime
    <2>3. a.awaited /\ a.kind # "report" /\ a.answer = None /\ a.sample = page'.selected
      BY DEF Ask
    <2>4. net' = net \cup {a} /\ UNCHANGED <<version, stamp>> /\ Idle(page)
      BY <1>2 DEF Replay, Post, server
    <2> HIDE DEF a
    <2>5. QED
      BY <1>b, <2>1, <2>2, <2>3, <2>4, NoneAwaited, WriteBegins
  <1>3. CASE GenerateRandom
    <2> DEFINE a == Ask(page', "example", None, FALSE)
    <2>1. /\ page'.importing /\ page'.notice = "working" /\ page'.selected = Random
          /\ page'.report = IF page.selected = Random THEN page.report ELSE None
          /\ ~page'.loading /\ (page'.waits <=> page.waits)
      BY <1>3, <1>a, Zenon DEF GenerateRandom, PageType, Idle
    <2>2. ~page.waits
      BY <1>3 DEF GenerateRandom, Idle, OneAtATime
    <2>3. a.awaited /\ a.kind # "report" /\ a.answer = None /\ a.sample = page'.selected
      BY DEF Ask
    <2>4. net' = net \cup {a} /\ UNCHANGED <<version, stamp>> /\ Idle(page)
      BY <1>3 DEF GenerateRandom, server
    <2> HIDE DEF a
    <2>5. QED
      BY <1>b, <2>1, <2>2, <2>3, <2>4, NoneAwaited, WriteBegins, Zenon
  <1>4. CASE EmptyBatch
    <2> DEFINE a == Ask(page, "empty", None, FALSE)
    <2>1. /\ page'.emptying /\ page'.notice = "working" /\ page'.selected = page.selected
          /\ page'.report = page.report /\ ~page'.loading /\ (page'.waits <=> page.waits)
      BY <1>4, <1>a, Zenon DEF EmptyBatch, PageType, Idle
    <2>2. ~page.waits
      BY <1>4 DEF EmptyBatch, Idle, OneAtATime
    <2>3. a.awaited /\ a.kind # "report" /\ a.answer = None /\ a.sample = page'.selected
      BY <2>1 DEF Ask
    <2>4. net' = net \cup {a} /\ UNCHANGED <<version, stamp>> /\ Idle(page)
      BY <1>4 DEF EmptyBatch, server
    <2> HIDE DEF a
    <2>5. QED
      BY <1>b, <2>1, <2>2, <2>3, <2>4, NoneAwaited, WriteBegins
  <1>5. CASE RefreshReport
    <2>1. UNCHANGED <<version, stamp>> /\ Idle(page) /\ Refresh(page, TRUE, net)
      BY <1>5, Zenon DEF RefreshReport, server
    <2>2. QED
      BY <1>a, <1>b, <1>c, <2>1, NoneAwaited, ReadBegins, Zenon DEF Idle
  <1>6. CASE Render
    <2>1. UNCHANGED <<version, stamp>> /\ Idle(page) /\ Refresh(page, FALSE, net)
      BY <1>6, Zenon DEF Render, server
    <2>2. QED
      BY <1>a, <1>b, <1>c, <2>1, NoneAwaited, ReadBegins, Zenon DEF Idle
  <1>7. ASSUME NEW s \in Sample, SelectSample(s) PROVE OneAtATime' /\ InOrder'
    <2> DEFINE p == [page EXCEPT !.selected = s, !.report = None, !.error = FALSE, !.notice = ""]
    <2>1. UNCHANGED <<version, stamp>> /\ Idle(page) /\ Refresh(p, FALSE, net)
      BY <1>7, Zenon DEF SelectSample, server
    <2>2. p \in PageType /\ p.report = None /\ ~p.loading
      BY <1>a, <2>1, Zenon DEF PageType, Idle
    <2> HIDE DEF p
    <2>3. QED
      BY <1>a, <1>c, <2>1, <2>2, NoneAwaited, ReadBegins, Zenon
  <1>8. CASE Reload
    <2>1. \A r \in net' : ~r.awaited /\ r.answer = None
      BY <1>8 DEF PageTypeOK, RequestType, Reload
    <2>2. ~page'.loading /\ ~page'.waits /\ page'.report = None /\ page'.notice = ""
          /\ UNCHANGED <<version, stamp>>
      BY <1>8, Zenon DEF Reload, FreshPage, server
    <2>3. QED
      BY <1>c, <2>1, <2>2, Zenon DEF OneAtATime, InOrder, Write, Reading, Given, Acknowledged
  <1>9. ASSUME NEW s \in Sample, OtherClient(s) PROVE OneAtATime' /\ InOrder'
    <2>1. \E feed : Change(s, feed)
      BY <1>9, Zenon DEF OtherClient, Import
    <2>2. \A t \in Sample : version'[t] >= version[t] /\ version'[t] \in Nat
      BY <2>1 DEF Change, PageTypeOK
    <2>3. UNCHANGED <<page, net, stamp>>
      BY <1>9 DEF OtherClient
    <2>4. OneAtATime'
      BY <2>3 DEF OneAtATime, Write, Reading
    <2>5. InOrder'
      BY <2>2, <2>3 DEF InOrder, Given, Reading, Acknowledged, PageTypeOK, RequestType
    <2>6. QED
      BY <2>4, <2>5
  <1>10. ASSUME NEW s \in Sample, NEW b \in Batch, Expire(s, b) PROVE OneAtATime' /\ InOrder'
    BY <1>10 DEF Expire, OneAtATime, InOrder, Write, Reading, Given, Acknowledged
  <1>11. ASSUME NEW r \in net, Serve(r) PROVE OneAtATime' /\ InOrder'
    <2>1. r \in RequestType /\ r.sample \in Sample
      BY DEF PageTypeOK, RequestType
    <2>2. \A t \in Sample : version'[t] >= version[t] /\ version'[t] \in Nat
      BY <1>11, <2>1 DEF PageTypeOK, Serve, ServeExample, ServePost, ServeEmpty,
                         ServeReport, Import, Change
    <2>3. PICK a \in Int :
            /\ Answer(r, a)
            /\ r.kind \in {"post", "empty"} => a \in {Refusal, version'[r.sample]}
            /\ r.kind = "report" => a = version[r.sample]
      <3>1. CASE ServeExample(r)
        <4>1. offered' \in [Sample -> Nat]
          BY <2>1, <3>1 DEF ServeExample, Offer, PageTypeOK
        <4>2. QED
          BY <2>1, <3>1, <4>1 DEF ServeExample, Refusal
      <3>2. CASE ServePost(r)
        BY <2>1, <2>2, <3>2 DEF ServePost, Refusal
      <3>3. CASE ServeEmpty(r)
        BY <2>1, <2>2, <3>3 DEF ServeEmpty
      <3>4. CASE ServeReport(r)
        BY <2>1, <3>4 DEF ServeReport, PageTypeOK
      <3>5. QED
        BY <1>11, <3>1, <3>2, <3>3, <3>4 DEF Serve
    <2> DEFINE b == [r EXCEPT !.answer = a]
    <2>4. /\ b.kind = r.kind /\ b.sample = r.sample /\ b.awaited = r.awaited
          /\ b.ticket = r.ticket /\ b.answer = a
      BY <2>1 DEF RequestType
    <2>5. net' = (net \ {r}) \cup IF r.awaited THEN {b} ELSE {}
      BY <2>3 DEF Answer
    <2> HIDE DEF b
    <2>6. UNCHANGED <<page, stamp>>
      BY <1>11 DEF Serve
    <2>7. OneAtATime'
      BY <2>4, <2>5, <2>6 DEF OneAtATime, Write, Reading
    <2>8. stamp \in [Sample -> Int] /\ version \in [Sample -> Nat] /\ page.selected \in Sample
      BY Zenon DEF PageTypeOK, PageType
    <2>9. \A q \in net : Given(q) /\ q.kind \in {"post", "empty"} => q.answer <= version'[q.sample]
      BY <2>2, <2>8 DEF InOrder, PageTypeOK, RequestType, Given
    <2>10. Given(b) /\ b.kind \in {"post", "empty"} => b.answer <= version'[b.sample]
      BY <2>1, <2>2, <2>3, <2>4 DEF Given
    <2>11. Reading(b) => b.answer >= stamp[page.selected]
      BY <1>c, <2>3, <2>4, <2>8, Zenon DEF Reading, OneAtATime
    <2>12. \A s \in Sample : stamp[s] <= version'[s]
      BY <1>c, <2>2, <2>8
    <2>13. InOrder'
      BY <2>5, <2>6, <2>9, <2>10, <2>11, <2>12 DEF InOrder, Given, Reading, Acknowledged
    <2>14. QED
      BY <2>7, <2>13
  <1>12. ASSUME NEW r \in net, GetExample(r) PROVE OneAtATime' /\ InOrder'
    <2> DEFINE a == Ask(page', "post", r.answer, FALSE)
    <2>0. r.awaited /\ r.kind = "example"
      BY <1>12 DEF GetExample, Awaited
    <2>1. /\ page'.notice = page.notice /\ page'.error = page.error
          /\ page'.report = page.report /\ page'.selected = page.selected
          /\ page'.loading = page.loading /\ page'.waits = page.waits
          /\ page'.importing = page.importing /\ page'.emptying = page.emptying
      BY <1>12, <1>a, Zenon DEF GetExample, Post, PageType
    <2>2. page.importing \/ page.emptying
      BY <2>0 DEF OneAtATime, Write
    <2>3. a.awaited /\ a.kind # "report" /\ a.answer = None /\ a.sample = page'.selected
      BY DEF Ask
    <2>4. net' = (net \ {r}) \cup {a} /\ UNCHANGED <<version, stamp>>
      BY <1>12 DEF GetExample, Post, server
    <2> HIDE DEF a
    <2>5. /\ \A q \in net \ {r} : ~q.awaited
          /\ ~page.loading /\ ~page.waits
      BY <2>0, AloneAwaited
    <2>6. QED
      BY <1>b, <2>1, <2>2, <2>3, <2>4, <2>5, WriteBegins, Zenon
  <1>13. ASSUME NEW r \in net, GetPost(r) PROVE OneAtATime' /\ InOrder'
    <2> DEFINE p == [page EXCEPT !.attempts[page.selected].confirmed = TRUE, !.notice = "committed"]
               q == [p EXCEPT !.waits = TRUE]
    <2>0. r.awaited /\ r.kind = "post" /\ Given(r)
      BY <1>13 DEF GetPost, Awaited, Given
    <2>1. /\ \A o \in net \ {r} : ~o.awaited
          /\ ~page.loading /\ r.sample = page.selected
      BY <2>0, AloneAwaited
    <2>2. q \in PageType /\ ~p.loading /\ ~q.loading
          /\ q.report = page.report /\ q.selected = page.selected
      <3> DEFINE kept == [page.attempts EXCEPT ![page.selected].confirmed = TRUE]
      <3>1. kept \in [Sample -> Attempt] /\ p = [page EXCEPT !.attempts = kept, !.notice = "committed"]
        BY <1>a, Zenon DEF PageType, Attempt
      <3>2. QED
        BY <1>a, <2>1, <3>1, Zenon DEF PageType
    <2>3. Refresh(q, FALSE, net \ {r})
      BY <1>13, <2>2, Zenon DEF GetPost, RefreshAndWait
    <2>4. version' = version /\ stamp' = [stamp EXCEPT ![r.sample] = r.answer]
      BY <1>13 DEF GetPost, server
    <2>5. \A s \in Sample : stamp'[s] <= version[s]
      BY <1>c, <2>0, <2>4 DEF InOrder, PageTypeOK
    <2> HIDE DEF p, q
    <2>6. QED
      BY <1>b, <2>1, <2>2, <2>3, <2>4, <2>5, ReadBegins, Zenon
  <1>14. ASSUME NEW r \in net, GetEmpty(r) PROVE OneAtATime' /\ InOrder'
    <2> DEFINE p == [page EXCEPT !.attempts[page.selected] = NoAttempt, !.report = None,
                                 !.error = FALSE, !.notice = "emptied"]
               q == [p EXCEPT !.waits = TRUE]
    <2>0. r.awaited /\ r.kind = "empty" /\ Given(r)
      BY <1>14 DEF GetEmpty, Awaited, Given
    <2>1. /\ \A o \in net \ {r} : ~o.awaited
          /\ ~page.loading /\ r.sample = page.selected
      BY <2>0, AloneAwaited
    <2>2. q \in PageType /\ ~p.loading /\ ~q.loading /\ q.report = None
      BY <1>a, <2>1, Zenon DEF PageType, Attempt, NoAttempt
    <2>3. Refresh(q, FALSE, net \ {r})
      BY <1>14, <2>2, Zenon DEF GetEmpty, RefreshAndWait
    <2>4. version' = version /\ stamp' = [stamp EXCEPT ![r.sample] = r.answer]
      BY <1>14 DEF GetEmpty, server
    <2>5. \A s \in Sample : stamp'[s] <= version[s]
      BY <1>c, <2>0, <2>4 DEF InOrder, PageTypeOK
    <2> HIDE DEF p, q
    <2>6. QED
      BY <2>1, <2>2, <2>3, <2>4, <2>5, ReadBegins, Zenon
  <1>15. ASSUME NEW r \in net, GetReport(r) PROVE OneAtATime' /\ InOrder'
    <2>0. r.awaited /\ r.kind = "report" /\ Given(r)
      BY <1>15 DEF GetReport, Awaited, Given
    <2>1. /\ \A o \in net \ {r} : ~o.awaited
          /\ r.ticket = page.generation /\ r.sample = page.selected
      BY <2>0, AloneAwaited
    <2>2. /\ page'.selected = page.selected /\ ~page'.loading /\ ~page'.waits
          /\ page'.report = [sample |-> r.sample, version |-> r.answer]
          /\ page'.notice \in {"refreshed", page.notice}
      BY <1>15, <1>a, <2>1, Zenon DEF GetReport, Loaded, PageType
    <2>3. net' = net \ {r} /\ UNCHANGED <<version, stamp>>
      BY <1>15 DEF GetReport, server
    <2>4. OneAtATime'
      BY <2>1, <2>2, <2>3 DEF OneAtATime, Write, Reading
    <2>5. Acknowledged => r.answer >= stamp[page.selected]
      BY <2>0 DEF InOrder, OneAtATime, Reading
    <2>6. page'.report # None => page'.report.sample = page'.selected
      BY <2>1, <2>2
    <2>7. Acknowledged' => page'.report # None /\ page'.report.version >= stamp'[page'.selected]
      <3>1. r.answer \in Int /\ r.sample \in Sample
        BY <2>0 DEF PageTypeOK, RequestType, Given
      <3>2. page'.report # None
        BY <2>2, <3>1, TrafficPageAssumption
      <3>3. QED
        BY <2>2, <2>3, <2>5, <3>2 DEF Acknowledged
    <2>8. QED
      BY <2>2, <2>3, <2>4, <2>6, <2>7 DEF InOrder, Given
  <1>16. ASSUME NEW r \in net, r.awaited, Failed(r), UNCHANGED <<version, stamp>>,
                NEW lost, net' = (net \ {r}) \cup lost,
                \A q \in lost : ~q.awaited /\ q.answer = None
         PROVE  OneAtATime' /\ InOrder'
    <2>1. /\ \A o \in net \ {r} : ~o.awaited
          /\ r.kind = "report" => r.ticket = page.generation
          /\ r.kind # "report" => ~page.loading /\ ~page.waits
      BY <1>16, AloneAwaited
    <2>2. /\ page'.selected = page.selected /\ page'.report = page.report
          /\ ~page'.loading /\ ~page'.waits /\ (page'.error \/ page'.notice = "failed")
      BY <1>16, <1>a, <2>1, Zenon DEF Failed, Loaded, PageType
    <2>3. OneAtATime'
      BY <1>16, <2>1, <2>2 DEF OneAtATime, Write, Reading
    <2>4. QED
      BY <1>16, <2>2, <2>3 DEF InOrder, Given, Acknowledged
  <1>17. ASSUME NEW r \in net, Refused(r) PROVE OneAtATime' /\ InOrder'
    <2> DEFINE lost == {}
    <2>1. /\ r.awaited /\ Failed(r) /\ UNCHANGED <<version, stamp>>
          /\ net' = (net \ {r}) \cup lost
      BY <1>17 DEF Refused, server
    <2>2. \A q \in lost : ~q.awaited /\ q.answer = None
      OBVIOUS
    <2> HIDE DEF lost
    <2>3. QED
      BY <1>16, <2>1, <2>2
  <1>18. ASSUME NEW r \in net, Lose(r) PROVE OneAtATime' /\ InOrder'
    <2>1. [r EXCEPT !.awaited = FALSE].awaited = FALSE
          /\ [r EXCEPT !.awaited = FALSE].answer = r.answer
      BY DEF PageTypeOK, RequestType
    <2> DEFINE lost == IF r.kind \in {"post", "empty"} /\ r.answer = None
                       THEN {[r EXCEPT !.awaited = FALSE]} ELSE {}
    <2>2. /\ r.awaited /\ Failed(r) /\ UNCHANGED <<version, stamp>>
          /\ net' = (net \ {r}) \cup lost
      BY <1>18 DEF Lose, server
    <2>3. \A q \in lost : ~q.awaited /\ q.answer = None
      BY <2>1, Zenon
    <2> HIDE DEF lost
    <2>4. QED
      BY <1>16, <2>2, <2>3
  <1>19. CASE UNCHANGED trafficPageVars
    BY <1>19 DEF trafficPageVars, server, OneAtATime, InOrder, Write, Reading, Given, Acknowledged
  <1>20. QED
    BY <1>1, <1>2, <1>3, <1>4, <1>5, <1>6, <1>7, <1>8, <1>9, <1>10, <1>11, <1>12, <1>13,
       <1>14, <1>15, <1>17, <1>18, <1>19 DEF TrafficPageNext, Reply

-----------------------------------------------------------------------------
\* No step loses an input that may have to be sent again.
LEMMA AttemptStep ==
  ASSUME PageTypeOK, OneAtATime, AttemptKept, [TrafficPageNext]_trafficPageVars
  PROVE  AttemptKept'
  <1>a. page \in PageType /\ page.selected \in Sample /\ page.attempts \in [Sample -> Attempt]
        /\ saved.attempts \in [Sample -> Attempt]
    BY Zenon DEF PageTypeOK, PageType
  <1>b. posted \in [Sample -> Int \cup {None}]
    BY DEF PageTypeOK
  <1>1. ASSUME page'.attempts = page.attempts, UNCHANGED <<posted, old>>,
               saved'.attempts = saved.attempts
        PROVE  AttemptKept'
    BY <1>1 DEF AttemptKept
  <1>2. ASSUME page'.attempts = page.attempts, UNCHANGED <<posted, old>>,
               saved'.attempts = page.attempts
        PROVE  AttemptKept'
    BY <1>2 DEF AttemptKept
  <1>3. ASSUME NEW p \in PageType, NEW manual, NEW rest, Refresh(p, manual, rest)
        PROVE  page'.attempts = p.attempts
    BY <1>3, Zenon DEF Refresh, PageType
  <1>4. ASSUME NEW p \in PageType, NEW rest, RefreshAndWait(p, rest)
        PROVE  page'.attempts = p.attempts
    BY <1>4, Zenon DEF RefreshAndWait, Refresh, PageType
  <1>5. ASSUME NEW p \in PageType, p.attempts = page.attempts, NEW batch, NEW rest,
               Post(p, batch, rest), old' = old
        PROVE  AttemptKept'
    <2> DEFINE s == p.selected
               kept == [page.attempts EXCEPT ![s] = [batch |-> batch, confirmed |-> FALSE]]
    <2>1. s \in Sample
      BY Zenon DEF PageType
    <2>2. /\ page'.attempts = kept /\ saved'.attempts = kept
          /\ posted' = [posted EXCEPT ![s] = batch]
      BY <1>5, Zenon DEF Post, Remember, PageType
    <2>3. QED
      BY <1>5, <1>a, <1>b, <2>1, <2>2 DEF AttemptKept
  <1>6. CASE Load \/ EmptyBatch
    BY <1>1, <1>6, <1>a, Zenon DEF Load, EmptyBatch, PageType, server
  <1>7. CASE GenerateRandom
    BY <1>2, <1>7, <1>a, Zenon DEF GenerateRandom, Remember, PageType, server
  <1>8. CASE Replay
    <2> DEFINE p == [page EXCEPT !.importing = TRUE, !.notice = "working"]
    <2>1. p \in PageType /\ p.attempts = page.attempts
      BY <1>a, Zenon DEF PageType
    <2>2. Post(p, page.attempts[page.selected].batch, net) /\ old' = old
      BY <1>8 DEF Replay, server
    <2> HIDE DEF p
    <2>3. QED
      BY <1>5, <2>1, <2>2
  <1>9. CASE RefreshReport \/ Render
    BY <1>1, <1>3, <1>9, <1>a, Zenon DEF RefreshReport, Render, server
  <1>10. ASSUME NEW s \in Sample, SelectSample(s) PROVE AttemptKept'
    <2> DEFINE p == [page EXCEPT !.selected = s, !.report = None, !.error = FALSE, !.notice = ""]
    <2>1. p \in PageType /\ p.attempts = page.attempts
      BY <1>a, Zenon DEF PageType
    <2>2. /\ Refresh(p, FALSE, net) /\ UNCHANGED <<posted, old>>
          /\ saved' = [selected |-> p.selected, attempts |-> p.attempts]
      BY <1>10, Zenon DEF SelectSample, Remember, server
    <2> HIDE DEF p
    <2>3. QED
      BY <1>2, <1>3, <2>1, <2>2, Zenon
  <1>11. CASE Reload
    BY <1>11, <1>a, <1>b, Zenon DEF AttemptKept, Reload, FreshPage, server
  <1>12. ASSUME NEW s \in Sample, OtherClient(s) PROVE AttemptKept'
    BY <1>1, <1>12 DEF OtherClient
  <1>13. ASSUME NEW s \in Sample, NEW b \in Batch, Expire(s, b) PROVE AttemptKept'
    BY <1>13 DEF AttemptKept, Expire
  <1>14. ASSUME NEW r \in net, GetExample(r) PROVE AttemptKept'
    BY <1>5, <1>14, <1>a DEF GetExample, server
  <1>15. ASSUME NEW r \in net, GetPost(r) PROVE AttemptKept'
    <2> DEFINE kept == [page.attempts EXCEPT ![page.selected].confirmed = TRUE]
               p == [page EXCEPT !.attempts = kept, !.notice = "committed"]
    <2>1. kept \in [Sample -> Attempt] /\ \A s \in Sample : kept[s].batch = page.attempts[s].batch
      BY <1>a, Zenon DEF Attempt
    <2>2. p \in PageType /\ p.attempts = kept
      BY <1>a, <2>1, Zenon DEF PageType
    <2>3. /\ RefreshAndWait(p, net \ {r}) /\ UNCHANGED <<posted, old>>
          /\ saved' = [selected |-> p.selected, attempts |-> p.attempts]
      BY <1>15, <1>a, Zenon DEF GetPost, Remember, server, PageType
    <2> HIDE DEF p, kept
    <2>4. page'.attempts = kept
      BY <1>4, <2>2, <2>3
    <2>5. QED
      BY <2>1, <2>2, <2>3, <2>4 DEF AttemptKept
  <1>16. ASSUME NEW r \in net, GetEmpty(r) PROVE AttemptKept'
    <2> DEFINE p == [page EXCEPT !.attempts[page.selected] = NoAttempt, !.report = None,
                                 !.error = FALSE, !.notice = "emptied"]
    <2>1. /\ p \in PageType
          /\ p.attempts = [page.attempts EXCEPT ![page.selected] = NoAttempt]
      BY <1>a, Zenon DEF PageType, NoAttempt, Attempt
    <2>2. /\ RefreshAndWait(p, net \ {r}) /\ old' = old
          /\ posted' = [posted EXCEPT ![r.sample] = None]
          /\ saved' = [selected |-> p.selected, attempts |-> p.attempts]
          /\ r.awaited
      BY <1>16 DEF GetEmpty, Remember, Awaited, server
    <2> HIDE DEF p
    <2>3. page'.attempts = p.attempts /\ r.sample = page.selected
      BY <1>4, <2>1, <2>2, AloneAwaited
    <2>4. QED
      BY <1>a, <1>b, <2>1, <2>2, <2>3 DEF AttemptKept
  <1>17. ASSUME NEW r \in net, Serve(r) PROVE AttemptKept'
    BY <1>1, <1>17 DEF Serve
  <1>18. ASSUME NEW r \in net, GetReport(r) PROVE AttemptKept'
    BY <1>1, <1>18, <1>a, Zenon DEF GetReport, Loaded, PageType, server
  <1>19. ASSUME NEW r \in net, Refused(r) \/ Lose(r) PROVE AttemptKept'
    BY <1>1, <1>19, <1>a, Zenon DEF Refused, Lose, Failed, Loaded, PageType, server
  <1>20. CASE UNCHANGED trafficPageVars
    BY <1>1, <1>20 DEF trafficPageVars, server
  <1>21. QED
    BY <1>6, <1>7, <1>8, <1>9, <1>10, <1>11, <1>12, <1>13, <1>14, <1>15, <1>16, <1>17,
       <1>18, <1>19, <1>20 DEF TrafficPageNext, Reply

\* The invariant of the page holds at first.
LEMMA TrafficPageInitial ==
  ASSUME TrafficPageInit
  PROVE  PageInv
  <1>1. PICK s \in Sample : page = FreshPage(s, Blank) /\ saved = [selected |-> s, attempts |-> Blank]
    BY DEF TrafficPageInit
  <1>2. Blank \in [Sample -> Attempt]
    BY DEF Blank, NoAttempt, Attempt
  <1>3. PageTypeOK
    <2>1. page \in PageType
      BY <1>1, <1>2, Zenon DEF FreshPage, PageType
    <2>2. QED
      BY <1>1, <1>2, <2>1 DEF TrafficPageInit, PageTypeOK
  <1>4. OneAtATime /\ InOrder
    <2>1. ~page.loading /\ ~page.waits /\ page.report = None /\ page.notice = ""
      BY <1>1, Zenon DEF FreshPage
    <2>2. net = {} /\ \A t \in Sample : stamp[t] = 0 /\ version[t] = 0
      BY DEF TrafficPageInit
    <2>3. OneAtATime
      BY <2>1, <2>2, Zenon DEF OneAtATime
    <2>4. ~Acknowledged
      BY <2>1, Zenon DEF Acknowledged
    <2>5. \A t \in Sample : stamp[t] <= version[t]
      BY <2>2
    <2>6. \A r \in net : FALSE
      BY <2>2
    <2>7. QED
      BY <2>1, <2>3, <2>4, <2>5, <2>6, Zenon DEF InOrder
  <1>5. AttemptKept
    BY DEF TrafficPageInit, AttemptKept
  <1>6. QED
    BY <1>3, <1>4, <1>5 DEF PageInv

\* So it always holds.
LEMMA PageInvariant == TrafficPageSpec => []PageInv
  <1>1. PageInv /\ [TrafficPageNext]_trafficPageVars => PageInv'
    BY TrafficPageTypeStep, OrderStep, AttemptStep DEF PageInv
  <1>2. QED
    BY <1>1, TrafficPageInitial, PTL DEF TrafficPageSpec

\* The page can always repeat its last import: for any samples, batches and
\* faults, and however often the document is loaded again, the batch it last
\* sent for a sample is the one it keeps in memory and in sessionStorage, until
\* the sample is emptied or the batch is too old (ingest, remember and restore of
\* foottraffic.js).
THEOREM LastImportKept == TrafficPageSpec => []AttemptKept
  <1>1. PageInv => AttemptKept
    BY DEF PageInv
  <1>2. QED
    BY <1>1, PageInvariant, PTL

\* Whenever the page says that a write was confirmed and shows a report with no
\* error, the report is of the selected sample and no older than the write
\* (refresh and its generation number in foottraffic.js).
THEOREM ReportAlwaysCurrent == TrafficPageSpec => []ReportCurrent
  <1>1. PageInv => ReportCurrent
    BY DEF PageInv, InOrder, Acknowledged, ReportCurrent, Idle
  <1>2. QED
    BY <1>1, PageInvariant, PTL

-----------------------------------------------------------------------------
(* The measurement service *)

LedgerRow == [id : BatchID, content : SUBSET Window, inserted : Nat]

Transaction ==
  [pc : {"begun", "locked", "clearing", "cleared", "filling", "committing"},
   op : {"ingest", "replace", "empty"}, batch : Feeds \cup {NoBatch},
   delWindows : SUBSET Window, addWindows : SUBSET Window, delBatches : SUBSET LedgerRow]

\* The tables and the transactions have their types, and the tables are finite.
FeedTypeOK ==
  /\ windows \subseteq Window /\ IsFiniteSet(windows)
  /\ batches \subseteq LedgerRow /\ IsFiniteSet(batches)
  /\ sessions \in [Session -> Transaction \cup {NoRequest}]
  /\ scope \in Session \cup {NoSession}

OneCount(W) == \A v, w \in W : SameCell(v, w) => v = w

\* What a transaction has read and written so far is still what the tables
\* hold: it has the lock from its first statement on, so that nobody else
\* commits before it does.
TxOK(c) ==
  LET t == sessions[c]
      swaps == t.op # "ingest"
      written == t.pc \in {"filling", "committing"}
  IN  /\ t.pc \notin {"idle", "begun"} => scope = c
      /\ t.pc # "idle" /\ t.op # "empty" => t.batch \in Feeds /\ OneCount(t.batch.windows)
      /\ t.pc \in {"locked", "filling"} => t.op # "empty"
      /\ t.pc \in {"clearing", "cleared"} => swaps
      /\ t.pc \notin {"idle", "begun", "locked"} /\ t.op # "empty" =>
           \A x \in batches : x.id # t.batch.id
      /\ t.pc \in {"begun", "locked", "clearing"} => t.delWindows = {}
      /\ t.pc \in {"begun", "locked", "clearing", "cleared"} => t.delBatches = {}
      /\ t.pc = "cleared" => t.delWindows = windows
      /\ written => /\ t.delWindows = IF swaps THEN windows ELSE {}
                    /\ t.delBatches = IF swaps THEN batches ELSE {}
      /\ t.pc \notin {"idle", "committing"} => t.addWindows = {}
      /\ t.pc = "committing" /\ t.op = "empty" => t.addWindows = {}
      /\ t.pc = "committing" /\ t.op # "empty" =>
           /\ t.addWindows = t.batch.windows \ (windows \ t.delWindows)
           /\ OneCount((windows \ t.delWindows) \cup t.batch.windows)

FeedInv == FeedTypeOK /\ CountedOnce /\ IsFiniteSet(Inserted) /\ \A c \in Session : TxOK(c)

\* The fields of an open transaction.
LEMMA OpenTransaction ==
  ASSUME FeedTypeOK, NEW c \in Session, sessions[c].pc # "idle"
  PROVE  sessions[c] \in Transaction
  BY DEF FeedTypeOK, NoRequest

\* A transaction that is not told otherwise stays in order: its tables and its
\* lock are as they were, or it has not locked anything yet.
LEMMA Undisturbed ==
  ASSUME NEW c \in Session, TxOK(c), sessions'[c] = sessions[c],
         \/ sessions[c].pc \in {"idle", "begun"}
         \/ scope' = scope /\ UNCHANGED <<windows, batches>>
  PROVE  TxOK(c)'
  BY DEF TxOK, OneCount, SameCell

\* A transaction that ends, or has not begun, is in order.
LEMMA NothingOpen ==
  ASSUME NEW c, sessions'[c] = NoRequest
  PROVE  TxOK(c)'
  BY DEF TxOK, NoRequest

\* A rollback leaves tables and other transactions alone.
LEMMA RollbackKeeps ==
  ASSUME FeedInv, NEW c \in Session, Rollback(c)
  PROVE  FeedInv'
  <1>1. FeedTypeOK'
    BY DEF FeedInv, FeedTypeOK, Rollback, Unlock
  <1>2. CountedOnce' /\ IsFiniteSet(Inserted)'
    BY DEF FeedInv, CountedOnce, Inserted, Rollback, SameCell
  <1>3. ASSUME NEW d \in Session
        PROVE  TxOK(d)'
    <2>1. CASE d = c
      BY <2>1, NothingOpen DEF Rollback, FeedInv, FeedTypeOK
    <2>2. CASE d # c
      <3>1. sessions'[d] = sessions[d] /\ UNCHANGED <<windows, batches>>
        BY <2>2 DEF Rollback, FeedInv, FeedTypeOK
      <3>2. sessions[d].pc \in {"idle", "begun"} \/ scope = d
        BY Zenon DEF FeedInv, TxOK
      <3>3. scope = d => scope' = scope
        BY <2>2 DEF Rollback, Unlock
      <3>4. QED
        BY <3>1, <3>2, <3>3, Undisturbed DEF FeedInv
    <2>3. QED
      BY <2>1, <2>2
  <1>4. QED
    BY <1>1, <1>2, <1>3 DEF FeedInv

\* A statement changes the session's own transaction and perhaps takes the
\* free lock: what it must respect is its own order only.
LEMMA StatementKeeps ==
  ASSUME FeedInv, NEW c \in Session, NEW t \in Transaction,
         sessions' = [sessions EXCEPT ![c] = t], UNCHANGED <<windows, batches>>,
         scope' = scope \/ (scope = NoSession /\ scope' = c), TxOK(c)'
  PROVE  FeedInv'
  <1>1. FeedTypeOK'
    BY DEF FeedInv, FeedTypeOK
  <1>2. CountedOnce' /\ IsFiniteSet(Inserted)'
    BY DEF FeedInv, CountedOnce, Inserted, SameCell
  <1>3. ASSUME NEW d \in Session, d # c
        PROVE  TxOK(d)'
    <2>1. sessions'[d] = sessions[d]
      BY <1>3 DEF FeedInv, FeedTypeOK
    <2>2. sessions[d].pc \in {"idle", "begun"} \/ scope = d
      BY Zenon DEF FeedInv, TxOK
    <2>3. scope = d => scope' = scope
      BY TrafficAssumption
    <2>4. QED
      BY <2>1, <2>2, <2>3, Undisturbed DEF FeedInv
  <1>4. QED
    BY <1>1, <1>2, <1>3 DEF FeedInv

\* Every statement before the commit keeps the invariant.
LEMMA StatementsStep ==
  ASSUME FeedInv, NEW c \in Session
  PROVE  /\ \A op \in {"ingest", "replace"}, b \in Feeds : Begin(c, op, b) => FeedInv'
         /\ Begin(c, "empty", NoBatch) => FeedInv'
         /\ LockScope(c) \/ InsertBatch(c) \/ ClearWindows(c) \/ ClearBatches(c)
              \/ FillWindows(c) => FeedInv'
  <1> DEFINE t == sessions[c]
  <1>0. sessions \in [Session -> Transaction \cup {NoRequest}] /\ TxOK(c)
    BY DEF FeedInv, FeedTypeOK
  <1>1. ASSUME NEW op \in {"ingest", "replace", "empty"}, NEW b \in Feeds \cup {NoBatch},
               op # "empty" => b \in Feeds, Begin(c, op, b)
        PROVE  FeedInv'
    <2> DEFINE u == [pc |-> "begun", op |-> op, batch |-> b,
                     delWindows |-> {}, addWindows |-> {}, delBatches |-> {}]
    <2>1. u \in Transaction
      BY DEF Transaction
    <2>2. sessions' = [sessions EXCEPT ![c] = u] /\ UNCHANGED <<windows, batches, scope>>
      BY <1>1 DEF Begin
    <2>3. op # "empty" => b \in Feeds /\ OneCount(b.windows)
      BY <1>1 DEF Begin, Valid, OneCount
    <2>4. sessions'[c] = u
      BY <1>0, <2>2
    <2>5. TxOK(c)'
      BY <2>3, <2>4 DEF TxOK, OneCount, SameCell
    <2>6. QED
      BY <2>1, <2>2, <2>5, StatementKeeps, Zenon
  <1>2. CASE LockScope(c)
    <2> DEFINE u == [t EXCEPT !.pc = IF t.op = "empty" THEN "clearing" ELSE "locked"]
    <2>1. t \in Transaction /\ t.pc = "begun"
      BY <1>2, OpenTransaction DEF LockScope, FeedInv
    <2>2. u \in Transaction
      BY <2>1 DEF Transaction
    <2>3. sessions' = [sessions EXCEPT ![c] = u]
      BY <1>2 DEF LockScope, Goto
    <2>4. /\ UNCHANGED <<windows, batches>> /\ scope = NoSession /\ scope' = c
          /\ sessions'[c] = u
      BY <1>0, <1>2, <2>3 DEF LockScope
    <2>5. TxOK(c)'
      BY <1>0, <2>1, <2>4 DEF TxOK, OneCount, SameCell, Transaction
    <2>6. QED
      BY <2>2, <2>3, <2>4, <2>5, StatementKeeps, Zenon
  <1>3. CASE InsertBatch(c)
    <2>1. CASE Rollback(c)
      BY <2>1, RollbackKeeps
    <2>2. CASE ~Rollback(c)
      <3> DEFINE u == [t EXCEPT !.pc = IF t.op = "replace" THEN "clearing" ELSE "filling"]
      <3>1. t \in Transaction /\ t.pc = "locked"
        BY <1>3, OpenTransaction DEF InsertBatch, FeedInv
      <3>2. u \in Transaction
        BY <3>1 DEF Transaction
      <3>3. /\ sessions' = [sessions EXCEPT ![c] = u]
            /\ UNCHANGED <<windows, batches, scope>>
            /\ \A x \in batches : x.id # t.batch.id
        BY <1>3, <2>2 DEF InsertBatch, Goto
      <3>4. sessions'[c] = u
        BY <1>0, <3>3
      <3>5. TxOK(c)'
        BY <1>0, <3>1, <3>3, <3>4 DEF TxOK, OneCount, SameCell, Transaction
      <3>6. QED
        BY <3>2, <3>3, <3>5, StatementKeeps, Zenon
    <2>3. QED
      BY <2>1, <2>2
  <1>4. CASE ClearWindows(c)
    <2> DEFINE u == [t EXCEPT !.pc = "cleared", !.delWindows = windows]
    <2>1. t \in Transaction /\ t.pc = "clearing"
      BY <1>4, OpenTransaction DEF ClearWindows, FeedInv
    <2>2. u \in Transaction
      BY <2>1, Zenon DEF Transaction, FeedInv, FeedTypeOK
    <2>3. sessions' = [sessions EXCEPT ![c] = u] /\ UNCHANGED <<windows, batches, scope>>
      BY <1>4, Zenon DEF ClearWindows
    <2>4. sessions'[c] = u
      BY <1>0, <2>3
    <2>5. TxOK(c)'
      BY <1>0, <2>1, <2>3, <2>4 DEF TxOK, OneCount, SameCell, Transaction
    <2>6. QED
      BY <2>2, <2>3, <2>5, StatementKeeps, Zenon
  <1>5. CASE ClearBatches(c)
    <2> DEFINE u == [t EXCEPT !.delBatches = batches,
                       !.pc = IF t.op = "empty" THEN "committing" ELSE "filling"]
    <2>1. t \in Transaction /\ t.pc = "cleared"
      BY <1>5, OpenTransaction DEF ClearBatches, FeedInv
    <2>2. u \in Transaction
      BY <2>1, Zenon DEF Transaction, FeedInv, FeedTypeOK
    <2>3. sessions' = [sessions EXCEPT ![c] = u] /\ UNCHANGED <<windows, batches, scope>>
      BY <1>5, Zenon DEF ClearBatches
    <2>4. sessions'[c] = u
      BY <1>0, <2>3
    <2>5. TxOK(c)'
      BY <1>0, <2>1, <2>3, <2>4 DEF TxOK, OneCount, SameCell, Transaction
    <2>6. QED
      BY <2>2, <2>3, <2>5, StatementKeeps, Zenon
  <1>6. CASE FillWindows(c)
    <2> DEFINE visible == windows \ t.delWindows
    <2>1. CASE Rollback(c)
      BY <2>1, RollbackKeeps
    <2>2. CASE ~Rollback(c)
      <3> DEFINE u == [t EXCEPT !.pc = "committing", !.addWindows = t.batch.windows \ visible]
      <3>1. t \in Transaction /\ t.pc = "filling" /\ t.op # "empty" /\ t.batch \in Feeds
        BY <1>0, <1>6, OpenTransaction DEF FillWindows, FeedInv, TxOK
      <3>2. t.batch.windows \subseteq Window
        BY <3>1, TrafficAssumption DEF FeedBatch
      <3>3. u \in Transaction
        BY <3>1, <3>2, Zenon DEF Transaction
      <3>4. /\ sessions' = [sessions EXCEPT ![c] = u]
            /\ UNCHANGED <<windows, batches, scope>>
            /\ ~\E v \in visible, w \in t.batch.windows : SameCell(v, w) /\ v # w
        BY <1>6, <2>2, Zenon DEF FillWindows
      <3>5. OneCount(visible \cup t.batch.windows)
        <4>1. OneCount(visible) /\ OneCount(t.batch.windows)
          BY <1>0, <3>1, Zenon DEF FeedInv, CountedOnce, TxOK, OneCount
        <4>2. QED
          BY <3>4, <4>1 DEF OneCount, SameCell
      <3>6. sessions'[c] = u
        BY <1>0, <3>4
      <3>7. TxOK(c)'
        BY <1>0, <3>1, <3>4, <3>5, <3>6 DEF TxOK, OneCount, SameCell, Transaction
      <3>8. QED
        BY <3>3, <3>4, <3>7, StatementKeeps, Zenon
    <2>3. QED
      BY <2>1, <2>2
  <1>7. QED
    BY <1>1, <1>2, <1>3, <1>4, <1>5, <1>6

INSTANCE FiniteSetTheorems

\* The numbers of one ledger row are as many as the row says.
LEMMA RowSize ==
  ASSUME NEW x, NEW n \in Nat
  PROVE  IsFiniteSet({x} \X (1..n)) /\ Cardinality({x} \X (1..n)) = n
  <1>1. IsFiniteSet(1..n) /\ Cardinality(1..n) = n
    BY FS_Interval
  <1>2. IsFiniteSet({x}) /\ Cardinality({x}) = 1
    BY FS_Singleton
  <1>3. QED
    BY <1>1, <1>2, FS_Product

\* Two sets without a common element have together what each has.
LEMMA DisjointSize ==
  ASSUME NEW A, NEW B, IsFiniteSet(A), IsFiniteSet(B), A \cap B = {}
  PROVE  IsFiniteSet(A \cup B) /\ Cardinality(A \cup B) = Cardinality(A) + Cardinality(B)
  <1>1. Cardinality(A) \in Nat /\ Cardinality(B) \in Nat
    BY FS_CardinalityType
  <1>2. Cardinality(A \cap B) = 0
    BY FS_EmptySet, Zenon
  <1>3. /\ IsFiniteSet(A \cup B)
        /\ Cardinality(A \cup B) = Cardinality(A) + Cardinality(B) - Cardinality(A \cap B)
    BY FS_Union, Zenon
  <1>4. QED
    BY <1>1, <1>2, <1>3

\* Commit either removes everything, or leaves one batch, or adds a batch whose
\* ID and whose counted windows are new.
LEMMA CommitEffect ==
  ASSUME FeedInv, NEW c \in Session, Commit(c)
  PROVE  LET b == sessions[c].batch
             row(W) == Ledgered(b, Cardinality(W))
         IN  \/ sessions[c].op = "empty" /\ windows' = {} /\ batches' = {}
             \/ /\ b \in Feeds /\ OneCount(b.windows)
                /\ windows' = b.windows /\ batches' = {row(b.windows)}
             \/ /\ b \in Feeds /\ OneCount(windows \cup b.windows)
                /\ \A x \in batches : x.id # b.id
                /\ windows' = windows \cup b.windows
                /\ batches' = batches \cup {row(b.windows \ windows)}
  <1> DEFINE t == sessions[c]
  <1>1. t \in Transaction /\ t.pc = "committing" /\ TxOK(c)
    BY OpenTransaction, Zenon DEF Commit, FeedInv
  <1>2. CASE t.op = "empty"
    <2>1. t.delWindows = windows /\ t.delBatches = batches /\ t.addWindows = {}
      BY <1>1, <1>2 DEF TxOK
    <2>2. QED
      BY <1>2, <2>1 DEF Commit
  <1>3. CASE t.op = "replace"
    <2>1. /\ t.delWindows = windows /\ t.delBatches = batches
          /\ t.addWindows = t.batch.windows \ (windows \ windows)
          /\ t.batch \in Feeds /\ OneCount(t.batch.windows)
      BY <1>1, <1>3 DEF TxOK
    <2>2. t.addWindows = t.batch.windows
      BY <2>1
    <2>3. QED
      BY <1>3, <2>1, <2>2, Zenon DEF Commit
  <1>4. CASE t.op = "ingest"
    <2>1. /\ t.delWindows = {} /\ t.delBatches = {}
          /\ t.addWindows = t.batch.windows \ windows
          /\ OneCount(windows \cup t.batch.windows)
          /\ t.batch \in Feeds /\ \A x \in batches : x.id # t.batch.id
      <3>1. t.delWindows = {} /\ t.delBatches = {} /\ windows \ {} = windows
        BY <1>1, <1>4 DEF TxOK
      <3>2. QED
        BY <1>1, <1>4, <3>1 DEF TxOK
    <2>2. QED
      BY <1>4, <2>1 DEF Commit
  <1>5. QED
    BY <1>1, <1>2, <1>3, <1>4, Zenon DEF Transaction

\* A commit keeps tables and ledger in agreement, and nobody else had begun.
LEMMA CommitKeeps ==
  ASSUME FeedInv, NEW c \in Session, Commit(c)
  PROVE  FeedInv'
  <1> DEFINE t == sessions[c]
             b == t.batch
  <1>1. t.pc = "committing" /\ scope = c
    BY Zenon DEF Commit, FeedInv, TxOK
  <1>2. sessions' = [sessions EXCEPT ![c] = NoRequest] /\ scope' = NoSession
    BY <1>1 DEF Commit, Unlock
  <1>3. ASSUME NEW d \in Session
        PROVE  TxOK(d)'
    <2>1. CASE d = c
      <3>1. sessions'[d] = NoRequest
        BY <1>2, <2>1 DEF FeedInv, FeedTypeOK
      <3>2. QED
        BY <3>1, NothingOpen
    <2>2. CASE d # c
      <3>1. sessions'[d] = sessions[d]
        BY <1>2, <2>2 DEF FeedInv, FeedTypeOK
      <3>2. sessions[d].pc \in {"idle", "begun"} /\ TxOK(d)
        BY <1>1, <2>2 DEF FeedInv, TxOK
      <3>3. QED
        BY <3>1, <3>2, Undisturbed
    <2>3. QED
      BY <2>1, <2>2
  <1>4. b \in Feeds =>
          /\ b.windows \subseteq Window /\ IsFiniteSet(b.windows) /\ b.id \in BatchID
          /\ IsFiniteSet(b.windows \ windows)
    BY TrafficAssumption, FS_Difference, Zenon DEF FeedBatch
  <1> DEFINE row(W) == Ledgered(b, Cardinality(W))
  <1>5. ASSUME NEW W \in {b.windows, b.windows \ windows}, b \in Feeds
        PROVE  /\ Cardinality(W) \in Nat /\ row(W) \in LedgerRow
               /\ row(W).id = b.id /\ row(W).content = b.windows
               /\ row(W).inserted = Cardinality(W)
    <2>1. Cardinality(W) \in Nat
      BY <1>4, <1>5, FS_CardinalityType, Zenon
    <2>2. QED
      BY <1>4, <1>5, <2>1 DEF Ledgered, LedgerRow
  <1> DEFINE OKAfter ==
               /\ windows' \subseteq Window /\ IsFiniteSet(windows')
               /\ batches' \subseteq LedgerRow /\ IsFiniteSet(batches')
               /\ CountedOnce' /\ IsFiniteSet(Inserted')
  <1>6. CASE windows' = {} /\ batches' = {}
    <2>1. Inserted' = {}
      BY <1>6 DEF Inserted
    <2>2. OKAfter
      BY <1>6, <2>1, FS_EmptySet DEF CountedOnce
    <2>3. QED
      BY <1>2, <1>3, <2>2 DEF FeedInv, FeedTypeOK
  <1>7. CASE /\ b \in Feeds /\ OneCount(b.windows)
             /\ windows' = b.windows /\ batches' = {row(b.windows)}
    <2> DEFINE x == row(b.windows)
    <2>1. Inserted' = {x} \X (1..x.inserted)
      BY <1>7 DEF Inserted
    <2>2. /\ x \in LedgerRow /\ x.content = b.windows
          /\ x.inserted = Cardinality(b.windows) /\ x.inserted \in Nat
      BY <1>5, <1>7
    <2>3. IsFiniteSet(Inserted') /\ Cardinality(Inserted') = Cardinality(windows')
      BY <1>7, <2>1, <2>2, RowSize
    <2>4. IsFiniteSet(batches') /\ batches' = {x}
      BY <1>7, FS_Singleton, Zenon
    <2>5. CountedOnce'
      <3> HIDE DEF x
      <3>1. windows' = UNION {y.content : y \in batches'}
        BY <1>7, <2>2, <2>4
      <3>2. QED
        BY <1>7, <2>3, <2>4, <3>1 DEF CountedOnce, OneCount, SameCell
    <2>6. OKAfter
      BY <1>4, <1>7, <2>2, <2>3, <2>4, <2>5
    <2>7. QED
      BY <1>2, <1>3, <2>6 DEF FeedInv, FeedTypeOK
  <1>8. CASE /\ b \in Feeds /\ OneCount(windows \cup b.windows)
             /\ \A x \in batches : x.id # b.id
             /\ windows' = windows \cup b.windows
             /\ batches' = batches \cup {row(b.windows \ windows)}
    <2> DEFINE new == b.windows \ windows
               x == row(new)
               block == {x} \X (1..x.inserted)
    <2>1. /\ x \in LedgerRow /\ x.content = b.windows /\ x.id = b.id
          /\ x.inserted = Cardinality(new) /\ x.inserted \in Nat
      BY <1>5, <1>8
    <2>2. x \notin batches /\ batches' = batches \cup {x}
      BY <1>8, <2>1
    <2>3. IsFiniteSet(block) /\ Cardinality(block) = Cardinality(new)
      BY <2>1, RowSize, Zenon
    <2>4. /\ windows \subseteq Window /\ IsFiniteSet(windows) /\ batches \subseteq LedgerRow
          /\ IsFiniteSet(batches) /\ IsFiniteSet(Inserted) /\ CountedOnce
      BY DEF FeedInv, FeedTypeOK
    <2> HIDE DEF x
    <2>5. Inserted' = Inserted \cup block
      BY <2>2 DEF Inserted
    <2>6. Inserted \cap block = {}
      BY <2>2 DEF Inserted
    <2>7. /\ IsFiniteSet(Inserted \cup block)
          /\ Cardinality(Inserted \cup block) = Cardinality(Inserted) + Cardinality(block)
      BY <2>3, <2>4, <2>6, DisjointSize
    <2>8. /\ IsFiniteSet(windows \cup new)
          /\ Cardinality(windows \cup new) = Cardinality(windows) + Cardinality(new)
      BY <1>4, <1>8, <2>4, DisjointSize, Zenon
    <2>9. windows' = windows \cup new
      BY <1>8
    <2>10. IsFiniteSet(batches')
      BY <2>2, <2>4, FS_AddElement
    <2>11. CountedOnce'
      <3>1. windows' = UNION {y.content : y \in batches'}
        BY <1>8, <2>1, <2>2, <2>4 DEF CountedOnce
      <3>2. \A v, w \in windows' : SameCell(v, w) => v = w
        BY <1>8 DEF OneCount
      <3>3. \A y, z \in batches' : y.id = z.id => y = z
        BY <1>8, <2>1, <2>2, <2>4 DEF CountedOnce
      <3>4. Cardinality(Inserted') = Cardinality(windows')
        BY <2>3, <2>4, <2>5, <2>7, <2>8, <2>9 DEF CountedOnce
      <3>5. QED
        BY <3>1, <3>2, <3>3, <3>4 DEF CountedOnce, SameCell
    <2>12. OKAfter
      BY <1>4, <1>8, <2>1, <2>2, <2>4, <2>5, <2>7, <2>8, <2>9, <2>10, <2>11, Zenon
    <2>13. QED
      BY <1>2, <1>3, <2>12 DEF FeedInv, FeedTypeOK
  <1>9. QED
    BY <1>6, <1>7, <1>8, CommitEffect, Zenon

\* The tables start empty and every step keeps them and the transactions in
\* order.
LEMMA FeedInvariant == TrafficSpec => []FeedInv
  <1>1. TrafficInit => FeedInv
    <2> SUFFICES ASSUME TrafficInit PROVE FeedInv
      OBVIOUS
    <2>1. Inserted = {}
      BY DEF TrafficInit, Inserted
    <2>2. FeedTypeOK /\ CountedOnce /\ IsFiniteSet(Inserted)
      BY <2>1, FS_EmptySet DEF TrafficInit, FeedTypeOK, CountedOnce
    <2>3. \A c \in Session : TxOK(c)
      BY DEF TrafficInit, TxOK, NoRequest
    <2>4. QED
      BY <2>2, <2>3 DEF FeedInv
  <1>2. FeedInv /\ [TrafficNext]_trafficVars => FeedInv'
    <2> SUFFICES ASSUME FeedInv, [TrafficNext]_trafficVars PROVE FeedInv'
      OBVIOUS
    <2>1. ASSUME NEW c \in Session,
                 \/ \E op \in {"ingest", "replace"}, b \in Feeds : Begin(c, op, b)
                 \/ Begin(c, "empty", NoBatch)
                 \/ LockScope(c) \/ InsertBatch(c) \/ ClearWindows(c) \/ ClearBatches(c)
                 \/ FillWindows(c)
          PROVE  FeedInv'
      BY <2>1, StatementsStep
    <2>2. ASSUME NEW c \in Session, Commit(c)
          PROVE  FeedInv'
      BY <2>2, CommitKeeps
    <2>3. ASSUME NEW c \in Session, Abandon(c)
          PROVE  FeedInv'
      BY <2>3, RollbackKeeps DEF Abandon
    <2>4. CASE NextHour \/ UNCHANGED trafficVars
      <3>1. UNCHANGED <<windows, batches, scope, sessions>>
        BY <2>4 DEF NextHour, trafficVars
      <3>2. FeedTypeOK' /\ CountedOnce' /\ IsFiniteSet(Inserted)'
        BY <3>1 DEF FeedInv, FeedTypeOK, CountedOnce, Inserted, SameCell
      <3>3. \A c \in Session : TxOK(c)'
        BY <3>1, Undisturbed DEF FeedInv
      <3>4. QED
        BY <3>2, <3>3 DEF FeedInv
    <2>5. QED
      BY <2>1, <2>2, <2>3, <2>4 DEF TrafficNext
  <1>3. QED
    BY <1>1, <1>2, PTL DEF TrafficSpec

\* Whatever imports, replacements, removals and retries overlap, in however
\* many sessions, no observation is counted twice and windows and replay ledger
\* agree (foottraffic.Store: ingest, ReplaceSample, EmptySample).
THEOREM AlwaysCountedOnce == TrafficSpec => []CountedOnce
  <1>1. FeedInv => CountedOnce
    BY DEF FeedInv
  <1>2. QED
    BY <1>1, FeedInvariant, PTL

\* A reader never sees half a replacement: each commit adds a batch, leaves
\* exactly one or leaves nothing.
THEOREM SwapsAlwaysAtomic == TrafficSpec => SwapsAtomic
  <1> DEFINE Atomic ==
        \/ windows \subseteq windows' /\ batches \subseteq batches'
        \/ batches' = {} /\ windows' = {}
        \/ \E x \in batches' : batches' = {x} /\ windows' = x.content
  <1>1. FeedInv /\ [TrafficNext]_trafficVars => [Atomic]_trafficVars
    <2> SUFFICES ASSUME FeedInv, TrafficNext PROVE Atomic
      OBVIOUS
    <2>1. CASE UNCHANGED <<windows, batches>>
      BY <2>1
    <2>2. ASSUME NEW c \in Session, Commit(c)
          PROVE  Atomic
      <3> DEFINE b == sessions[c].batch
      <3>1. ASSUME NEW n, windows' = b.windows, batches' = {Ledgered(b, n)}
            PROVE  Atomic
        <4>1. Ledgered(b, n).content = b.windows
          BY DEF Ledgered
        <4>2. QED
          BY <3>1, <4>1
      <3>2. QED
        BY <2>2, <3>1, CommitEffect, Zenon
    <2>3. QED
      BY <2>1, <2>2, Zenon DEF TrafficNext, Begin, LockScope, InsertBatch, ClearWindows, ClearBatches,
                        FillWindows, Abandon, Rollback, NextHour
  <1>2. QED
    BY <1>1, FeedInvariant, PTL DEF TrafficSpec, SwapsAtomic

\* Replacing a small count by another leaves every cell as it is published.
LEMMA CellHides ==
  ASSUME NEW W, W \subseteq Window, NEW w \in W, w.count < Threshold,
         NEW n \in 0..(Threshold - 1), NEW z, NEW t
  PROVE  CellOf((W \ {w}) \cup {[w EXCEPT !.count = n]}, z, t) = CellOf(W, z, t)
  <1> DEFINE v == [w EXCEPT !.count = n]
             V == (W \ {w}) \cup {v}
             found(U) == {x.count : x \in {x \in U : x.zone = z /\ x.start = t}}
             shown(U) == {k \in found(U) : k >= Threshold}
  <1>1. /\ w.zone = v.zone /\ w.start = v.start /\ v.count = n
        /\ n < Threshold /\ ~(n >= Threshold) /\ ~(w.count >= Threshold)
    BY ReportAssumption DEF Window
  <1>2. shown(V) = shown(W)
    BY <1>1, Zenon
  <1>3. found(V) = {} <=> found(W) = {}
    <2>1. \A U : found(U) = {} <=> ~\E x \in U : x.zone = z /\ x.start = t
      OBVIOUS
    <2>2. (\E x \in V : x.zone = z /\ x.start = t) <=> \E x \in W : x.zone = z /\ x.start = t
      BY <1>1, Zenon
    <2> HIDE DEF V, found
    <2>3. QED
      BY <2>1, <2>2
  <1>4. \A U : CellOf(U, z, t) =
          [status |-> IF found(U) = {} THEN "missing"
                      ELSE IF shown(U) = {} THEN "suppressed" ELSE "reported",
           count |-> shown(U)]
    BY DEF CellOf
  <1> HIDE DEF V, found, shown
  <1>5. CellOf(V, z, t) = CellOf(W, z, t)
    BY <1>2, <1>3, <1>4
  <1>6. QED
    BY <1>5 DEF V

\* The report of any hour (foottraffic.Store.Report) is the same for any small
\* counts: its cells, and all that is computed from them.
THEOREM SmallCountsAlwaysHidden == TrafficSpec => []SmallCountsHidden
  <1>1. FeedInv => SmallCountsHidden
    <2> SUFFICES ASSUME FeedInv, NEW w \in windows, w.count < Threshold,
                        NEW n \in 0..(Threshold - 1)
                 PROVE  Report((windows \ {w}) \cup {[w EXCEPT !.count = n]}) = Report(windows)
      BY DEF SmallCountsHidden
    <2> DEFINE V == (windows \ {w}) \cup {[w EXCEPT !.count = n]}
    <2>1. windows \subseteq Window
      BY DEF FeedInv, FeedTypeOK
    <2>2. \A z, t : CellOf(V, z, t) = CellOf(windows, z, t)
      BY <2>1, CellHides
    <2> HIDE DEF V
    <2>3. \A z : ZoneReport(V, z) = ZoneReport(windows, z)
      BY <2>2 DEF ZoneReport
    <2>4. QED
      BY <2>3 DEF Report, V
  <1>2. QED
    BY <1>1, FeedInvariant, PTL

=============================================================================
