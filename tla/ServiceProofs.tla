--------------------------- MODULE ServiceProofs ----------------------------
(*****************************************************************************)
(* Proofs about the services beside the ledger: the reset of the demo, the   *)
(* admission of receipt batches and the airport catalog.                     *)
(*****************************************************************************)
EXTENDS DemoReset, Admission, AirportCatalog, TLAPS

(* Reset *)

Generation == Nat \cup {None}

Underway ==
  [pc : {"sent", "entered", "resetting", "cleared"}, kind : {"get", "post", "reset"},
   tab : Tab \cup {None}, header : Generation, run : Generation]

AnswerType ==
  [pc : {"answered"}, tab : Tab \cup {None}, generation : Generation, cleared : BOOLEAN]

ServerTypeOK ==
  /\ generation \in Nat /\ announced \in Nat
  /\ gate \in [writer : Request \cup {None}, readers : SUBSET Request]
  /\ operation \in Request \cup {None, "worker"}
  /\ requests \in [Request -> {Free} \cup Underway \cup AnswerType]

Inside(q) == requests[q].pc \in {"entered", "resetting", "cleared"}

\* A request inside the gate is registered there, with a header that is not
\* stale; a reset has the worker's mutex while it works on the database, and
\* only a reset that has committed may differ from what is announced.
GateOK ==
  /\ \A q \in Request : Inside(q) /\ requests[q].kind = "reset" => gate.writer = q
  /\ \A q \in Request : Inside(q) /\ requests[q].kind # "reset" =>
       /\ requests[q].pc = "entered" /\ q \in gate.readers
       /\ requests[q].kind = "post" => requests[q].header \in {None, generation}
  /\ \A q \in Request : requests[q].pc \in {"resetting", "cleared"} => operation = q
  /\ announced # generation => \E q \in Request : requests[q].pc = "cleared"
  /\ armed \in {None, announced}

\* A mutation for a run carries the generation of the run.
SentOK ==
  \A q \in Request : requests[q].pc \in {"sent", "entered"} /\ requests[q].kind = "post" =>
    requests[q].run \in {None, requests[q].header}

ServerInv ==
  /\ ServerTypeOK /\ LocksHeldAtWork /\ GateOK /\ SentOK
  /\ rows \subseteq {generation} /\ job \in {None, generation}

\* A page that is active knows the generation its tab has stored.
PagesInv ==
  /\ pages \in [Tab -> [generation : Generation, run : Generation, active : BOOLEAN]]
  /\ storage \in [Tab -> [generation : Generation, run : Generation]]
  /\ events \in [Tab -> Seq(Nat)]
  /\ \A t \in Tab :
       /\ pages[t].active => /\ pages[t].run \in {None, pages[t].generation}
                             /\ pages[t].generation = storage[t].generation
       /\ storage[t].run \in {None, storage[t].generation}

ResetInv == ServerInv /\ PagesInv

\* The invariant says what the two theorems about resets claim.
LEMMA InvImplies == ResetInv => LocksHeldAtWork /\ NothingStale
  BY ResetAssumption DEF ResetInv, ServerInv, PagesInv, NothingStale, LocksHeldAtWork, GateOK

\* The server sees a request as before, or one outside the gate appears, is
\* answered or disappears.
Alike(q) ==
  \/ /\ requests'[q].pc = requests[q].pc
     /\ requests[q].pc \in {"sent", "entered", "resetting", "cleared"} =>
          /\ requests'[q].kind = requests[q].kind
          /\ requests'[q].header = requests[q].header /\ requests'[q].run = requests[q].run
  \/ ~Inside(q) /\ requests'[q].pc \in {"free", "answered"}
  \/ /\ ~Inside(q) /\ requests'[q].pc = "sent"
     /\ requests'[q].kind = "post" => requests'[q].run \in {None, requests'[q].header}

\* What happens to requests on their way does not touch the server's order.
LEMMA ServerUntouched ==
  ASSUME ServerInv, UNCHANGED <<generation, rows, announced, gate, operation, job, armed>>,
         requests' \in [Request -> {Free} \cup Underway \cup AnswerType],
         \A q \in Request : Alike(q)
  PROVE  ServerInv'
  <1>1. ServerTypeOK'
    BY DEF ServerInv, ServerTypeOK
  <1>2. \A q \in Request : Inside(q) => /\ requests'[q].pc = requests[q].pc
                                       /\ requests'[q].kind = requests[q].kind
                                       /\ requests'[q].header = requests[q].header
    BY DEF Alike, Inside
  <1>3. \A q \in Request : Inside(q)' => Inside(q)
    BY DEF Alike, Inside
  <1>4. LocksHeldAtWork'
    BY <1>2 DEF ServerInv, ServerTypeOK, LocksHeldAtWork, Inside
  <1>5. GateOK'
    BY <1>2, <1>3 DEF ServerInv, GateOK, Inside
  <1>6. SentOK'
    BY DEF ServerInv, SentOK, Alike
  <1>7. QED
    BY <1>1, <1>4, <1>5, <1>6 DEF ServerInv

\* A reply ends a request; the others are as they were.
LEMMA ReplyTyped ==
  ASSUME ServerTypeOK, NEW q \in Request, requests[q] \in Underway,
         NEW g \in Generation, NEW cleared \in BOOLEAN, Reply(q, g, cleared)
  PROVE  /\ requests' \in [Request -> {Free} \cup Underway \cup AnswerType]
         /\ requests'[q].pc = "answered"
         /\ \A r \in Request \ {q} : requests'[r] = requests[r]
  <1> DEFINE a == [pc |-> "answered", tab |-> requests[q].tab, generation |-> g, cleared |-> cleared]
  <1>1. a \in AnswerType /\ a.pc = "answered"
    BY DEF Underway, AnswerType
  <1>2. requests' = [requests EXCEPT ![q] = a]
    BY DEF Reply
  <1> HIDE DEF a
  <1>3. QED
    BY <1>1, <1>2 DEF ServerTypeOK

\* A request moves on at the server.
LEMMA AdvanceTyped ==
  ASSUME ServerTypeOK, NEW q \in Request, requests[q] \in Underway,
         NEW pc \in {"entered", "resetting", "cleared"}, Advance(q, pc)
  PROVE  /\ requests' \in [Request -> {Free} \cup Underway \cup AnswerType]
         /\ requests'[q].pc = pc /\ requests'[q].kind = requests[q].kind
         /\ requests'[q].header = requests[q].header /\ requests'[q].run = requests[q].run
         /\ \A r \in Request \ {q} : requests'[r] = requests[r]
  <1> DEFINE a == [requests[q] EXCEPT !.pc = pc]
  <1>1. /\ a \in Underway /\ a.pc = pc /\ a.kind = requests[q].kind
        /\ a.header = requests[q].header /\ a.run = requests[q].run
    BY DEF Underway
  <1>2. requests' = [requests EXCEPT ![q] = a]
    BY DEF Advance
  <1> HIDE DEF a
  <1>3. QED
    BY <1>1, <1>2 DEF ServerTypeOK

\* A request that is neither free nor answered has all its fields.
LEMMA UnderwayFields ==
  ASSUME ServerTypeOK, NEW q \in Request, requests[q].pc \notin {"free", "answered"}
  PROVE  requests[q] \in Underway
  BY DEF ServerTypeOK, Free, AnswerType

\* Every step of the server keeps the gate, the mutex and the generations in
\* order.
LEMMA ServerSteps ==
  ASSUME ServerInv, NEW q \in Request,
         \/ Refuse(q) \/ Enter(q) \/ Serve(q)
         \/ BeginReset(q) \/ CommitReset(q) \/ FailReset(q) \/ FinishReset(q)
  PROVE  ServerInv'
  <1>0. /\ ServerTypeOK /\ LocksHeldAtWork /\ GateOK /\ SentOK
        /\ None \notin Request /\ None # "worker" /\ None \notin Nat /\ "worker" \notin Request
        /\ announced \in Nat /\ generation \in Nat
    BY ResetAssumption DEF ServerInv, ServerTypeOK
  <1>1. requests[q] \in Underway
    BY <1>0, UnderwayFields, Zenon DEF Refuse, Enter, Serve, BeginReset, CommitReset, FailReset, FinishReset
  <1>2. announced \in Generation /\ generation \in Generation /\ None \in Generation
    BY <1>0 DEF Generation
  <1>3. CASE Refuse(q)
    <2>1. /\ requests' \in [Request -> {Free} \cup Underway \cup AnswerType]
          /\ requests'[q].pc = "answered" /\ \A r \in Request \ {q} : requests'[r] = requests[r]
      BY <1>0, <1>1, <1>2, <1>3, ReplyTyped, Zenon DEF Refuse
    <2>2. \A r \in Request : Alike(r)
      BY <1>3, <2>1 DEF Alike, Inside, Refuse
    <2>3. QED
      BY <1>3, <2>1, <2>2, ServerUntouched DEF Refuse
  <1>4. CASE Enter(q) /\ Stale(q)
    <2>1. Reply(q, announced, FALSE) /\ UNCHANGED gate /\ requests[q].pc = "sent"
      BY <1>4, Zenon DEF Enter
    <2>2. /\ requests' \in [Request -> {Free} \cup Underway \cup AnswerType]
          /\ requests'[q].pc = "answered" /\ \A r \in Request \ {q} : requests'[r] = requests[r]
      BY <1>0, <1>1, <1>2, <2>1, ReplyTyped, Zenon
    <2>3. \A r \in Request : Alike(r)
      BY <2>1, <2>2 DEF Alike, Inside
    <2>4. QED
      BY <1>4, <2>1, <2>2, <2>3, ServerUntouched DEF Enter
  <1>5. CASE Enter(q) /\ ~Stale(q)
    <2>1. /\ requests[q].pc = "sent" /\ gate.writer = None
          /\ requests[q].kind = "reset" => gate.readers = {}
          /\ Advance(q, "entered")
          /\ gate' = IF requests[q].kind = "reset"
                     THEN [gate EXCEPT !.writer = q] ELSE [gate EXCEPT !.readers = @ \cup {q}]
          /\ UNCHANGED <<generation, rows, announced, operation, job, armed>>
      BY <1>5 DEF Enter, Admit
    <2>2. /\ requests' \in [Request -> {Free} \cup Underway \cup AnswerType]
          /\ requests'[q].pc = "entered" /\ requests'[q].kind = requests[q].kind
          /\ requests'[q].header = requests[q].header /\ requests'[q].run = requests[q].run
          /\ \A r \in Request \ {q} : requests'[r] = requests[r]
      BY <1>0, <1>1, <2>1, AdvanceTyped
    <2>3. requests[q].kind # "get" => requests[q].header \in {None, announced}
      BY <1>5 DEF Stale
    <2>4. announced = generation
      BY <1>0, <2>1 DEF LocksHeldAtWork
    <2>5. /\ gate' \in [writer : Request \cup {None}, readers : SUBSET Request]
          /\ requests[q].kind = "reset" => gate'.writer = q /\ gate'.readers = {}
          /\ requests[q].kind # "reset" =>
               gate'.writer = None /\ gate'.readers = gate.readers \cup {q}
      BY <1>0, <2>1 DEF ServerTypeOK
    <2>6. ServerTypeOK'
      BY <1>0, <2>1, <2>2, <2>5 DEF ServerTypeOK
    <2>7. LocksHeldAtWork'
      BY <1>0, <2>1, <2>2, <2>4, <2>5 DEF LocksHeldAtWork
    <2>8. GateOK'
      BY <1>0, <2>1, <2>2, <2>3, <2>4, <2>5 DEF GateOK, Inside, LocksHeldAtWork
    <2>9. SentOK'
      BY <1>0, <2>1, <2>2 DEF SentOK
    <2>10. QED
      BY <2>1, <2>6, <2>7, <2>8, <2>9 DEF ServerInv
  <1>6. CASE Serve(q)
    <2>1. /\ requests[q].pc = "entered" /\ requests[q].kind # "reset" /\ q \in gate.readers
          /\ gate.writer = None /\ announced = generation
          /\ Reply(q, announced, FALSE) /\ Leave(q)
          /\ UNCHANGED <<generation, announced, operation, job>>
      BY <1>0, <1>6, Zenon DEF Serve, GateOK, Inside, LocksHeldAtWork
    <2>2. /\ requests' \in [Request -> {Free} \cup Underway \cup AnswerType]
          /\ requests'[q].pc = "answered" /\ \A r \in Request \ {q} : requests'[r] = requests[r]
      BY <1>0, <1>1, <1>2, <2>1, ReplyTyped, Zenon
    <2>3. requests[q].kind = "post" => MadeFor(q) = generation
      BY <1>0, <2>1 DEF GateOK, SentOK, Inside, MadeFor
    <2>4. rows' \subseteq {generation} /\ armed' \in {None, announced}
      BY <1>0, <1>6, <2>1, <2>3, Zenon DEF Serve, ServerInv, GateOK
    <2>5. /\ gate' \in [writer : Request \cup {None}, readers : SUBSET Request]
          /\ gate'.writer = None /\ gate'.readers = gate.readers \ {q}
      BY <1>0, <2>1 DEF Leave, ServerTypeOK
    <2>6. ServerTypeOK'
      BY <1>0, <2>1, <2>2, <2>5 DEF ServerTypeOK
    <2>7. LocksHeldAtWork'
      BY <1>0, <2>1, <2>2, <2>5 DEF LocksHeldAtWork
    <2>8. GateOK'
      BY <1>0, <2>1, <2>2, <2>4, <2>5 DEF GateOK, Inside
    <2>9. SentOK'
      BY <1>0, <2>1, <2>2 DEF SentOK
    <2>10. QED
      BY <2>1, <2>4, <2>6, <2>7, <2>8, <2>9 DEF ServerInv
  <1>7. CASE BeginReset(q)
    <2>1. /\ requests[q].pc = "entered" /\ requests[q].kind = "reset" /\ gate.writer = q
          /\ operation = None /\ operation' = q /\ Advance(q, "resetting")
          /\ UNCHANGED <<generation, rows, announced, gate, job, armed>>
      BY <1>0, <1>7 DEF BeginReset, GateOK, Inside
    <2>2. /\ requests' \in [Request -> {Free} \cup Underway \cup AnswerType]
          /\ requests'[q].pc = "resetting" /\ requests'[q].kind = requests[q].kind
          /\ \A r \in Request \ {q} : requests'[r] = requests[r]
      BY <1>0, <1>1, <2>1, AdvanceTyped
    <2>3. ServerTypeOK'
      BY <1>0, <2>1, <2>2 DEF ServerTypeOK
    <2>4. LocksHeldAtWork'
      BY <1>0, <2>1, <2>2 DEF LocksHeldAtWork
    <2>5. GateOK'
      BY <1>0, <2>1, <2>2 DEF GateOK, Inside
    <2>6. SentOK'
      BY <1>0, <2>1, <2>2 DEF SentOK
    <2>7. QED
      BY <2>1, <2>3, <2>4, <2>5, <2>6 DEF ServerInv
  <1>8. CASE CommitReset(q)
    <2>1. /\ requests[q].pc = "resetting" /\ operation = q /\ requests[q].kind = "reset"
          /\ gate.writer = q /\ gate.readers = {} /\ job = None
      BY <1>0, <1>8 DEF CommitReset, GateOK, Inside, LocksHeldAtWork
    <2>2. /\ generation' = generation + 1 /\ rows' = {} /\ Advance(q, "cleared")
          /\ UNCHANGED <<announced, gate, operation, job, armed>>
      BY <1>8 DEF CommitReset
    <2>3. /\ requests' \in [Request -> {Free} \cup Underway \cup AnswerType]
          /\ requests'[q].pc = "cleared" /\ requests'[q].kind = requests[q].kind
          /\ \A r \in Request \ {q} : requests'[r] = requests[r]
      BY <1>0, <1>1, <2>2, AdvanceTyped
    <2>4. ServerTypeOK'
      BY <1>0, <2>2, <2>3 DEF ServerTypeOK
    <2>5. LocksHeldAtWork'
      BY <1>0, <2>1, <2>2, <2>3 DEF LocksHeldAtWork
    <2>6. GateOK'
      BY <1>0, <2>1, <2>2, <2>3 DEF GateOK, Inside
    <2>7. SentOK'
      BY <1>0, <2>1, <2>3 DEF SentOK
    <2>8. QED
      BY <2>1, <2>2, <2>4, <2>5, <2>6, <2>7 DEF ServerInv
  <1>9. CASE FailReset(q) \/ FinishReset(q)
    <2>1. /\ requests[q].pc \in {"resetting", "cleared"} /\ operation = q
          /\ requests[q].kind = "reset" /\ gate.writer = q /\ gate.readers = {} /\ job = None
      BY <1>0, <1>9, Zenon DEF FailReset, FinishReset, GateOK, Inside, LocksHeldAtWork
    <2>2. \A r \in Request \ {q} : requests[r].pc \notin {"entered", "resetting", "cleared"}
      BY <1>0, <2>1 DEF GateOK, Inside
    <2>3. /\ operation' = None /\ Leave(q) /\ UNCHANGED <<generation, rows, job>>
          /\ \E g \in Generation, cleared \in BOOLEAN : Reply(q, g, cleared)
      BY <1>2, <1>9, Zenon DEF FailReset, FinishReset
    <2>4. announced' = generation' /\ armed' \in {None, announced'}
      BY <1>0, <1>9, <2>2, Zenon DEF FailReset, FinishReset, GateOK
    <2>5. /\ requests' \in [Request -> {Free} \cup Underway \cup AnswerType]
          /\ requests'[q].pc = "answered" /\ \A r \in Request \ {q} : requests'[r] = requests[r]
      BY <1>0, <1>1, <2>3, ReplyTyped
    <2>6. gate' = [writer |-> None, readers |-> {}]
      BY <2>1, <2>3 DEF Leave
    <2>7. ServerTypeOK'
      BY <1>0, <2>3, <2>4, <2>5, <2>6 DEF ServerTypeOK
    <2>8. LocksHeldAtWork'
      BY <1>0, <2>1, <2>3, <2>4, <2>6 DEF LocksHeldAtWork
    <2>9. GateOK'
      BY <1>0, <2>2, <2>4, <2>5 DEF GateOK, Inside
    <2>10. SentOK'
      BY <1>0, <2>5 DEF SentOK
    <2>11. QED
      BY <2>3, <2>7, <2>8, <2>9, <2>10 DEF ServerInv
  <1>10. QED
    BY <1>3, <1>4, <1>5, <1>6, <1>7, <1>8, <1>9, Zenon

\* The worker's steps and a restart keep it too.
LEMMA WorkerSteps ==
  ASSUME ServerInv, BeginWork \/ EndWork \/ Crash
  PROVE  ServerInv'
  <1>0. /\ ServerTypeOK /\ LocksHeldAtWork /\ GateOK /\ SentOK
        /\ rows \subseteq {generation} /\ job \in {None, generation}
        /\ None \notin Request /\ None # "worker" /\ None \notin Nat /\ "worker" \notin Request
    BY ResetAssumption DEF ServerInv
  <1>1. CASE BeginWork \/ EndWork
    <2>1. /\ UNCHANGED <<generation, announced, gate, requests>>
          /\ rows' \subseteq {generation} /\ job' \in {None, generation}
          /\ armed' \in {armed, None}
      BY <1>0, <1>1 DEF BeginWork, EndWork
    <2>2. \/ operation = None /\ operation' = "worker" /\ job' # None
          \/ operation = "worker" /\ operation' = None /\ job' = None
      <3>1. CASE BeginWork
        BY <1>0, <3>1, Zenon DEF BeginWork, ServerTypeOK
      <3>2. CASE EndWork
        BY <1>0, <3>2 DEF EndWork, LocksHeldAtWork
      <3>3. QED
        BY <1>1, <3>1, <3>2
    <2>3. ServerTypeOK'
      BY <1>0, <2>1, <2>2 DEF ServerTypeOK
    <2>4. LocksHeldAtWork'
      BY <1>0, <2>1, <2>2 DEF LocksHeldAtWork
    <2>5. GateOK'
      BY <1>0, <2>1, <2>2 DEF GateOK, Inside
    <2>6. QED
      BY <1>0, <2>1, <2>3, <2>4, <2>5 DEF ServerInv, SentOK
  <1>2. CASE Crash
    <2>1. \A q \in Request : \/ requests'[q] = requests[q] /\ requests[q].pc \in {"sent", "answered"}
                             \/ requests'[q] = Free
      BY <1>0, <1>2 DEF Crash, Surviving, ServerTypeOK
    <2>2. \A q \in Request : ~Inside(q)'
      BY <2>1 DEF Inside, Free
    <2>3. requests' \in [Request -> {Free} \cup Underway \cup AnswerType]
      BY <1>0, <1>2 DEF Crash, Surviving, ServerTypeOK
    <2>4. ServerTypeOK'
      BY <1>0, <1>2, <2>3 DEF Crash, ServerTypeOK
    <2>5. LocksHeldAtWork'
      BY <1>0, <1>2 DEF Crash, LocksHeldAtWork
    <2>6. GateOK'
      BY <1>0, <1>2, <2>2 DEF Crash, GateOK, Inside
    <2>7. SentOK'
      BY <1>0, <2>1 DEF SentOK, Free
    <2>8. QED
      BY <1>0, <1>2, <2>4, <2>5, <2>6, <2>7 DEF Crash, ServerInv
  <1>3. QED
    BY <1>1, <1>2, Zenon

\* So does what pages and the network do to requests.
LEMMA NetworkSteps ==
  ASSUME ResetInv,
         \/ \E q \in Request :
              \/ Receive(q) \/ LoseAnswer(q)
              \/ \E t \in Tab, kind \in {"get", "post", "reset"} : Send(t, q, kind)
         \/ \E t \in Tab : StartRun(t) \/ Notice(t) \/ Save(t) \/ Reload(t) \/ Revisit(t)
  PROVE  ServerInv'
  <1>0. ServerInv /\ PagesInv /\ ServerTypeOK
    BY DEF ResetInv, ServerInv
  <1>1. UNCHANGED <<generation, rows, announced, gate, operation, job, armed>>
    BY Zenon DEF Receive, LoseAnswer, Send, StartRun, Notice, Save, Reload, Revisit, serverVars
  <1> DEFINE Record == {Free} \cup Underway \cup AnswerType
  <1>2. SUFFICES requests' \in [Request -> Record] /\ \A r \in Request : Alike(r)
    BY <1>0, <1>1, ServerUntouched
  <1>3. ASSUME NEW q \in Request, Receive(q) PROVE <1>2!1
    <2>1. requests' = [requests EXCEPT ![q] = Free] /\ requests[q].pc = "answered"
      BY <1>3 DEF Receive
    <2>2. QED
      BY <1>0, <2>1 DEF ServerTypeOK, Alike, Inside, Free
  <1>4. ASSUME NEW q \in Request, LoseAnswer(q) PROVE <1>2!1
    <2>1. CASE requests[q].pc = "answered"
      <3>1. requests' = [requests EXCEPT ![q] = Free]
        BY <1>4, <2>1 DEF LoseAnswer
      <3>2. QED
        BY <1>0, <2>1, <3>1 DEF ServerTypeOK, Alike, Inside, Free
    <2>2. CASE requests[q].pc # "answered"
      <3> DEFINE a == [requests[q] EXCEPT !.tab = None]
      <3>1. requests' = [requests EXCEPT ![q] = a]
        BY <1>4, <2>2 DEF LoseAnswer
      <3>2. requests[q] \in Underway
        BY <1>0, <1>4, <2>2, UnderwayFields DEF LoseAnswer
      <3>3. /\ a \in Underway /\ a.pc = requests[q].pc /\ a.kind = requests[q].kind
            /\ a.header = requests[q].header /\ a.run = requests[q].run
        BY <3>2 DEF Underway
      <3> HIDE DEF a
      <3>4. QED
        BY <1>0, <3>1, <3>3 DEF ServerTypeOK, Alike
    <2>3. QED
      BY <2>1, <2>2, Zenon
  <1>5. ASSUME NEW q \in Request, NEW t \in Tab, NEW kind \in {"get", "post", "reset"},
               Send(t, q, kind)
        PROVE  <1>2!1
    <2> DEFINE a == [pc |-> "sent", kind |-> kind, tab |-> t, header |-> pages[t].generation,
                     run |-> IF kind = "post" THEN pages[t].run ELSE None]
    <2>1. requests' = [requests EXCEPT ![q] = a] /\ requests[q].pc = "free" /\ pages[t].active
      BY <1>5 DEF Send, Free
    <2>2. a \in Underway
      BY <1>0 DEF Underway, Generation, PagesInv
    <2>3. a.pc = "sent" /\ (a.kind = "post" => a.run \in {None, a.header})
      BY <1>0, <2>1 DEF PagesInv
    <2> HIDE DEF a
    <2>4. QED
      BY <1>0, <2>1, <2>2, <2>3 DEF ServerTypeOK, Alike, Inside
  <1>6. ASSUME NEW t \in Tab, Reload(t) \/ Revisit(t) PROVE <1>2!1
    <2> DEFINE a(q) == [requests[q] EXCEPT !.tab = None]
               Left(q) == requests[q].pc # "free" /\ requests[q].tab = t
    <2>1. requests' = [q \in Request |-> IF Left(q) THEN a(q) ELSE requests[q]]
      BY <1>6 DEF Reload, Revisit, Open
    <2>2. ASSUME NEW q \in Request, Left(q)
          PROVE  a(q) \in Record /\ a(q).pc = requests[q].pc
                 /\ (a(q).pc # "answered" =>
                       /\ a(q).kind = requests[q].kind /\ a(q).header = requests[q].header
                       /\ a(q).run = requests[q].run)
      <3>1. CASE requests[q] \in Underway
        BY <3>1 DEF Underway
      <3>2. CASE requests[q] \in AnswerType
        BY <3>2 DEF AnswerType
      <3>3. QED
        BY <1>0, <2>2, <3>1, <3>2 DEF ServerTypeOK, Free
    <2> HIDE DEF a, Left
    <2>3. \A q \in Request : requests[q] \in Record
      BY <1>0 DEF ServerTypeOK
    <2>4. QED
      BY <2>1, <2>2, <2>3 DEF Alike
  <1>7. ASSUME NEW t \in Tab, StartRun(t) \/ Notice(t) \/ Save(t) PROVE <1>2!1
    BY <1>0, <1>7 DEF StartRun, Notice, Save, ServerTypeOK, Alike
  <1>8. QED
    BY <1>3, <1>4, <1>5, <1>6, <1>7

\* One tab's document and storage change together, and stay in agreement.
LEMMA TabStep ==
  ASSUME PagesInv, NEW t \in Tab,
         NEW p \in [generation : Generation, run : Generation, active : BOOLEAN],
         NEW s \in [generation : Generation, run : Generation],
         pages' = [pages EXCEPT ![t] = p], storage' = [storage EXCEPT ![t] = s],
         events' \in [Tab -> Seq(Nat)],
         p.active => p.run \in {None, p.generation} /\ p.generation = s.generation,
         s.run \in {None, s.generation}
  PROVE  PagesInv'
  BY Zenon DEF PagesInv

\* An invalidated page keeps nothing of the generation before.
LEMMA DiscardKeeps ==
  ASSUME PagesInv, NEW t \in Tab, NEW g \in Nat, Discard(t, g), events' \in [Tab -> Seq(Nat)]
  PROVE  PagesInv'
  <1> DEFINE p == [pages[t] EXCEPT !.generation = g, !.active = FALSE]
             s == [generation |-> g, run |-> None]
  <1>1. pages' = [pages EXCEPT ![t] = p] /\ storage' = [storage EXCEPT ![t] = s]
    BY Zenon DEF Discard, PagesInv
  <1>2. /\ p \in [generation : Generation, run : Generation, active : BOOLEAN] /\ ~p.active
        /\ s \in [generation : Generation, run : Generation] /\ s.run = None
    BY Zenon DEF PagesInv, Generation
  <1> HIDE DEF p, s
  <1>3. QED
    BY <1>1, <1>2, TabStep, Zenon

\* An answer that reaches its page.
LEMMA ReceiveKeeps ==
  ASSUME ResetInv, NEW q \in Request, Receive(q)
  PROVE  PagesInv'
  <1> DEFINE a == requests[q]
             t == a.tab
             g == a.generation
  <1>0. PagesInv /\ a.pc = "answered"
    BY DEF ResetInv, Receive
  <1>1. a \in AnswerType
    BY <1>0 DEF ResetInv, ServerInv, ServerTypeOK, Free, Underway
  <1>2. CASE t = None \/ g = None \/ ~pages[t].active
    BY <1>0, <1>2, Zenon DEF Receive, PagesInv
  <1>3. CASE ~(t = None \/ g = None \/ ~pages[t].active)
    <2>1. t \in Tab /\ g \in Nat /\ pages[t].active
      BY <1>1, <1>3 DEF AnswerType, Generation
    <2>2. ASSUME NEW broadcast \in BOOLEAN, Invalidate(t, g, broadcast) PROVE PagesInv'
      <3>1. events' \in [Tab -> Seq(Nat)]
        BY <1>0, <2>1, <2>2 DEF Invalidate, PagesInv
      <3>2. QED
        BY <1>0, <2>1, <2>2, <3>1, DiscardKeeps DEF Invalidate
    <2>3. ASSUME pages[t].generation \in {None, g}, Remember(t, g) PROVE PagesInv'
      <3> DEFINE p == [pages[t] EXCEPT !.generation = g]
                 s == [storage[t] EXCEPT !.generation = g]
      <3>1. /\ pages' = [pages EXCEPT ![t] = p] /\ storage' = [storage EXCEPT ![t] = s]
            /\ events' \in [Tab -> Seq(Nat)]
        BY <1>0, <2>1, <2>3 DEF Remember, PagesInv
      <3>2. /\ p \in [generation : Generation, run : Generation, active : BOOLEAN]
            /\ s \in [generation : Generation, run : Generation]
            /\ p.generation = g /\ s.generation = g
            /\ p.run = pages[t].run /\ s.run = storage[t].run
        <4>1. /\ pages[t] \in [generation : Generation, run : Generation, active : BOOLEAN]
              /\ storage[t] \in [generation : Generation, run : Generation]
              /\ g \in Generation
          BY <1>0, <2>1 DEF PagesInv, Generation
        <4>2. QED
          BY <4>1
      <3>3. p.run \in {None, g} /\ s.run \in {None, g}
        BY <1>0, <2>1, <2>3, <3>2 DEF PagesInv
      <3> HIDE DEF p, s
      <3>4. QED
        BY <1>0, <2>1, <3>1, <3>2, <3>3, TabStep, Zenon
    <2>4. \/ \E broadcast \in BOOLEAN : Invalidate(t, g, broadcast)
          \/ pages[t].generation \in {None, g} /\ Remember(t, g)
      BY <1>3, Zenon DEF Receive
    <2>5. QED
      BY <2>2, <2>3, <2>4
  <1>4. QED
    BY <1>2, <1>3, Zenon

\* What the pages do by themselves.
LEMMA PageSteps ==
  ASSUME PagesInv, NEW t \in Tab,
         StartRun(t) \/ Notice(t) \/ Save(t) \/ Reload(t) \/ Revisit(t)
  PROVE  PagesInv'
  <1>0. /\ pages[t] \in [generation : Generation, run : Generation, active : BOOLEAN]
        /\ storage[t] \in [generation : Generation, run : Generation]
        /\ storage[t].run \in {None, storage[t].generation}
        /\ pages[t].active => /\ pages[t].run \in {None, pages[t].generation}
                              /\ pages[t].generation = storage[t].generation
    BY DEF PagesInv
  <1>1. CASE StartRun(t)
    <2> DEFINE p == [pages[t] EXCEPT !.run = pages[t].generation]
               s == [storage[t] EXCEPT !.run = pages[t].generation]
    <2>1. /\ pages' = [pages EXCEPT ![t] = p] /\ storage' = [storage EXCEPT ![t] = s]
          /\ pages[t].active /\ events' \in [Tab -> Seq(Nat)]
      BY <1>1 DEF StartRun, PagesInv
    <2>2. /\ p \in [generation : Generation, run : Generation, active : BOOLEAN]
          /\ s \in [generation : Generation, run : Generation]
          /\ p.run = p.generation /\ s.run = s.generation /\ p.generation = s.generation
      BY <1>0, <2>1, Zenon
    <2> HIDE DEF p, s
    <2>3. QED
      BY <2>1, <2>2, TabStep, Zenon
  <1>2. CASE Notice(t)
    <2>1. events[t] \in Seq(Nat) /\ events[t] # <<>>
      BY <1>2 DEF Notice, PagesInv
    <2>2. Head(events[t]) \in Nat /\ Tail(events[t]) \in Seq(Nat)
      BY <2>1
    <2>3. events' \in [Tab -> Seq(Nat)]
      BY <1>2, <2>2 DEF Notice, PagesInv
    <2>4. CASE Discard(t, Head(events[t]))
      BY <2>2, <2>3, <2>4, DiscardKeeps
    <2>5. CASE UNCHANGED <<pages, storage>>
      BY <2>3, <2>5 DEF PagesInv
    <2>6. QED
      BY <1>2, <2>4, <2>5 DEF Notice
  <1>3. CASE Save(t)
    <2> DEFINE s == [storage[t] EXCEPT !.run = pages[t].run]
    <2>1. /\ pages' = [pages EXCEPT ![t] = pages[t]] /\ storage' = [storage EXCEPT ![t] = s]
          /\ pages[t].active /\ events' \in [Tab -> Seq(Nat)]
      BY <1>3 DEF Save, PagesInv
    <2>2. /\ s \in [generation : Generation, run : Generation]
          /\ s.run = pages[t].run /\ s.generation = pages[t].generation
      BY <1>0, <2>1, Zenon
    <2> HIDE DEF s
    <2>3. QED
      BY <1>0, <2>1, <2>2, TabStep, Zenon
  <1>4. CASE Reload(t) \/ Revisit(t)
    <2> DEFINE p == Page(storage[t])
    <2>1. /\ pages' = [pages EXCEPT ![t] = p] /\ storage' = [storage EXCEPT ![t] = storage[t]]
          /\ events' \in [Tab -> Seq(Nat)]
      BY <1>4 DEF Reload, Revisit, Open, PagesInv
    <2>2. /\ p \in [generation : Generation, run : Generation, active : BOOLEAN]
          /\ p.run = storage[t].run /\ p.generation = storage[t].generation
      BY <1>0 DEF Page
    <2> HIDE DEF p
    <2>3. QED
      BY <1>0, <2>1, <2>2, TabStep, Zenon
  <1>5. QED
    BY <1>1, <1>2, <1>3, <1>4, Zenon

\* ResetInv is inductive.
LEMMA ResetInvariant == ResetSpec => []ResetInv
  <1>1. ResetInit => ResetInv
    <2> SUFFICES ASSUME ResetInit PROVE ResetInv
      OBVIOUS
    <2>1. ServerTypeOK /\ LocksHeldAtWork
      BY ResetAssumption DEF ResetInit, ServerTypeOK, LocksHeldAtWork, Free
    <2>2. GateOK /\ SentOK
      BY DEF ResetInit, GateOK, SentOK, Inside, Free
    <2>3. PagesInv
      BY DEF ResetInit, PagesInv, Page, NoStorage, Generation
    <2>4. QED
      BY <2>1, <2>2, <2>3 DEF ResetInit, ResetInv, ServerInv
  <1>2. ResetInv /\ [ResetNext]_resetVars => ResetInv'
    <2> SUFFICES ASSUME ResetInv, [ResetNext]_resetVars PROVE ServerInv' /\ PagesInv'
      BY DEF ResetInv
    <2>0. ServerInv /\ PagesInv
      BY DEF ResetInv
    <2>1. ASSUME NEW q \in Request,
                 \/ Refuse(q) \/ Enter(q) \/ Serve(q)
                 \/ BeginReset(q) \/ CommitReset(q) \/ FailReset(q) \/ FinishReset(q)
          PROVE  ServerInv' /\ PagesInv'
      <3>1. UNCHANGED <<pages, storage, events>>
        BY <2>1, Zenon DEF Refuse, Enter, Serve, BeginReset, CommitReset, FailReset, FinishReset
      <3>2. PagesInv'
        BY <2>0, <3>1 DEF PagesInv
      <3>3. QED
        BY <2>0, <2>1, <3>2, ServerSteps
    <2>2. CASE BeginWork \/ EndWork \/ Crash
      <3>1. UNCHANGED <<pages, storage, events>>
        BY <2>2 DEF BeginWork, EndWork, Crash
      <3>2. PagesInv'
        BY <2>0, <3>1 DEF PagesInv
      <3>3. QED
        BY <2>0, <2>2, <3>2, WorkerSteps
    <2>3. ASSUME NEW q \in Request, Receive(q) PROVE ServerInv' /\ PagesInv'
      BY <2>3, ReceiveKeeps, NetworkSteps
    <2>4. ASSUME NEW q \in Request,
                 LoseAnswer(q) \/ \E t \in Tab, kind \in {"get", "post", "reset"} : Send(t, q, kind)
          PROVE  ServerInv' /\ PagesInv'
      <3>1. UNCHANGED <<pages, storage, events>>
        BY <2>4 DEF LoseAnswer, Send
      <3>2. PagesInv'
        BY <2>0, <3>1 DEF PagesInv
      <3>3. QED
        BY <2>4, <3>2, NetworkSteps
    <2>5. ASSUME NEW t \in Tab, StartRun(t) \/ Notice(t) \/ Save(t) \/ Reload(t) \/ Revisit(t)
          PROVE  ServerInv' /\ PagesInv'
      BY <2>0, <2>5, PageSteps, NetworkSteps
    <2>6. CASE UNCHANGED resetVars
      <3>1. UNCHANGED <<generation, rows, announced, gate, operation, job, armed, requests>>
            /\ UNCHANGED <<pages, storage, events>>
        BY <2>6 DEF resetVars, serverVars
      <3>2. PagesInv'
        BY <2>0, <3>1 DEF PagesInv
      <3>3. QED
        BY <2>0, <3>1, <3>2, ServerUntouched DEF Alike, ServerInv, ServerTypeOK
    <2>7. QED
      BY <2>1, <2>2, <2>3, <2>4, <2>5, <2>6 DEF ResetNext
  <1>3. QED
    BY <1>1, <1>2, PTL DEF ResetSpec

\* The gate and the worker's mutex are held only by requests that are being
\* served and by the worker at work, whatever fails, is lost or crashes.
THEOREM LocksAlwaysHeldAtWork == ResetSpec => []LocksHeldAtWork
  BY ResetInvariant, InvImplies, PTL

\* Nothing of an earlier generation survives a reset or comes back after it.
THEOREM NeverAnythingStale == ResetSpec => []NothingStale
  BY ResetInvariant, InvImplies, PTL

-----------------------------------------------------------------------------
(* Batches *)

CallState == {"ready", "waiting", "finished", "charged", "serving", "writing", "answering"}

CallType == [pc : CallState, paid : Nat, results : Seq(Results)]

\* A request has its results only while it writes and answers; while it writes
\* the tokens it has left suffice for the items it has left, and its answer
\* has a result for each item.
CallOK(c) ==
  /\ calls[c].pc \notin {"writing", "answering"} => calls[c].results = <<>>
  /\ calls[c].pc = "writing" => /\ Len(calls[c].results) <= Items(c)
                                /\ calls[c].paid >= Items(c) - Len(calls[c].results)
  /\ calls[c].pc = "answering" => Len(calls[c].results) = Items(c)

Busy == {c \in Client : calls[c].pc \in {"serving", "writing"}}

ServingOK ==
  /\ tokens \in 0..Burst
  /\ calls \in [Client -> CallType] /\ \A c \in Client : CallOK(c)
  /\ slots = Cardinality(Busy) /\ slots <= Slots
  /\ mishaps \in 0..MaxMishaps

\* Item i of client c is answered as newly accepted.
New(c, i) == i \in DOMAIN calls[c].results /\ calls[c].results[i] = "fresh"

\* One answer, read or not, says of a receipt that it is new, and it is stored.
CreditOK ==
  /\ accepted \subseteq Receipt
  /\ \A r, q \in accepted : r.event = q.event => r = q
  /\ credited \in [Receipt -> {0, 1}]
  /\ \A r \in Receipt : credited[r] = 1 => r \in accepted
  /\ \A c \in Client, i \in Nat : New(c, i) =>
       Load[c][i] \in accepted /\ credited[Load[c][i]] = 0
  /\ \A c, d \in Client, i, j \in Nat :
       New(c, i) /\ New(d, j) /\ Load[c][i] = Load[d][j] => c = d /\ i = j

AdmissionInv == ServingOK /\ CreditOK

\* The invariant says what the theorem about batches claims.
LEMMA AdmissionImplies == AdmissionInv => CreditedOnce
  <1> SUFFICES ASSUME AdmissionInv PROVE CreditedOnce
    OBVIOUS
  <1>1. ASSUME NEW c \in Client
        PROVE  /\ calls[c].pc \in Resting \cup {"charged", "serving", "writing", "answering"}
               /\ calls[c].results \in Seq(Results) /\ calls[c].paid \in Int
               /\ Len(calls[c].results) <= Len(Load[c]) /\ calls[c].paid >= 0
    <2>1. calls[c] \in CallType /\ CallOK(c)
      BY DEF AdmissionInv, ServingOK
    <2>2. Len(calls[c].results) \in Nat /\ Len(Load[c]) \in Nat /\ Len(<<>>) = 0
      BY <2>1, AdmissionAssumption DEF CallType
    <2>3. Len(calls[c].results) <= Len(Load[c])
      <3>1. CASE calls[c].pc \in {"writing", "answering"}
        <4>1. Items(c) = Len(Load[c])
          BY DEF Items
        <4>2. Len(calls[c].results) <= Items(c) \/ Len(calls[c].results) = Items(c)
          BY <2>1, <3>1 DEF CallOK
        <4>3. QED
          BY <2>2, <4>1, <4>2
      <3>2. CASE calls[c].pc \notin {"writing", "answering"}
        <4>1. calls[c].results = <<>>
          BY <2>1, <3>2 DEF CallOK
        <4>2. QED
          BY <2>2, <4>1
      <3>3. QED
        BY <3>1, <3>2, Zenon
    <2>4. QED
      BY <2>1, <2>3 DEF CallType, CallState, Resting
  <1>2. credited \in [Receipt -> Nat] /\ \A r \in Receipt : credited[r] <= 1
    BY DEF AdmissionInv, CreditOK
  <1>3. QED
    BY <1>1, <1>2 DEF AdmissionInv, ServingOK, CreditOK, CreditedOnce, AdmissionTypeOK, Busy

\* What the proofs use of the sizes of finite sets.
Sizes ==
  /\ Cardinality({}) = 0 /\ \A x : Cardinality({x}) = 1
  /\ \A S \in SUBSET Client : Cardinality(S) \in Nat
  /\ \A S \in SUBSET Client, x \in Client :
       /\ x \in S => Cardinality(S \ {x}) = Cardinality(S) - 1
       /\ x \notin S => Cardinality(S \cup {x}) = Cardinality(S) + 1

\* The length of a client's list.
LEMMA ItemsPositive == ASSUME NEW c \in Client PROVE Items(c) \in Nat /\ Items(c) >= 1
  BY AdmissionAssumption DEF Items

\* A request of one client changes.
LEMMA CallStep ==
  ASSUME ServingOK, NEW c \in Client, NEW a \in CallType, calls' = [calls EXCEPT ![c] = a],
         a.pc \notin {"writing", "answering"} => a.results = <<>>,
         a.pc = "writing" => Len(a.results) <= Items(c) /\ a.paid >= Items(c) - Len(a.results),
         a.pc = "answering" => Len(a.results) = Items(c)
  PROVE  /\ calls' \in [Client -> CallType] /\ \A d \in Client : CallOK(d)'
         /\ Busy' = IF a.pc \in {"serving", "writing"} THEN Busy \cup {c} ELSE Busy \ {c}
  BY Zenon DEF ServingOK, CallOK, Busy, Items

\* The slots are counted right as requests begin and end to be served.
LEMMA SlotsCounted ==
  ASSUME Sizes, ServingOK, NEW c \in Client
  PROVE  /\ slots \in Nat
         /\ calls[c].pc \in {"serving", "writing"} =>
              Busy \cup {c} = Busy /\ slots - 1 = Cardinality(Busy \ {c}) /\ slots - 1 <= Slots
         /\ calls[c].pc \notin {"serving", "writing"} =>
              Busy \ {c} = Busy /\ slots + 1 = Cardinality(Busy \cup {c})
  <1>1. Busy \in SUBSET Client
    BY DEF Busy
  <1>2. /\ Cardinality(Busy) \in Nat
        /\ c \in Busy => Cardinality(Busy \ {c}) = Cardinality(Busy) - 1
        /\ c \notin Busy => Cardinality(Busy \cup {c}) = Cardinality(Busy) + 1
    BY <1>1, Zenon DEF Sizes
  <1>3. slots = Cardinality(Busy) /\ slots <= Slots /\ Slots \in Nat
    BY AdmissionAssumption DEF ServingOK
  <1>4. c \in Busy <=> calls[c].pc \in {"serving", "writing"}
    BY DEF Busy
  <1>5. QED
    BY <1>2, <1>3, <1>4

\* A request that is charged, served or turned away.
LEMMA DoorSteps ==
  ASSUME Sizes, ServingOK, NEW c \in Client, Arrive(c) \/ TakeSlot(c) \/ Charge(c)
  PROVE  ServingOK' /\ \E pc \in CallState, paid \in Nat : Become(c, pc, paid)
  <1>0. /\ tokens \in Nat /\ tokens <= Burst /\ Burst \in Nat /\ slots \in Nat /\ Slots \in Nat
        /\ Items(c) \in Nat /\ Items(c) >= 1 /\ slots = Cardinality(Busy) /\ slots <= Slots
        /\ mishaps' = mishaps /\ mishaps \in 0..MaxMishaps
    <2>1. Burst \in Nat /\ Slots \in Nat
      BY AdmissionAssumption
    <2>2. Items(c) \in Nat /\ Items(c) >= 1 /\ slots \in Nat
      BY SlotsCounted, ItemsPositive, Zenon
    <2>3. mishaps' = mishaps
      BY DEF Arrive, TakeSlot, Charge
    <2>4. QED
      BY <2>1, <2>2, <2>3 DEF ServingOK
  <1>1. PICK pc \in {"waiting", "finished", "charged", "serving", "writing"}, paid \in Nat :
          /\ Become(c, pc, paid)
          /\ pc = "writing" => paid = Items(c)
          /\ tokens' \in 0..Burst
          /\ slots' = IF pc \in {"serving", "writing"}
                      THEN IF calls[c].pc = "serving" THEN slots ELSE slots + 1
                      ELSE IF calls[c].pc = "serving" THEN slots - 1 ELSE slots
          /\ slots' <= Slots
          /\ calls[c].pc \in {"ready", "charged", "serving"}
    <2>1. CASE Arrive(c)
      BY <1>0, <2>1 DEF Arrive
    <2>2. CASE TakeSlot(c)
      BY <1>0, <2>2 DEF TakeSlot
    <2>3. CASE Charge(c)
      BY <1>0, <2>3 DEF Charge
    <2>4. QED
      BY <2>1, <2>2, <2>3, Zenon
  <1> DEFINE a == Call(pc, paid)
  <1>2. a \in CallType /\ a.pc = pc /\ a.paid = paid /\ a.results = <<>> /\ Len(<<>>) = 0
    BY DEF Call, CallType, CallState
  <1>3. calls' = [calls EXCEPT ![c] = a]
    BY <1>1 DEF Become
  <1> HIDE DEF a
  <1>4. /\ calls' \in [Client -> CallType] /\ \A d \in Client : CallOK(d)'
        /\ Busy' = IF pc \in {"serving", "writing"} THEN Busy \cup {c} ELSE Busy \ {c}
    <2>1. pc = "writing" => Len(a.results) <= Items(c) /\ a.paid >= Items(c) - Len(a.results)
      BY <1>0, <1>1, <1>2
    <2>2. QED
      BY <1>1, <1>2, <1>3, <2>1, CallStep, Zenon
  <1>5. slots' = Cardinality(Busy')
    BY <1>0, <1>1, <1>4, SlotsCounted, Zenon
  <1>6. QED
    BY <1>0, <1>1, <1>4, <1>5 DEF ServingOK, CallState

\* The result of an item is added to those before it.
LEMMA ReportStep ==
  ASSUME Sizes, ServingOK, NEW c \in Client, Writing(c), NEW result \in Results, NEW used \in {0, 1},
         Report(c, result, used), UNCHANGED <<tokens, slots>>, mishaps' \in 0..MaxMishaps
  PROVE  /\ ServingOK'
         /\ calls' \in [Client -> CallType]
         /\ calls'[c].results = Append(calls[c].results, result)
         /\ \A d \in Client \ {c} : calls'[d] = calls[d]
  <1> DEFINE a == [calls[c] EXCEPT !.results = Append(@, result), !.paid = @ - used]
  <1>0. calls[c] \in CallType /\ CallOK(c) /\ Items(c) \in Nat
    BY ItemsPositive DEF ServingOK
  <1>1. /\ Append(calls[c].results, result) \in Seq(Results)
        /\ Len(Append(calls[c].results, result)) = Len(calls[c].results) + 1
        /\ Len(calls[c].results) \in Nat
    BY <1>0 DEF CallType
  <1>2. calls[c].pc = "writing" /\ Len(calls[c].results) < Items(c)
    BY DEF Writing
  <1>3. /\ calls[c].paid - used \in Nat
        /\ calls[c].paid - used >= Items(c) - (Len(calls[c].results) + 1)
    BY <1>0, <1>1, <1>2 DEF CallType, CallOK
  <1>4. /\ a \in CallType /\ a.pc = "writing" /\ a.paid = calls[c].paid - used
        /\ a.results = Append(calls[c].results, result)
    BY <1>0, <1>1, <1>2, <1>3, Zenon DEF CallType
  <1>5. calls' = [calls EXCEPT ![c] = a]
    BY Zenon DEF Report, ServingOK
  <1> HIDE DEF a
  <1>6. /\ calls' \in [Client -> CallType] /\ \A d \in Client : CallOK(d)'
        /\ Busy' = Busy \cup {c}
    <2>1. Len(a.results) <= Items(c) /\ a.paid >= Items(c) - Len(a.results)
      BY <1>0, <1>1, <1>2, <1>3, <1>4
    <2>2. QED
      BY <1>4, <1>5, <2>1, CallStep, Zenon
  <1>7. Busy' = Busy
    BY <1>2, <1>6, SlotsCounted, Zenon
  <1>8. ServingOK'
    BY <1>6, <1>7, Zenon DEF ServingOK
  <1>9. QED
    BY <1>4, <1>5, <1>6, <1>8 DEF ServingOK

\* Nothing is answered as new that was not before, and at most a receipt is
\* stored that conflicts with none.
LEMMA NothingNew ==
  ASSUME CreditOK, credited' = credited,
         \A d \in Client, i \in Nat : New(d, i)' => New(d, i),
         \/ accepted' = accepted
         \/ \E r \in Receipt : ~Conflicts(r) /\ accepted' = accepted \cup {r}
  PROVE  CreditOK'
  <1>1. /\ accepted \subseteq accepted' /\ accepted' \subseteq Receipt
        /\ \A r, q \in accepted' : r.event = q.event => r = q
    BY DEF CreditOK, Conflicts
  <1>2. QED
    BY <1>1 DEF CreditOK

\* A request that starts over has no results.
LEMMA StartsOver ==
  ASSUME ServingOK, NEW c \in Client, NEW pc, NEW paid, Become(c, pc, paid)
  PROVE  \A d \in Client, i \in Nat : New(d, i)' => New(d, i) /\ d # c
  BY DEF Become, Call, New, ServingOK

\* The steps that answer one item.
LEMMA ItemSteps ==
  ASSUME Sizes, AdmissionInv, NEW c \in Client, RefuseItem(c) \/ AcceptItem(c) \/ AcceptError(c)
  PROVE  AdmissionInv'
  <1> DEFINE n == Len(calls[c].results) + 1
             Says(result) == /\ \A d \in Client, i \in Nat : New(d, i)' =>
                                  New(d, i) \/ (d = c /\ i = n /\ result = "fresh")
  <1>0. ServingOK /\ CreditOK /\ Writing(c) /\ mishaps \in 0..MaxMishaps /\ MaxMishaps \in Nat
    BY AdmissionAssumption DEF AdmissionInv, RefuseItem, AcceptItem, AcceptError, ServingOK
  <1>1. calls[c].results \in Seq(Results) /\ Len(calls[c].results) \in Nat
    BY <1>0 DEF ServingOK, CallType
  <1>2. ASSUME NEW result \in Results, NEW used \in {0, 1}, Report(c, result, used),
               UNCHANGED <<tokens, slots>>, mishaps' \in 0..MaxMishaps
        PROVE  ServingOK' /\ Says(result)
    <2>1. /\ ServingOK' /\ calls'[c].results = Append(calls[c].results, result)
          /\ \A d \in Client \ {c} : calls'[d] = calls[d]
      BY <1>0, <1>2, ReportStep
    <2>2. \A i \in Nat : i \in DOMAIN Append(calls[c].results, result) =>
            \/ i \in DOMAIN calls[c].results
                 /\ Append(calls[c].results, result)[i] = calls[c].results[i]
            \/ i = n /\ Append(calls[c].results, result)[i] = result
      BY <1>1
    <2>3. Says(result)
      BY <2>1, <2>2 DEF New
    <2>4. QED
      BY <2>1, <2>3, Zenon
  <1>3. CASE RefuseItem(c)
    <2>1. ServingOK' /\ Says("refused")
      BY <1>0, <1>2, <1>3 DEF RefuseItem, Results
    <2>2. CreditOK'
      BY <1>0, <1>3, <2>1, NothingNew DEF RefuseItem
    <2>3. QED
      BY <2>1, <2>2 DEF AdmissionInv
  <1>4. CASE AcceptError(c)
    <2>1. mishaps' \in 0..MaxMishaps
      BY <1>0, <1>4 DEF AcceptError, Mishap
    <2>2. ServingOK' /\ Says("retry")
      BY <1>2, <1>4, <2>1 DEF AcceptError, Results
    <2>3. CreditOK'
      BY <1>0, <1>4, <2>2, NothingNew DEF AcceptError
    <2>4. QED
      BY <2>2, <2>3 DEF AdmissionInv
  <1>5. CASE AcceptItem(c)
    <2> DEFINE r == Item(c)
               result == IF Conflicts(r) THEN "refused"
                         ELSE IF r \in accepted THEN "replayed" ELSE "fresh"
    <2>1. ServingOK' /\ Says(result)
      BY <1>0, <1>2, <1>5 DEF AcceptItem, Results
    <2>2. r \in Receipt /\ r = Load[c][n] /\ credited' = credited
      BY <1>5, Zenon DEF AcceptItem, Item
    <2>3. accepted' = IF Conflicts(r) THEN accepted ELSE accepted \cup {r}
      BY <1>5 DEF AcceptItem
    <2>4. CASE Conflicts(r) \/ r \in accepted
      BY <1>0, <2>1, <2>2, <2>3, <2>4, NothingNew DEF AdmissionInv
    <2>5. CASE ~Conflicts(r) /\ r \notin accepted
      <3>1. accepted' = accepted \cup {r}
        BY <2>3, <2>5
      <3>2. \A d \in Client, i \in Nat : New(d, i)' => New(d, i) \/ (d = c /\ i = n)
        BY <2>1
      <3> HIDE DEF r, n
      <3>3. /\ accepted' \subseteq Receipt
            /\ \A p, q \in accepted' : p.event = q.event => p = q
            /\ \A p \in Receipt : credited'[p] = 1 => p \in accepted'
        BY <1>0, <2>2, <2>5, <3>1 DEF CreditOK, Conflicts
      <3>4. credited[r] = 0 /\ \A d \in Client, i \in Nat : New(d, i) => Load[d][i] # r
        BY <1>0, <2>2, <2>5 DEF CreditOK
      <3>5. \A d \in Client, i \in Nat : New(d, i)' =>
              Load[d][i] \in accepted' /\ credited'[Load[d][i]] = 0
        BY <1>0, <2>2, <3>1, <3>2, <3>4, Zenon DEF CreditOK
      <3>6. \A d, e \in Client, i, j \in Nat :
              New(d, i)' /\ New(e, j)' /\ Load[d][i] = Load[e][j] => d = e /\ i = j
        BY <1>0, <2>2, <3>2, <3>4 DEF CreditOK
      <3>7. CreditOK'
        BY <1>0, <2>2, <3>3, <3>5, <3>6, Zenon DEF CreditOK
      <3>8. QED
        BY <2>1, <3>7 DEF AdmissionInv
    <2>6. QED
      BY <2>4, <2>5, Zenon
  <1>6. QED
    BY <1>3, <1>4, <1>5, Zenon

\* An answer says of a receipt at most once that it is new, and of one that no
\* client was credited with.
LEMMA CreditedAlone ==
  ASSUME Sizes, CreditOK, NEW c \in Client, NEW r \in Receipt,
         NEW R \in SUBSET Nat, \A i \in R : New(c, i) /\ Load[c][i] = r
  PROVE  /\ credited[r] + Cardinality(R) \in {0, 1}
         /\ credited[r] + Cardinality(R) = 1 => r \in accepted
         /\ R = {} => credited[r] + Cardinality(R) = credited[r]
  <1>0. credited[r] \in {0, 1} /\ (credited[r] = 1 => r \in accepted)
    BY Zenon DEF CreditOK
  <1>1. CASE R = {}
    <2>1. Cardinality(R) = 0
      BY <1>1, Zenon DEF Sizes
    <2>2. QED
      BY <1>0, <2>1
  <1>2. CASE R # {}
    <2>1. PICK i \in R : New(c, i) /\ Load[c][i] = r
      BY <1>2, Zenon
    <2>2. credited[r] = 0 /\ r \in accepted /\ \A j \in R : j = i
      BY <2>1 DEF CreditOK
    <2>3. Cardinality(R) = 1
      <3>1. R = {i}
        BY <2>2, Zenon
      <3>2. QED
        BY <3>1, Zenon DEF Sizes
    <2>4. QED
      BY <1>2, <2>2, <2>3
  <1>3. QED
    BY <1>1, <1>2, Zenon

\* A client that reads its answer is credited once for what is new in it.
LEMMA ReadingKeeps ==
  ASSUME Sizes, AdmissionInv, NEW c \in Client, ReadAnswer(c)
  PROVE  AdmissionInv'
  <1> DEFINE Read(r) == {i \in 1..Items(c) : Load[c][i] = r /\ calls[c].results[i] = "fresh"}
  <1>0. /\ ServingOK /\ CreditOK /\ calls[c] \in CallType /\ CallOK(c)
        /\ calls[c].pc = "answering" /\ Items(c) \in Nat
    BY ItemsPositive, Zenon DEF AdmissionInv, ServingOK, ReadAnswer
  <1>1. DOMAIN calls[c].results = 1..Items(c)
    BY <1>0 DEF CallType, CallOK
  <1>2. \A i \in Nat : New(c, i) <=> i \in 1..Items(c) /\ calls[c].results[i] = "fresh"
    BY <1>1 DEF New
  <1>3. PICK pc \in {"waiting", "finished"} : Become(c, pc, 0)
    BY DEF ReadAnswer
  <1>4. ServingOK'
    <2> DEFINE a == Call(pc, 0)
    <2>1. a \in CallType /\ a.pc = pc /\ a.results = <<>>
      BY DEF Call, CallType, CallState
    <2>2. calls' = [calls EXCEPT ![c] = a]
      BY <1>3 DEF Become
    <2> HIDE DEF a
    <2>3. /\ calls' \in [Client -> CallType] /\ \A d \in Client : CallOK(d)' /\ Busy' = Busy \ {c}
      BY <1>0, <2>1, <2>2, CallStep, Zenon
    <2>4. QED
      BY <1>0, <2>3, SlotsCounted, Zenon DEF ServingOK, ReadAnswer
  <1>5. \A d \in Client, i \in Nat : New(d, i)' => New(d, i) /\ d # c
    BY <1>0, <1>3, StartsOver
  <1>6. ASSUME NEW r \in Receipt
        PROVE  /\ credited'[r] \in {0, 1}
               /\ credited'[r] = 1 => r \in accepted
               /\ credited'[r] # credited[r] => \E i \in Nat : New(c, i) /\ Load[c][i] = r
    <2>1. credited'[r] = credited[r] + Cardinality(Read(r))
      BY DEF ReadAnswer
    <2>2. Read(r) \in SUBSET Nat /\ \A i \in Read(r) : New(c, i) /\ Load[c][i] = r
      BY <1>0, <1>2
    <2> HIDE DEF Read
    <2>3. /\ credited[r] + Cardinality(Read(r)) \in {0, 1}
          /\ credited[r] + Cardinality(Read(r)) = 1 => r \in accepted
          /\ Read(r) = {} => credited[r] + Cardinality(Read(r)) = credited[r]
      BY <1>0, <2>2, CreditedAlone, Zenon
    <2>4. QED
      BY <2>1, <2>2, <2>3, Zenon
  <1>7. credited' \in [Receipt -> {0, 1}]
    <2>1. credited' = [r \in Receipt |-> credited[r] + Cardinality(Read(r))]
      BY Zenon DEF ReadAnswer
    <2>2. QED
      BY <1>6, <2>1
  <1>8. CreditOK'
    <2>1. accepted' = accepted
      BY Zenon DEF ReadAnswer
    <2>2. \A d \in Client, i \in Nat : New(d, i)' =>
            Load[d][i] \in accepted' /\ credited'[Load[d][i]] = 0
      BY <1>0, <1>5, <1>6, <2>1 DEF CreditOK
    <2>3. \A r \in Receipt : credited'[r] = 1 => r \in accepted'
      BY <1>6, <2>1
    <2>4. \A d, e \in Client, i, j \in Nat :
            New(d, i)' /\ New(e, j)' /\ Load[d][i] = Load[e][j] => d = e /\ i = j
      BY <1>0, <1>5 DEF CreditOK
    <2>5. QED
      BY <1>0, <1>7, <2>1, <2>2, <2>3, <2>4 DEF CreditOK
  <1>9. QED
    BY <1>4, <1>8 DEF AdmissionInv

\* Answers leave the server or get lost.
LEMMA AnswerSteps ==
  ASSUME Sizes, ServingOK, NEW c \in Client, Respond(c) \/ LoseResults(c)
  PROVE  ServingOK' /\ \A d \in Client, i \in Nat : New(d, i)' => New(d, i)
  <1>0. /\ calls[c] \in CallType /\ CallOK(c) /\ mishaps \in 0..MaxMishaps /\ MaxMishaps \in Nat
    BY AdmissionAssumption DEF ServingOK
  <1>1. CASE Respond(c)
    <2> DEFINE a == [calls[c] EXCEPT !.pc = "answering"]
    <2>1. calls' = [calls EXCEPT ![c] = a] /\ calls[c].pc = "writing" /\ slots' = slots - 1
      BY <1>1 DEF Respond
    <2>2. a \in CallType /\ a.pc = "answering" /\ a.results = calls[c].results
      BY <1>0 DEF CallType, CallState
    <2>3. Len(calls[c].results) = Items(c)
      BY <1>1 DEF Respond
    <2> HIDE DEF a
    <2>4. /\ calls' \in [Client -> CallType] /\ \A d \in Client : CallOK(d)' /\ Busy' = Busy \ {c}
      BY <2>1, <2>2, <2>3, CallStep, Zenon
    <2>5. ServingOK'
      BY <1>1, <2>1, <2>4, SlotsCounted, Zenon DEF ServingOK, Respond
    <2>6. QED
      BY <2>1, <2>2, <2>5 DEF New, ServingOK
  <1>2. CASE LoseResults(c)
    <2> DEFINE a == Call("waiting", 0)
    <2>1. calls' = [calls EXCEPT ![c] = a] /\ calls[c].pc = "answering"
      BY <1>2 DEF LoseResults, Become
    <2>2. a \in CallType /\ a.pc = "waiting" /\ a.results = <<>>
      BY DEF Call, CallType, CallState
    <2> HIDE DEF a
    <2>3. /\ calls' \in [Client -> CallType] /\ \A d \in Client : CallOK(d)' /\ Busy' = Busy \ {c}
      BY <2>1, <2>2, CallStep, Zenon
    <2>4. mishaps' \in 0..MaxMishaps
      BY <1>0, <1>2 DEF LoseResults, Mishap
    <2>5. ServingOK'
      BY <1>2, <2>1, <2>3, <2>4, SlotsCounted, Zenon DEF ServingOK, LoseResults
    <2>6. QED
      BY <1>2, <2>5, StartsOver DEF LoseResults
  <1>3. QED
    BY <1>1, <1>2, Zenon

\* Every request may be turned back at once: by a restart, or by its client
\* when a second has passed.
LEMMA WideSteps ==
  ASSUME Sizes, ServingOK, ServerDies \/ Second
  PROVE  ServingOK' /\ \A d \in Client, i \in Nat : New(d, i)' => New(d, i)
  <1>0. /\ calls \in [Client -> CallType] /\ \A c \in Client : CallOK(c)
        /\ tokens \in 0..Burst /\ Burst \in Nat \ {0} /\ Rate \in Nat /\ Slots \in Nat
        /\ mishaps \in 0..MaxMishaps /\ MaxMishaps \in Nat
    BY AdmissionAssumption DEF ServingOK
  <1>1. \A pc \in {"waiting", "ready"} : /\ Call(pc, 0) \in CallType /\ Call(pc, 0).pc = pc
                                         /\ Call(pc, 0).results = <<>> /\ DOMAIN <<>> = {}
    BY DEF Call, CallType, CallState
  <1>2. \A c \in Client : \/ calls'[c] = calls[c]
                             /\ (ServerDies => calls[c].pc \notin {"charged", "serving", "writing"})
                          \/ /\ calls'[c] = Call("waiting", 0) /\ ServerDies
                          \/ /\ calls'[c] = Call("ready", 0) /\ Second /\ calls[c].pc = "waiting"
    BY DEF ServerDies, Second
  <1>3. calls' \in [Client -> CallType]
    BY <1>0, <1>1 DEF ServerDies, Second
  <1>4. \A c \in Client : CallOK(c)'
    BY <1>0, <1>1, <1>2, Zenon DEF CallOK, Items
  <1>5. \A d \in Client, i \in Nat : New(d, i)' => New(d, i)
    BY <1>1, <1>2 DEF New
  <1>6. CASE ServerDies
    <2>1. Busy' = {}
      BY <1>1, <1>2, <1>6 DEF Busy
    <2>2. Cardinality(Busy') = 0
      BY <2>1, Zenon DEF Sizes
    <2>3. tokens' \in 0..Burst /\ slots' = 0 /\ mishaps' \in 0..MaxMishaps
      BY <1>0, <1>6 DEF ServerDies, Mishap
    <2>4. QED
      BY <1>0, <1>3, <1>4, <1>5, <2>2, <2>3 DEF ServingOK
  <1>7. CASE Second
    <2>1. ASSUME NEW c \in Client
          PROVE  calls'[c].pc \in {"serving", "writing"} <=> calls[c].pc \in {"serving", "writing"}
      <3>1. calls'[c] = IF calls[c].pc = "waiting" THEN Call("ready", 0) ELSE calls[c]
        BY <1>7 DEF Second
      <3>2. QED
        BY <1>1, <3>1
    <2>2. Busy' = Busy
      BY <2>1 DEF Busy
    <2>3. tokens' \in 0..Burst /\ UNCHANGED <<slots, mishaps>>
      BY <1>0, <1>7 DEF Second
    <2>4. QED
      BY <1>0, <1>3, <1>4, <1>5, <2>2, <2>3 DEF ServingOK
  <1>8. QED
    BY <1>6, <1>7, Zenon

\* The invariant holds of an idle server.
LEMMA AdmissionStart ==
  ASSUME Sizes, AdmissionInit
  PROVE  AdmissionInv
  <1>1. /\ Call("ready", 0) \in CallType /\ Call("ready", 0).pc = "ready"
        /\ Call("ready", 0).results = <<>> /\ DOMAIN <<>> = {}
    BY DEF Call, CallType, CallState
  <1>2. \A c \in Client : CallOK(c) /\ ~\E i \in Nat : New(c, i)
    BY <1>1 DEF AdmissionInit, CallOK, New
  <1>3. Busy = {}
    BY <1>1 DEF AdmissionInit, Busy
  <1>4. Cardinality(Busy) = 0
    BY <1>3, Zenon DEF Sizes
  <1>5. ServingOK
    BY <1>1, <1>2, <1>4, AdmissionAssumption DEF AdmissionInit, ServingOK
  <1>6. CreditOK
    BY <1>2 DEF AdmissionInit, CreditOK
  <1>7. QED
    BY <1>5, <1>6 DEF AdmissionInv

\* Every step of the clients and the server keeps the invariant.
LEMMA AdmissionStep ==
  ASSUME Sizes, AdmissionInv, [AdmissionNext]_admissionVars
  PROVE  AdmissionInv'
  <1>0. ServingOK /\ CreditOK
    BY DEF AdmissionInv
  <1>1. ASSUME NEW c \in Client, Arrive(c) \/ TakeSlot(c) \/ Charge(c) PROVE AdmissionInv'
    <2>1. ServingOK' /\ \A d \in Client, i \in Nat : New(d, i)' => New(d, i)
      BY <1>0, <1>1, DoorSteps, StartsOver
    <2>2. QED
      BY <1>0, <1>1, <2>1, NothingNew DEF AdmissionInv, Arrive, TakeSlot, Charge
  <1>2. ASSUME NEW c \in Client, RefuseItem(c) \/ AcceptItem(c) \/ AcceptError(c)
        PROVE  AdmissionInv'
    BY <1>2, ItemSteps
  <1>3. ASSUME NEW c \in Client, ReadAnswer(c) PROVE AdmissionInv'
    BY <1>3, ReadingKeeps
  <1>4. ASSUME NEW c \in Client, Respond(c) \/ LoseResults(c) PROVE AdmissionInv'
    BY <1>0, <1>4, AnswerSteps, NothingNew DEF AdmissionInv, Respond, LoseResults
  <1>5. CASE ServerDies \/ Second
    BY <1>0, <1>5, WideSteps, NothingNew, Zenon DEF AdmissionInv, ServerDies, Second
  <1>6. CASE UNCHANGED admissionVars
    <2>1. UNCHANGED <<tokens, slots, calls, accepted, credited, mishaps>>
      BY <1>6 DEF admissionVars
    <2>2. Busy' = Busy /\ \A c \in Client : CallOK(c)' <=> CallOK(c)
      BY <2>1 DEF Busy, CallOK, Items
    <2>3. ServingOK'
      BY <1>0, <2>1, <2>2 DEF ServingOK
    <2>4. \A d \in Client, i \in Nat : New(d, i)' => New(d, i)
      BY <2>1 DEF New
    <2>5. QED
      BY <1>0, <2>1, <2>3, <2>4, NothingNew DEF AdmissionInv
  <1>7. QED
    BY <1>1, <1>2, <1>3, <1>4, <1>5, <1>6 DEF AdmissionNext, Proceed

INSTANCE FiniteSetTheorems

\* Sizes of finite sets are what the proofs take them to be.
LEMMA SizesHold == Sizes
  <1>1. ASSUME NEW S \in SUBSET Client
        PROVE  IsFiniteSet(S) /\ Cardinality(S) \in Nat
    BY <1>1, AdmissionAssumption, FS_Subset, FS_CardinalityType, Zenon
  <1>2. ASSUME NEW S \in SUBSET Client, NEW x \in Client
        PROVE  /\ x \in S => Cardinality(S \ {x}) = Cardinality(S) - 1
               /\ x \notin S => Cardinality(S \cup {x}) = Cardinality(S) + 1
    BY <1>1, FS_RemoveElement, FS_AddElement, Zenon
  <1>3. QED
    BY <1>1, <1>2, FS_EmptySet, FS_Singleton, Zenon DEF Sizes

\* The invariant always holds.
LEMMA AdmissionInvariant == AdmissionSpec => []AdmissionInv
  <1>1. AdmissionInit => AdmissionInv
    BY SizesHold, AdmissionStart
  <1>2. AdmissionInv /\ [AdmissionNext]_admissionVars => AdmissionInv'
    BY SizesHold, AdmissionStep
  <1>3. QED
    BY <1>1, <1>2, PTL DEF AdmissionSpec

\* However many clients send batches, retry them, lose answers or see the server
\* die, a request costs at least as many tokens as it calls Accept, and a receipt
\* is credited as new at most once, only if it is stored (acceptBatch in
\* batch.go and the limiter it charges).
THEOREM AlwaysCreditedOnce == AdmissionSpec => []CreditedOnce
  BY AdmissionInvariant, AdmissionImplies, PTL

-----------------------------------------------------------------------------
(* Airports *)

Snapshot == [airports : SUBSET STRING, age : Nat]

\* A list of airports is as long as a catalog has to be, if there is one.
Plausible(airports) == airports # {} => Cardinality(airports) >= Minimum

\* A snapshot that Refresh made has airports, and enough of them; once the
\* rename is done the cache is that snapshot.
CatalogInv ==
  /\ source \in Files
  /\ cache \in Snapshot /\ snapshot \in Snapshot
  /\ refresh \in [pc : {"waiting", "parsed", "renamed", "done", "failed"}, next : Snapshot]
  /\ refresh.pc \in {"parsed", "renamed"} => refresh.next.airports # {}
  /\ refresh.pc = "renamed" => cache = refresh.next
  /\ Plausible(cache.airports) /\ Plausible(snapshot.airports)
  /\ Plausible(refresh.next.airports)
  /\ ServedIsStored

\* The identifiers of an accepted file are as many as its rows: at least
\* Minimum of them, and so not none.
LEMMA AcceptedLists ==
  ASSUME NEW file \in Files, Accepted(file)
  PROVE  /\ {r.ident : r \in Listed(file)} # {}
         /\ Cardinality({r.ident : r \in Listed(file)}) >= Minimum
  <1> DEFINE S == Listed(file)
             T == {r.ident : r \in Listed(file)}
             f == [r \in S |-> r.ident]
  <1>1. Cardinality(S) >= Minimum /\ Minimum \in Nat \ {0}
    BY CatalogAssumption DEF Accepted
  <1>2. IsFiniteSet(S)
    <2>1. IsFiniteSet(file) /\ S \subseteq file
      BY CatalogAssumption DEF Listed
    <2>2. QED
      BY <2>1, FS_Subset
  <1>3. f \in Surjection(S, T)
    BY DEF Surjection
  <1>4. f \in Injection(S, T)
    <2>1. \A r, q \in S : r.ident = q.ident => r = q
      BY DEF Accepted
    <2>2. QED
      BY <2>1, <1>3 DEF Injection, IsInjective, Surjection
  <1> HIDE DEF S, T, f
  <1>5. Cardinality(T) = Cardinality(S)
    BY <1>2, <1>3, <1>4, FS_Surjection
  <1>6. Cardinality({}) = 0
    BY FS_EmptySet
  <1>7. T # {} /\ Cardinality(T) >= Minimum
    BY <1>1, <1>5, <1>6
  <1>8. QED
    BY <1>7 DEF T

\* A tick changes the age of a snapshot alone.
LEMMA OlderKeeps ==
  ASSUME NEW s \in Snapshot
  PROVE  Older(s) \in Snapshot /\ Older(s).airports = s.airports
  BY DEF Older, Snapshot

\* One step of the loop, the disk or the clock: the invariant, and a catalog
\* once served stays available.
LEMMA CatalogStep ==
  ASSUME CatalogInv, [CatalogNext]_catalogVars
  PROVE  CatalogInv' /\ (~Unavailable => snapshot'.airports # {})
  <1> USE DEF CatalogInv, Unavailable, ServedIsStored
  <1>1. CASE Fetch
    <2>1. CASE Accepted(source)
      <3> DEFINE n == [airports |-> {r.ident : r \in Listed(source)}, age |-> 0]
      <3>1. n.airports # {} /\ Plausible(n.airports)
        BY <2>1, AcceptedLists DEF Plausible
      <3>2. n \in Snapshot
        BY CatalogAssumption DEF Snapshot, Listed
      <3>3. refresh' = [pc |-> "parsed", next |-> n]
        BY <1>1, <2>1 DEF Fetch
      <3> HIDE DEF n
      <3>4. QED
        BY <1>1, <3>1, <3>2, <3>3 DEF Fetch
    <2>2. CASE ~Accepted(source)
      BY <1>1, <2>2 DEF Fetch, Goto
    <2>3. QED
      BY <2>1, <2>2, Zenon
  <1>2. CASE FetchError \/ PersistError
    BY <1>2 DEF FetchError, PersistError, Goto
  <1>3. CASE Persist
    BY <1>3 DEF Persist, Goto
  <1>4. CASE Publish
    BY <1>4 DEF Publish, Goto
  <1>5. CASE Finish
    BY <1>5 DEF Finish, Idle, Missing, Snapshot, Plausible
  <1>6. CASE Restart
    BY <1>6 DEF Restart, Idle, Missing, Snapshot, Plausible
  <1>7. CASE Release
    BY <1>7 DEF Release
  <1>8. CASE Tick
    BY <1>8, OlderKeeps DEF Tick
  <1>9. CASE UNCHANGED catalogVars
    BY <1>9 DEF catalogVars
  <1>10. QED
    BY <1>1, <1>2, <1>3, <1>4, <1>5, <1>6, <1>7, <1>8, <1>9, Zenon DEF CatalogNext

\* The invariant of the catalog always holds.
LEMMA CatalogInvariant == CatalogSpec => []CatalogInv
  <1>1. CatalogInit => CatalogInv
    BY DEF CatalogInit, CatalogInv, Idle, Missing, Snapshot, ServedIsStored, Plausible
  <1>2. CatalogInv /\ [CatalogNext]_catalogVars => CatalogInv'
    BY CatalogStep
  <1>3. QED
    BY <1>1, <1>2, PTL DEF CatalogSpec

\* Whenever the service dies, the snapshot New loads from CachePath is the one
\* in memory or the one about to replace it (Refresh and persist in catalog.go).
THEOREM ServedAlwaysStored == CatalogSpec => []ServedIsStored
  <1>1. CatalogInv => ServedIsStored
    BY DEF CatalogInv
  <1>2. QED
    BY <1>1, CatalogInvariant, PTL

\* A catalog once served stays available and long enough, whatever files the
\* publisher offers and however often the service restarts (the tests of
\* Refresh before it persists and publishes, and New).
THEOREM AlwaysStaysAvailable == CatalogSpec => StaysAvailable
  <1> DEFINE Enough == ~Unavailable => Cardinality(snapshot'.airports) >= Minimum
  <1>1. CatalogInv /\ [CatalogNext]_catalogVars => Enough
    <2> SUFFICES ASSUME CatalogInv, [CatalogNext]_catalogVars PROVE Enough
      OBVIOUS
    <2>1. CatalogInv' /\ (~Unavailable => snapshot'.airports # {})
      BY CatalogStep
    <2>2. Plausible(snapshot'.airports)
      BY <2>1 DEF CatalogInv
    <2>3. QED
      BY <2>1, <2>2 DEF Plausible
  <1>2. QED
    BY <1>1, CatalogInvariant, PTL DEF CatalogSpec, StaysAvailable

=============================================================================
