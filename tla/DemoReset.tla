----------------------------- MODULE DemoReset -----------------------------
(***************************************************************************)
(* Clearing the local demo: the reset endpoint and its gate                *)
(* (internal/httpapi/server.go), the worker's operation mutex              *)
(* (internal/pipeline/worker.go), the database part                        *)
(* (internal/localdemo/reset.go) and the browser pages that keep a         *)
(* generation and a saved proof run (internal/console/web/demo-reset.js).  *)
(*                                                                         *)
(* Generations are numbered in the order they are made.  What matters of a *)
(* row or a saved run is the generation it was made for: rows is the set   *)
(* of the generations that any row of activity belongs to.                 *)
(***************************************************************************)
EXTENDS Integers, Sequences

CONSTANTS
  Tab,         \* browser tabs of one origin
  Request,     \* requests the server works on at a time
  None,
  MaxResets,   \* bound of the model: resets
  MaxFaults    \* bound of the model: crashes, lost answers, refusals, revisits

ASSUME ResetAssumption ==
  /\ None \notin Nat \cup Tab \cup Request
  /\ "worker" \notin Request \cup {None}
  /\ MaxResets \in Nat /\ MaxFaults \in Nat

VARIABLES
  generation,  \* demo_reset_state.generation
  rows,        \* generations of the rows in the activity tables
  announced,   \* Server.DemoGeneration
  gate,        \* Server.demoGate: its writer and its readers
  operation,   \* Worker.operation: the request that resets, "worker" or None
  job,         \* generation of the row the worker's Tick works on
  armed,       \* generation of the fault controls that are set, or None
  requests,    \* requests on their way or being served
  pages,       \* the document open in each tab
  storage,     \* sessionStorage of each tab
  events,      \* storage events each tab has not handled yet, in order
  faults

serverVars == <<generation, rows, announced, gate, operation, job, armed, faults>>
resetVars == <<serverVars, requests, pages, storage, events>>

Free == [pc |-> "free"]

Page(s) == [generation |-> s.generation, run |-> s.run, active |-> TRUE]
NoStorage == [generation |-> None, run |-> None]

ResetInit ==
  /\ generation = 0 /\ announced = 0
  /\ rows = {} /\ job = None /\ armed = None
  /\ gate = [writer |-> None, readers |-> {}]
  /\ operation = None
  /\ requests = [q \in Request |-> Free]
  /\ pages = [t \in Tab |-> Page(NoStorage)]
  /\ storage = [t \in Tab |-> NoStorage]
  /\ events = [t \in Tab |-> <<>>]
  /\ faults = 0

-----------------------------------------------------------------------------
(* The server *)

Reply(q, g, cleared) ==
  requests' = [requests EXCEPT ![q] =
    [pc |-> "answered", tab |-> @.tab, generation |-> g, cleared |-> cleared]]

Advance(q, pc) == requests' = [requests EXCEPT ![q].pc = pc]

\* A mutation made for another generation is refused.
Stale(q) ==
  /\ requests[q].kind # "get"
  /\ requests[q].header \notin {None, announced}

Admit(q) ==
  /\ Advance(q, "entered")
  /\ gate' = IF requests[q].kind = "reset"
             THEN [gate EXCEPT !.writer = q] ELSE [gate EXCEPT !.readers = @ \cup {q}]

Leave(q) ==
  gate' = [writer |-> IF gate.writer = q THEN None ELSE gate.writer,
           readers |-> gate.readers \ {q}]

\* Rate limit, slots and the other refusals before the gate: no generation
\* is announced.
Refuse(q) ==
  /\ requests[q].pc = "sent"
  /\ faults < MaxFaults /\ faults' = faults + 1
  /\ Reply(q, None, FALSE)
  /\ UNCHANGED <<generation, rows, announced, gate, operation, job, armed,
                 pages, storage, events>>

\* The gate lets in one reset alone or any number of other requests.
Enter(q) ==
  /\ requests[q].pc = "sent"
  /\ gate.writer = None
  /\ requests[q].kind = "reset" => gate.readers = {}
  /\ IF Stale(q) THEN Reply(q, announced, FALSE) /\ UNCHANGED gate ELSE Admit(q)
  /\ UNCHANGED <<generation, rows, announced, operation, job, armed, faults,
                 pages, storage, events>>

\* The generation of the data a mutation was made from: its run's, else its
\* page's; a caller that never saw a generation works on what there is.
MadeFor(q) ==
  IF requests[q].run # None THEN requests[q].run
  ELSE IF requests[q].header # None THEN requests[q].header ELSE generation

\* A handler commits rows or sets fault controls for its caller, or only
\* reads or fails; then it leaves the gate.
Serve(q) ==
  /\ requests[q].pc = "entered" /\ requests[q].kind # "reset"
  /\ \/ /\ requests[q].kind = "post"
        /\ rows' \in {rows, rows \cup {MadeFor(q)}}
        /\ armed' \in {armed, MadeFor(q)}
     \/ UNCHANGED <<rows, armed>>
  /\ Reply(q, announced, FALSE)
  /\ Leave(q)
  /\ UNCHANGED <<generation, announced, operation, job, faults, pages, storage, events>>

\* Mutant: the reset does not wait for the worker.
BeginResetAtOnce(q) ==
  /\ requests[q].pc = "entered" /\ requests[q].kind = "reset"
  /\ operation' = q
  /\ Advance(q, "resetting")
  /\ UNCHANGED <<generation, rows, announced, gate, job, armed, faults,
                 pages, storage, events>>

\* ResetLocalDemo waits until the worker's Tick or sweep has ended.
BeginReset(q) ==
  /\ requests[q].pc = "entered" /\ requests[q].kind = "reset"
  /\ operation = None
  /\ operation' = q
  /\ Advance(q, "resetting")
  /\ UNCHANGED <<generation, rows, announced, gate, job, armed, faults,
                 pages, storage, events>>

\* The transaction of Reset: every activity table and the generation.
CommitReset(q) ==
  /\ requests[q].pc = "resetting"
  /\ generation < MaxResets
  /\ generation' = generation + 1
  /\ rows' = {}
  /\ Advance(q, "cleared")
  /\ UNCHANGED <<announced, gate, operation, job, armed, faults, pages, storage, events>>

\* A transaction that fails leaves the database and the worker as they were.
FailReset(q) ==
  /\ requests[q].pc = "resetting"
  /\ operation' = None
  /\ Reply(q, announced, FALSE)
  /\ Leave(q)
  /\ UNCHANGED <<generation, rows, announced, job, armed, faults, pages, storage, events>>

\* Mutant: the gate stays closed after a reset.
FinishResetInside(q) ==
  /\ requests[q].pc = "cleared"
  /\ armed' = None
  /\ operation' = None
  /\ announced' = generation
  /\ Reply(q, generation, TRUE)
  /\ UNCHANGED <<generation, rows, gate, job, faults, pages, storage, events>>

\* The worker's controls are cleared, its mutex is released, the server
\* announces the new generation and the gate opens.
FinishReset(q) ==
  /\ requests[q].pc = "cleared"
  /\ armed' = None
  /\ operation' = None
  /\ announced' = generation
  /\ Reply(q, generation, TRUE)
  /\ Leave(q)
  /\ UNCHANGED <<generation, rows, job, faults, pages, storage, events>>

\* Tick or sweep: it picks a row and holds the mutex until it has written what
\* follows from it, which may use up the fault controls.
BeginWork ==
  /\ operation = None
  /\ rows # {}
  /\ operation' = "worker"
  /\ job' \in rows
  /\ UNCHANGED <<generation, rows, announced, gate, armed, faults, requests,
                 pages, storage, events>>

EndWork ==
  /\ job # None
  /\ operation' = IF operation = "worker" THEN None ELSE operation
  /\ rows' = rows \cup {job}
  /\ armed' \in {armed, None}
  /\ job' = None
  /\ UNCHANGED <<generation, announced, gate, faults, requests,
                 pages, storage, events>>

\* What the network holds when the server dies.
Surviving ==
  [q \in Request |->
    IF requests[q].pc \in {"sent", "answered"} THEN requests[q] ELSE Free]

\* The server dies and restarts; Initialize reads the stored generation.
Crash ==
  /\ faults < MaxFaults
  /\ faults' = faults + 1
  /\ announced' = generation
  /\ gate' = [writer |-> None, readers |-> {}]
  /\ operation' = None /\ job' = None /\ armed' = None
  /\ requests' = Surviving
  /\ UNCHANGED <<generation, rows, pages, storage, events>>

-----------------------------------------------------------------------------
(* The pages *)

\* demoSession.fetch: the header carries the page's generation.
Send(t, q, kind) ==
  /\ pages[t].active /\ requests[q] = Free
  /\ kind = "reset" => generation < MaxResets
  /\ requests' = [requests EXCEPT ![q] =
       [pc |-> "sent", kind |-> kind, tab |-> t, header |-> pages[t].generation,
        run |-> IF kind = "post" THEN pages[t].run ELSE None]]
  /\ UNCHANGED <<serverVars, pages, storage, events>>

\* A proof run gets its identities after an answered request, and is saved.
StartRun(t) ==
  /\ pages[t].active /\ pages[t].generation # None /\ pages[t].run = None
  /\ pages' = [pages EXCEPT ![t].run = pages[t].generation]
  /\ storage' = [storage EXCEPT ![t].run = pages[t].generation]
  /\ UNCHANGED <<serverVars, requests, events>>

\* The saved runs are removed, the new generation is stored and the page is
\* invalidated: it sends and saves nothing until it is loaded again.
Discard(t, g) ==
  /\ storage' = [storage EXCEPT ![t] = [generation |-> g, run |-> None]]
  /\ pages' = [pages EXCEPT ![t].generation = g, ![t].active = FALSE]

\* reload(next, broadcast): a tab that made the reset tells the others.
Invalidate(t, g, broadcast) ==
  /\ Discard(t, g)
  /\ events' = IF broadcast
               THEN [u \in Tab |-> IF u = t THEN events[u] ELSE Append(events[u], g)]
               ELSE events

Remember(t, g) ==
  /\ storage' = [storage EXCEPT ![t].generation = g]
  /\ pages' = [pages EXCEPT ![t].generation = g]
  /\ UNCHANGED events

\* The answer reaches the page that asked: a confirmed reset or a generation
\* other than its own makes it reload.  A page already invalidated, or gone,
\* ignores it.
Receive(q) ==
  LET a == requests[q]
      p == pages[a.tab]   \* only of a page that still waits
  IN  /\ a.pc = "answered"
      /\ requests' = [requests EXCEPT ![q] = Free]
      /\ IF a.tab = None \/ a.generation = None \/ ~p.active THEN UNCHANGED <<pages, storage, events>>
         ELSE IF a.cleared THEN Invalidate(a.tab, a.generation, TRUE)
         ELSE IF p.generation \notin {None, a.generation}
              THEN Invalidate(a.tab, a.generation, FALSE)
              ELSE Remember(a.tab, a.generation)
      /\ UNCHANGED serverVars

\* The connection breaks or the page gives up waiting: the server goes on.
LoseAnswer(q) ==
  /\ requests[q].pc # "free" /\ requests[q].tab # None
  /\ faults < MaxFaults /\ faults' = faults + 1
  /\ requests' = [requests EXCEPT ![q] = IF @.pc = "answered" THEN Free
                                         ELSE [@ EXCEPT !.tab = None]]
  /\ UNCHANGED <<generation, rows, announced, gate, operation, job, armed,
                 pages, storage, events>>

\* The storage event of another tab's reset.
Notice(t) ==
  /\ events[t] # <<>>
  /\ events' = [events EXCEPT ![t] = Tail(@)]
  /\ IF pages[t].active /\ pages[t].generation \notin {None, Head(events[t])}
     THEN Discard(t, Head(events[t])) ELSE UNCHANGED <<pages, storage>>
  /\ UNCHANGED <<serverVars, requests>>

\* A step of the run ends or fails and the run is saved, if the page is active.
Save(t) ==
  /\ pages[t].active /\ pages[t].run # None
  /\ storage' = [storage EXCEPT ![t].run = pages[t].run]
  /\ UNCHANGED <<serverVars, requests, pages, events>>

\* A new document: what it knows is in sessionStorage, and requests of the old
\* one go on without a page to answer.
Open(t) ==
  /\ pages' = [pages EXCEPT ![t] = Page(storage[t])]
  /\ requests' = [q \in Request |->
       IF requests[q].pc # "free" /\ requests[q].tab = t
       THEN [requests[q] EXCEPT !.tab = None] ELSE requests[q]]

\* location.reload of an invalidated page.
Reload(t) == ~pages[t].active /\ Open(t) /\ UNCHANGED <<serverVars, storage, events>>

\* The user reloads a page in the middle of its work.
Revisit(t) ==
  /\ pages[t].active /\ Open(t)
  /\ faults < MaxFaults /\ faults' = faults + 1
  /\ UNCHANGED <<generation, rows, announced, gate, operation, job, armed, storage, events>>

-----------------------------------------------------------------------------
ResetNext ==
  \/ \E q \in Request :
       \/ Refuse(q) \/ Enter(q) \/ Serve(q)
       \/ BeginReset(q) \/ CommitReset(q) \/ FailReset(q) \/ FinishReset(q)
       \/ Receive(q) \/ LoseAnswer(q)
       \/ \E t \in Tab, kind \in {"get", "post", "reset"} : Send(t, q, kind)
  \/ \E t \in Tab : StartRun(t) \/ Notice(t) \/ Save(t) \/ Reload(t) \/ Revisit(t)
  \/ BeginWork \/ EndWork \/ Crash

ResetSpec == ResetInit /\ [][ResetNext]_resetVars

-----------------------------------------------------------------------------
(* What a reset promises *)

\* The gate and the worker's mutex are held only by requests that are being
\* served and by the worker while it has a row, and a reset has the gate for
\* itself: no early return, failed reset, lost answer or crash leaves a lock
\* behind for which everybody else waits, and two resets never overlap.  While
\* nobody resets, the server announces the generation the database has, also
\* after a crash between the commit and the announcement.
LocksHeldAtWork ==
  /\ gate.writer = None => announced = generation
  /\ gate.writer # None =>
       gate.readers = {} /\ requests[gate.writer].pc \in {"entered", "resetting", "cleared"}
  /\ \A q \in gate.readers : requests[q].pc = "entered"
  /\ operation \in {None, "worker", gate.writer}
  /\ operation = "worker" <=> job # None
  /\ operation \in Request => requests[operation].pc \in {"resetting", "cleared"}

\* Nothing of an earlier generation survives a reset or comes back after it:
\* not through a request that waited at the gate, a page that still runs an
\* old proof, a run saved before the reset, or the worker's current job.  A page
\* works on, and keeps, a saved run only under the generation it was made for.
NothingStale ==
  /\ rows \subseteq {generation}
  /\ job \in {None, generation}
  /\ gate.writer = None => armed \in {None, generation}
  /\ \A t \in Tab :
       /\ pages[t].active => pages[t].run \in {None, pages[t].generation}
       /\ storage[t].run \in {None, storage[t].generation}

=============================================================================
