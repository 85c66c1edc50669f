---------------------------- MODULE FootTraffic ----------------------------
(***************************************************************************)
(* The measurement service (internal/foottraffic): batches of hourly       *)
(* counts are imported, replaced and emptied by transactions of several    *)
(* statements, and reports read what they committed.                       *)
(*                                                                         *)
(* One sample namespace is modelled: every statement is limited to the     *)
(* namespace of its scenario, and lockScope takes one lock per namespace.  *)
(* A session is a request the service works on, in one process or in       *)
(* several that share the database.  A statement sees what others have     *)
(* committed and what its own transaction changed (READ COMMITTED).        *)
(*                                                                         *)
(* A batch is its ID and a set of windows: ingest sorts a copy, so neither *)
(* its fingerprint nor its effect depends on their order.                  *)
(***************************************************************************)
EXTENDS Integers, FiniteSets

CONSTANTS
  Session,      \* requests served at a time
  NoSession,
  BatchID,
  Zone,         \* zones, the known ones included
  KnownZone,    \* the entries of zones
  Feeds,        \* the batches clients may send
  MaxCount,     \* largest count of a window (1000000)
  MaxWindows,   \* most windows in a batch (96)
  Retention,    \* hours a window may lie back (7 * 24)
  MaxHour       \* bound of the model: the last hour

Window == [zone : Zone, start : Int, count : Int]
FeedBatch == [id : BatchID, windows : SUBSET Window]

ASSUME TrafficAssumption ==
  /\ NoSession \notin Session
  /\ KnownZone \subseteq Zone
  /\ Feeds \subseteq FeedBatch
  /\ \A b \in Feeds : IsFiniteSet(b.windows)
  /\ MaxCount \in Nat /\ MaxWindows \in Nat /\ Retention \in Nat /\ MaxHour \in Nat

VARIABLES
  windows,    \* traffic_windows_v1, committed
  batches,    \* traffic_batches_v1, committed: the replay ledger
  scope,      \* the session that holds the lock of the traffic_scopes_v1 row
  sessions,   \* the transaction of each session
  hour        \* the current UTC hour: windows before it are complete

trafficVars == <<windows, batches, scope, sessions, hour>>

SameCell(v, w) == v.zone = w.zone /\ v.start = w.start

Ledgered(b, n) == [id |-> b.id, content |-> b.windows, inserted |-> n]

NoRequest == [pc |-> "idle"]
NoBatch == [windows |-> {}]   \* EmptySample has no batch

TrafficInit ==
  /\ windows = {} /\ batches = {}
  /\ scope = NoSession
  /\ sessions = [c \in Session |-> NoRequest]
  /\ hour = 0

-----------------------------------------------------------------------------
\* What ingest checks before it opens a transaction.
Valid(b) ==
  /\ Cardinality(b.windows) \in 1..MaxWindows
  /\ \A w \in b.windows :
       /\ w.zone \in KnownZone
       /\ w.count \in 0..MaxCount
       /\ hour - Retention <= w.start /\ w.start < hour
  /\ \A v, w \in b.windows : SameCell(v, w) => v = w

Goto(c, pc) == sessions' = [sessions EXCEPT ![c].pc = pc]

\* Ingest, ReplaceSample or EmptySample opens its transaction.  A batch that
\* is not valid is refused: no step.
Begin(c, op, b) ==
  /\ sessions[c] = NoRequest
  /\ op # "empty" => Valid(b)
  /\ sessions' = [sessions EXCEPT ![c] =
       [pc |-> "begun", op |-> op, batch |-> b,
        delWindows |-> {}, addWindows |-> {}, delBatches |-> {}]]
  /\ UNCHANGED <<windows, batches, scope, hour>>

\* Mutant: lockScope does not wait for the transaction that holds the row.
LockScopeAtOnce(c) ==
  /\ sessions[c].pc = "begun"
  /\ scope' = c
  /\ Goto(c, IF sessions[c].op = "empty" THEN "clearing" ELSE "locked")
  /\ UNCHANGED <<windows, batches, hour>>

LockScope(c) ==
  /\ sessions[c].pc = "begun"
  /\ scope = NoSession
  /\ scope' = c
  /\ Goto(c, IF sessions[c].op = "empty" THEN "clearing" ELSE "locked")
  /\ UNCHANGED <<windows, batches, hour>>

Unlock(c) == scope' = IF scope = c THEN NoSession ELSE scope

\* The transaction ends with nothing applied.
Rollback(c) ==
  /\ sessions' = [sessions EXCEPT ![c] = NoRequest]
  /\ Unlock(c)
  /\ UNCHANGED <<windows, batches, hour>>

\* INSERT INTO traffic_batches_v1: an ID in the ledger ends the call, with the
\* result recorded there or, if the content differs, with a conflict.
InsertBatch(c) ==
  LET t == sessions[c]
  IN  /\ t.pc = "locked"
      /\ IF \E x \in batches : x.id = t.batch.id
         THEN Rollback(c)
         ELSE /\ Goto(c, IF t.op = "replace" THEN "clearing" ELSE "filling")
              /\ UNCHANGED <<windows, batches, scope, hour>>

\* Mutant: a replacement keeps the windows of the batches it removes.
ClearWindowsWhenEmptying(c) ==
  /\ sessions[c].pc = "clearing"
  /\ sessions' = [sessions EXCEPT ![c].pc = "cleared",
                    ![c].delWindows = IF sessions[c].op = "empty" THEN windows ELSE {}]
  /\ UNCHANGED <<windows, batches, scope, hour>>

\* DELETE FROM traffic_windows_v1
ClearWindows(c) ==
  /\ sessions[c].pc = "clearing"
  /\ sessions' = [sessions EXCEPT ![c].pc = "cleared", ![c].delWindows = windows]
  /\ UNCHANGED <<windows, batches, scope, hour>>

\* DELETE FROM traffic_batches_v1: all of them, or all but the new one.
ClearBatches(c) ==
  /\ sessions[c].pc = "cleared"
  /\ sessions' = [sessions EXCEPT ![c].delBatches = batches,
       ![c].pc = IF sessions[c].op = "empty" THEN "committing" ELSE "filling"]
  /\ UNCHANGED <<windows, batches, scope, hour>>

\* The loop over the windows: a cell stored before must agree with the batch,
\* and only new cells are inserted.  One disagreement undoes the whole batch.
FillWindows(c) ==
  LET t == sessions[c]
      visible == windows \ t.delWindows
  IN  /\ t.pc = "filling"
      /\ IF \E v \in visible, w \in t.batch.windows : SameCell(v, w) /\ v # w
         THEN Rollback(c)
         ELSE /\ sessions' = [sessions EXCEPT ![c].pc = "committing",
                                ![c].addWindows = t.batch.windows \ visible]
              /\ UNCHANGED <<windows, batches, scope, hour>>

\* The ledger row gets the number of new windows, and COMMIT applies it all.
Commit(c) ==
  LET t == sessions[c]
      ledger == IF t.op = "empty" THEN {}
                ELSE {Ledgered(t.batch, Cardinality(t.addWindows))}
  IN  /\ t.pc = "committing"
      /\ windows' = (windows \ t.delWindows) \cup t.addWindows
      /\ batches' = (batches \ t.delBatches) \cup ledger
      /\ sessions' = [sessions EXCEPT ![c] = NoRequest]
      /\ Unlock(c)
      /\ UNCHANGED hour

\* A statement fails, the three seconds of the handler pass or the process
\* dies: the database rolls the transaction back.
Abandon(c) == sessions[c] # NoRequest /\ Rollback(c)

NextHour ==
  /\ hour < MaxHour
  /\ hour' = hour + 1
  /\ UNCHANGED <<windows, batches, scope, sessions>>

TrafficNext ==
  \/ \E c \in Session :
       \/ \E op \in {"ingest", "replace"}, b \in Feeds : Begin(c, op, b)
       \/ Begin(c, "empty", NoBatch)
       \/ LockScope(c) \/ InsertBatch(c) \/ ClearWindows(c) \/ ClearBatches(c)
       \/ FillWindows(c) \/ Commit(c) \/ Abandon(c)
  \/ NextHour

TrafficSpec == TrafficInit /\ [][TrafficNext]_trafficVars

-----------------------------------------------------------------------------
(* What the service promises *)

\* The windows the ledger rows say they inserted, numbered per row.
Inserted == UNION {{x} \X (1..x.inserted) : x \in batches}

\* Windows and replay ledger belong together and no observation is counted
\* twice, whatever imports, replacements, removals and retries overlap: the
\* stored windows are those of the ledger's batches, a cell has one count, an
\* ID one ledger row, and the inserted numbers add up to the stored windows.
CountedOnce ==
  /\ windows = UNION {x.content : x \in batches}
  /\ \A v, w \in windows : SameCell(v, w) => v = w
  /\ \A x, y \in batches : x.id = y.id => x = y
  /\ Cardinality(Inserted) = Cardinality(windows)

\* A reader never sees half a replacement: windows and ledger rows disappear
\* only all at once, leaving nothing or exactly the one batch that replaced
\* them.
SwapsAtomic ==
  [][\/ windows \subseteq windows' /\ batches \subseteq batches'
     \/ batches' = {} /\ windows' = {}
     \/ \E x \in batches' : batches' = {x} /\ windows' = x.content]_trafficVars

\* An exact retry of a batch in the ledger passes the checks that come before
\* the ledger is read, so it returns the recorded result.
RetryReturnsResult ==
  \A x \in batches : Valid([id |-> x.id, windows |-> x.content])
=============================================================================
