--------------------------- MODULE AirportCatalog ---------------------------
(***************************************************************************)
(* The airport reference service (internal/airports, cmd/airports): a loop *)
(* downloads the source file, checks it, stores a snapshot on disk and     *)
(* publishes it in memory for the readers.                                 *)
(*                                                                         *)
(* A file is a set of rows; what matters of a row is its identifier,       *)
(* whether the catalog lists it (US, scheduled service, not closed) and    *)
(* whether it is sound (a name, coordinates that parse and are in range).  *)
(* Time is counted in ticks of the refresh timer.  A refresh ends within   *)
(* its tick: the HTTP client gives up after thirty seconds.                *)
(***************************************************************************)
EXTENDS Integers, FiniteSets

CONSTANTS
  Files,       \* contents the source may have
  Minimum,     \* fewest rows a plausible catalog has (100)
  Period,      \* ticks until the next refresh after a success (24 hours)
  RetryDelay,  \* ticks until the next refresh after a failure (5 minutes)
  OldAge,      \* age above which a snapshot is stale (48 hours)
  MaxFailures  \* bound of the model: failed downloads and writes, crashes

ASSUME CatalogAssumption ==
  /\ Files \subseteq SUBSET [ident : STRING, listed : BOOLEAN, sound : BOOLEAN]
  /\ \A file \in Files : IsFiniteSet(file)
  /\ {Minimum, Period, RetryDelay} \subseteq Nat \ {0}
  /\ OldAge \in Nat /\ MaxFailures \in Nat

VARIABLES
  source,    \* the file the publisher offers
  cache,     \* the snapshot in CachePath, Missing if there is none
  snapshot,  \* Catalog.snapshot
  lastErr,   \* Catalog.lastErr is not empty
  refresh,   \* where Refresh is, and the snapshot it has made
  due,       \* ticks until the timer of the refresh loop fires
  failures

catalogVars == <<source, cache, snapshot, lastErr, refresh, due, failures>>

Missing == [airports |-> {}, age |-> 0]

Idle == [pc |-> "waiting", next |-> Missing]

CatalogInit ==
  /\ source \in Files
  /\ cache = Missing /\ snapshot = Missing
  /\ lastErr = FALSE
  /\ refresh = Idle /\ due = 0
  /\ failures = 0

-----------------------------------------------------------------------------
Listed(file) == {r \in file : r.listed}

\* Mutant: a file that is cut short counts as a catalog.
AcceptedAnyLength(file) ==
  /\ \A r \in Listed(file) : r.sound
  /\ \A r, q \in Listed(file) : r.ident = q.ident => r = q

\* parse drops the rows that are not listed, then refuses a file with an
\* unsound row or one identifier twice; Refresh refuses too short a file.
Accepted(file) ==
  /\ \A r \in Listed(file) : r.sound
  /\ \A r, q \in Listed(file) : r.ident = q.ident => r = q
  /\ Cardinality(Listed(file)) >= Minimum

Failure == failures < MaxFailures /\ failures' = failures + 1

Goto(pc) == refresh' = [refresh EXCEPT !.pc = pc]

\* The download and its checks.
Fetch ==
  /\ refresh.pc = "waiting" /\ due = 0
  /\ IF Accepted(source)
     THEN refresh' = [pc |-> "parsed",
                      next |-> [airports |-> {r.ident : r \in Listed(source)}, age |-> 0]]
     ELSE Goto("failed")
  /\ UNCHANGED <<source, cache, snapshot, lastErr, due, failures>>

\* No answer, another status, too large or cut off.
FetchError ==
  /\ refresh.pc = "waiting" /\ due = 0
  /\ Failure /\ Goto("failed")
  /\ UNCHANGED <<source, cache, snapshot, lastErr, due>>

\* Mutant: the snapshot is published before it is on disk.
PersistLate ==
  /\ refresh.pc = "parsed"
  /\ snapshot' = refresh.next
  /\ Goto("renamed")
  /\ UNCHANGED <<source, cache, lastErr, due, failures>>

\* persist: a temporary file is written, synced and renamed over the cache.
Persist ==
  /\ refresh.pc = "parsed"
  /\ cache' = refresh.next
  /\ Goto("renamed")
  /\ UNCHANGED <<source, snapshot, lastErr, due, failures>>

\* A step of persist before the rename fails, or the rename.
PersistError ==
  /\ refresh.pc = "parsed"
  /\ Failure /\ Goto("failed")
  /\ UNCHANGED <<source, cache, snapshot, lastErr, due>>

Publish ==
  /\ refresh.pc = "renamed"
  /\ snapshot' = refresh.next
  /\ Goto("done")
  /\ UNCHANGED <<source, cache, lastErr, due, failures>>

\* Mutant: the loop ends with the first refresh that fails.
FinishOrGiveUp ==
  /\ refresh.pc = "done"
  /\ lastErr' = FALSE
  /\ due' = Period
  /\ refresh' = Idle
  /\ UNCHANGED <<source, cache, snapshot, failures>>

\* The deferred update of lastErr, under a lock section of its own, and the
\* timer of the next refresh.
Finish ==
  /\ refresh.pc \in {"done", "failed"}
  /\ lastErr' = (refresh.pc = "failed")
  /\ due' = IF refresh.pc = "failed" THEN RetryDelay ELSE Period
  /\ refresh' = Idle
  /\ UNCHANGED <<source, cache, snapshot, failures>>

\* The service dies and New loads the cache; the loop refreshes at once.
Restart ==
  /\ Failure
  /\ snapshot' = cache
  /\ lastErr' = FALSE
  /\ refresh' = Idle /\ due' = 0
  /\ UNCHANGED <<source, cache>>

\* The publisher replaces the file.
Release ==
  /\ source' \in Files \ {source}
  /\ UNCHANGED <<cache, snapshot, lastErr, refresh, due, failures>>

Older(s) == IF s.airports # {} /\ s.age <= OldAge THEN [s EXCEPT !.age = @ + 1] ELSE s

Tick ==
  /\ refresh.pc = "waiting" /\ due > 0
  /\ due' = due - 1
  /\ cache' = Older(cache) /\ snapshot' = Older(snapshot)
  /\ UNCHANGED <<source, lastErr, refresh, failures>>

\* GET /v1/airports: 503 without a catalog, else the snapshot and its mark.
Unavailable == snapshot.airports = {}
MarkedStale == lastErr \/ snapshot.age > OldAge

CatalogNext ==
  \/ Fetch \/ FetchError \/ Persist \/ PersistError \/ Publish \/ Finish
  \/ Restart \/ Release \/ Tick

CatalogSpec == CatalogInit /\ [][CatalogNext]_catalogVars

\* The loop goes on as long as the service runs.
CatalogFairness == WF_catalogVars(Fetch \/ Persist \/ Publish \/ Finish \/ Tick)

LiveCatalogSpec == CatalogSpec /\ CatalogFairness

-----------------------------------------------------------------------------
\* Readers never lose what they were served: whenever the service dies, the
\* catalog New loads is the one in memory or the one about to replace it, and
\* a failed or truncated refresh changes neither.
ServedIsStored ==
  snapshot # cache => refresh.pc = "renamed" /\ cache = refresh.next

\* A catalog once served stays available and plausible, through failed
\* refreshes, bad files and restarts: a file that is cut short never takes its
\* place, be it empty or not, in memory or by way of the disk.
StaysAvailable ==
  [][~Unavailable => Cardinality(snapshot'.airports) >= Minimum]_catalogVars

\* If the publisher's files are acceptable from some time on, the answers are
\* in the end available and free of the stale mark for good: a failure is
\* retried, and a refresh comes before its predecessor is too old.
BecomesFresh ==
  <>[]Accepted(source) => <>[](~Unavailable /\ ~MarkedStale)
=============================================================================
