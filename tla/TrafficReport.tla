--------------------------- MODULE TrafficReport ---------------------------
(***************************************************************************)
(* The report of the measurement service (foottraffic.Store.Report): one   *)
(* query over the committed windows, and cells, totals and comparisons     *)
(* computed from its rows.                                                 *)
(***************************************************************************)
EXTENDS FootTraffic, FiniteSetsExt

CONSTANTS
  Span,       \* hours a report shows (6)
  Day,        \* distance of the hours it compares them with (24)
  Threshold   \* smallest count that is published (20)

ASSUME ReportAssumption == Span \in Nat /\ Day \in Nat /\ Threshold \in Nat \ {0}

\* Mutant: the count is set before it is compared with the threshold.
CellWithCount(W, z, t) ==
  LET found == {w.count : w \in {w \in W : w.zone = z /\ w.start = t}}
  IN  [status |-> IF found = {} THEN "missing"
                  ELSE IF \E n \in found : n >= Threshold THEN "reported"
                                                          ELSE "suppressed",
       count |-> found]

\* One cell from the rows W; its count is the set of the value, empty for null.
CellOf(W, z, t) ==
  LET found == {w.count : w \in {w \in W : w.zone = z /\ w.start = t}}
      shown == {n \in found : n >= Threshold}
  IN  [status |-> IF found = {} THEN "missing"
                  ELSE IF shown = {} THEN "suppressed" ELSE "reported",
       count |-> shown]

Hours == (hour - Span)..(hour - 1)

\* The change over the hours in which both cells have a count; the code's
\* percentage is this pair's quotient.
Summary(current, previous) ==
  LET released == {t \in Hours : current[t].status = "reported"}
      paired == {t \in Hours : current[t].count # {} /\ previous[t].count # {}}
      now == MapThenSumSet(LAMBDA t : SumSet(current[t].count), paired)
      before == MapThenSumSet(LAMBDA t : SumSet(previous[t].count), paired)
  IN  [current |-> current, previous |-> previous,
       published |-> MapThenSumSet(LAMBDA t : SumSet(current[t].count), released),
       comparable |-> Cardinality(paired),
       change |-> IF paired # {} /\ before > 0 THEN <<now - before, before>> ELSE <<>>]

\* The current cells of a zone are compared with those of the day before.
ZoneReport(W, z) ==
  Summary([t \in Hours |-> CellOf(W, z, t)], [t \in Hours |-> CellOf(W, z, t - Day)])

CellsWith(zones, status) ==
  {c \in KnownZone \X Hours : zones[c[1]].current[c[2]].status = status}

Totals(zones) ==
  [zones |-> zones,
   published |-> MapThenSumSet(LAMBDA z : zones[z].published, KnownZone),
   released |-> Cardinality(CellsWith(zones, "reported")),
   suppressed |-> Cardinality(CellsWith(zones, "suppressed")),
   missing |-> Cardinality(CellsWith(zones, "missing"))]

Report(W) == Totals([z \in KnownZone |-> ZoneReport(W, z)])

\* A count below the threshold has no influence on a report beyond being
\* suppressed: not on totals, comparisons or any later report in which the
\* window is one of the hours compared with.
SmallCountsHidden ==
  \A w \in windows : w.count < Threshold =>
    \A n \in 0..(Threshold - 1) :
      Report((windows \ {w}) \cup {[w EXCEPT !.count = n]}) = Report(windows)
=============================================================================
