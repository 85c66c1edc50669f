--------------------------- MODULE MCFootTraffic ---------------------------
(* Small instances of FootTraffic and TrafficReport for TLC. *)
EXTENDS TrafficReport, TLC

CONSTANTS b1, b2, z1, z2

Cell(z, t, n) == [zone |-> z, start |-> t, count |-> n]

\* Batches that overlap, that disagree on a window or reuse an ID with other
\* content, and ones with an unknown zone, a contradiction or no window.
MCFeeds ==
  {[id |-> b1, windows |-> {Cell(z1, 0, 1)}],
   [id |-> b1, windows |-> {Cell(z1, 0, 1), Cell(z1, 1, 2)}],
   [id |-> b2, windows |-> {Cell(z1, 0, 1), Cell(z1, 1, 1)}],
   [id |-> b2, windows |-> {Cell(z1, 0, 2), Cell(z1, 1, 2)}],
   [id |-> b2, windows |-> {Cell(z2, 0, 1)}],
   [id |-> b2, windows |-> {Cell(z1, 0, 1), Cell(z1, 0, 2)}],
   [id |-> b2, windows |-> {}]}

Symmetric == Permutations(Session)
=============================================================================
