------------------------------ MODULE MCStore ------------------------------
(* Small instances of Store for TLC. *)
EXTENDS Store, TLC

CONSTANTS c1, s1, s2

MCBudget == [c \in Campaign |-> 3]

\* A request of which the budget covers one and not two.
MCRequests == {[campaign |-> c1, screen |-> s1, cost |-> 2]}

\* Receipts that settle a hold of either key once the clock has caught up with
\* them, receipts from after the end of the window, and one from the other
\* screen for a reservation that does not exist.
MCReceipts ==
  [reservation : Key, screen : {s1}, offset : {1, 2}, sound : {TRUE}] \cup
  {[reservation |-> Unknown, screen |-> s2, offset |-> 1, sound |-> TRUE]}

Symmetric == Permutations(Key) \cup Permutations(Event)
=============================================================================
