----------------------------- MODULE MCReaders -----------------------------
(* Small instances of Readers for TLC. *)
EXTENDS Readers

CONSTANTS c1, s1, s2

MCBudget == [c \in Campaign |-> 3]

\* Two screens of one campaign, with different costs.
MCRequests == {[campaign |-> c1, screen |-> s1, cost |-> 1],
               [campaign |-> c1, screen |-> s2, cost |-> 2]}

\* A receipt matches a reservation on s1 and is quarantined for one on s2.
MCReceipts == [reservation : Key, screen : {s1}, offset : {0}, sound : {TRUE}]

Symmetric == Permutations(Key) \cup Permutations(Event)
=============================================================================
