------------------------------ MODULE MCWorker ------------------------------
(* Small instances of Worker and Timing for TLC. *)
EXTENDS Timing

CONSTANTS c1, s1, s2

MCBudget == [c \in Campaign |-> 3]

MCRequests == {[campaign |-> c1, screen |-> s1, cost |-> 1]}

\* A receipt that settles its reservation and one for the wrong screen, which
\* is quarantined and may be replayed.
MCReceipts ==
  [reservation : Key, screen : {s1, s2}, offset : {0}, sound : {TRUE}]
=============================================================================
