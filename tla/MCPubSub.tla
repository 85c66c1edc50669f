------------------------------ MODULE MCPubSub ------------------------------
(* Small instances of PubSub for TLC. *)
EXTENDS PubSub, TLC

CONSTANTS c1, s1, s2, d1, d2, r1, r2

MCBudget == [c \in Campaign |-> 3]

MCRequests == {[campaign |-> c1, screen |-> s1, cost |-> 1]}

\* A receipt for an unknown reservation needs no hold: it is quarantined and
\* may be replayed.
MCReceipts ==
  [reservation : {Unknown}, screen : {s1}, offset : {0}, sound : {TRUE}]

OneHome == [r \in Receiver |-> d1]
=============================================================================
