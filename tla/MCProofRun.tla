----------------------------- MODULE MCProofRun -----------------------------
(* Small instances of ProofRun for TLC. *)
EXTENDS ProofRun

CONSTANTS c1, s1, s2

\* Room for the two plays and, if one of them is not held, for another client.
MCBudget == [c \in Campaign |-> 2]

MCPlay == [campaign |-> c1, screen |-> s1, cost |-> 1]

MCRequests == {MCPlay}
MCReceipts == {Body(e) : e \in Event}
=============================================================================
