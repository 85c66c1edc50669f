----------------------------- MODULE Settlement -----------------------------
(***************************************************************************)
(* What the ledger promises, without counters, receipts, clocks or queues: *)
(* a hold is placed only if the campaign's budget covers it together with  *)
(* everything already held or paid, and each hold is then either charged   *)
(* once or returned once.  Store implements this specification.            *)
(***************************************************************************)
EXTENDS Integers, FiniteSets

CONSTANTS Campaign, Budget, Key, MaxCost

VARIABLE book   \* the hold of each key, or NoHold

NoHold == [state |-> "none"]

\* The part of campaign c's budget that is held or paid, one element per unit.
Committed(c) ==
  {u \in Key \X (1..MaxCost) :
     /\ book[u[1]].state \in {"held", "settled"}
     /\ book[u[1]].campaign = c
     /\ u[2] <= book[u[1]].cost}

Init == book = [k \in Key |-> NoHold]

Hold(k, c, n) ==
  /\ book[k].state = "none"
  /\ Cardinality(Committed(c)) + n <= Budget[c]
  /\ book' = [book EXCEPT ![k] = [state |-> "held", campaign |-> c, cost |-> n]]

Resolve(k, state) ==
  /\ book[k].state = "held"
  /\ book' = [book EXCEPT ![k].state = state]

Next ==
  \E k \in Key :
    \/ \E c \in Campaign, n \in 1..MaxCost : Hold(k, c, n)
    \/ Resolve(k, "settled")
    \/ Resolve(k, "released")

Spec == Init /\ [][Next]_book
=============================================================================
