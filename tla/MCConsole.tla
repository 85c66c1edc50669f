----------------------------- MODULE MCConsole -----------------------------
(***************************************************************************)
(* Model-checking instance of the console with its pages.                  *)
(***************************************************************************)
EXTENDS ConsolePages, TLC

CONSTANTS d1, d2, d3

\* Two receipts are in the recovery queue, one is still to come.
MCInitials == {(d1 :> "quarantined") @@ (d2 :> "quarantined") @@ (d3 :> "absent")}

=============================================================================
