---------------------------- MODULE MCDemoReset ----------------------------
(* Small instances of DemoReset for TLC. *)
EXTENDS DemoReset, TLC

Symmetric == Permutations(Tab) \cup Permutations(Request)
=============================================================================
