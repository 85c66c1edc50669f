---------------------------- MODULE ConsolePages ----------------------------
(***************************************************************************)
(* The console with its assurance and intake pages on one engine.  A       *)
(* session is spent on the intake page or on the others; polling, calls    *)
(* that are under way and the engine go on beside either.                  *)
(***************************************************************************)
EXTENDS AssurancePage, IntakePage

pageVars == <<consoleVars, assuranceVars, intakeVars>>

PagesInit == ConsoleInit /\ AssuranceInit /\ IntakeInit

\* Handlers of a page that are driven by the console's own steps.
Follows == AssuranceFollows /\ IntakeFollows

PagesNext ==
  \/ ConsoleNext /\ Follows /\ (touches > 0 => clicks' = clicks)
  \/ AssuranceNext /\ touches = 0 /\ UNCHANGED intakeVars
  \/ IntakeNext /\ clicks = 0 /\ UNCHANGED assuranceVars

PollStep == \E i \in 1..Len(polls) : Polling(i)

\* The two-second timer keeps firing while the page is visible, and a refresh
\* is answered, given up after twelve seconds or lost.
PagesFairness == WF_pageVars(Timer /\ Follows) /\ WF_pageVars(PollStep /\ Follows)

PagesSpec == PagesInit /\ [][PagesNext]_pageVars /\ PagesFairness

-----------------------------------------------------------------------------
\* While automatic updates are on, the page catches up with the engine again
\* and again, whatever refreshes fail and whoever else refreshes.
PageCatchesUp ==
  []<>(~doc.live \/ (doc.state # None /\ doc.state.version = engine.version))

=============================================================================
