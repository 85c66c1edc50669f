-------------------------- MODULE MCAirportCatalog --------------------------
(* Small instances of AirportCatalog for TLC. *)
EXTENDS AirportCatalog

Row(ident, listed, sound) == [ident |-> ident, listed |-> listed, sound |-> sound]

\* Two good files, one with an unsound row that is not listed; a file with an
\* unsound listed row, one with an identifier twice, and two cut short.
MCFiles ==
  {{Row("a", TRUE, TRUE), Row("b", TRUE, TRUE), Row("c", FALSE, FALSE)},
   {Row("a", TRUE, TRUE), Row("b", FALSE, TRUE), Row("c", TRUE, TRUE)},
   {Row("a", TRUE, TRUE), Row("b", TRUE, TRUE), Row("c", TRUE, FALSE)},
   {Row("a", TRUE, TRUE), Row("b", TRUE, TRUE), Row("b", TRUE, FALSE)},
   {Row("a", TRUE, TRUE)}, {}}
=============================================================================
