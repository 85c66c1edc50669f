---------------------------- MODULE MCAdmission ----------------------------
(* Small instances of Admission for TLC. *)
EXTENDS Admission

CONSTANTS a, b, big, junk

R(event, body) == [event |-> event, body |-> body]

MCReceipts == {R("e1", 1), R("e1", 2), R("e2", 1)}

\* Two batches that share an event, one of them with another content for the
\* other's event, and one that is too long.
MCLoad ==
  [c \in Client |->
    CASE c = a -> <<R("e1", 1), junk, R("e2", 1)>>
      [] c = b -> <<R("e2", 1), R("e1", 2)>>
      [] OTHER -> <<junk, junk, junk, junk>>]
=============================================================================
