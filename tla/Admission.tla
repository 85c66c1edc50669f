----------------------------- MODULE Admission -----------------------------
(***************************************************************************)
(* Admission of mutations and the batch endpoint                           *)
(* (internal/httpapi/server.go, internal/httpapi/batch.go): a token bucket *)
(* that charges every mutation one token and a batch the rest of its       *)
(* items, slots for requests being served, and receipts accepted one by    *)
(* one, each by a transaction of its own.                                  *)
(*                                                                         *)
(* A client sends one list of receipts again and again, unchanged, until   *)
(* an answer has no receipt to retry.  Several clients may send the same   *)
(* event, with the same or another content.  The bucket's lazy refill is   *)
(* modelled by adding the tokens when the second passes.                   *)
(***************************************************************************)
EXTENDS Integers, Sequences, FiniteSets

CONSTANTS
  Client,
  Receipt,     \* well-formed receipts: an event ID and a content
  Unusable,    \* items that are no receipt: refused with 400 or 422
  Load,        \* the list of items each client sends
  Burst,       \* most tokens in the bucket (60)
  Rate,        \* tokens per second (30)
  Slots,       \* requests served at a time (64)
  MaxBatch,    \* most items in a batch (50)
  MaxMishaps   \* bound of the model: failed Accept calls, lost answers, crashes

ASSUME AdmissionAssumption ==
  /\ IsFiniteSet(Client)
  /\ Receipt \cap Unusable = {}
  /\ Load \in [Client -> Seq(Receipt \cup Unusable)]
  /\ \A c \in Client : Len(Load[c]) >= 1
  /\ {Burst, Rate, Slots, MaxBatch} \subseteq Nat \ {0}
  /\ MaxMishaps \in Nat

VARIABLES
  tokens,    \* Server.tokens
  slots,     \* length of the channel slots
  calls,     \* the request of each client
  accepted,  \* receipts with a delivery row
  credited,  \* per receipt: how often a client read that it is newly accepted
  mishaps

admissionVars == <<tokens, slots, calls, accepted, credited, mishaps>>

Results == {"fresh", "replayed", "refused", "retry"}
Resting == {"ready", "waiting", "finished"}

\* The bucket stays within its limits, the slots count the requests being
\* served and never exceed their number, and results are given in order.
AdmissionTypeOK ==
  /\ tokens \in 0..Burst
  /\ \A c \in Client :
       /\ calls[c].pc \in Resting \cup {"charged", "serving", "writing", "answering"}
       /\ calls[c].results \in Seq(Results) /\ calls[c].paid \in Int
       /\ Len(calls[c].results) <= Len(Load[c])
  /\ slots = Cardinality({c \in Client : calls[c].pc \in {"serving", "writing"}})
  /\ slots <= Slots
  /\ accepted \subseteq Receipt
  /\ credited \in [Receipt -> Nat]
  /\ mishaps \in 0..MaxMishaps

\* A request: paid is the number of tokens it was charged and has not used.
Call(pc, paid) == [pc |-> pc, paid |-> paid, results |-> <<>>]

AdmissionInit ==
  /\ tokens = Burst /\ slots = 0
  /\ calls = [c \in Client |-> Call("ready", 0)]
  /\ accepted = {}
  /\ credited = [r \in Receipt |-> 0]
  /\ mishaps = 0

-----------------------------------------------------------------------------
Items(c) == Len(Load[c])

Become(c, pc, paid) == calls' = [calls EXCEPT ![c] = Call(pc, paid)]

Mishap == mishaps < MaxMishaps /\ mishaps' = mishaps + 1

\* Middleware: one token, or 429 and the client waits as Retry-After says.
Arrive(c) ==
  /\ calls[c].pc = "ready"
  /\ IF tokens < 1
     THEN Become(c, "waiting", 0) /\ UNCHANGED tokens
     ELSE Become(c, "charged", 1) /\ tokens' = tokens - 1
  /\ UNCHANGED <<slots, accepted, credited, mishaps>>

\* A free slot, or 503 with the token spent.
TakeSlot(c) ==
  /\ calls[c].pc = "charged"
  /\ IF slots < Slots
     THEN Become(c, "serving", 1) /\ slots' = slots + 1
     ELSE Become(c, "waiting", 0) /\ UNCHANGED slots
  /\ UNCHANGED <<tokens, accepted, credited, mishaps>>

\* Mutant: a batch that is refused is charged all the same.
ChargeRefused(c) ==
  /\ calls[c].pc = "serving"
  /\ tokens' = IF tokens < Items(c) - 1 THEN 0 ELSE tokens - (Items(c) - 1)
  /\ IF tokens < Items(c) - 1
     THEN Become(c, "waiting", 0) /\ slots' = slots - 1
     ELSE Become(c, "writing", Items(c)) /\ UNCHANGED slots
  /\ UNCHANGED <<accepted, credited, mishaps>>

\* acceptBatch: too long a list is refused with 422 for good, and the rest of
\* the items is charged before any write, or the batch is refused with 429.
Charge(c) ==
  /\ calls[c].pc = "serving"
  /\ IF Items(c) > MaxBatch
     THEN Become(c, "finished", 0) /\ slots' = slots - 1 /\ UNCHANGED tokens
     ELSE IF tokens < Items(c) - 1
     THEN Become(c, "waiting", 0) /\ slots' = slots - 1 /\ UNCHANGED tokens
     ELSE Become(c, "writing", Items(c)) /\ tokens' = tokens - (Items(c) - 1) /\ UNCHANGED slots
  /\ UNCHANGED <<accepted, credited, mishaps>>

\* The result of one item; a call of Accept uses a token.
Report(c, result, used) ==
  calls' = [calls EXCEPT ![c].results = Append(@, result), ![c].paid = @ - used]

Item(c) == Load[c][Len(calls[c].results) + 1]

Writing(c) == calls[c].pc = "writing" /\ Len(calls[c].results) < Items(c)

\* An item that does not decode or validate: Accept writes nothing.
RefuseItem(c) ==
  /\ Writing(c) /\ Item(c) \in Unusable
  /\ Report(c, "refused", 0)
  /\ UNCHANGED <<tokens, slots, accepted, credited, mishaps>>

\* Mutant: every accepted item is answered as a new one.
AcceptItemAsNew(c) ==
  /\ Writing(c) /\ Item(c) \in Receipt
  /\ Report(c, "fresh", 1)
  /\ accepted' = accepted \cup {Item(c)}
  /\ UNCHANGED <<tokens, slots, credited, mishaps>>

\* An event accepted with another content.
Conflicts(r) == \E q \in accepted : q.event = r.event /\ q # r

\* Accept commits the receipt, or finds that it was committed before, or that
\* its event was with another content.
AcceptItem(c) ==
  /\ Writing(c) /\ Item(c) \in Receipt
  /\ Report(c, IF Conflicts(Item(c)) THEN "refused"
               ELSE IF Item(c) \in accepted THEN "replayed" ELSE "fresh", 1)
  /\ accepted' = IF Conflicts(Item(c)) THEN accepted ELSE accepted \cup {Item(c)}
  /\ UNCHANGED <<tokens, slots, credited, mishaps>>

\* Accept fails, before or after its commit: the item is to be retried, and
\* the batch goes on with the next one.
AcceptError(c) ==
  /\ Writing(c) /\ Item(c) \in Receipt
  /\ Mishap
  /\ Report(c, "retry", 1)
  /\ \/ UNCHANGED accepted
     \/ ~Conflicts(Item(c)) /\ accepted' = accepted \cup {Item(c)}
  /\ UNCHANGED <<tokens, slots, credited>>

\* The handler returns and frees its slot: 202 or 207 with one result per item.
Respond(c) ==
  /\ calls[c].pc = "writing" /\ Len(calls[c].results) = Items(c)
  /\ calls' = [calls EXCEPT ![c].pc = "answering"]
  /\ slots' = slots - 1
  /\ UNCHANGED <<tokens, accepted, credited, mishaps>>

\* The client reads the answer and is done unless it has something to retry.
ReadAnswer(c) ==
  /\ calls[c].pc = "answering"
  /\ credited' = [r \in Receipt |-> credited[r] +
       Cardinality({i \in 1..Items(c) : Load[c][i] = r /\ calls[c].results[i] = "fresh"})]
  /\ Become(c, IF \E i \in 1..Items(c) : calls[c].results[i] = "retry"
               THEN "waiting" ELSE "finished", 0)
  /\ UNCHANGED <<tokens, slots, accepted, mishaps>>

\* The answer gets lost: the client sends the same list again.
LoseResults(c) ==
  /\ calls[c].pc = "answering" /\ Mishap
  /\ Become(c, "waiting", 0)
  /\ UNCHANGED <<tokens, slots, accepted, credited>>

\* The server dies and restarts with a full bucket.
ServerDies ==
  /\ Mishap
  /\ tokens' = Burst /\ slots' = 0
  /\ calls' = [c \in Client |->
       IF calls[c].pc \in {"charged", "serving", "writing"} THEN Call("waiting", 0) ELSE calls[c]]
  /\ UNCHANGED <<accepted, credited>>

\* A second passes: the bucket fills up, and clients that waited try again.
Second ==
  /\ tokens' = IF tokens + Rate > Burst THEN Burst ELSE tokens + Rate
  /\ calls' = [c \in Client |-> IF calls[c].pc = "waiting" THEN Call("ready", 0) ELSE calls[c]]
  /\ UNCHANGED <<slots, accepted, credited, mishaps>>

Proceed(c) ==
  \/ Arrive(c) \/ TakeSlot(c) \/ Charge(c) \/ RefuseItem(c) \/ AcceptItem(c)
  \/ Respond(c) \/ ReadAnswer(c)

AdmissionNext ==
  \/ \E c \in Client : Proceed(c) \/ AcceptError(c) \/ LoseResults(c)
  \/ ServerDies \/ Second

AdmissionSpec == AdmissionInit /\ [][AdmissionNext]_admissionVars

\* Handlers run to their end, clients retry and time passes.
LiveAdmissionSpec ==
  /\ AdmissionSpec
  /\ \A c \in Client : WF_admissionVars(Proceed(c))
  /\ WF_admissionVars(Second)

-----------------------------------------------------------------------------
\* Batching does not multiply the admission budget: a request never calls
\* Accept more often than it was charged tokens.  And what the clients read
\* adds up: over all clients, retries, lost answers and crashes a receipt is
\* credited as new at most once, only if it is stored, and an event is stored
\* with one content.
CreditedOnce ==
  /\ AdmissionTypeOK
  /\ \A c \in Client : calls[c].paid >= 0
  /\ \A r \in Receipt : credited[r] <= 1 /\ (credited[r] = 1 => r \in accepted)
  /\ \A r, q \in accepted : r.event = q.event => r = q

\* A client that retries its list unchanged gets an answer without anything
\* left to retry, and then every event of the list is stored: a full batch is
\* not kept out for ever by the tokens its own attempts and others' cost.
BatchesFinish ==
  \A c \in Client :
    <>(/\ calls[c].pc = "finished"
       /\ Items(c) <= MaxBatch =>
            \A i \in 1..Items(c) :
              Load[c][i] \in Receipt => \E r \in accepted : r.event = Load[c][i].event)
=============================================================================
