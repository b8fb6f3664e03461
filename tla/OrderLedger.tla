----------------------------- MODULE OrderLedger ----------------------------
(***************************************************************************)
(* What the journal and the session promise an agent about one order:      *)
(* it is journaled before it is sent, sent at most once as a new message,  *)
(* and reported Written only after it was sent.  Crashes, errors,          *)
(* reconnects, sequence resets and retries are not visible here.           *)
(***************************************************************************)
EXTENDS Naturals

CONSTANT Requests

VARIABLES
  known,  \* what the journal says of a request
  copies  \* how often it was written to a socket as a new message

ledger == <<known, copies>>

LedgerTypeOK ==
  /\ known \in [Requests -> {"Unknown", "Journaled", "Written"}]
  /\ copies \in [Requests -> {0, 1}]

Init ==
  /\ known = [r \in Requests |-> "Unknown"]
  /\ copies = [r \in Requests |-> 0]

Accept(r) ==
  /\ known[r] = "Unknown"
  /\ known' = [known EXCEPT ![r] = "Journaled"]
  /\ UNCHANGED copies

Transmit(r) ==
  /\ known[r] = "Journaled" /\ copies[r] = 0
  /\ copies' = [copies EXCEPT ![r] = 1]
  /\ UNCHANGED known

Confirm(r) ==
  /\ known[r] = "Journaled" /\ copies[r] = 1
  /\ known' = [known EXCEPT ![r] = "Written"]
  /\ UNCHANGED copies

Next == \E r \in Requests : Accept(r) \/ Transmit(r) \/ Confirm(r)

Spec == Init /\ [][Next]_ledger
=============================================================================
