------------------------------ MODULE RpcLedger ------------------------------
(***************************************************************************)
(* What the correlated exchanges of runtime_fd_broker.rs promise, without  *)
(* sockets, frames or tags: a ledger of requests.  A request is opened     *)
(* once, within two ceilings, and answered at most once, in any order; an  *)
(* answer may have to be confirmed before anything else moves; and after a *)
(* failure the ledger is closed for good.                                  *)
(***************************************************************************)
EXTENDS Naturals, FiniteSets

CONSTANTS
  Ids,         \* request identifiers
  MaxRequests, \* requests of a whole session
  MaxInFlight  \* requests open at one time

VARIABLES
  open,        \* received and not answered
  answered,    \* answered
  unconfirmed, \* the answer the peer has still to acknowledge
  closed       \* the exchange has failed

ledgerVars == <<open, answered, unconfirmed, closed>>

LedgerInit == open = {} /\ answered = {} /\ unconfirmed = {} /\ closed = FALSE

Moves == ~closed /\ unconfirmed = {}

Open(i) ==
  /\ Moves
  /\ i \notin open \cup answered
  /\ Cardinality(open) < MaxInFlight
  /\ Cardinality(open \cup answered) < MaxRequests
  /\ open' = open \cup {i}
  /\ UNCHANGED <<answered, unconfirmed, closed>>

Answer(i) ==
  /\ Moves
  /\ i \in open
  /\ open' = open \ {i}
  /\ answered' = answered \cup {i}
  /\ unconfirmed' \in {{}, {i}}
  /\ UNCHANGED closed

Confirm ==
  /\ ~closed /\ unconfirmed # {}
  /\ unconfirmed' = {}
  /\ UNCHANGED <<open, answered, closed>>

Close ==
  /\ ~closed /\ closed' = TRUE
  /\ UNCHANGED <<open, answered, unconfirmed>>

LedgerNext == (\E i \in Ids : Open(i) \/ Answer(i)) \/ Confirm \/ Close

LedgerSpec == LedgerInit /\ [][LedgerNext]_ledgerVars
==============================================================================
