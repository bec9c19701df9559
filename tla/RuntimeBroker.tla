---------------------------- MODULE RuntimeBroker ----------------------------
(***************************************************************************)
(* The capabilities a launcher can give a running target, next to each     *)
(* other: the grants themselves (FdBroker), the exchange in rounds         *)
(* (MessageExchange) and the correlated exchanges (CorrelatedExchange).    *)
(* Once it is granted, an exchange shares nothing with the channel it was  *)
(* granted over or with another exchange (each owns its socket pair), so a *)
(* behaviour uses one of them and the others rest in an initial state.     *)
(***************************************************************************)
EXTENDS FdBroker, MessageExchange, CorrelatedExchange

VARIABLE part

brokerVars == <<part, fdVars, mxVars, cxVars>>

BrokerInit ==
  /\ part \in {"grants", "rounds", "correlated"}
  /\ FdInit /\ (part # "grants" => role = "session" /\ kind = "file")
  /\ MxInit /\ (part # "rounds" => rounds = 1)
  /\ CxInit /\ (part # "correlated" => mode = "plain" /\ conduct = "any")

BrokerNext ==
  \/ part = "grants" /\ FdNext /\ UNCHANGED <<part, mxVars, cxVars>>
  \/ part = "rounds" /\ MxNext /\ UNCHANGED <<part, fdVars, cxVars>>
  \/ part = "correlated" /\ CxNext /\ UNCHANGED <<part, fdVars, mxVars>>

(* A call in progress goes on and time passes; a conforming application    *)
(* serves and a conforming target reads and asks.                          *)
BrokerFairness ==
  /\ WF_mxVars(part = "rounds" /\ CallStep /\ UNCHANGED <<part, fdVars, cxVars>>)
  /\ WF_mxVars(part = "rounds" /\ Clocks /\ UNCHANGED <<part, fdVars, cxVars>>)
  /\ WF_cxVars(part = "correlated" /\ HostNext /\ UNCHANGED <<part, fdVars, mxVars>>)
  /\ WF_cxVars(part = "correlated" /\ TargetNext /\ UNCHANGED <<part, fdVars, mxVars>>)

BrokerSpec == BrokerInit /\ [][BrokerNext]_brokerVars /\ BrokerFairness
==============================================================================
