---------------------------- MODULE Connectivity ----------------------------
(***************************************************************************)
(* The connections of src/src/connectivity: a SessionManager that watches  *)
(* a gateway, and the two gateways that speak to an exchange.  All the     *)
(* manager uses of its gateway is is_connected(), which may change at any  *)
(* moment; that includes every history of either gateway, and the gateways *)
(* do not know the manager.  A behaviour exercises the one its part names. *)
(***************************************************************************)
EXTENDS SessionManager, FixSession, BinaryGateway

VARIABLE part

connectivityVars == <<part, vars, fixVars, binaryVars>>

ConnectivityInit ==
    /\ part \in {"manager", "fix", "binary"}
    /\ Init /\ FixInit /\ BinaryInit
    /\ part # "manager" => ~connected

ConnectivityNext ==
    /\ UNCHANGED part
    /\ \/ part = "manager" /\ Next /\ UNCHANGED <<fixVars, binaryVars>>
       \/ part = "fix" /\ FixNext /\ UNCHANGED <<vars, binaryVars>>
       \/ part = "binary" /\ BinaryNext /\ UNCHANGED <<vars, fixVars>>

\* The fairness of the manager's and of the FIX session's threads.
ConnectivitySpec ==
    /\ ConnectivityInit /\ [][ConnectivityNext]_connectivityVars
    /\ Fairness
    /\ FixFairness

-----------------------------------------------------------------------------
\* No thread waits for ever for another to end: stop() of the manager comes back
\* from its join, and run() of a FIX session that is no longer connected ends.
CallsReturn == StopReturns /\ RunReturns
=============================================================================
