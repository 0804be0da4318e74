---------------------------- MODULE PreTradeRisk ----------------------------
(***************************************************************************)
(* PreTradeRisk (src/src/risk/pre_trade_risk.cpp): check() asks the        *)
(* circuit breaker, the rate limiter and the position limits in this       *)
(* order and stops at the first refusal.  The three share no state and     *)
(* check() holds nothing from one call to the next, so each of them sees   *)
(* an interleaving of checks as one of its own behaviours: a behaviour     *)
(* exercises the one its part names.                                       *)
(***************************************************************************)
EXTENDS CircuitBreaker, RateLimiter, PositionLimits

VARIABLE part

riskVars == <<part, vars, rateVars, limitVars>>

RiskInit ==
    /\ part \in {"breaker", "limiter", "limits"}
    /\ Init
    /\ RateInit
    /\ LimitsInit

RiskNext ==
    /\ UNCHANGED part
    /\ \/ part = "breaker" /\ Next /\ UNCHANGED <<rateVars, limitVars>>
       \/ part = "limiter" /\ RateNext /\ UNCHANGED <<vars, limitVars>>
       \/ part = "limits" /\ LimitsNext /\ UNCHANGED <<vars, rateVars>>

\* A call that was entered returns.
RiskSpec ==
    /\ RiskInit /\ [][RiskNext]_riskVars
    /\ \A t \in Threads : WF_vars(Trip(t))
    /\ WF_vars(ResetState)
=============================================================================
