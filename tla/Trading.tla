------------------------------ MODULE Trading -------------------------------
(***************************************************************************)
(* The sources of orders: the strategies of src/src/strategy and the       *)
(* execution algorithms of src/src/execution.  They share no state, so a   *)
(* behaviour runs one of them, and of the others one initial state is      *)
(* enough.                                                                 *)
(***************************************************************************)
EXTENDS Strategies, ExecutionAlgos

VARIABLE trader     \* what runs

tradingVars == <<trader, vars, algosVars>>

\* An algorithm that is not run: one choice of what its constructor fixes.
Idle ==
    /\ algo = "POV" /\ total = Max(Totals) /\ slices = Max(SliceCounts)
    /\ \A i \in DOMAIN profile : profile[i] = Max(Weights)

TradingInit ==
    /\ trader \in {"strategy", "algo"}
    /\ Init /\ AlgosInit
    /\ IF trader = "strategy" THEN Idle ELSE kind = "StatArb"

TradingNext ==
    /\ UNCHANGED trader
    /\ \/ trader = "strategy" /\ Next /\ UNCHANGED algosVars
       \/ trader = "algo" /\ AlgosNext /\ UNCHANGED vars

\* Fairness of the algorithms' clock and ticks only.
TradingSpec == TradingInit /\ [][TradingNext]_tradingVars /\ AlgosFairness
=============================================================================
