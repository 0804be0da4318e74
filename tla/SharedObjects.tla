--------------------------- MODULE SharedObjects ----------------------------
(***************************************************************************)
(* The objects that threads share without one lock around them: the queues *)
(* of src/src/infra and the monitoring objects of src/src/monitor.  They   *)
(* share no state, so a behaviour exercises one of them, and of the others *)
(* one initial state is enough.                                            *)
(***************************************************************************)
EXTENDS Queues, Monitor

VARIABLE shared     \* what is exercised

sharedVars == <<shared, queueVars, monitorVars>>

SharedInit ==
    /\ shared \in {"queues", "monitor"}
    /\ QueuesInit /\ MonitorInit
    /\ shared = "queues" => object = "alerting"
    /\ shared = "monitor" => queue = "MPSC"

SharedNext ==
    /\ UNCHANGED shared
    /\ \/ shared = "queues" /\ QueuesNext /\ UNCHANGED monitorVars
       \/ shared = "monitor" /\ MonitorNext /\ UNCHANGED queueVars

\* Fairness of the queue's consumer only: nothing has to be recorded or read.
SharedSpec == SharedInit /\ [][SharedNext]_sharedVars /\ Fairness
=============================================================================
