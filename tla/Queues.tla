------------------------------- MODULE Queues -------------------------------
(***************************************************************************)
(* The two lock-free queues of src/src/infra.  They share no state: a      *)
(* behaviour is one of the queue that queue names.                         *)
(***************************************************************************)
EXTENDS SpscQueue, MpscQueue

VARIABLE queue

queueVars == <<queue, vars, mpscVars>>

\* What the storage of a queue that is not used holds.
Unused == CHOOSE v \in Values : TRUE

QueuesInit ==
    /\ queue \in {"SPSC", "MPSC"}
    /\ Init /\ MpscInit
    /\ queue = "MPSC" => cval = Unused /\ pval = Unused /\ buffer = [i \in Slots |-> Unused]

QueuesNext ==
    /\ UNCHANGED queue
    /\ \/ queue = "SPSC" /\ Next /\ UNCHANGED mpscVars
       \/ queue = "MPSC" /\ MpscNext /\ UNCHANGED vars

QueuesSpec == QueuesInit /\ [][QueuesNext]_queueVars /\ Fairness
=============================================================================
