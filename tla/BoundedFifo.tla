---------------------------- MODULE BoundedFifo ----------------------------
(***************************************************************************)
(* What a bounded lock-free queue of src/infra promises its callers: a     *)
(* FIFO of at most N values.  An accepted value is delivered exactly once, *)
(* in the order of acceptance; a refused push and an unsuccessful pop      *)
(* change nothing.  SpscQueue and MpscQueue implement this specification.  *)
(***************************************************************************)
EXTENDS Naturals, Sequences

CONSTANTS N,         \* capacity
          Values     \* what can be queued

VARIABLES q,         \* accepted and not yet delivered values, oldest first
          out        \* the value delivered last

fifoVars == <<q, out>>

FifoInit ==
    /\ q = << >>
    /\ out \in Values

Put(v) ==
    /\ Len(q) < N
    /\ q' = Append(q, v)
    /\ out' = out

Take ==
    /\ q # << >>
    /\ out' = Head(q)
    /\ q' = Tail(q)

FifoNext == Take \/ \E v \in Values : Put(v)

FifoSpec == FifoInit /\ [][FifoNext]_fifoVars
=============================================================================
