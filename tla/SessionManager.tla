--------------------------- MODULE SessionManager ---------------------------
(***************************************************************************)
(* SessionManager (src/src/connectivity/session_manager.cpp): a heartbeat  *)
(* thread polls the gateway, backs off exponentially while it is down, and *)
(* sleeps on a condition variable that stop() is meant to interrupt.       *)
(*                                                                         *)
(* One controlling thread calls start and stop.  wait_for with a predicate *)
(* is a loop: test the predicate under the mutex, then block and release   *)
(* the mutex in one step; woken by a notification or by the timeout it     *)
(* tests the predicate again.  stop() notifies without taking the mutex.   *)
(***************************************************************************)
EXTENDS Integers

CONSTANTS MinBackoff,   \* kMinBackoffMs
          MaxBackoff,   \* kMaxBackoffMs
          MaxCount,     \* bound: reconnect_count_ saturates here
          MaxStarts     \* bound: calls of start

ASSUME BackoffAssumption ==
    /\ MinBackoff \in Nat \ {0} /\ MaxBackoff \in Nat
    /\ MinBackoff <= MaxBackoff /\ MaxCount \in Nat /\ MaxStarts \in Nat

VARIABLES connected,   \* IGateway::is_connected(), changes at any time
          running,     \* running_
          state,       \* state_
          count,       \* reconnect_count_
          backoff,     \* backoff_ms, local to the heartbeat thread
          hbPc,        \* heartbeat thread
          hbUp,        \* whether the current wait is the connected one
          ctlPc,       \* controlling thread
          starts       \* calls of start so far

hbVars == <<backoff, hbPc, hbUp, count>>
vars == <<connected, running, state, hbVars, ctlPc, starts>>

MinOf(a, b) == IF a < b THEN a ELSE b

Init ==
    /\ connected \in BOOLEAN
    /\ running = FALSE
    /\ state = "DISCONNECTED"
    /\ count = 0
    /\ backoff = MinBackoff /\ hbPc = "dead" /\ hbUp = FALSE
    /\ ctlPc = "idle"
    /\ starts = 0

\* The link goes up or down (external).
LinkChanges ==
    /\ connected' = ~connected
    /\ UNCHANGED <<running, state, hbVars, ctlPc, starts>>

-----------------------------------------------------------------------------
\* start(): exchange running_; already running: nothing else happens.
StartExchange ==
    /\ ctlPc = "idle" /\ starts < MaxStarts
    /\ running' = TRUE
    /\ ctlPc' = IF running THEN "idle" ELSE "connecting"
    /\ starts' = starts + 1
    /\ UNCHANGED <<connected, state, hbVars>>

StartStores ==
    /\ ctlPc = "connecting"
    /\ state' = "CONNECTING"
    /\ ctlPc' = "spawn"
    /\ UNCHANGED <<connected, running, hbVars, starts>>

StartSpawns ==
    /\ ctlPc = "spawn"
    /\ hbPc' = "loop"
    /\ backoff' = MinBackoff
    /\ ctlPc' = "idle"
    /\ UNCHANGED <<connected, running, state, count, hbUp, starts>>

\* Mutant: stop() tests running_ and does not clear it.
StopExchangeKeeps ==
    /\ ctlPc = "idle" /\ running
    /\ ctlPc' = "notify"
    /\ UNCHANGED <<connected, running, state, hbVars, starts>>

\* stop(): exchange running_, notify, join, store DISCONNECTED.
StopExchange ==
    /\ ctlPc = "idle" /\ running
    /\ running' = FALSE
    /\ ctlPc' = "notify"
    /\ UNCHANGED <<connected, state, hbVars, starts>>

StopNotifies ==
    /\ ctlPc = "notify"
    /\ hbPc' = IF hbPc = "blocked" THEN "woken" ELSE hbPc
    /\ ctlPc' = "join"
    /\ UNCHANGED <<connected, running, state, backoff, hbUp, count, starts>>

\* Mutant: the thread is not joined before the state is stored.
StopDetaches ==
    /\ ctlPc = "join"
    /\ state' = "DISCONNECTED"
    /\ ctlPc' = "idle"
    /\ UNCHANGED <<connected, running, hbVars, starts>>

StopJoins ==
    /\ ctlPc = "join" /\ hbPc = "dead"
    /\ state' = "DISCONNECTED"
    /\ ctlPc' = "idle"
    /\ UNCHANGED <<connected, running, hbVars, starts>>

-----------------------------------------------------------------------------
\* heartbeat_loop: the loop condition.
Loop ==
    /\ hbPc = "loop"
    /\ hbPc' = IF running THEN "poll" ELSE "dead"
    /\ UNCHANGED <<connected, running, state, backoff, hbUp, count, ctlPc, starts>>

\* Mutant: the state is left as it is when the link is down.
PollDownSilent ==
    /\ hbPc = "poll" /\ ~connected
    /\ count' = MinOf(count + 1, MaxCount)
    /\ hbUp' = FALSE
    /\ hbPc' = "test"
    /\ UNCHANGED <<connected, running, state, backoff, ctlPc, starts>>

\* The gateway is up: CONNECTED, back-off reset.
PollUp ==
    /\ hbPc = "poll" /\ connected
    /\ state' = "CONNECTED"
    /\ backoff' = MinBackoff
    /\ hbUp' = TRUE
    /\ hbPc' = "test"
    /\ UNCHANGED <<connected, running, count, ctlPc, starts>>

\* The gateway is down: RECONNECTING, one more attempt.
PollDown ==
    /\ hbPc = "poll" /\ ~connected
    /\ state' = "RECONNECTING"
    /\ count' = MinOf(count + 1, MaxCount)
    /\ hbUp' = FALSE
    /\ hbPc' = "test"
    /\ UNCHANGED <<connected, running, backoff, ctlPc, starts>>

Doubled(b) == MinOf(b * 2, MaxBackoff)

\* After the wait the back-off is doubled if the gateway was down.
LeaveWait ==
    /\ hbPc' = "loop"
    /\ backoff' = IF hbUp THEN backoff ELSE Doubled(backoff)

\* wait_for: the predicate, under the mutex.
TestPredicate ==
    /\ hbPc \in {"test", "woken"}
    /\ IF running
       THEN hbPc' = "enter" /\ backoff' = backoff
       ELSE LeaveWait
    /\ UNCHANGED <<connected, running, state, hbUp, count, ctlPc, starts>>

\* wait_for: release the mutex and block.
Block ==
    /\ hbPc = "enter"
    /\ hbPc' = "blocked"
    /\ UNCHANGED <<connected, running, state, backoff, hbUp, count, ctlPc, starts>>

\* wait_for: the interval or the back-off is over.
Timeout ==
    /\ hbPc = "blocked"
    /\ LeaveWait
    /\ UNCHANGED <<connected, running, state, hbUp, count, ctlPc, starts>>

Control == StartExchange \/ StartStores \/ StartSpawns
           \/ StopExchange \/ StopNotifies \/ StopJoins
Heartbeat == Loop \/ PollUp \/ PollDown \/ TestPredicate \/ Block \/ Timeout

Next == LinkChanges \/ Control \/ Heartbeat

Spec == Init /\ [][Next]_vars

\* Threads run and timers fire; nobody is obliged to call start or stop, and
\* the link owes nothing.
Fairness ==
    /\ WF_vars(Heartbeat)
    /\ WF_vars(StartStores) /\ WF_vars(StartSpawns)
    /\ WF_vars(StopNotifies) /\ WF_vars(StopJoins)

-----------------------------------------------------------------------------
\* Once stop() has returned the manager is DISCONNECTED and stays so until the
\* next start: no late store of the heartbeat thread overwrites the state.
StoppedIsDisconnected ==
    ctlPc = "idle" /\ ~running => state = "DISCONNECTED" /\ hbPc = "dead"

\* stop() returns: the join ends, if need be after the time-out of the wait.
StopReturns == ctlPc = "notify" ~> ctlPc = "idle"

\* A link that stays down while the heartbeat thread runs is reported as
\* RECONNECTING, and one that stays up as CONNECTED, although the thread
\* mostly sleeps.
LinkIsReported ==
    /\ (hbPc # "dead" /\ ~connected)
           ~> (state = "RECONNECTING" \/ connected \/ ~running)
    /\ (hbPc # "dead" /\ connected)
           ~> (state = "CONNECTED" \/ ~connected \/ ~running)
=============================================================================
