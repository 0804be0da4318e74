------------------------------ MODULE Alerting ------------------------------
(***************************************************************************)
(* Alerting (src/src/monitor/alerting.cpp): fire() takes a timestamp,      *)
(* enters the alert into a bounded history under a mutex and, with a       *)
(* webhook, starts a detached thread that posts it.  A post may fail at    *)
(* any point, silently, and posts overtake each other.                     *)
(*                                                                         *)
(* An alert is its timestamp and its level; the texts, their JSON form and *)
(* the HTTP request are left out.                                          *)
(***************************************************************************)
EXTENDS Integers, Sequences, SequencesExt, FiniteSetsExt

CONSTANTS Callers,      \* threads that raise alerts
          AlertLevels,  \* the levels raised
          Webhook,      \* webhook_url_ is not empty
          MaxHistory,   \* kMaxHistory
          MaxAlerts     \* bound: alerts raised

ASSUME AlertingAssumption ==
    /\ AlertLevels # {} /\ Webhook \in BOOLEAN
    /\ MaxHistory \in Nat \ {0} /\ MaxAlerts \in Nat

VARIABLES history,  \* history_
          firing,   \* per caller: the steps it still has to make in fire()
          alert,    \* per caller: the alert it raises
          fired,    \* calls of fire() so far, their timestamps
          resolving,\* posts whose thread looks for a socket
          sending,  \* posts that hold one
          returned  \* history: what the calls of fire() that returned raised

alertVars == <<history, firing, alert, fired, resolving, sending, returned>>

\* earlier (history): the alerts whose fire() had returned when this one began.
NoAlert == [ts |-> 0, level |-> CHOOSE l \in AlertLevels : TRUE, earlier |-> {}]

AlertingInit ==
    /\ history = << >> /\ fired = 0
    /\ firing = [c \in Callers |-> "idle"] /\ alert = [c \in Callers |-> NoAlert]
    /\ resolving = {} /\ sending = {} /\ returned = {}

\* fire: the timestamp, then stderr.
FireStamps(c, level) ==
    /\ firing[c] = "idle" /\ fired < MaxAlerts
    /\ fired' = fired + 1
    /\ alert' = [alert EXCEPT ![c] = [ts |-> fired + 1, level |-> level,
                                      earlier |-> {a.ts : a \in returned}]]
    /\ firing' = [firing EXCEPT ![c] = "record"]
    /\ UNCHANGED <<history, resolving, sending, returned>>

\* Mutant: the room is made once the history is one too long.
TrimmedLate(h) == IF Len(h) > MaxHistory THEN Tail(h) ELSE h
Trimmed(h) == IF Len(h) >= MaxHistory THEN Tail(h) ELSE h

\* fire: under the mutex, make room and append.
FireRecords(c) ==
    /\ firing[c] = "record"
    /\ history' = Append(Trimmed(history), alert[c])
    /\ firing' = [firing EXCEPT ![c] = "post"]
    /\ UNCHANGED <<alert, fired, resolving, sending, returned>>

\* fire: send_async, if there is a webhook, and return.
FireReturns(c) ==
    /\ firing[c] = "post"
    /\ resolving' = IF Webhook THEN resolving \cup {alert[c]} ELSE resolving
    /\ returned' = returned \cup {alert[c]}
    /\ firing' = [firing EXCEPT ![c] = "idle"]
    /\ alert' = [alert EXCEPT ![c] = NoAlert]
    /\ UNCHANGED <<history, fired, sending>>

-----------------------------------------------------------------------------
\* do_http_post: no host, no address or no socket, and the thread ends.
PostFails(a) ==
    /\ a \in resolving
    /\ resolving' = resolving \ {a}
    /\ UNCHANGED <<history, firing, alert, fired, sending, returned>>

\* do_http_post: the socket is there, its timeouts are set.
PostOpens(a) ==
    /\ a \in resolving
    /\ resolving' = resolving \ {a}
    /\ sending' = sending \cup {a}
    /\ UNCHANGED <<history, firing, alert, fired, returned>>

\* do_http_post: connected and sent, wholly, partly or not at all; closed.
PostCloses(a) ==
    /\ a \in sending
    /\ sending' = sending \ {a}
    /\ UNCHANGED <<history, firing, alert, fired, resolving, returned>>

Posting == \E a \in resolving \cup sending : PostFails(a) \/ PostOpens(a) \/ PostCloses(a)
Fire ==
    \E c \in Callers :
        FireRecords(c) \/ FireReturns(c) \/ \E l \in AlertLevels : FireStamps(c, l)

-----------------------------------------------------------------------------
(***************************************************************************)
(* The history keeps the latest alerts in the order they were raised: it   *)
(* never exceeds its limit, an alert stands behind every one whose fire()  *)
(* returned before it began, and an alert that returned is missing only    *)
(* once MaxHistory others, none of them earlier, have pushed it out.       *)
(***************************************************************************)
AlertsAreKept ==
    /\ Len(history) <= MaxHistory
    /\ \A i, j \in DOMAIN history : i < j => history[j].ts \notin history[i].earlier
    /\ \A a \in returned :
        a \notin Range(history) =>
            /\ Len(history) = MaxHistory
            /\ \A b \in Range(history) : b.ts \notin a.earlier
=============================================================================
