------------------------------ MODULE Monitor ------------------------------
(***************************************************************************)
(* The monitoring objects of src/src/monitor, each used by worker threads  *)
(* and read by the monitor thread without stopping anybody.  They share    *)
(* nothing, so a behaviour exercises one of them.                          *)
(***************************************************************************)
EXTENDS LatencyTracker, Histogram, Alerting

VARIABLE object     \* the object that is used

monitorVars == <<object, latencyVars, histogramVars, alertVars>>

MonitorInit ==
    /\ object \in {"latency", "histogram", "alerting"}
    /\ LatencyInit /\ HistogramInit /\ AlertingInit

MonitorNext ==
    \/ object = "latency" /\ Latency /\ UNCHANGED <<object, histogramVars, alertVars>>
    \/ object = "histogram" /\ Measure /\ UNCHANGED <<object, latencyVars, alertVars>>
    \/ object = "alerting" /\ (Fire \/ Posting)
         /\ UNCHANGED <<object, latencyVars, histogramVars>>

MonitorSpec == MonitorInit /\ [][MonitorNext]_monitorVars
=============================================================================
