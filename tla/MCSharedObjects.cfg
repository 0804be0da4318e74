CONSTANTS
    N <- MCN
    Mod <- MCMod
    Values = {v1, v2}
    Producers = {p1, p2, p3}
    Capacity = 2
    Payloads = {x1, x2}
    MaxAccepted = 4
    Recorders = {t1, t2}
    WindowSize = 2
    Percents = {0, 50, 99}
    MaxRecords = 4
    MaxResets = 1
    MaxReads = 2
    Observers = {t1, t2}
    Observables = {1, 2, 4}
    Boundaries <- MCBoundaries
    MaxObserved = 3
    MaxScrapes = 1
    Callers = {t1, t2}
    AlertLevels = {"WARN", "CRITICAL"}
    Webhook = TRUE
    MaxHistory = 2
    MaxAlerts = 4
SPECIFICATION SharedSpec
CHECK_DEADLOCK FALSE
INVARIANTS NoSlotRace SlotHasOneOwner PercentileIsRecent ScrapeIsBracketed AlertsAreKept
PROPERTIES ImplementsFifo FrontIsConsumed MpscImplementsFifo
