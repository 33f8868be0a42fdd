\* Two clients' events in any order, and changes by hand, put right by
\* the timer.
SPECIFICATION FairSpec
CONSTANTS
    Charts = {c1}
    Invalid = {}
    InitialCharts = {}
    Clients = {p1, p2}
    Refreshers = {t1}
    IndexIds <- MCIndexIds
    Listener = listener
    Nobody = nobody
    None = none
    Failed = failed
    AlwaysRegenerate = FALSE
    CanOverwrite = TRUE
    UseStatefiles = FALSE
    Primed = TRUE
    EventCap = 0
    Tolerance = 0
    Manual = TRUE
    Faults = FALSE
    DeletesAbsent = FALSE
    MaxWrites = 2
    MaxRestarts = 0
PROPERTIES RequestsComplete EntriesConverge
