\* A regeneration that gives up half-way, with the timer running.
SPECIFICATION FairSpec
CONSTANTS
    Charts = {c1, c2}
    Invalid = {}
    InitialCharts = {c1}
    Clients = {p1}
    Refreshers = {t1}
    IndexIds <- MCIndexIds
    Listener = listener
    Nobody = nobody
    None = none
    Failed = failed
    AlwaysRegenerate = FALSE
    CanOverwrite = TRUE
    UseStatefiles = FALSE
    Primed = TRUE
    EventCap = 0
    Tolerance = 0
    Manual = FALSE
    Faults = FALSE
    DeletesAbsent = FALSE
    MaxWrites = 2
    MaxRestarts = 0
PROPERTIES RawConverges
