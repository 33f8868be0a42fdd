\* A GET that scans storage, while the timer does.
SPECIFICATION ReadsSpec
CONSTANTS
    Charts = {c1}
    Invalid = {}
    InitialCharts = {}
    Clients = {p1}
    Refreshers = {t1}
    IndexIds <- MCIndexIds
    Listener = listener
    Nobody = nobody
    None = none
    Failed = failed
    AlwaysRegenerate = TRUE
    CanOverwrite = TRUE
    UseStatefiles = FALSE
    Primed = TRUE
    EventCap = 0
    Tolerance = 0
    Manual = FALSE
    Faults = FALSE
    DeletesAbsent = TRUE
    MaxWrites = 2
    MaxRestarts = 0
INVARIANTS ReadListsStorage
