\* The first request of a tenant is an upload.
SPECIFICATION ReadsSpec
CONSTANTS
    Charts = {c1, c2}
    Invalid = {}
    InitialCharts = {c1}
    Clients = {p1}
    Refreshers = {}
    IndexIds <- MCIndexIds
    Listener = listener
    Nobody = nobody
    None = none
    Failed = failed
    AlwaysRegenerate = FALSE
    CanOverwrite = TRUE
    UseStatefiles = FALSE
    Primed = FALSE
    EventCap = 0
    Tolerance = 0
    Manual = FALSE
    Faults = FALSE
    DeletesAbsent = TRUE
    MaxWrites = 3
    MaxRestarts = 0
INVARIANTS ReadListsStorage
