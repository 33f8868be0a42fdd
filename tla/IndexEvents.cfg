\* Two clients change one package, without the timer.
SPECIFICATION ReadsSpec
CONSTANTS
    Charts = {c1, c2}
    Invalid = {}
    InitialCharts = {c1, c2}
    Clients = {p1, p2}
    Refreshers = {}
    IndexIds <- MCIndexIds
    Listener = listener
    Nobody = nobody
    None = none
    Failed = failed
    AlwaysRegenerate = FALSE
    CanOverwrite = TRUE
    UseStatefiles = FALSE
    Primed = TRUE
    EventCap = 0
    Tolerance = 0
    Manual = FALSE
    Faults = FALSE
    DeletesAbsent = TRUE
    MaxWrites = 3
    MaxRestarts = 0
SYMMETRY MCClientSymmetry
INVARIANTS ReadListsStorage
