\* Two clients overwrite a package of a server whose every GET scans storage.
SPECIFICATION ReadsSpec
CONSTANTS
    Charts = {c1}
    Invalid = {}
    InitialCharts = {c1}
    Clients = {p1, p2}
    Refreshers = {}
    IndexIds <- MCIndexIds
    Listener = listener
    Nobody = nobody
    None = none
    Failed = failed
    AlwaysRegenerate = TRUE
    CanOverwrite = TRUE
    UseStatefiles = FALSE
    Primed = TRUE
    EventCap = 0
    Tolerance = 0
    Manual = FALSE
    Faults = FALSE
    DeletesAbsent = TRUE
    MaxWrites = 3
    MaxRestarts = 0
SYMMETRY MCClientSymmetry
INVARIANTS ReadShowsStoredDigests
