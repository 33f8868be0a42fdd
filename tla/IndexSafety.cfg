\* Two clients and the timer; every storage call may fail.
SPECIFICATION Spec
CONSTANTS
    Charts = {c1, c2}
    Invalid = {}
    InitialCharts = {c1}
    Clients = {p1, p2}
    Refreshers = {t1}
    IndexIds <- MCIndexIds
    Listener = listener
    Nobody = nobody
    None = none
    Failed = failed
    AlwaysRegenerate = FALSE
    CanOverwrite = TRUE
    UseStatefiles = FALSE
    Primed = TRUE
    EventCap = 0
    Tolerance = 0
    Manual = FALSE
    Faults = TRUE
    DeletesAbsent = TRUE
    MaxWrites = 2
    MaxRestarts = 0
SYMMETRY MCClientSymmetry
INVARIANTS TypeOK MutatorsHoldLock OneLister RawMatchesEntries ReadsNotStale
PROPERTIES GeneratedNeverGoesBack
