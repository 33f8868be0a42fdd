\* Every GET scans storage; a tenant below depth 0, two clients and no
\* timer, a crash anywhere, any statefile, storage changed by hand.
SPECIFICATION ReadsSpec
CONSTANTS
    Charts = {c1}
    Invalid = {}
    InitialCharts = {c1}
    Clients = {p1, p2}
    Refreshers = {}
    IndexIds <- MCIndexIds
    Listener = listener
    Nobody = nobody
    None = none
    Failed = failed
    AlwaysRegenerate = TRUE
    CanOverwrite = TRUE
    UseStatefiles = TRUE
    Primed = FALSE
    EventCap = 0
    Tolerance = 0
    Manual = TRUE
    Faults = FALSE
    DeletesAbsent = FALSE
    MaxWrites = 2
    MaxRestarts = 1
SYMMETRY MCClientSymmetry
INVARIANTS ReadListsStorage StaleOnlyBehindItsDate RawMatchesEntries
