\* One request at a time without a timer; a crash may lose events, and one
\* file is not a chart package.  Statefiles are written; what a server that
\* was started from one lists is not asked.
SPECIFICATION Spec
CONSTANTS
    Charts = {c1, c3}
    Invalid = {c3}
    InitialCharts = {c1, c3}
    Clients = {p1}
    Refreshers = {}
    IndexIds <- MCIndexIds
    Listener = listener
    Nobody = nobody
    None = none
    Failed = failed
    AlwaysRegenerate = FALSE
    CanOverwrite = TRUE
    UseStatefiles = TRUE
    Primed = TRUE
    EventCap = 2
    Tolerance = 0
    Manual = FALSE
    Faults = FALSE
    DeletesAbsent = FALSE
    MaxWrites = 3
    MaxRestarts = 1
INVARIANTS IndexMatchesStorage
