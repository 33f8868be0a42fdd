\* Two uploads at once, evictions, failing storage calls.
SPECIFICATION Spec
CONSTANTS
    v1 = v1
    v2 = v2
    v3 = v3
    v4 = v4
    Clients = {p1, p2}
    Versions = {v1, v2, v3}
    ChartOf <- MCChartOf
    Guessed <- MCGuessed
    Parts = {"my", "chart", "1.0", "2.0", "2nd", "rc", "3.0", ""}
    Numbers = {"1.0", "2.0", "3.0", "2nd"}
    EmptyPart = ""
    Configs <- MCConfigs
    Nobody = nobody
    None = none
    MaxTime = 2
    MaxPending = 1
    MaxFaults = 1
SYMMETRY MCSymmetry
INVARIANTS ChartLimitKept OvershootBounded FailedFormLeavesNothing
PROPERTIES EvictsOldest
