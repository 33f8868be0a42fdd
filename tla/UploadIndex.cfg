\* A version is uploaded again when its chart is at the limit.
SPECIFICATION Spec
CONSTANTS
    v1 = v1
    v2 = v2
    v3 = v3
    v4 = v4
    Clients = {p1}
    Versions = {v1, v2, v3}
    ChartOf <- MCChartOf
    Guessed <- MCGuessed
    Parts = {"my", "chart", "1.0", "2.0", "2nd", "rc", "3.0", ""}
    Numbers = {"1.0", "2.0", "3.0", "2nd"}
    EmptyPart = ""
    Configs <- MCOverwriteAtLimit
    Nobody = nobody
    None = none
    MaxTime = 2
    MaxPending = 1
    MaxFaults = 0
INVARIANT IndexMatchesStorage
