\* A request, a refresh and an event against one index in Redis, with two
\* changes, failures or crashes.  After a race of RegeneratedIndexesChans
\* the goroutines may wait for ever.
SPECIFICATION FairSpec
CONSTANTS
    Charts = {c1, c2}
    InitialCharts = {c1}
    r1 = r1
    p1 = p1
    t1 = t1
    l1 = l1
    Replicas = {r1}
    Clients = {p1}
    Refreshers = {t1}
    Listeners = {l1}
    Home <- MCHome
    None = none
    Failed = failed
    AlwaysRegenerate = FALSE
    MaxUnrest = 2
INVARIANTS TypeOK RawMatchesEntries EveryWaiterServed UndisturbedIndexMatches
PROPERTIES RequestsComplete CacheConverges
CHECK_DEADLOCK FALSE
