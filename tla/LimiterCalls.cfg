\* Failing calls of two tenants share two slots.
SPECIFICATION FairSpec
CONSTANTS
    k1 = k1
    k2 = k2
    k3 = k3
    o1 = o1
    o2 = o2
    o3 = o3
    t1 = t1
    t2 = t2
    Calls = {k1, k2, k3}
    Objects = {o1, o2, o3}
    Diff <- MCDiff
    Tenants = {t1, t2}
    TenantOf <- MCTenantOf
    IndexLimit = 2
INVARIANTS SlotRemains DownloadsLimited
PROPERTIES PromiseKept CallsReturn
CHECK_DEADLOCK FALSE
