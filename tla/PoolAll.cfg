SPECIFICATION Spec
CONSTANTS
    p1 = p1
    p2 = p2
    s1 = s1
    s2 = s2
    s3 = s3
    s4 = s4
    k1 = k1
    k2 = k2
    None = None
    Procs = {p1, p2}
    Ids = {s1, s2, s3}
    Tasks = {k1}
    Tenants = {"acme"}
    Templates = {"py"}
    CPU <- MCCPU
    MemMB <- MCMemMB
    Quotas <- MCQuotas
    DefaultQuota <- Ample
    Capacity = 2
    MaxWarm = 2
    MaxTime = 1
    Hour = 1
    MaxFaults = 1
    MaxRestarts = 1
    Undurable = FALSE
SYMMETRY Symmetry
CHECK_DEADLOCK FALSE
INVARIANT Bounded
INVARIANT CountersMatch
INVARIANT SandboxesKept
PROPERTY QuotaAtCommit
