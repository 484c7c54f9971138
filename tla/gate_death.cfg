SPECIFICATION FairGateSpec
CONSTANTS
    LeaseId = {l1}
    Agent = {a1}
    Conn = {c1}
    Port = {1}
    WatchMayFail = FALSE
    MaxWatchers = 1
    Permission = {p1}
    None = None
    Grant <- MCGrant
    Constraints <- MCConstraints
    ChildTtl <- MCNone
    Extension <- MCNone
    DefaultTtl = 2
    DefaultMaxRenewals = 3
    DefaultMaxCumulative = 2
    DefaultMaxDepth = 3
    MaxTime = 0
    MaxUses = 1
PROPERTY DeadAgentRevoked
