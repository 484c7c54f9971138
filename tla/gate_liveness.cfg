SPECIFICATION FairGateSpec
CONSTANTS
    LeaseId = {l1}
    Agent = {a1}
    Conn = {c1, c2}
    Port = {1}
    WatchMayFail = TRUE
    MaxWatchers = 1
    Permission = {p1}
    None = None
    Grant <- MCGrant
    Constraints <- MCUnused
    ChildTtl <- MCNone
    Extension <- MCNone
    DefaultTtl = 2
    DefaultMaxRenewals = 3
    DefaultMaxCumulative = 2
    DefaultMaxDepth = 3
    MaxTime = 1
    MaxUses = 1
PROPERTIES DeadDeregistered ReapedReleased
