SPECIFICATION FairSpec
CONSTANTS
    LeaseId = {l1, l2}
    Agent = {a1}
    Permission = {p1}
    None = None
    Grant <- MCGrant
    Constraints <- MCRenewal
    ChildTtl = {0}
    Extension <- MCExtension
    DefaultTtl = 2
    DefaultMaxRenewals = 1
    DefaultMaxCumulative = 2
    DefaultMaxDepth = 2
    MaxTime = 1
    MaxUses = 1
INVARIANT LifetimeBounded
PROPERTIES OverdueSwept ImplementsContract
