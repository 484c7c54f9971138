SPECIFICATION GateSpec
CONSTANTS
    LeaseId = {l1, l2}
    Agent = {a1, a2}
    Conn = {c1, c2}
    Port = {1}
    WatchMayFail = FALSE
    MaxWatchers = 2
    Permission = {p1}
    None = None
    Grant <- MCGrant
    Constraints <- MCConstraints
    ChildTtl <- MCNone
    Extension <- MCNone
    DefaultTtl = 2
    DefaultMaxRenewals = 3
    DefaultMaxCumulative = 2
    DefaultMaxDepth = 3
    MaxTime = 0
    MaxUses = 1
SYMMETRY Symmetry
INVARIANTS RegistrationWatched LiveAgentKeepsLeases PortsPassOn
