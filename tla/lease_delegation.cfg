SPECIFICATION Spec
CONSTANTS
    LeaseId = {l1, l2, l3}
    Agent = {a1, a2}
    Permission = {p1}
    None = None
    Grant <- MCGrant
    Constraints <- MCDelegation
    ChildTtl = {0}
    Extension = {1}
    DefaultTtl = 2
    DefaultMaxRenewals = 1
    DefaultMaxCumulative = 2
    DefaultMaxDepth = 2
    MaxTime = 1
    MaxUses = 0
SYMMETRY Symmetry
INVARIANTS RevocationCascades DelegationForest DelegationAttenuates RootsReaped AuditAccounts
