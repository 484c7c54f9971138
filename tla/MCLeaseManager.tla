--------------------------- MODULE MCLeaseManager ---------------------------
(* Small instances of LeaseManager for TLC. *)
EXTENDS LeaseManager, TLC

\* The scope a lease is granted; TTL and request limit are left to the policy.
MCGrant == {[scope |-> Permission, ttl |-> None, maxRequests |-> None]}

\* Leases that expire with the first tick, unused, delegable not at all or twice.  They
\* are not renewed, but what is delegated from them may be, and outlive them.
MCDelegation ==
    [maxTtl : {0}, maxRequests : {0}, maxRenewals : {1}, maxCumulative : {1},
     renewable : {FALSE}, delegable : {TRUE}, maxDepth : {0, 2}]

\* Leases of one second renewable to two, for one request, delegable once; and
\* ones for which every limit is the default.
MCRenewal ==
    {[maxTtl |-> 1, maxRequests |-> 1, maxRenewals |-> 2, maxCumulative |-> 2,
      renewable |-> TRUE, delegable |-> TRUE, maxDepth |-> 1],
     [maxTtl |-> None, maxRequests |-> None, maxRenewals |-> None, maxCumulative |-> None,
      renewable |-> TRUE, delegable |-> FALSE, maxDepth |-> None]}

MCExtension == {1, -2}

\* Identifiers and agents are interchangeable.
Symmetry == Permutations(LeaseId) \cup Permutations(Agent)

=============================================================================
