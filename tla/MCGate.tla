------------------------------- MODULE MCGate -------------------------------
(* Small instances of Gate for TLC. *)
EXTENDS Gate, TLC

MCGrant == {[scope |-> Permission, ttl |-> 0, maxRequests |-> None]}

\* Leases that expire after the first tick, for n requests.
MCLimit(n) ==
    [maxTtl |-> None, maxRequests |-> n, maxRenewals |-> None, maxCumulative |-> None,
     renewable |-> TRUE, delegable |-> FALSE, maxDepth |-> None]

MCConstraints == {MCLimit(1)}

\* The liveness run leaves requests out, which hold nothing up.
MCUnused == {MCLimit(0)}

MCNone == {}

Symmetry == Permutations(LeaseId) \cup Permutations(Agent) \cup Permutations(Conn)

=============================================================================
