--------------------------- MODULE MCPolicyEngine ---------------------------
(* Small instances of PolicyEngine for TLC. *)
EXTENDS PolicyEngine

MCScope(hosts) == [hosts |-> hosts, methods |-> {}, paths |-> {}, forbidden |-> {}]

MCEntry ==
    [name |-> 1, hash |-> None, path |-> None, id |-> None, cred |-> "k", mode |-> "prompt",
     maxRenewals |-> None, maxCumulative |-> 1, allow |-> MCScope({"h"})]

\* Asks for the agents at a path; approves one binary, which is at that path
\* too; approves a path, which is not valid.
MCAsk == <<[MCEntry EXCEPT !.path = "p"]>>
MCAuto == <<[MCEntry EXCEPT !.hash = "x", !.cred = Wildcard, !.mode = "auto"]>>
MCBad == <<[MCEntry EXCEPT !.path = "p", !.mode = "auto"]>>

MCContent == {MCAsk, MCAuto, MCBad}

MCInitial == {<<MCAsk, MCAuto>>}

MCAgent == {[hash |-> "x", path |-> "p", id |-> None], [hash |-> "y", path |-> "p", id |-> "i"]}

MCRequested == {MCScope({"h"})}

=============================================================================
