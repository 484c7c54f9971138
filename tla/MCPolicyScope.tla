--------------------------- MODULE MCPolicyScope ---------------------------
(* Small instances of PolicyScope for TLC. *)
EXTENDS PolicyScope, TLC

MCPath == {<<"a">>, <<"a", "b">>, <<"b">>}
MCPattern == {<<"a", Star>>, <<"a", StarStar>>, <<"b">>}

AtMostOne(S) == {{}} \cup {{x} : x \in S}

\* Scopes that name at most one method and path and forbid at most one.
MCScope ==
    [hosts : SUBSET Host, methods : AtMostOne(Method),
     paths : AtMostOne(MCPattern), forbidden : AtMostOne(MCPattern)]

\* Hosts and methods are interchangeable: the policy names them in order.
MCAllow ==
    {s \in MCScope : s.hosts \in {{}, {"h1"}, {"h1", "h2"}} /\ s.methods \in {{}, {"m1"}}}

\* A delegation may also repeat two forbidden patterns.
MCChild ==
    [hosts : AtMostOne({"h1"}), methods : AtMostOne({"m1"}),
     paths : AtMostOne(MCPattern), forbidden : SUBSET MCPattern]

=============================================================================
