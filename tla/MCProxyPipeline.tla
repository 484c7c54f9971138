-------------------------- MODULE MCProxyPipeline --------------------------
(* Small instances of ProxyPipeline for TLC. *)
EXTENDS ProxyPipeline, TLC

CONSTANTS a1, h1, h2, h3, p1

MCPath == {<<"a">>, <<"b">>}
MCHost == {h1, h2, h3}
MCIp == {"i1", "i2"}
MCMethod == {"GET"}

Body(size, fields) == [size |-> size, type |-> "json", fields |-> fields]

Good == [token |-> TRUE, binding |-> TRUE, holders |-> {a1}, header |-> h1, uri |-> None,
         method |-> "GET", path |-> <<"a">>, body |-> Body(0, {})]

\* A request that passes, and requests that differ from it in one respect: a body,
\* a forbidden key at the top or further down, a body of another process's
\* connection, no host at all.
MCRequest ==
    {Good,
     [Good EXCEPT !.binding = FALSE],
     [Good EXCEPT !.holders = {a1, p1}],
     [Good EXCEPT !.holders = {}],
     [Good EXCEPT !.header = None],
     [Good EXCEPT !.header = None, !.uri = h2],
     [Good EXCEPT !.path = <<"b">>],
     [Good EXCEPT !.body = Body(1, {[name |-> "f", depth |-> 1]})],
     [Good EXCEPT !.body = Body(2, {[name |-> "g", depth |-> 0]})],
     [Good EXCEPT !.body = Body(3, {})]}

Scope(hosts) ==
    [hosts |-> hosts, methods |-> {"GET"}, paths |-> {}, forbidden |-> {<<"b">>}]

Limit(fields, size, types) == [fields |-> fields, maxSize |-> size, types |-> types]

MCPins == [h \in {h1, h2} |-> IF h = h1 THEN {"i1"} ELSE MCIp]

\* Redirects without limits; body constraints on both sides and one use; no host
\* named at all.
MCTerms ==
    {[scope |-> Scope({h1, h2}), pins |-> MCPins, want |-> None, may |-> None,
      follow |-> TRUE, max |-> None],
     [scope |-> Scope({h1, h2}), pins |-> MCPins, want |-> Limit({"g"}, None, {}),
      may |-> Limit({"f"}, 1, {"json"}), follow |-> FALSE, max |-> 1],
     [scope |-> Scope({}), pins |-> <<>>, want |-> None, may |-> Limit({"f"}, 2, {}),
      follow |-> TRUE, max |-> 1]}

=============================================================================
