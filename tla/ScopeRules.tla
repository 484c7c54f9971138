----------------------------- MODULE ScopeRules -----------------------------
(***************************************************************************)
(* What a scope means: how the policy narrows a requested scope            *)
(* (intersect_scope in cdp-policy), when a delegated one is a subset       *)
(* (is_scope_subset in cdp-lease) and which requests the proxy admits      *)
(* under it (validate_request in cdp-proxy).  The lists of a scope are     *)
(* sets here: no operation depends on their order.  An empty list of       *)
(* hosts, methods or paths does not restrict.                              *)
(***************************************************************************)
EXTENDS GlobMatch

CONSTANTS
    Host, Method,  \* hosts and methods, in upper case
    Path,          \* request paths, as sequences of segments
    None,          \* Option::None
    MaxJsonDepth   \* 64 (scope.rs:202)

-----------------------------------------------------------------------------
(* intersect_scope *)

\* One side that names nothing does not restrict the other.
Narrow(want, may) ==
    IF may = {} THEN want ELSE IF want = {} THEN may ELSE want \cap may

\* Both sides name something, and nothing in common.
Disjoint(want, may) == want # {} /\ may # {} /\ want \cap may = {}

AnyGlobMatches(path, patterns) == \E p \in patterns : Matches(path, p)

\* A requested path, itself a pattern, is matched like a path.
IntersectScope(want, may) ==
    LET forbidden == may.forbidden \cup want.forbidden
        paths == IF may.paths = {} THEN want.paths
                 ELSE {p \in want.paths : AnyGlobMatches(p, may.paths)}
    IN  [hosts |-> Narrow(want.hosts, may.hosts),
         methods |-> Narrow(want.methods, may.methods),
         paths |-> {p \in paths : ~AnyGlobMatches(p, forbidden)},
         forbidden |-> forbidden]

\* Mutant: methods that have nothing in common do not deny the request.
DeniedLax(want, may) == Disjoint(want.hosts, may.hosts)

\* Paths are not looked at: only hosts and methods deny a request.
Denied(want, may) ==
    Disjoint(want.hosts, may.hosts) \/ Disjoint(want.methods, may.methods)

\* The smaller of two limits; None is no limit.
MinOption(a, b) ==
    IF a = None THEN b ELSE IF b = None \/ a <= b THEN a ELSE b

\* Mutant: the smaller list of forbidden fields is kept.
MergeBodyConstraintsNarrow(want, may) ==
    IF want = None THEN may ELSE IF may = None THEN want
    ELSE [fields |-> want.fields,
          maxSize |-> MinOption(want.maxSize, may.maxSize),
          types |-> IF may.types # {} THEN may.types ELSE want.types]

\* Fields of both sides are forbidden; content types of the policy replace the
\* requested ones.
MergeBodyConstraints(want, may) ==
    IF want = None THEN may ELSE IF may = None THEN want
    ELSE [fields |-> want.fields \cup may.fields,
          maxSize |-> MinOption(want.maxSize, may.maxSize),
          types |-> IF may.types # {} THEN may.types ELSE want.types]

-----------------------------------------------------------------------------
(* is_scope_subset *)

\* Mutant: a child need not repeat what is forbidden.
IsScopeSubsetLax(child, parent) ==
    /\ child.hosts \subseteq parent.hosts
    /\ child.methods \subseteq parent.methods
    /\ child.paths \subseteq parent.paths

IsScopeSubset(child, parent) ==
    /\ child.hosts \subseteq parent.hosts
    /\ child.methods \subseteq parent.methods
    /\ child.paths \subseteq parent.paths
    /\ parent.forbidden \subseteq child.forbidden

-----------------------------------------------------------------------------
(* validate_request *)

ValidateHost(h, s) == s.hosts = {} \/ h \in s.hosts

ValidateMethod(m, s) == s.methods = {} \/ m \in s.methods

ValidatePath(p, s) ==
    /\ ~\E f \in s.forbidden : GlobsetMatches(p, f)
    /\ s.paths = {} \/ \E q \in s.paths : GlobsetMatches(p, q)

\* The keys of a JSON body with the depth they occur at; the search gives up
\* below MAX_JSON_DEPTH.
FindForbiddenField(fields, forbidden) ==
    \E f \in fields : f.name \in forbidden /\ f.depth < MaxJsonDepth

\* A body has a size, a media type, and the keys found in it; `fields` is empty
\* for a body that is not JSON, which is not looked into.
ValidateBody(body, c) ==
    \/ c = None
    \/ /\ c.maxSize = None \/ body.size <= c.maxSize
       /\ c.types = {} \/ body.type \in c.types
       /\ ~FindForbiddenField(body.fields, c.fields)

\* Addresses are pinned, when the lease is made, for the hosts its scope names;
\* resolve_and_verify refuses a host without pins.
Pinned(h, s) == h \in s.hosts

\* The requests the proxy forwards under scope s.
Admitted(s) ==
    {r \in [host : Host, method : Method, path : Path] :
        /\ ValidateHost(r.host, s) /\ Pinned(r.host, s)
        /\ ValidateMethod(r.method, s)
        /\ ValidatePath(r.path, s)}

=============================================================================
