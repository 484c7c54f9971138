---------------------------- MODULE PolicyScope ----------------------------
(***************************************************************************)
(* The scope of a lease from the policy to the wire: the evaluator grants  *)
(* the intersection of what the agent requests with what the policy allows *)
(* (cdp-policy evaluator), a delegation hands on a subset of it (cdp-lease *)
(* is_scope_subset), and the proxy admits the requests the scope names     *)
(* (cdp-proxy scope).  ScopeRules says what each of them computes.         *)
(***************************************************************************)
EXTENDS ScopeRules, Integers

CONSTANTS
    Allow,         \* allow blocks of policies
    Request,       \* scopes agents request
    Child,         \* scopes a delegation asks for
    MaxDepth       \* bound: delegations in a row

ASSUME DepthAssumption == MaxDepth \in Nat

ASSUME PatternAssumption ==
    /\ Path \subseteq Seq(STRING)
    /\ \A s \in Allow \cup Request : s.forbidden \subseteq Seq(STRING)

VARIABLES
    allow,      \* the allow block of the policy that matched
    requested,  \* the scope in the request
    granted,    \* the scope evaluate grants, or None
    scope,      \* the scope of the lease at the end of the delegation chain
    depth       \* delegations so far

scopeVars == <<allow, requested, granted, scope, depth>>

-----------------------------------------------------------------------------
ScopeInit ==
    /\ allow \in Allow
    /\ requested \in Request
    /\ granted = None
    /\ scope = None
    /\ depth = 0

\* build_decision and, when the request is granted, create_lease.
Evaluate ==
    /\ granted = None
    /\ ~Denied(requested, allow)
    /\ granted' = IntersectScope(requested, allow)
    /\ scope' = granted'
    /\ UNCHANGED <<allow, requested, depth>>

Delegate(child) ==
    /\ scope # None
    /\ depth < MaxDepth
    /\ IsScopeSubset(child, scope)
    /\ scope' = child
    /\ depth' = depth + 1
    /\ UNCHANGED <<allow, requested, granted>>

ScopeNext == Evaluate \/ \E c \in Child : Delegate(c)

ScopeSpec == ScopeInit /\ [][ScopeNext]_scopeVars

-----------------------------------------------------------------------------
(* Properties *)

\* The agent gets no host and no method that the policy or its own request
\* rules out: every request the proxy admits under the granted scope has a host
\* and a method that both sides admit (intersect_scope, validate_request).
GrantWithinBoth ==
    granted # None => \A r \in Admitted(granted) :
        /\ ValidateHost(r.host, allow) /\ ValidateHost(r.host, requested)
        /\ ValidateMethod(r.method, allow) /\ ValidateMethod(r.method, requested)

\* The pattern is a longer one with a `**` at its end, which covers nothing of the
\* path: /repos/** on /repos.
TailUnused(path, pat) ==
    /\ Len(pat) > 1 /\ pat[Len(pat)] = StarStar
    /\ Matches(path, SubSeq(pat, 1, Len(pat) - 1))

\* What policy or request forbids, in the policy's own glob language, the proxy
\* admits neither under the grant nor along any chain of delegations of it, though
\* it reads the patterns in another dialect; the one exception is the path before
\* a final `**` (intersect_scope, is_scope_subset, validate_path; see README.md).
ForbiddenForGood ==
    scope # None =>
        \A r \in Admitted(scope), f \in allow.forbidden \cup requested.forbidden :
            Matches(r.path, f) => TailUnused(r.path, f)

-----------------------------------------------------------------------------
(* What the documentation says and the code does not do; see README.md *)

\* "Returns `None` when the intersection is empty (i.e., nothing can be
\* granted)" (cdp-policy/src/evaluator.rs:216): if all the paths a request names
\* are filtered out, no path is admitted that the policy's patterns do not match.
GrantWithinPaths ==
    granted # None /\ requested.paths # {} /\ granted.paths = {} =>
        \A r \in Admitted(granted) : ValidatePath(r.path, allow)

=============================================================================
