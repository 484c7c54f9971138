----------------------------- MODULE GlobMatch -----------------------------
(***************************************************************************)
(* Matching of URL paths against glob patterns, segment by segment.        *)
(* Matches says which paths a pattern of the policy language matches       *)
(* (cdp-policy/src/glob.rs), GlobsetMatches which ones the globset crate   *)
(* matches, with which the proxy enforces the same patterns.               *)
(***************************************************************************)
EXTENDS Integers, Sequences

Star == "*"
StarStar == "**"

\* A way to match: segment j of the pattern covers the segments of the path
\* from cut[j] up to, not including, cut[j + 1].
Cuts(path, pat) ==
    {cut \in [1..(Len(pat) + 1) -> 1..(Len(path) + 1)] :
        /\ cut[1] = 1
        /\ cut[Len(pat) + 1] = Len(path) + 1
        /\ \A i, j \in 1..(Len(pat) + 1) : i <= j => cut[i] <= cut[j]}

\* `**` covers any segments, `*` one, a literal one that is equal to it.
Matches(path, pat) ==
    \E cut \in Cuts(path, pat) : \A j \in 1..Len(pat) :
        \/ pat[j] = StarStar
        \/ /\ cut[j + 1] = cut[j] + 1
           /\ pat[j] \in {Star, path[cut[j]]}

\* In globset `*` crosses slashes (literal_separator is off), so it covers one
\* segment or more, and so does `**` at the end; elsewhere `**` may cover none,
\* and a pattern that is only one of them matches every path.
GlobsetMatches(path, pat) ==
    \E cut \in Cuts(path, pat) : \A j \in 1..Len(pat) :
        \/ /\ pat[j] \in {Star, StarStar}
           /\ cut[j] < cut[j + 1] \/ Len(pat) = 1
        \/ pat[j] = StarStar /\ j < Len(pat)
        \/ cut[j + 1] = cut[j] + 1 /\ pat[j] = path[cut[j]]

=============================================================================
