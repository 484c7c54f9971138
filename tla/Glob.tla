-------------------------------- MODULE Glob --------------------------------
(***************************************************************************)
(* The work list of matches_segs (cdp-policy/src/glob.rs): pairs of a      *)
(* position in the path and one in the pattern still to be explored, and   *)
(* the pairs explored already.  Positions count from 1.  A step is a round *)
(* of the loop.                                                            *)
(***************************************************************************)
EXTENDS GlobMatch

CONSTANTS GlobPath, GlobPattern  \* paths and patterns as sequences of segments

ASSUME GlobAssumption == \A s \in GlobPath \cup GlobPattern : s \in Seq(STRING)

VARIABLES
    subject, pattern,  \* the arguments
    stack, visited,    \* the pairs still to be explored, and those explored
    rounds,            \* of the loop, so far
    verdict            \* "open" until the function returns

globVars == <<subject, pattern, stack, visited, rounds, verdict>>

GlobInit ==
    /\ subject \in GlobPath
    /\ pattern \in GlobPattern
    /\ stack = <<<<1, 1>>>>
    /\ visited = {}
    /\ rounds = 0
    /\ verdict = "open"

-----------------------------------------------------------------------------
PathDone(path, p) == p > Len(path)
PatDone(pat, q) == q > Len(pat)

\* Mutant: a path that has ended matches only a pattern that has ended.
AcceptsStrict(path, pat, p, q) == PathDone(path, p) /\ PatDone(pat, q)

\* The pair answers the question: the path has ended and what is left of the
\* pattern can match nothing.
Accepts(path, pat, p, q) ==
    /\ PathDone(path, p)
    /\ \A j \in q..Len(pat) : pat[j] = StarStar

\* The pairs pushed, in this order.
Successors(path, pat, p, q) ==
    IF PathDone(path, p) \/ PatDone(pat, q) THEN <<>>
    ELSE IF pat[q] = StarStar THEN <<<<p, q + 1>>, <<p + 1, q>>>>
    ELSE IF pat[q] \in {Star, path[p]} THEN <<<<p + 1, q + 1>>>>
    ELSE <<>>

\* `visited.insert` returns false.
Seen(pair) == pair \in visited

Top == stack[Len(stack)]
Rest == SubSeq(stack, 1, Len(stack) - 1)

\* `stack.pop()` returns a pair.
Pop ==
    /\ verdict = "open"
    /\ stack # <<>>
    /\ rounds' = rounds + 1
    /\ UNCHANGED <<subject, pattern>>

\* `continue`: already explored.
PopSeen ==
    /\ Pop
    /\ Seen(Top)
    /\ stack' = Rest
    /\ UNCHANGED <<visited, verdict>>

\* `return true`
PopAccepting ==
    /\ Pop
    /\ ~Seen(Top)
    /\ Accepts(subject, pattern, Top[1], Top[2])
    /\ stack' = Rest
    /\ visited' = visited \cup {Top}
    /\ verdict' = "match"

\* The branch goes on, or fails.
PopExpanding ==
    /\ Pop
    /\ ~Seen(Top)
    /\ ~Accepts(subject, pattern, Top[1], Top[2])
    /\ stack' = Rest \o Successors(subject, pattern, Top[1], Top[2])
    /\ visited' = visited \cup {Top}
    /\ UNCHANGED verdict

\* `false`, when the loop has ended.
RunDry ==
    /\ verdict = "open"
    /\ stack = <<>>
    /\ verdict' = "miss"
    /\ UNCHANGED <<subject, pattern, stack, visited, rounds>>

GlobNext == PopSeen \/ PopAccepting \/ PopExpanding \/ RunDry

GlobSpec == GlobInit /\ [][GlobNext]_globVars

-----------------------------------------------------------------------------
(* Property *)

\* matches_segs, which every evaluation of a requested path rests on, returns the
\* answer of the declarative definition, for a match and for a mismatch, and its
\* visited set keeps the rounds within the product of the lengths, "even for
\* pathological patterns" (glob.rs): each pair of positions is expanded once and
\* pushes at most two.
GlobRight ==
    /\ verdict # "open" => (verdict = "match" <=> Matches(subject, pattern))
    /\ rounds <= 2 * (Len(subject) + 1) * (Len(pattern) + 1) + 1

=============================================================================
