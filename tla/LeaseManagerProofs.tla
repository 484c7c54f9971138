------------------------- MODULE LeaseManagerProofs -------------------------
(***************************************************************************)
(* Proofs about LeaseManager for every set of leases, agents, policies and *)
(* every bound.                                                            *)
(***************************************************************************)
EXTENDS LeaseManager, TLAPS

(***************************************************************************)
(* Type correctness                                                        *)
(***************************************************************************)

\* Option::or on limits yields a limit.
LEMMA OrNat == \A x \in Option(Nat), y \in Nat : Or(x, y) \in Nat
BY NoneAssumption DEF Option, Or

\* Option::or of two optional numbers is one.
LEMMA OrOption == \A x \in Option(Nat), y \in Option(Nat) : Or(x, y) \in Option(Nat)
BY DEF Option, Or

\* The record of an unused identifier is a lease.
LEMMA NoLeaseType == NoLease \in Lease
BY DEF NoLease, NoTerms, Lease, Terms, Status, Option

\* Revoking or expiring a set of leases keeps the types.
LEMMA TerminateType ==
    ASSUME TypeOK, NEW S \in SUBSET LeaseId, NEW e \in {"revoked", "expired"},
           Terminate(S, e, e)
    PROVE  /\ leases' \in [LeaseId -> Lease]
           /\ index' \in [Agent -> SUBSET LeaseId]
           /\ audit' \subseteq EventType \X LeaseId
<1>1. leases' \in [LeaseId -> Lease]
  <2>1. \A l \in LeaseId : [leases[l] EXCEPT !.status = e] \in Lease
    BY DEF TypeOK, Lease, Status
  <2> QED BY <2>1 DEF Terminate, TypeOK
<1>2. index' \in [Agent -> SUBSET LeaseId]
  BY DEF Terminate, IndexWithout, TypeOK
<1>3. audit' \subseteq EventType \X LeaseId
  BY DEF Terminate, TypeOK, EventType
<1> QED BY <1>1, <1>2, <1>3

\* revoke_lease keeps the types.
LEMMA RevokeType ==
    ASSUME TypeOK, NEW l \in LeaseId, RevokeCascade(l)
    PROVE  /\ leases' \in [LeaseId -> Lease]
           /\ index' \in [Agent -> SUBSET LeaseId]
           /\ audit' \subseteq EventType \X LeaseId
<1>1. {l} \cup Descendants(l) \in SUBSET LeaseId
  BY DEF Descendants
<1> QED BY <1>1, TerminateType DEF RevokeCascade

\* LeaseManager::new sets up an empty table and index.
LEMMA TypeInit == Init => TypeOK
BY NoLeaseType DEF Init, TypeOK, NoReaper, Reaper, Option

\* Every lock section keeps the types.
LEMMA TypeNext == TypeOK /\ [Next]_vars => TypeOK'
<1> SUFFICES ASSUME TypeOK, [Next]_vars PROVE TypeOK'
  OBVIOUS
<1>1. ASSUME NEW l \in LeaseId, NEW a \in Agent, NEW g \in Grant, NEW c \in Constraints,
             CreateDraft(l, a, g, c)
      PROVE  TypeOK'
  <2> DEFINE ttl == Or(Or(g.ttl, c.maxTtl), DefaultTtl)
             terms == [maxRequests |-> Or(g.maxRequests, c.maxRequests),
                       maxRenewals |-> Or(c.maxRenewals, DefaultMaxRenewals),
                       maxCumulative |-> Or(c.maxCumulative, DefaultMaxCumulative),
                       renewable |-> c.renewable,
                       delegable |-> c.delegable,
                       maxDepth |-> c.maxDepth]
             rec == [NoLease EXCEPT
                       !.status = "draft", !.agent = a, !.scope = g.scope,
                       !.created = now, !.ttl = ttl, !.expires = now + ttl,
                       !.cumulative = ttl, !.terms = terms]
  <2>1. g \in GrantType /\ c \in ConstraintsType
    BY InputAssumption
  <2>2. ttl \in Nat
    BY <2>1, OrNat, OrOption, DefaultAssumption DEF GrantType, ConstraintsType
  <2>3. terms \in Terms
    BY <2>1, OrNat, OrOption, DefaultAssumption DEF GrantType, ConstraintsType, Terms
  <2>4. rec \in Lease
    <3> HIDE DEF ttl, terms
    <3>1. g.scope \in SUBSET Permission
      BY <2>1 DEF GrantType
    <3>2. now \in Nat /\ now + ttl \in Int
      BY <2>2 DEF TypeOK
    <3> QED BY <2>2, <2>3, <3>1, <3>2, NoLeaseType DEF Lease, Status, Option
  <2> HIDE DEF rec
  <2>5. leases' = [leases EXCEPT ![l] = rec]
    BY <1>1 DEF CreateDraft, rec
  <2> QED BY <1>1, <2>4, <2>5 DEF TypeOK, CreateDraft
<1>2. ASSUME NEW l \in LeaseId, CreateInsert(l) PROVE TypeOK'
  <2>1. leases' \in [LeaseId -> Lease]
    BY <1>2 DEF CreateInsert, TypeOK, Lease, Status
  <2> QED BY <1>2, <2>1 DEF CreateInsert, TypeOK
<1>3. ASSUME NEW l \in LeaseId, PushIndex(l) PROVE TypeOK'
  <2>1. index' \in [Agent -> SUBSET LeaseId]
    BY <1>3 DEF PushIndex, TypeOK
  <2> QED BY <1>3, <2>1 DEF PushIndex, TypeOK
<1>3a. ASSUME NEW l \in LeaseId, ReportGranted(l) PROVE TypeOK'
  <2>1. audit' \subseteq EventType \X LeaseId
    BY <1>3a DEF ReportGranted, TypeOK, EventType
  <2> QED BY <1>3a, <2>1 DEF ReportGranted, TypeOK
<1>4. ASSUME NEW l \in LeaseId, NEW p \in LeaseId, NEW a \in Agent,
             NEW s \in SUBSET Permission, NEW t \in ChildTtl, DelegateDraft(l, p, a, s, t)
      PROVE  TypeOK'
  <2> DEFINE rec == [NoLease EXCEPT
                       !.status = "draft", !.agent = a, !.scope = s,
                       !.created = now, !.ttl = t, !.expires = now + t,
                       !.cumulative = t, !.parent = p]
  <2>1. rec \in Lease
    <3>1. t \in Nat /\ now \in Nat /\ now + t \in Int
      BY InputAssumption DEF TypeOK
    <3> QED BY <3>1, NoLeaseType DEF Lease, Status, Option
  <2> HIDE DEF rec
  <2>2. leases' = [leases EXCEPT ![l] = rec]
    BY <1>4 DEF DelegateDraft, rec
  <2> QED BY <1>4, <2>1, <2>2 DEF TypeOK, DelegateDraft
<1>5. ASSUME NEW l \in LeaseId, DelegateInsert(l) PROVE TypeOK'
  <2> DEFINE p == leases[l].parent
             terms == [leases[p].terms EXCEPT !.maxRequests = None, !.renewable = TRUE]
             child == [leases[l] EXCEPT !.status = "active", !.depth = leases[p].depth + 1,
                                        !.terms = terms]
             link(r) == [r EXCEPT !.children = @ \cup {l}]
  <2>1. p \in LeaseId
    BY <1>5 DEF DelegateInsert, IsRoot, TypeOK, Lease, Option
  <2>2. leases[p] \in Lease /\ leases[l] \in Lease
    BY <2>1 DEF TypeOK
  <2>3. terms \in Terms
    BY <2>2 DEF Lease, Terms, Option
  <2>4. child \in Lease
    <3>1. leases[p].depth + 1 \in Nat
      BY <2>2 DEF Lease
    <3> DEFINE depth == leases[p].depth + 1
    <3> HIDE DEF terms, p, depth
    <3>2. [leases[l] EXCEPT !.status = "active", !.depth = depth, !.terms = terms] \in Lease
      BY <2>2, <2>3, <3>1 DEF Lease, Status, depth
    <3> QED BY <3>2 DEF depth
  <2>5. \A r \in Lease : link(r) \in Lease
    BY DEF Lease
  <2>6. leases' = [[leases EXCEPT ![l] = child] EXCEPT ![p] = link(@)]
    BY <1>5, <2>1 DEF DelegateInsert, TypeOK
  <2> HIDE DEF child, link, p
  <2>7. leases' \in [LeaseId -> Lease]
    BY <2>1, <2>2, <2>4, <2>5, <2>6 DEF TypeOK
  <2> QED BY <1>5, <2>7 DEF DelegateInsert, TypeOK, EventType
<1>6. ASSUME NEW l \in LeaseId, DelegateReject(l) PROVE TypeOK'
  BY <1>6, NoLeaseType DEF DelegateReject, TypeOK
<1>7. ASSUME NEW l \in LeaseId, NEW e \in Extension, Renew(l, e) PROVE TypeOK'
  <2>1. leases' \in [LeaseId -> Lease]
    <3>1. e \in Int
      BY InputAssumption
    <3> QED BY <1>7, <3>1 DEF Renew, TypeOK, Lease
  <2> QED BY <1>7, <2>1 DEF Renew, TypeOK, EventType
<1>8. ASSUME NEW l \in LeaseId, Use(l) PROVE TypeOK'
  <2>1. leases' \in [LeaseId -> Lease]
    BY <1>8 DEF Use, TypeOK, Lease
  <2> QED BY <1>8, <2>1 DEF Use, TypeOK, EventType
<1>9. ASSUME NEW l \in LeaseId, Revoke(l) PROVE TypeOK'
  BY <1>9, RevokeType DEF Revoke, TypeOK
<1>10. ASSUME NEW a \in Agent, ReapStart(a) PROVE TypeOK'
  BY <1>10 DEF ReapStart, TypeOK, Reaper, NoReaper, Option
<1>11. ASSUME NEW l \in LeaseId, ReapSkip(l) PROVE TypeOK'
  BY <1>11 DEF ReapSkip, TypeOK, Reaper
<1>12. ASSUME NEW l \in LeaseId, ReapCollect(l) PROVE TypeOK'
  BY <1>12 DEF ReapCollect, TypeOK, Reaper, Option, Descendants
<1>13. CASE ReapRevoke
  <2>1. reaper.at \in LeaseId /\ RevokeCascade(reaper.at)
    BY <1>13 DEF ReapRevoke, TypeOK, Reaper, Option
  <2> QED BY <1>13, <2>1, RevokeType DEF ReapRevoke, TypeOK, Reaper, Option
<1>14. CASE ReapFinish
  BY <1>14 DEF ReapFinish, TypeOK, Reaper, NoReaper, Option
<1>15. CASE SweepStart
  BY <1>15 DEF SweepStart, TypeOK, Option
<1>16. CASE SweepExpired
  <2>1. Overdue(sweepAt) \in SUBSET LeaseId
    BY DEF Overdue
  <2> QED BY <1>16, <2>1, TerminateType DEF SweepExpired, TypeOK, Option
<1>17. CASE Tick
  BY <1>17 DEF Tick, TypeOK
<1>18. CASE UNCHANGED vars
  BY <1>18 DEF vars, TypeOK
<1> QED
  BY <1>1, <1>2, <1>3, <1>3a, <1>4, <1>5, <1>6, <1>7, <1>8, <1>9, <1>10, <1>11, <1>12,
     <1>13, <1>14, <1>15, <1>16, <1>17, <1>18
  DEF Next, Create, Delegate, Reap, Sweep

\* Every state has its type: in particular the cumulative TTL stays a natural
\* number whatever extension renew_lease is given.
THEOREM TypeCorrect == Spec => []TypeOK
BY TypeInit, TypeNext, PTL DEF Spec

(***************************************************************************)
(* Cascading revocation                                                    *)
(*                                                                         *)
(* RevocationCascades speaks of all descendants and is not inductive.  The *)
(* inductive invariant is about one delegation at a time: the links are a  *)
(* forest, a lease not in the table has no children, and the child of a    *)
(* revoked lease is revoked.                                               *)
(***************************************************************************)

Barren == \A l \in LeaseId : ~Stored(l) => leases[l].children = {}

CascadeStep ==
    \A l \in LeaseId : leases[l].status = "revoked" =>
        \A c \in leases[l].children : leases[c].status = "revoked"

ForestInv == TypeOK /\ DelegationForest /\ Barren /\ CascadeStep

\* A step that leaves status, links and depth alone keeps the forest.
LEMMA SameForest ==
    ASSUME ForestInv, TypeOK',
           \A l \in LeaseId : /\ leases'[l].status = leases[l].status
                              /\ leases'[l].parent = leases[l].parent
                              /\ leases'[l].children = leases[l].children
                              /\ leases'[l].depth = leases[l].depth
    PROVE  ForestInv'
<1>1. \A l \in LeaseId : /\ Stored(l)' = Stored(l)
                         /\ IsRoot(l)' = IsRoot(l)
                         /\ leases[l].children \subseteq LeaseId
                         /\ leases[l].parent \in Option(LeaseId)
  BY DEF Stored, IsRoot, ForestInv, TypeOK, Lease
<1>2. DelegationForest'
  BY <1>1 DEF DelegationForest, ForestInv, IsRoot, Option
<1>3. Barren'
  BY <1>1 DEF Barren, ForestInv
<1>4. CascadeStep'
  BY <1>1 DEF CascadeStep, ForestInv
<1> QED BY <1>2, <1>3, <1>4 DEF ForestInv

\* An id not in the table may be given to a draft or taken back.
LEMMA DraftForest ==
    ASSUME ForestInv, TypeOK', NEW l \in LeaseId, ~Stored(l), ~Stored(l)',
           leases'[l].children = {}, leases'[l].depth = 0,
           \A x \in LeaseId \ {l} : leases'[x] = leases[x]
    PROVE  ForestInv'
<1>1. \A x \in LeaseId : /\ Stored(x)' = Stored(x)
                         /\ leases[x].children \subseteq LeaseId
                         /\ leases[x].parent \in Option(LeaseId)
  BY DEF Stored, ForestInv, TypeOK, Lease
<1>2. leases[l].children = {}
  BY DEF ForestInv, Barren
<1>3. DelegationForest'
  <2>1. ASSUME NEW x \in LeaseId, Stored(x), ~IsRoot(x)'
        PROVE  /\ leases'[leases'[x].parent].status \in {"active", "expired", "revoked"}
               /\ x \in leases'[leases'[x].parent].children
               /\ leases'[x].depth = leases'[leases'[x].parent].depth + 1
    <3>1. x # l /\ leases'[x] = leases[x] /\ ~IsRoot(x)
      BY <2>1 DEF IsRoot
    <3>2. /\ leases[x].parent \in LeaseId
          /\ Stored(leases[x].parent)
          /\ x \in leases[leases[x].parent].children
          /\ leases[x].depth = leases[leases[x].parent].depth + 1
      BY <1>1, <2>1, <3>1 DEF ForestInv, DelegationForest, IsRoot, Option
    <3>3. leases[x].parent # l
      BY <3>2
    <3> QED BY <3>1, <3>2, <3>3 DEF Stored
  <2>2. ASSUME NEW x \in LeaseId, NEW c \in leases'[x].children
        PROVE  Stored(c)' /\ leases'[c].parent = x
    <3>1. c \in leases[x].children /\ c \in LeaseId
      BY <1>1, <2>2
    <3>2. Stored(c) /\ leases[c].parent = x
      BY <3>1 DEF ForestInv, DelegationForest
    <3> QED BY <1>1, <3>1, <3>2
  <2>3. ASSUME NEW x \in LeaseId, IsRoot(x)' PROVE leases'[x].depth = 0
    BY <2>3 DEF ForestInv, DelegationForest, IsRoot
  <2> QED BY <1>1, <2>1, <2>2, <2>3 DEF DelegationForest, Stored
<1>4. Barren'
  BY <1>1 DEF Barren, ForestInv
<1>5. CascadeStep'
  <2> SUFFICES ASSUME NEW x \in LeaseId, leases'[x].status = "revoked",
                      NEW c \in leases'[x].children
               PROVE  leases'[c].status = "revoked"
    BY DEF CascadeStep
  <2>1. x # l /\ c \in LeaseId /\ c \in leases[x].children
    BY <1>1 DEF Stored
  <2>2. Stored(c) /\ leases[c].status = "revoked"
    BY <2>1 DEF ForestInv, DelegationForest, CascadeStep
  <2> QED BY <2>1, <2>2
<1> QED BY <1>3, <1>4, <1>5 DEF ForestInv

\* Ending leases of the table, together with the children of any it revokes.
LEMMA TerminateForest ==
    ASSUME ForestInv, TypeOK', NEW S \in SUBSET LeaseId, NEW e \in {"revoked", "expired"},
           Terminate(S, e, e),
           \A l \in S : Stored(l),
           e = "revoked" => \A l \in S : leases[l].children \subseteq S,
           e = "expired" => \A l \in S : leases[l].status = "active"
    PROVE  ForestInv'
<1>1. \A l \in LeaseId : leases'[l] = IF l \in S THEN [leases[l] EXCEPT !.status = e]
                                                 ELSE leases[l]
  BY DEF Terminate
<1>2. \A l \in LeaseId : /\ leases'[l].parent = leases[l].parent
                         /\ leases'[l].children = leases[l].children
                         /\ leases'[l].depth = leases[l].depth
                         /\ leases'[l].status = IF l \in S THEN e ELSE leases[l].status
  BY <1>1 DEF ForestInv, TypeOK, Lease
<1>3. \A l \in LeaseId : /\ Stored(l)' = Stored(l)
                         /\ leases[l].children \subseteq LeaseId
                         /\ leases[l].parent \in Option(LeaseId)
  BY <1>2 DEF Stored, ForestInv, TypeOK, Lease
<1>4. DelegationForest'
  BY <1>2, <1>3 DEF DelegationForest, ForestInv, IsRoot, Option
<1>5. Barren'
  BY <1>2, <1>3 DEF Barren, ForestInv
<1>6. CascadeStep'
  <2> SUFFICES ASSUME NEW l \in LeaseId, leases'[l].status = "revoked",
                      NEW c \in leases'[l].children
               PROVE  leases'[c].status = "revoked"
    BY DEF CascadeStep
  <2>1. c \in LeaseId /\ c \in leases[l].children
    BY <1>2, <1>3
  <2>2. CASE leases[l].status = "revoked"
    <3>1. leases[c].status = "revoked"
      BY <2>1, <2>2 DEF ForestInv, CascadeStep
    <3> QED BY <1>2, <2>1, <3>1
  <2>3. CASE leases[l].status # "revoked"
    <3>1. l \in S /\ e = "revoked"
      BY <1>2, <2>3
    <3> QED BY <1>2, <2>1, <3>1
  <2> QED BY <2>2, <2>3
<1> QED BY <1>4, <1>5, <1>6 DEF ForestInv

\* What the least-fixed-point definition of Descendants gives: it holds the
\* children, it is closed, and it lies inside every closed set that holds them.
LEMMA DescendantsClosed ==
    ASSUME TypeOK, NEW l \in LeaseId
    PROVE  /\ leases[l].children \subseteq Descendants(l)
           /\ \A d \in Descendants(l) : leases[d].children \subseteq Descendants(l)
<1>1. \A x \in LeaseId : leases[x].children \subseteq LeaseId
  BY DEF TypeOK, Lease
<1> QED BY <1>1 DEF Descendants

\* Descendants lies inside every closed set that holds the children.
LEMMA DescendantsLeast ==
    ASSUME NEW l \in LeaseId, NEW S \in SUBSET LeaseId,
           leases[l].children \subseteq S,
           \A s \in S : leases[s].children \subseteq S
    PROVE  Descendants(l) \subseteq S
BY DEF Descendants

\* revoke_lease and the set it revokes satisfy TerminateForest.
LEMMA RevokeForest ==
    ASSUME ForestInv, TypeOK', NEW l \in LeaseId, RevokeCascade(l)
    PROVE  ForestInv'
<1> DEFINE D == Descendants(l)
           T == {x \in LeaseId : Stored(x)}
<1>1. TypeOK
  BY DEF ForestInv
<1>2. \A x \in LeaseId : leases[x].children \subseteq T
  BY DEF ForestInv, DelegationForest, TypeOK, Lease
<1>3. D \subseteq T
  BY <1>2, DescendantsLeast
<1>4. \A x \in {l} \cup D : leases[x].children \subseteq {l} \cup D
  BY <1>1, DescendantsClosed
<1>5. Stored(l) /\ Terminate({l} \cup D, "revoked", "revoked")
  BY DEF RevokeCascade
<1>6. {l} \cup D \in SUBSET LeaseId /\ \A x \in {l} \cup D : Stored(x)
  BY <1>3, <1>5
<1> HIDE DEF D
<1> QED BY <1>4, <1>5, <1>6, TerminateForest

\* create_lease inserts a root.
LEMMA CreateInsertForest ==
    ASSUME ForestInv, TypeOK', NEW l \in LeaseId, CreateInsert(l)
    PROVE  ForestInv'
<1>1. \A x \in LeaseId : /\ leases'[x].parent = leases[x].parent
                         /\ leases'[x].children = leases[x].children
                         /\ leases'[x].depth = leases[x].depth
                         /\ leases'[x].status = IF x = l THEN "active" ELSE leases[x].status
                         /\ leases[x].children \subseteq LeaseId
                         /\ leases[x].parent \in Option(LeaseId)
  BY DEF CreateInsert, ForestInv, TypeOK, Lease
<1>2. ~Stored(l) /\ IsRoot(l) /\ leases[l].children = {}
  BY DEF CreateInsert, Stored, ForestInv, Barren
<1>3. \A x \in LeaseId : /\ Stored(x)' <=> (x = l \/ Stored(x))
                         /\ IsRoot(x)' <=> IsRoot(x)
  BY <1>1 DEF Stored, IsRoot
<1>4. DelegationForest'
  BY <1>1, <1>2, <1>3 DEF DelegationForest, ForestInv, IsRoot, Option
<1>5. Barren'
  BY <1>1, <1>3 DEF Barren, ForestInv
<1>6. CascadeStep'
  <2> SUFFICES ASSUME NEW x \in LeaseId, leases'[x].status = "revoked",
                      NEW c \in leases'[x].children
               PROVE  leases'[c].status = "revoked"
    BY DEF CascadeStep
  <2>1. x # l /\ leases[x].status = "revoked" /\ c \in leases[x].children /\ c \in LeaseId
    BY <1>1
  <2>2. leases[c].status = "revoked" /\ c # l
    BY <1>2, <2>1 DEF ForestInv, CascadeStep, DelegationForest
  <2> QED BY <1>1, <2>1, <2>2
<1> QED BY <1>4, <1>5, <1>6 DEF ForestInv

\* delegate inserts a child below a parent that is active: the lock under which
\* it checks so is the one revoke_lease needs.
LEMMA DelegateInsertForest ==
    ASSUME ForestInv, TypeOK', NEW l \in LeaseId, DelegateInsert(l)
    PROVE  ForestInv'
<1> DEFINE p == leases[l].parent
<1>1. p \in LeaseId /\ leases[p].status = "active" /\ p # l /\ leases[l].status = "draft"
  BY DEF DelegateInsert, MayDelegate, Usable, IsRoot, ForestInv, TypeOK, Lease, Option
<1>2. \A x \in LeaseId :
         /\ leases'[x].parent = leases[x].parent
         /\ leases'[x].children = IF x = p THEN leases[x].children \cup {l}
                                           ELSE leases[x].children
         /\ leases'[x].depth = IF x = l THEN leases[p].depth + 1 ELSE leases[x].depth
         /\ leases'[x].status = IF x = l THEN "active" ELSE leases[x].status
         /\ leases[x].children \subseteq LeaseId
         /\ leases[x].parent \in Option(LeaseId)
  <2> DEFINE terms == [leases[p].terms EXCEPT !.maxRequests = None, !.renewable = TRUE]
             depth == leases[p].depth + 1
  <2>1. /\ leases'[l] = [leases[l] EXCEPT !.status = "active", !.depth = depth, !.terms = terms]
        /\ leases'[p] = [leases[p] EXCEPT !.children = @ \cup {l}]
        /\ \A x \in LeaseId \ {l, p} : leases'[x] = leases[x]
    BY <1>1 DEF DelegateInsert, ForestInv, TypeOK
  <2> HIDE DEF terms, depth
  <2>2. \A x \in LeaseId : leases[x] \in Lease
    BY DEF ForestInv, TypeOK
  <2>3. leases'[l].parent = leases[l].parent /\ leases'[l].children = leases[l].children
        /\ leases'[l].depth = depth /\ leases'[l].status = "active"
    BY <2>1, <2>2 DEF Lease
  <2>4. leases'[p].parent = leases[p].parent /\ leases'[p].children = leases[p].children \cup {l}
        /\ leases'[p].depth = leases[p].depth /\ leases'[p].status = leases[p].status
    BY <1>1, <2>1, <2>2 DEF Lease
  <2>5. \A x \in LeaseId : leases[x].children \subseteq LeaseId
                           /\ leases[x].parent \in Option(LeaseId)
    BY <2>2 DEF Lease
  <2> HIDE DEF p
  <2> QED BY <1>1, <2>1, <2>3, <2>4, <2>5 DEF depth
<1>3. ~Stored(l) /\ ~IsRoot(l) /\ leases[l].children = {} /\ Stored(p)
  BY <1>1 DEF DelegateInsert, Stored, ForestInv, Barren
<1> HIDE DEF p
<1>4. \A x \in LeaseId : /\ Stored(x)' <=> (x = l \/ Stored(x))
                         /\ IsRoot(x)' <=> IsRoot(x)
  BY <1>2 DEF Stored, IsRoot
<1>5. DelegationForest'
  <2>1. ASSUME NEW x \in LeaseId, Stored(x)', ~IsRoot(x)'
        PROVE  /\ leases'[leases'[x].parent].status \in {"active", "expired", "revoked"}
               /\ x \in leases'[leases'[x].parent].children
               /\ leases'[x].depth = leases'[leases'[x].parent].depth + 1
    <3>1. CASE x = l
      <4>1. leases'[l].parent = p
        BY <1>2 DEF p
      <4> QED BY <1>1, <1>2, <3>1, <4>1
    <3>2. CASE x # l
      <4>1. /\ leases[x].parent \in LeaseId
            /\ Stored(leases[x].parent)
            /\ x \in leases[leases[x].parent].children
            /\ leases[x].depth = leases[leases[x].parent].depth + 1
        BY <1>2, <1>4, <2>1, <3>2 DEF ForestInv, DelegationForest, IsRoot, Option
      <4>2. leases[x].parent # l
        BY <1>3, <4>1
      <4> QED BY <1>2, <3>2, <4>1, <4>2 DEF Stored
    <3> QED BY <3>1, <3>2
  <2>2. ASSUME NEW x \in LeaseId, NEW c \in leases'[x].children
        PROVE  Stored(c)' /\ leases'[c].parent = x
    <3>1. c \in LeaseId /\ (c \in leases[x].children \/ (c = l /\ x = p))
      BY <1>2, <2>2
    <3>2. CASE c \in leases[x].children
      BY <1>2, <1>4, <3>1, <3>2 DEF ForestInv, DelegationForest
    <3>3. CASE c = l /\ x = p
      BY <1>2, <1>4, <3>3 DEF p
    <3> QED BY <3>1, <3>2, <3>3
  <2>3. ASSUME NEW x \in LeaseId, IsRoot(x)' PROVE leases'[x].depth = 0
    BY <1>2, <1>3, <1>4, <2>3 DEF ForestInv, DelegationForest
  <2> QED BY <2>1, <2>2, <2>3 DEF DelegationForest, Stored
<1>6. Barren'
  BY <1>2, <1>3, <1>4 DEF Barren, ForestInv
<1>7. CascadeStep'
  <2> SUFFICES ASSUME NEW x \in LeaseId, leases'[x].status = "revoked",
                      NEW c \in leases'[x].children
               PROVE  leases'[c].status = "revoked"
    BY DEF CascadeStep
  <2>1. x # l /\ x # p /\ leases[x].status = "revoked"
    BY <1>1, <1>2
  <2>2. c \in leases[x].children /\ c \in LeaseId
    BY <1>2, <2>1
  <2>3. leases[c].status = "revoked" /\ c # l
    BY <1>1, <2>1, <2>2 DEF ForestInv, CascadeStep
  <2> QED BY <1>2, <2>2, <2>3
<1> QED BY <1>5, <1>6, <1>7 DEF ForestInv

\* The empty table is a forest.
LEMMA ForestInit == Init => ForestInv
<1> SUFFICES ASSUME Init PROVE ForestInv
  OBVIOUS
<1>1. \A l \in LeaseId : /\ leases[l].status = "unborn" /\ leases[l].children = {}
                         /\ leases[l].depth = 0
  BY DEF Init, NoLease
<1> QED BY <1>1, TypeInit DEF ForestInv, DelegationForest, Barren, CascadeStep, Stored

\* Every lock section keeps the forest and the cascade.
LEMMA ForestNext == ForestInv /\ [Next]_vars => ForestInv'
<1> SUFFICES ASSUME ForestInv, [Next]_vars PROVE ForestInv'
  OBVIOUS
<1>0. TypeOK /\ TypeOK'
  BY TypeNext DEF ForestInv
<1>1. ASSUME NEW l \in LeaseId, NEW a \in Agent, NEW g \in Grant, NEW c \in Constraints,
             CreateDraft(l, a, g, c)
      PROVE  ForestInv'
  <2>1. /\ ~Stored(l) /\ ~Stored(l)'
        /\ leases'[l].children = {} /\ leases'[l].depth = 0
        /\ \A x \in LeaseId \ {l} : leases'[x] = leases[x]
    BY <1>0, <1>1 DEF CreateDraft, NoLease, Stored, TypeOK
  <2> QED BY <1>0, <2>1, DraftForest
<1>2. ASSUME NEW l \in LeaseId, CreateInsert(l) PROVE ForestInv'
  BY <1>0, <1>2, CreateInsertForest
<1>3. ASSUME NEW l \in LeaseId, NEW p \in LeaseId, NEW a \in Agent,
             NEW s \in SUBSET Permission, NEW t \in ChildTtl, DelegateDraft(l, p, a, s, t)
      PROVE  ForestInv'
  <2>1. /\ ~Stored(l) /\ ~Stored(l)'
        /\ leases'[l].children = {} /\ leases'[l].depth = 0
        /\ \A x \in LeaseId \ {l} : leases'[x] = leases[x]
    BY <1>0, <1>3 DEF DelegateDraft, NoLease, Stored, TypeOK
  <2> QED BY <1>0, <2>1, DraftForest
<1>4. ASSUME NEW l \in LeaseId, DelegateInsert(l) PROVE ForestInv'
  BY <1>0, <1>4, DelegateInsertForest
<1>5. ASSUME NEW l \in LeaseId, DelegateReject(l) PROVE ForestInv'
  <2>1. /\ ~Stored(l) /\ ~Stored(l)'
        /\ leases'[l].children = {} /\ leases'[l].depth = 0
        /\ \A x \in LeaseId \ {l} : leases'[x] = leases[x]
    BY <1>0, <1>5 DEF DelegateReject, NoLease, Stored, TypeOK
  <2> QED BY <1>0, <2>1, DraftForest
<1>6. ASSUME NEW l \in LeaseId, NEW e \in Extension, Renew(l, e) PROVE ForestInv'
  <2>1. \A x \in LeaseId : /\ leases'[x].status = leases[x].status
                           /\ leases'[x].parent = leases[x].parent
                           /\ leases'[x].children = leases[x].children
                           /\ leases'[x].depth = leases[x].depth
    BY <1>0, <1>6 DEF Renew, TypeOK, Lease
  <2> QED BY <1>0, <2>1, SameForest
<1>7. ASSUME NEW l \in LeaseId, Use(l) PROVE ForestInv'
  <2>1. \A x \in LeaseId : /\ leases'[x].status = leases[x].status
                           /\ leases'[x].parent = leases[x].parent
                           /\ leases'[x].children = leases[x].children
                           /\ leases'[x].depth = leases[x].depth
    BY <1>0, <1>7 DEF Use, TypeOK, Lease
  <2> QED BY <1>0, <2>1, SameForest
<1>8. ASSUME NEW l \in LeaseId, Revoke(l) PROVE ForestInv'
  BY <1>0, <1>8, RevokeForest DEF Revoke
<1>9. CASE ReapRevoke
  <2>1. reaper.at \in LeaseId /\ RevokeCascade(reaper.at)
    BY <1>0, <1>9 DEF ReapRevoke, TypeOK, Reaper, Option
  <2> QED BY <1>0, <2>1, RevokeForest
<1>10. CASE SweepExpired
  <2>1. /\ Overdue(sweepAt) \in SUBSET LeaseId
        /\ \A l \in Overdue(sweepAt) : Stored(l) /\ leases[l].status = "active"
    BY DEF Overdue, Stored
  <2>2. Terminate(Overdue(sweepAt), "expired", "expired")
    BY <1>10 DEF SweepExpired
  <2> QED BY <1>0, <2>1, <2>2, TerminateForest
<1>11. ASSUME UNCHANGED leases PROVE ForestInv'
  BY <1>0, <1>11, SameForest
<1>12. ASSUME NEW l \in LeaseId,
              PushIndex(l) \/ ReportGranted(l) \/ ReapSkip(l) \/ ReapCollect(l)
       PROVE  ForestInv'
  BY <1>11, <1>12 DEF PushIndex, ReportGranted, ReapSkip, ReapCollect
<1>13. ASSUME NEW a \in Agent, ReapStart(a) PROVE ForestInv'
  BY <1>11, <1>13 DEF ReapStart
<1>14. CASE ReapFinish \/ SweepStart \/ Tick \/ UNCHANGED vars
  BY <1>11, <1>14 DEF ReapFinish, SweepStart, Tick, vars
<1> QED
  BY <1>1, <1>2, <1>3, <1>4, <1>5, <1>6, <1>7, <1>8, <1>9, <1>10, <1>12, <1>13, <1>14
  DEF Next, Create, Delegate, Reap, Sweep

\* From one delegation at a time to all descendants: the revoked leases are
\* closed under taking children.
LEMMA ForestCascades == ForestInv => RevocationCascades
<1> SUFFICES ASSUME ForestInv, NEW l \in LeaseId, leases[l].status = "revoked"
             PROVE  \A d \in Descendants(l) : leases[d].status = "revoked"
  BY DEF RevocationCascades
<1> DEFINE R == {x \in LeaseId : leases[x].status = "revoked"}
<1>1. \A x \in R : leases[x].children \subseteq R
  BY DEF ForestInv, CascadeStep, TypeOK, Lease
<1>2. Descendants(l) \subseteq R
  BY <1>1, DescendantsLeast
<1> QED BY <1>2

\* However delegations and revocations interleave, no lease below a revoked
\* one is alive (revoke_lease, delegate).
THEOREM CascadeTheorem == Spec => []RevocationCascades
<1>1. Spec => []ForestInv
  BY ForestInit, ForestNext, PTL DEF Spec
<1> QED BY <1>1, ForestCascades, PTL

\* parent_lease_id and child_lease_ids always describe the same forest.
THEOREM ForestTheorem == Spec => []DelegationForest
<1>1. Spec => []ForestInv
  BY ForestInit, ForestNext, PTL DEF Spec
<1>2. ForestInv => DelegationForest
  BY DEF ForestInv
<1> QED BY <1>1, <1>2, PTL

(***************************************************************************)
(* Status only moves forward                                               *)
(***************************************************************************)

Forward ==
    \A l \in LeaseId :
        /\ leases[l].status = "revoked" => leases'[l].status = "revoked"
        /\ leases[l].status = "expired" => leases'[l].status \in {"expired", "revoked"}

\* Ending leases changes the status of those leases only.
LEMMA TerminateStatus ==
    ASSUME TypeOK, NEW S \in SUBSET LeaseId, NEW e \in {"revoked", "expired"}, Terminate(S, e, e)
    PROVE  \A l \in LeaseId : leases'[l].status = IF l \in S THEN e ELSE leases[l].status
BY DEF Terminate, TypeOK, Lease

\* revoke_lease brings no lease back.
LEMMA RevokeForward ==
    ASSUME TypeOK, NEW l \in LeaseId, RevokeCascade(l)
    PROVE  Forward
<1>1. {l} \cup Descendants(l) \in SUBSET LeaseId
  BY DEF Descendants
<1> QED BY <1>1, TerminateStatus DEF RevokeCascade, Forward

\* No lock section brings a lease back.
LEMMA ForwardNext == TypeOK /\ [Next]_vars => Forward
<1> SUFFICES ASSUME TypeOK, [Next]_vars PROVE Forward
  OBVIOUS
<1>1. ASSUME NEW l \in LeaseId, NEW a \in Agent, NEW g \in Grant, NEW c \in Constraints,
             CreateDraft(l, a, g, c)
      PROVE  Forward
  BY <1>1 DEF CreateDraft, Forward, TypeOK
<1>2. ASSUME NEW l \in LeaseId, CreateInsert(l) PROVE Forward
  BY <1>2 DEF CreateInsert, Forward, TypeOK, Lease
<1>3. ASSUME NEW l \in LeaseId, NEW p \in LeaseId, NEW a \in Agent,
             NEW s \in SUBSET Permission, NEW t \in ChildTtl, DelegateDraft(l, p, a, s, t)
      PROVE  Forward
  BY <1>3 DEF DelegateDraft, Forward, TypeOK
<1>4. ASSUME NEW l \in LeaseId, DelegateInsert(l) PROVE Forward
  <2> DEFINE p == leases[l].parent
             child == [leases[l] EXCEPT !.status = "active", !.depth = leases[p].depth + 1,
                         !.terms = [leases[p].terms EXCEPT !.maxRequests = None,
                                                           !.renewable = TRUE]]
  <2>1. p \in LeaseId /\ leases[l].status = "draft" /\ p # l
    BY <1>4 DEF DelegateInsert, MayDelegate, Usable, IsRoot, TypeOK, Lease, Option
  <2>2. /\ leases'[p] = [leases[p] EXCEPT !.children = @ \cup {l}]
        /\ \A x \in LeaseId \ {l, p} : leases'[x] = leases[x]
    BY <1>4, <2>1 DEF DelegateInsert, TypeOK
  <2>3. leases'[p].status = leases[p].status
    BY <2>1, <2>2 DEF TypeOK, Lease
  <2> HIDE DEF p
  <2> QED BY <2>1, <2>2, <2>3 DEF Forward
<1>5. ASSUME NEW l \in LeaseId, DelegateReject(l) PROVE Forward
  BY <1>5 DEF DelegateReject, Forward, TypeOK
<1>6. ASSUME NEW l \in LeaseId, NEW e \in Extension, Renew(l, e) PROVE Forward
  BY <1>6 DEF Renew, Forward, TypeOK, Lease
<1>7. ASSUME NEW l \in LeaseId, Use(l) PROVE Forward
  BY <1>7 DEF Use, Forward, TypeOK, Lease
<1>8. ASSUME NEW l \in LeaseId, Revoke(l) PROVE Forward
  BY <1>8, RevokeForward DEF Revoke
<1>9. CASE ReapRevoke
  <2>1. reaper.at \in LeaseId /\ RevokeCascade(reaper.at)
    BY <1>9 DEF ReapRevoke, TypeOK, Reaper, Option
  <2> QED BY <2>1, RevokeForward
<1>10. CASE SweepExpired
  <2>1. Overdue(sweepAt) \in SUBSET LeaseId
    BY DEF Overdue
  <2>2. \A l \in LeaseId : leases'[l].status = IF l \in Overdue(sweepAt) THEN "expired"
                                                ELSE leases[l].status
    BY <1>10, <2>1, TerminateStatus DEF SweepExpired
  <2> QED BY <2>2 DEF Forward, Overdue
<1>11. ASSUME UNCHANGED leases PROVE Forward
  BY <1>11 DEF Forward
<1>12. ASSUME NEW l \in LeaseId,
              PushIndex(l) \/ ReportGranted(l) \/ ReapSkip(l) \/ ReapCollect(l)
       PROVE  Forward
  BY <1>11, <1>12 DEF PushIndex, ReportGranted, ReapSkip, ReapCollect
<1>13. ASSUME NEW a \in Agent, ReapStart(a) PROVE Forward
  BY <1>11, <1>13 DEF ReapStart
<1>14. CASE ReapFinish \/ SweepStart \/ Tick \/ UNCHANGED vars
  BY <1>11, <1>14 DEF ReapFinish, SweepStart, Tick, vars
<1> QED
  BY <1>1, <1>2, <1>3, <1>4, <1>5, <1>6, <1>7, <1>8, <1>9, <1>10, <1>12, <1>13, <1>14
  DEF Next, Create, Delegate, Reap, Sweep

\* What a step may never do: bring a lease that has ended back.
EndedStaysEnded ==
    [][\A l \in LeaseId :
          /\ leases[l].status = "revoked" => leases'[l].status = "revoked"
          /\ leases[l].status = "expired" => leases'[l].status \in {"expired", "revoked"}
      ]_vars

\* A revoked lease stays revoked and an expired one is never active again,
\* whatever the sweep, revocations and delegations do (sweep_expired,
\* revoke_lease).
THEOREM EndedTheorem == Spec => EndedStaysEnded
<1>1. TypeOK /\ [Next]_vars => [Forward]_vars
  BY ForwardNext
<1>2. Spec => [][Forward]_vars
  BY <1>1, TypeCorrect, PTL DEF Spec
<1> QED BY <1>2 DEF EndedStaysEnded, Forward

(***************************************************************************)
(* Bounded lifetime                                                        *)
(***************************************************************************)

\* LifetimeBounded, and what it needs of a lease that is not in the table yet.
LifetimeOf(r) ==
    /\ r.status \in {"active", "expired", "revoked"} =>
          /\ r.expires = r.created + r.cumulative
          /\ r.cumulative <= r.terms.maxCumulative \/ r.cumulative <= r.ttl
          /\ r.renewals <= r.terms.maxRenewals
    /\ r.status = "draft" =>
          /\ r.expires = r.created + r.cumulative
          /\ r.cumulative = r.ttl
          /\ r.renewals = 0

LifetimeInv == TypeOK /\ \A l \in LeaseId : LifetimeOf(leases[l])

\* Ending a lease leaves its lifetime alone.
LEMMA TerminateLifetime ==
    ASSUME LifetimeInv, TypeOK', NEW S \in SUBSET LeaseId, NEW e \in {"revoked", "expired"},
           Terminate(S, e, e), \A l \in S : Stored(l)
    PROVE  LifetimeInv'
<1>1. ASSUME NEW l \in S PROVE LifetimeOf([leases[l] EXCEPT !.status = e])
  BY <1>1 DEF LifetimeInv, LifetimeOf, Stored, TypeOK, Lease
<1> QED BY <1>1 DEF Terminate, LifetimeInv

\* revoke_lease leaves every lifetime alone.
LEMMA RevokeLifetime ==
    ASSUME LifetimeInv, TypeOK', ForestInv, NEW l \in LeaseId, RevokeCascade(l)
    PROVE  LifetimeInv'
<1> DEFINE T == {x \in LeaseId : Stored(x)}
<1>1. \A x \in LeaseId : leases[x].children \subseteq T
  BY DEF ForestInv, DelegationForest, TypeOK, Lease
<1>2. Descendants(l) \subseteq T
  BY <1>1, DescendantsLeast
<1> QED BY <1>2, TerminateLifetime DEF RevokeCascade

\* Every lock section keeps the lifetimes within their limits.
LEMMA LifetimeNext == LifetimeInv /\ ForestInv /\ [Next]_vars => LifetimeInv'
<1> SUFFICES ASSUME LifetimeInv, ForestInv, [Next]_vars PROVE LifetimeInv'
  OBVIOUS
<1>0. TypeOK /\ TypeOK' /\ now \in Nat
  BY TypeNext DEF LifetimeInv, TypeOK
<1>a. ASSUME NEW l \in LeaseId, LifetimeOf(leases'[l]),
             \A x \in LeaseId \ {l} : leases'[x] = leases[x]
      PROVE  LifetimeInv'
  BY <1>0, <1>a DEF LifetimeInv
<1>1. ASSUME NEW l \in LeaseId, NEW a \in Agent, NEW g \in Grant, NEW c \in Constraints,
             CreateDraft(l, a, g, c)
      PROVE  LifetimeInv'
  <2>1. LifetimeOf(leases'[l])
    BY <1>0, <1>1 DEF CreateDraft, LifetimeOf, NoLease, TypeOK
  <2> QED BY <1>0, <1>1, <2>1, <1>a DEF CreateDraft, TypeOK
<1>2. ASSUME NEW l \in LeaseId, CreateInsert(l) PROVE LifetimeInv'
  <2>1. leases[l] \in Lease /\ leases[l].status = "draft" /\ LifetimeOf(leases[l])
        /\ leases'[l] = [leases[l] EXCEPT !.status = "active"]
    BY <1>0, <1>2 DEF CreateInsert, TypeOK, LifetimeInv
  <2>2. LifetimeOf(leases'[l])
    BY <2>1 DEF LifetimeOf, Lease, Terms
  <2> QED BY <1>0, <1>2, <2>2, <1>a DEF CreateInsert, TypeOK
<1>3. ASSUME NEW l \in LeaseId, NEW p \in LeaseId, NEW a \in Agent,
             NEW s \in SUBSET Permission, NEW t \in ChildTtl, DelegateDraft(l, p, a, s, t)
      PROVE  LifetimeInv'
  <2>1. LifetimeOf(leases'[l])
    BY <1>0, <1>3 DEF DelegateDraft, LifetimeOf, NoLease, TypeOK
  <2> QED BY <1>0, <1>3, <2>1, <1>a DEF DelegateDraft, TypeOK
<1>4. ASSUME NEW l \in LeaseId, DelegateInsert(l) PROVE LifetimeInv'
  <2> DEFINE p == leases[l].parent
             terms == [leases[p].terms EXCEPT !.maxRequests = None, !.renewable = TRUE]
             depth == leases[p].depth + 1
  <2>1. p \in LeaseId /\ leases[l].status = "draft" /\ p # l /\ leases[p].status = "active"
    BY <1>0, <1>4 DEF DelegateInsert, MayDelegate, Usable, IsRoot, TypeOK, Lease, Option
  <2>2. /\ leases'[l] = [leases[l] EXCEPT !.status = "active", !.depth = depth, !.terms = terms]
        /\ leases'[p] = [leases[p] EXCEPT !.children = @ \cup {l}]
        /\ \A x \in LeaseId \ {l, p} : leases'[x] = leases[x]
    BY <1>0, <1>4, <2>1 DEF DelegateInsert, TypeOK
  <2>3. terms \in Terms
    <3>1. leases[p].terms \in Terms
      BY <1>0, <2>1 DEF Lease, TypeOK
    <3> QED BY <3>1 DEF Terms, Option
  <2> HIDE DEF terms, depth, p
  <2>4. LifetimeOf(leases'[l])
    <3>1. leases[l] \in Lease /\ LifetimeOf(leases[l])
      BY <1>0 DEF TypeOK, LifetimeInv
    <3>2. terms.maxRenewals \in Nat /\ terms.maxCumulative \in Nat
      BY <2>3 DEF Terms
    <3> QED BY <2>1, <2>2, <3>1, <3>2 DEF LifetimeOf, Lease
  <2>5. LifetimeOf(leases'[p])
    <3>1. leases[p] \in Lease /\ LifetimeOf(leases[p])
      BY <1>0, <2>1 DEF TypeOK, LifetimeInv
    <3> QED BY <2>1, <2>2, <3>1 DEF LifetimeOf, Lease
  <2> QED BY <1>0, <2>1, <2>2, <2>4, <2>5 DEF LifetimeInv
<1>5. ASSUME NEW l \in LeaseId, DelegateReject(l) PROVE LifetimeInv'
  <2>1. LifetimeOf(leases'[l])
    BY <1>0, <1>5 DEF DelegateReject, LifetimeOf, NoLease, TypeOK
  <2> QED BY <1>0, <1>5, <2>1, <1>a DEF DelegateReject, TypeOK
<1>6. ASSUME NEW l \in LeaseId, NEW e \in Extension, Renew(l, e) PROVE LifetimeInv'
  <2>1. e \in Int
    BY InputAssumption
  <2>2. leases[l] \in Lease /\ LifetimeOf(leases[l])
        /\ leases'[l] = [leases[l] EXCEPT !.expires = @ + e,
                                          !.cumulative = leases[l].cumulative + e,
                                          !.renewals = @ + 1]
        /\ leases[l].status = "active"
        /\ leases[l].renewals < leases[l].terms.maxRenewals
        /\ leases[l].cumulative + e <= leases[l].terms.maxCumulative
    BY <1>0, <1>6 DEF Renew, Usable, TypeOK, LifetimeInv
  <2>3. /\ leases'[l].status = "active" /\ leases'[l].created = leases[l].created
        /\ leases'[l].ttl = leases[l].ttl /\ leases'[l].terms = leases[l].terms
        /\ leases'[l].expires = leases[l].expires + e
        /\ leases'[l].cumulative = leases[l].cumulative + e
        /\ leases'[l].renewals = leases[l].renewals + 1
    BY <2>2 DEF Lease
  <2>4. /\ leases[l].created \in Nat /\ leases[l].cumulative \in Nat
        /\ leases[l].renewals \in Nat /\ leases[l].terms.maxRenewals \in Nat
    BY <2>2 DEF Lease, Terms
  <2>5. leases'[l].expires = leases'[l].created + leases'[l].cumulative
    BY <2>1, <2>2, <2>3, <2>4 DEF LifetimeOf
  <2>6. LifetimeOf(leases'[l])
    BY <2>2, <2>3, <2>4, <2>5 DEF LifetimeOf
  <2> QED BY <1>0, <1>6, <2>6, <1>a DEF Renew, TypeOK
<1>7. ASSUME NEW l \in LeaseId, Use(l) PROVE LifetimeInv'
  <2>1. leases[l] \in Lease /\ LifetimeOf(leases[l])
        /\ leases'[l] = [leases[l] EXCEPT !.requests = @ + 1]
    BY <1>0, <1>7 DEF Use, TypeOK, LifetimeInv
  <2>2. LifetimeOf(leases'[l])
    BY <2>1 DEF LifetimeOf, Lease
  <2> QED BY <1>0, <1>7, <2>2, <1>a DEF Use, TypeOK
<1>8. ASSUME NEW l \in LeaseId, Revoke(l) PROVE LifetimeInv'
  BY <1>0, <1>8, RevokeLifetime DEF Revoke
<1>9. CASE ReapRevoke
  <2>1. reaper.at \in LeaseId /\ RevokeCascade(reaper.at)
    BY <1>0, <1>9 DEF ReapRevoke, TypeOK, Reaper, Option
  <2> QED BY <1>0, <2>1, RevokeLifetime
<1>10. CASE SweepExpired
  <2>1. /\ Overdue(sweepAt) \in SUBSET LeaseId
        /\ \A l \in Overdue(sweepAt) : Stored(l)
    BY DEF Overdue, Stored
  <2>2. Terminate(Overdue(sweepAt), "expired", "expired")
    BY <1>10 DEF SweepExpired
  <2> QED BY <1>0, <2>1, <2>2, TerminateLifetime
<1>11. ASSUME UNCHANGED leases PROVE LifetimeInv'
  BY <1>0, <1>11 DEF LifetimeInv
<1>12. ASSUME NEW l \in LeaseId,
              PushIndex(l) \/ ReportGranted(l) \/ ReapSkip(l) \/ ReapCollect(l)
       PROVE  LifetimeInv'
  BY <1>11, <1>12 DEF PushIndex, ReportGranted, ReapSkip, ReapCollect
<1>13. ASSUME NEW a \in Agent, ReapStart(a) PROVE LifetimeInv'
  BY <1>11, <1>13 DEF ReapStart
<1>14. CASE ReapFinish \/ SweepStart \/ Tick \/ UNCHANGED vars
  BY <1>11, <1>14 DEF ReapFinish, SweepStart, Tick, vars
<1> QED
  BY <1>1, <1>2, <1>3, <1>4, <1>5, <1>6, <1>7, <1>8, <1>9, <1>10, <1>12, <1>13, <1>14
  DEF Next, Create, Delegate, Reap, Sweep

\* No sequence of renewals takes a lease past its cumulative limit, and its
\* expiry is always what the cumulative TTL says (renew_lease).
THEOREM LifetimeTheorem == Spec => []LifetimeBounded
<1>1. Init => LifetimeInv
  BY TypeInit DEF Init, LifetimeInv, LifetimeOf, NoLease
<1>2. Spec => []ForestInv
  BY ForestInit, ForestNext, PTL DEF Spec
<1>3. Spec => []LifetimeInv
  BY <1>1, <1>2, LifetimeNext, PTL DEF Spec
<1>4. LifetimeInv => LifetimeBounded
  BY DEF LifetimeInv, LifetimeOf, LifetimeBounded, Stored
<1> QED BY <1>3, <1>4, PTL

=============================================================================
