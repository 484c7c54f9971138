------------------------- MODULE LeaseContractProofs -------------------------
(***************************************************************************)
(* What the forest of LeaseManagerProofs gives the rest of the Gate, again *)
(* for every set of leases, agents and policies and every bound: delegation*)
(* attenuates, revoke_agent_leases misses no root, the audit trail accounts*)
(* for the table, and the manager implements LeaseContract.                *)
(***************************************************************************)
EXTENDS LeaseManagerProofs

(***************************************************************************)
(* The steps as the table sees them                                        *)
(***************************************************************************)

\* A lease outside the table is given to a draft or taken back.
DraftStep(l) ==
    /\ ~Stored(l) /\ ~Stored(l)'
    /\ leases'[l].children = {}
    /\ leases'[l].requests = 0
    /\ \A x \in LeaseId \ {l} : leases'[x] = leases[x]

\* renew_lease and use_lease: nothing the forest or the terms hold is touched.
CountStep(l) ==
    /\ leases[l].status = "active"
    /\ \A x \in LeaseId :
          /\ leases'[x].status = leases[x].status
          /\ leases'[x].scope = leases[x].scope
          /\ leases'[x].terms = leases[x].terms
          /\ leases'[x].parent = leases[x].parent
          /\ leases'[x].children = leases[x].children
          /\ leases'[x].depth = leases[x].depth
    /\ \A x \in LeaseId \ {l} : leases'[x] = leases[x]
    /\ \/ leases'[l].requests = leases[l].requests
       \/ leases'[l].requests = leases[l].requests + 1

\* A draft becomes a root of the table.
RootStep(l) ==
    /\ leases[l].status = "draft" /\ IsRoot(l)
    /\ leases' = [leases EXCEPT ![l].status = "active"]

\* A draft becomes the child of a lease that is active.
ChildStep(l, p) ==
    /\ p \in LeaseId /\ p # l /\ p = leases[l].parent
    /\ leases[l].status = "draft" /\ leases[p].status = "active"
    /\ leases[l].scope \subseteq leases[p].scope
    /\ leases[p].depth + 1 <= Or(leases[p].terms.maxDepth, DefaultMaxDepth)
    /\ leases'[l] = [leases[l] EXCEPT
          !.status = "active",
          !.depth = leases[p].depth + 1,
          !.terms = [leases[p].terms EXCEPT !.maxRequests = None, !.renewable = TRUE]]
    /\ leases'[p] = [leases[p] EXCEPT !.children = @ \cup {l}]
    /\ \A x \in LeaseId \ {l, p} : leases'[x] = leases[x]

\* Leases of the table end.
EndStep(S, e) ==
    /\ \A l \in S : Stored(l)
    /\ e = "expired" => \A l \in S : leases[l].status = "active"
    /\ leases' = [l \in LeaseId |->
          IF l \in S THEN [leases[l] EXCEPT !.status = e] ELSE leases[l]]

TableStep ==
    \/ \E l \in LeaseId : DraftStep(l)
    \/ \E l \in LeaseId : CountStep(l)
    \/ \E l \in LeaseId : RootStep(l)
    \/ \E l, p \in LeaseId : ChildStep(l, p)
    \/ \E l \in LeaseId : Stored(l) /\ EndStep({l} \cup Descendants(l), "revoked")
    \/ \E S \in SUBSET LeaseId : EndStep(S, "expired")
    \/ UNCHANGED leases

\* create_lease and delegate before they take the lock, and a delegate that
\* returns an error under it, only touch a lease outside the table.
LEMMA Drafts ==
    ASSUME TypeOK, NEW l \in LeaseId,
           \/ \E a \in Agent, g \in Grant, c \in Constraints : CreateDraft(l, a, g, c)
           \/ \E p \in LeaseId, a \in Agent, s \in SUBSET Permission, t \in ChildTtl :
                 DelegateDraft(l, p, a, s, t)
           \/ DelegateReject(l)
    PROVE  DraftStep(l)
<1>1. ASSUME NEW a \in Agent, NEW g \in Grant, NEW c \in Constraints, CreateDraft(l, a, g, c)
      PROVE  DraftStep(l)
  BY <1>1 DEF CreateDraft, DraftStep, NoLease, Stored, TypeOK
<1>2. ASSUME NEW p \in LeaseId, NEW a \in Agent, NEW s \in SUBSET Permission,
             NEW t \in ChildTtl, DelegateDraft(l, p, a, s, t)
      PROVE  DraftStep(l)
  BY <1>2 DEF DelegateDraft, DraftStep, NoLease, Stored, TypeOK
<1>3. ASSUME DelegateReject(l) PROVE DraftStep(l)
  BY <1>3 DEF DelegateReject, DraftStep, NoLease, Stored, TypeOK
<1> QED BY <1>1, <1>2, <1>3

\* renew_lease and use_lease are counting steps.
LEMMA Counts ==
    ASSUME TypeOK, NEW l \in LeaseId, (\E e \in Extension : Renew(l, e)) \/ Use(l)
    PROVE  CountStep(l)
<1>0. \A x \in LeaseId : leases[x] \in Lease
  BY DEF TypeOK
<1>1. ASSUME NEW e \in Extension, Renew(l, e) PROVE CountStep(l)
  <2>1. /\ leases[l].status = "active"
        /\ leases'[l] = [leases[l] EXCEPT !.expires = @ + e,
                                          !.cumulative = leases[l].cumulative + e,
                                          !.renewals = @ + 1]
        /\ \A x \in LeaseId \ {l} : leases'[x] = leases[x]
    BY <1>1 DEF Renew, Usable, TypeOK
  <2>2. /\ leases'[l].status = leases[l].status /\ leases'[l].scope = leases[l].scope
        /\ leases'[l].terms = leases[l].terms /\ leases'[l].parent = leases[l].parent
        /\ leases'[l].children = leases[l].children /\ leases'[l].depth = leases[l].depth
        /\ leases'[l].requests = leases[l].requests
    BY <1>0, <2>1 DEF Lease
  <2> QED BY <2>1, <2>2 DEF CountStep
<1>2. ASSUME Use(l) PROVE CountStep(l)
  BY <1>2 DEF Use, Usable, CountStep, TypeOK, Lease
<1> QED BY <1>1, <1>2

\* delegate's second half inserts a child.
LEMMA Childs ==
    ASSUME TypeOK, NEW l \in LeaseId, DelegateInsert(l)
    PROVE  leases[l].parent \in LeaseId /\ ChildStep(l, leases[l].parent)
<1> DEFINE p == leases[l].parent
<1>1. p \in LeaseId /\ leases[p].status = "active" /\ p # l /\ leases[l].status = "draft"
  BY DEF DelegateInsert, MayDelegate, Usable, IsRoot, TypeOK, Lease, Option
<1>2. /\ leases'[l] = [leases[l] EXCEPT
            !.status = "active", !.depth = leases[p].depth + 1,
            !.terms = [leases[p].terms EXCEPT !.maxRequests = None, !.renewable = TRUE]]
      /\ leases'[p] = [leases[p] EXCEPT !.children = @ \cup {l}]
      /\ \A x \in LeaseId \ {l, p} : leases'[x] = leases[x]
  BY <1>1 DEF DelegateInsert, TypeOK
<1>3. /\ leases[l].scope \subseteq leases[p].scope
      /\ leases[p].depth + 1 <= Or(leases[p].terms.maxDepth, DefaultMaxDepth)
  BY DEF DelegateInsert, MayDelegate
<1> QED BY <1>1, <1>2, <1>3 DEF ChildStep

\* A lease and its descendants are leases.
LEMMA SubtreeType == \A l \in LeaseId : {l} \cup Descendants(l) \in SUBSET LeaseId
BY DEF Descendants

\* revoke_lease ends leases of the table: children are in it.
LEMMA Revokes ==
    ASSUME ForestInv, NEW l \in LeaseId, RevokeCascade(l)
    PROVE  Stored(l) /\ EndStep({l} \cup Descendants(l), "revoked")
<1> DEFINE T == {x \in LeaseId : Stored(x)}
<1>1. \A x \in LeaseId : leases[x].children \subseteq T
  BY DEF ForestInv, DelegationForest, TypeOK, Lease
<1>2. Descendants(l) \subseteq T
  BY <1>1, DescendantsLeast
<1> QED BY <1>2 DEF RevokeCascade, Terminate, EndStep

\* sweep_expired ends the active leases that are overdue.
LEMMA Sweeps ==
    ASSUME SweepExpired
    PROVE  /\ Overdue(sweepAt) \in SUBSET LeaseId
           /\ EndStep(Overdue(sweepAt), "expired")
BY DEF SweepExpired, Terminate, EndStep, Overdue, Stored

\* Every lock section is one of these as far as the table goes.
LEMMA TableNext == ForestInv /\ [Next]_vars => TableStep
<1> SUFFICES ASSUME ForestInv, [Next]_vars PROVE TableStep
  OBVIOUS
<1>0. TypeOK
  BY DEF ForestInv
<1>1. CASE Create
  <2>1. ASSUME NEW l \in LeaseId, CreateInsert(l) PROVE RootStep(l)
    BY <2>1 DEF CreateInsert, RootStep
  <2>2. ASSUME NEW l \in LeaseId, PushIndex(l) \/ ReportGranted(l) PROVE UNCHANGED leases
    BY <2>2 DEF PushIndex, ReportGranted
  <2> QED BY <1>0, <1>1, <2>1, <2>2, Drafts DEF Create, TableStep
<1>2. CASE Delegate
  BY <1>0, <1>2, Drafts, Childs DEF Delegate, TableStep
<1>3. CASE \E l \in LeaseId, e \in Extension : Renew(l, e)
  BY <1>0, <1>3, Counts DEF TableStep
<1>4. ASSUME NEW l \in LeaseId, Use(l) \/ Revoke(l) PROVE TableStep
  BY <1>0, <1>4, Counts, Revokes DEF Revoke, TableStep
<1>5. CASE \E a \in Agent : ReapStart(a)
  BY <1>5 DEF ReapStart, TableStep
<1>6. CASE Reap
  <2>1. ASSUME NEW l \in LeaseId, ReapSkip(l) \/ ReapCollect(l) PROVE UNCHANGED leases
    BY <2>1 DEF ReapSkip, ReapCollect
  <2>2. CASE ReapRevoke
    <3>1. reaper.at \in LeaseId /\ RevokeCascade(reaper.at)
      BY <1>0, <2>2 DEF ReapRevoke, TypeOK, Reaper, Option
    <3> QED BY <3>1, Revokes DEF TableStep
  <2>3. CASE ReapFinish
    BY <2>3 DEF ReapFinish, TableStep
  <2> QED BY <1>6, <2>1, <2>2, <2>3 DEF Reap, TableStep
<1>7. CASE Sweep
  BY <1>7, Sweeps DEF Sweep, SweepStart, TableStep
<1>8. CASE Tick \/ UNCHANGED vars
  BY <1>8 DEF Tick, vars, TableStep
<1> QED BY <1>1, <1>2, <1>3, <1>4, <1>5, <1>6, <1>7, <1>8 DEF Next

\* Ending a lease changes its status and nothing else.
LEMMA EndFields ==
    ASSUME TypeOK, NEW S \in SUBSET LeaseId, NEW e \in {"revoked", "expired"}, EndStep(S, e)
    PROVE  \A l \in LeaseId :
              /\ leases'[l].status = IF l \in S THEN e ELSE leases[l].status
              /\ leases'[l].scope = leases[l].scope
              /\ leases'[l].terms = leases[l].terms
              /\ leases'[l].parent = leases[l].parent
              /\ leases'[l].children = leases[l].children
              /\ leases'[l].depth = leases[l].depth
              /\ leases'[l].requests = leases[l].requests
BY DEF EndStep, TypeOK, Lease

\* Inserting a root changes its status and nothing else.
LEMMA RootFields ==
    ASSUME TypeOK, NEW l \in LeaseId, RootStep(l)
    PROVE  \A x \in LeaseId :
              /\ leases'[x].status = IF x = l THEN "active" ELSE leases[x].status
              /\ leases'[x].scope = leases[x].scope
              /\ leases'[x].terms = leases[x].terms
              /\ leases'[x].parent = leases[x].parent
              /\ leases'[x].children = leases[x].children
              /\ leases'[x].depth = leases[x].depth
              /\ leases'[x].requests = leases[x].requests
BY DEF RootStep, TypeOK, Lease

\* What the insertion of a child leaves in the table, field by field.
ChildEffect(l, p) ==
    /\ \A x \in LeaseId :
          /\ leases'[x].status = IF x = l THEN "active" ELSE leases[x].status
          /\ leases'[x].scope = leases[x].scope
          /\ leases'[x].parent = leases[x].parent
          /\ leases'[x].children =
                IF x = p THEN leases[x].children \cup {l} ELSE leases[x].children
          /\ leases'[x].requests = leases[x].requests
    /\ \A x \in LeaseId \ {l} : /\ leases'[x].terms = leases[x].terms
                                /\ leases'[x].depth = leases[x].depth
    /\ leases'[l].depth = leases[p].depth + 1
    /\ leases'[l].terms.maxCumulative = leases[p].terms.maxCumulative
    /\ leases'[l].terms.maxDepth = leases[p].terms.maxDepth

\* Inserting a child gives it its status, depth and terms, and links it.
LEMMA ChildFields ==
    ASSUME TypeOK, NEW l \in LeaseId, NEW p \in LeaseId, ChildStep(l, p)
    PROVE  ChildEffect(l, p)
<1> DEFINE terms == [leases[p].terms EXCEPT !.maxRequests = None, !.renewable = TRUE]
           depth == leases[p].depth + 1
<1>1. leases[l] \in Lease /\ leases[p] \in Lease /\ p # l
  BY DEF TypeOK, ChildStep
<1>2. /\ terms.maxCumulative = leases[p].terms.maxCumulative
      /\ terms.maxDepth = leases[p].terms.maxDepth
  BY <1>1 DEF Lease, Terms
<1>3. /\ leases'[l] = [leases[l] EXCEPT !.status = "active", !.depth = depth, !.terms = terms]
      /\ leases'[p] = [leases[p] EXCEPT !.children = @ \cup {l}]
      /\ \A x \in LeaseId \ {l, p} : leases'[x] = leases[x]
  BY DEF ChildStep
<1> HIDE DEF terms, depth
<1>4. /\ leases'[l].status = "active" /\ leases'[l].scope = leases[l].scope
      /\ leases'[l].parent = leases[l].parent /\ leases'[l].children = leases[l].children
      /\ leases'[l].requests = leases[l].requests
      /\ leases'[l].depth = depth /\ leases'[l].terms = terms
  BY <1>1, <1>3 DEF Lease
<1>5. /\ leases'[p].status = leases[p].status /\ leases'[p].scope = leases[p].scope
      /\ leases'[p].parent = leases[p].parent
      /\ leases'[p].children = leases[p].children \cup {l}
      /\ leases'[p].requests = leases[p].requests
      /\ leases'[p].depth = leases[p].depth /\ leases'[p].terms = leases[p].terms
  BY <1>1, <1>3 DEF Lease
<1> QED BY <1>1, <1>2, <1>3, <1>4, <1>5 DEF depth, ChildEffect

(***************************************************************************)
(* Attenuation                                                             *)
(*                                                                         *)
(* DelegationAttenuates compares a lease with all its descendants.  The    *)
(* inductive invariant compares parent and child: the scope shrinks, the   *)
(* limits are handed on as they are, and a delegated lease is within the   *)
(* depth limit it was itself given.                                        *)
(***************************************************************************)

AttenuationStep ==
    /\ \A l \in LeaseId : \A c \in leases[l].children :
          /\ leases[c].scope \subseteq leases[l].scope
          /\ leases[c].terms.maxCumulative = leases[l].terms.maxCumulative
          /\ leases[c].terms.maxDepth = leases[l].terms.maxDepth
    /\ \A l \in LeaseId : Stored(l) /\ ~IsRoot(l) =>
          leases[l].depth <= Or(leases[l].terms.maxDepth, DefaultMaxDepth)

\* Every lock section keeps each child within its parent.
LEMMA AttenuationNext == ForestInv /\ AttenuationStep /\ [Next]_vars => AttenuationStep'
<1> SUFFICES ASSUME ForestInv, AttenuationStep, TableStep PROVE AttenuationStep'
  BY TableNext
<1>0. /\ TypeOK
      /\ \A x \in LeaseId : leases[x].children \subseteq {c \in LeaseId : Stored(c)}
      /\ \A x \in LeaseId : ~Stored(x) => leases[x].children = {}
  BY DEF ForestInv, DelegationForest, Barren, TypeOK, Lease
<1>1. ASSUME \A x \in LeaseId :
                /\ leases'[x].scope = leases[x].scope
                /\ leases'[x].terms = leases[x].terms
                /\ leases'[x].parent = leases[x].parent
                /\ leases'[x].children = leases[x].children
                /\ leases'[x].depth = leases[x].depth
                /\ Stored(x)' /\ ~IsRoot(x) => Stored(x)
      PROVE  AttenuationStep'
  BY <1>0, <1>1 DEF AttenuationStep, IsRoot
<1>2. ASSUME NEW l \in LeaseId, DraftStep(l) PROVE AttenuationStep'
  <2>1. ASSUME NEW x \in LeaseId, NEW c \in leases'[x].children
        PROVE  /\ leases'[c].scope \subseteq leases'[x].scope
               /\ leases'[c].terms.maxCumulative = leases'[x].terms.maxCumulative
               /\ leases'[c].terms.maxDepth = leases'[x].terms.maxDepth
    <3>1. x # l /\ c \in leases[x].children /\ c \in LeaseId /\ Stored(c)
      BY <1>0, <1>2, <2>1 DEF DraftStep
    <3>2. c # l
      BY <1>2, <3>1 DEF DraftStep
    <3> QED BY <1>2, <3>1, <3>2 DEF DraftStep, AttenuationStep
  <2>2. ASSUME NEW x \in LeaseId, Stored(x)', ~IsRoot(x)'
        PROVE  leases'[x].depth <= Or(leases'[x].terms.maxDepth, DefaultMaxDepth)
    <3>1. x # l /\ leases'[x] = leases[x]
      BY <1>2, <2>2 DEF DraftStep
    <3> QED BY <2>2, <3>1 DEF AttenuationStep, Stored, IsRoot
  <2> QED BY <2>1, <2>2 DEF AttenuationStep
<1>3. ASSUME NEW l \in LeaseId, CountStep(l) PROVE AttenuationStep'
  BY <1>1, <1>3 DEF CountStep, Stored
<1>4. ASSUME NEW l \in LeaseId, RootStep(l) PROVE AttenuationStep'
  <2>1. \A x \in LeaseId : Stored(x)' /\ ~IsRoot(x) => Stored(x)
    BY <1>0, <1>4, RootFields DEF RootStep, Stored, IsRoot
  <2> QED BY <1>0, <1>1, <1>4, <2>1, RootFields
<1>5. ASSUME NEW l \in LeaseId, NEW p \in LeaseId, ChildStep(l, p) PROVE AttenuationStep'
  <2>0. /\ ~Stored(l) /\ p # l /\ leases[l].scope \subseteq leases[p].scope
        /\ leases[p].depth + 1 <= Or(leases[p].terms.maxDepth, DefaultMaxDepth)
    BY <1>5 DEF ChildStep, Stored
  <2>e. ChildEffect(l, p)
    BY <1>0, <1>5, ChildFields
  <2>a. /\ \A x \in LeaseId :
              /\ leases'[x].scope = leases[x].scope
              /\ leases'[x].children =
                    IF x = p THEN leases[x].children \cup {l} ELSE leases[x].children
        /\ leases'[p].terms = leases[p].terms
        /\ leases'[l].terms.maxCumulative = leases[p].terms.maxCumulative
        /\ leases'[l].terms.maxDepth = leases[p].terms.maxDepth
    BY <2>e, <2>0 DEF ChildEffect
  <2>1. ASSUME NEW x \in LeaseId, NEW c \in leases'[x].children
        PROVE  /\ leases'[c].scope \subseteq leases'[x].scope
               /\ leases'[c].terms.maxCumulative = leases'[x].terms.maxCumulative
               /\ leases'[c].terms.maxDepth = leases'[x].terms.maxDepth
    <3>1. CASE c \in leases[x].children
      <4>1. c \in LeaseId /\ c # l /\ x # l
        BY <1>0, <2>0, <3>1
      <4>2. leases'[c].terms = leases[c].terms /\ leases'[x].terms = leases[x].terms
        BY <2>e, <4>1 DEF ChildEffect
      <4>3. /\ leases[c].scope \subseteq leases[x].scope
            /\ leases[c].terms.maxCumulative = leases[x].terms.maxCumulative
            /\ leases[c].terms.maxDepth = leases[x].terms.maxDepth
        BY <3>1 DEF AttenuationStep
      <4> QED BY <2>a, <4>1, <4>2, <4>3
    <3>2. CASE c \notin leases[x].children
      <4>1. x = p /\ c = l
        BY <2>a, <2>1, <3>2
      <4> QED BY <2>0, <2>a, <4>1
    <3> QED BY <3>1, <3>2
  <2>2. ASSUME NEW x \in LeaseId, Stored(x)', ~IsRoot(x)'
        PROVE  leases'[x].depth <= Or(leases'[x].terms.maxDepth, DefaultMaxDepth)
    <3>1. CASE x = l
      BY <2>e, <2>0, <3>1 DEF ChildEffect
    <3>2. CASE x # l
      <4>1. Stored(x) /\ ~IsRoot(x)
        BY <2>e, <2>2, <3>2 DEF ChildEffect, Stored, IsRoot
      <4> QED BY <2>e, <3>2, <4>1 DEF ChildEffect, AttenuationStep
    <3> QED BY <3>1, <3>2
  <2> QED BY <2>1, <2>2 DEF AttenuationStep
<1>6. ASSUME NEW S \in SUBSET LeaseId, NEW e \in {"revoked", "expired"}, EndStep(S, e)
      PROVE  AttenuationStep'
  <2>1. \A x \in LeaseId : Stored(x)' => Stored(x)
    BY <1>0, <1>6, EndFields DEF EndStep, Stored
  <2> QED BY <1>0, <1>1, <1>6, <2>1, EndFields
<1>7. CASE UNCHANGED leases
  BY <1>1, <1>7 DEF Stored
<1> QED BY <1>2, <1>3, <1>4, <1>5, <1>6, <1>7, SubtreeType DEF TableStep

\* From parent and child to all descendants: the leases within l's limits that
\* were delegated are closed under taking children.
LEMMA StepAttenuates == ForestInv /\ AttenuationStep => DelegationAttenuates
<1> SUFFICES ASSUME ForestInv, AttenuationStep, NEW l \in LeaseId
             PROVE  \A d \in Descendants(l) :
                       /\ leases[d].scope \subseteq leases[l].scope
                       /\ leases[d].terms.maxCumulative <= leases[l].terms.maxCumulative
                       /\ leases[d].depth <= Or(leases[l].terms.maxDepth, DefaultMaxDepth)
  BY DEF DelegationAttenuates
<1> DEFINE W == {d \in LeaseId :
                    /\ Stored(d) /\ ~IsRoot(d)
                    /\ leases[d].scope \subseteq leases[l].scope
                    /\ leases[d].terms.maxCumulative = leases[l].terms.maxCumulative
                    /\ leases[d].terms.maxDepth = leases[l].terms.maxDepth}
<1>1. \A x \in LeaseId : \A c \in leases[x].children :
         c \in LeaseId /\ Stored(c) /\ ~IsRoot(c)
  BY NoneAssumption DEF ForestInv, DelegationForest, TypeOK, Lease, IsRoot
<1>2. leases[l].children \subseteq W /\ \A w \in W : leases[w].children \subseteq W
  BY <1>1 DEF AttenuationStep
<1>3. Descendants(l) \subseteq W
  BY <1>2, DescendantsLeast
<1>4. \A x \in LeaseId : leases[x].terms.maxCumulative \in Nat
  BY DEF ForestInv, TypeOK, Lease, Terms
<1> QED BY <1>3, <1>4 DEF AttenuationStep

\* A chain of delegations never gains: scope, cumulative TTL and depth of every
\* lease below l stay within l's, whatever is delegated from what (delegate).
THEOREM AttenuationTheorem == Spec => []DelegationAttenuates
<1>1. Init => AttenuationStep
  BY DEF Init, AttenuationStep, NoLease, Stored
<1>2. Spec => []ForestInv
  BY ForestInit, ForestNext, PTL DEF Spec
<1>3. Spec => []AttenuationStep
  BY <1>1, <1>2, AttenuationNext, PTL DEF Spec
<1> QED BY <1>2, <1>3, StepAttenuates, PTL

(***************************************************************************)
(* Reaping the leases of a dead agent                                      *)
(***************************************************************************)

\* The table only grows: a lease stays in it, under the same parent, and keeps
\* its children.
Grows ==
    \A l \in LeaseId :
        /\ Stored(l) => Stored(l)' /\ leases'[l].parent = leases[l].parent
        /\ leases[l].children \subseteq leases'[l].children

\* No lock section removes a lease or a link.
LEMMA TableGrows == ForestInv /\ [Next]_vars => Grows
<1> SUFFICES ASSUME ForestInv, TableStep PROVE Grows
  BY TableNext
<1>0. /\ TypeOK
      /\ \A x \in LeaseId : ~Stored(x) => leases[x].children = {}
  BY DEF ForestInv, Barren
<1>1. ASSUME NEW l \in LeaseId, DraftStep(l) PROVE Grows
  <2>1. \A x \in LeaseId : Stored(x) => x # l
    BY <1>1 DEF DraftStep
  <2> QED BY <1>0, <1>1, <2>1 DEF DraftStep, Grows, Stored
<1>2. ASSUME NEW l \in LeaseId, CountStep(l) PROVE Grows
  BY <1>2 DEF CountStep, Grows, Stored
<1>3. ASSUME NEW l \in LeaseId, RootStep(l) PROVE Grows
  BY <1>0, <1>3, RootFields DEF RootStep, Grows, Stored
<1>4. ASSUME NEW l \in LeaseId, NEW p \in LeaseId, ChildStep(l, p) PROVE Grows
  <2>1. \A x \in LeaseId :
           /\ leases'[x].status = IF x = l THEN "active" ELSE leases[x].status
           /\ leases'[x].parent = leases[x].parent
           /\ leases'[x].children =
                 IF x = p THEN leases[x].children \cup {l} ELSE leases[x].children
    BY <1>0, <1>4, ChildFields DEF ChildEffect
  <2> QED BY <2>1 DEF Grows, Stored
<1>5. ASSUME NEW S \in SUBSET LeaseId, NEW e \in {"revoked", "expired"}, EndStep(S, e)
      PROVE  Grows
  BY <1>0, <1>5, EndFields DEF EndStep, Grows, Stored
<1>6. CASE UNCHANGED leases
  BY <1>6 DEF Grows, Stored
<1> QED BY <1>1, <1>2, <1>3, <1>4, <1>5, <1>6, SubtreeType DEF TableStep

\* With more links there are more descendants.
LEMMA DescendantsGrow ==
    ASSUME TypeOK, TypeOK', Grows, NEW l \in LeaseId
    PROVE  Descendants(l) \subseteq Descendants(l)'
<1> DEFINE D == Descendants(l)'
<1>1. D \in SUBSET LeaseId
  BY DEF Descendants
<1>2. \A x \in LeaseId : leases'[x].children \subseteq LeaseId
  BY DEF TypeOK, Lease
<1>3. leases'[l].children \subseteq D /\ \A d \in D : leases'[d].children \subseteq D
  BY <1>2 DEF Descendants
<1>4. leases[l].children \subseteq D /\ \A d \in D : leases[d].children \subseteq D
  BY <1>1, <1>3 DEF Grows
<1> HIDE DEF D
<1>5. Descendants(l) \subseteq D
  BY <1>1, <1>4, DescendantsLeast
<1> QED BY <1>5 DEF D

\* Whatever the index, the tasks and the reaper still name is in the table.
HeldInv ==
    /\ \A a \in Agent : \A l \in index[a] : Stored(l)
    /\ \A l \in unindexed \cup unreported : Stored(l)
    /\ \A l \in reaper.ids : Stored(l)
    /\ reaper.todo \subseteq reaper.ids
    /\ reaper.at # None => reaper.at \in reaper.ids

\* Every lock section names only leases of the table.
LEMMA HeldNext == ForestInv /\ HeldInv /\ [Next]_vars => HeldInv'
<1> SUFFICES ASSUME ForestInv, HeldInv, [Next]_vars PROVE HeldInv'
  OBVIOUS
<1>0. TypeOK /\ Grows /\ ForestInv'
  BY TableGrows, ForestNext DEF ForestInv
<1>a. \A l \in LeaseId : Stored(l) => Stored(l)'
  BY <1>0 DEF Grows
<1>b. ASSUME UNCHANGED reaper,
             \A a \in Agent : \A l \in index'[a] : Stored(l)',
             \A l \in unindexed' \cup unreported' : Stored(l)'
      PROVE  HeldInv'
  <2>1. reaper.ids \subseteq LeaseId
    BY <1>0 DEF TypeOK, Reaper
  <2> QED BY <1>a, <1>b, <2>1 DEF HeldInv
<1>c. /\ \A a \in Agent : \A l \in index[a] : Stored(l)'
      /\ \A l \in unindexed \cup unreported : Stored(l)'
      /\ \A l \in reaper.ids : Stored(l)'
  <2>1. /\ \A a \in Agent : index[a] \subseteq LeaseId
        /\ unindexed \cup unreported \subseteq LeaseId /\ reaper.ids \subseteq LeaseId
    BY <1>0 DEF TypeOK, Reaper
  <2> QED BY <1>a, <2>1 DEF HeldInv
<1>1. ASSUME UNCHANGED <<index, unindexed, unreported, reaper>> PROVE HeldInv'
  BY <1>1, <1>b, <1>c
<1>2. ASSUME NEW l \in LeaseId, CreateInsert(l) \/ DelegateInsert(l) PROVE HeldInv'
  <2>1. /\ UNCHANGED <<index, unreported, reaper>>
        /\ unindexed' = unindexed \cup {l}
    BY <1>2 DEF CreateInsert, DelegateInsert
  <2>2. Stored(l)'
    <3>1. leases'[l].status = "active"
      <4>1. CASE CreateInsert(l)
        BY <1>0, <4>1 DEF CreateInsert, TypeOK, Lease
      <4>2. CASE DelegateInsert(l)
        BY <1>0, <4>2, Childs, ChildFields DEF ChildEffect
      <4> QED BY <1>2, <4>1, <4>2
    <3> QED BY <3>1 DEF Stored
  <2> QED BY <1>b, <1>c, <2>1, <2>2
<1>3. ASSUME NEW l \in LeaseId, PushIndex(l) PROVE HeldInv'
  <2>1. /\ Stored(l)' /\ UNCHANGED reaper
        /\ unindexed' \subseteq unindexed /\ unreported' \subseteq unreported \cup {l}
    BY <1>3, <1>c DEF PushIndex
  <2>2. \A a \in Agent : index'[a] \subseteq index[a] \cup {l}
    BY <1>0, <1>3 DEF PushIndex, TypeOK
  <2> QED BY <1>b, <1>c, <2>1, <2>2
<1>3a. ASSUME NEW l \in LeaseId, ReportGranted(l) PROVE HeldInv'
  <2>1. UNCHANGED <<index, unindexed, reaper>> /\ unreported' \subseteq unreported
    BY <1>3a DEF ReportGranted
  <2> QED BY <1>b, <1>c, <2>1
<1>4. ASSUME NEW S, IndexWithout(S) = index', UNCHANGED <<unindexed, unreported, reaper>>
      PROVE  HeldInv'
  <2>1. \A a \in Agent : index'[a] \subseteq index[a]
    BY <1>4 DEF IndexWithout
  <2> QED BY <1>b, <1>c, <1>4, <2>1
<1>5. ASSUME NEW l \in LeaseId, Revoke(l) PROVE HeldInv'
  BY <1>4, <1>5 DEF Revoke, RevokeCascade, Terminate
<1>6. CASE SweepExpired
  BY <1>4, <1>6 DEF SweepExpired, Terminate
<1>7. ASSUME NEW a \in Agent, ReapStart(a) PROVE HeldInv'
  <2>1. /\ reaper'.ids = index[a] /\ reaper'.todo = index[a] /\ reaper'.at = None
        /\ UNCHANGED <<index, unindexed, unreported>>
    BY <1>7 DEF ReapStart, NoReaper
  <2> QED BY <1>c, <2>1 DEF HeldInv
<1>8. ASSUME NEW l \in LeaseId, ReapSkip(l) \/ ReapCollect(l) PROVE HeldInv'
  <2>1. /\ reaper'.ids = reaper.ids /\ reaper'.todo \subseteq reaper.todo
        /\ reaper'.at \in {reaper.at, l}
        /\ UNCHANGED <<index, unindexed, unreported>> /\ l \in reaper.todo
    BY <1>0, <1>8 DEF ReapSkip, ReapCollect, TypeOK, Reaper
  <2> QED BY <1>c, <2>1 DEF HeldInv
<1>9. CASE ReapRevoke
  <2>1. /\ reaper'.ids = reaper.ids /\ reaper'.todo = reaper.todo /\ reaper'.at = None
        /\ UNCHANGED <<unindexed, unreported>>
    BY <1>0, <1>9 DEF ReapRevoke, TypeOK, Reaper
  <2>2. \A a \in Agent : index'[a] \subseteq index[a]
    BY <1>9 DEF ReapRevoke, RevokeCascade, Terminate, IndexWithout
  <2> QED BY <1>c, <2>1, <2>2 DEF HeldInv
<1>10. CASE ReapFinish
  <2>1. /\ reaper'.ids = {} /\ reaper'.todo = {} /\ reaper'.at = None
        /\ UNCHANGED <<unindexed, unreported>>
    BY <1>10 DEF ReapFinish, NoReaper
  <2>2. \A a \in Agent : index'[a] \subseteq index[a]
    BY <1>0, <1>10 DEF ReapFinish, TypeOK
  <2> QED BY <1>c, <2>1, <2>2 DEF HeldInv
<1>11. ASSUME NEW l \in LeaseId,
              \/ \E a \in Agent, g \in Grant, c \in Constraints : CreateDraft(l, a, g, c)
              \/ \E p \in LeaseId, a \in Agent, s \in SUBSET Permission, t \in ChildTtl :
                    DelegateDraft(l, p, a, s, t)
              \/ DelegateReject(l)
              \/ \E e \in Extension : Renew(l, e)
              \/ Use(l)
       PROVE  HeldInv'
  BY <1>1, <1>11 DEF CreateDraft, DelegateDraft, DelegateReject, Renew, Use
<1>12. CASE SweepStart \/ Tick \/ UNCHANGED vars
  BY <1>1, <1>12 DEF SweepStart, Tick, vars
<1> QED
  BY <1>2, <1>3, <1>3a, <1>5, <1>6, <1>7, <1>8, <1>9, <1>10, <1>11, <1>12
  DEF Next, Create, Delegate, Reap, Sweep

\* What a step of the loop of revoke_agent_leases has left behind is revoked.
LEMMA ReapedNext ==
    ForestInv /\ HeldInv /\ RootsReaped /\ [Next]_vars => RootsReaped'
<1> SUFFICES ASSUME ForestInv, HeldInv, RootsReaped, [Next]_vars PROVE RootsReaped'
  OBVIOUS
<1>0. TypeOK /\ TypeOK' /\ Grows /\ Forward
  BY TableGrows, ForwardNext, TypeNext DEF ForestInv
<1>1. /\ reaper.ids \subseteq LeaseId /\ reaper.revoked \subseteq LeaseId
      /\ reaper.todo \subseteq LeaseId
      /\ reaper.at # None => reaper.at \in LeaseId
  BY <1>0 DEF TypeOK, Reaper, Option
<1>2. /\ \A l \in LeaseId : leases[l].status = "revoked" => leases'[l].status = "revoked"
      /\ \A l \in reaper.ids : IsRoot(l)' = IsRoot(l)
      /\ \A l \in LeaseId : Descendants(l) \subseteq Descendants(l)'
  BY <1>0, <1>1, DescendantsGrow DEF Forward, Grows, HeldInv, IsRoot
<1>3. CASE UNCHANGED reaper
  BY <1>1, <1>2, <1>3 DEF RootsReaped
<1>4. ASSUME NEW a \in Agent, ReapStart(a) PROVE RootsReaped'
  <2>1. reaper'.ids = index[a] /\ reaper'.todo = index[a] /\ reaper'.revoked = {}
    BY <1>4 DEF ReapStart, NoReaper
  <2> QED BY <2>1 DEF RootsReaped
<1>5. ASSUME NEW l \in LeaseId, ReapSkip(l) PROVE RootsReaped'
  <2>1. /\ reaper'.ids = reaper.ids /\ reaper'.todo = reaper.todo \ {l}
        /\ reaper'.at = None /\ reaper'.revoked = reaper.revoked
        /\ reaper.at = None /\ ~IsRoot(l)
    BY <1>0, <1>5 DEF ReapSkip, TypeOK, Reaper
  <2> QED BY <1>1, <1>2, <2>1 DEF RootsReaped
<1>6. ASSUME NEW l \in LeaseId, ReapCollect(l) PROVE RootsReaped'
  <2>1. /\ reaper'.ids = reaper.ids /\ reaper'.todo = reaper.todo \ {l}
        /\ reaper'.at = l /\ reaper'.revoked = reaper.revoked \cup {l} \cup Descendants(l)
        /\ reaper.at = None
    BY <1>0, <1>6 DEF ReapCollect, TypeOK, Reaper
  <2>2. l # None
    BY NoneAssumption
  <2>3. ASSUME NEW x \in reaper'.ids \ (reaper'.todo \cup {reaper'.at}), IsRoot(x)'
        PROVE  leases'[x].status = "revoked"
    <3>1. x \in reaper.ids \ (reaper.todo \cup {reaper.at}) /\ x \in LeaseId
      BY <1>1, <2>1, NoneAssumption
    <3> QED BY <1>2, <2>3, <3>1 DEF RootsReaped
  <2>4. ASSUME NEW x \in reaper'.revoked
        PROVE  leases'[x].status = "revoked" \/ x \in {l} \cup Descendants(l)'
    BY <1>1, <1>2, <2>1, <2>4 DEF RootsReaped
  <2> QED BY <2>1, <2>2, <2>3, <2>4 DEF RootsReaped
<1>7. CASE ReapRevoke
  <2> DEFINE D == {reaper.at} \cup Descendants(reaper.at)
  <2>1. /\ reaper'.ids = reaper.ids /\ reaper'.todo = reaper.todo /\ reaper'.at = None
        /\ reaper'.revoked = reaper.revoked /\ reaper.at # None
        /\ reaper.at \in LeaseId /\ RevokeCascade(reaper.at)
    BY <1>0, <1>1, <1>7 DEF ReapRevoke, TypeOK, Reaper
  <2>2. \A x \in D : leases'[x].status = "revoked"
    BY <1>0, <2>1, Revokes, SubtreeType, EndFields
  <2>3. ASSUME NEW x \in reaper'.ids \ (reaper'.todo \cup {reaper'.at}), IsRoot(x)'
        PROVE  leases'[x].status = "revoked"
    BY <1>1, <1>2, <2>1, <2>2, <2>3 DEF RootsReaped
  <2>4. ASSUME NEW x \in reaper'.revoked PROVE leases'[x].status = "revoked"
    BY <1>1, <1>2, <2>1, <2>2, <2>4 DEF RootsReaped
  <2> QED BY <2>3, <2>4 DEF RootsReaped
<1>8. CASE ReapFinish
  BY <1>8 DEF ReapFinish, NoReaper, RootsReaped
<1>9. ASSUME NEW l \in LeaseId,
             \/ \E a \in Agent, g \in Grant, c \in Constraints : CreateDraft(l, a, g, c)
             \/ \E p \in LeaseId, a \in Agent, s \in SUBSET Permission, t \in ChildTtl :
                   DelegateDraft(l, p, a, s, t)
             \/ CreateInsert(l) \/ PushIndex(l) \/ ReportGranted(l)
             \/ DelegateInsert(l) \/ DelegateReject(l)
             \/ \E e \in Extension : Renew(l, e)
             \/ Use(l) \/ Revoke(l)
       PROVE  UNCHANGED reaper
  BY <1>9 DEF CreateDraft, DelegateDraft, CreateInsert, PushIndex, ReportGranted, DelegateInsert,
              DelegateReject, Renew, Use, Revoke
<1>10. CASE SweepStart \/ SweepExpired \/ Tick \/ UNCHANGED vars
  BY <1>3, <1>10 DEF SweepStart, SweepExpired, Tick, vars
<1> QED
  BY <1>3, <1>4, <1>5, <1>6, <1>7, <1>8, <1>9, <1>10
  DEF Next, Create, Delegate, Reap, Sweep

\* An empty manager holds nothing.
LEMMA HeldInit == Init => HeldInv /\ RootsReaped
BY DEF Init, NoReaper, HeldInv, RootsReaped

\* Whatever is created, delegated, swept or revoked meanwhile, every root the
\* loop of revoke_agent_leases is past is revoked, and the list it returns names
\* no survivor.
THEOREM ReapedTheorem == Spec => []RootsReaped
<1>1. Spec => []ForestInv
  BY ForestInit, ForestNext, PTL DEF Spec
<1>2. Spec => []HeldInv
  BY <1>1, HeldInit, HeldNext, PTL DEF Spec
<1> QED BY <1>1, <1>2, HeldInit, ReapedNext, PTL DEF Spec

(***************************************************************************)
(* The audit trail                                                         *)
(***************************************************************************)

\* delegate reports a child under the lock that inserts it, so that its later
\* push to the index has nothing left to report.
ChildrenReported ==
    \A l \in LeaseId : Stored(l) /\ ~IsRoot(l) => <<"delegated", l>> \in audit

\* Every lock section keeps trail and table in step.
LEMMA AuditNext ==
    ForestInv /\ HeldInv /\ AuditAccounts /\ ChildrenReported /\ [Next]_vars
        => (AuditAccounts /\ ChildrenReported)'
<1> SUFFICES ASSUME ForestInv, HeldInv, AuditAccounts, ChildrenReported, [Next]_vars
             PROVE  AuditAccounts' /\ ChildrenReported'
  OBVIOUS
<1>0. TypeOK /\ \A l \in LeaseId : leases[l] \in Lease
  BY DEF ForestInv, TypeOK
<1>1. ASSUME NEW l \in LeaseId, DraftStep(l), UNCHANGED <<audit, unindexed, unreported>>
      PROVE  AuditAccounts' /\ ChildrenReported'
  <2>1. \A x \in LeaseId : /\ Stored(x)' = Stored(x)
                           /\ Stored(x) => leases'[x] = leases[x]
                           /\ ~Stored(x) => ~Stored(x)'
    BY <1>1 DEF DraftStep, Stored
  <2>2. \A x \in LeaseId : /\ leases'[x].status = "revoked" => leases[x].status = "revoked"
                           /\ leases'[x].status = "expired" => leases[x].status = "expired"
                           /\ leases'[x].status = "active" => leases[x].status = "active"
    BY <1>1 DEF DraftStep, Stored
  <2> QED BY <1>1, <2>1, <2>2 DEF AuditAccounts, ChildrenReported, IsRoot, Known
<1>2. ASSUME NEW l \in LeaseId, CreateInsert(l) PROVE AuditAccounts' /\ ChildrenReported'
  <2>1. RootStep(l) /\ unindexed' = unindexed \cup {l} /\ UNCHANGED <<audit, unreported>>
    BY <1>2 DEF CreateInsert, RootStep
  <2>2. \A x \in LeaseId :
           /\ leases'[x].status = IF x = l THEN "active" ELSE leases[x].status
           /\ leases'[x].parent = leases[x].parent
    BY <1>0, <2>1, RootFields
  <2>3. ~Stored(l) /\ IsRoot(l)
    BY <2>1 DEF RootStep, Stored
  <2> QED
    BY <2>1, <2>2, <2>3 DEF AuditAccounts, ChildrenReported, Stored, IsRoot, Known, EventType
<1>3. ASSUME NEW l \in LeaseId, DelegateInsert(l) PROVE AuditAccounts' /\ ChildrenReported'
  <2>0. PICK p \in LeaseId : ChildStep(l, p)
    BY <1>0, <1>3, Childs
  <2>1. /\ unindexed' = unindexed \cup {l} /\ unreported' = unreported
        /\ audit' = audit \cup {<<"delegated", l>>}
    BY <1>3 DEF DelegateInsert
  <2>2. \A x \in LeaseId :
           /\ leases'[x].status = IF x = l THEN "active" ELSE leases[x].status
           /\ leases'[x].parent = leases[x].parent
    <3>1. ChildEffect(l, p)
      BY <1>0, <2>0, ChildFields
    <3> QED BY <3>1 DEF ChildEffect
  <2>3. ~Stored(l)
    BY <1>3 DEF DelegateInsert, Stored
  <2> QED
    BY <2>1, <2>2, <2>3 DEF AuditAccounts, ChildrenReported, Stored, IsRoot, Known, EventType
<1>4. ASSUME NEW l \in LeaseId, PushIndex(l) PROVE AuditAccounts' /\ ChildrenReported'
  <2>1. Stored(l)
    BY <1>4 DEF PushIndex, HeldInv
  <2>2. CASE IsRoot(l)
    <3>1. /\ UNCHANGED <<leases, audit>>
          /\ unindexed' \cup unreported' = unindexed \cup unreported
      BY <1>4, <2>2 DEF PushIndex
    <3> QED BY <3>1 DEF AuditAccounts, ChildrenReported, Stored, IsRoot, Known
  <2>3. CASE ~IsRoot(l)
    <3>1. /\ UNCHANGED <<leases, audit, unreported>> /\ unindexed' = unindexed \ {l}
          /\ <<"delegated", l>> \in audit
      BY <1>4, <2>1, <2>3 DEF PushIndex, ChildrenReported
    <3> QED BY <2>1, <3>1 DEF AuditAccounts, ChildrenReported, Stored, IsRoot, Known
  <2> QED BY <2>2, <2>3
<1>4a. ASSUME NEW l \in LeaseId, ReportGranted(l) PROVE AuditAccounts' /\ ChildrenReported'
  <2>1. Stored(l)
    BY <1>4a DEF ReportGranted, HeldInv
  <2>2. /\ UNCHANGED <<leases, unindexed>> /\ unreported' = unreported \ {l}
        /\ audit' = audit \cup {<<"granted", l>>}
    BY <1>4a DEF ReportGranted
  <2> QED BY <2>1, <2>2 DEF AuditAccounts, ChildrenReported, Stored, IsRoot, Known
<1>5. ASSUME NEW l \in LeaseId, (\E e \in Extension : Renew(l, e)) \/ Use(l)
      PROVE  AuditAccounts' /\ ChildrenReported'
  <2>1. /\ CountStep(l) /\ Stored(l) /\ UNCHANGED <<unindexed, unreported>>
        /\ audit' = audit \cup {<<"renewed", l>>} \/ audit' = audit \cup {<<"used", l>>}
    <3>1. CountStep(l)
      BY <1>0, <1>5, Counts
    <3> QED BY <1>5, <3>1 DEF Renew, Use, Known
  <2>2. \A x \in LeaseId :
           leases'[x].status = leases[x].status /\ leases'[x].parent = leases[x].parent
    BY <2>1 DEF CountStep
  <2> QED BY <2>1, <2>2 DEF AuditAccounts, ChildrenReported, Stored, IsRoot, Known
<1>6. ASSUME NEW S \in SUBSET LeaseId, NEW e \in {"revoked", "expired"}, EndStep(S, e),
             audit' = audit \cup {<<e, l>> : l \in S}, UNCHANGED <<unindexed, unreported>>
      PROVE  AuditAccounts' /\ ChildrenReported'
  <2>1. \A x \in LeaseId :
           /\ leases'[x].status = IF x \in S THEN e ELSE leases[x].status
           /\ leases'[x].parent = leases[x].parent
    BY <1>0, <1>6, EndFields
  <2>2. \A x \in LeaseId, f \in EventType :
           <<f, x>> \in audit' <=> <<f, x>> \in audit \/ (f = e /\ x \in S)
    BY <1>6
  <2>3. \A x \in S : Stored(x) /\ (e = "expired" => leases[x].status = "active")
    BY <1>6 DEF EndStep
  <2>4. \A x \in LeaseId : Stored(x)' = Stored(x) /\ IsRoot(x)' = IsRoot(x)
    BY <2>1, <2>3 DEF Stored, IsRoot
  <2>5. AuditAccounts'
    <3> SUFFICES ASSUME NEW x \in LeaseId
                 PROVE  /\ leases'[x].status = "revoked" => <<"revoked", x>> \in audit'
                        /\ leases'[x].status = "expired" => <<"expired", x>> \in audit'
                        /\ ~Stored(x) => \A f \in EventType : <<f, x>> \notin audit'
                        /\ leases'[x].status = "active" =>
                              <<"revoked", x>> \notin audit' /\ <<"expired", x>> \notin audit'
                        /\ Known(x) =>
                              <<"granted", x>> \in audit' \/ <<"delegated", x>> \in audit'
      BY <1>6, <2>4 DEF AuditAccounts, Known
    <3>1. CASE x \in S
      BY <2>1, <2>2, <2>3, <3>1 DEF AuditAccounts, EventType
    <3>2. CASE x \notin S
      BY <2>1, <2>2, <3>2 DEF AuditAccounts, EventType
    <3> QED BY <3>1, <3>2
  <2>6. ChildrenReported'
    BY <1>6, <2>4 DEF ChildrenReported
  <2> QED BY <2>5, <2>6
<1>7. ASSUME NEW l \in LeaseId, RevokeCascade(l), UNCHANGED <<unindexed, unreported>>
      PROVE  AuditAccounts' /\ ChildrenReported'
  <2>1. audit' = audit \cup {<<"revoked", x>> : x \in {l} \cup Descendants(l)}
    BY <1>7 DEF RevokeCascade, Terminate
  <2> QED BY <1>6, <1>7, <2>1, Revokes, SubtreeType
<1>8. ASSUME UNCHANGED <<leases, unindexed, unreported, audit>>
      PROVE  AuditAccounts' /\ ChildrenReported'
  BY <1>8 DEF AuditAccounts, ChildrenReported, Stored, IsRoot, Known
<1>9. CASE Create
  <2>1. ASSUME NEW l \in LeaseId, NEW a \in Agent, NEW g \in Grant, NEW c \in Constraints,
               CreateDraft(l, a, g, c)
        PROVE  AuditAccounts' /\ ChildrenReported'
    BY <1>0, <1>1, <2>1, Drafts DEF CreateDraft
  <2> QED BY <1>2, <1>4, <1>4a, <1>9, <2>1 DEF Create
<1>10. CASE Delegate
  <2>1. ASSUME NEW l \in LeaseId, NEW p \in LeaseId, NEW a \in Agent,
               NEW s \in SUBSET Permission, NEW t \in ChildTtl, DelegateDraft(l, p, a, s, t)
        PROVE  AuditAccounts' /\ ChildrenReported'
    BY <1>0, <1>1, <2>1, Drafts DEF DelegateDraft
  <2>2. ASSUME NEW l \in LeaseId, DelegateReject(l) PROVE AuditAccounts' /\ ChildrenReported'
    BY <1>0, <1>1, <2>2, Drafts DEF DelegateReject
  <2> QED BY <1>3, <1>10, <2>1, <2>2 DEF Delegate
<1>11. ASSUME NEW l \in LeaseId, Revoke(l) PROVE AuditAccounts' /\ ChildrenReported'
  BY <1>7, <1>11 DEF Revoke
<1>12. CASE ReapRevoke
  <2>1. /\ reaper.at \in LeaseId /\ RevokeCascade(reaper.at)
        /\ UNCHANGED <<unindexed, unreported>>
    BY <1>0, <1>12 DEF ReapRevoke, TypeOK, Reaper, Option
  <2> QED BY <1>7, <2>1
<1>13. CASE SweepExpired
  <2>1. /\ audit' = audit \cup {<<"expired", x>> : x \in Overdue(sweepAt)}
        /\ UNCHANGED <<unindexed, unreported>>
    BY <1>13 DEF SweepExpired, Terminate
  <2> QED BY <1>6, <1>13, <2>1, Sweeps
<1>14. ASSUME NEW l \in LeaseId, ReapSkip(l) \/ ReapCollect(l)
       PROVE  AuditAccounts' /\ ChildrenReported'
  BY <1>8, <1>14 DEF ReapSkip, ReapCollect
<1>15. ASSUME NEW a \in Agent, ReapStart(a) PROVE AuditAccounts' /\ ChildrenReported'
  BY <1>8, <1>15 DEF ReapStart
<1>16. CASE ReapFinish \/ SweepStart \/ Tick \/ UNCHANGED vars
  BY <1>8, <1>16 DEF ReapFinish, SweepStart, Tick, vars
<1> QED
  BY <1>5, <1>9, <1>10, <1>11, <1>12, <1>13, <1>14, <1>15, <1>16 DEF Next, Reap, Sweep

\* The trail accounts for the table whatever the tasks interleave: who ended was
\* reported as ended, who lives was not, and who is known to a caller was
\* reported as granted or delegated (create_lease, delegate, revoke_lease, sweep_expired).
THEOREM AuditTheorem == Spec => []AuditAccounts
<1>1. Init => AuditAccounts /\ ChildrenReported
  BY DEF Init, AuditAccounts, ChildrenReported, NoLease, Stored, Known
<1>2. Spec => []ForestInv
  BY ForestInit, ForestNext, PTL DEF Spec
<1>3. Spec => []HeldInv
  BY <1>2, HeldInit, HeldNext, PTL DEF Spec
<1>4. Spec => [](AuditAccounts /\ ChildrenReported)
  BY <1>1, <1>2, <1>3, AuditNext, PTL DEF Spec
<1> QED BY <1>4, PTL

(***************************************************************************)
(* The manager implements LeaseContract                                    *)
(*                                                                         *)
(* Register hides drafts, index, tasks, time and limits.  Every lock       *)
(* section is then a step of the contract or none at all.  A withdrawal is *)
(* the interesting one: the contract ends all that names the lease, or one *)
(* below it, as the lease above; the manager follows child_lease_ids.  That*)
(* both reach the same leases is what the forest is for.                   *)
(***************************************************************************)

\* A lease outside the table has not been used.
Unused == \A l \in LeaseId : ~Stored(l) => leases[l].requests = 0

\* use_lease only counts on a lease of the table.
LEMMA UnusedNext == ForestInv /\ Unused /\ [Next]_vars => Unused'
<1> SUFFICES ASSUME ForestInv, Unused, TableStep PROVE Unused'
  BY TableNext
<1>0. TypeOK
  BY DEF ForestInv
<1>1. ASSUME NEW l \in LeaseId, DraftStep(l) PROVE Unused'
  BY <1>1 DEF DraftStep, Unused, Stored
<1>2. ASSUME NEW l \in LeaseId, CountStep(l) PROVE Unused'
  BY <1>2 DEF CountStep, Unused, Stored
<1>3. ASSUME NEW l \in LeaseId, RootStep(l) PROVE Unused'
  BY <1>0, <1>3, RootFields DEF Unused, Stored
<1>4. ASSUME NEW l \in LeaseId, NEW p \in LeaseId, ChildStep(l, p) PROVE Unused'
  <2>1. ChildEffect(l, p)
    BY <1>0, <1>4, ChildFields
  <2> QED BY <2>1 DEF ChildEffect, Unused, Stored
<1>5. ASSUME NEW S \in SUBSET LeaseId, NEW e \in {"revoked", "expired"}, EndStep(S, e)
      PROVE  Unused'
  BY <1>0, <1>5, EndFields DEF EndStep, Unused, Stored
<1>6. CASE UNCHANGED leases
  BY <1>6 DEF Unused, Stored
<1> QED BY <1>1, <1>2, <1>3, <1>4, <1>5, <1>6, SubtreeType DEF TableStep

\* Following child_lease_ids from l, collect_descendants reaches exactly the
\* leases that name l, or one it reaches, as the lease above.
LEMMA ReachesHandedDown ==
    ASSUME ForestInv, NEW l \in LeaseId
    PROVE  Contract!HandedDown(Register, l) = Descendants(l)
<1>1. ASSUME NEW x \in LeaseId, NEW c \in LeaseId
      PROVE  Register[c].above = x <=> c \in leases[x].children
  <2>1. Register[c].above = IF Stored(c) THEN leases[c].parent ELSE None
    BY DEF Register
  <2>2. ASSUME Register[c].above = x PROVE c \in leases[x].children
    <3>1. Stored(c) /\ leases[c].parent = x /\ ~IsRoot(c)
      BY <2>1, <2>2, NoneAssumption DEF IsRoot
    <3> QED BY <3>1 DEF ForestInv, DelegationForest
  <2>3. ASSUME c \in leases[x].children PROVE Register[c].above = x
    BY <2>1, <2>3 DEF ForestInv, DelegationForest
  <2> QED BY <2>2, <2>3
<1>2. \A x \in LeaseId : leases[x].children \subseteq LeaseId
  BY DEF ForestInv, TypeOK, Lease
<1>3. ASSUME NEW S \in SUBSET LeaseId
      PROVE  (\A c \in LeaseId : Register[c].above \in {l} \cup S => c \in S)
             <=> /\ leases[l].children \subseteq S
                 /\ \A s \in S : leases[s].children \subseteq S
  BY <1>1, <1>2
<1> QED BY <1>3 DEF Contract!HandedDown, Descendants

\* Ending leases of the table ends them in the register.
LEMMA RegisterEnds ==
    ASSUME TypeOK, NEW S \in SUBSET LeaseId, NEW e \in {"revoked", "expired"}, EndStep(S, e)
    PROVE  Register' = Contract!Ended(Register, S, Standing(e))
<1>1. \A l \in LeaseId : /\ Stored(l)' = Stored(l)
                         /\ leases'[l].status = IF l \in S THEN e ELSE leases[l].status
                         /\ leases'[l].scope = leases[l].scope
                         /\ leases'[l].parent = leases[l].parent
                         /\ leases'[l].requests = leases[l].requests
  BY EndFields DEF EndStep, Stored
<1>2. ASSUME NEW l \in LeaseId
      PROVE  Register'[l] = IF l \in S THEN [Register[l] EXCEPT !.standing = Standing(e)]
                                       ELSE Register[l]
  BY <1>1, <1>2 DEF Register
<1>3. Register' = [l \in LeaseId |-> Register'[l]]
  BY DEF Register
<1> QED BY <1>2, <1>3 DEF Contract!Ended

\* Every lock section is a step of the contract, or changes nothing it shows.
LEMMA ContractStep ==
    ForestInv /\ Unused /\ [Next]_vars => [Contract!ContractNext]_Register
<1> SUFFICES ASSUME ForestInv, Unused, TableStep
             PROVE  Contract!ContractNext \/ Register' = Register
  BY TableNext
<1>0. /\ TypeOK
      /\ Register = [l \in LeaseId |-> Register[l]]
      /\ Register' = [l \in LeaseId |-> Register'[l]]
  BY DEF ForestInv, Register
<1>1. ASSUME NEW l \in LeaseId, DraftStep(l) PROVE Register' = Register
  <2>1. ASSUME NEW x \in LeaseId PROVE Register'[x] = Register[x]
    <3>1. CASE x # l
      BY <1>1, <3>1 DEF DraftStep, Register, Stored
    <3>2. CASE x = l
      <4>1. leases'[x].requests = leases[x].requests /\ ~Stored(x) /\ ~Stored(x)'
        BY <1>1, <3>2 DEF DraftStep, Unused
      <4>2. Standing(leases'[x].status) = "none" /\ Standing(leases[x].status) = "none"
        BY <4>1 DEF Standing, Stored
      <4> QED BY <4>1, <4>2 DEF Register
    <3> QED BY <3>1, <3>2
  <2> QED BY <1>0, <2>1
<1>2. ASSUME NEW l \in LeaseId, CountStep(l)
      PROVE  Contract!Spend(l) \/ Register' = Register
  <2>1. \A x \in LeaseId : /\ leases'[x].status = leases[x].status
                           /\ leases'[x].scope = leases[x].scope
                           /\ leases'[x].parent = leases[x].parent
                           /\ Stored(x)' = Stored(x)
    BY <1>2 DEF CountStep, Stored
  <2>2. \A x \in LeaseId \ {l} : Register'[x] = Register[x]
    BY <1>2, <2>1 DEF CountStep, Register
  <2>3. CASE leases'[l].requests = leases[l].requests
    <3>1. Register'[l] = Register[l]
      BY <2>1, <2>3 DEF Register
    <3> QED BY <1>0, <2>2, <3>1
  <2>4. CASE leases'[l].requests = leases[l].requests + 1
    <3>0. PICK s, a, P, n :
             /\ Register[l] = [standing |-> s, above |-> a, permits |-> P, spent |-> n]
             /\ Register'[l] = [standing |-> s, above |-> a, permits |-> P, spent |-> n + 1]
      BY <2>1, <2>4 DEF Register
    <3>1. Register'[l] = [Register[l] EXCEPT !.spent = @ + 1]
      BY <3>0
    <3>2. Register' = [Register EXCEPT ![l].spent = @ + 1]
      BY <1>0, <2>2, <3>1
    <3>3. Register[l].standing = "inForce"
      BY <1>2 DEF CountStep, Register, Standing
    <3> QED BY <3>2, <3>3 DEF Contract!Spend
  <2> QED BY <1>2, <2>3, <2>4 DEF CountStep
<1>3. ASSUME NEW l \in LeaseId, RootStep(l) PROVE Contract!Issue(l)
  <2>1. \A x \in LeaseId :
           /\ leases'[x].status = IF x = l THEN "active" ELSE leases[x].status
           /\ leases'[x].scope = leases[x].scope
           /\ leases'[x].parent = leases[x].parent
           /\ leases'[x].requests = leases[x].requests
    BY <1>0, <1>3, RootFields
  <2>2. /\ ~Stored(l) /\ Stored(l)' /\ leases[l].parent = None /\ leases[l].status = "draft"
        /\ \A x \in LeaseId \ {l} : Stored(x)' = Stored(x)
    BY <1>3, <2>1 DEF RootStep, Stored, IsRoot
  <2>3. \A x \in LeaseId \ {l} : Register'[x] = Register[x]
    BY <2>1, <2>2 DEF Register
  <2>4. /\ Register[l].standing = "none"
        /\ Register'[l] = Contract!Fresh(None, leases[l].scope)
    BY <2>1, <2>2 DEF Register, Standing, Unused, Contract!Fresh
  <2>5. Register' = [Register EXCEPT ![l] = Contract!Fresh(None, leases[l].scope)]
    BY <1>0, <2>3, <2>4
  <2>6. leases[l].scope \in SUBSET Permission
    BY <1>0 DEF TypeOK, Lease
  <2> QED BY <2>4, <2>5, <2>6 DEF Contract!Issue
<1>4. ASSUME NEW l \in LeaseId, NEW p \in LeaseId, ChildStep(l, p) PROVE Contract!HandDown(l, p)
  <2>0. ChildEffect(l, p)
    BY <1>0, <1>4, ChildFields
  <2>1. \A x \in LeaseId :
           /\ leases'[x].status = IF x = l THEN "active" ELSE leases[x].status
           /\ leases'[x].scope = leases[x].scope
           /\ leases'[x].parent = leases[x].parent
           /\ leases'[x].requests = leases[x].requests
    BY <2>0 DEF ChildEffect
  <2>2. /\ ~Stored(l) /\ Stored(l)' /\ leases[l].parent = p
        /\ leases[l].status = "draft" /\ leases[p].status = "active" /\ Stored(p)
        /\ leases[l].scope \subseteq leases[p].scope
        /\ \A x \in LeaseId \ {l} : Stored(x)' = Stored(x)
    BY <1>4, <2>1 DEF ChildStep, Stored
  <2>3. \A x \in LeaseId \ {l} : Register'[x] = Register[x]
    BY <2>1, <2>2 DEF Register
  <2>4. /\ Register[l].standing = "none"
        /\ Register'[l] = Contract!Fresh(p, leases[l].scope)
    BY <2>1, <2>2 DEF Register, Standing, Unused, Contract!Fresh
  <2>5. Register' = [Register EXCEPT ![l] = Contract!Fresh(p, leases[l].scope)]
    BY <1>0, <2>3, <2>4
  <2>6. Register[p].standing = "inForce" /\ leases[l].scope \in SUBSET Register[p].permits
    BY <2>2 DEF Register, Standing
  <2> QED BY <2>4, <2>5, <2>6 DEF Contract!HandDown
<1>5. ASSUME NEW l \in LeaseId, Stored(l), EndStep({l} \cup Descendants(l), "revoked")
      PROVE  Contract!Withdraw(l)
  <2>1. Register' = Contract!Ended(Register, {l} \cup Descendants(l), "withdrawn")
    BY <1>0, <1>5, SubtreeType, RegisterEnds DEF Standing
  <2>2. Register[l].standing # "none"
    BY <1>5 DEF Register, Standing, Stored
  <2> QED BY <2>1, <2>2, ReachesHandedDown DEF Contract!Withdraw
<1>6. ASSUME NEW S \in SUBSET LeaseId, EndStep(S, "expired") PROVE Contract!Lapse(S)
  <2>1. Register' = Contract!Ended(Register, S, "lapsed")
    BY <1>0, <1>6, RegisterEnds DEF Standing
  <2>2. \A l \in S : Register[l].standing = "inForce"
    BY <1>6 DEF EndStep, Register, Standing
  <2> QED BY <2>1, <2>2 DEF Contract!Lapse
<1>7. CASE UNCHANGED leases
  BY <1>7 DEF Register, Stored
<1> QED BY <1>1, <1>2, <1>3, <1>4, <1>5, <1>6, <1>7 DEF TableStep, Contract!ContractNext

\* The empty table is the empty register.
LEMMA ContractStart == Init => Contract!ContractInit /\ Unused
BY DEF Init, NoLease, Stored, Unused, Register, Standing, Contract!ContractInit

\* Whatever its tasks interleave, the manager delegates only from leases in
\* force and within their scope, counts uses only of leases in force, brings
\* none back, and withdraws whole trees at once (delegate, use_lease,
\* revoke_lease, revoke_agent_leases, sweep_expired).
THEOREM ContractTheorem == Spec => ImplementsContract
<1>1. Spec => []ForestInv
  BY ForestInit, ForestNext, PTL DEF Spec
<1>2. Spec => []Unused
  BY <1>1, ContractStart, UnusedNext, PTL DEF Spec
<1>3. Spec => [][Contract!ContractNext]_Register
  BY <1>1, <1>2, ContractStep, PTL DEF Spec
<1>4. Spec => Contract!ContractInit
  BY ContractStart DEF Spec
<1> QED BY <1>3, <1>4 DEF ImplementsContract, Contract!ContractSpec

=============================================================================
