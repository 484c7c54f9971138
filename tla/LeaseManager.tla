---------------------------- MODULE LeaseManager ----------------------------
(***************************************************************************)
(* The lease manager of the CDP Gate (crates/cdp-lease): the table of      *)
(* credential leases, the per-agent index over it, and the tasks that work *)
(* on both concurrently.  Each lock section of the code is one action; an  *)
(* operation that takes its locks one after the other (create_lease,       *)
(* delegate, revoke_agent_leases, the sweep) is split where it holds none. *)
(* An operation that returns an error leaves the state alone, so it is not *)
(* an action unless it abandons a lease that is being built.               *)
(***************************************************************************)
EXTENDS Integers

CONSTANTS
    LeaseId,               \* the lease identifiers LeaseId::generate may return
    Agent,                 \* agent fingerprints
    Permission,            \* hosts, methods and paths a scope can name
    None,                  \* Option::None
    Grant,                 \* granted scopes create_lease may be called with
    Constraints,           \* policy constraints it may be called with
    ChildTtl,              \* TTLs delegate may be called with
    Extension,             \* arguments of renew_lease, read as i64
    DefaultTtl,            \* 3600 s  (manager.rs:87)
    DefaultMaxRenewals,    \* 3       (manager.rs:93)
    DefaultMaxCumulative,  \* 14400 s (manager.rs:94)
    DefaultMaxDepth,       \* 3       (delegation.rs:98)
    MaxTime,               \* bound: the clock stops here
    MaxUses                \* bound: uses of a lease with no request limit

Option(S) == S \cup {None}

\* Option::or and Option::unwrap_or
Or(x, y) == IF x = None THEN y ELSE x

GrantType == [scope : SUBSET Permission, ttl : Option(Nat), maxRequests : Option(Nat)]

ConstraintsType ==
    [maxTtl : Option(Nat), maxRequests : Option(Nat), maxRenewals : Option(Nat),
     maxCumulative : Option(Nat), renewable : BOOLEAN,
     delegable : BOOLEAN, maxDepth : Option(Nat)]

ASSUME NoneAssumption == None \notin Int /\ None \notin LeaseId /\ None \notin Agent
ASSUME InputAssumption ==
    /\ Grant \subseteq GrantType
    /\ Constraints \subseteq ConstraintsType
    /\ ChildTtl \subseteq Nat
    /\ Extension \subseteq Int
ASSUME DefaultAssumption ==
    /\ DefaultTtl \in Nat
    /\ DefaultMaxRenewals \in Nat
    /\ DefaultMaxCumulative \in Nat
    /\ DefaultMaxDepth \in Nat
ASSUME BoundAssumption == MaxTime \in Nat /\ MaxUses \in Nat

VARIABLES
    leases,     \* LeaseManager::leases, and the leases tasks are still building
    index,      \* LeaseManager::agent_leases; an absent key is the empty set
    unindexed,  \* leases inserted but not yet pushed to the index by their task
    unreported, \* leases in the index whose grant their task has not yet reported
    reaper,     \* the running call of revoke_agent_leases
    sweepAt,    \* the time the running sweep has read, or None
    audit,      \* the events sent to the audit channel
    now         \* Utc::now(), in seconds

vars == <<leases, index, unindexed, unreported, reaper, sweepAt, audit, now>>

-----------------------------------------------------------------------------
(* Types *)

\* "draft" is a lease in a task's local variables, "unborn" an unused id.
Status == {"unborn", "draft", "active", "expired", "revoked"}

\* What policy fixes for the life of a lease.
Terms ==
    [maxRequests : Option(Nat), maxRenewals : Nat, maxCumulative : Nat,
     renewable : BOOLEAN, delegable : BOOLEAN, maxDepth : Option(Nat)]

Lease ==
    [status : Status, agent : Option(Agent), scope : SUBSET Permission,
     created : Nat, ttl : Nat, expires : Int, cumulative : Nat,
     requests : Nat, renewals : Nat, terms : Terms,
     parent : Option(LeaseId), children : SUBSET LeaseId, depth : Nat]

NoTerms ==
    [maxRequests |-> None, maxRenewals |-> 0, maxCumulative |-> 0,
     renewable |-> FALSE, delegable |-> FALSE, maxDepth |-> None]

NoLease ==
    [status |-> "unborn", agent |-> None, scope |-> {},
     created |-> 0, ttl |-> 0, expires |-> 0, cumulative |-> 0,
     requests |-> 0, renewals |-> 0, terms |-> NoTerms,
     parent |-> None, children |-> {}, depth |-> 0]

\* `ids` is the snapshot of the index, `todo` what the loop has left, `at` the
\* root whose descendants were just collected, `revoked` the list to return.
Reaper ==
    [agent : Option(Agent), ids : SUBSET LeaseId, todo : SUBSET LeaseId,
     at : Option(LeaseId), revoked : SUBSET LeaseId]

NoReaper == [agent |-> None, ids |-> {}, todo |-> {}, at |-> None, revoked |-> {}]

\* The members of AuditEventType that the lease manager emits.
EventType == {"granted", "renewed", "used", "delegated", "revoked", "expired"}

TypeOK ==
    /\ leases \in [LeaseId -> Lease]
    /\ index \in [Agent -> SUBSET LeaseId]
    /\ unindexed \subseteq LeaseId
    /\ unreported \subseteq LeaseId
    /\ reaper \in Reaper
    /\ sweepAt \in Option(Nat)
    /\ audit \subseteq EventType \X LeaseId
    /\ now \in Nat

-----------------------------------------------------------------------------
(* Reading the table *)

Stored(l) == leases[l].status \in {"active", "expired", "revoked"}

IsExpired(l) == now > leases[l].expires

\* A lease that renew_lease, use_lease and delegate accept.
Usable(l) == leases[l].status = "active" /\ ~IsExpired(l)

\* A lease whose id a caller can hold: the call that made it has returned.
Known(l) == Stored(l) /\ l \notin unindexed \cup unreported

IsRoot(l) == leases[l].parent = None

\* Everything collect_descendants reaches from l through child_lease_ids: the
\* least set that holds l's children and is closed under taking children.
Descendants(l) ==
    {d \in LeaseId :
        \A S \in SUBSET LeaseId :
            /\ leases[l].children \subseteq S
            /\ \A s \in S : leases[s].children \subseteq S
            => d \in S}

-----------------------------------------------------------------------------
Init ==
    /\ leases = [l \in LeaseId |-> NoLease]
    /\ index = [a \in Agent |-> {}]
    /\ unindexed = {}
    /\ unreported = {}
    /\ reaper = NoReaper
    /\ sweepAt = None
    /\ audit = {}
    /\ now = 0

-----------------------------------------------------------------------------
(* create_lease *)

\* Everything up to the first lock: DNS is pinned, the limits are resolved
\* against their defaults and the expiry is computed from the current time.
\* Nothing compares the TTL with max_cumulative_ttl_seconds.
CreateDraft(l, a, g, c) ==
    LET ttl == Or(Or(g.ttl, c.maxTtl), DefaultTtl) IN
    /\ leases[l].status = "unborn"
    /\ leases' = [leases EXCEPT ![l] =
          [NoLease EXCEPT
             !.status = "draft",
             !.agent = a,
             !.scope = g.scope,
             !.created = now,
             !.ttl = ttl,
             !.expires = now + ttl,
             !.cumulative = ttl,
             !.terms =
                [maxRequests |-> Or(g.maxRequests, c.maxRequests),
                 maxRenewals |-> Or(c.maxRenewals, DefaultMaxRenewals),
                 maxCumulative |-> Or(c.maxCumulative, DefaultMaxCumulative),
                 renewable |-> c.renewable,
                 delegable |-> c.delegable,
                 maxDepth |-> c.maxDepth]]]
    /\ UNCHANGED <<index, unindexed, unreported, reaper, sweepAt, audit, now>>

\* The insert under the write lock of `leases`.
CreateInsert(l) ==
    /\ leases[l].status = "draft"
    /\ IsRoot(l)
    /\ leases' = [leases EXCEPT ![l].status = "active"]
    /\ unindexed' = unindexed \cup {l}
    /\ UNCHANGED <<index, unreported, reaper, sweepAt, audit, now>>

\* The push under the write lock of `agent_leases`, which both create_lease and
\* delegate end with, except that create_lease has yet to report the grant.
PushIndex(l) ==
    /\ l \in unindexed
    /\ index' = [index EXCEPT ![leases[l].agent] = @ \cup {l}]
    /\ unindexed' = unindexed \ {l}
    /\ unreported' = IF IsRoot(l) THEN unreported \cup {l} ELSE unreported
    /\ UNCHANGED <<leases, reaper, sweepAt, audit, now>>

\* No lock is held when create_lease emits LeaseGranted and returns: a reap that
\* found the lease in the index may have revoked it by then.
ReportGranted(l) ==
    /\ l \in unreported
    /\ unreported' = unreported \ {l}
    /\ audit' = audit \cup {<<"granted", l>>}
    /\ UNCHANGED <<leases, index, unindexed, reaper, sweepAt, now>>

-----------------------------------------------------------------------------
(* delegate *)

\* The checks before the write lock (target alive, parent present, scope a
\* subset), the DNS pinning, and the expiry computed from the current time.
DelegateDraft(l, p, a, scope, ttl) ==
    /\ leases[l].status = "unborn"
    /\ Known(p)
    /\ scope \subseteq leases[p].scope
    /\ leases' = [leases EXCEPT ![l] =
          [NoLease EXCEPT
             !.status = "draft",
             !.agent = a,
             !.scope = scope,
             !.created = now,
             !.ttl = ttl,
             !.expires = now + ttl,
             !.cumulative = ttl,
             !.parent = p]]
    /\ UNCHANGED <<index, unindexed, unreported, reaper, sweepAt, audit, now>>

\* Mutant: trusts the checks made before the lock was taken.
MayDelegateUnchecked(l) ==
    LET p == leases[l].parent IN
    /\ leases[p].terms.delegable
    /\ leases[p].depth + 1 <= Or(leases[p].terms.maxDepth, DefaultMaxDepth)
    /\ leases[l].ttl <= leases[p].expires - now

\* Mutant: compares the parent's depth, not the child's, with the limit.
MayDelegateTooDeep(l) ==
    LET p == leases[l].parent IN
    /\ Usable(p)
    /\ leases[p].terms.delegable
    /\ leases[p].depth <= Or(leases[p].terms.maxDepth, DefaultMaxDepth)
    /\ leases[l].scope \subseteq leases[p].scope
    /\ leases[l].ttl <= leases[p].expires - now

\* The checks delegate makes again under the write lock.
MayDelegate(l) ==
    LET p == leases[l].parent IN
    /\ Usable(p)
    /\ leases[p].terms.delegable
    /\ leases[p].depth + 1 <= Or(leases[p].terms.maxDepth, DefaultMaxDepth)
    /\ leases[l].scope \subseteq leases[p].scope
    /\ leases[l].ttl <= leases[p].expires - now

\* Mutant: the parent is not told of the child.
DelegateInsertUnlinked(l) ==
    LET p == leases[l].parent IN
    /\ leases[l].status = "draft"
    /\ ~IsRoot(l)
    /\ MayDelegate(l)
    /\ leases' = [leases EXCEPT
          ![l].status = "active",
          ![l].depth = leases[p].depth + 1,
          ![l].terms = [leases[p].terms EXCEPT !.maxRequests = None, !.renewable = TRUE]]
    /\ unindexed' = unindexed \cup {l}
    /\ audit' = audit \cup {<<"delegated", l>>}
    /\ UNCHANGED <<index, unreported, reaper, sweepAt, now>>

\* The child is linked to its parent and inserted under one write lock.  It
\* inherits the terms, except that it is renewable and has no request limit.
DelegateInsert(l) ==
    LET p == leases[l].parent IN
    /\ leases[l].status = "draft"
    /\ ~IsRoot(l)
    /\ MayDelegate(l)
    /\ leases' = [leases EXCEPT
          ![l].status = "active",
          ![l].depth = leases[p].depth + 1,
          ![l].terms = [leases[p].terms EXCEPT !.maxRequests = None, !.renewable = TRUE],
          ![p].children = @ \cup {l}]
    /\ unindexed' = unindexed \cup {l}
    /\ audit' = audit \cup {<<"delegated", l>>}
    /\ UNCHANGED <<index, unreported, reaper, sweepAt, now>>

\* A check failed under the lock: delegate returns an error.
DelegateReject(l) ==
    /\ leases[l].status = "draft"
    /\ ~IsRoot(l)
    /\ ~MayDelegate(l)
    /\ leases' = [leases EXCEPT ![l] = NoLease]
    /\ UNCHANGED <<index, unindexed, unreported, reaper, sweepAt, audit, now>>

-----------------------------------------------------------------------------
(* renew_lease, use_lease *)

\* Mutant: the running total is not kept.
RenewUntracked(l, extend) ==
    LET total == leases[l].cumulative + extend IN
    /\ Known(l) /\ Usable(l)
    /\ leases[l].terms.renewable
    /\ leases[l].renewals < leases[l].terms.maxRenewals
    /\ 0 <= total /\ total <= leases[l].terms.maxCumulative
    /\ leases' = [leases EXCEPT ![l].expires = @ + extend, ![l].renewals = @ + 1]
    /\ audit' = audit \cup {<<"renewed", l>>}
    /\ UNCHANGED <<index, unindexed, unreported, reaper, sweepAt, now>>

\* `extend` is the u64 argument as the i64 the code converts it to, so that a
\* sum that wraps around is a negative extension; the sum itself is unsigned.
Renew(l, extend) ==
    LET total == leases[l].cumulative + extend IN
    /\ Known(l) /\ Usable(l)
    /\ leases[l].terms.renewable
    /\ leases[l].renewals < leases[l].terms.maxRenewals
    /\ 0 <= total /\ total <= leases[l].terms.maxCumulative
    /\ leases' = [leases EXCEPT
          ![l].expires = @ + extend,
          ![l].cumulative = total,
          ![l].renewals = @ + 1]
    /\ audit' = audit \cup {<<"renewed", l>>}
    /\ UNCHANGED <<index, unindexed, unreported, reaper, sweepAt, now>>

Use(l) ==
    /\ Known(l) /\ Usable(l)
    /\ leases[l].requests < Or(leases[l].terms.maxRequests, MaxUses)
    /\ leases' = [leases EXCEPT ![l].requests = @ + 1]
    /\ audit' = audit \cup {<<"used", l>>}
    /\ UNCHANGED <<index, unindexed, unreported, reaper, sweepAt, now>>

-----------------------------------------------------------------------------
(* revoke_lease *)

\* remove_from_agent_index for every lease of S
IndexWithout(S) == [a \in Agent |-> index[a] \ {l \in S : leases[l].agent = a}]

\* Every lease of S gets `status`, leaves the index and is reported as `event`.
Terminate(S, status, event) ==
    /\ leases' = [l \in LeaseId |->
          IF l \in S THEN [leases[l] EXCEPT !.status = status] ELSE leases[l]]
    /\ index' = IndexWithout(S)
    /\ audit' = audit \cup {<<event, l>> : l \in S}

\* Mutant: only the lease itself is reported as revoked.
RevokeCascadeQuiet(l) ==
    /\ Stored(l)
    /\ leases' = [x \in LeaseId |->
          IF x \in {l} \cup Descendants(l)
          THEN [leases[x] EXCEPT !.status = "revoked"] ELSE leases[x]]
    /\ index' = IndexWithout({l} \cup Descendants(l))
    /\ audit' = audit \cup {<<"revoked", l>>}

\* Both write locks are held: the lease and its descendants are revoked
\* together, whatever status they had.
RevokeCascade(l) ==
    /\ Stored(l)
    /\ Terminate({l} \cup Descendants(l), "revoked", "revoked")

Revoke(l) ==
    /\ Known(l)
    /\ RevokeCascade(l)
    /\ UNCHANGED <<unindexed, unreported, reaper, sweepAt, now>>

-----------------------------------------------------------------------------
(* revoke_agent_leases *)

\* The snapshot of the agent's ids under the read lock of the index.
ReapStart(a) ==
    /\ reaper.agent = None
    /\ reaper' = [NoReaper EXCEPT !.agent = a, !.ids = index[a], !.todo = index[a]]
    /\ UNCHANGED <<leases, index, unindexed, unreported, sweepAt, audit, now>>

\* Mutant: also passes over a root that is no longer active.
ReapSkipInactive(l) ==
    /\ reaper.agent # None /\ reaper.at = None
    /\ l \in reaper.todo
    /\ ~IsRoot(l) \/ leases[l].status # "active"
    /\ reaper' = [reaper EXCEPT !.todo = @ \ {l}]
    /\ UNCHANGED <<leases, index, unindexed, unreported, sweepAt, audit, now>>

\* The loop passes over a lease that is not a root.
ReapSkip(l) ==
    /\ reaper.agent # None /\ reaper.at = None
    /\ l \in reaper.todo
    /\ ~IsRoot(l)
    /\ reaper' = [reaper EXCEPT !.todo = @ \ {l}]
    /\ UNCHANGED <<leases, index, unindexed, unreported, sweepAt, audit, now>>

\* For a root, the list to return is extended under the read lock of `leases`.
ReapCollect(l) ==
    /\ reaper.agent # None /\ reaper.at = None
    /\ l \in reaper.todo
    /\ IsRoot(l)
    /\ reaper' = [reaper EXCEPT
          !.todo = @ \ {l},
          !.at = l,
          !.revoked = @ \cup {l} \cup Descendants(l)]
    /\ UNCHANGED <<leases, index, unindexed, unreported, sweepAt, audit, now>>

\* revoke_lease then takes its own locks.
ReapRevoke ==
    /\ reaper.at # None
    /\ RevokeCascade(reaper.at)
    /\ reaper' = [reaper EXCEPT !.at = None]
    /\ UNCHANGED <<unindexed, unreported, sweepAt, now>>

\* The agent's whole entry is removed from the index, then the call returns.
ReapFinish ==
    /\ reaper.agent # None /\ reaper.at = None /\ reaper.todo = {}
    /\ index' = [index EXCEPT ![reaper.agent] = {}]
    /\ reaper' = NoReaper
    /\ UNCHANGED <<leases, unindexed, unreported, sweepAt, audit, now>>

-----------------------------------------------------------------------------
(* sweep_expired and the clock *)

\* The sweep reads the time before it has the locks.
SweepStart ==
    /\ sweepAt = None
    /\ sweepAt' = now
    /\ UNCHANGED <<leases, index, unindexed, unreported, reaper, audit, now>>

\* Mutant: looks only at the expiry, not at the status.
OverdueAnyStatus(t) == {l \in LeaseId : Stored(l) /\ leases[l].expires < t}

\* Mutant: looks for overdue leases through the index.
OverdueIndexed(t) ==
    {l \in UNION {index[a] : a \in Agent} :
        leases[l].status = "active" /\ leases[l].expires < t}

Overdue(t) == {l \in LeaseId : leases[l].status = "active" /\ leases[l].expires < t}

SweepExpired ==
    /\ sweepAt # None
    /\ Terminate(Overdue(sweepAt), "expired", "expired")
    /\ sweepAt' = None
    /\ UNCHANGED <<unindexed, unreported, reaper, now>>

Tick ==
    /\ now < MaxTime
    /\ now' = now + 1
    /\ UNCHANGED <<leases, index, unindexed, unreported, reaper, sweepAt, audit>>

-----------------------------------------------------------------------------
Create == \E l \in LeaseId :
    \/ \E a \in Agent, g \in Grant, c \in Constraints : CreateDraft(l, a, g, c)
    \/ CreateInsert(l)
    \/ PushIndex(l)
    \/ ReportGranted(l)

Delegate == \E l \in LeaseId :
    \/ \E p \in LeaseId, a \in Agent, s \in SUBSET Permission, t \in ChildTtl :
          DelegateDraft(l, p, a, s, t)
    \/ DelegateInsert(l)
    \/ DelegateReject(l)

\* The loop of revoke_agent_leases over its snapshot of the index.
Reap ==
    \/ \E l \in LeaseId : ReapSkip(l) \/ ReapCollect(l)
    \/ ReapRevoke
    \/ ReapFinish

Sweep == SweepStart \/ SweepExpired

Next ==
    \/ Create
    \/ Delegate
    \/ \E l \in LeaseId, e \in Extension : Renew(l, e)
    \/ \E l \in LeaseId : Use(l) \/ Revoke(l)
    \/ \E a \in Agent : ReapStart(a)
    \/ Reap
    \/ Sweep
    \/ Tick

Spec == Init /\ [][Next]_vars

\* The interval task of start_expiry_sweep never stops.
FairSpec == Spec /\ WF_vars(Sweep)

-----------------------------------------------------------------------------
(* Safety *)

\* Cascading revocation (revoke_lease, delegate): whatever order delegations
\* and revocations of a tree take, no lease below a revoked one is alive.  The
\* checks delegate repeats under the write lock are what this rests on.
RevocationCascades ==
    \A l \in LeaseId : leases[l].status = "revoked" =>
        \A d \in Descendants(l) : leases[d].status = "revoked"

\* parent_lease_id and child_lease_ids describe the same forest: each names the
\* other, both ends are in the table, and the depth grows by one with each
\* delegation, so that collect_descendants terminates and misses nobody.
DelegationForest ==
    /\ \A l \in LeaseId : Stored(l) /\ ~IsRoot(l) =>
          /\ Stored(leases[l].parent)
          /\ l \in leases[leases[l].parent].children
          /\ leases[l].depth = leases[leases[l].parent].depth + 1
    /\ \A l \in LeaseId : \A c \in leases[l].children :
          Stored(c) /\ leases[c].parent = l
    /\ \A l \in LeaseId : IsRoot(l) => leases[l].depth = 0

\* A chain of delegations never gains (delegate): the scope of every lease below
\* l names nothing that l's does not (what an empty list admits is PolicyScope's
\* subject), and l's cumulative TTL and depth limits bind it too.
DelegationAttenuates ==
    \A l \in LeaseId : \A d \in Descendants(l) :
        /\ leases[d].scope \subseteq leases[l].scope
        /\ leases[d].terms.maxCumulative <= leases[l].terms.maxCumulative
        /\ leases[d].depth <= Or(leases[l].terms.maxDepth, DefaultMaxDepth)

\* Bounded renewals (renew_lease): the expiry is always the creation time plus
\* the cumulative TTL, which no sequence of renewals takes past the limit; only
\* the TTL a lease was created with may exceed it.
LifetimeBounded ==
    \A l \in LeaseId : Stored(l) =>
        /\ leases[l].expires = leases[l].created + leases[l].cumulative
        /\ \/ leases[l].cumulative <= leases[l].terms.maxCumulative
           \/ leases[l].cumulative <= leases[l].ttl
        /\ leases[l].renewals <= leases[l].terms.maxRenewals

\* revoke_agent_leases: every root of the snapshot that the loop is past is
\* revoked, also one that had expired before (its children may be alive), and
\* the list to return names no lease that survives the call.
RootsReaped ==
    /\ \A l \in reaper.ids \ (reaper.todo \cup {reaper.at}) :
          IsRoot(l) => leases[l].status = "revoked"
    /\ \A l \in reaper.revoked :
          \/ leases[l].status = "revoked"
          \/ reaper.at # None /\ l \in {reaper.at} \cup Descendants(reaper.at)

\* The audit trail accounts for the table: a lease that has ended was reported
\* as ended, one that is alive was not, and once the call that made it has
\* returned, a lease was reported as granted or as delegated.
AuditAccounts ==
    \A l \in LeaseId :
        /\ leases[l].status = "revoked" => <<"revoked", l>> \in audit
        /\ leases[l].status = "expired" => <<"expired", l>> \in audit
        /\ ~Stored(l) => \A e \in EventType : <<e, l>> \notin audit
        /\ leases[l].status = "active" =>
              <<"revoked", l>> \notin audit /\ <<"expired", l>> \notin audit
        /\ Known(l) =>
              <<"granted", l>> \in audit \/ <<"delegated", l>> \in audit

(* Refinement *)

\* How the table looks to a client: a lease exists once it is in the table.
Standing(status) ==
    CASE status = "active" -> "inForce"
      [] status = "expired" -> "lapsed"
      [] status = "revoked" -> "withdrawn"
      [] OTHER -> "none"

Register ==
    [l \in LeaseId |->
        [standing |-> Standing(leases[l].status),
         above |-> IF Stored(l) THEN leases[l].parent ELSE None,
         permits |-> IF Stored(l) THEN leases[l].scope ELSE {},
         spent |-> leases[l].requests]]

Contract == INSTANCE LeaseContract WITH register <- Register

\* The manager keeps its promise whatever its tasks interleave: delegation only
\* from a lease in force and within its scope, use only while in force, no lease
\* that has ended in force again, and revocation of a whole tree at once, found
\* through child_lease_ids where the contract speaks of parents (delegate,
\* use_lease, revoke_lease, revoke_agent_leases, sweep_expired).
ImplementsContract == Contract!ContractSpec

(* Liveness *)

\* A lease past its expiry does not stay active: renewal refuses it and the
\* sweep finds it, indexed or not (sweep_expired).
OverdueSwept ==
    \A l \in LeaseId :
        (leases[l].status = "active" /\ IsExpired(l)) ~> (leases[l].status # "active")

=============================================================================
