---------------------------- MODULE ReplayGuard ----------------------------
(***************************************************************************)
(* Replay protection of the router (validate_replay): the freshness of the *)
(* timestamp is checked first, then the nonce is looked up and stored      *)
(* under the lock of an LRU cache.  Connection tasks run it concurrently,  *)
(* so time passes and others store nonces between the two.                 *)
(***************************************************************************)
EXTENDS Integers, Sequences, FiniteSets, Functions

CONSTANTS
    Conn,       \* connection tasks
    Nonce,      \* nonces that are UUIDs of version 4
    Stamp,      \* timestamps requests carry
    Tick,       \* clock steps in a second
    Window,     \* seconds a timestamp may be off (30)
    Capacity,   \* entries of the nonce cache
    NoRequest,  \* no request
    MaxTime,    \* bound: the clock stops here
    MaxAccepts  \* bound: requests accepted

ASSUME ReplayAssumption ==
    /\ Stamp \subseteq Nat
    /\ Tick \in Nat \ {0}
    /\ Window \in Nat
    /\ Capacity \in Nat \ {0}
    /\ MaxTime \in Nat /\ MaxAccepts \in Nat

VARIABLES
    now,       \* Utc::now()
    pending,   \* requests whose timestamp was found fresh, and when
    cache,     \* nonce_cache, the least recently stored entry first
    accepted   \* the requests accepted so far, in order

replayVars == <<now, pending, cache, accepted>>

Abs(x) == IF x < 0 THEN 0 - x ELSE x

-----------------------------------------------------------------------------
ReplayInit ==
    /\ now = 0
    /\ pending = [c \in Conn |-> NoRequest]
    /\ cache = <<>>
    /\ accepted = <<>>

\* Duration::num_seconds drops the fraction, whatever the sign.
NumSeconds(d) == IF d < 0 THEN 0 - ((0 - d) \div Tick) ELSE d \div Tick

Fresh(stamp) == Abs(NumSeconds(now - stamp)) <= Window

\* A request whose timestamp is too old, or too far ahead, is refused.
CheckTimestamp(c, nonce, stamp) ==
    /\ pending[c] = NoRequest
    /\ Fresh(stamp)
    /\ pending' = [pending EXCEPT ![c] = [nonce |-> nonce, stamp |-> stamp, at |-> now]]
    /\ UNCHANGED <<now, cache, accepted>>

\* LruCache::put of a key that is not in the cache.
Put(nonce) ==
    Append(IF Len(cache) = Capacity THEN Tail(cache) ELSE cache, nonce)

\* Mutant: the cache forgets one entry too early.
AcceptSmaller(c) ==
    /\ pending[c] # NoRequest
    /\ Len(accepted) < MaxAccepts
    /\ pending[c].nonce \notin Range(cache)
    /\ cache' = Append(IF Len(cache) + 1 >= Capacity THEN Tail(cache) ELSE cache, pending[c].nonce)
    /\ accepted' = Append(accepted, pending[c])
    /\ pending' = [pending EXCEPT ![c] = NoRequest]
    /\ UNCHANGED now

\* The nonce is new: it is stored and the request goes on.
Accept(c) ==
    /\ pending[c] # NoRequest
    /\ Len(accepted) < MaxAccepts
    /\ pending[c].nonce \notin Range(cache)
    /\ cache' = Put(pending[c].nonce)
    /\ accepted' = Append(accepted, pending[c])
    /\ pending' = [pending EXCEPT ![c] = NoRequest]
    /\ UNCHANGED now

\* A duplicate is refused; the entry does not become more recent.
Reject(c) ==
    /\ pending[c] # NoRequest
    /\ pending[c].nonce \in Range(cache)
    /\ pending' = [pending EXCEPT ![c] = NoRequest]
    /\ UNCHANGED <<now, cache, accepted>>

Advance ==
    /\ now < MaxTime
    /\ now' = now + 1
    /\ UNCHANGED <<pending, cache, accepted>>

ReplayNext ==
    \/ \E c \in Conn, n \in Nonce, s \in Stamp : CheckTimestamp(c, n, s)
    \/ \E c \in Conn : Accept(c) \/ Reject(c)
    \/ Advance

ReplaySpec == ReplayInit /\ [][ReplayNext]_replayVars

-----------------------------------------------------------------------------
(* Properties *)

\* A request is accepted a second time only after the cache was filled by others in
\* between, however the requests of the connections interleave (validate_replay:
\* lookup and insertion are one lock section), and one message only for so
\* long: its two checks lie less than twice the window and two seconds apart, one
\* window before its timestamp, one after, and a fraction at either end.
ReplayBounded ==
    \A i, j \in 1..Len(accepted) :
        i < j /\ accepted[i].nonce = accepted[j].nonce =>
            /\ Cardinality({accepted[k].nonce : k \in (i + 1)..(j - 1)}) >= Capacity
            /\ accepted[i].stamp = accepted[j].stamp =>
                  Abs(accepted[i].at - accepted[j].at) < 2 * (Window + 1) * Tick

=============================================================================
