---------------------------- MODULE TokenGuard ----------------------------
(***************************************************************************)
(* Tokens (cdp-token): JWTs of the Gate with the list that makes them      *)
(* single-use and revocable, and the verification of OIDC ID tokens.       *)
(* Tasks present tokens concurrently: between verify and the revocation    *)
(* list, and between the claims of an ID token and the keys of its issuer, *)
(* time passes, entries are pruned and keys are retired.                   *)
(* A signature verifies only with the key that made it.                    *)
(***************************************************************************)
EXTENDS Integers, Sequences, SequencesExt, FiniteSetsExt

CONSTANTS
    Caller,      \* tasks that verify tokens
    Token,       \* tokens that may be issued
    IdToken,     \* ID tokens: records with iss, aud, alg, kid, key and exp
    Key,         \* signing keys of the issuer, each with its kid
    Trusted,     \* trusted_issuers: audience by issuer URL
    FetchLimit,  \* seconds a JWKS request may take (10)
    MaxClock,    \* bound: the clock stops here
    MaxIssued,   \* bound: tokens issued
    MaxEvents,   \* bound: what happens to one token
    NoToken      \* nothing presented

\* What of a token's claims decides whether it is accepted; the jti is never reused.
TokenClaims == [jti : Nat, exp : Nat, single_use : BOOLEAN]

ASSUME TokenAssumption ==
    /\ Token \subseteq TokenClaims
    /\ \A id \in IdToken : id.exp \in Nat
    /\ IsFiniteSet(Key)
    /\ FetchLimit \in Nat /\ MaxClock \in Nat /\ MaxEvents \in Nat /\ MaxIssued \in Nat

VARIABLES
    clock,    \* Utc::now() in seconds
    issued,   \* tokens signed by the issuer
    entries,  \* RevocationList: the tokens listed, each until its exp
    jwks,     \* the keys the OIDC issuer publishes, in order
    retired,  \* keys it has withdrawn
    caller,   \* what each task is doing
    history,  \* for each token: when it was accepted or revoked
    attested  \* the ID token accepted last, and when

tokenVars == <<clock, issued, entries, jwks, retired, caller, history, attested>>

Resting == [step |-> "rest", token |-> NoToken, since |-> 0, retired |-> {}]

TokenInit ==
    /\ clock = 0
    /\ issued = {}
    /\ entries = {}
    /\ jwks \in SetToSeqs(Key)
    /\ retired = {}
    /\ caller = [c \in Caller |-> Resting]
    /\ history = [k \in Token |-> <<>>]
    /\ attested = NoToken

-----------------------------------------------------------------------------
(* Tokens of the Gate *)

Note(k, what) == history' = [history EXCEPT ![k] = Append(@, [what |-> what, at |-> clock])]

\* issue; a jti is used once.
Issue(k) ==
    /\ k \notin issued /\ Cardinality(issued) < MaxIssued
    /\ issued' = issued \cup {k}
    /\ UNCHANGED <<clock, entries, jwks, retired, caller, history, attested>>

\* verify: signature, then exp.  A token that was not issued has no signature.
Verify(c, k) ==
    /\ caller[c] = Resting
    /\ k \in issued /\ k.exp > clock
    /\ caller' = [caller EXCEPT ![c].step = "list", ![c].token = k]
    /\ UNCHANGED <<clock, issued, entries, jwks, retired, history, attested>>

\* is_revoked for a token that may be used again, check_and_mark_used for one that
\* may not: one lock section each.
Consult(c) ==
    LET k == caller[c].token IN
    /\ caller[c].step = "list"
    /\ Len(history[k]) < MaxEvents
    /\ caller' = [caller EXCEPT ![c] = Resting]
    /\ IF k \in entries THEN UNCHANGED <<entries, history>>
       ELSE /\ entries' = IF k.single_use THEN entries \cup {k} ELSE entries
            /\ Note(k, "used")
    /\ UNCHANGED <<clock, issued, jwks, retired, attested>>

\* revoke: an entry may be there already.
Revoke(k) ==
    /\ k \in issued
    /\ Len(history[k]) < MaxEvents
    /\ entries' = entries \cup {k}
    /\ Note(k, "revoked")
    /\ UNCHANGED <<clock, issued, jwks, retired, caller, attested>>

\* Mutant: an entry is pruned when its token has one more second to live.
CleanupEarly ==
    /\ \E k \in entries : k.exp <= clock + 1
    /\ entries' = {k \in entries : k.exp > clock + 1}
    /\ UNCHANGED <<clock, issued, jwks, retired, caller, history, attested>>

\* cleanup, every 60 seconds and whenever else it is called.
Cleanup ==
    /\ \E k \in entries : k.exp <= clock
    /\ entries' = {k \in entries : k.exp > clock}
    /\ UNCHANGED <<clock, issued, jwks, retired, caller, history, attested>>

-----------------------------------------------------------------------------
(* ID tokens *)

\* The checks of verify_oidc_attestation before the keys are fetched.
ClaimsAccepted(id) ==
    /\ id.alg = "RS256"
    /\ id.iss \in DOMAIN Trusted
    /\ Trusted[id.iss] \in id.aud
    /\ id.exp > clock

Attest(c, id) ==
    /\ caller[c] = Resting
    /\ ClaimsAccepted(id)
    /\ caller' = [caller EXCEPT ![c] =
                    [step |-> "fetch", token |-> id, since |-> clock, retired |-> retired]]
    /\ UNCHANGED <<clock, issued, entries, jwks, retired, history, attested>>

\* find_jwk: the key named by the token, or else the first one.
FindJwk(keys, kid) ==
    LET named == {i \in DOMAIN keys : keys[i].kid = kid}
    IN  keys[IF named = {} THEN 1 ELSE Min(named)]

\* verify_rs256 and the result.
Conclude(c, keys) ==
    LET id == caller[c].token IN
    /\ caller' = [caller EXCEPT ![c] = Resting]
    /\ attested' = IF keys # <<>> /\ FindJwk(keys, id.kid) = id.key
                   THEN [id |-> id, at |-> clock, retired |-> caller[c].retired]
                   ELSE attested

\* Mutant: keys are fetched once and kept, as cache_jwks_seconds suggests.
FetchCached(c) ==
    /\ caller[c].step = "fetch"
    /\ Conclude(c, jwks \o SetToSeq(retired))
    /\ UNCHANGED <<clock, issued, entries, jwks, retired, history>>

\* The issuer's answer, with the keys it publishes now.
Fetch(c) ==
    /\ caller[c].step = "fetch"
    /\ Conclude(c, jwks)
    /\ UNCHANGED <<clock, issued, entries, jwks, retired, history>>

\* No answer, an answer that is none, or the end of the request's time.
FetchFails(c) ==
    /\ caller[c].step = "fetch"
    /\ caller' = [caller EXCEPT ![c] = Resting]
    /\ UNCHANGED <<clock, issued, entries, jwks, retired, history, attested>>

\* The issuer withdraws a key.
Retire(k) ==
    /\ \E i \in DOMAIN jwks : jwks[i] = k /\ jwks' = RemoveAt(jwks, i)
    /\ retired' = retired \cup {k}
    /\ UNCHANGED <<clock, issued, entries, caller, history, attested>>

\* A request that has used up its time ends before the clock goes on.
Elapse ==
    /\ clock < MaxClock
    /\ \A c \in Caller : caller[c].step = "fetch" => clock < caller[c].since + FetchLimit
    /\ clock' = clock + 1
    /\ UNCHANGED <<issued, entries, jwks, retired, caller, history, attested>>

TokenNext ==
    \/ \E k \in Token : Issue(k) \/ Revoke(k)
    \/ \E c \in Caller, k \in Token : Verify(c, k)
    \/ \E c \in Caller, id \in IdToken : Attest(c, id)
    \/ \E c \in Caller : Consult(c) \/ Fetch(c) \/ FetchFails(c)
    \/ \E k \in Key : Retire(k)
    \/ Cleanup
    \/ Elapse

TokenSpec == TokenInit /\ [][TokenNext]_tokenVars

-----------------------------------------------------------------------------
(* Properties *)

\* However callers and pruning interleave, a token is accepted after it was
\* revoked, or a single-use one after it was used, only by a caller that comes
\* to the list when the token has expired: it had verified it before, and the
\* entry was pruned meanwhile (check_and_mark_used, cleanup).
SpentTokensRefused ==
    \A k \in Token : \A i, j \in DOMAIN history[k] :
        /\ i < j
        /\ history[k][i].what = "revoked" \/ k.single_use
        /\ history[k][j].what = "used"
        => history[k][j].at >= k.exp

\* An accepted ID token was signed by a key that had not been withdrawn when its
\* verification began, and had expired less than the time limit of the JWKS
\* request before (verify_oidc_attestation, find_jwk).
AttestationCurrent ==
    attested # NoToken =>
        /\ attested.id.key \notin attested.retired
        /\ attested.at < attested.id.exp + FetchLimit

=============================================================================
