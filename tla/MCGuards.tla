----------------------------- MODULE MCGuards ------------------------------
(***************************************************************************)
(* Small instances for TLC of what stands between an agent and a           *)
(* credential besides the leases: scopes and the matching of paths, replay *)
(* protection, tokens, and clients finding and using Gates.  They share no *)
(* state; a behaviour is one of one of them, chosen at the start.          *)
(***************************************************************************)
EXTENDS MCPolicyScope, Glob, ReplayGuard, TokenGuard, ClientSession

VARIABLE guard  \* the part this behaviour is about

allVars == <<guard, scopeVars, globVars, replayVars, tokenVars, hostVars, clientVars>>

Words(S, n) == UNION {[1..k -> S] : k \in 0..n}

\* A requested path is itself a pattern, so "*" and "**" occur in paths too.
MCGlobPath == Words({"a", "b"}, 4) \cup Words({"a", Star, StarStar}, 2)
MCGlobPattern == Words({"a", Star, StarStar}, 4)

MCToken == {[jti |-> 1, exp |-> 2, single_use |-> TRUE], [jti |-> 2, exp |-> 2, single_use |-> FALSE]}

MCKey == {[kid |-> "k1"], [kid |-> "k2"]}

\* ID tokens without a kid, and one with.
MCIdToken ==
    {[iss |-> "idp", aud |-> {"gate", "x"}, alg |-> "RS256", kid |-> NoToken, key |-> k, exp |-> 2] :
        k \in MCKey}
    \cup {[iss |-> "idp", aud |-> {"gate"}, alg |-> "RS256", kid |-> "k2",
           key |-> [kid |-> "k2"], exp |-> 2]}

MCTrusted == "idp" :> "gate"

NoScope == CHOOSE s \in MCScope : s.hosts = {} /\ s.forbidden = {}

GuardsInit ==
    /\ guard \in {"scope", "glob", "replay", "token", "client"}
    /\ IF guard = "scope" THEN ScopeInit
       ELSE allow = NoScope /\ requested = NoScope /\ granted = None /\ scope = None /\ depth = 0
    /\ IF guard = "glob" THEN GlobInit ELSE subject = <<>> /\ pattern = <<>> /\ GlobInit
    /\ ReplayInit
    /\ IF guard = "token" THEN TokenInit
       ELSE TokenInit /\ jwks = CHOOSE s \in SetToSeqs(Key) : TRUE
    /\ IF guard = "client" THEN HostInit /\ ClientInit
       ELSE HostInit /\ ClientInit /\ root /\ client.kind = "rust"

ScopeStep ==
    /\ guard = "scope" /\ ScopeNext
    /\ UNCHANGED <<globVars, replayVars, tokenVars, hostVars, clientVars>>

GlobStep ==
    /\ guard = "glob" /\ GlobNext
    /\ UNCHANGED <<scopeVars, replayVars, tokenVars, hostVars, clientVars>>

\* Nonces are interchangeable: a new one is the next.
SeenNonces ==
    {accepted[i].nonce : i \in DOMAIN accepted}
    \cup {pending[c].nonce : c \in {d \in Conn : pending[d] # NoRequest}}

ReplayStep ==
    /\ guard = "replay" /\ ReplayNext
    /\ SeenNonces' = 1..Cardinality(SeenNonces')
    /\ UNCHANGED <<scopeVars, globVars, tokenVars, hostVars, clientVars>>

TokenStep ==
    /\ guard = "token" /\ TokenNext
    /\ UNCHANGED <<scopeVars, globVars, replayVars, hostVars, clientVars>>

\* Gates start, end and are killed until the client's first call; then they are only
\* killed, which is all of them that an open connection notices.
HostStep ==
    /\ guard = "client"
    /\ IF sent = 0 THEN HostNext ELSE \E g \in GateId : KillGate(g)
    /\ UNCHANGED <<scopeVars, globVars, replayVars, tokenVars, clientVars>>

\* Bound: calls are made when two Gates have met and neither is about to start.
Settled ==
    /\ root /\ alone = {} /\ file.whole
    /\ \A g \in GateId : phase[g] \in {"serving", "gone"}

ClientStep ==
    /\ guard = "client" /\ ClientNext
    /\ sent' = 0 \/ Settled
    /\ UNCHANGED <<scopeVars, globVars, replayVars, tokenVars, hostVars>>

GuardsNext ==
    (ScopeStep \/ GlobStep \/ ReplayStep \/ TokenStep \/ HostStep \/ ClientStep) /\ UNCHANGED guard

GuardsSpec == GuardsInit /\ [][GuardsNext]_allVars

=============================================================================
