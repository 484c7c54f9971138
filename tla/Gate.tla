-------------------------------- MODULE Gate --------------------------------
(***************************************************************************)
(* The Gate daemon around the lease manager: agent processes and their     *)
(* connections (cdp-gate listener and router), the registry and the pidfd  *)
(* watchers, the death monitor of main, and the pool of per-lease proxy    *)
(* listeners (cdp-proxy manager) with the server tasks it spawns.          *)
(*                                                                         *)
(* The router's methods reach create_lease and revoke_agent_leases; the    *)
(* proxy servers reach use_lease.  No method calls renew_lease, delegate   *)
(* or revoke_lease directly, so those actions of LeaseManager do not occur *)
(* here.  Each connection is served by one task, one request at a time.    *)
(***************************************************************************)
EXTENDS LeaseManager, FiniteSets, FiniteSetsExt

CONSTANTS
    Conn,   \* connections (each accepted stream has a fresh connection_id)
    Port,          \* the port range of the proxy configuration
    WatchMayFail,  \* whether epoll may refuse a pidfd (AsyncFd::new fails)
    MaxWatchers    \* bound: watchers and notifications of one agent at a time

ASSUME ConnAssumption == None \notin Conn
ASSUME PortAssumption == Port \subseteq Nat /\ IsFiniteSet(Port)
ASSUME WatchAssumption == WatchMayFail \in BOOLEAN /\ MaxWatchers \in Nat

VARIABLES
    alive,      \* agent processes that run
    conns,      \* the connection tasks: whose, where in a request, for which lease
    registry,   \* Router::registry: the connection an agent is registered on
    watchers,   \* per agent, the pidfd watcher tasks, one for each registration
    deaths,     \* per agent, the notifications in the death_tx channel
    monitor,    \* the death monitor: agent handled, where, ids left to release
    listeners,  \* ProxyManager::listeners: the port recorded for a lease
    servers     \* the spawned server tasks: state and bind address

gateVars == <<alive, conns, registry, watchers, deaths, monitor, listeners, servers>>
allVars == <<vars, gateVars>>

-----------------------------------------------------------------------------
Idle == [agent |-> None, step |-> "closed", lease |-> None]
NoMonitor == [agent |-> None, step |-> "idle", ids |-> {}]
NoServer == [state |-> "none", port |-> None]

GateInit ==
    /\ Init
    /\ alive = Agent
    /\ conns = [c \in Conn |-> Idle]
    /\ registry = [a \in Agent |-> None]
    /\ watchers = [a \in Agent |-> 0]
    /\ deaths = [a \in Agent |-> 0]
    /\ monitor = NoMonitor
    /\ listeners = [l \in LeaseId |-> None]
    /\ servers = [l \in LeaseId |-> NoServer]

\* Connection c moves to `step`; everything else about it stays.
Goto(c, step) == conns' = [conns EXCEPT ![c].step = step]

At(c, step) == conns[c].step = step

-----------------------------------------------------------------------------
(* Agent processes *)

Connect(c, a) ==
    /\ a \in alive
    /\ At(c, "closed")
    /\ conns' = [conns EXCEPT ![c] = [Idle EXCEPT !.agent = a, !.step = "idle"]]
    /\ UNCHANGED <<vars, alive, registry, watchers, deaths, monitor, listeners, servers>>

Die(a) ==
    /\ a \in alive
    /\ alive' = alive \ {a}
    /\ UNCHANGED <<vars, conns, registry, watchers, deaths, monitor, listeners, servers>>

-----------------------------------------------------------------------------
(* handle_register *)

\* verify_agent: the pidfd, the path and hash of the binary and the start time are
\* read of a process that is there; their hash is the agent's identity.
VerifyAgent(a) == a \in alive

\* The watcher of the pidfd is spawned before the registration is stored, also for
\* an agent that has one.
RegisterVerify(c) ==
    LET a == conns[c].agent IN
    /\ At(c, "idle")
    /\ VerifyAgent(a)
    /\ watchers[a] + deaths[a] < MaxWatchers
    /\ watchers' = [watchers EXCEPT ![a] = @ + 1]
    /\ Goto(c, "verified")
    /\ UNCHANGED <<vars, alive, registry, deaths, monitor, listeners, servers>>

\* registry.insert replaces a registration on an older connection.
RegisterInsert(c) ==
    /\ At(c, "verified")
    /\ registry' = [registry EXCEPT ![conns[c].agent] = c]
    /\ Goto(c, "idle")
    /\ UNCHANGED <<vars, alive, watchers, deaths, monitor, listeners, servers>>

-----------------------------------------------------------------------------
(* handle_request_credential *)

\* The agent must be registered on this very connection; the token, an HMAC over
\* both, is the one that registration returned.
ValidateSession(c) == registry[conns[c].agent] = c

\* The session is validated and the registration looked up.  A request read after
\* its sender has died leads where one read just before does, so the sender is
\* taken to live.
RequestLookup(c) ==
    /\ At(c, "idle")
    /\ conns[c].agent \in alive
    /\ ValidateSession(c)
    /\ Goto(c, "approving")
    /\ UNCHANGED <<vars, alive, registry, watchers, deaths, monitor, listeners, servers>>

\* Policy or user said no, the approval timed out, or a host did not resolve.
RequestDenied(c) ==
    /\ At(c, "approving")
    /\ Goto(c, "idle")
    /\ UNCHANGED <<vars, alive, registry, watchers, deaths, monitor, listeners, servers>>

\* create_lease, in the steps of LeaseManager, for the identity looked up
\* before the approval.
RequestGranted(c, l, g, k) ==
    /\ At(c, "approving")
    /\ CreateDraft(l, conns[c].agent, g, k)
    /\ conns' = [conns EXCEPT ![c].step = "creating", ![c].lease = l]
    /\ UNCHANGED <<alive, registry, watchers, deaths, monitor, listeners, servers>>

RequestInsert(c) ==
    /\ At(c, "creating")
    /\ CreateInsert(conns[c].lease)
    /\ UNCHANGED gateVars

RequestIndex(c) ==
    /\ At(c, "creating")
    /\ PushIndex(conns[c].lease)
    /\ UNCHANGED gateVars

RequestReport(c) ==
    /\ At(c, "creating")
    /\ ReportGranted(conns[c].lease)
    /\ Goto(c, "starting")
    /\ UNCHANGED <<alive, registry, watchers, deaths, monitor, listeners, servers>>

-----------------------------------------------------------------------------
(* ProxyManager *)

\* Mutant: a port is free if nothing serves on it.
FreePortsUnbound ==
    Port \ {servers[l].port : l \in {m \in LeaseId : servers[m].state = "serving"}}

\* find_free_port looks at the recorded ports only.
FreePorts == Port \ {listeners[l] : l \in LeaseId}

\* The request is answered, by the lease and its port or by an error.
Answered(c) == conns' = [conns EXCEPT ![c].step = "idle", ![c].lease = None]

\* start_proxy records the first free port and spawns the server, which has not
\* bound it yet.
StartProxy(c) ==
    LET l == conns[c].lease
        port == Min(FreePorts)
    IN
    /\ At(c, "starting")
    /\ FreePorts # {}
    /\ listeners' = [listeners EXCEPT ![l] = port]
    /\ servers' = [servers EXCEPT ![l] = [state |-> "spawned", port |-> port]]
    /\ Answered(c)
    /\ UNCHANGED <<vars, alive, registry, watchers, deaths, monitor>>

\* PortExhausted: the request fails, the lease created for it stays.
StartProxyExhausted(c) ==
    /\ At(c, "starting")
    /\ FreePorts = {}
    /\ Answered(c)
    /\ UNCHANGED <<vars, alive, registry, watchers, deaths, monitor, listeners, servers>>

Bound(port) == \E l \in LeaseId : servers[l].state = "serving" /\ servers[l].port = port

\* ProxyServer::run binds the port, unless an older server still holds it.
ServerBind(l) ==
    /\ servers[l].state = "spawned"
    /\ ~Bound(servers[l].port)
    /\ servers' = [servers EXCEPT ![l].state = "serving"]
    /\ UNCHANGED <<vars, alive, conns, registry, watchers, deaths, monitor, listeners>>

\* Bind fails, because of an older server or of a process outside the Gate: the
\* error is logged and the pool keeps the entry.
ServerBindFails(l) ==
    /\ servers[l].state = "spawned"
    /\ servers' = [servers EXCEPT ![l].state = "failed"]
    /\ UNCHANGED <<vars, alive, conns, registry, watchers, deaths, monitor, listeners>>

\* The accept loop ends when the handle was dropped from the pool.
ServerStop(l) ==
    /\ servers[l].state = "serving"
    /\ listeners[l] = None
    /\ servers' = [servers EXCEPT ![l].state = "stopped"]
    /\ UNCHANGED <<vars, alive, conns, registry, watchers, deaths, monitor, listeners>>

\* A proxied request reaches use_lease, on a new connection or on one that was
\* accepted before the server stopped.
ProxyRequest(l) ==
    /\ servers[l].state \in {"serving", "stopped"}
    /\ Use(l)
    /\ UNCHANGED gateVars

-----------------------------------------------------------------------------
(* handle_connection: end of the stream *)

\* Mutant: the registration is kept until the process is reported dead.
DisconnectKeep(c) ==
    /\ At(c, "idle")
    /\ conns' = [conns EXCEPT ![c] = Idle]
    /\ UNCHANGED <<vars, alive, registry, watchers, deaths, monitor, listeners, servers>>

\* Mutant: the agent's watchers are aborted with the connection.
DisconnectAbort(c) ==
    LET a == conns[c].agent IN
    /\ At(c, "idle")
    /\ conns' = [conns EXCEPT ![c] = Idle]
    /\ registry' = [b \in Agent |-> IF registry[b] = c THEN None ELSE registry[b]]
    /\ watchers' = [watchers EXCEPT ![a] = 0]
    /\ UNCHANGED <<vars, alive, deaths, monitor, listeners, servers>>

\* EOF or a failed read or write between requests; the registrations made on
\* this connection are purged.
Disconnect(c) ==
    /\ At(c, "idle")
    /\ conns' = [conns EXCEPT ![c] = Idle]
    /\ registry' = [a \in Agent |-> IF registry[a] = c THEN None ELSE registry[a]]
    /\ UNCHANGED <<vars, alive, watchers, deaths, monitor, listeners, servers>>

-----------------------------------------------------------------------------
(* Death of an agent: watcher task, death monitor, handle_death *)

\* Mutant: a wake-up of the watcher is taken for the exit of the process.
NotifySpurious(a) ==
    /\ watchers[a] > 0
    /\ watchers' = [watchers EXCEPT ![a] = @ - 1]
    /\ deaths' = [deaths EXCEPT ![a] = @ + 1]
    /\ UNCHANGED <<vars, alive, conns, registry, monitor, listeners, servers>>

\* The pidfd is readable once the process has exited.  If it could not be given
\* to epoll at all, the watcher skips the wait and notifies at once.
Notify(a) ==
    /\ watchers[a] > 0
    /\ a \notin alive \/ WatchMayFail
    /\ watchers' = [watchers EXCEPT ![a] = @ - 1]
    /\ deaths' = [deaths EXCEPT ![a] = @ + 1]
    /\ UNCHANGED <<vars, alive, conns, registry, monitor, listeners, servers>>

\* The registration is removed; only if there was one is anything revoked.
HandleDeath(a) ==
    /\ monitor.step = "idle"
    /\ deaths[a] > 0
    /\ deaths' = [deaths EXCEPT ![a] = @ - 1]
    /\ registry' = [registry EXCEPT ![a] = None]
    /\ monitor' = IF registry[a] = None THEN monitor
                  ELSE [NoMonitor EXCEPT !.agent = a, !.step = "revoke"]
    /\ UNCHANGED <<vars, alive, conns, watchers, listeners, servers>>

DeathReapStart ==
    /\ monitor.step = "revoke"
    /\ ReapStart(monitor.agent)
    /\ monitor' = [monitor EXCEPT !.step = "reaping"]
    /\ UNCHANGED <<alive, conns, registry, watchers, deaths, listeners, servers>>

\* The loop of revoke_agent_leases; without delegation it meets only roots.
DeathReap(l) ==
    /\ monitor.step = "reaping"
    /\ ReapCollect(l) \/ (l = reaper.at /\ ReapRevoke)
    /\ UNCHANGED gateVars

\* Mutant: the returned list is dropped.
DeathReapedForget ==
    /\ monitor.step = "reaping"
    /\ ReapFinish
    /\ monitor' = NoMonitor
    /\ UNCHANGED <<alive, conns, registry, watchers, deaths, listeners, servers>>

\* revoke_agent_leases returns the ids whose listeners are to be released.
DeathReaped ==
    /\ monitor.step = "reaping"
    /\ ReapFinish
    /\ monitor' = [monitor EXCEPT !.step = "release", !.ids = reaper.revoked]
    /\ UNCHANGED <<alive, conns, registry, watchers, deaths, listeners, servers>>

\* release_lease: the entry goes and the server is signalled.
ReleaseLease(l) ==
    /\ monitor.step = "release"
    /\ l \in monitor.ids
    /\ listeners' = [listeners EXCEPT ![l] = None]
    /\ monitor' = [monitor EXCEPT !.ids = @ \ {l}]
    /\ UNCHANGED <<vars, alive, conns, registry, watchers, deaths, servers>>

DeathDone ==
    /\ monitor.step = "release"
    /\ monitor.ids = {}
    /\ monitor' = NoMonitor
    /\ UNCHANGED <<vars, alive, conns, registry, watchers, deaths, listeners, servers>>

-----------------------------------------------------------------------------
GateSweep == Sweep /\ UNCHANGED gateVars
GateTick == Tick /\ UNCHANGED gateVars

\* A connection task goes on with the request it has started.
Serve(c) ==
    \/ RegisterInsert(c)
    \/ RequestDenied(c)
    \/ \E l \in LeaseId, g \in Grant, k \in Constraints : RequestGranted(c, l, g, k)
    \/ RequestInsert(c)
    \/ RequestIndex(c)
    \/ RequestReport(c)
    \/ StartProxy(c)
    \/ StartProxyExhausted(c)

Monitor ==
    \/ \E a \in Agent : HandleDeath(a)
    \/ DeathReapStart
    \/ \E l \in LeaseId : DeathReap(l)
    \/ DeathReaped
    \/ \E l \in LeaseId : ReleaseLease(l)
    \/ DeathDone

\* The tasks the runtime keeps polling.
Progress ==
    \/ \E c \in Conn : Serve(c)
    \/ \E a \in Agent : Notify(a)
    \/ Monitor
    \/ \E l \in LeaseId : ServerBind(l) \/ ServerBindFails(l) \/ ServerStop(l)
    \/ GateSweep

GateNext ==
    \/ Progress
    \/ GateTick
    \/ \E c \in Conn, a \in Agent : Connect(c, a)
    \/ \E c \in Conn : RegisterVerify(c) \/ RequestLookup(c) \/ Disconnect(c)
    \/ \E a \in Agent : Die(a)
    \/ \E l \in LeaseId : ProxyRequest(l)

GateSpec == GateInit /\ [][GateNext]_allVars

\* Every task the runtime polls goes on; an approval ends, at the latest by its
\* timeout.  The kernel closes the connections of a process that has died, so the
\* next read or write on one ends its task.  Nothing is assumed of what agents
\* do, nor of the clock.
Fairness ==
    /\ \A c \in Conn : WF_allVars(Serve(c))
    /\ \A c \in Conn : WF_allVars(conns[c].agent \notin alive /\ Disconnect(c))
    /\ \A a \in Agent : WF_allVars(a \notin alive /\ Notify(a))
    /\ WF_allVars(Monitor)
    /\ \A l \in LeaseId : WF_allVars(ServerBind(l) \/ ServerBindFails(l) \/ ServerStop(l))
    /\ WF_allVars(GateSweep)

FairGateSpec == GateSpec /\ Fairness

-----------------------------------------------------------------------------
(* Safety *)

\* A registration is never orphaned (handle_register, handle_connection,
\* handle_death): its connection is open and belongs to the agent, and as long
\* as the process lives some watcher waits for its death, provided epoll takes
\* every pidfd.
RegistrationWatched ==
    \A a \in Agent : registry[a] # None =>
        /\ conns[registry[a]].agent = a
        /\ a \in alive => watchers[a] > 0

\* Nothing but death ends a lease early: while its process lives, no lease of
\* the agent is revoked, whichever connections it opens, registers on and
\* closes and whichever other agents die (handle_death, revoke_agent_leases).
LiveAgentKeepsLeases ==
    \A l \in LeaseId : leases[l].status = "revoked" => leases[l].agent \notin alive

\* Ports pass from lease to lease (find_free_port, start_proxy, release_lease,
\* revoke_agent_leases): a port is recorded for one lease at a time, and though
\* an old server may still hold it, that is never one of a lease that is alive
\* or recorded, so no agent is answered on a port told to another.
PortsPassOn ==
    \A l, m \in LeaseId : l # m /\ listeners[l] # None =>
        /\ listeners[m] # listeners[l]
        /\ servers[m].state = "serving" /\ servers[m].port = listeners[l] =>
              listeners[m] = None /\ leases[m].status = "revoked"

(* Liveness *)

\* A process that has died ends up unregistered for good, however its last
\* requests, its disconnection and the notifications of its death interleave.
DeadDeregistered == \A a \in Agent : a \notin alive ~> [](registry[a] = None)

\* Each listed lease that revoke_agent_leases was given with a listener ends up
\* revoked, its port released and its server stopped (handle_death).
ReapedReleased ==
    \A l \in LeaseId :
        (l \in reaper.ids /\ listeners[l] # None) ~>
            (/\ leases[l].status = "revoked"
             /\ listeners[l] = None
             /\ servers[l].state # "serving")

-----------------------------------------------------------------------------
(* What the documentation says and the code does not do; see README.md *)

\* "If the PID dies ..., all registrations and leases for that PID are
\* immediately revoked" (spec/PROTOCOL.md:165).
DeadAgentRevoked ==
    \A l \in LeaseId :
        (leases[l].status = "active" /\ leases[l].agent \notin alive)
            ~> (leases[l].status # "active")

=============================================================================
