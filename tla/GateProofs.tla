----------------------------- MODULE GateProofs -----------------------------
(***************************************************************************)
(* Proofs about Gate for every set of agents, connections, leases and      *)
(* ports: the daemon drives the lease manager only through its operations, *)
(* so that all that is proved of LeaseManager holds of it; a registration  *)
(* is watched; a live agent keeps its leases and its registration; and a   *)
(* port passes on only after its lease was revoked.                        *)
(***************************************************************************)
EXTENDS Gate, LeaseContractProofs, WellFoundedInduction

(***************************************************************************)
(* Types                                                                   *)
(***************************************************************************)

ConnState ==
    [agent : Option(Agent),
     step : {"closed", "idle", "verified", "approving", "creating", "starting"},
     lease : Option(LeaseId)]

MonitorState ==
    [agent : Option(Agent), step : {"idle", "revoke", "reaping", "release"},
     ids : SUBSET LeaseId]

\* A connection task knows its peer, and the lease it is creating.
ConnOK(r) ==
    /\ r.step # "closed" => r.agent \in Agent
    /\ r.step \in {"creating", "starting"} => r.lease \in LeaseId

GateType ==
    /\ alive \subseteq Agent
    /\ conns \in [Conn -> ConnState]
    /\ \A c \in Conn : ConnOK(conns[c])
    /\ registry \in [Agent -> Option(Conn)]
    /\ watchers \in [Agent -> Nat]
    /\ deaths \in [Agent -> Nat]
    /\ monitor \in MonitorState
    /\ monitor.step # "idle" => monitor.agent \in Agent

\* What Goto and Answered do to a connection.
LEMMA ConnMoved ==
    ASSUME GateType, NEW c \in Conn, NEW r \in ConnState, ConnOK(r),
           conns' = [conns EXCEPT ![c] = r]
    PROVE  conns' \in [Conn -> ConnState] /\ \A x \in Conn : ConnOK(conns'[x])
BY DEF GateType

\* A connection task that goes on keeps its agent and its lease.
LEMMA GotoType ==
    ASSUME GateType, NEW c \in Conn,
           NEW s \in {"idle", "verified", "approving", "creating", "starting"}, Goto(c, s),
           conns[c].step # "closed",
           s \in {"creating", "starting"} => conns[c].lease \in LeaseId
    PROVE  conns' \in [Conn -> ConnState] /\ \A x \in Conn : ConnOK(conns'[x])
<1> DEFINE r == [conns[c] EXCEPT !.step = s]
<1>1. conns' = [conns EXCEPT ![c] = r]
  BY DEF Goto, GateType
<1>2. conns[c] \in ConnState /\ ConnOK(conns[c])
  BY DEF GateType
<1>3. /\ r \in ConnState /\ r.step = s /\ r.agent = conns[c].agent
      /\ r.lease = conns[c].lease
  BY <1>2 DEF ConnState
<1> HIDE DEF r
<1>4. ConnOK(r)
  BY <1>2, <1>3 DEF ConnOK
<1> QED BY <1>1, <1>3, <1>4, ConnMoved

\* A request that is answered leaves the connection idle.
LEMMA AnsweredType ==
    ASSUME GateType, NEW c \in Conn, Answered(c), conns[c].step # "closed"
    PROVE  conns' \in [Conn -> ConnState] /\ \A x \in Conn : ConnOK(conns'[x])
<1> DEFINE r == [conns[c] EXCEPT !.step = "idle", !.lease = None]
<1>1. conns' = [conns EXCEPT ![c] = r]
  BY DEF Answered, GateType
<1>2. conns[c] \in ConnState /\ ConnOK(conns[c])
  BY DEF GateType
<1>3. r \in ConnState /\ r.step = "idle" /\ r.agent = conns[c].agent
  BY <1>2 DEF ConnState, Option
<1> HIDE DEF r
<1>4. ConnOK(r)
  BY <1>2, <1>3 DEF ConnOK
<1> QED BY <1>1, <1>3, <1>4, ConnMoved

\* Every step of the daemon keeps the types of its state.
LEMMA GateTypeNext == TypeOK /\ GateType /\ [GateNext]_allVars => GateType'
<1> SUFFICES ASSUME TypeOK, GateType, [GateNext]_allVars PROVE GateType'
  OBVIOUS
<1>a. ASSUME UNCHANGED <<alive, registry, watchers, deaths, monitor>>,
             conns' \in [Conn -> ConnState], \A x \in Conn : ConnOK(conns'[x])
      PROVE  GateType'
  BY <1>a DEF GateType
<1>b. ASSUME UNCHANGED <<alive, conns, registry, watchers, deaths, monitor>> PROVE GateType'
  BY <1>a, <1>b DEF GateType
<1>1. ASSUME NEW c \in Conn, RegisterInsert(c) PROVE GateType'
  <2>1. Goto(c, "idle") /\ conns[c].step # "closed"
    BY <1>1 DEF RegisterInsert, At
  <2>2. conns' \in [Conn -> ConnState] /\ \A x \in Conn : ConnOK(conns'[x])
    BY <2>1, GotoType
  <2>3. registry' \in [Agent -> Option(Conn)]
    BY <1>1 DEF RegisterInsert, GateType, Option
  <2>4. /\ alive' \subseteq Agent /\ watchers' \in [Agent -> Nat] /\ deaths' \in [Agent -> Nat]
        /\ monitor' \in MonitorState /\ (monitor'.step # "idle" => monitor'.agent \in Agent)
    BY <1>1 DEF RegisterInsert, GateType
  <2> QED BY <2>2, <2>3, <2>4 DEF GateType
<1>2. ASSUME NEW c \in Conn, RequestDenied(c) \/ RequestLookup(c) PROVE GateType'
  <2>1. PICK s \in {"idle", "approving"} : Goto(c, s)
    BY <1>2 DEF RequestDenied, RequestLookup
  <2>2. /\ conns[c].step # "closed" /\ s \notin {"creating", "starting"}
        /\ UNCHANGED <<alive, registry, watchers, deaths, monitor>>
    BY <1>2 DEF RequestDenied, RequestLookup, At
  <2>3. conns' \in [Conn -> ConnState] /\ \A x \in Conn : ConnOK(conns'[x])
    BY <2>1, <2>2, GotoType
  <2> QED BY <1>a, <2>2, <2>3
<1>3. ASSUME NEW c \in Conn, NEW l \in LeaseId, NEW g \in Grant, NEW k \in Constraints,
             RequestGranted(c, l, g, k)
      PROVE  GateType'
  <2> DEFINE r == [conns[c] EXCEPT !.step = "creating", !.lease = l]
  <2>1. /\ conns' = [conns EXCEPT ![c] = r]
        /\ UNCHANGED <<alive, registry, watchers, deaths, monitor>>
        /\ conns[c].step # "closed" /\ conns[c] \in ConnState /\ ConnOK(conns[c])
    BY <1>3 DEF RequestGranted, At, GateType
  <2>2. r \in ConnState /\ r.step = "creating" /\ r.agent = conns[c].agent /\ r.lease = l
    BY <2>1 DEF ConnState, Option
  <2> HIDE DEF r
  <2>3. ConnOK(r)
    BY <2>1, <2>2 DEF ConnOK
  <2> QED BY <1>a, <2>1, <2>2, <2>3, ConnMoved
<1>4. ASSUME NEW c \in Conn, RequestReport(c) PROVE GateType'
  <2>1. /\ conns[c].step = "creating" /\ Goto(c, "starting") /\ conns[c].lease \in LeaseId
        /\ UNCHANGED <<alive, registry, watchers, deaths, monitor>>
    BY <1>4 DEF RequestReport, At, GateType, ConnOK
  <2> QED BY <1>a, <2>1, GotoType
<1>5. ASSUME NEW c \in Conn, StartProxy(c) \/ StartProxyExhausted(c) PROVE GateType'
  <2>1. /\ conns[c].step # "closed" /\ Answered(c)
        /\ UNCHANGED <<alive, registry, watchers, deaths, monitor>>
    BY <1>5 DEF StartProxy, StartProxyExhausted, At
  <2> QED BY <1>a, <2>1, AnsweredType
<1>6. ASSUME NEW a \in Agent, Notify(a) PROVE GateType'
  BY <1>6 DEF Notify, GateType
<1>7. ASSUME NEW a \in Agent, HandleDeath(a) PROVE GateType'
  <2>1. monitor' = monitor \/ monitor' = [agent |-> a, step |-> "revoke", ids |-> {}]
    BY <1>7 DEF HandleDeath, NoMonitor
  <2>2. monitor' \in MonitorState /\ (monitor'.step # "idle" => monitor'.agent \in Agent)
    BY <2>1 DEF GateType, MonitorState, Option
  <2>3. deaths' \in [Agent -> Nat] /\ registry' \in [Agent -> Option(Conn)]
    BY <1>7 DEF HandleDeath, GateType, Option
  <2> QED BY <1>7, <2>2, <2>3 DEF HandleDeath, GateType
<1>8. CASE DeathReapStart
  <2>1. monitor' \in MonitorState /\ monitor'.agent = monitor.agent
    BY <1>8 DEF DeathReapStart, GateType, MonitorState
  <2> QED BY <1>8, <2>1 DEF DeathReapStart, GateType
<1>9. CASE DeathReaped
  <2>1. reaper.revoked \in SUBSET LeaseId
    BY DEF TypeOK, Reaper
  <2>2. monitor' \in MonitorState /\ monitor'.agent = monitor.agent
    BY <1>9, <2>1 DEF DeathReaped, GateType, MonitorState
  <2> QED BY <1>9, <2>2 DEF DeathReaped, GateType
<1>10. ASSUME NEW l \in LeaseId, ReleaseLease(l) PROVE GateType'
  <2>1. monitor' \in MonitorState /\ monitor'.agent = monitor.agent
    BY <1>10 DEF ReleaseLease, GateType, MonitorState
  <2> QED BY <1>10, <2>1 DEF ReleaseLease, GateType
<1>11. CASE DeathDone
  BY <1>11 DEF DeathDone, GateType, MonitorState, NoMonitor, Option
<1>12. ASSUME NEW c \in Conn, NEW a \in Agent, Connect(c, a) PROVE GateType'
  <2> DEFINE r == [Idle EXCEPT !.agent = a, !.step = "idle"]
  <2>1. r \in ConnState /\ ConnOK(r)
    BY DEF Idle, ConnState, ConnOK, Option
  <2>2. conns' = [conns EXCEPT ![c] = r] /\ UNCHANGED <<alive, registry, watchers, deaths, monitor>>
    BY <1>12 DEF Connect
  <2> HIDE DEF r
  <2> QED BY <1>a, <2>1, <2>2, ConnMoved
<1>13. ASSUME NEW c \in Conn, RegisterVerify(c) PROVE GateType'
  <2>1. Goto(c, "verified") /\ conns[c].step # "closed" /\ conns[c].agent \in Agent
    BY <1>13 DEF RegisterVerify, At, GateType, ConnOK
  <2>2. conns' \in [Conn -> ConnState] /\ \A x \in Conn : ConnOK(conns'[x])
    BY <2>1, GotoType
  <2>3. watchers' \in [Agent -> Nat]
    BY <1>13, <2>1 DEF RegisterVerify, GateType
  <2> QED BY <1>13, <2>2, <2>3 DEF RegisterVerify, GateType
<1>14. ASSUME NEW c \in Conn, Disconnect(c) PROVE GateType'
  <2>1. Idle \in ConnState /\ ConnOK(Idle)
    BY DEF Idle, ConnState, ConnOK, Option
  <2>2. conns' = [conns EXCEPT ![c] = Idle]
    BY <1>14 DEF Disconnect
  <2>3. conns' \in [Conn -> ConnState] /\ \A x \in Conn : ConnOK(conns'[x])
    BY <2>1, <2>2, ConnMoved
  <2>4. registry' \in [Agent -> Option(Conn)]
    BY <1>14 DEF Disconnect, GateType, Option
  <2> QED BY <1>14, <2>3, <2>4 DEF Disconnect, GateType
<1>15. ASSUME NEW a \in Agent, Die(a) PROVE GateType'
  BY <1>15 DEF Die, GateType
<1>16. ASSUME NEW l \in LeaseId,
              \/ ServerBind(l) \/ ServerBindFails(l) \/ ServerStop(l)
              \/ ProxyRequest(l) \/ DeathReap(l)
       PROVE  GateType'
  BY <1>b, <1>16 DEF ServerBind, ServerBindFails, ServerStop, ProxyRequest, DeathReap, gateVars
<1>17. ASSUME NEW c \in Conn, RequestInsert(c) \/ RequestIndex(c) PROVE GateType'
  BY <1>b, <1>17 DEF RequestInsert, RequestIndex, gateVars
<1>18. CASE GateSweep \/ GateTick \/ UNCHANGED allVars
  BY <1>b, <1>18 DEF GateSweep, GateTick, allVars, gateVars
<1> QED
  BY <1>1, <1>2, <1>3, <1>4, <1>5, <1>6, <1>7, <1>8, <1>9, <1>10, <1>11, <1>12, <1>13,
     <1>14, <1>15, <1>16, <1>17, <1>18
  DEF GateNext, Progress, Serve, Monitor

(***************************************************************************)
(* The daemon drives the lease manager through its operations              *)
(***************************************************************************)

\* Every step of the daemon is an operation of the lease manager, for an agent
\* of its own, or leaves the manager alone.
LEMMA GateDrives == GateType /\ TypeOK /\ [GateNext]_allVars => [Next]_vars
<1> SUFFICES ASSUME GateType, TypeOK, [GateNext]_allVars PROVE [Next]_vars
  OBVIOUS
<1>1. ASSUME NEW c \in Conn, NEW l \in LeaseId, NEW g \in Grant, NEW k \in Constraints,
             RequestGranted(c, l, g, k)
      PROVE  Next
  <2>1. conns[c].agent \in Agent /\ CreateDraft(l, conns[c].agent, g, k)
    BY <1>1 DEF RequestGranted, At, GateType, ConnOK
  <2> QED BY <2>1 DEF Next, Create
<1>2. ASSUME NEW c \in Conn, RequestInsert(c) \/ RequestIndex(c) \/ RequestReport(c)
      PROVE  Next
  <2>1. /\ conns[c].lease \in LeaseId
        /\ \/ CreateInsert(conns[c].lease) \/ PushIndex(conns[c].lease)
           \/ ReportGranted(conns[c].lease)
    BY <1>2 DEF RequestInsert, RequestIndex, RequestReport, At, GateType, ConnOK
  <2> QED BY <2>1 DEF Next, Create
<1>3. CASE DeathReapStart
  <2>1. monitor.agent \in Agent /\ ReapStart(monitor.agent)
    BY <1>3 DEF DeathReapStart, GateType
  <2> QED BY <2>1 DEF Next
<1>4. ASSUME NEW l \in LeaseId, DeathReap(l) PROVE Next
  BY <1>4 DEF DeathReap, Next, Reap
<1>5. CASE DeathReaped
  BY <1>5 DEF DeathReaped, Next, Reap
<1>6. CASE GateSweep \/ GateTick
  BY <1>6 DEF GateSweep, GateTick, Next
<1>7. ASSUME NEW l \in LeaseId, ProxyRequest(l) PROVE Next
  BY <1>7 DEF ProxyRequest, Next
<1>8. ASSUME NEW c \in Conn,
             \/ RegisterInsert(c) \/ RequestDenied(c) \/ StartProxy(c)
             \/ StartProxyExhausted(c) \/ RegisterVerify(c) \/ RequestLookup(c)
             \/ Disconnect(c)
             \/ \E a \in Agent : Connect(c, a)
      PROVE  UNCHANGED vars
  BY <1>8 DEF RegisterInsert, RequestDenied, StartProxy, StartProxyExhausted,
              RegisterVerify, RequestLookup, Disconnect, Connect
<1>9. ASSUME NEW l \in LeaseId,
             \/ ServerBind(l) \/ ServerBindFails(l) \/ ServerStop(l) \/ ReleaseLease(l)
      PROVE  UNCHANGED vars
  BY <1>9 DEF ServerBind, ServerBindFails, ServerStop, ReleaseLease
<1>10. ASSUME NEW a \in Agent, Notify(a) \/ HandleDeath(a) \/ Die(a) PROVE UNCHANGED vars
  BY <1>10 DEF Notify, HandleDeath, Die
<1>11. CASE DeathDone \/ UNCHANGED allVars
  BY <1>11 DEF DeathDone, allVars
<1> QED
  BY <1>1, <1>2, <1>3, <1>4, <1>5, <1>6, <1>7, <1>8, <1>9, <1>10, <1>11
  DEF GateNext, Progress, Serve, Monitor

\* The daemon starts with no connection, registration, watcher or listener.
LEMMA GateInitType == GateInit => GateType
<1> SUFFICES ASSUME GateInit PROVE GateType
  OBVIOUS
<1>1. Idle \in ConnState /\ ConnOK(Idle)
  BY DEF Idle, ConnState, ConnOK, Option
<1>2. NoMonitor \in MonitorState /\ NoMonitor.step = "idle"
  BY DEF NoMonitor, MonitorState, Option
<1> QED BY <1>1, <1>2 DEF GateInit, GateType, Option

\* The types of daemon and manager hold throughout.
LEMMA GateTypes == GateSpec => [](TypeOK /\ GateType)
<1>1. GateInit => TypeOK /\ GateType
  BY GateInitType, TypeInit DEF GateInit
<1>2. (TypeOK /\ GateType) /\ [GateNext]_allVars => (TypeOK /\ GateType)'
  BY GateDrives, GateTypeNext, TypeNext
<1> QED BY <1>1, <1>2, PTL DEF GateSpec

\* The Gate implements LeaseManager: connections, watchers, death monitor and
\* proxy servers only ever take steps that the manager has, so what is proved of
\* the manager holds in the daemon (router.rs, main.rs, cdp-proxy manager.rs).
THEOREM GateDrivesManager == GateSpec => Spec
<1>1. GateSpec => Init
  BY DEF GateSpec, GateInit
<1>2. GateSpec => [][Next]_vars
  BY GateTypes, GateDrives, PTL DEF GateSpec
<1> QED BY <1>1, <1>2 DEF Spec

(***************************************************************************)
(* A registration is watched                                               *)
(*                                                                         *)
(* The watcher is spawned before the registration is stored, so the        *)
(* invariant speaks of connections in between as well; and a watcher of a  *)
(* live process does not end, provided epoll takes every pidfd.            *)
(***************************************************************************)

WatchInv ==
    /\ \A a \in Agent : registry[a] # None =>
          conns[registry[a]].agent = a /\ conns[registry[a]].step # "closed"
    /\ \A a \in Agent : a \in alive /\ registry[a] # None => watchers[a] > 0
    /\ \A c \in Conn : conns[c].step = "verified" /\ conns[c].agent \in alive =>
          watchers[conns[c].agent] > 0
    /\ \A a \in Agent : deaths[a] > 0 => a \notin alive
    /\ monitor.step # "idle" => monitor.agent \notin alive

\* Every step of the daemon keeps registrations watched.
LEMMA WatchNext ==
    ASSUME WatchMayFail = FALSE
    PROVE  GateType /\ WatchInv /\ [GateNext]_allVars => WatchInv'
<1> SUFFICES ASSUME GateType, WatchInv, [GateNext]_allVars PROVE WatchInv'
  OBVIOUS
<1>0. /\ \A c \in Conn : conns[c] \in ConnState
      /\ \A a \in Agent : registry[a] # None => registry[a] \in Conn
      /\ \A a \in Agent : watchers[a] \in Nat /\ deaths[a] \in Nat
      /\ \A c \in Conn : conns[c].step # "closed" => conns[c].agent \in Agent
      /\ alive \subseteq Agent
  BY DEF GateType, ConnOK, Option
\* Steps of a connection that change neither its agent nor who is registered.
<1>a. ASSUME NEW c \in Conn, UNCHANGED <<alive, registry, watchers, deaths, monitor>>,
             conns[c].step # "closed",
             conns'[c].agent = conns[c].agent, conns'[c].step \notin {"closed", "verified"},
             \A x \in Conn \ {c} : conns'[x] = conns[x]
      PROVE  WatchInv'
  BY <1>0, <1>a DEF WatchInv
<1>b. ASSUME UNCHANGED <<alive, conns, registry, watchers, deaths, monitor>> PROVE WatchInv'
  BY <1>b DEF WatchInv
<1>1. ASSUME NEW c \in Conn, RegisterInsert(c) PROVE WatchInv'
  <2>1. /\ conns[c].step = "verified" /\ conns[c].agent \in Agent
        /\ registry' = [registry EXCEPT ![conns[c].agent] = c]
        /\ UNCHANGED <<alive, watchers, deaths, monitor>>
    BY <1>0, <1>1 DEF RegisterInsert, At
  <2>2. /\ conns'[c].agent = conns[c].agent /\ conns'[c].step = "idle"
        /\ \A x \in Conn \ {c} : conns'[x] = conns[x]
    BY <1>0, <1>1 DEF RegisterInsert, Goto, GateType, ConnState
  <2>3. \A a \in Agent : registry'[a] = IF a = conns[c].agent THEN c ELSE registry[a]
    BY <2>1 DEF GateType
  <2> QED BY <1>0, <2>1, <2>2, <2>3 DEF WatchInv
<1>2. ASSUME NEW c \in Conn, RequestDenied(c) \/ RequestLookup(c) PROVE WatchInv'
  <2>1. /\ UNCHANGED <<alive, registry, watchers, deaths, monitor>>
        /\ conns[c].step # "closed"
        /\ Goto(c, "idle") \/ Goto(c, "approving")
    BY <1>2 DEF RequestDenied, RequestLookup, At
  <2>2. /\ conns'[c].agent = conns[c].agent /\ conns'[c].step \in {"idle", "approving"}
        /\ \A x \in Conn \ {c} : conns'[x] = conns[x]
    BY <1>0, <2>1 DEF Goto, GateType, ConnState
  <2> QED BY <1>a, <2>1, <2>2
<1>3. ASSUME NEW c \in Conn, NEW l \in LeaseId, NEW g \in Grant, NEW k \in Constraints,
             RequestGranted(c, l, g, k)
      PROVE  WatchInv'
  <2>1. /\ UNCHANGED <<alive, registry, watchers, deaths, monitor>>
        /\ conns[c].step # "closed"
    BY <1>3 DEF RequestGranted, At
  <2>2. /\ conns'[c].agent = conns[c].agent /\ conns'[c].step = "creating"
        /\ \A x \in Conn \ {c} : conns'[x] = conns[x]
    BY <1>0, <1>3 DEF RequestGranted, GateType, ConnState
  <2> QED BY <1>a, <2>1, <2>2
<1>4. ASSUME NEW c \in Conn, RequestReport(c) PROVE WatchInv'
  <2>1. /\ UNCHANGED <<alive, registry, watchers, deaths, monitor>>
        /\ conns[c].step # "closed"
    BY <1>4 DEF RequestReport, At
  <2>2. /\ conns'[c].agent = conns[c].agent /\ conns'[c].step = "starting"
        /\ \A x \in Conn \ {c} : conns'[x] = conns[x]
    BY <1>0, <1>4 DEF RequestReport, Goto, GateType, ConnState
  <2> QED BY <1>a, <2>1, <2>2
<1>5. ASSUME NEW c \in Conn, StartProxy(c) \/ StartProxyExhausted(c) PROVE WatchInv'
  <2>1. /\ UNCHANGED <<alive, registry, watchers, deaths, monitor>>
        /\ conns[c].step # "closed" /\ Answered(c)
    BY <1>5 DEF StartProxy, StartProxyExhausted, At
  <2>2. /\ conns'[c].agent = conns[c].agent /\ conns'[c].step = "idle"
        /\ \A x \in Conn \ {c} : conns'[x] = conns[x]
    BY <1>0, <2>1 DEF Answered, GateType, ConnState
  <2> QED BY <1>a, <2>1, <2>2
<1>6. ASSUME NEW a \in Agent, Notify(a) PROVE WatchInv'
  <2>1. /\ a \notin alive /\ UNCHANGED <<alive, conns, registry, monitor>>
        /\ \A b \in Agent \ {a} : watchers'[b] = watchers[b] /\ deaths'[b] = deaths[b]
    BY <1>6 DEF Notify, GateType
  <2> QED BY <1>0, <2>1 DEF WatchInv
<1>7. ASSUME NEW a \in Agent, HandleDeath(a) PROVE WatchInv'
  <2>1. /\ deaths[a] > 0 /\ UNCHANGED <<alive, conns, watchers>>
        /\ \A b \in Agent : registry'[b] = IF b = a THEN None ELSE registry[b]
        /\ \A b \in Agent : deaths'[b] = IF b = a THEN deaths[a] - 1 ELSE deaths[b]
    BY <1>7 DEF HandleDeath, GateType
  <2>2. monitor' = monitor \/ monitor'.agent = a
    BY <1>7 DEF HandleDeath, NoMonitor
  <2> QED BY <1>0, <2>1, <2>2 DEF WatchInv
<1>8. CASE DeathReapStart \/ DeathReaped
  <2>1. /\ UNCHANGED <<alive, conns, registry, watchers, deaths>>
        /\ monitor.step # "idle" /\ monitor'.agent = monitor.agent
    BY <1>8 DEF DeathReapStart, DeathReaped, GateType, MonitorState
  <2> QED BY <2>1 DEF WatchInv
<1>9. ASSUME NEW l \in LeaseId, ReleaseLease(l) PROVE WatchInv'
  <2>1. /\ UNCHANGED <<alive, conns, registry, watchers, deaths>>
        /\ monitor.step # "idle" /\ monitor'.agent = monitor.agent
    BY <1>9 DEF ReleaseLease, GateType, MonitorState
  <2> QED BY <2>1 DEF WatchInv
<1>10. CASE DeathDone
  BY <1>10 DEF DeathDone, NoMonitor, WatchInv
<1>11. ASSUME NEW c \in Conn, NEW a \in Agent, Connect(c, a) PROVE WatchInv'
  <2>1. /\ UNCHANGED <<alive, registry, watchers, deaths, monitor>>
        /\ conns[c].step = "closed" /\ conns'[c].step = "idle"
        /\ \A x \in Conn \ {c} : conns'[x] = conns[x]
    BY <1>11 DEF Connect, At, Idle, GateType
  <2> QED BY <1>0, <2>1 DEF WatchInv
<1>12. ASSUME NEW c \in Conn, RegisterVerify(c) PROVE WatchInv'
  <2>1. /\ UNCHANGED <<alive, registry, deaths, monitor>>
        /\ conns[c].step = "idle" /\ conns[c].agent \in Agent
    BY <1>0, <1>12 DEF RegisterVerify, At
  <2>2. \A a \in Agent : watchers'[a] = IF a = conns[c].agent THEN watchers[a] + 1
                                                              ELSE watchers[a]
    BY <1>12, <2>1 DEF RegisterVerify, GateType
  <2>3. /\ conns'[c].agent = conns[c].agent /\ conns'[c].step = "verified"
        /\ \A x \in Conn \ {c} : conns'[x] = conns[x]
    BY <1>0, <1>12 DEF RegisterVerify, Goto, GateType, ConnState
  <2>4. /\ \A a \in Agent : watchers[a] > 0 => watchers'[a] > 0
        /\ watchers'[conns[c].agent] > 0
    BY <1>0, <2>1, <2>2
  <2> QED BY <1>0, <2>1, <2>3, <2>4 DEF WatchInv
<1>13. ASSUME NEW c \in Conn, Disconnect(c) PROVE WatchInv'
  <2>1. /\ UNCHANGED <<alive, watchers, deaths, monitor>>
        /\ \A a \in Agent : registry'[a] = IF registry[a] = c THEN None ELSE registry[a]
        /\ conns'[c].step = "closed" /\ \A x \in Conn \ {c} : conns'[x] = conns[x]
    BY <1>13 DEF Disconnect, Idle, GateType
  <2> QED BY <1>0, <2>1 DEF WatchInv
<1>14. ASSUME NEW a \in Agent, Die(a) PROVE WatchInv'
  <2>1. alive' \subseteq alive /\ UNCHANGED <<conns, registry, watchers, deaths, monitor>>
    BY <1>14 DEF Die
  <2> QED BY <2>1 DEF WatchInv
<1>15. ASSUME NEW l \in LeaseId,
              \/ ServerBind(l) \/ ServerBindFails(l) \/ ServerStop(l)
              \/ ProxyRequest(l) \/ DeathReap(l)
       PROVE  WatchInv'
  BY <1>b, <1>15 DEF ServerBind, ServerBindFails, ServerStop, ProxyRequest, DeathReap, gateVars
<1>16. ASSUME NEW c \in Conn, RequestInsert(c) \/ RequestIndex(c) PROVE WatchInv'
  BY <1>b, <1>16 DEF RequestInsert, RequestIndex, gateVars
<1>17. CASE GateSweep \/ GateTick \/ UNCHANGED allVars
  BY <1>b, <1>17 DEF GateSweep, GateTick, allVars, gateVars
<1> QED
  BY <1>1, <1>2, <1>3, <1>4, <1>5, <1>6, <1>7, <1>8, <1>9, <1>10, <1>11, <1>12, <1>13,
     <1>14, <1>15, <1>16, <1>17
  DEF GateNext, Progress, Serve, Monitor

\* At first nobody is registered.
LEMMA WatchInit == GateInit => WatchInv
BY DEF GateInit, WatchInv, Idle, NoMonitor

\* A registration is never orphaned: its connection is open and the agent's own,
\* and a live registered process has a watcher, whatever order registrations,
\* disconnections and deaths take (handle_register, handle_connection,
\* handle_death), if epoll takes every pidfd.
THEOREM WatchedTheorem ==
    ASSUME WatchMayFail = FALSE
    PROVE  GateSpec => []RegistrationWatched
<1>1. GateSpec => []WatchInv
  BY WatchInit, WatchNext, GateTypes, PTL DEF GateSpec
<1>2. WatchInv => RegistrationWatched
  BY DEF WatchInv, RegistrationWatched
<1> QED BY <1>1, <1>2, PTL


(***************************************************************************)
(* A live agent keeps its leases                                           *)
(*                                                                         *)
(* Only the reaper revokes, only what it took from the index of an agent   *)
(* that had died, and the index lists a lease under its own agent.  The    *)
(* daemon delegates nothing, so a cascade ends no lease of another agent.  *)
(***************************************************************************)

OwnInv ==
    /\ \A l \in LeaseId : leases[l].children = {}
    /\ \A a \in Agent : \A l \in index[a] : leases[l].agent = a
    /\ \A l \in reaper.ids : leases[l].agent \notin alive
    /\ LiveAgentKeepsLeases

\* What the daemon's steps do to the manager.
ManagerStep ==
    \/ \E l \in LeaseId, a \in Agent, g \in Grant, k \in Constraints : CreateDraft(l, a, g, k)
    \/ \E l \in LeaseId :
          \/ CreateInsert(l) \/ PushIndex(l) \/ ReportGranted(l) \/ Use(l) \/ ReapCollect(l)
    \/ \E a \in Agent \ alive : ReapStart(a)
    \/ ReapRevoke
    \/ ReapFinish
    \/ Sweep
    \/ Tick

\* No step of the daemon delegates, renews or revokes a single lease, and the
\* reaper is only ever started for an agent that has died.
LEMMA ManagerSteps ==
    GateType /\ WatchInv /\ [GateNext]_allVars =>
        \/ ManagerStep /\ UNCHANGED alive
        \/ UNCHANGED vars /\ alive' \subseteq alive
<1> SUFFICES ASSUME GateType, WatchInv, [GateNext]_allVars
             PROVE  \/ ManagerStep /\ UNCHANGED alive
                    \/ UNCHANGED vars /\ alive' \subseteq alive
  OBVIOUS
<1>1. ASSUME NEW c \in Conn, NEW l \in LeaseId, NEW g \in Grant, NEW k \in Constraints,
             RequestGranted(c, l, g, k)
      PROVE  ManagerStep /\ UNCHANGED alive
  <2>1. conns[c].agent \in Agent /\ CreateDraft(l, conns[c].agent, g, k) /\ UNCHANGED alive
    BY <1>1 DEF RequestGranted, At, GateType, ConnOK
  <2> QED BY <2>1 DEF ManagerStep
<1>2. ASSUME NEW c \in Conn, RequestInsert(c) \/ RequestIndex(c) \/ RequestReport(c)
      PROVE  ManagerStep /\ UNCHANGED alive
  <2>1. /\ conns[c].lease \in LeaseId /\ UNCHANGED alive
        /\ \/ CreateInsert(conns[c].lease) \/ PushIndex(conns[c].lease)
           \/ ReportGranted(conns[c].lease)
    BY <1>2 DEF RequestInsert, RequestIndex, RequestReport, At, GateType, ConnOK, gateVars
  <2> QED BY <2>1 DEF ManagerStep
<1>3. CASE DeathReapStart
  <2>1. monitor.agent \in Agent \ alive /\ ReapStart(monitor.agent) /\ UNCHANGED alive
    BY <1>3 DEF DeathReapStart, GateType, WatchInv
  <2> QED BY <2>1 DEF ManagerStep
<1>4. ASSUME NEW l \in LeaseId, DeathReap(l) PROVE ManagerStep /\ UNCHANGED alive
  BY <1>4 DEF DeathReap, ManagerStep, gateVars
<1>5. CASE DeathReaped
  BY <1>5 DEF DeathReaped, ManagerStep
<1>6. CASE GateSweep \/ GateTick
  BY <1>6 DEF GateSweep, GateTick, ManagerStep, gateVars
<1>7. ASSUME NEW l \in LeaseId, ProxyRequest(l) PROVE ManagerStep /\ UNCHANGED alive
  BY <1>7 DEF ProxyRequest, ManagerStep, gateVars
<1>8. ASSUME NEW c \in Conn,
             \/ RegisterInsert(c) \/ RequestDenied(c) \/ StartProxy(c)
             \/ StartProxyExhausted(c) \/ RegisterVerify(c) \/ RequestLookup(c)
             \/ Disconnect(c)
             \/ \E a \in Agent : Connect(c, a)
      PROVE  UNCHANGED vars /\ UNCHANGED alive
  BY <1>8 DEF RegisterInsert, RequestDenied, StartProxy, StartProxyExhausted,
              RegisterVerify, RequestLookup, Disconnect, Connect
<1>9. ASSUME NEW l \in LeaseId,
             \/ ServerBind(l) \/ ServerBindFails(l) \/ ServerStop(l) \/ ReleaseLease(l)
      PROVE  UNCHANGED vars /\ UNCHANGED alive
  BY <1>9 DEF ServerBind, ServerBindFails, ServerStop, ReleaseLease
<1>10. ASSUME NEW a \in Agent, Notify(a) \/ HandleDeath(a) \/ Die(a)
       PROVE  UNCHANGED vars /\ alive' \subseteq alive
  BY <1>10 DEF Notify, HandleDeath, Die
<1>11. CASE DeathDone \/ UNCHANGED allVars
  BY <1>11 DEF DeathDone, allVars, gateVars
<1> QED
  BY <1>1, <1>2, <1>3, <1>4, <1>5, <1>6, <1>7, <1>8, <1>9, <1>10, <1>11
  DEF GateNext, Progress, Serve, Monitor

\* The steps of the daemon revoke no lease of a live agent.
LEMMA OwnNext ==
    /\ ForestInv /\ HeldInv /\ GateType /\ WatchInv /\ OwnInv
    /\ [GateNext]_allVars
    => OwnInv'
<1> SUFFICES ASSUME ForestInv, HeldInv, GateType, WatchInv, OwnInv, [GateNext]_allVars
             PROVE  OwnInv'
  OBVIOUS
<1>0. /\ TypeOK
      /\ \A l \in LeaseId : leases[l] \in Lease
      /\ \A a \in Agent : index[a] \subseteq {l \in LeaseId : Stored(l)}
      /\ reaper.ids \subseteq {l \in LeaseId : Stored(l)}
      /\ \A l \in unindexed : l \in LeaseId /\ Stored(l)
  BY DEF ForestInv, HeldInv, TypeOK, Reaper
\* Nothing new is listed, taken by the reaper or revoked.
<1>a. ASSUME alive' \subseteq alive,
             \A l \in LeaseId : /\ Stored(l) => leases'[l].agent = leases[l].agent
                                /\ leases'[l].children = {}
                                /\ leases'[l].status = "revoked" => leases[l].status = "revoked",
             \A a \in Agent : index'[a] \subseteq index[a],
             reaper'.ids \subseteq reaper.ids
      PROVE  OwnInv'
  BY <1>0, <1>a DEF OwnInv, LiveAgentKeepsLeases, Stored
<1>b. ASSUME alive' \subseteq alive, UNCHANGED <<leases, index, reaper>> PROVE OwnInv'
  BY <1>a, <1>b DEF OwnInv
<1>1. ASSUME UNCHANGED alive, NEW l \in LeaseId, NEW a \in Agent, NEW g \in Grant,
             NEW k \in Constraints, CreateDraft(l, a, g, k)
      PROVE  OwnInv'
  <2>1. /\ leases'[l].children = {} /\ leases'[l].status = "draft"
        /\ \A x \in LeaseId \ {l} : leases'[x] = leases[x]
    BY <1>0, <1>1 DEF CreateDraft, NoLease, TypeOK
  <2>2. ~Stored(l) /\ UNCHANGED <<index, reaper>>
    BY <1>1 DEF CreateDraft, Stored
  <2> QED BY <1>1, <1>a, <2>1, <2>2 DEF OwnInv
<1>2. ASSUME UNCHANGED alive, NEW l \in LeaseId, CreateInsert(l) PROVE OwnInv'
  <2>1. \A x \in LeaseId : /\ leases'[x].agent = leases[x].agent
                           /\ leases'[x].children = leases[x].children
                           /\ leases'[x].status \in {"active", leases[x].status}
    BY <1>0, <1>2 DEF CreateInsert, TypeOK, Lease
  <2>2. UNCHANGED <<index, reaper>>
    BY <1>2 DEF CreateInsert
  <2> QED BY <1>2, <1>a, <2>1, <2>2 DEF OwnInv
<1>3. ASSUME UNCHANGED alive, NEW l \in LeaseId, PushIndex(l) PROVE OwnInv'
  <2>1. /\ UNCHANGED <<leases, reaper>>
        /\ \A a \in Agent : \A x \in index'[a] :
              x \in index[a] \/ (x = l /\ a = leases[l].agent)
    BY <1>0, <1>3 DEF PushIndex, TypeOK
  <2> QED BY <1>3, <2>1 DEF OwnInv, LiveAgentKeepsLeases
<1>3a. ASSUME UNCHANGED alive, NEW l \in LeaseId, ReportGranted(l) PROVE OwnInv'
  BY <1>b, <1>3a DEF ReportGranted
<1>4. ASSUME UNCHANGED alive, NEW l \in LeaseId, Use(l) PROVE OwnInv'
  <2>1. \A x \in LeaseId : /\ leases'[x].agent = leases[x].agent
                           /\ leases'[x].children = leases[x].children
                           /\ leases'[x].status = leases[x].status
    BY <1>0, <1>4 DEF Use, TypeOK, Lease
  <2>2. UNCHANGED <<index, reaper>>
    BY <1>4 DEF Use
  <2> QED BY <1>4, <1>a, <2>1, <2>2 DEF OwnInv
<1>5. ASSUME UNCHANGED alive, NEW l \in LeaseId, ReapCollect(l) PROVE OwnInv'
  <2>1. UNCHANGED <<leases, index>> /\ reaper'.ids = reaper.ids
    BY <1>0, <1>5 DEF ReapCollect, TypeOK, Reaper
  <2> QED BY <1>5, <1>a, <2>1 DEF OwnInv
<1>6. ASSUME UNCHANGED alive, NEW a \in Agent \ alive, ReapStart(a) PROVE OwnInv'
  <2>1. UNCHANGED <<leases, index>> /\ reaper'.ids = index[a]
    BY <1>6 DEF ReapStart, NoReaper
  <2> QED BY <1>6, <2>1 DEF OwnInv, LiveAgentKeepsLeases
<1>7. ASSUME UNCHANGED alive, ReapRevoke PROVE OwnInv'
  <2>1. PICK l \in LeaseId : l = reaper.at /\ l \in reaper.ids
    BY <1>0, <1>7 DEF ReapRevoke, HeldInv
  <2>2. Descendants(l) \subseteq {}
    BY DescendantsLeast DEF OwnInv
  <2>3. Terminate({l}, "revoked", "revoked")
    BY <1>7, <2>1, <2>2 DEF ReapRevoke, RevokeCascade
  <2>4. /\ \A x \in LeaseId : /\ leases'[x].agent = leases[x].agent
                              /\ leases'[x].children = leases[x].children
                              /\ x # l => leases'[x].status = leases[x].status
        /\ \A a \in Agent : index'[a] \subseteq index[a]
    BY <1>0, <2>3 DEF Terminate, IndexWithout, TypeOK, Lease
  <2>5. reaper'.ids = reaper.ids
    BY <1>0, <1>7 DEF ReapRevoke, TypeOK, Reaper
  <2>6. leases[l].agent \notin alive
    BY <2>1 DEF OwnInv
  <2> QED BY <1>0, <1>7, <2>4, <2>5, <2>6 DEF OwnInv, LiveAgentKeepsLeases
<1>8. ASSUME UNCHANGED alive, ReapFinish PROVE OwnInv'
  <2>1. /\ UNCHANGED leases /\ reaper'.ids = {}
        /\ \A a \in Agent : index'[a] \subseteq index[a]
    BY <1>0, <1>8 DEF ReapFinish, NoReaper, TypeOK
  <2> QED BY <1>8, <1>a, <2>1 DEF OwnInv
<1>9. ASSUME UNCHANGED alive, Sweep PROVE OwnInv'
  <2>1. CASE SweepStart
    BY <1>9, <1>b, <2>1 DEF SweepStart
  <2>2. CASE SweepExpired
    <3>1. /\ \A x \in LeaseId : /\ leases'[x].agent = leases[x].agent
                                /\ leases'[x].children = leases[x].children
                                /\ leases'[x].status \in {"expired", leases[x].status}
          /\ \A a \in Agent : index'[a] \subseteq index[a]
          /\ UNCHANGED reaper
      BY <1>0, <2>2 DEF SweepExpired, Terminate, IndexWithout, TypeOK, Lease
    <3> QED BY <1>9, <1>a, <3>1 DEF OwnInv
  <2> QED BY <1>9, <2>1, <2>2 DEF Sweep
<1>10. ASSUME UNCHANGED alive, Tick PROVE OwnInv'
  BY <1>10, <1>b DEF Tick
<1>11. ASSUME UNCHANGED vars, alive' \subseteq alive PROVE OwnInv'
  BY <1>11, <1>b DEF vars
<1> QED
  BY <1>1, <1>2, <1>3, <1>3a, <1>4, <1>5, <1>6, <1>7, <1>8, <1>9, <1>10, <1>11, ManagerSteps
  DEF ManagerStep

\* At first there is no lease.
LEMMA OwnInit == GateInit => OwnInv
BY DEF GateInit, Init, NoLease, NoReaper, OwnInv, LiveAgentKeepsLeases

\* While its process lives, no lease of an agent is revoked, whichever
\* connections it opens, registers on and closes and whichever other agents die
\* (handle_death, revoke_agent_leases), if epoll takes every pidfd.
THEOREM KeptTheorem ==
    ASSUME WatchMayFail = FALSE
    PROVE  GateSpec => []LiveAgentKeepsLeases
<1>1. GateSpec => []WatchInv
  BY WatchInit, WatchNext, GateTypes, PTL DEF GateSpec
<1>2. Spec => [](ForestInv /\ HeldInv)
  BY ForestInit, ForestNext, HeldInit, HeldNext, PTL DEF Spec
<1>3. GateSpec => []OwnInv
  BY <1>1, <1>2, GateDrivesManager, GateTypes, OwnInit, OwnNext, PTL DEF GateSpec
<1>4. OwnInv => LiveAgentKeepsLeases
  BY DEF OwnInv
<1> QED BY <1>3, <1>4, PTL

(***************************************************************************)
(* A port passes on only after its lease was revoked                       *)
(*                                                                         *)
(* A port is recorded while the request for the lease is answered, once    *)
(* for each lease, and released for what revoke_agent_leases returned.  A  *)
(* lease with a server and no recorded port is therefore a revoked one,    *)
(* which is what an old server can be that still holds a port when it is   *)
(* recorded again.                                                         *)
(***************************************************************************)

ServerState ==
    [state : {"none", "spawned", "serving", "failed", "stopped"}, port : Option(Port)]

\* The connection task is making a lease and has not started its proxy.
Making(c) == conns[c].step \in {"creating", "starting"}

PoolType ==
    /\ listeners \in [LeaseId -> Option(Port)]
    /\ servers \in [LeaseId -> ServerState]

PoolInv ==
    /\ \A l \in LeaseId : servers[l].state = "none" => listeners[l] = None
    /\ \A l \in LeaseId : listeners[l] # None => servers[l].port = listeners[l]
    /\ \A l \in LeaseId : servers[l].state # "none" => leases[l].status # "unborn"
    /\ \A l \in LeaseId : servers[l].state # "none" /\ listeners[l] = None =>
          leases[l].status = "revoked"
    /\ \A l, m \in LeaseId : l # m /\ listeners[l] # None => listeners[l] # listeners[m]

MakingInv ==
    /\ \A c \in Conn : Making(c) =>
          leases[conns[c].lease].status # "unborn" /\ servers[conns[c].lease].state = "none"
    /\ \A c, d \in Conn : Making(c) /\ Making(d) /\ conns[c].lease = conns[d].lease => c = d

ReleaseInv == \A l \in monitor.ids : leases[l].status = "revoked"

PortsInv == PoolType /\ PoolInv /\ MakingInv /\ ReleaseInv

\* The first of some ports is one of them.
LEMMA FirstPort ==
    ASSUME NEW S \in SUBSET Nat, S # {}
    PROVE  Min(S) \in S
<1>1. PICK x \in S : \A y \in S : ~(<<y, x>> \in OpToRel(<, Nat))
  BY NatLessThanWellFounded, WFMin, Zenon
<1>2. OpToRel(<, Nat) = {ss \in Nat \X Nat : ss[1] < ss[2]}
  BY Zenon DEF OpToRel
<1>3. \A y \in S : ~(<<y, x>> \in {ss \in Nat \X Nat : ss[1] < ss[2]})
  BY <1>1, <1>2, Zenon
<1>4. ASSUME NEW y \in S PROVE x <= y
  <2>1. <<y, x>> \in Nat \X Nat /\ <<y, x>>[1] = y /\ <<y, x>>[2] = x
    OBVIOUS
  <2>2. ~(y < x)
    BY <1>3, <2>1, Zenon
  <2> QED BY <2>2
<1> QED BY <1>4 DEF Min

\* find_free_port returns a port of the range that no lease has recorded.
LEMMA FreePort ==
    ASSUME FreePorts # {}
    PROVE  /\ Min(FreePorts) \in Port /\ Min(FreePorts) # None
           /\ \A l \in LeaseId : listeners[l] # Min(FreePorts)
<1>1. FreePorts \in SUBSET Nat
  BY PortAssumption DEF FreePorts
<1>2. Min(FreePorts) \in FreePorts
  BY <1>1, FirstPort
<1>3. Min(FreePorts) \in Port /\ \A l \in LeaseId : listeners[l] # Min(FreePorts)
  BY <1>2 DEF FreePorts
<1>4. \A n \in Nat : n # None
  BY NoneAssumption
<1>5. Min(FreePorts) # None
  BY <1>1, <1>2, <1>4
<1> QED BY <1>3, <1>5

\* The daemon delegates nothing, so no lease that was begun is given up.
BornKept ==
    \A l \in LeaseId : leases[l].status # "unborn" => leases'[l].status # "unborn"

LEMMA GateBorn == TypeOK /\ GateType /\ [GateNext]_allVars => BornKept
<1> SUFFICES ASSUME TypeOK, GateType, [GateNext]_allVars PROVE BornKept
  OBVIOUS
<1>a. ASSUME UNCHANGED leases PROVE BornKept
  BY <1>a DEF BornKept
<1>1. ASSUME NEW c \in Conn, NEW l \in LeaseId, NEW g \in Grant, NEW k \in Constraints,
             RequestGranted(c, l, g, k)
      PROVE  BornKept
  <2>1. CreateDraft(l, conns[c].agent, g, k)
    BY <1>1 DEF RequestGranted
  <2>2. /\ leases'[l].status = "draft"
        /\ \A x \in LeaseId \ {l} : leases'[x] = leases[x]
    BY <2>1 DEF CreateDraft, NoLease, TypeOK
  <2> QED BY <2>2 DEF BornKept
<1>2. ASSUME NEW c \in Conn, RequestInsert(c) PROVE BornKept
  <2>1. conns[c].lease \in LeaseId /\ CreateInsert(conns[c].lease)
    BY <1>2 DEF RequestInsert, At, GateType, ConnOK
  <2>2. \A x \in LeaseId : leases'[x].status \in {"active", leases[x].status}
    BY <2>1 DEF CreateInsert, TypeOK, Lease
  <2> QED BY <2>2 DEF BornKept
<1>3. ASSUME NEW c \in Conn, RequestIndex(c) \/ RequestReport(c) PROVE BornKept
  BY <1>a, <1>3 DEF RequestIndex, PushIndex, RequestReport, ReportGranted
<1>4. CASE DeathReapStart \/ DeathReaped
  BY <1>a, <1>4 DEF DeathReapStart, ReapStart, DeathReaped, ReapFinish
<1>5. ASSUME NEW l \in LeaseId, DeathReap(l) PROVE BornKept
  <2>1. CASE ReapCollect(l)
    BY <1>a, <2>1 DEF ReapCollect
  <2>2. CASE l = reaper.at /\ ReapRevoke
    <3>1. RevokeCascade(l) /\ {l} \cup Descendants(l) \in SUBSET LeaseId
      BY <2>2 DEF ReapRevoke, Descendants
    <3> QED BY <3>1, TerminateStatus DEF RevokeCascade, BornKept
  <2> QED BY <1>5, <2>1, <2>2 DEF DeathReap
<1>6. CASE GateSweep
  <2>1. CASE SweepStart
    BY <1>a, <2>1 DEF SweepStart
  <2>2. CASE SweepExpired
    <3>1. Overdue(sweepAt) \in SUBSET LeaseId /\ Terminate(Overdue(sweepAt), "expired", "expired")
      BY <2>2 DEF SweepExpired, Overdue
    <3> QED BY <3>1, TerminateStatus DEF BornKept
  <2> QED BY <1>6, <2>1, <2>2 DEF GateSweep, Sweep
<1>7. CASE GateTick
  BY <1>a, <1>7 DEF GateTick, Tick
<1>8. ASSUME NEW l \in LeaseId, ProxyRequest(l) PROVE BornKept
  <2>1. \A x \in LeaseId : leases'[x].status = leases[x].status
    BY <1>8 DEF ProxyRequest, Use, TypeOK, Lease
  <2> QED BY <2>1 DEF BornKept
<1>9. ASSUME UNCHANGED vars PROVE BornKept
  BY <1>a, <1>9 DEF vars
<1>10. ASSUME NEW c \in Conn,
              \/ RegisterInsert(c) \/ RequestDenied(c) \/ StartProxy(c)
              \/ StartProxyExhausted(c) \/ RegisterVerify(c) \/ RequestLookup(c)
              \/ Disconnect(c)
              \/ \E a \in Agent : Connect(c, a)
       PROVE  BornKept
  BY <1>9, <1>10 DEF RegisterInsert, RequestDenied, StartProxy, StartProxyExhausted,
              RegisterVerify, RequestLookup, Disconnect, Connect
<1>11. ASSUME NEW l \in LeaseId,
              \/ ServerBind(l) \/ ServerBindFails(l) \/ ServerStop(l) \/ ReleaseLease(l)
       PROVE  BornKept
  BY <1>9, <1>11 DEF ServerBind, ServerBindFails, ServerStop, ReleaseLease
<1>12. ASSUME NEW a \in Agent, Notify(a) \/ HandleDeath(a) \/ Die(a) PROVE BornKept
  BY <1>9, <1>12 DEF Notify, HandleDeath, Die
<1>13. CASE DeathDone \/ UNCHANGED allVars
  BY <1>9, <1>13 DEF DeathDone, allVars
<1> QED
  BY <1>1, <1>2, <1>3, <1>4, <1>5, <1>6, <1>7, <1>8, <1>10, <1>11, <1>12, <1>13
  DEF GateNext, Progress, Serve, Monitor

\* Every step of the daemon keeps ports, servers and requests in step.
LEMMA PortsNext ==
    /\ TypeOK /\ RootsReaped /\ GateType /\ PortsInv
    /\ [GateNext]_allVars
    => PortsInv'
<1> SUFFICES ASSUME TypeOK, RootsReaped, GateType, PortsInv, [GateNext]_allVars PROVE PortsInv'
  OBVIOUS
<1>0. /\ \A l \in LeaseId : leases[l].status = "revoked" => leases'[l].status = "revoked"
      /\ \A l \in LeaseId : leases[l].status # "unborn" => leases'[l].status # "unborn"
  BY GateDrives, ForwardNext, GateBorn DEF Forward, BornKept
<1>1. /\ \A c \in Conn : conns[c] \in ConnState
      /\ \A c \in Conn : Making(c) => conns[c].lease \in LeaseId
      /\ monitor.ids \subseteq LeaseId
      /\ \A l \in LeaseId : servers[l] \in ServerState
  BY DEF GateType, ConnOK, MonitorState, Making, PortsInv, PoolType
\* Steps that start or end no server, record or release no port.
<1>a. ASSUME UNCHANGED <<listeners, servers>>, monitor'.ids \subseteq monitor.ids,
             \A c \in Conn : Making(c)' => Making(c) /\ conns'[c].lease = conns[c].lease
      PROVE  PortsInv'
  <2>1. PoolType' /\ PoolInv'
    BY <1>0, <1>a DEF PortsInv, PoolType, PoolInv
  <2>2. MakingInv'
    BY <1>0, <1>1, <1>a DEF PortsInv, MakingInv
  <2>3. ReleaseInv'
    BY <1>0, <1>1, <1>a DEF PortsInv, ReleaseInv
  <2> QED BY <2>1, <2>2, <2>3 DEF PortsInv
<1>b. ASSUME UNCHANGED <<listeners, servers, monitor, conns>> PROVE PortsInv'
  BY <1>a, <1>b DEF Making
\* A connection that is not made to make a lease.
<1>c. ASSUME UNCHANGED <<listeners, servers, monitor>>, NEW c \in Conn,
             conns'[c].step \notin {"creating", "starting"},
             \A x \in Conn \ {c} : conns'[x] = conns[x]
      PROVE  PortsInv'
  BY <1>a, <1>c DEF Making
<1>2. ASSUME NEW c \in Conn,
             RegisterInsert(c) \/ RequestDenied(c) \/ RequestLookup(c) \/ RegisterVerify(c)
      PROVE  PortsInv'
  <2>1. /\ UNCHANGED <<listeners, servers, monitor>>
        /\ Goto(c, "idle") \/ Goto(c, "approving") \/ Goto(c, "verified")
    BY <1>2 DEF RegisterInsert, RequestDenied, RequestLookup, RegisterVerify
  <2>2. /\ conns'[c].step \notin {"creating", "starting"}
        /\ \A x \in Conn \ {c} : conns'[x] = conns[x]
    BY <1>1, <2>1 DEF Goto, GateType, ConnState
  <2> QED BY <1>c, <2>1, <2>2
<1>3. ASSUME NEW c \in Conn, Disconnect(c) \/ \E a \in Agent : Connect(c, a) PROVE PortsInv'
  <2>1. CASE Disconnect(c)
    <3>1. /\ UNCHANGED <<listeners, servers, monitor>>
          /\ conns'[c].step = "closed" /\ \A x \in Conn \ {c} : conns'[x] = conns[x]
      BY <2>1 DEF Disconnect, Idle, GateType
    <3> QED BY <1>c, <3>1
  <2>2. ASSUME NEW a \in Agent, Connect(c, a) PROVE PortsInv'
    <3>1. /\ UNCHANGED <<listeners, servers, monitor>>
          /\ conns'[c].step = "idle" /\ \A x \in Conn \ {c} : conns'[x] = conns[x]
      BY <2>2 DEF Connect, Idle, GateType
    <3> QED BY <1>c, <3>1
  <2> QED BY <1>3, <2>1, <2>2
<1>4. ASSUME NEW c \in Conn, NEW l \in LeaseId, NEW g \in Grant, NEW k \in Constraints,
             RequestGranted(c, l, g, k)
      PROVE  PortsInv'
  <2>1. /\ UNCHANGED <<listeners, servers, monitor>>
        /\ conns[c].step = "approving" /\ CreateDraft(l, conns[c].agent, g, k)
    BY <1>4 DEF RequestGranted, At
  <2>2. /\ conns'[c].lease = l
        /\ \A x \in Conn \ {c} : conns'[x] = conns[x]
    BY <1>1, <1>4 DEF RequestGranted, GateType, ConnState
  <2>3. leases[l].status = "unborn" /\ leases'[l].status = "draft"
    BY <2>1 DEF CreateDraft, NoLease, TypeOK
  <2>4. servers[l].state = "none"
    BY <2>3 DEF PortsInv, PoolInv
  <2>5. \A d \in Conn : Making(d) => conns[d].lease # l
    BY <2>3 DEF PortsInv, MakingInv
  <2>6. PoolType' /\ PoolInv' /\ ReleaseInv'
    BY <1>0, <1>1, <2>1 DEF PortsInv, PoolType, PoolInv, ReleaseInv
  <2>7. \A d \in Conn \ {c} : Making(d)' => Making(d) /\ conns'[d].lease = conns[d].lease
    BY <2>2 DEF Making
  <2>8. MakingInv'
    BY <1>0, <1>1, <2>1, <2>2, <2>3, <2>4, <2>5, <2>7 DEF PortsInv, MakingInv
  <2> QED BY <2>6, <2>8 DEF PortsInv
<1>5. ASSUME NEW c \in Conn, RequestReport(c) PROVE PortsInv'
  <2>1. /\ UNCHANGED <<listeners, servers, monitor>>
        /\ conns[c].step = "creating" /\ Goto(c, "starting")
    BY <1>5 DEF RequestReport, At
  <2>2. /\ conns'[c].lease = conns[c].lease
        /\ \A x \in Conn \ {c} : conns'[x] = conns[x]
    BY <1>1, <2>1 DEF Goto, GateType, ConnState
  <2> QED BY <1>a, <2>1, <2>2 DEF Making
<1>6. ASSUME NEW c \in Conn, StartProxyExhausted(c) PROVE PortsInv'
  <2>1. UNCHANGED <<listeners, servers, monitor>> /\ Answered(c)
    BY <1>6 DEF StartProxyExhausted
  <2>2. /\ conns'[c].step = "idle"
        /\ \A x \in Conn \ {c} : conns'[x] = conns[x]
    BY <1>1, <2>1 DEF Answered, GateType, ConnState
  <2> QED BY <1>c, <2>1, <2>2
<1>7. ASSUME NEW c \in Conn, StartProxy(c) PROVE PortsInv'
  <2>1. PICK l \in LeaseId : l = conns[c].lease /\ Making(c)
    BY <1>1, <1>7 DEF StartProxy, At, Making
  <2>2. PICK p : p = Min(FreePorts)
    OBVIOUS
  <2>3. p \in Port /\ p # None /\ \A x \in LeaseId : listeners[x] # p
    BY <1>7, <2>2, FreePort DEF StartProxy
  <2>4. /\ listeners' = [listeners EXCEPT ![l] = p]
        /\ servers' = [servers EXCEPT ![l] = [state |-> "spawned", port |-> p]]
        /\ UNCHANGED <<leases, monitor>> /\ Answered(c)
    BY <1>7, <2>1, <2>2 DEF StartProxy, vars
  <2>5. /\ conns'[c].step = "idle"
        /\ \A x \in Conn \ {c} : conns'[x] = conns[x]
    BY <1>1, <2>4 DEF Answered, GateType, ConnState
  <2>6. /\ servers'[l].state = "spawned" /\ servers'[l].port = p /\ listeners'[l] = p
        /\ \A x \in LeaseId \ {l} : servers'[x] = servers[x] /\ listeners'[x] = listeners[x]
    BY <2>4 DEF PortsInv, PoolType
  <2>7. PoolType'
    BY <2>3, <2>4 DEF PortsInv, PoolType, ServerState, Option
  <2>8. leases[l].status # "unborn"
    BY <2>1 DEF PortsInv, MakingInv
  <2>9. PoolInv'
    BY <2>3, <2>4, <2>6, <2>8 DEF PortsInv, PoolInv
  <2>10. \A d \in Conn : Making(d)' => /\ Making(d) /\ d # c
                                       /\ conns'[d].lease = conns[d].lease
    BY <2>5 DEF Making
  <2>11. \A d \in Conn : Making(d)' => conns[d].lease \in LeaseId \ {l}
    BY <1>1, <2>1, <2>10 DEF PortsInv, MakingInv
  <2>12. MakingInv'
    BY <2>4, <2>6, <2>10, <2>11 DEF PortsInv, MakingInv
  <2>13. ReleaseInv'
    BY <2>4 DEF PortsInv, ReleaseInv
  <2> QED BY <2>7, <2>9, <2>12, <2>13 DEF PortsInv
<1>8. ASSUME NEW l \in LeaseId, ServerBind(l) \/ ServerBindFails(l) \/ ServerStop(l)
      PROVE  PortsInv'
  <2>1. /\ UNCHANGED <<leases, listeners, conns, monitor>> /\ servers[l].state # "none"
    BY <1>8 DEF ServerBind, ServerBindFails, ServerStop, vars
  <2>2. PICK s \in {"serving", "failed", "stopped"} : servers' = [servers EXCEPT ![l].state = s]
    BY <1>8 DEF ServerBind, ServerBindFails, ServerStop
  <2>3. /\ servers' \in [LeaseId -> ServerState]
        /\ servers'[l].state = s /\ servers'[l].port = servers[l].port
        /\ \A x \in LeaseId \ {l} : servers'[x] = servers[x]
    BY <2>2 DEF PortsInv, PoolType, ServerState
  <2>4. PoolType' /\ PoolInv'
    BY <2>1, <2>3 DEF PortsInv, PoolType, PoolInv
  <2>5. MakingInv'
    BY <1>1, <2>1, <2>3 DEF PortsInv, MakingInv, Making
  <2>6. ReleaseInv'
    BY <2>1 DEF PortsInv, ReleaseInv
  <2> QED BY <2>4, <2>5, <2>6 DEF PortsInv
<1>9. ASSUME NEW a \in Agent, HandleDeath(a) PROVE PortsInv'
  <2>1. UNCHANGED <<listeners, servers, conns>> /\ monitor'.ids \subseteq monitor.ids
    BY <1>9 DEF HandleDeath, NoMonitor
  <2> QED BY <1>a, <2>1 DEF Making
<1>10. CASE DeathReapStart
  <2>1. UNCHANGED <<listeners, servers, conns>> /\ monitor'.ids = monitor.ids
    BY <1>10 DEF DeathReapStart, GateType, MonitorState
  <2> QED BY <1>a, <2>1 DEF Making
<1>11. CASE DeathReaped
  <2>1. /\ UNCHANGED <<leases, listeners, servers, conns>> /\ reaper.at = None
        /\ monitor'.ids = reaper.revoked
    BY <1>11 DEF DeathReaped, ReapFinish, GateType, MonitorState
  <2>2. \A l \in reaper.revoked : leases[l].status = "revoked"
    BY <2>1 DEF RootsReaped
  <2> QED BY <2>1, <2>2 DEF PortsInv, PoolType, PoolInv, MakingInv, ReleaseInv, Making
<1>12. ASSUME NEW l \in LeaseId, ReleaseLease(l) PROVE PortsInv'
  <2>1. /\ UNCHANGED <<leases, servers, conns>> /\ l \in monitor.ids
        /\ monitor'.ids \subseteq monitor.ids
        /\ listeners' = [listeners EXCEPT ![l] = None]
    BY <1>12 DEF ReleaseLease, GateType, MonitorState, vars
  <2>2. leases[l].status = "revoked"
    BY <2>1 DEF PortsInv, ReleaseInv
  <2>3. listeners'[l] = None /\ \A x \in LeaseId \ {l} : listeners'[x] = listeners[x]
    BY <2>1 DEF PortsInv, PoolType
  <2>4. PoolType'
    BY <2>1 DEF PortsInv, PoolType, Option
  <2>5. PoolInv'
    BY <2>1, <2>2, <2>3 DEF PortsInv, PoolInv
  <2>6. MakingInv' /\ ReleaseInv'
    BY <2>1 DEF PortsInv, MakingInv, ReleaseInv, Making
  <2> QED BY <2>4, <2>5, <2>6 DEF PortsInv
<1>13. CASE DeathDone
  <2>1. UNCHANGED <<listeners, servers, conns>> /\ monitor'.ids = {}
    BY <1>13 DEF DeathDone, NoMonitor
  <2> QED BY <1>a, <2>1 DEF Making
<1>14. ASSUME NEW l \in LeaseId, ProxyRequest(l) \/ DeathReap(l) PROVE PortsInv'
  BY <1>b, <1>14 DEF ProxyRequest, DeathReap, gateVars
<1>15. ASSUME NEW c \in Conn, RequestInsert(c) \/ RequestIndex(c) PROVE PortsInv'
  BY <1>b, <1>15 DEF RequestInsert, RequestIndex, gateVars
<1>16. ASSUME NEW a \in Agent, Notify(a) \/ Die(a) PROVE PortsInv'
  BY <1>b, <1>16 DEF Notify, Die
<1>17. CASE GateSweep \/ GateTick \/ UNCHANGED allVars
  BY <1>b, <1>17 DEF GateSweep, GateTick, allVars, gateVars
<1> QED
  BY <1>2, <1>3, <1>4, <1>5, <1>6, <1>7, <1>8, <1>9, <1>10, <1>11, <1>12, <1>13,
     <1>14, <1>15, <1>16, <1>17
  DEF GateNext, Progress, Serve, Monitor

\* At first no port is recorded and no server runs.
LEMMA PortsInit == GateInit => PortsInv
<1> SUFFICES ASSUME GateInit PROVE PortsInv
  OBVIOUS
<1>1. NoServer \in ServerState /\ NoServer.state = "none"
  BY DEF NoServer, ServerState, Option
<1>2. PoolType /\ PoolInv
  BY <1>1 DEF GateInit, PoolType, PoolInv, Option
<1>3. MakingInv /\ ReleaseInv
  BY DEF GateInit, Idle, NoMonitor, MakingInv, Making, ReleaseInv
<1> QED BY <1>2, <1>3 DEF PortsInv

\* The bookkeeping of the pool holds throughout.
LEMMA PortsHold == GateSpec => []PortsInv
<1>1. GateSpec => []RootsReaped
  BY GateDrivesManager, ReapedTheorem
<1> QED BY <1>1, GateTypes, PortsInit, PortsNext, PTL DEF GateSpec

\* No live lease is served on a port that was told to another one: find_free_port
\* looks only at the recorded ports and an old server may still hold the one it
\* returns, but then it is the server of a revoked lease (find_free_port,
\* start_proxy, release_lease, revoke_agent_leases).
THEOREM PortTheorem == GateSpec => []PortsPassOn
<1>1. ASSUME PortsInv PROVE PortsPassOn
  <2> SUFFICES ASSUME NEW l \in LeaseId, NEW m \in LeaseId, l # m, listeners[l] # None
               PROVE  /\ listeners[m] # listeners[l]
                      /\ servers[m].state = "serving" /\ servers[m].port = listeners[l] =>
                            listeners[m] = None /\ leases[m].status = "revoked"
    BY DEF PortsPassOn
  <2>1. listeners[m] # listeners[l]
    BY <1>1 DEF PortsInv, PoolInv
  <2>2. servers[m].port = listeners[l] => listeners[m] = None
    BY <1>1, <2>1 DEF PortsInv, PoolInv
  <2>3. servers[m].state = "serving" /\ listeners[m] = None => leases[m].status = "revoked"
    BY <1>1 DEF PortsInv, PoolInv
  <2> QED BY <2>1, <2>2, <2>3
<1> QED BY <1>1, PortsHold, PTL

\* A recorded port is only ever released, and only for a revoked lease.
PortsKept ==
    \A l \in LeaseId : listeners[l] # None /\ listeners'[l] # listeners[l] =>
        listeners'[l] = None /\ leases[l].status = "revoked"

\* A lease that has not been revoked keeps the port its agent was told, whatever
\* other agents request, whoever dies and however often the port range runs out
\* (start_proxy, release_lease, handle_death).
THEOREM KeptPortTheorem == GateSpec => [][PortsKept]_allVars
<1>1. ASSUME PortsInv, GateType, [GateNext]_allVars PROVE PortsKept
  <2>1. CASE UNCHANGED listeners
    BY <2>1 DEF PortsKept
  <2>2. ASSUME NEW c \in Conn, StartProxy(c) PROVE PortsKept
    <3>1. PICK l \in LeaseId : l = conns[c].lease /\ Making(c)
      BY <2>2, <1>1 DEF StartProxy, At, Making, GateType, ConnOK
    <3>2. listeners[l] = None
      BY <1>1, <3>1 DEF PortsInv, MakingInv, PoolInv
    <3>3. \A x \in LeaseId \ {l} : listeners'[x] = listeners[x]
      BY <1>1, <2>2, <3>1 DEF StartProxy, PortsInv, PoolType
    <3> QED BY <3>2, <3>3 DEF PortsKept
  <2>3. ASSUME NEW l \in LeaseId, ReleaseLease(l) PROVE PortsKept
    <3>1. leases[l].status = "revoked"
      BY <1>1, <2>3 DEF ReleaseLease, PortsInv, ReleaseInv
    <3>2. listeners'[l] = None /\ \A x \in LeaseId \ {l} : listeners'[x] = listeners[x]
      BY <1>1, <2>3 DEF ReleaseLease, PortsInv, PoolType
    <3> QED BY <3>1, <3>2 DEF PortsKept
  <2>4. \/ UNCHANGED listeners
        \/ \E c \in Conn : StartProxy(c)
        \/ \E l \in LeaseId : ReleaseLease(l)
    BY <1>1
    DEF GateNext, Progress, Serve, Monitor, RegisterInsert, RequestDenied, RequestGranted,
        RequestInsert, RequestIndex, RequestReport, StartProxyExhausted, Notify, HandleDeath,
        DeathReapStart, DeathReap, DeathReaped, DeathDone, ServerBind, ServerBindFails, ServerStop, GateSweep,
        GateTick, Connect, RegisterVerify, RequestLookup, Disconnect, Die, ProxyRequest,
        allVars, gateVars
  <2> QED BY <2>1, <2>2, <2>3, <2>4
<1> QED BY <1>1, PortsHold, GateTypes, PTL DEF GateSpec

(***************************************************************************)
(* A live process stays registered                                         *)
(***************************************************************************)

\* The registration of a live process ends only with the connection it was made
\* on, and moves only to a connection on which the same agent was verified.
RegistrationKept ==
    \A a \in alive : registry[a] # None /\ registry'[a] # registry[a] =>
        IF registry'[a] = None THEN conns'[registry[a]].step = "closed"
        ELSE conns[registry'[a]].agent = a /\ conns[registry'[a]].step = "verified"

\* No other agent's death, disconnection or registration, and no late
\* notification, deregisters a process that lives (handle_death,
\* handle_connection, handle_register), if epoll takes every pidfd.
THEOREM RegistrationTheorem ==
    ASSUME WatchMayFail = FALSE
    PROVE  GateSpec => [][RegistrationKept]_allVars
<1>1. ASSUME GateType, WatchInv, [GateNext]_allVars PROVE RegistrationKept
  <2>0. alive \subseteq Agent
    BY <1>1 DEF GateType
  <2>1. CASE UNCHANGED registry
    BY <2>1 DEF RegistrationKept
  <2>2. ASSUME NEW c \in Conn, RegisterInsert(c) PROVE RegistrationKept
    <3>1. /\ conns[c].step = "verified"
          /\ \A a \in Agent : registry'[a] = registry[a] \/ (a = conns[c].agent /\ registry'[a] = c)
      BY <1>1, <2>2 DEF RegisterInsert, At, GateType
    <3> QED BY <2>0, <3>1, ConnAssumption DEF RegistrationKept
  <2>3. ASSUME NEW c \in Conn, Disconnect(c) PROVE RegistrationKept
    <3>1. /\ conns'[c].step = "closed"
          /\ \A a \in Agent : registry'[a] = IF registry[a] = c THEN None ELSE registry[a]
      BY <1>1, <2>3 DEF Disconnect, Idle, GateType
    <3> QED BY <2>0, <3>1 DEF RegistrationKept
  <2>4. ASSUME NEW a \in Agent, HandleDeath(a) PROVE RegistrationKept
    <3>1. deaths[a] > 0 /\ \A b \in Agent \ {a} : registry'[b] = registry[b]
      BY <1>1, <2>4 DEF HandleDeath, GateType
    <3>2. a \notin alive
      BY <1>1, <3>1 DEF WatchInv
    <3> QED BY <2>0, <3>1, <3>2 DEF RegistrationKept
  <2>5. \/ UNCHANGED registry
        \/ \E c \in Conn : RegisterInsert(c) \/ Disconnect(c)
        \/ \E a \in Agent : HandleDeath(a)
    BY <1>1
    DEF GateNext, Progress, Serve, Monitor, RequestDenied, RequestGranted, RequestInsert,
        RequestIndex, RequestReport, StartProxy, StartProxyExhausted, Notify, DeathReapStart,
        DeathReap, DeathReaped, ReleaseLease, DeathDone, ServerBind, ServerBindFails, ServerStop,
        GateSweep, GateTick, Connect, RegisterVerify, RequestLookup, Die, ProxyRequest,
        allVars, gateVars
  <2> QED BY <2>1, <2>2, <2>3, <2>4, <2>5
<1>2. GateSpec => []WatchInv
  BY WatchInit, WatchNext, GateTypes, PTL DEF GateSpec
<1> QED BY <1>1, <1>2, GateTypes, PTL DEF GateSpec

(***************************************************************************)
(* What the manager promises, the daemon keeps                             *)
(***************************************************************************)

\* The daemon keeps the contract of the lease manager: however connections,
\* watchers, death monitor and proxy servers interleave, a lease is used only in
\* force, never comes back and is withdrawn with all that was delegated from it
\* (router.rs, main.rs, cdp-proxy manager.rs and server.rs).
THEOREM GateContract == GateSpec => ImplementsContract
BY GateDrivesManager, ContractTheorem
=============================================================================
