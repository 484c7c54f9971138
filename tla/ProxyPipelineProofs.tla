------------------------- MODULE ProxyPipelineProofs -------------------------
(***************************************************************************)
(* Proofs about ProxyPipeline for every set of connections, requests,      *)
(* hosts and addresses, every lease and every number of redirects.         *)
(***************************************************************************)
EXTENDS ProxyPipeline, TLAPS

Step == {"idle", "auth", "use", "scope", "resolve", "credential", "send", "wait"}

Connection ==
    [step : Step, req : Request \cup {None}, host : Host \cup {None}, ips : SUBSET Ip,
     hops : 0..MaxHops, sends : Nat]

LeaseState == [status : {"active", "expired", "revoked"}, over : BOOLEAN, used : Nat]

\* What Init fixed of the lease.
TermsOK ==
    /\ terms.pins \in [terms.scope.hosts -> (SUBSET Ip) \ {{}}]
    /\ terms.max \in Nat \cup {None}
    /\ \A c \in {terms.want, terms.may} : c # None => c.maxSize \in Nat \cup {None}
    /\ terms.want # None /\ terms.may # None =>
          MergeBodyConstraints(terms.want, terms.may) # None
    /\ terms.body = MergeBodyConstraints(terms.want, terms.may)

\* A request is past authentication only with token, binding and the agent's
\* process at the other end.
Authentic(c) ==
    /\ c.step # "idle" => c.req \in Request
    /\ c.step \in {"use", "scope", "resolve", "credential", "send", "wait"} =>
          c.req.token /\ c.req.binding /\ Agent \in c.req.holders

\* Past the scope check its body keeps the merged constraints, whatever hop it
\* is on: redirects send the same body.
BodyChecked(c) ==
    c.step \in {"resolve", "credential", "send", "wait"} => ValidateBody(c.req.body, terms.body)

\* Past the pins its host is named and the addresses are pinned for that host.
PinsChecked(c) ==
    c.step \in {"credential", "send", "wait"} =>
        c.host \in terms.scope.hosts /\ c.ips \subseteq terms.pins[c.host]

\* One request to the upstream per hop.
SendPerHop(c) ==
    /\ c.step \in {"idle", "auth", "use", "scope", "credential"} => c.hops = 0 /\ c.sends = 0
    /\ c.step \in {"resolve", "send"} => c.sends = c.hops
    /\ c.step = "wait" => c.sends = c.hops + 1

ConnectionOK(c) ==
    c \in Connection /\ Authentic(c) /\ BodyChecked(c) /\ PinsChecked(c) /\ SendPerHop(c)

PipelineInv ==
    /\ TermsOK
    /\ lease \in LeaseState
    /\ terms.max # None => lease.used <= terms.max
    /\ task \in [Task -> Connection]
    /\ \A t \in Task : ConnectionOK(task[t])

\* A connection that waits for a request is in order.
LEMMA FreeOK == ConnectionOK(Free)
<1>1. Free \in Connection
  BY PipelineAssumption DEF Free, Connection, Step
<1> QED BY <1>1 DEF ConnectionOK, Free, Authentic, BodyChecked, PinsChecked, SendPerHop

\* The steps of one connection only have to keep that connection in order.
LEMMA OneConnection ==
    ASSUME PipelineInv, NEW t \in Task, NEW c, ConnectionOK(c),
           task' = [task EXCEPT ![t] = c], UNCHANGED <<terms, lease>>
    PROVE  PipelineInv'
<1>1. \A x : ConnectionOK(x)' = ConnectionOK(x)
  BY DEF ConnectionOK, Authentic, BodyChecked, PinsChecked, SendPerHop
<1>2. c \in Connection
  BY DEF ConnectionOK
<1>3. task' \in [Task -> Connection] /\ \A x \in Task : ConnectionOK(task'[x])
  BY <1>2 DEF PipelineInv
<1> QED BY <1>1, <1>3 DEF PipelineInv, TermsOK

\* Answering the agent frees the connection.
LEMMA ReplyOK ==
    ASSUME PipelineInv, NEW t \in Task, Reply(t), UNCHANGED <<terms, lease>>
    PROVE  PipelineInv'
BY FreeOK, OneConnection DEF Reply

\* Merging loses nothing: what keeps the merged constraints keeps those of
\* the request and those of the policy (merge_body_constraints, validate_body).
LEMMA MergeKeepsBoth ==
    ASSUME NEW b, b.size \in Nat, NEW want, NEW may,
           \A c \in {want, may} : c # None => c.maxSize \in Nat \cup {None},
           want # None /\ may # None => MergeBodyConstraints(want, may) # None,
           ValidateBody(b, MergeBodyConstraints(want, may))
    PROVE  /\ \A c \in {want, may} : c # None =>
                 /\ c.maxSize = None \/ b.size <= c.maxSize
                 /\ \A f \in b.fields : f.depth < MaxJsonDepth => f.name \notin c.fields
           /\ may # None => may.types = {} \/ b.type \in may.types
<1> DEFINE m == MergeBodyConstraints(want, may)
<1>1. CASE want = None \/ may = None
  BY <1>1 DEF MergeBodyConstraints, ValidateBody, FindForbiddenField
<1>2. CASE want # None /\ may # None
  <2>1. /\ m.fields = want.fields \cup may.fields
        /\ m.maxSize = MinOption(want.maxSize, may.maxSize)
        /\ m.types = IF may.types # {} THEN may.types ELSE want.types
    BY <1>2 DEF MergeBodyConstraints
  <2>2. /\ m.maxSize = None \/ b.size <= m.maxSize
        /\ m.types = {} \/ b.type \in m.types
        /\ \A f \in b.fields : ~(f.name \in m.fields /\ f.depth < MaxJsonDepth)
    BY <1>2 DEF ValidateBody, FindForbiddenField
  <2> HIDE DEF m
  <2>3. \A c \in {want, may} : c.maxSize = None \/ b.size <= c.maxSize
    BY <1>2, <2>1, <2>2 DEF MinOption
  <2> QED BY <2>1, <2>2, <2>3
<1> QED BY <1>1, <1>2

\* Moving a connection on changes its step and nothing else.
LEMMA Moved ==
    ASSUME NEW c \in Connection, NEW s \in Step
    PROVE  /\ [c EXCEPT !.step = s] \in Connection
           /\ [c EXCEPT !.step = s].step = s
           /\ [c EXCEPT !.step = s].req = c.req
           /\ [c EXCEPT !.step = s].host = c.host
           /\ [c EXCEPT !.step = s].ips = c.ips
           /\ [c EXCEPT !.step = s].hops = c.hops
           /\ [c EXCEPT !.step = s].sends = c.sends
BY DEF Connection

\* The parts of the order that a connection keeps.
LEMMA Parts ==
    ASSUME PipelineInv, NEW t \in Task
    PROVE  /\ task[t] \in Connection /\ Authentic(task[t]) /\ BodyChecked(task[t])
           /\ PinsChecked(task[t]) /\ SendPerHop(task[t])
BY DEF PipelineInv, ConnectionOK

\* A request arrives.
LEMMA ReceiveOK ==
    ASSUME PipelineInv, NEW t \in Task, NEW r \in Request, Receive(t, r)
    PROVE  PipelineInv'
<1> DEFINE c == [Free EXCEPT !.req = r, !.step = "auth"]
<1>1. CASE Reply(t)
  BY <1>1, ReplyOK DEF Receive
<1>2. CASE ~Reply(t)
  <2>1. task' = [task EXCEPT ![t] = c] /\ UNCHANGED <<terms, lease>>
    BY <1>2 DEF Receive
  <2>2. /\ c \in Connection /\ c.step = "auth" /\ c.req = r /\ c.hops = 0 /\ c.sends = 0
    <3>1. Free \in Connection /\ Free.hops = 0 /\ Free.sends = 0
      BY FreeOK DEF ConnectionOK, Free
    <3> QED BY <3>1 DEF Connection, Step
  <2> HIDE DEF c
  <2>3. ConnectionOK(c)
    BY <2>2 DEF ConnectionOK, Authentic, BodyChecked, PinsChecked, SendPerHop
  <2> QED BY <2>1, <2>3, OneConnection
<1> QED BY <1>1, <1>2

\* Authentication passes only the agent's own process.
LEMMA AuthenticateOK ==
    ASSUME PipelineInv, NEW t \in Task, Authenticate(t)
    PROVE  PipelineInv'
<1> DEFINE c == [task[t] EXCEPT !.step = "use"]
<1>0. task[t].step = "auth" /\ task \in [Task -> Connection]
  BY DEF PipelineInv, Authenticate, At
<1>1. CASE Reply(t)
  BY <1>1, ReplyOK DEF Authenticate
<1>2. CASE ~Reply(t)
  <2>1. /\ task[t].req.token /\ task[t].req.binding /\ Agent \in task[t].req.holders
        /\ task' = [task EXCEPT ![t] = c] /\ UNCHANGED <<terms, lease>>
    BY <1>0, <1>2, PipelineAssumption
    DEF Authenticate, Peers, VerifyLeaseToken, VerifyBinding, Goto
  <2>2. /\ c \in Connection /\ c.step = "use" /\ c.req = task[t].req
        /\ c.hops = task[t].hops /\ c.sends = task[t].sends
    BY <1>0, Moved DEF Step
  <2>3. ConnectionOK(c)
    <3> HIDE DEF c
    <3> QED BY <1>0, <2>1, <2>2, Parts
            DEF ConnectionOK, Authentic, BodyChecked, PinsChecked, SendPerHop
  <2> HIDE DEF c
  <2> QED BY <2>1, <2>3, OneConnection
<1> QED BY <1>1, <1>2

\* use_lease counts under the lock, and only while the limit is not reached.
LEMMA UseLeaseOK ==
    ASSUME PipelineInv, NEW t \in Task, UseLease(t)
    PROVE  PipelineInv'
<1> DEFINE c == [task[t] EXCEPT !.step = "scope"]
<1>0. task[t].step = "use" /\ task \in [Task -> Connection] /\ UNCHANGED terms
  BY DEF PipelineInv, UseLease, At
<1>1. CASE Reply(t) /\ UNCHANGED lease
  BY <1>0, <1>1, ReplyOK
<1>2. CASE ~(Reply(t) /\ UNCHANGED lease)
  <2>1. /\ task' = [task EXCEPT ![t] = c]
        /\ lease' = [lease EXCEPT !.used = IF terms.max = None THEN 0 ELSE @ + 1]
        /\ ~Exhausted
    BY <1>0, <1>2 DEF UseLease, Goto
  <2>2. /\ c \in Connection /\ c.step = "scope" /\ c.req = task[t].req
        /\ c.hops = task[t].hops /\ c.sends = task[t].sends
    BY <1>0, Moved DEF Step
  <2>3. ConnectionOK(c)
    <3> HIDE DEF c
    <3> QED BY <1>0, <2>1, <2>2, Parts
            DEF ConnectionOK, Authentic, BodyChecked, PinsChecked, SendPerHop
  <2>4. lease \in LeaseState /\ terms.max \in Nat \cup {None}
    BY DEF PipelineInv, TermsOK
  <2>5. lease' \in LeaseState /\ (terms.max # None => lease'.used <= terms.max)
    BY <2>1, <2>4 DEF LeaseState, Exhausted
  <2> HIDE DEF c
  <2>6. \A x : ConnectionOK(x)' = ConnectionOK(x)
    BY <1>0 DEF ConnectionOK, Authentic, BodyChecked, PinsChecked, SendPerHop
  <2>7. task' \in [Task -> Connection] /\ \A x \in Task : ConnectionOK(task'[x])
    BY <2>1, <2>2, <2>3 DEF PipelineInv
  <2> QED BY <1>0, <2>5, <2>6, <2>7 DEF PipelineInv, TermsOK
<1> QED BY <1>1, <1>2

\* The scope check looks at the body, against the merged constraints.
LEMMA CheckScopeOK ==
    ASSUME PipelineInv, NEW t \in Task, CheckScope(t)
    PROVE  PipelineInv'
<1> DEFINE host == ExtractHost(task[t].req)
           c == [task[t] EXCEPT !.step = "resolve", !.host = host]
<1>0. task[t].step = "scope" /\ task \in [Task -> Connection] /\ task[t] \in Connection
  BY Parts DEF PipelineInv, CheckScope, At
<1>1. CASE Reply(t)
  BY <1>1, ReplyOK DEF CheckScope
<1>2. CASE ~Reply(t)
  <2>1. /\ task' = [task EXCEPT ![t] = c] /\ UNCHANGED <<terms, lease>>
        /\ ValidateBody(task[t].req.body, terms.body)
    BY <1>0, <1>2 DEF CheckScope, Admits
  <2>2. host \in Host \cup {None}
    BY <1>0, Parts, RequestAssumption DEF ExtractHost, Authentic
  <2> HIDE DEF host
  <2>3. /\ c \in Connection /\ c.step = "resolve" /\ c.req = task[t].req
        /\ c.hops = task[t].hops /\ c.sends = task[t].sends
    BY <1>0, <2>2 DEF Connection, Step
  <2> HIDE DEF c
  <2>4. ConnectionOK(c)
    BY <1>0, <2>1, <2>3, Parts
    DEF ConnectionOK, Authentic, BodyChecked, PinsChecked, SendPerHop
  <2> QED BY <2>1, <2>4, OneConnection
<1> QED BY <1>1, <1>2

\* Addresses are compared with the pins of the host at hand, on every hop.
LEMMA ResolveOK ==
    ASSUME PipelineInv, NEW t \in Task, Resolve(t)
    PROVE  PipelineInv'
<1>0. task[t].step = "resolve" /\ task \in [Task -> Connection] /\ task[t] \in Connection
  BY Parts DEF PipelineInv, Resolve, At
<1>1. PICK ips \in SUBSET Ip : ResolvePins(t, ips)
  BY DEF Resolve
<1>2. CASE Reply(t)
  BY <1>1, <1>2, ReplyOK DEF ResolvePins
<1>3. CASE ~Reply(t)
  <2> DEFINE s == IF task[t].hops = 0 THEN "credential" ELSE "send"
             c == [task[t] EXCEPT !.ips = ips, !.step = s]
  <2>1. /\ task' = [task EXCEPT ![t] = c] /\ UNCHANGED <<terms, lease>>
        /\ task[t].host \in DOMAIN terms.pins /\ ips \subseteq terms.pins[task[t].host]
    BY <1>0, <1>1, <1>3 DEF ResolvePins, Verified
  <2>2. task[t].host \in terms.scope.hosts
    BY <2>1 DEF PipelineInv, TermsOK
  <2>3. s \in {"credential", "send"} /\ (s = "credential" => task[t].hops = 0)
    OBVIOUS
  <2> HIDE DEF s
  <2>4. /\ c \in Connection /\ c.step = s /\ c.req = task[t].req /\ c.host = task[t].host
        /\ c.ips = ips /\ c.hops = task[t].hops /\ c.sends = task[t].sends
    BY <1>0, <2>3 DEF Connection, Step
  <2> HIDE DEF c
  <2>5. ConnectionOK(c)
    BY <1>0, <2>1, <2>2, <2>3, <2>4, Parts
    DEF ConnectionOK, Authentic, BodyChecked, PinsChecked, SendPerHop
  <2> QED BY <2>1, <2>5, OneConnection
<1> QED BY <1>2, <1>3

\* The vault is asked once, before the first request to the upstream.
LEMMA FetchCredentialOK ==
    ASSUME PipelineInv, NEW t \in Task, FetchCredential(t)
    PROVE  PipelineInv'
<1> DEFINE c == [task[t] EXCEPT !.step = "send"]
<1>0. task[t].step = "credential" /\ task \in [Task -> Connection]
  BY DEF PipelineInv, FetchCredential, At
<1>1. CASE Reply(t)
  BY <1>1, ReplyOK DEF FetchCredential
<1>2. CASE ~Reply(t)
  <2>1. task' = [task EXCEPT ![t] = c] /\ UNCHANGED <<terms, lease>>
    BY <1>0, <1>2 DEF FetchCredential, Goto
  <2>2. /\ c \in Connection /\ c.step = "send" /\ c.req = task[t].req
        /\ c.host = task[t].host /\ c.ips = task[t].ips
        /\ c.hops = task[t].hops /\ c.sends = task[t].sends
    BY <1>0, Moved DEF Step
  <2> HIDE DEF c
  <2>3. ConnectionOK(c)
    BY <1>0, <2>2, Parts DEF ConnectionOK, Authentic, BodyChecked, PinsChecked, SendPerHop
  <2> QED BY <2>1, <2>3, OneConnection
<1> QED BY <1>1, <1>2

\* The request leaves for one of the addresses.
LEMMA SendOK ==
    ASSUME PipelineInv, NEW t \in Task, Send(t)
    PROVE  PipelineInv'
<1>0. task[t].step = "send" /\ task \in [Task -> Connection] /\ task[t] \in Connection
  BY Parts DEF PipelineInv, Send, At
<1>1. PICK ip \in task[t].ips :
         task' = [task EXCEPT ![t].step = "wait", ![t].sends = @ + 1, ![t].ips = {ip}]
  BY DEF Send
<1> DEFINE c == [task[t] EXCEPT !.step = "wait", !.sends = @ + 1, !.ips = {ip}]
<1>2. task' = [task EXCEPT ![t] = c] /\ UNCHANGED <<terms, lease>>
  BY <1>0, <1>1 DEF Send
<1>3. ip \in Ip
  BY <1>0, <1>1 DEF Connection
<1>4. /\ c \in Connection /\ c.step = "wait" /\ c.req = task[t].req /\ c.host = task[t].host
      /\ c.ips = {ip} /\ c.hops = task[t].hops /\ c.sends = task[t].sends + 1
  <2> DEFINE n == task[t].sends + 1
  <2>1. n \in Nat /\ {ip} \in SUBSET Ip
    BY <1>0, <1>3 DEF Connection
  <2>2. c = [task[t] EXCEPT !.step = "wait", !.sends = n, !.ips = {ip}]
    OBVIOUS
  <2> HIDE DEF n, c
  <2>3. /\ c \in Connection /\ c.step = "wait" /\ c.req = task[t].req /\ c.host = task[t].host
        /\ c.ips = {ip} /\ c.hops = task[t].hops /\ c.sends = n
    BY <1>0, <2>1, <2>2 DEF Connection, Step
  <2> QED BY <2>3 DEF n
<1> HIDE DEF c
<1>5. ConnectionOK(c)
  BY <1>0, <1>1, <1>4, Parts DEF ConnectionOK, Authentic, BodyChecked, PinsChecked, SendPerHop
<1> QED BY <1>2, <1>5, OneConnection

\* A redirect is followed at most MAX_REDIRECT_HOPS times, to a host whose
\* addresses are yet to be compared.
LEMMA AnswerOK ==
    ASSUME PipelineInv, NEW t \in Task, NEW redirect, NEW to \in Host \cup {None},
           Answer(t, redirect, to)
    PROVE  PipelineInv'
<1>0. task[t].step = "wait" /\ task \in [Task -> Connection] /\ task[t] \in Connection
  BY Parts DEF PipelineInv, Answer, At
<1>1. CASE Reply(t)
  BY <1>1, ReplyOK DEF Answer
<1>2. CASE ~Reply(t)
  <2> DEFINE c == [task[t] EXCEPT !.hops = @ + 1, !.host = to, !.step = "resolve"]
  <2>1. /\ task' = [task EXCEPT ![t] = c] /\ UNCHANGED <<terms, lease>>
        /\ ~(task[t].hops >= MaxHops)
    BY <1>0, <1>2 DEF Answer, Follow
  <2>2. task[t].hops + 1 \in 0..MaxHops
    BY <1>0, <2>1, PipelineAssumption DEF Connection
  <2>3. /\ c \in Connection /\ c.step = "resolve" /\ c.req = task[t].req
        /\ c.hops = task[t].hops + 1 /\ c.sends = task[t].sends
    BY <1>0, <2>2 DEF Connection, Step
  <2> HIDE DEF c
  <2>4. ConnectionOK(c)
    BY <1>0, <2>3, Parts DEF ConnectionOK, Authentic, BodyChecked, PinsChecked, SendPerHop
  <2> QED BY <2>1, <2>4, OneConnection
<1> QED BY <1>1, <1>2

\* Init chooses a lease that is in order.
LEMMA PipelineInit == Init => PipelineInv
<1> SUFFICES ASSUME Init PROVE PipelineInv
  OBVIOUS
<1>1. TermsOK
  <2>1. PICK t \in Terms :
           /\ PinDns(t.scope, t.pins)
           /\ terms = [scope |-> t.scope, pins |-> t.pins, want |-> t.want, may |-> t.may,
                       body |-> MergeBodyConstraints(t.want, t.may),
                       follow |-> t.follow, max |-> t.max]
    BY DEF Init
  <2>2. /\ terms.scope = t.scope /\ terms.pins = t.pins /\ terms.want = t.want
        /\ terms.may = t.may /\ terms.max = t.max
        /\ terms.body = MergeBodyConstraints(t.want, t.may)
    BY <2>1
  <2> QED BY <2>1, <2>2, TermsAssumption DEF TermsOK, PinDns
<1>2. /\ lease \in LeaseState /\ lease.used = 0
      /\ task \in [Task -> Connection] /\ \A t \in Task : ConnectionOK(task[t])
  BY FreeOK DEF Init, LeaseState, ConnectionOK
<1>3. terms.max # None => lease.used <= terms.max
  BY <1>1, <1>2 DEF TermsOK
<1> QED BY <1>1, <1>2, <1>3 DEF PipelineInv

\* Every step of a connection, of the clock and of who ends the lease.
LEMMA PipelineNext == PipelineInv /\ [Next]_vars => PipelineInv'
<1> SUFFICES ASSUME PipelineInv, [Next]_vars PROVE PipelineInv'
  OBVIOUS
<1>1. ASSUME NEW t \in Task, Run(t) PROVE PipelineInv'
  <2>1. ASSUME SendFails(t) PROVE PipelineInv'
    BY <2>1, ReplyOK DEF SendFails
  <2> QED BY <1>1, <2>1, AuthenticateOK, UseLeaseOK, CheckScopeOK, ResolveOK,
             FetchCredentialOK, SendOK DEF Run
<1>2. ASSUME NEW t \in Task, UpstreamFails(t) PROVE PipelineInv'
  BY <1>2, ReplyOK DEF UpstreamFails
<1>3. ASSUME UNCHANGED <<terms, task>>, lease' \in LeaseState, lease'.used = lease.used
      PROVE  PipelineInv'
  <2>1. \A x : ConnectionOK(x)' = ConnectionOK(x)
    BY <1>3 DEF ConnectionOK, Authentic, BodyChecked, PinsChecked, SendPerHop
  <2> QED BY <1>3, <2>1 DEF PipelineInv, TermsOK
<1>4. CASE Expire
  BY <1>3, <1>4 DEF Expire, PipelineInv, LeaseState
<1>5. ASSUME NEW status \in {"expired", "revoked"}, End(status) PROVE PipelineInv'
  BY <1>3, <1>5 DEF End, PipelineInv, LeaseState
<1>6. CASE UNCHANGED vars
  BY <1>3, <1>6 DEF vars, PipelineInv
<1> QED BY <1>1, <1>2, <1>4, <1>5, <1>6, ReceiveOK, AnswerOK DEF Next

\* The invariant of the pipeline holds throughout.
LEMMA PipelineHolds == Spec => []PipelineInv
BY PipelineInit, PipelineNext, PTL DEF Spec

\* Wherever redirects lead and however names resolve, the credential is on its
\* way only to a host of the scope, at an address pinned for that host
\* (resolve_and_verify, execute_with_redirects).
THEOREM ContainedTheorem == Spec => []CredentialContained
<1>1. PipelineInv => CredentialContained
  BY DEF PipelineInv, ConnectionOK, PinsChecked, CredentialContained, At
<1> QED BY <1>1, PipelineHolds, PTL

\* What is forwarded came from the agent's own process with its token, and its
\* body keeps the constraints of request and policy (authenticate,
\* merge_body_constraints, validate_body).
THEOREM AuthorisedTheorem == Spec => []SendsAuthorised
<1>1. PipelineInv => SendsAuthorised
  <2> SUFFICES ASSUME PipelineInv, NEW t \in Task, task[t].sends > 0
               PROVE  LET r == task[t].req
                          Clean(c) ==
                              /\ c.maxSize = None \/ r.body.size <= c.maxSize
                              /\ \A f \in r.body.fields :
                                    f.depth < MaxJsonDepth => f.name \notin c.fields
                      IN  /\ r.token /\ r.binding /\ Agent \in r.holders
                          /\ terms.want # None => Clean(terms.want)
                          /\ terms.may # None =>
                                /\ Clean(terms.may)
                                /\ terms.may.types = {} \/ r.body.type \in terms.may.types
    BY DEF SendsAuthorised
  <2>1. task[t].step \in {"resolve", "send", "wait"}
    BY Parts DEF SendPerHop, Connection, Step
  <2>2. /\ task[t].req \in Request /\ task[t].req.token /\ task[t].req.binding
        /\ Agent \in task[t].req.holders
    BY <2>1, Parts DEF Authentic
  <2>3. ValidateBody(task[t].req.body, MergeBodyConstraints(terms.want, terms.may))
    BY <2>1, Parts DEF BodyChecked, PipelineInv, TermsOK
  <2>4. /\ \A c \in {terms.want, terms.may} : c # None => c.maxSize \in Nat \cup {None}
        /\ terms.want # None /\ terms.may # None =>
              MergeBodyConstraints(terms.want, terms.may) # None
    BY DEF PipelineInv, TermsOK
  <2>5. task[t].req.body.size \in Nat
    BY <2>2, RequestAssumption
  <2> QED BY <2>2, <2>3, <2>4, <2>5, MergeKeepsBoth
<1> QED BY <1>1, PipelineHolds, PTL

\* One use of the lease buys at most MAX_REDIRECT_HOPS + 1 requests to the
\* upstream, and requests that run side by side do not use a lease beyond its
\* limit (use_lease, execute_with_redirects).
THEOREM UseTheorem == Spec => []UseBuysLittle
<1>1. PipelineInv => UseBuysLittle
  <2> SUFFICES ASSUME PipelineInv, NEW t \in Task PROVE task[t].sends <= MaxHops + 1
    BY DEF PipelineInv, UseBuysLittle
  <2> QED BY Parts, PipelineAssumption DEF SendPerHop, Connection, Step
<1> QED BY <1>1, PipelineHolds, PTL

=============================================================================
