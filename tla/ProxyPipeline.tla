--------------------------- MODULE ProxyPipeline ---------------------------
(***************************************************************************)
(* The requests of one lease's proxy listener (cdp-proxy http.rs): each    *)
(* connection is a task that takes one request at a time through body,     *)
(* authentication, use of the lease, scope, DNS pins and credential, sends *)
(* it and follows redirects.  The lease may end, names may resolve         *)
(* differently and the upstream may answer anything between any two steps. *)
(* What the task checks with is the snapshot use_lease returned; only the  *)
(* status and the counter of a lease change, and they are not read again.  *)
(***************************************************************************)
EXTENDS ScopeRules, FiniteSets

CONSTANTS
    Task,      \* connections of the listener
    Ip,        \* addresses names resolve to
    Agent,     \* the process (pid and uid) the lease was given to
    Request,   \* the requests that may arrive
    Terms,     \* what a lease may say: see Init
    MaxBody,   \* GLOBAL_MAX_BODY_BYTES
    MaxHops    \* MAX_REDIRECT_HOPS (5)

ASSUME PipelineAssumption == MaxBody \in Nat /\ MaxHops \in Nat /\ Agent # None
ASSUME RequestAssumption ==
    \A r \in Request : r.body.size \in Nat /\ {r.header, r.uri} \subseteq Host \cup {None}
\* Limits are natural numbers, and two constraints never merge to no constraint.
ASSUME TermsAssumption ==
    \A t \in Terms :
        /\ t.max \in Nat \cup {None}
        /\ \A c \in {t.want, t.may} : c # None => c.maxSize \in Nat \cup {None}
        /\ t.want # None /\ t.may # None => MergeBodyConstraints(t.want, t.may) # None

VARIABLES
    terms,  \* the lease, as far as it never changes
    lease,  \* its status, whether its time is over, requests_used
    task    \* what each connection is doing

vars == <<terms, lease, task>>

-----------------------------------------------------------------------------
(* The lease *)

Free == [step |-> "idle", req |-> None, host |-> None, ips |-> {}, hops |-> 0,
         sends |-> 0]

\* pin_dns: each host of the scope is pinned to the addresses it resolved to
\* when the lease was made; there were some, or there is no lease.
PinDns(scope, pins) == pins \in [scope.hosts -> (SUBSET Ip) \ {{}}]

\* A member of Terms holds the granted scope, its pins, the two sets of body
\* constraints that were merged, follow_redirects and max_requests.
Init ==
    /\ \E t \in Terms :
          /\ PinDns(t.scope, t.pins)
          /\ terms = [scope |-> t.scope, pins |-> t.pins, want |-> t.want, may |-> t.may,
                      body |-> MergeBodyConstraints(t.want, t.may),
                      follow |-> t.follow, max |-> t.max]
    /\ lease = [status |-> "active", over |-> FALSE, used |-> 0]
    /\ task = [t \in Task |-> Free]

\* The clock passes expires_at; the sweep has yet to see it.
Expire ==
    /\ ~lease.over
    /\ lease' = [lease EXCEPT !.over = TRUE]
    /\ UNCHANGED <<terms, task>>

\* The sweep, or a revocation.
End(status) ==
    /\ lease.status = "active"
    /\ status = "expired" => lease.over
    /\ lease' = [lease EXCEPT !.status = status]
    /\ UNCHANGED <<terms, task>>

-----------------------------------------------------------------------------
(* One request *)

At(t, step) == task[t].step = step

Goto(t, step) == task' = [task EXCEPT ![t].step = step]

\* The agent is answered, by the upstream's response or by the one
\* proxy_error_to_response makes of an error; the connection is free again.
Reply(t) == task' = [task EXCEPT ![t] = Free]

\* collect_body looks at the size once it has the whole body.
Receive(t, r) ==
    /\ At(t, "idle")
    /\ IF r.body.size > MaxBody THEN Reply(t)
       ELSE task' = [task EXCEPT ![t] = [Free EXCEPT !.req = r, !.step = "auth"]]
    /\ UNCHANGED <<terms, lease>>

\* find_socket_inode, find_pid_for_inode, read_uid_for_pid: a process that has
\* the agent's end of the connection open; the scan of /proc takes the first of
\* them, and none when all have exited.
Peers(r) == IF r.holders = {} THEN {None} ELSE r.holders

\* Whether the token is the HMAC over the lease's id, its agent's fingerprint and
\* its nonce: nobody else can make it.
VerifyLeaseToken(r) == r.token

\* Whether the nonce the request carries is that of the lease.
VerifyBinding(r) == r.binding

\* authenticate reads nothing of the lease that changes: the token, the channel
\* binding, then pid and uid of the peer.  Failures are reported as blocked.
Authenticate(t) ==
    LET r == task[t].req IN
    /\ At(t, "auth")
    /\ \E p \in Peers(r) :
          IF VerifyLeaseToken(r) /\ VerifyBinding(r) /\ p = Agent THEN Goto(t, "use") ELSE Reply(t)
    /\ UNCHANGED <<terms, lease>>

Exhausted == terms.max # None /\ lease.used >= terms.max

\* Mutant: status and expiry were looked at by get_lease.
UseLeaseUnchecked(t) ==
    /\ At(t, "use")
    /\ IF Exhausted THEN Reply(t) /\ UNCHANGED lease
       ELSE /\ lease' = [lease EXCEPT !.used = IF terms.max = None THEN 0 ELSE @ + 1]
            /\ Goto(t, "scope")
    /\ UNCHANGED terms

\* NotActive, Expired or MaxRequestsExceeded, or one more use.  The counter is
\* kept for a lease that has a limit; nothing reads it otherwise.
UseLease(t) ==
    /\ At(t, "use")
    /\ IF lease.status # "active" \/ lease.over \/ Exhausted
       THEN Reply(t) /\ UNCHANGED lease
       ELSE /\ lease' = [lease EXCEPT !.used = IF terms.max = None THEN 0 ELSE @ + 1]
            /\ Goto(t, "scope")
    /\ UNCHANGED terms

\* extract_host: the Host header, without port, before the host of the URI.
ExtractHost(r) == IF r.header # None THEN r.header ELSE r.uri

\* validate_request
Admits(r, host) ==
    /\ ValidateHost(host, terms.scope)
    /\ ValidatePath(r.path, terms.scope)
    /\ ValidateMethod(r.method, terms.scope)
    /\ ValidateBody(r.body, terms.body)

\* Failures of the scope check are reported as blocked.
CheckScope(t) ==
    LET r == task[t].req
        host == ExtractHost(r)
    IN
    /\ At(t, "scope")
    /\ IF host # None /\ Admits(r, host)
       THEN task' = [task EXCEPT ![t].step = "resolve", ![t].host = host]
       ELSE Reply(t)
    /\ UNCHANGED <<terms, lease>>

\* verify_pinned_ip, for each address found; a host without pins has none.
Verified(host, ips) ==
    ips # {} /\ host \in DOMAIN terms.pins /\ ips \subseteq terms.pins[host]

\* resolve_and_verify: the resolver may answer differently each time, also with
\* nothing or an error.
ResolvePins(t, ips) ==
    /\ IF Verified(task[t].host, ips)
       THEN task' = [task EXCEPT ![t].ips = ips,
                                 ![t].step = IF task[t].hops = 0 THEN "credential" ELSE "send"]
       ELSE Reply(t)
    /\ UNCHANGED <<terms, lease>>

Resolve(t) == At(t, "resolve") /\ \E ips \in SUBSET Ip : ResolvePins(t, ips)

\* fetch_credential, once: redirects reuse the headers.  The vault returns nothing,
\* something the key does not open, or what becomes the Authorization header.
FetchCredential(t) ==
    /\ At(t, "credential")
    /\ Goto(t, "send") \/ Reply(t)
    /\ UNCHANGED <<terms, lease>>

\* inject_headers finds the credential to be no header value, or no connection can
\* be made.
SendFails(t) ==
    /\ At(t, "send")
    /\ Reply(t)
    /\ UNCHANGED <<terms, lease>>

\* The request goes, with the credential and without the internal headers, to the
\* first address.
Send(t) ==
    /\ At(t, "send")
    /\ \E ip \in task[t].ips :
          task' = [task EXCEPT ![t].step = "wait", ![t].sends = @ + 1, ![t].ips = {ip}]
    /\ UNCHANGED <<terms, lease>>

-----------------------------------------------------------------------------
(* The upstream's answer *)

\* evaluate_redirect: `to` is the host of the Location, None if there is none.
EvaluateRedirect(redirect, to) ==
    IF ~redirect \/ ~terms.follow THEN "pass"
    ELSE IF to = None THEN "error"
    ELSE IF terms.scope.hosts = {} \/ to \in terms.scope.hosts THEN "follow"
    ELSE "block"

\* Mutant: the redirect goes to the addresses of the host before it.
FollowSameIps(t, to) ==
    IF task[t].hops >= MaxHops THEN Reply(t)
    ELSE task' = [task EXCEPT ![t].hops = @ + 1, ![t].host = to, ![t].step = "send"]

\* Mutant: one hop too many.
FollowOneMore(t, to) ==
    IF task[t].hops > MaxHops THEN Reply(t)
    ELSE task' = [task EXCEPT ![t].hops = @ + 1, ![t].host = to, ![t].step = "resolve"]

\* Mutant: each redirect starts over.
FollowForever(t, to) ==
    task' = [task EXCEPT ![t].hops = 1, ![t].sends = 0, ![t].host = to, ![t].step = "resolve"]

\* The method, path and body of the target are not looked at again.
Follow(t, to) ==
    IF task[t].hops >= MaxHops THEN Reply(t)
    ELSE task' = [task EXCEPT ![t].hops = @ + 1, ![t].host = to, ![t].step = "resolve"]

\* No answer, an answer whose body breaks off, or an answer: what is passed on
\* goes through sanitize_response.  Nothing limits the wait.
Answer(t, redirect, to) ==
    LET action == EvaluateRedirect(redirect, to) IN
    /\ At(t, "wait")
    /\ \/ action = "follow" /\ Follow(t, to)
       \/ action \in {"error", "block"} /\ Reply(t)
       \/ action = "pass" /\ Reply(t)
    /\ UNCHANGED <<terms, lease>>

UpstreamFails(t) ==
    /\ At(t, "wait")
    /\ Reply(t)
    /\ UNCHANGED <<terms, lease>>

-----------------------------------------------------------------------------
\* The steps of a task the runtime takes by itself.
Run(t) ==
    \/ Authenticate(t) \/ UseLease(t) \/ CheckScope(t) \/ Resolve(t)
    \/ FetchCredential(t) \/ Send(t) \/ SendFails(t)

Next ==
    \/ \E t \in Task, r \in Request : Receive(t, r)
    \/ \E t \in Task : Run(t) \/ UpstreamFails(t)
    \/ \E t \in Task, redirect \in BOOLEAN, to \in Host \cup {None} : Answer(t, redirect, to)
    \/ Expire
    \/ \E status \in {"expired", "revoked"} : End(status)

Spec == Init /\ [][Next]_vars

\* Tasks are polled.  Nothing is assumed of agents, of the upstream, of the clock
\* or of who ends the lease.
FairSpec == Spec /\ \A t \in Task : WF_vars(Run(t))

-----------------------------------------------------------------------------
(* Properties *)

\* Wherever redirects lead and however names resolve meanwhile, the credential is
\* on its way only to a host of the scope, at an address that was pinned for that
\* host when the lease was made (execute_with_redirects, resolve_and_verify).
CredentialContained ==
    \A t \in Task : At(t, "wait") =>
        /\ task[t].host \in terms.scope.hosts
        /\ task[t].ips \subseteq terms.pins[task[t].host]

\* What is forwarded was sent by the agent's own process, with its token, and
\* its body keeps the constraints of the policy as well as those of the request,
\* except that the policy's content types stand for both
\* (authenticate, merge_body_constraints, validate_body).
SendsAuthorised ==
    \A t \in Task : task[t].sends > 0 =>
        LET r == task[t].req
            Clean(c) ==
                /\ c.maxSize = None \/ r.body.size <= c.maxSize
                /\ \A f \in r.body.fields : f.depth < MaxJsonDepth => f.name \notin c.fields
        IN  /\ r.token /\ r.binding /\ Agent \in r.holders
            /\ terms.want # None => Clean(terms.want)
            /\ terms.may # None =>
                  Clean(terms.may) /\ (terms.may.types = {} \/ r.body.type \in terms.may.types)

\* One use of the lease buys a bounded number of requests to the upstream, and a
\* lease with a limit is not used beyond it by requests that run side by side
\* (use_lease, MAX_REDIRECT_HOPS).
UseBuysLittle ==
    /\ \A t \in Task : task[t].sends <= MaxHops + 1
    /\ terms.max # None => lease.used <= terms.max

\* If the upstream leaves no request waiting for ever, each one is answered,
\* also when it redirects in circles (execute_with_redirects).
RequestAnswered ==
    \A t \in Task : []<>(~At(t, "wait")) => (~At(t, "idle") ~> At(t, "idle"))

\* After the lease has ended the snapshots of requests under way run out: in the
\* end nothing is sent any more, although agents keep asking (use_lease).
SendsCease ==
    <>(lease.status # "active") => <>[][\A t \in Task : ~Send(t)]_vars

=============================================================================
