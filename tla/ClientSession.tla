--------------------------- MODULE ClientSession ---------------------------
(***************************************************************************)
(* A client of the Gate: the SDKs for Rust, Python and TypeScript and the  *)
(* wrapper cdp-wrap.  It finds the Gate by the fingerprint file, connects, *)
(* registers and asks for leases by JSON-RPC lines, and then uses the      *)
(* proxy of a lease.  Gates come and go meanwhile (GateHost).              *)
(* The TypeScript transport matches answers by their id and may have       *)
(* several calls open; the others take the next line for the answer, and   *)
(* in Rust and Python a caller may abandon a call that waits for it.       *)
(* The Gate is modelled as its router answers: one request at a time.      *)
(***************************************************************************)
EXTENDS GateHost, Sequences, SequencesExt

CONSTANTS
    Kind,       \* of {"rust", "python", "typescript", "wrap"}
    CredRef,    \* credential references
    MaxCalls,   \* bound: calls of the client
    MaxOpen     \* bound: calls a TypeScript program leaves open

ASSUME ClientAssumption == MaxCalls \in Nat /\ MaxOpen \in Nat

VARIABLES
    client,  \* its kind, step, the Gate the file named, the Gate at the other end,
             \* and whether the rest of a line was left in the stream
    calls,   \* its open calls, oldest first
    wire,    \* lines under way: requests and answers
    sent,    \* calls made, which number them
    grants,  \* the leases Gates have granted; all have the same port
    held,    \* the lease the client has, the reference it was asked for, and whether
             \* it came after an abandoned call
    dropped  \* whether a call on this connection was abandoned

clientVars == <<client, calls, wire, sent, grants, held, dropped>>

NoHold == [asked |-> NoGate, lease |-> 0, over |-> FALSE, late |-> FALSE]
Quiet == [requests |-> <<>>, answers |-> <<>>]

ClientInit ==
    /\ client \in [kind : Kind, step : {"idle"}, named : {NoGate}, gate : {NoGate}, torn : {FALSE}]
    /\ calls = <<>> /\ wire = Quiet /\ sent = 0
    /\ grants = <<>> /\ held = NoHold
    /\ dropped = FALSE

-----------------------------------------------------------------------------
(* Finding the Gate *)

As(kind, step) == client.kind = kind /\ client.step = step

\* The file is read, if it parses, or, where the client looks at it, the variable
\* CDP_GATE_SOCKET, which names no process.
Find(next, env) ==
    /\ \/ file.whole /\ client' = [client EXCEPT !.named = file.of, !.step = next]
       \/ env /\ client' = [client EXCEPT !.step = "connect"]
    /\ UNCHANGED <<calls, wire, sent, grants, held, dropped>>

\* Only the Rust client verifies the process the file names.
RustDiscover == As("rust", "idle") /\ Find("verify", TRUE)
PythonDiscover == As("python", "idle") /\ Find("connect", TRUE)
TypeScriptDiscover == As("typescript", "idle") /\ Find("connect", TRUE)
WrapLoad == As("wrap", "idle") /\ Find("connect", FALSE)

Reachable == link # NoGate /\ Listens(link)

\* verify_gate: the process at the other end of a first connection is the one named.
VerifyGate ==
    /\ client.step = "verify"
    /\ Reachable /\ link = client.named
    /\ client' = [client EXCEPT !.step = "connect"]
    /\ UNCHANGED <<calls, wire, sent, grants, held, dropped>>

\* Transport::connect, on a connection of its own.
OpenTransport ==
    /\ client.step = "connect"
    /\ Reachable
    /\ client' = [client EXCEPT !.step = "connected", !.gate = link]
    /\ UNCHANGED <<calls, wire, sent, grants, held, dropped>>

\* The client is back where it began, with the lease it has; cdp-wrap has ended.
Apart == [client EXCEPT !.step = IF client.kind = "wrap" THEN "ended" ELSE "idle",
                        !.named = NoGate, !.gate = NoGate, !.torn = FALSE]

CloseTransport ==
    /\ client' = Apart
    /\ calls' = <<>> /\ wire' = Quiet /\ dropped' = FALSE
    /\ UNCHANGED <<sent, grants, held>>

\* No listener, or another process at the socket.
NotFound ==
    /\ client.step \in {"verify", "connect"}
    /\ ~Reachable \/ (client.step = "verify" /\ link # client.named)
    /\ CloseTransport

-----------------------------------------------------------------------------
(* Calls *)

Joined == client.step \in {"connected", "session"}

\* Only the TypeScript transport lets calls overlap.
Room == Len(calls) < IF client.kind = "typescript" THEN MaxOpen ELSE 1

\* The request line is written, under the next number.
Send(what) ==
    LET call == [id |-> sent + 1, what |-> what] IN
    /\ Runs(client.gate)
    /\ sent < MaxCalls
    /\ Room
    /\ sent' = sent + 1
    /\ calls' = Append(calls, call)
    /\ wire' = [wire EXCEPT !.requests = Append(@, call)]
    /\ UNCHANGED <<client, grants, held, dropped>>

RustRegister == As("rust", "connected") /\ Send("register")
PythonRegister == As("python", "connected") /\ Send("register")
TypeScriptRegister == As("typescript", "connected") /\ Send("register")
WrapRegister == As("wrap", "connected") /\ Send("register")

RustRequestLease(ref) == As("rust", "session") /\ Send(ref)
PythonRequestLease(ref) == As("python", "session") /\ Send(ref)
TypeScriptRequestLease(ref) == As("typescript", "session") /\ Send(ref)
\* cdp-wrap asks once, right after it has registered.
WrapRequestCredential(ref) == As("wrap", "session") /\ sent = 1 /\ Send(ref)

\* A lease that request_lease returns has no transport in Rust, so that renew and
\* revoke fail without a call.
Renewable == held # NoHold /\ client.kind # "rust"

\* Renewal or revocation of the lease.
PythonRenew == As("python", "session") /\ Renewable /\ Send("renew")
TypeScriptRenew == As("typescript", "session") /\ Renewable /\ Send("renew")

\* handle_request: a registration or a lease, or an error of one of many kinds.  It
\* knows no cdp.renewLease and no cdp.revokeLease.
Serve ==
    LET r == Head(wire.requests)
        port == Len(grants) # 0 /\ grants[Len(grants)].live /\ Runs(grants[Len(grants)].gate)
        Answer(ok, lease) ==
            wire' = [requests |-> Tail(wire.requests),
                     answers |-> Append(wire.answers,
                                    [id |-> r.id, what |-> r.what, ok |-> ok, lease |-> lease])]
    IN  /\ Joined /\ Runs(client.gate)
        /\ wire.requests # <<>>
        /\ \/ Answer(FALSE, 0) /\ UNCHANGED grants
           \/ r.what = "register" /\ Answer(TRUE, 0) /\ UNCHANGED grants
           \/ /\ r.what \in CredRef /\ ~port
              /\ grants' = Append(grants, [ref |-> r.what, gate |-> client.gate, live |-> TRUE])
              /\ Answer(TRUE, Len(grants) + 1)
        /\ UNCHANGED <<client, calls, sent, held, dropped>>

\* Call i is over, its answer taken to be a; if `last`, the client gives up its
\* connection with it.
Returns(i, a, ok, last) ==
    LET call == calls[i] IN
    /\ UNCHANGED <<sent, grants>>
    /\ calls' = IF last THEN <<>> ELSE RemoveAt(calls, i)
    /\ wire' = IF last THEN Quiet ELSE [wire EXCEPT !.answers = Tail(@)]
    /\ dropped' = (dropped /\ ~last)
    /\ client' = IF last THEN Apart
                 ELSE [client EXCEPT !.torn = FALSE,
                         !.step = IF ok /\ call.what = "register" /\ a.what = "register"
                                  THEN "session" ELSE @]
    /\ held' = IF ok /\ call.what \in CredRef /\ a.lease # 0
               THEN [asked |-> call.what, lease |-> a.lease, over |-> FALSE, late |-> dropped]
               ELSE held

Reads(kind) == client.kind = kind /\ calls # <<>> /\ wire.answers # <<>>

\* The next line is the answer, whatever its id.  In Rust it may be the rest of one,
\* which is no JSON; register consumes the client, so a failure ends it.
RustReadLine ==
    LET a == Head(wire.answers)
        ok == a.ok /\ ~client.torn
    IN  /\ Reads("rust")
        /\ Returns(1, a, ok, ~ok /\ calls[1].what = "register")

\* What was received of a line stays in the buffer.
PythonReadLine ==
    LET a == Head(wire.answers) IN
    Reads("python") /\ Returns(1, a, a.ok, FALSE)

\* Any failure ends cdp-wrap.
WrapReadLine ==
    LET a == Head(wire.answers) IN
    Reads("wrap") /\ Returns(1, a, a.ok, ~a.ok)

\* processBuffer: the answer to the open call with its id.
ProcessBuffer ==
    LET a == Head(wire.answers) IN
    /\ client.kind = "typescript"
    /\ wire.answers # <<>>
    /\ \E i \in DOMAIN calls : calls[i].id = a.id /\ Returns(i, a, a.ok, FALSE)

\* The caller drops the future.  The part of a line that was read goes with it, and
\* register takes the connection with it.
RustAbandon ==
    /\ client.kind = "rust"
    /\ calls # <<>>
    /\ IF client.step = "connected" THEN CloseTransport
       ELSE /\ calls' = <<>> /\ dropped' = TRUE
            /\ \E torn \in {client.torn, client.torn \/ wire.answers # <<>>} :
                  client' = [client EXCEPT !.torn = torn]
            /\ UNCHANGED <<wire, sent, grants, held>>

\* An exception is raised while recv waits: by a signal handler, or the user.
PythonAbandon ==
    /\ client.kind = "python"
    /\ calls # <<>>
    /\ calls' = <<>> /\ dropped' = TRUE
    /\ UNCHANGED <<client, wire, sent, grants, held>>

\* cdp-wrap waits 30 seconds for a line.
ReadTimeout == client.kind = "wrap" /\ calls # <<>> /\ CloseTransport

\* Mutant: the handler of "close" leaves the open calls to themselves.
GateClosedSilent ==
    /\ Joined /\ ~Runs(client.gate) /\ wire.answers = <<>>
    /\ client' = Apart /\ wire' = Quiet /\ dropped' = FALSE
    /\ UNCHANGED <<calls, sent, grants, held>>

\* The stream ends after the answers the Gate has written: open calls fail.
GateClosed ==
    /\ Joined /\ ~Runs(client.gate) /\ wire.answers = <<>>
    /\ CloseTransport

\* The program closes the connection or drops it.
HangUp == Joined /\ CloseTransport

-----------------------------------------------------------------------------
(* Using a lease *)

\* The Gate ends a lease: expiry, revocation, death.
LeaseEnds(l) ==
    /\ grants[l].live
    /\ grants' = [grants EXCEPT ![l].live = FALSE]
    /\ UNCHANGED <<client, calls, wire, sent, held, dropped>>

\* The expiry the client computed, from the time the answer came, has passed; the
\* Gate counts from the time it granted the lease.
LocalExpiry ==
    /\ held # NoHold /\ ~grants[held.lease].live /\ ~held.over
    /\ held' = [held EXCEPT !.over = TRUE]
    /\ UNCHANGED <<client, calls, wire, sent, grants, dropped>>

\* Mutant: any request that reaches the port is authentic.
AuthenticateAny(l) == TRUE

\* The proxy at the port of the lease is that of the last lease granted.  It admits
\* the token of its own lease only, from the process that registered: what
\* cdp-wrap runs is another process.
Authenticate(l) == l = Len(grants) /\ client.kind # "wrap"

\* Whether the proxy serves a request, with the credential of its lease.
Proxied ==
    LET served == grants[Len(grants)] IN
    /\ held # NoHold
    /\ served.live /\ Runs(served.gate)
    /\ Authenticate(held.lease)

\* fetch first looks at the expiry the client keeps; a wrapped command does not.
RustFetch == client.kind = "rust" /\ ~held.over /\ Proxied
PythonFetch == client.kind = "python" /\ ~held.over /\ Proxied
TypeScriptFetch == client.kind = "typescript" /\ ~held.over /\ Proxied
WrappedRequest == client.kind = "wrap" /\ Proxied

Fetches == RustFetch \/ PythonFetch \/ TypeScriptFetch \/ WrappedRequest

-----------------------------------------------------------------------------
Seek == RustDiscover \/ PythonDiscover \/ TypeScriptDiscover \/ WrapLoad

Register == RustRegister \/ PythonRegister \/ TypeScriptRegister \/ WrapRegister

RequestLease(ref) ==
    \/ RustRequestLease(ref) \/ PythonRequestLease(ref)
    \/ TypeScriptRequestLease(ref) \/ WrapRequestCredential(ref)

ClientNext ==
    \/ Seek \/ VerifyGate \/ OpenTransport \/ NotFound
    \/ Register \/ PythonRenew \/ TypeScriptRenew
    \/ \E ref \in CredRef : RequestLease(ref)
    \/ Serve
    \/ RustReadLine \/ PythonReadLine \/ WrapReadLine \/ ProcessBuffer \/ GateClosed
    \/ RustAbandon \/ PythonAbandon \/ ReadTimeout \/ HangUp
    \/ \E l \in DOMAIN grants : LeaseEnds(l)
    \/ LocalExpiry

\* A client and the Gates it finds.
SessionSpec ==
    /\ HostInit /\ ClientInit
    /\ [][\/ HostNext /\ UNCHANGED clientVars
          \/ ClientNext /\ UNCHANGED hostVars]_<<hostVars, clientVars>>

-----------------------------------------------------------------------------
(* Properties *)

\* The credential a fetch uses is the one the lease was asked for, although ports are
\* reused, Gates are replaced, leases outlive their Gate in the client and
\* answers go by their order; only after an abandoned call on its connection
\* may a client take one lease for another (send, request_lease, fetch,
\* authenticate).
FetchUsesAsked == Fetches => held.late \/ grants[Len(grants)].ref = held.asked

\* No call waits for a line that will not come: while one is open so is the
\* connection, and under way is the answer with its id or, where ids are not
\* looked at, some answer, whatever calls were abandoned before it and whatever
\* half lines they left (send, processBuffer, the handler of "close").
NoCallStranded ==
    LET lines == wire.requests \o wire.answers IN
    calls # <<>> =>
        /\ Joined
        /\ IF client.kind = "typescript"
           THEN \A c \in Range(calls) : \E l \in Range(lines) : l.id = c.id
           ELSE Len(lines) >= Len(calls)

=============================================================================
