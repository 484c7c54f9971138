----------------------------- MODULE MitmProxy -----------------------------
(***************************************************************************)
(* The intercepting proxy for browser sessions (cdp-proxy mitm.rs and      *)
(* mitm_ca.rs): a CONNECT to an origin with a login is answered with a     *)
(* leaf certificate of its own, the cookies of the login are put into the  *)
(* requests and Set-Cookie is taken out of the responses, read by read.    *)
(* A stream is a sequence of pieces: a "line" or a Set-Cookie line ("set") *)
(* with its CRLF, a blank line ("crlf"), or "text" without a CRLF.  What a *)
(* side has sent stays in the stream, with a count of what was read; a     *)
(* read ends anywhere between two pieces.                                  *)
(***************************************************************************)
EXTENDS BrowserLogin, FiniteSets

CONSTANTS
    Host,         \* hosts an agent may connect to
    Intercepted,  \* MitmProxy::allowed_origins
    Ask, Message, \* requests and responses: records of a head, which ends in a
                  \* blank line, and a body
    MaxAsks, MaxMessages,  \* bounds: requests and responses on a connection
    MaxRead       \* bound: pieces in one read

Piece == {"line", "set", "crlf", "text"}

\* Lines, at least one, and the blank line after them.
IsHead(head) ==
    /\ head \in Seq(Piece)
    /\ Len(head) >= 2
    /\ \A i \in 1..Len(head) : IF i < Len(head) THEN head[i] \in {"line", "set"} ELSE head[i] = "crlf"

ASSUME MitmAssumption == Origin \subseteq Host /\ Intercepted \subseteq Host /\ MaxRead \in Nat

ASSUME MessageAssumption ==
    \A m \in Ask \cup Message : IsHead(m.head) /\ m.body \in Seq(Piece)

VARIABLES
    conn,   \* the connection: host, step, cookie header
    leaf,   \* MitmCa::leaf_cache
    asks,   \* agent to upstream: what was sent, the heads in it and where each
            \* begins, how much was read, the last read and what was passed on for it
    says    \* upstream to agent, likewise

mitmVars == <<conn, leaf, asks, says>>

NoConn == [host |-> NoOrigin, step |-> "none", header |-> {}]
Quiet == [sent |-> <<>>, heads |-> {}, read |-> 0, data |-> <<>>, passed |-> <<>>]

MitmInit ==
    /\ conn = NoConn
    /\ leaf = {}
    /\ asks = Quiet
    /\ says = Quiet

-----------------------------------------------------------------------------
(* What is done to one read *)

\* find_header_end: the blank line that ends the first header block, or 0.
FindHeaderEnd(data) ==
    LET ends == {i \in 2..Len(data) : data[i] = "crlf" /\ data[i - 1] # "text"} IN
    IF ends = {} THEN 0 ELSE CHOOSE i \in ends : \A j \in ends : i <= j

\* The pieces of data at the places in kept, in order.
PiecesAt(data, kept) ==
    [k \in 1..Cardinality(kept) |->
        data[CHOOSE i \in kept : Cardinality({j \in kept : j <= i}) = k]]

\* Mutant: the last line before the blank one is not looked at.
FilterHeaderLinesShort(data, end) ==
    PiecesAt(data, {i \in DOMAIN data : i > end - 2 \/ data[i] # "set"})

\* filter_header_lines, with the rest of the data after it: a line is dropped if it
\* begins with the name, so not when it continues a text.
FilterHeaderLines(data, end) ==
    PiecesAt(data, {i \in DOMAIN data :
                        i > end \/ data[i] # "set" \/ (i > 1 /\ data[i - 1] = "text")})

StripSetCookie(data) ==
    IF FindHeaderEnd(data) = 0 THEN data ELSE FilterHeaderLines(data, FindHeaderEnd(data))

\* inject_cookie_header: inserted before the four bytes of the separator, of which
\* the first two end the line before.  The cookie continues that line, which
\* the header's own CRLF ends, and the two CRLFs follow.
InjectCookieHeader(data) ==
    LET end == FindHeaderEnd(data)
        run == IF data[end - 1] = "crlf" THEN "cookie" ELSE "run-on"
    IN  IF end = 0 THEN data
        ELSE SubSeq(data, 1, end - 2) \o <<run, "crlf">> \o SubSeq(data, end, Len(data))

-----------------------------------------------------------------------------
(* The connection *)

\* handle_connect.  A tunnel copies both ways until one side closes.
HandleConnect(h) ==
    /\ conn.step = "none"
    /\ conn' = [NoConn EXCEPT !.host = h, !.step = IF h \in Intercepted THEN "leaf" ELSE "tunnel"]
    /\ UNCHANGED <<leaf, asks, says>>

\* issue_leaf_cert: from the cache, or made and cached; is_allowed holds of every
\* host that is intercepted.
IssueLeafCert ==
    /\ conn.step = "leaf"
    /\ leaf' = leaf \cup {conn.host}
    /\ conn' = [conn EXCEPT !.step = "handshake"]
    /\ UNCHANGED <<asks, says>>

\* build_cookie_header: none for an origin without cookies.
BuildCookieHeader(h) == IF h \in Origin THEN store[h] ELSE {}

\* Both handshakes are done and the cookies are looked up, once for the connection.
Intercept ==
    /\ conn.step = "handshake"
    /\ conn' = [conn EXCEPT !.step = "forward",
                            !.header = BuildCookieHeader(conn.host)]
    /\ UNCHANGED <<leaf, asks, says>>

\* A side sends a message.
Sending(way, m) ==
    [way EXCEPT !.sent = @ \o m.head \o m.body,
                !.heads = @ \cup {[at |-> Len(way.sent), head |-> m.head]}]

SendRequest(m) ==
    /\ conn.step = "forward" /\ Cardinality(asks.heads) < MaxAsks
    /\ asks' = Sending(asks, m)
    /\ UNCHANGED <<conn, leaf, says>>

SendResponse(m) ==
    /\ conn.step = "forward" /\ Cardinality(says.heads) < MaxMessages
    /\ says' = Sending(says, m)
    /\ UNCHANGED <<conn, leaf, asks>>

\* The next n pieces of a direction, and the state of it once they are passed on.
NextRead(way, n) == SubSeq(way.sent, way.read + 1, way.read + n)

Reading(way, n, passed) ==
    [way EXCEPT !.read = @ + n, !.data = NextRead(way, n), !.passed = passed]

Left(way) == Len(way.sent) - way.read

ForwardRequest(n) ==
    /\ conn.step = "forward" /\ n <= Left(asks)
    /\ LET data == NextRead(asks, n) IN
       asks' = Reading(asks, n, IF conn.header = {} THEN data ELSE InjectCookieHeader(data))
    /\ UNCHANGED <<conn, leaf, says>>

ForwardResponse(n) ==
    /\ conn.step = "forward" /\ n <= Left(says)
    /\ says' = Reading(says, n, StripSetCookie(NextRead(says, n)))
    /\ UNCHANGED <<conn, leaf, asks>>

\* A handshake fails, or either side closes or fails: both directions end.
Close ==
    /\ conn.step # "none"
    /\ conn' = NoConn
    /\ asks' = Quiet
    /\ says' = Quiet
    /\ UNCHANGED leaf

Connect == (\E h \in Host : HandleConnect(h)) \/ IssueLeafCert \/ Intercept \/ Close

Forward == \E n \in 1..MaxRead : ForwardRequest(n) \/ ForwardResponse(n)

Exchange == (\E m \in Ask : SendRequest(m)) \/ (\E m \in Message : SendResponse(m))

MitmNext == Connect \/ Exchange \/ Forward

\* The proxy beside the logins, whose cookies it looks up.
MitmSpec ==
    /\ BrowserInit /\ MitmInit
    /\ [][(BrowserNext /\ UNCHANGED mitmVars) \/ (MitmNext /\ UNCHANGED browserVars)]_<<browserVars, mitmVars>>

-----------------------------------------------------------------------------
(* Properties *)

\* The piece at place k of the responses is a Set-Cookie line of one of them.
SetCookieLine(k) ==
    \E h \in says.heads : k - h.at \in DOMAIN h.head /\ h.head[k - h.at] = "set"

\* A read that begins with a response and holds its head is passed on without the
\* Set-Cookie lines of that head, and all that is missing of it are Set-Cookie
\* lines of heads: no other line, and nothing of a body, also one that quotes a
\* response (strip_set_cookie, filter_header_lines).
HeadStripped ==
    \A h \in says.heads :
        says.read - Len(says.data) = h.at /\ Len(says.data) >= Len(h.head) =>
            \E kept \in SUBSET DOMAIN says.data :
                /\ says.passed = PiecesAt(says.data, kept)
                /\ \A i \in DOMAIN h.head : h.head[i] = "set" => i \notin kept
                /\ \A i \in DOMAIN says.data \ kept : SetCookieLine(h.at + i)

-----------------------------------------------------------------------------
(* What the documentation says and the code does not do; see README.md *)

\* "This inserts the Cookie header as the last header before the body."
\* (cdp-proxy/src/mitm.rs:334): a read with the end of a head is passed on with
\* the cookie as a line of its own before the blank line.
CookieIsLastHeader ==
    LET end == FindHeaderEnd(asks.data) IN
    conn.header # {} /\ end # 0 =>
        asks.passed = SubSeq(asks.data, 1, end - 1) \o <<"cookie">>
                         \o SubSeq(asks.data, end, Len(asks.data))

=============================================================================
