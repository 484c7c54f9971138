---------------------------- MODULE BrowserLogin ----------------------------
(***************************************************************************)
(* A login in the sandboxed browser (cdp-browser): SessionSnapshot::capture *)
(* spawns the browser, drives it over a stream of commands and answers,    *)
(* each with a timeout, kills it, and the cookies it captured go into the  *)
(* store.  The stream has no request ids: the 2FA probe gives up after     *)
(* five seconds and leaves its answer for whoever reads next.              *)
(* The program in the browser is external: it answers each command in turn.*)
(***************************************************************************)
EXTENDS Integers, Sequences

CONSTANTS
    Origin,     \* origins with a login
    Wrapper,    \* what spawn may find: "bwrap", or else "unshare"
    Config,     \* configurations of captures
    MaxLogins,  \* bound: captures started
    NoOrigin    \* no capture, no browser

\* What of a SnapshotConfig, and of the callback given with it, decides the course of
\* a capture: whether there is a 2FA detector, and a callback to ask for the code.
SnapshotConfig == [twofa : BOOLEAN, callback : BOOLEAN]

ASSUME LoginAssumption ==
    /\ MaxLogins \in Nat
    /\ NoOrigin \notin Origin
    /\ Config \subseteq SnapshotConfig

VARIABLES
    flow,     \* the capture: origin, config, step, and whether its probe timed out
    stream,   \* commands and answers under way, and whether a frame was half read
    browser,  \* the program: wrapper, whether it runs, whether the site let it in
    store,    \* CookieStore: the cookies of each origin, whose order nothing depends on
    logins    \* captures started

browserVars == <<flow, stream, browser, store, logins>>

NoFlow == [origin |-> NoOrigin, config |-> NoOrigin, step |-> "idle", late |-> FALSE]
Closed == [commands |-> <<>>, answers |-> <<>>, torn |-> FALSE]

BrowserInit ==
    /\ flow = NoFlow
    /\ stream = Closed
    /\ browser = [wrapper |-> NoOrigin, alive |-> FALSE, in |-> FALSE]
    /\ store = [o \in Origin |-> {}]
    /\ logins = 0

-----------------------------------------------------------------------------
(* The flow *)

\* The commands the flow sends, two of them WaitForLogin: for the challenge (the
\* "probe") and for the login.  Shutdown is never sent.
BrowserCommand == {"navigate", "fill", "submit", "probe", "enter", "wait", "extract"}

\* What answers a command: ok, ok with data, an error or a challenge.
BrowserResponse(command, kind, cookies) ==
    [to |-> command, kind |-> kind, cookies |-> cookies]

\* The flow waits for the answer to the command of its step.
Waiting == flow.step \in BrowserCommand

\* Mutant: the process is left to its handle, which does not kill it.
EndLoose ==
    /\ flow' = NoFlow
    /\ stream' = Closed
    /\ UNCHANGED <<browser, logins>>

\* The flow has returned, or is dropped: the wrapper gets SIGKILL and the stream
\* is closed.  bwrap was told to --die-with-parent; what unshare forked lives on.
End ==
    /\ flow' = NoFlow
    /\ stream' = Closed
    /\ browser' = [browser EXCEPT !.alive = @ /\ browser.wrapper = "unshare"]
    /\ UNCHANGED logins

\* send_command: the command is written; its answer is awaited.
SendCommand(step, s) ==
    /\ flow' = [flow EXCEPT !.step = step]
    /\ stream' = [s EXCEPT !.commands = Append(@, step)]
    /\ UNCHANGED <<browser, store, logins>>

\* spawn fails once the process has been started: the capture does not begin, and
\* nobody is left to kill the browser, which finds its stream closed.
SpawnAborted(w) ==
    /\ flow = NoFlow
    /\ logins < MaxLogins
    /\ logins' = logins + 1
    /\ browser' = [wrapper |-> w, alive |-> TRUE, in |-> FALSE]
    /\ UNCHANGED <<flow, stream, store>>

\* spawn, and the first command.  A capture whose spawn fails does not begin.
Capture(o, w, c) ==
    /\ flow = NoFlow
    /\ logins < MaxLogins
    /\ logins' = logins + 1
    /\ browser' = [wrapper |-> w, alive |-> TRUE, in |-> FALSE]
    /\ flow' = [origin |-> o, config |-> c, step |-> "navigate", late |-> FALSE]
    /\ stream' = [Closed EXCEPT !.commands = <<"navigate">>]
    /\ UNCHANGED store

\* The order of run_login_flow.
FollowedBy(step) ==
    CASE step = "navigate" -> "fill"
      [] step = "fill" -> "submit"
      [] step = "submit" -> IF flow.config.twofa THEN "probe" ELSE "wait"
      [] step \in {"probe", "enter"} -> "wait"
      [] step = "wait" -> "extract"

\* The next answer is taken for the answer to the last command, whichever it
\* answers; after half a frame the bytes that follow make no frame.
Taken == IF stream.torn THEN BrowserResponse(NoOrigin, "error", {})
         ELSE Head(stream.answers)

Rest == [stream EXCEPT !.answers = Tail(@)]

\* Mutant: any answer will do.
ReadOkAny ==
    /\ flow.step \in {"navigate", "fill", "submit", "enter", "wait"}
    /\ stream.answers # <<>>
    /\ SendCommand(FollowedBy(flow.step), Rest)

\* send_expect_ok: an error or a challenge ends the flow.
ReadOk ==
    /\ flow.step \in {"navigate", "fill", "submit", "enter", "wait"}
    /\ stream.answers # <<>>
    /\ IF Taken.kind \in {"ok", "data"} THEN SendCommand(FollowedBy(flow.step), Rest)
       ELSE End /\ UNCHANGED store

\* try_handle_twofa: an error, or a frame that cannot be read, is no challenge.
ReadProbe ==
    /\ flow.step = "probe"
    /\ stream.answers # <<>>
    /\ IF Taken.kind = "error" THEN SendCommand("wait", Rest)
       ELSE IF flow.config.callback
            THEN /\ flow' = [flow EXCEPT !.step = "ask"]
                 /\ stream' = Rest
                 /\ UNCHANGED <<browser, store, logins>>
       ELSE End /\ UNCHANGED store

\* The callback returns the code, or fails.
CallbackReturns ==
    /\ flow.step = "ask"
    /\ SendCommand("enter", stream) \/ (End /\ UNCHANGED store)

\* filter_cookies with the default filter, which drops tracking cookies.
FilterCookies(cookies) == cookies \ {"tracking"}

\* store_proxy_only: filtered, kept as they are, in place of those of the origin.
StoreProxyOnly(o, cookies) == [store EXCEPT ![o] = FilterCookies(cookies)]

\* extract_cookies; the cookies returned are stored for the origin.
ReadCookies ==
    /\ flow.step = "extract"
    /\ stream.answers # <<>>
    /\ End
    /\ store' = IF Taken.kind = "data" /\ Taken.cookies # {}
                THEN StoreProxyOnly(flow.origin, Taken.cookies)
                ELSE store

\* The time of a command is over.  Only the probe's flow goes on; if its answer
\* was arriving, the part that was read is lost.
Timeout ==
    /\ Waiting
    /\ IF flow.step # "probe" THEN End /\ UNCHANGED store
       ELSE \E half \in BOOLEAN :
              /\ flow' = [flow EXCEPT !.step = "wait", !.late = TRUE]
              /\ stream' = [stream EXCEPT !.torn = half, !.commands = Append(@, "wait")]
              /\ UNCHANGED <<browser, store, logins>>

\* The stream ends; the probe takes that for no challenge, and its next command
\* cannot be written.
BrowserEof ==
    /\ Waiting
    /\ ~browser.alive /\ stream.answers = <<>>
    /\ End
    /\ UNCHANGED store

\* The caller drops the future of capture.
Cancel ==
    /\ flow # NoFlow
    /\ End
    /\ UNCHANGED store

-----------------------------------------------------------------------------
(* The program in the browser *)

\* What it may answer: the login is awaited until it has happened, the challenge
\* until it is shown, and either wait may be given up.
AnswerTo(command, in) ==
    LET To(kind, cookies) == BrowserResponse(command, kind, cookies) IN
    {To("error", {})} \cup
    CASE command \in {"navigate", "fill", "enter"} -> {To("ok", {})}
      [] command = "submit" -> {To("ok", {}), To("twofa", {})}
      [] command = "probe" -> IF in THEN {} ELSE {To("ok", {}), To("twofa", {})}
      [] command = "wait" -> IF in THEN {To("ok", {})} ELSE {}
      [] command = "extract" ->
            {To("ok", {}), To("data", {}),
             To("data", IF in THEN {"session", "tracking"} ELSE {"anonymous"})}

\* The site may let the browser in when the form or the code is submitted.
Obey ==
    LET command == Head(stream.commands) IN
    /\ browser.alive /\ flow # NoFlow
    /\ stream.commands # <<>>
    /\ \E in \in BOOLEAN :
          /\ in = browser.in \/ (in /\ command \in {"submit", "enter"})
          /\ browser' = [browser EXCEPT !.in = in]
          /\ \E a \in AnswerTo(command, in) :
                stream' = [stream EXCEPT !.commands = Tail(@), !.answers = Append(@, a)]
    /\ UNCHANGED <<flow, store, logins>>

\* It exits by itself, also when it finds its stream closed.
Exit ==
    /\ browser.alive
    /\ browser' = [browser EXCEPT !.alive = FALSE]
    /\ UNCHANGED <<flow, stream, store, logins>>

-----------------------------------------------------------------------------
\* The steps of the flow itself; one of them is possible while it waits.
Drive == ReadOk \/ ReadProbe \/ ReadCookies \/ Timeout \/ BrowserEof

BrowserNext ==
    \/ \E o \in Origin, w \in Wrapper, c \in Config : Capture(o, w, c)
    \/ \E w \in Wrapper : SpawnAborted(w)
    \/ Drive
    \/ CallbackReturns
    \/ Cancel
    \/ Obey
    \/ Exit

BrowserSpec == BrowserInit /\ [][BrowserNext]_browserVars

\* Timers fire and the task is polled; nothing is assumed of the browser, of the
\* site or of the user.
BrowserFairness == WF_browserVars(Drive)

-----------------------------------------------------------------------------
(* Properties *)

\* Whatever answers come late, what is stored is the session of a browser the site
\* let in: cookies are taken only from the answer to ExtractCookies, after
\* the login was seen, although answers are matched by their order alone
\* (try_handle_twofa, send_expect_ok, extract_cookies).
SessionStored ==
    \A o \in Origin : store[o] \in {{}, {"session"}}

\* A capture ends, whatever the browser does or leaves undone, unless the user
\* never answers the callback; and on every way out of a capture that has begun,
\* cancellation included, a browser under bwrap is gone with it (the timeouts of
\* send_expect_ok and extract_cookies, kill, Drop for SandboxedProcess).
CaptureEnds ==
    []<>(flow.step # "ask") =>
        [](flow # NoFlow => <>(flow = NoFlow /\ (browser.wrapper = "bwrap" => ~browser.alive)))

=============================================================================
