----------------------------- MODULE MCWorkers -----------------------------
(***************************************************************************)
(* Small instances for TLC of the workers the Gate talks to over a queue   *)
(* or a stream, the audit logger, the vault subprocess and the browser     *)
(* with the intercepting proxy, of the file vault, and of the command that *)
(* cdp-wrap runs.                                                          *)
(* They share no state; a behaviour is one of one of them, chosen at the   *)
(* start.                                                                  *)
(***************************************************************************)
EXTENDS VaultSession, AuditLog, MitmProxy, CliWrap, DevVault

VARIABLE shown  \* the worker this behaviour is about

allVars == <<shown, vars, logVars, browserVars, mitmVars, wrapVars, fileVars>>

MCConfig == {[twofa |-> FALSE, callback |-> FALSE], [twofa |-> TRUE, callback |-> FALSE],
             [twofa |-> TRUE, callback |-> TRUE]}

MCAsk == {[head |-> <<"line", "line", "crlf">>, body |-> <<"text">>]}

MCMessage ==
    {[head |-> <<"line", "crlf">>, body |-> <<>>],
     [head |-> <<"line", "set", "crlf">>, body |-> <<"text">>],
     [head |-> <<"line", "set", "crlf">>, body |-> <<"set", "crlf">>]}

\* Commands that write up to three lines.
MCScript ==
    UNION {[1..n -> [pipe : Pipe, line : {"plain", "binary"}]] : n \in 0..3}

MCSize == [m1 |-> 2, m2 |-> 3]

MCStored == [m1 |-> {"e1"}, m2 |-> {"e2"}]

WorkersInit ==
    /\ shown \in {"vault", "audit", "browser", "wrap", "file"}
    /\ Init /\ LogInit /\ BrowserInit /\ MitmInit /\ WrapInit /\ FileInit

VaultStep == shown = "vault" /\ Next /\ UNCHANGED <<logVars, browserVars, mitmVars, wrapVars, fileVars>>

AuditStep == shown = "audit" /\ LogNext /\ UNCHANGED <<vars, browserVars, mitmVars, wrapVars, fileVars>>

\* A login and the opening of a connection interleave; once a connection has
\* carried data neither depends on the other.
BrowserStep ==
    /\ shown = "browser" /\ asks.heads \cup says.heads = {}
    /\ BrowserNext
    /\ UNCHANGED <<vars, logVars, mitmVars, wrapVars, fileVars>>

MitmStep ==
    /\ shown = "browser"
    /\ Connect \/ (flow = NoFlow /\ (Exchange \/ Forward))
    /\ UNCHANGED <<vars, logVars, browserVars, wrapVars, fileVars>>

WrapStep ==
    /\ shown = "wrap" /\ WrapNext
    /\ UNCHANGED <<vars, logVars, browserVars, mitmVars, fileVars>>

FileStep == shown = "file" /\ FileNext /\ UNCHANGED <<vars, logVars, browserVars, mitmVars, wrapVars>>

WorkersNext ==
    (VaultStep \/ AuditStep \/ BrowserStep \/ MitmStep \/ WrapStep \/ FileStep) /\ UNCHANGED shown

WorkersSpec ==
    /\ WorkersInit /\ [][WorkersNext]_allVars
    /\ \A t \in Task : SF_vars(shown = "vault" /\ Step(t))
    /\ WF_vars(shown = "vault" /\ Worker)
    /\ WF_logVars(shown = "audit" /\ Logger)
    /\ WF_browserVars(shown = "browser" /\ Drive)
    /\ WF_wrapVars(shown = "wrap" /\ (WrapRun \/ ChildRun))
    /\ \A p \in Pipe : WF_wrapVars(shown = "wrap" /\ Reader(p))

=============================================================================
