---------------------------- MODULE PolicyEngine ----------------------------
(***************************************************************************)
(* The policy engine of the Gate (crates/cdp-policy): the policy files and *)
(* whoever edits them, the watcher task that reloads them (watcher.rs), the *)
(* evaluator behind its lock (evaluator.rs, lib.rs), and the requests that *)
(* are decided by it or by the user in a dialog process (approval.rs).     *)
(*                                                                         *)
(* A policy set is kept per file: what it holds for file f is the sequence *)
(* of entries that was read from f.  Files are numbered in the order in    *)
(* which load_policies_from_dir sorts them.                                *)
(***************************************************************************)
EXTENDS ScopeRules, SequencesExt

CONSTANTS
    NumFiles,       \* the policy files are 1..NumFiles
    Content,        \* what a file may parse to: sequences of entries
    Initial,        \* what the directory may hold at the start
    Garbled,        \* a file that cannot be read or does not parse
    Malformed,      \* a hash that parse_binary_hash refuses
    Wildcard,       \* the credential_ref "*"
    Agent,          \* agents: records of hash, path and agent_id
    Credential,     \* credentials requested
    Requested,      \* scopes requested
    Task,           \* connection tasks
    Gui,            \* dialog commands that may be configured or detected, or None
    ProtocolRenewals, ProtocolCumulative,  \* 3 and 14400 (parser.rs:339, 349)
    MaxName,        \* 128 (parser.rs:297)
    ChannelSize,    \* 4   (lib.rs:162)
    MaxEdits,       \* bound: changes of the directory
    MaxDialogs      \* bound: dialogs opened

\* An entry of a policy file: its name by its length; match, by which an agent is
\* recognised and for which credential; allow, with the two limits that are
\* validated; the approval mode.
PolicyEntry(e) ==
    /\ DOMAIN e = {"name", "hash", "path", "id", "cred", "mode",
                   "allow", "maxRenewals", "maxCumulative"}
    /\ e.name \in Nat
    /\ {e.maxRenewals, e.maxCumulative} \subseteq Nat \cup {None}
    /\ DOMAIN e.allow = {"hosts", "methods", "paths", "forbidden"}

ASSUME EngineAssumption ==
    /\ \A c \in Content : DOMAIN c = 1..Len(c) /\ \A i \in DOMAIN c : PolicyEntry(c[i])
    /\ Initial \subseteq [1..NumFiles -> Content \cup {Garbled, None}]
    /\ NumFiles \in Nat /\ ChannelSize \in Nat \ {0}
    /\ MaxEdits \in Nat /\ MaxDialogs \in Nat
    /\ Garbled \notin Content /\ None \notin Content
    /\ Gui \subseteq {"kdialog", "zenity", "osascript", None} /\ None \notin Nat

VARIABLES
    disk,      \* per file its content, Garbled, or None when it is not there
    edits,     \* changes of the directory so far
    watch,     \* the watcher task
    channel,   \* the policy sets on their way to the evaluator
    policies,  \* PolicyEvaluator::policies
    tasks,     \* the requests being decided
    gui,       \* the dialog command in use, or None when there is none to use
    dialogs,   \* the dialog processes started, with their exit status
    seen       \* history: per file, every content it had

vars == <<disk, edits, watch, channel, policies, tasks, gui, dialogs, seen>>

File == 1..NumFiles

-----------------------------------------------------------------------------
(* load_policies_from_dir *)

\* An entry that approves by itself must name a hash, whatever else it names;
\* that the hash is well-formed is not looked at.  A blank credential_ref is None.
ValidatePolicy(e) ==
    /\ 0 < e.name /\ e.name <= MaxName
    /\ e.cred # None
    /\ e.mode \in {"auto", "prompt"}
    /\ e.mode = "auto" => e.hash # None
    /\ e.maxRenewals = None \/ e.maxRenewals <= ProtocolRenewals
    /\ e.maxCumulative = None \/ e.maxCumulative <= ProtocolCumulative

\* One bad file or entry fails the whole load.
Loadable(c) == c # Garbled /\ \A i \in DOMAIN c : ValidatePolicy(c[i])

\* The set in force once all files were read at rest.
InForce(d) == [f \in File |-> IF d[f] = None THEN <<>> ELSE d[f]]

NoSet == [f \in File |-> <<>>]

-----------------------------------------------------------------------------
(* PolicyEvaluator::evaluate *)

CredentialRefMatches(e, cred) == e.cred \in {Wildcard, cred}

\* The passes over all entries, and what each looks for.
Pass == 1..3

ByHash(e, a) == e.hash \notin {None, Malformed} /\ e.hash = a.hash
ByPath(e, a) == e.path # None /\ e.path = a.path
ById(e, a) == e.id # None /\ a.id # None /\ e.id = a.id

Recognises(e, a, pass) ==
    \/ pass = 1 /\ ByHash(e, a)
    \/ pass = 2 /\ ByPath(e, a)
    \/ pass = 3 /\ ById(e, a)

\* The first entry for the credential, in the order of files and of entries, that
\* matches the agent in the first pass in which any does, or None.
Matching(set, a, cred) ==
    LET At(pass, f) == {i \in DOMAIN set[f] : /\ CredentialRefMatches(set[f][i], cred)
                                             /\ Recognises(set[f][i], a, pass)}
        In(pass) == {f \in File : At(pass, f) # {}}
        passes == {pass \in Pass : In(pass) # {}}
        pass == Min(passes)
        f == Min(In(pass))
    IN  IF passes = {} THEN None ELSE set[f][Min(At(pass, f))]

\* build_decision for the matching entry.
Decision(e, want) ==
    IF e = None \/ Denied(want, e.allow) THEN "denied"
    ELSE IF e.mode = "auto" THEN "granted" ELSE "prompt"

-----------------------------------------------------------------------------
(* What the dialog tools tell by their exit status and output *)

\* AllowOnce and AllowTimed are both taken for a yes.  A command that is none of
\* the three is refused before a process is started.
ApprovalResult(tool, x) ==
    CASE tool = "kdialog" ->
            IF x.code \in {0, 2} THEN "allow" ELSE IF x.code = 1 THEN "deny" ELSE "error"
      [] tool = "zenity" ->
            IF x.code = 0 \/ x.out = "Allow 10min" THEN "allow" ELSE "deny"
      [] tool = "osascript" ->
            IF x.out \in {"Allow Once", "Allow 10min"} THEN "allow" ELSE "deny"

\* How each tool ends for what the user did in it: a button, or nothing when the
\* process is killed; an unknown exit code leads where no exit code does.
ExitOf(tool, button) ==
    IF button = "killed" THEN [code |-> None, out |-> ""]
    ELSE IF tool = "kdialog" THEN
        [code |-> IF button = "once" THEN 0 ELSE IF button = "deny" THEN 1 ELSE 2, out |-> ""]
    ELSE IF tool = "zenity" THEN
        [code |-> IF button = "once" THEN 0 ELSE 1,
         out |-> IF button = "timed" THEN "Allow 10min" ELSE ""]
    ELSE \* osascript
        [code |-> 0,
         out |-> IF button = "once" THEN "Allow Once"
                 ELSE IF button = "timed" THEN "Allow 10min" ELSE ""]

Button == {"once", "timed", "deny", "killed"}

-----------------------------------------------------------------------------
IdleTask == [step |-> "idle", agent |-> None, entry |-> None, dialog |-> 0]

NewWatch(step) == [step |-> step, event |-> FALSE, left |-> {}, set |-> NoSet]

\* PolicyEngine::new loads the directory, or the Gate does not start.
Init ==
    /\ disk \in {d \in Initial : \A f \in File : Loadable(InForce(d)[f])}
    /\ edits = 0
    /\ watch = NewWatch("arm")
    /\ channel = <<>>
    /\ policies = InForce(disk)
    /\ tasks = [t \in Task |-> IdleTask]
    /\ gui \in Gui
    /\ dialogs = <<>>
    /\ seen = [f \in File |-> {InForce(disk)[f]}]

-----------------------------------------------------------------------------
(* The policy directory *)

\* A file is created, changed, half-written, deleted or moved in: an event for a
\* watch that is set.
Edit(f, c) ==
    /\ edits < MaxEdits
    /\ disk[f] # c
    /\ disk' = [disk EXCEPT ![f] = c]
    /\ seen' = [seen EXCEPT ![f] = @ \cup {InForce(disk')[f]}]
    /\ edits' = edits + 1
    /\ watch' = [watch EXCEPT !.event = @ \/ watch.step = "blocked"]
    /\ UNCHANGED <<channel, policies, tasks, dialogs, gui>>

\* A file is moved out of the directory, which the watch mask leaves out.
MoveOut(f) ==
    /\ edits < MaxEdits
    /\ disk[f] # None
    /\ disk' = [disk EXCEPT ![f] = None]
    /\ seen' = [seen EXCEPT ![f] = @ \cup {<<>>}]
    /\ edits' = edits + 1
    /\ UNCHANGED <<watch, channel, policies, tasks, dialogs, gui>>

-----------------------------------------------------------------------------
(* PolicyWatcher::watch *)

\* A round begins with a new inotify instance: no event before this is seen.
WatchArm ==
    /\ watch.step = "arm"
    /\ watch' = NewWatch("blocked")
    /\ UNCHANGED <<disk, edits, channel, policies, tasks, dialogs, seen, gui>>

\* inotify fails: the watcher ends, and its channel with it.
WatchFail ==
    /\ watch.step \in {"arm", "blocked"}
    /\ watch' = NewWatch("ended")
    /\ UNCHANGED <<disk, edits, channel, policies, tasks, dialogs, seen, gui>>

\* The blocking read returns; the instance is dropped.  The debounce and the
\* search for the modifier, which only logs, follow.
WatchWake ==
    /\ watch.step = "blocked" /\ watch.event
    /\ watch' = NewWatch("settle")
    /\ UNCHANGED <<disk, edits, channel, policies, tasks, dialogs, seen, gui>>

\* The directory is listed, then its files are read one by one, in order.
WatchList ==
    /\ watch.step = "settle"
    /\ watch' = [NewWatch("load") EXCEPT !.left = {f \in File : disk[f] # None}]
    /\ UNCHANGED <<disk, edits, channel, policies, tasks, dialogs, seen, gui>>

\* A file that is gone since, or does not load, ends the reload: the previous
\* policies stay.
WatchRead ==
    LET f == Min(watch.left) IN
    /\ watch.step = "load" /\ watch.left # {}
    /\ watch' = IF disk[f] # None /\ Loadable(disk[f])
                THEN [watch EXCEPT !.left = @ \ {f}, !.set[f] = disk[f]]
                ELSE NewWatch("arm")
    /\ UNCHANGED <<disk, edits, channel, policies, tasks, dialogs, seen, gui>>

\* The bounded channel makes the watcher wait while it is full.
WatchSend ==
    /\ watch.step = "load" /\ watch.left = {}
    /\ Len(channel) < ChannelSize
    /\ channel' = Append(channel, watch.set)
    /\ watch' = NewWatch("arm")
    /\ UNCHANGED <<disk, edits, policies, tasks, dialogs, seen, gui>>

\* Mutant: the last set in the channel is thrown away, as by a loop that swaps a
\* set in only when the next one has come.
ReloadLossy ==
    /\ channel # <<>>
    /\ policies' = IF Len(channel) = 1 THEN policies ELSE Head(channel)
    /\ channel' = Tail(channel)
    /\ UNCHANGED <<disk, edits, watch, tasks, dialogs, seen, gui>>

\* start_watcher's task swaps the set in under the write lock.
Reload ==
    /\ channel # <<>>
    /\ policies' = Head(channel)
    /\ channel' = Tail(channel)
    /\ UNCHANGED <<disk, edits, watch, tasks, dialogs, seen, gui>>

-----------------------------------------------------------------------------
(* evaluate_with_approval *)

\* The decision is taken under the read lock.
Evaluate(t, a, cred, want) ==
    LET e == Matching(policies, a, cred) IN
    /\ tasks[t].step = "idle"
    /\ tasks' = [tasks EXCEPT ![t] =
          [IdleTask EXCEPT !.step = Decision(e, want), !.agent = a, !.entry = e]]
    /\ UNCHANGED <<disk, edits, watch, channel, policies, dialogs, seen, gui>>

\* prompt_user starts the dialog, showing what would be granted.
Prompt(t) ==
    /\ tasks[t].step = "prompt"
    /\ gui # None
    /\ Len(dialogs) < MaxDialogs
    /\ dialogs' = Append(dialogs, [task |-> t, exit |-> None])
    /\ tasks' = [tasks EXCEPT ![t].step = "waiting", ![t].dialog = Len(dialogs) + 1]
    /\ UNCHANGED <<disk, edits, watch, channel, policies, seen, gui>>

\* There is no dialog tool, or it could not be started.
PromptFails(t) ==
    /\ tasks[t].step = "prompt"
    /\ tasks' = [tasks EXCEPT ![t].step = "failed"]
    /\ UNCHANGED <<disk, edits, watch, channel, policies, dialogs, seen, gui>>

\* The user answers a dialog, also one whose request has timed out.
Answer(i, button) ==
    /\ dialogs[i].exit = None
    /\ dialogs' = [dialogs EXCEPT ![i].exit = ExitOf(gui, button)]
    /\ UNCHANGED <<disk, edits, watch, channel, policies, tasks, seen, gui>>

\* Mutant: any dialog of the task that was answered will do.
CollectAny(t) ==
    \E i \in DOMAIN dialogs :
    /\ tasks[t].step = "waiting"
    /\ dialogs[i].task = t /\ dialogs[i].exit # None
    /\ tasks' = [tasks EXCEPT ![t].step =
          CASE ApprovalResult(gui, dialogs[i].exit) = "allow" -> "granted"
            [] ApprovalResult(gui, dialogs[i].exit) = "deny" -> "denied"
            [] OTHER -> "failed"]
    /\ UNCHANGED <<disk, edits, watch, channel, policies, dialogs, seen, gui>>

\* The task learns how its own dialog ended.
Collect(t) ==
    LET exit == dialogs[tasks[t].dialog].exit IN
    /\ tasks[t].step = "waiting"
    /\ exit # None
    /\ tasks' = [tasks EXCEPT ![t].step =
          CASE ApprovalResult(gui, exit) = "allow" -> "granted"
            [] ApprovalResult(gui, exit) = "deny" -> "denied"
            [] OTHER -> "failed"]
    /\ UNCHANGED <<disk, edits, watch, channel, policies, dialogs, seen, gui>>

\* Mutant: the wait has no end of its own.
TimeoutNever(t) == tasks[t].step = "waiting" /\ UNCHANGED vars

\* The timeout drops the wait; the dialog process is left running, and an answer
\* the task has not learned of yet is lost.
Timeout(t) ==
    /\ tasks[t].step = "waiting"
    /\ tasks' = [tasks EXCEPT ![t].step = "failed"]
    /\ UNCHANGED <<disk, edits, watch, channel, policies, dialogs, seen, gui>>

\* The caller has taken the decision and the task serves its next request.
Return(t) ==
    /\ tasks[t].step \in {"granted", "denied", "failed"}
    /\ tasks' = [tasks EXCEPT ![t] = IdleTask]
    /\ UNCHANGED <<disk, edits, watch, channel, policies, dialogs, seen, gui>>

-----------------------------------------------------------------------------
Watch == WatchArm \/ WatchWake \/ WatchList \/ WatchRead \/ WatchSend

Serve(t) == Prompt(t) \/ PromptFails(t) \/ Collect(t) \/ Timeout(t) \/ Return(t)

Next ==
    \/ \E f \in File : MoveOut(f) \/ \E c \in Content \cup {Garbled, None} : Edit(f, c)
    \/ Watch \/ WatchFail
    \/ Reload
    \/ \E t \in Task :
          \/ \E a \in Agent, k \in Credential, w \in Requested : Evaluate(t, a, k, w)
          \/ Serve(t)
    \/ \E i \in DOMAIN dialogs, b \in Button : Answer(i, b)

Spec == Init /\ [][Next]_vars

\* The runtime polls the watcher, the reload task and the requests; a request
\* that waits is ended by its timer at the latest.  Nothing is assumed of the
\* user or of who edits the files.
FairSpec ==
    /\ Spec
    /\ WF_vars(Watch)
    /\ WF_vars(Reload)
    /\ \A t \in Task : WF_vars(Serve(t))

-----------------------------------------------------------------------------
(* Properties *)

\* Whatever was edited, half-written and reloaded meanwhile, a request is granted
\* only by an entry of a content that some file really had and that passed
\* validation; without asking only if the entry names a binary hash, and in
\* prompt mode only after its own dialog ended with an answer that allows it: no
\* answer to a dialog that had timed out, to another task's, or of a killed one
\* will do (load_policies_from_dir, evaluate_with_approval, run_gui_approval).
GrantJustified ==
    \A t \in Task : tasks[t].step = "granted" =>
        LET e == tasks[t].entry  d == tasks[t].dialog IN
        /\ \E f \in File : \E c \in seen[f] : Loadable(c) /\ e \in ToSet(c)
        /\ \/ d = 0 /\ e.mode = "auto" /\ e.hash # None
           \/ d # 0 /\ dialogs[d].task = t
                /\ dialogs[d].exit \in {ExitOf(gui, "once"), ExitOf(gui, "timed")}

\* Every request is answered although the user may never answer (timeout in
\* run_gui_approval).
RequestReturns == \A t \in Task : tasks[t].step # "idle" ~> tasks[t].step = "idle"

\* If the last change of the directory wakes the watcher, what is on disk then
\* comes into force, unless it does not load or inotify fails (watch).
SeenChangeInForce ==
    (edits = MaxEdits /\ watch.step = "blocked" /\ watch.event)
        ~> (\/ policies = InForce(disk)
            \/ watch.step = "ended"
            \/ \E f \in File : disk[f] # None /\ ~Loadable(disk[f]))

=============================================================================
