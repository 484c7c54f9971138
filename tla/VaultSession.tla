---------------------------- MODULE VaultSession ----------------------------
(***************************************************************************)
(* The vault subprocess (crates/cdp-vault): SubprocessManager, on whose    *)
(* mutex the tasks of the Gate queue up to exchange one command and one    *)
(* answer with the worker over a socket pair, and the worker itself, which *)
(* answers command by command from a Bitwarden session.  Answers carry     *)
(* nothing that names their command: position in the stream is all that    *)
(* connects the two.  A frame is a length and then a payload; an answer    *)
(* longer than the buffers arrives in parts.  The worker may die at any    *)
(* time; a task may be dropped at any await, as hyper does with a request  *)
(* whose client has closed the connection.                                 *)
(***************************************************************************)
EXTENDS Integers, Sequences

CONSTANTS
    Task,         \* tasks of the Gate that share the SubprocessManager
    Ref,          \* identifiers of vault items
    TooLong,      \* those whose command exceeds MAX_MESSAGE_SIZE
    None,         \* no task, no command, no answer
    MaxCommands,  \* bound: commands started after Init
    MaxDropped    \* bound: tasks dropped while their answer is outstanding

ASSUME NoneAssumption == None \notin Task
ASSUME RefAssumption == TooLong \subseteq Ref \ {None}
ASSUME BoundAssumption == MaxCommands \in Nat /\ MaxDropped \in Nat

VARIABLES
    status,    \* SubprocessInner::status
    holder,    \* the task that holds the mutex, or None
    tasks,     \* each task: where in send_command, its command and its answer
    spawned,   \* SubprocessManager::spawn: "new", "init", "ready" or "failed"
    commands,  \* the stream to the worker
    answers,   \* the stream from the worker
    torn,      \* the length of the first answer is gone, the payload is not
    worker,    \* the worker: running, Init received, vault session open
    started,   \* commands started so far
    dropped    \* commands written whose task went away before the answer

vars == <<status, holder, tasks, spawned, commands, answers, torn, worker, started, dropped>>

-----------------------------------------------------------------------------
(* Messages *)

\* VaultCommand
Command ==
    [cmd : {"init", "unlock", "list"}, ref : {None}] \cup [cmd : {"fetch", "exists"}, ref : Ref]

\* VaultResponse; the payload of Ok is determined by the command that asked.
Answer == [status : {"ok", "error"}, of : Command]

\* Answers that may exceed the 8 KB buffers on the way, so that their payload
\* arrives after their length: lists, items, and what bw wrote to stderr.
Long(a) == a.status = "error" \/ a.of.cmd \in {"list", "fetch"}

Idle == [at |-> "idle", command |-> None, answer |-> None]

\* A task that has a command to send and waits for the mutex.
Queued(c) == [at |-> "lock", command |-> c, answer |-> None]

Init ==
    /\ status = "locked"
    /\ holder = None
    /\ tasks = [t \in Task |-> Idle]
    /\ spawned = "new"
    /\ commands = <<>> /\ answers = <<>> /\ torn = FALSE
    /\ worker = [alive |-> TRUE, key |-> FALSE, session |-> FALSE]
    /\ started = 0 /\ dropped = 0

At(t, place) == tasks[t].at = place

\* Task t leaves send_command, and its guard the mutex, with `answer`; None
\* stands for an error of its own.
Leave(t, answer) ==
    /\ tasks' = [tasks EXCEPT ![t].at = "done", ![t].answer = answer]
    /\ holder' = IF holder = t THEN None ELSE holder

-----------------------------------------------------------------------------
(* The operations of SubprocessManager *)

\* spawn has the socket and the process and sends Init.
Spawn(t) ==
    /\ spawned = "new"
    /\ At(t, "idle")
    /\ spawned' = "init"
    /\ tasks' = [tasks EXCEPT ![t] = Queued([cmd |-> "init", ref |-> None])]
    /\ UNCHANGED <<status, holder, commands, answers, torn, worker, started, dropped>>

\* unlock, list_credentials, fetch or exists is called.
Begin(t, c) ==
    /\ spawned = "ready"
    /\ c.cmd # "init"
    /\ At(t, "idle")
    /\ started < MaxCommands
    /\ started' = started + 1
    /\ tasks' = [tasks EXCEPT ![t] = Queued(c)]
    /\ UNCHANGED <<status, holder, spawned, commands, answers, torn, worker, dropped>>

\* The mutex is taken; a crash noticed before is an error at once.
Lock(t) ==
    /\ At(t, "lock")
    /\ holder = None
    /\ IF status = "crashed" THEN Leave(t, None)
       ELSE holder' = t /\ tasks' = [tasks EXCEPT ![t].at = "write"]
    /\ UNCHANGED <<status, spawned, commands, answers, torn, worker, started, dropped>>

\* Mutant: the mutex guards the writer only.
WriteUnguarded(t) ==
    /\ At(t, "write")
    /\ IF worker.alive /\ tasks[t].command.ref \notin TooLong
       THEN /\ commands' = Append(commands, tasks[t].command)
            /\ tasks' = [tasks EXCEPT ![t].at = "read"]
            /\ holder' = None
            /\ UNCHANGED status
       ELSE /\ status' = "crashed"
            /\ Leave(t, None)
            /\ UNCHANGED commands
    /\ UNCHANGED <<spawned, answers, torn, worker, started, dropped>>

\* write_message refuses what is too long and fails if the worker has closed its
\* end; either is a crash to send_command.  Other commands are small and few
\* are under way, so the socket takes the frame at once.
Write(t) ==
    /\ At(t, "write")
    /\ IF worker.alive /\ tasks[t].command.ref \notin TooLong
       THEN /\ commands' = Append(commands, tasks[t].command)
            /\ tasks' = [tasks EXCEPT ![t].at = "read"]
            /\ UNCHANGED <<status, holder>>
       ELSE /\ status' = "crashed"
            /\ Leave(t, None)
            /\ UNCHANGED commands
    /\ UNCHANGED <<spawned, answers, torn, worker, started, dropped>>

\* read_message takes a length.  In a torn stream it takes four characters of a
\* JSON text, a number above MAX_MESSAGE_SIZE: a protocol error, and a crash to
\* send_command though the worker runs.  The rest of a text of more than 8 KB
\* stays, so that the stream is never in step again.
ReadLength(t) ==
    /\ At(t, "read")
    /\ answers # <<>>
    /\ IF torn
       THEN /\ status' = "crashed"
            /\ Leave(t, None)
       ELSE /\ tasks' = [tasks EXCEPT ![t].at = "payload"]
            /\ UNCHANGED <<status, holder>>
    /\ UNCHANGED <<spawned, commands, answers, torn, worker, started, dropped>>

\* read_message takes the payload of the next answer, whosever it is.
ReadPayload(t) ==
    /\ At(t, "payload")
    /\ answers # <<>>
    /\ Leave(t, Head(answers))
    /\ answers' = Tail(answers)
    /\ UNCHANGED <<status, spawned, commands, torn, worker, started, dropped>>

\* Mutant: the end of the stream is waited out.
ReadEofIgnored(t) ==
    /\ ~worker.alive
    /\ At(t, "read") /\ answers = <<>>
    /\ UNCHANGED vars

\* read_message meets the end of the stream, before an answer or in the last
\* one, which the worker did not live to write in full.
ReadEof(t) ==
    /\ ~worker.alive
    /\ \/ At(t, "read") /\ answers = <<>>
       \/ At(t, "payload") /\ Len(answers) = 1 /\ Long(Head(answers))
    /\ Leave(t, None)
    /\ status' = "crashed"
    /\ answers' = <<>>
    /\ UNCHANGED <<spawned, commands, torn, worker, started, dropped>>

\* The operation returns, except that unlock first takes the mutex once more.
\* spawn and unlock look at no answer but only at errors of send_command.
Return(t) ==
    LET c == tasks[t].command.cmd
        failed == tasks[t].answer = None
    IN
    /\ At(t, "done")
    /\ tasks' = [tasks EXCEPT ![t] =
          IF c = "unlock" /\ ~failed THEN [@ EXCEPT !.at = "relock"] ELSE Idle]
    /\ spawned' = IF c # "init" THEN spawned ELSE IF failed THEN "failed" ELSE "ready"
    /\ UNCHANGED <<status, holder, commands, answers, torn, worker, started, dropped>>

\* unlock's second lock section, whatever the status has become meanwhile.
SetUnlocked(t) ==
    /\ At(t, "relock")
    /\ holder = None
    /\ status' = "unlocked"
    /\ tasks' = [tasks EXCEPT ![t] = Idle]
    /\ UNCHANGED <<holder, spawned, commands, answers, torn, worker, started, dropped>>

\* The task's future is dropped at an await: its guard lets the mutex go, and a
\* command already written will still be answered.  A task that waits for the
\* payload takes the length with it.
Drop(t) ==
    /\ tasks[t].at \in {"lock", "write", "read", "payload", "relock"}
    /\ tasks[t].command.cmd # "init"
    /\ At(t, "payload") => Long(Head(answers))
    /\ dropped < MaxDropped
    /\ dropped' = IF tasks[t].at \in {"read", "payload"} THEN dropped + 1 ELSE dropped
    /\ torn' = (torn \/ At(t, "payload"))
    /\ holder' = IF holder = t THEN None ELSE holder
    /\ tasks' = [tasks EXCEPT ![t] = Idle]
    /\ UNCHANGED <<status, spawned, commands, answers, worker, started>>

-----------------------------------------------------------------------------
(* vault_worker_main *)

\* bw is run to its end; it may not start, fail, or print what does not parse.
Execute == {"ok", "error"}

\* encrypt_value needs the key that Init brought.
Encryptable == worker.key

\* What BitwardenBackend may return for c: unlock opens a session, everything
\* else needs one, and fetch encrypts what it found.
Backend(c) ==
    IF \/ c.cmd = "unlock"
       \/ c.cmd \in {"list", "exists"} /\ worker.session
       \/ c.cmd = "fetch" /\ worker.session /\ Encryptable
    THEN Execute ELSE {"error"}

\* dispatch: Init only stores the key, everything else is up to the backend.
Dispatch(c) == IF c.cmd = "init" THEN {"ok"} ELSE Backend(c)

\* One round of the command loop: read, dispatch, answer.
Work(outcome) ==
    LET c == Head(commands) IN
    /\ worker.alive
    /\ commands # <<>>
    /\ outcome \in Dispatch(c)
    /\ commands' = Tail(commands)
    /\ answers' = Append(answers, [status |-> outcome, of |-> c])
    /\ worker' = [worker EXCEPT
          !.key = @ \/ c.cmd = "init",
          !.session = @ \/ (c.cmd = "unlock" /\ outcome = "ok")]
    /\ UNCHANGED <<status, holder, tasks, spawned, torn, started, dropped>>

\* The worker exits (its sandbox fails, an I/O error) or is killed; what it had
\* written can still be read, what it had not read is lost.
Die ==
    /\ worker.alive
    /\ worker' = [worker EXCEPT !.alive = FALSE]
    /\ commands' = <<>>
    /\ UNCHANGED <<status, holder, tasks, spawned, answers, torn, started, dropped>>

-----------------------------------------------------------------------------
Step(t) ==
    \/ Lock(t) \/ Write(t) \/ ReadLength(t) \/ ReadPayload(t) \/ ReadEof(t)
    \/ Return(t) \/ SetUnlocked(t)

Worker == \E o \in {"ok", "error"} : Work(o)

Next ==
    \/ \E t \in Task : Spawn(t) \/ Step(t) \/ Drop(t)
    \/ \E t \in Task, c \in Command : Begin(t, c)
    \/ Worker
    \/ Die

Spec == Init /\ [][Next]_vars

\* The runtime polls every task, and tokio's mutex serves them in the order in
\* which they asked, so that none is passed over for ever.  That bw ends is
\* assumed: BwCliExecutor waits for it without a timeout.
FairSpec ==
    /\ Spec
    /\ \A t \in Task : SF_vars(Step(t))
    /\ WF_vars(Worker)

-----------------------------------------------------------------------------
(* Properties *)

TypeOK ==
    /\ status \in {"locked", "unlocked", "crashed"}
    /\ holder \in Task \cup {None}
    /\ tasks \in [Task ->
          [at : {"idle", "lock", "write", "read", "payload", "done", "relock"},
           command : Command \cup {None}, answer : Answer \cup {None}]]
    /\ spawned \in {"new", "init", "ready", "failed"}
    /\ commands \in Seq(Command) /\ answers \in Seq(Answer) /\ torn \in BOOLEAN
    /\ worker \in [alive : BOOLEAN, key : BOOLEAN, session : BOOLEAN]
    /\ started \in Nat /\ dropped \in Nat

\* No task gets the answer to another task's command (send_command): as long as
\* no task was dropped between its write and its read, the answer with which a
\* task leaves the mutex is the answer to what it wrote.
AnswersMatch ==
    dropped = 0 => \A t \in Task :
        tasks[t].answer # None => tasks[t].answer.of = tasks[t].command

\* The command whose task waits for the answer.
InFlight == IF holder # None /\ tasks[holder].at \in {"read", "payload"} THEN 1 ELSE 0

\* The stream never recovers from a dropped task, and never gets worse by itself
\* (send_command, vault_worker_main): while the worker runs, what is under way
\* is the command of the task that waits, and one for each dropped one.  Only in
\* a torn stream is there more, since tasks then fail with their answers to come.
AnswersLag ==
    worker.alive =>
        /\ Len(commands) + Len(answers) >= dropped + InFlight
        /\ ~torn => Len(commands) + Len(answers) = dropped + InFlight

\* Errors of bw do not take the vault down (send_command): the status turns to
\* Crashed only once the worker is gone, unless a task was dropped between the
\* length and the payload of its answer, or a command was too long to send.
CrashedIsDead == status = "crashed" /\ ~torn /\ TooLong = {} => ~worker.alive

\* Every command returns, with an answer or an error, however many tasks queue
\* for the mutex, are dropped in it, and wherever the worker dies (send_command,
\* unlock, vault_worker_main).
CommandReturns == \A t \in Task : ~At(t, "idle") ~> At(t, "idle")

=============================================================================
