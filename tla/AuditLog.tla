------------------------------ MODULE AuditLog ------------------------------
(***************************************************************************)
(* The audit log (crates/cdp-audit) and the task of the Gate's main that   *)
(* feeds it: a channel of events, an append-only file of hash-chained      *)
(* lines, writes that may fail half way, crashes, and the restart that     *)
(* resumes from the last line.  A write puts the entry and its newline on  *)
(* disk in two system calls, so a line can be left without its newline.    *)
(***************************************************************************)
EXTENDS Integers, Sequences

CONSTANTS
    Event,        \* events, each sent once
    Genesis,      \* the prev_hash of the first entry
    Garbled,      \* a line that is not the JSON of one entry
    NoEntry,         \* no entry
    WriteMayFail  \* whether write(2) may fail (a full disk)

ASSUME WriteAssumption == WriteMayFail \in BOOLEAN

VARIABLES
    unsent,    \* events no component has reported yet
    queue,     \* the channel from the components to the logger task
    file,      \* the lines on disk
    ended,     \* whether the last line has its newline (or there is none)
    state,     \* the task: "down", "starting", "open", or "failed" to open the log
    sequence,  \* AuditLogger::sequence
    prevHash,  \* AuditLogger::prev_hash
    step,      \* where log is: "idle", or writing the "line" or its "newline"
    entry      \* the entry log is writing, or NoEntry

logVars == <<unsent, queue, file, ended, state, sequence, prevHash, step, entry>>

-----------------------------------------------------------------------------
\* compute_entry_hash: every field but the hash itself, free of collisions.
Hash(seq, event, prev) == <<seq, event, prev>>

Entry(seq, event, prev) ==
    [seq |-> seq, event |-> event, prev |-> prev, hash |-> Hash(seq, event, prev)]

\* The last line of f, if there is one.
Last(f) == f[Len(f)]

\* Text goes to a new line, unless it runs on in a line that was not ended.
Appended(text) == IF ended THEN Append(file, text) ELSE [file EXCEPT ![Len(file)] = Garbled]

LogInit ==
    /\ unsent = Event
    /\ queue = <<>>
    /\ file = <<>>
    /\ ended = TRUE
    /\ state = "down"
    /\ sequence = 0
    /\ prevHash = Genesis
    /\ step = "idle"
    /\ entry = NoEntry

-----------------------------------------------------------------------------
(* AuditLogger::new *)

\* The Gate starts: the channel is made and the logger task spawned.
Start ==
    /\ state = "down"
    /\ state' = "starting"
    /\ UNCHANGED <<unsent, queue, file, ended, sequence, prevHash, step, entry>>

\* Mutant: the sequence is taken to be the number of lines.
OpenCounting ==
    /\ state = "starting"
    /\ IF file = <<>>
       THEN state' = "open" /\ sequence' = 0 /\ prevHash' = Genesis
       ELSE IF Last(file) = Garbled
       THEN state' = "failed" /\ UNCHANGED <<sequence, prevHash>>
       ELSE state' = "open" /\ sequence' = Len(file) /\ prevHash' = Last(file).hash
    /\ UNCHANGED <<unsent, queue, file, ended, step, entry>>

\* read_last_entry_state: only the last line is read, and if it cannot be parsed
\* the log is not opened.
Open ==
    /\ state = "starting"
    /\ IF file = <<>>
       THEN state' = "open" /\ sequence' = 0 /\ prevHash' = Genesis
       ELSE IF Last(file) = Garbled
       THEN state' = "failed" /\ UNCHANGED <<sequence, prevHash>>
       ELSE state' = "open" /\ sequence' = Last(file).seq /\ prevHash' = Last(file).hash
    /\ UNCHANGED <<unsent, queue, file, ended, step, entry>>

-----------------------------------------------------------------------------
(* The channel *)

\* A component reports e; it does not notice whether the log is open.
Send(e) ==
    /\ state # "down"
    /\ e \in unsent
    /\ unsent' = unsent \ {e}
    /\ queue' = Append(queue, e)
    /\ UNCHANGED <<file, ended, state, sequence, prevHash, step, entry>>

\* Mutant: once the log could not be opened, the channel is left alone.
DiscardNothing ==
    /\ state = "failed"
    /\ queue # <<>>
    /\ UNCHANGED logVars

\* The log could not be opened: events are received and dropped.
Discard ==
    /\ state = "failed"
    /\ queue # <<>>
    /\ queue' = Tail(queue)
    /\ UNCHANGED <<unsent, file, ended, state, sequence, prevHash, step, entry>>

-----------------------------------------------------------------------------
(* AuditLogger::log *)

\* Mutant: prev_hash is advanced before the entry is on disk.
LogEager ==
    /\ state = "open" /\ step = "idle"
    /\ queue # <<>>
    /\ queue' = Tail(queue)
    /\ sequence' = sequence + 1
    /\ step' = "line"
    /\ entry' = Entry(sequence + 1, Head(queue), prevHash)
    /\ prevHash' = entry'.hash
    /\ UNCHANGED <<unsent, file, ended, state>>

\* The sequence is advanced and the entry chained to the previous hash.
Log ==
    /\ state = "open" /\ step = "idle"
    /\ queue # <<>>
    /\ queue' = Tail(queue)
    /\ sequence' = sequence + 1
    /\ step' = "line"
    /\ entry' = Entry(sequence + 1, Head(queue), prevHash)
    /\ UNCHANGED <<unsent, file, ended, state, prevHash>>

\* log returns.
LogReturn == step' = "idle" /\ entry' = NoEntry

WriteLine ==
    /\ step = "line"
    /\ file' = Appended(entry)
    /\ ended' = FALSE
    /\ step' = "newline"
    /\ UNCHANGED <<unsent, queue, state, sequence, prevHash, entry>>

\* Only now does the next entry link to this one.
WriteNewline ==
    /\ step = "newline"
    /\ ended' = TRUE
    /\ prevHash' = entry.hash
    /\ LogReturn
    /\ UNCHANGED <<unsent, queue, file, state, sequence>>

\* Of the text being written, nothing reaches the disk or, of a line, a part.
Torn ==
    \/ UNCHANGED <<file, ended>>
    \/ step = "line" /\ file' = Appended(Garbled) /\ ended' = FALSE

\* A write fails: log returns the error, which the task only reports.
WriteFails ==
    /\ WriteMayFail
    /\ step # "idle"
    /\ Torn
    /\ LogReturn
    /\ UNCHANGED <<unsent, queue, state, sequence, prevHash>>

\* The process ends, in whatever step it is; what is in the channel is lost.
Crash ==
    /\ state # "down"
    /\ state' = "down"
    /\ queue' = <<>>
    /\ Torn
    /\ LogReturn
    /\ UNCHANGED <<unsent, sequence, prevHash>>

-----------------------------------------------------------------------------
Logger == Open \/ Discard \/ Log \/ WriteLine \/ WriteNewline

LogNext ==
    \/ Start
    \/ \E e \in Event : Send(e)
    \/ Logger
    \/ WriteFails
    \/ Crash

LogSpec == LogInit /\ [][LogNext]_logVars

\* The runtime polls the logger task as long as the process lives.
LogFairSpec == LogSpec /\ WF_logVars(Logger)

-----------------------------------------------------------------------------
(* verify_chain *)

\* Whether line i of f is an entry that agrees with its hash and its predecessor.
Linked(f, i) ==
    /\ f[i].prev = IF i = 1 THEN Genesis ELSE f[i - 1].hash
    /\ f[i].hash = Hash(f[i].seq, f[i].event, f[i].prev)

\* The verdict is that of the first line with a problem.
VerifyChain(f) ==
    LET parsed(i) == \A j \in 1..i : f[j] # Garbled
        bad == {i \in 1..Len(f) : f[i] = Garbled \/ (parsed(i) /\ ~Linked(f, i))}
        first == CHOOSE i \in bad : \A j \in bad : i <= j
    IN
    IF f = <<>> THEN "empty"
    ELSE IF bad = {} THEN "valid"
    ELSE IF f[first] = Garbled THEN "invalid entry"
    ELSE "broken"

-----------------------------------------------------------------------------
(* Properties *)

LogTypeOK ==
    /\ unsent \subseteq Event
    /\ queue \in Seq(Event)
    /\ ended \in BOOLEAN
    /\ state \in {"down", "starting", "open", "failed"}
    /\ sequence \in Nat
    /\ step \in {"idle", "line", "newline"}

\* No false alarm (log, new, verify_chain): whatever writes fail and whenever
\* the process ends and restarts, verify_chain never reports a broken link on a
\* log nobody else has touched; damage shows as a line that does not parse.
NoFalseAlarm ==
    \A i \in 1..Len(file) :
        (\A j \in 1..i : file[j] # Garbled) => Linked(file, i)

\* Sequence numbers never repeat nor go back along the file, across failed
\* writes, crashes and restarts (log, read_last_entry_state).
SequenceIncreases ==
    \A i, j \in 1..Len(file) :
        i < j /\ file[i] # Garbled /\ file[j] # Garbled => file[i].seq < file[j].seq

\* The channel is unbounded and never fills up for good: an event that was sent
\* leaves it, also when the log could not be opened (main's logger task).
QueueDrains == \A e \in Event :
    (\E i \in 1..Len(queue) : queue[i] = e) ~> ~(\E i \in 1..Len(queue) : queue[i] = e)

-----------------------------------------------------------------------------
(* What the documentation says and the code does not do; see README.md *)

\* "the logger resumes from the last recorded sequence number and hash so the
\* chain remains intact" (cdp-audit/src/logger.rs:253).
ResumedChainIntact ==
    state = "open" /\ step = "idle" => VerifyChain(file) \in {"empty", "valid"}

=============================================================================
