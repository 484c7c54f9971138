------------------------------ MODULE CliWrap ------------------------------
(***************************************************************************)
(* cdp-wrap running a command (cdp-cli-wrap exec.rs): the child writes     *)
(* into two pipes, a thread reads each of them line by line, cleans the    *)
(* line and prints it, and the main thread waits for the child and then    *)
(* for both threads.  A line that is not UTF-8 ends its thread, which      *)
(* closes the pipe; what the child has started in the background may hold  *)
(* the pipes open after it.                                                *)
(***************************************************************************)
EXTENDS Integers, Sequences

CONSTANTS
    Script,     \* what a child writes: sequences of a pipe and a kind of line
    PipeSize,   \* lines a pipe holds
    Detaches    \* whether a child may leave a process in the background

ASSUME WrapAssumption == PipeSize \in Nat \ {0} /\ Detaches \subseteq BOOLEAN

Pipe == {"stdout", "stderr"}

Signalled == -1  \* an exit status without a code

VARIABLES
    wrap,     \* the main thread: where it is and the exit code it returns
    child,    \* the child: where it is, how it ended and what it has yet to write
    behind,   \* whether a process it left behind holds the pipes
    pipes,    \* the lines in each pipe
    threads   \* the thread of each pipe: reading, or done

wrapVars == <<wrap, child, behind, pipes, threads>>

\* is_askpass_mode is over, the lease is there (ClientSession): run begins.
WrapInit ==
    /\ wrap = [step |-> "spawn", code |-> 0]
    /\ child = [step |-> "none", status |-> 0, left |-> <<>>]
    /\ behind = FALSE
    /\ pipes = [p \in Pipe |-> <<>>]
    /\ threads = [p \in Pipe |-> "reading"]

-----------------------------------------------------------------------------
(* CommandExecutor::run *)

\* The command is built and the child spawned.
Spawned(script) ==
    /\ wrap.step = "spawn"
    /\ wrap' = [wrap EXCEPT !.step = "wait"]
    /\ child' = [child EXCEPT !.step = "runs", !.left = script]
    /\ UNCHANGED <<behind, pipes, threads>>

\* harden_current_process or the spawning of the command fails.
SpawnFails ==
    /\ wrap.step = "spawn"
    /\ wrap' = [step |-> "exited", code |-> 1]
    /\ UNCHANGED <<child, behind, pipes, threads>>

\* Mutant: one thread, which reads stderr when it is done with stdout.
ThreadReadsInTurn(p) ==
    /\ threads[p] = "reading" /\ pipes[p] # <<>>
    /\ p = "stderr" => threads["stdout"] = "done"
    /\ pipes' = [pipes EXCEPT ![p] = Tail(@)]
    /\ threads' = [threads EXCEPT ![p] = IF Head(pipes[p]) = "binary" THEN "done" ELSE @]
    /\ UNCHANGED <<wrap, child, behind>>

\* A line is cleaned and printed; one that is not UTF-8 ends the loop, and the
\* pipe is closed.
ThreadReads(p) ==
    /\ threads[p] = "reading" /\ pipes[p] # <<>>
    /\ IF Head(pipes[p]) = "binary"
       THEN /\ threads' = [threads EXCEPT ![p] = "done"]
            /\ pipes' = [pipes EXCEPT ![p] = <<>>]
       ELSE /\ pipes' = [pipes EXCEPT ![p] = Tail(@)]
            /\ UNCHANGED threads
    /\ UNCHANGED <<wrap, child, behind>>

\* End of file: nobody holds the other end.
ThreadEnds(p) ==
    /\ threads[p] = "reading" /\ pipes[p] = <<>>
    /\ child.step = "ended" /\ ~behind
    /\ threads' = [threads EXCEPT ![p] = "done"]
    /\ UNCHANGED <<wrap, child, behind, pipes>>

\* child.wait returns.
Waited ==
    /\ wrap.step = "wait" /\ child.step = "ended"
    /\ wrap' = [wrap EXCEPT !.step = "join"]
    /\ UNCHANGED <<child, behind, pipes, threads>>

\* Both threads are joined; a child killed by a signal has no code.
Joins ==
    /\ wrap.step = "join" /\ \A p \in Pipe : threads[p] = "done"
    /\ wrap' = [step |-> "exited", code |-> IF child.status = Signalled THEN 1 ELSE child.status]
    /\ UNCHANGED <<child, behind, pipes, threads>>

-----------------------------------------------------------------------------
(* The child *)

\* It ends, and may leave a process behind.
ChildEnds(status) ==
    /\ child' = [child EXCEPT !.step = "ended", !.status = status]
    /\ behind' \in Detaches

\* It writes its next line, once there is room; a closed pipe kills it, or fails the
\* write if it ignores the signal.
ChildWrites ==
    LET w == Head(child.left) IN
    /\ child.step = "runs" /\ child.left # <<>>
    /\ \/ threads[w.pipe] = "done" /\ ChildEnds(Signalled) /\ UNCHANGED pipes
       \/ /\ threads[w.pipe] = "done" \/ Len(pipes[w.pipe]) < PipeSize
          /\ pipes' = IF threads[w.pipe] = "done" THEN pipes
                      ELSE [pipes EXCEPT ![w.pipe] = Append(@, w.line)]
          /\ child' = [child EXCEPT !.left = Tail(@)]
          /\ UNCHANGED behind
    /\ UNCHANGED <<wrap, threads>>

ChildExits ==
    /\ child.step = "runs" /\ child.left = <<>>
    /\ \E code \in {0, 3} : ChildEnds(code)
    /\ UNCHANGED <<wrap, pipes, threads>>

ChildKilled ==
    /\ child.step = "runs"
    /\ ChildEnds(Signalled)
    /\ UNCHANGED <<wrap, pipes, threads>>

BehindExits ==
    /\ behind
    /\ behind' = FALSE
    /\ UNCHANGED <<wrap, child, pipes, threads>>

-----------------------------------------------------------------------------
WrapRun == (\E s \in Script : Spawned(s)) \/ SpawnFails \/ Waited \/ Joins

Reader(p) == ThreadReads(p) \/ ThreadEnds(p)

\* The command goes on as far as it can; it need not be killed, and what it
\* left behind need not end.
ChildRun == ChildWrites \/ ChildExits

WrapNext ==
    \/ WrapRun
    \/ \E p \in Pipe : Reader(p)
    \/ ChildRun
    \/ ChildKilled
    \/ BehindExits

-----------------------------------------------------------------------------
(* Properties *)

\* Once it has spawned the child, cdp-wrap ends, with the child's code if it has
\* one, when the child and what it left behind have ended, in whatever order and
\* amounts the two pipes are written, also when a thread gave up its pipe
\* (CommandExecutor::run).
CommandEnds ==
    <>[]~behind =>
        (wrap.step = "wait" ~> /\ wrap.step = "exited"
                               /\ child.status # Signalled => wrap.code = child.status)

=============================================================================
