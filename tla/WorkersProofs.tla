---------------------------- MODULE WorkersProofs ----------------------------
(***************************************************************************)
(* Theorems about what the Gate hands work to: the vault subprocess        *)
(* (VaultSession), the file vault (DevVault), the sandboxed browser        *)
(* (BrowserLogin) and the proxy that injects its cookies (MitmProxy), for  *)
(* any sets of tasks, vault items, calls, origins and messages and any     *)
(* number of commands, dropped tasks, captures and reads.                  *)
(***************************************************************************)
EXTENDS VaultSession, DevVault, MitmProxy, TLAPS

-----------------------------------------------------------------------------
(* Type correctness *)

\* Append, Head and Tail keep sequences over a set.
LEMMA SeqFacts ==
    ASSUME NEW S, NEW s \in Seq(S)
    PROVE  /\ \A x \in S : Append(s, x) \in Seq(S) /\ Len(Append(s, x)) = Len(s) + 1
           /\ s # <<>> => /\ Head(s) \in S /\ Head(s) = s[1]
                          /\ Tail(s) \in Seq(S) /\ Len(Tail(s)) = Len(s) - 1
                          /\ \A i \in 1..Len(Tail(s)) : Tail(s)[i] = s[i + 1]
           /\ Len(s) \in Nat
           /\ s = <<>> <=> Len(s) = 0
  OBVIOUS

\* A task that is under way has a command.
Busy == \A t \in Task : tasks[t].at # "idle" => tasks[t].command \in Command

TypeInv == TypeOK /\ Busy

TaskType ==
    [at : {"idle", "lock", "write", "read", "payload", "done", "relock"},
     command : Command \cup {None}, answer : Answer \cup {None}]

\* The session starts with empty streams and idle tasks.
LEMMA InitType == Init => TypeInv
<1> SUFFICES ASSUME Init PROVE TypeInv
  OBVIOUS
<1>1. Idle \in TaskType /\ Idle.at = "idle"
  BY DEF Idle, TaskType
<1>2. tasks = [t \in Task |-> Idle]
  BY DEF Init
<1>3. tasks \in [Task -> TaskType] /\ Busy
  BY <1>1, <1>2 DEF Busy
<1>4. commands \in Seq(Command) /\ answers \in Seq(Answer)
  BY DEF Init
<1>5. worker \in [alive : BOOLEAN, key : BOOLEAN, session : BOOLEAN]
  BY DEF Init
<1> QED BY <1>3, <1>4, <1>5 DEF Init, TypeInv, TypeOK, TaskType

\* What leaving send_command does to the tasks and the mutex.
LEMMA LeaveType ==
    ASSUME TypeInv, NEW t \in Task, tasks[t].at # "idle",
           NEW a \in Answer \cup {None}, Leave(t, a)
    PROVE  /\ holder' \in Task \cup {None}
           /\ tasks' \in [Task -> TaskType]
           /\ Busy'
           /\ tasks'[t].at = "done" /\ tasks'[t].answer = a
           /\ tasks'[t].command = tasks[t].command
           /\ \A u \in Task \ {t} : tasks'[u] = tasks[u]
<1> USE DEF TypeInv, TypeOK, TaskType, Busy, Leave
<1>1. holder' \in Task \cup {None}
  OBVIOUS
<1>2. tasks' \in [Task -> TaskType]
  <2>1. [tasks[t] EXCEPT !.at = "done", !.answer = a] \in TaskType
    <3>1. tasks[t] \in TaskType
      OBVIOUS
    <3> QED BY <3>1 DEF TaskType
  <2>2. tasks' = [tasks EXCEPT ![t] = [tasks[t] EXCEPT !.at = "done", !.answer = a]]
    BY DEF Leave
  <2> HIDE DEF TaskType, Leave
  <2> QED BY <2>1, <2>2 DEF TaskType
<1>3. /\ tasks'[t].at = "done" /\ tasks'[t].answer = a
      /\ tasks'[t].command = tasks[t].command
      /\ \A u \in Task \ {t} : tasks'[u] = tasks[u]
  OBVIOUS
<1>4. Busy'
  BY <1>3
<1> QED BY <1>1, <1>2, <1>3, <1>4

\* Every step of the code keeps the types: in particular only commands and
\* answers get into the streams.
LEMMA StepType == TypeInv /\ [Next]_vars => TypeInv'
<1> SUFFICES ASSUME TypeInv, [Next]_vars PROVE TypeInv'
  OBVIOUS
<1> USE DEF TypeInv, TypeOK, Busy
<1>1. ASSUME NEW t \in Task, Spawn(t) PROVE TypeInv'
  <2> DEFINE c == [cmd |-> "init", ref |-> None]
  <2>1. c \in Command
    BY DEF Command
  <2>2. tasks' = [tasks EXCEPT ![t] = Queued(c)]
    BY <1>1 DEF Spawn
  <2> HIDE DEF c
  <2> QED BY <1>1, <2>1, <2>2 DEF Spawn, Queued
<1>2. ASSUME NEW t \in Task, NEW c \in Command, Begin(t, c) PROVE TypeInv'
  BY <1>2 DEF Begin, Queued
<1>3. ASSUME NEW t \in Task, Lock(t) PROVE TypeInv'
  <2>1. CASE status = "crashed"
    BY <1>3, <2>1, LeaveType DEF Lock, At, TaskType
  <2>2. CASE status # "crashed"
    <3>1. TypeOK'
      BY <1>3, <2>2 DEF Lock, At
    <3>2. Busy'
      BY <1>3, <2>2 DEF Lock, At
    <3> QED BY <3>1, <3>2
  <2> QED BY <2>1, <2>2
<1>4. ASSUME NEW t \in Task, Write(t) PROVE TypeInv'
  <2>1. tasks[t].command \in Command
    BY <1>4 DEF Write, At
  <2>2. Append(commands, tasks[t].command) \in Seq(Command)
    BY <2>1, SeqFacts
  <2>3. CASE worker.alive /\ tasks[t].command.ref \notin TooLong
    <3>1. /\ commands' = Append(commands, tasks[t].command)
          /\ tasks' = [tasks EXCEPT ![t].at = "read"]
          /\ UNCHANGED <<status, holder, spawned, answers, torn, worker, started, dropped>>
      BY <1>4, <2>3, Zenon DEF Write
    <3>2. commands' \in Seq(Command)
      BY <2>2, <3>1
    <3> HIDE DEF TypeInv
    <3>3. /\ tasks' = [tasks EXCEPT ![t].at = "read"]
          /\ UNCHANGED <<status, holder, spawned, answers, torn, worker, started, dropped>>
      BY <3>1
    <3>4. TypeOK' /\ Busy'
      BY <2>1, <3>2, <3>3 DEF TypeInv
    <3> QED BY <3>4 DEF TypeInv
  <2>4. CASE ~(worker.alive /\ tasks[t].command.ref \notin TooLong)
    BY <1>4, <2>4, LeaveType DEF Write, At, TaskType
  <2> QED BY <2>3, <2>4
<1>5. ASSUME NEW t \in Task, ReadPayload(t) PROVE TypeInv'
  <2>1. Head(answers) \in Answer /\ Tail(answers) \in Seq(Answer)
    BY <1>5, SeqFacts DEF ReadPayload
  <2> QED BY <1>5, <2>1, LeaveType DEF ReadPayload, At, TaskType
<1>6. ASSUME NEW t \in Task, ReadEof(t) PROVE TypeInv'
  <2>1. <<>> \in Seq(Answer)
    OBVIOUS
  <2> QED BY <1>6, <2>1, LeaveType DEF ReadEof, At, TaskType
<1>13. ASSUME NEW t \in Task, ReadLength(t) PROVE TypeInv'
  <2>1. CASE torn
    BY <1>13, <2>1, LeaveType DEF ReadLength, At, TaskType
  <2>2. CASE ~torn
    <3>1. TypeOK'
      BY <1>13, <2>2 DEF ReadLength, At
    <3>2. tasks[t].command \in Command /\ tasks' = [tasks EXCEPT ![t].at = "payload"]
      BY <1>13, <2>2 DEF ReadLength, At
    <3>3. \A u \in Task : tasks'[u].command = tasks[u].command /\ (u # t => tasks'[u].at = tasks[u].at)
      BY <3>2
    <3> HIDE DEF TypeOK
    <3>4. Busy'
      BY <3>2, <3>3
    <3> QED BY <3>1, <3>4
  <2> QED BY <2>1, <2>2
<1>7. ASSUME NEW t \in Task, Return(t) PROVE TypeInv'
  BY <1>7 DEF Return, Idle, At
<1>8. ASSUME NEW t \in Task, SetUnlocked(t) PROVE TypeInv'
  BY <1>8 DEF SetUnlocked, Idle, At
<1>9. ASSUME NEW t \in Task, Drop(t) PROVE TypeInv'
  BY <1>9 DEF Drop, Idle, At
<1>10. ASSUME NEW o \in {"ok", "error"}, Work(o) PROVE TypeInv'
  <2>1. Head(commands) \in Command /\ Tail(commands) \in Seq(Command)
    BY <1>10, SeqFacts DEF Work
  <2>2. [status |-> o, of |-> Head(commands)] \in Answer
    BY <2>1 DEF Answer
  <2>3. Append(answers, [status |-> o, of |-> Head(commands)]) \in Seq(Answer)
    BY <2>2, SeqFacts
  <2>4. worker' \in [alive : BOOLEAN, key : BOOLEAN, session : BOOLEAN]
    BY <1>10 DEF Work
  <2> QED BY <1>10, <2>1, <2>3, <2>4 DEF Work
<1>11. ASSUME Die PROVE TypeInv'
  <2>1. worker' \in [alive : BOOLEAN, key : BOOLEAN, session : BOOLEAN]
    BY <1>11 DEF Die
  <2>2. <<>> \in Seq(Command)
    OBVIOUS
  <2> QED BY <1>11, <2>1, <2>2 DEF Die
<1>12. ASSUME UNCHANGED vars PROVE TypeInv'
  BY <1>12 DEF vars
<1> QED
  BY <1>1, <1>2, <1>3, <1>4, <1>5, <1>6, <1>7, <1>8, <1>9, <1>10, <1>11, <1>12, <1>13
  DEF Next, Step, Worker

\* The types of the session hold in every state (spawn, send_command, unlock,
\* the command loop of the worker).
THEOREM TypeCorrect == Spec => []TypeOK
<1>1. Init => TypeInv BY InitType
<1>2. TypeInv /\ [Next]_vars => TypeInv' BY StepType
<1>3. TypeInv => TypeOK BY DEF TypeInv
<1> QED BY <1>1, <1>2, <1>3, PTL DEF Spec

-----------------------------------------------------------------------------
(* The inductive invariant of the stream *)

\* Whoever writes or reads holds the mutex.
Exclusive ==
    /\ \A t \in Task : tasks[t].at \in {"write", "read", "payload"} => holder = t
    /\ holder # None => tasks[holder].at \in {"write", "read", "payload"}

\* The worker's death loses what it had not read; otherwise AnswersLag counts.
Lag ==
    /\ AnswersLag
    /\ ~torn => Len(commands) + Len(answers) <= dropped + InFlight
    /\ ~worker.alive => commands = <<>>

\* The stream is torn by a dropped task, never by the one that reads.
Tearing ==
    /\ torn => dropped # 0
    /\ \A t \in Task : tasks[t].at = "payload" => ~torn

\* With nobody dropped, all that is under way belongs to the holder of the mutex.
Pairing ==
    dropped = 0 =>
        /\ \A i \in 1..Len(commands) : commands[i] = tasks[holder].command
        /\ \A i \in 1..Len(answers) : answers[i].of = tasks[holder].command

\* A task that is still sending has no answer yet.
Unanswered ==
    \A t \in Task : tasks[t].at \in {"idle", "lock", "write", "read", "payload"} => tasks[t].answer = None

StreamInv == TypeInv /\ Exclusive /\ Lag /\ Tearing /\ Pairing /\ Unanswered /\ AnswersMatch

\* The mutex stays with its holder from the crash check to the answer.
LEMMA ExclusiveStep ==
    ASSUME TypeInv, Exclusive, [Next]_vars
    PROVE  Exclusive'
<1> USE NoneAssumption DEF TypeInv, TypeOK, Exclusive, At
<1>1. ASSUME NEW t \in Task, Spawn(t) PROVE Exclusive'
  BY <1>1 DEF Spawn, Queued
<1>2. ASSUME NEW t \in Task, NEW c \in Command, Begin(t, c) PROVE Exclusive'
  BY <1>2 DEF Begin, Queued
<1>3. ASSUME NEW t \in Task, Lock(t) PROVE Exclusive'
  <2>1. CASE status = "crashed"
    BY <1>3, <2>1 DEF Lock, Leave
  <2>2. CASE status # "crashed"
    BY <1>3, <2>2 DEF Lock
  <2> QED BY <2>1, <2>2
<1>4. ASSUME NEW t \in Task, Write(t) PROVE Exclusive'
  <2>1. CASE worker.alive /\ tasks[t].command.ref \notin TooLong
    BY <1>4, <2>1 DEF Write
  <2>2. CASE ~(worker.alive /\ tasks[t].command.ref \notin TooLong)
    BY <1>4, <2>2 DEF Write, Leave
  <2> QED BY <2>1, <2>2
<1>5. ASSUME NEW t \in Task, ReadPayload(t) PROVE Exclusive'
  BY <1>5 DEF ReadPayload, Leave
<1>13. ASSUME NEW t \in Task, ReadLength(t) PROVE Exclusive'
  <2>1. CASE torn
    BY <1>13, <2>1 DEF ReadLength, Leave
  <2>2. CASE ~torn
    BY <1>13, <2>2 DEF ReadLength
  <2> QED BY <2>1, <2>2
<1>6. ASSUME NEW t \in Task, ReadEof(t) PROVE Exclusive'
  BY <1>6 DEF ReadEof, Leave
<1>7. ASSUME NEW t \in Task, Return(t) PROVE Exclusive'
  BY <1>7 DEF Return, Idle
<1>8. ASSUME NEW t \in Task, SetUnlocked(t) PROVE Exclusive'
  BY <1>8 DEF SetUnlocked, Idle
<1>9. ASSUME NEW t \in Task, Drop(t) PROVE Exclusive'
  BY <1>9 DEF Drop, Idle
<1>10. ASSUME NEW o \in {"ok", "error"}, Work(o) PROVE Exclusive'
  BY <1>10 DEF Work
<1>11. ASSUME Die PROVE Exclusive'
  BY <1>11 DEF Die
<1>12. ASSUME UNCHANGED vars PROVE Exclusive'
  BY <1>12 DEF vars
<1> QED
  BY <1>1, <1>2, <1>3, <1>4, <1>5, <1>6, <1>7, <1>8, <1>9, <1>10, <1>11, <1>12, <1>13
  DEF Next, Step, Worker

\* Nothing is lost or added between the tasks and the worker.
LEMMA LagStep ==
    ASSUME TypeInv, Exclusive, Exclusive', Lag, Tearing, [Next]_vars
    PROVE  Lag' /\ Tearing'
<1> USE NoneAssumption DEF TypeInv, TypeOK, Exclusive, At, Lag, Tearing, AnswersLag, InFlight
<1>0. Len(commands) \in Nat /\ Len(answers) \in Nat /\ dropped \in Nat
  BY SeqFacts
<1>1. ASSUME NEW t \in Task, Spawn(t) PROVE Lag' /\ Tearing'
  BY <1>0, <1>1 DEF Spawn, Queued
<1>2. ASSUME NEW t \in Task, NEW c \in Command, Begin(t, c) PROVE Lag' /\ Tearing'
  BY <1>0, <1>2 DEF Begin, Queued
<1>3. ASSUME NEW t \in Task, Lock(t) PROVE Lag' /\ Tearing'
  BY <1>0, <1>3 DEF Lock, Leave
<1>4. ASSUME NEW t \in Task, Write(t) PROVE Lag' /\ Tearing'
  <2>1. CASE worker.alive /\ tasks[t].command.ref \notin TooLong
    <3>1. Len(Append(commands, tasks[t].command)) = Len(commands) + 1
      BY SeqFacts, <1>4 DEF Write, Busy
    <3>2. InFlight = 0 /\ InFlight' = 1
      BY <1>4, <2>1 DEF Write
    <3>3. \A u \in Task : tasks'[u].at = "payload" => tasks[u].at = "payload"
      BY <1>4, <2>1 DEF Write
    <3>4. /\ Len(commands') = Len(commands) + 1 /\ worker.alive
          /\ UNCHANGED <<answers, torn, worker, dropped>>
      BY <1>4, <2>1, <3>1 DEF Write
    <3>5. Tearing'
      BY <3>3, <3>4
    <3> HIDE DEF InFlight, Tearing, Exclusive, TypeInv
    <3>6. Lag'
      BY <1>0, <3>2, <3>4
    <3> QED BY <3>5, <3>6
  <2>2. CASE ~(worker.alive /\ tasks[t].command.ref \notin TooLong)
    BY <1>0, <1>4, <2>2 DEF Write, Leave
  <2> QED BY <2>1, <2>2
<1>5. ASSUME NEW t \in Task, ReadPayload(t) PROVE Lag' /\ Tearing'
  <2>1. Len(Tail(answers)) = Len(answers) - 1
    BY SeqFacts, <1>5 DEF ReadPayload
  <2>2. InFlight = 1 /\ InFlight' = 0
    BY <1>5 DEF ReadPayload, Leave
  <2>3. \A u \in Task : tasks'[u].at = "payload" => tasks[u].at = "payload"
    BY <1>5 DEF ReadPayload, Leave
  <2>4. Len(answers') = Len(answers) - 1 /\ UNCHANGED <<commands, torn, worker, dropped>>
    BY <1>5, <2>1 DEF ReadPayload
  <2>5. Tearing'
    BY <2>3, <2>4
  <2> HIDE DEF InFlight, Tearing, Exclusive, TypeInv
  <2>6. Lag'
    BY <1>0, <2>2, <2>4
  <2> QED BY <2>5, <2>6
<1>6. ASSUME NEW t \in Task, ReadEof(t) PROVE Lag' /\ Tearing'
  <2>1. Len(answers') = 0
    BY <1>6 DEF ReadEof
  <2> QED BY <1>0, <1>6, <2>1 DEF ReadEof, Leave
<1>13. ASSUME NEW t \in Task, ReadLength(t) PROVE Lag' /\ Tearing'
  <2>1. CASE torn
    BY <1>0, <1>13, <2>1 DEF ReadLength, Leave
  <2>2. CASE ~torn
    BY <1>0, <1>13, <2>2 DEF ReadLength
  <2> QED BY <2>1, <2>2
<1>7. ASSUME NEW t \in Task, Return(t) PROVE Lag' /\ Tearing'
  BY <1>0, <1>7 DEF Return, Idle
<1>8. ASSUME NEW t \in Task, SetUnlocked(t) PROVE Lag' /\ Tearing'
  BY <1>0, <1>8 DEF SetUnlocked, Idle
<1>9. ASSUME NEW t \in Task, Drop(t) PROVE Lag' /\ Tearing'
  <2>1. CASE tasks[t].at \in {"read", "payload"}
    <3>1. InFlight = 1 /\ InFlight' = 0 /\ dropped' = dropped + 1
      BY <1>9, <2>1 DEF Drop
    <3> HIDE DEF InFlight
    <3> QED BY <1>0, <1>9, <3>1 DEF Drop
  <2>2. CASE tasks[t].at \notin {"read", "payload"}
    <3>1. InFlight' = InFlight /\ dropped' = dropped
      <4>1. CASE holder = t
        BY <1>9, <2>2, <4>1 DEF Drop
      <4>2. CASE holder # t
        BY <1>9, <2>2, <4>2 DEF Drop, Idle
      <4> QED BY <4>1, <4>2
    <3> HIDE DEF InFlight
    <3> QED BY <1>0, <1>9, <3>1 DEF Drop
  <2> QED BY <2>1, <2>2
<1>10. ASSUME NEW o \in {"ok", "error"}, Work(o) PROVE Lag' /\ Tearing'
  <2>1. Len(Tail(commands)) = Len(commands) - 1 /\ Head(commands) \in Command
    BY SeqFacts, <1>10 DEF Work
  <2>2. Len(Append(answers, [status |-> o, of |-> Head(commands)])) = Len(answers) + 1
    BY SeqFacts, <2>1 DEF Answer
  <2> QED BY <1>0, <1>10, <2>1, <2>2 DEF Work
<1>11. ASSUME Die PROVE Lag' /\ Tearing'
  BY <1>0, <1>11 DEF Die
<1>12. ASSUME UNCHANGED vars PROVE Lag' /\ Tearing'
  BY <1>12 DEF vars
<1> QED
  BY <1>1, <1>2, <1>3, <1>4, <1>5, <1>6, <1>7, <1>8, <1>9, <1>10, <1>11, <1>12, <1>13
  DEF Next, Step, Worker

\* Head, Tail and Append move the pairs along.
LEMMA PairingStep ==
    ASSUME TypeInv, Exclusive, Exclusive', Lag, Lag', Tearing, Tearing', Pairing, [Next]_vars
    PROVE  Pairing'
<1> USE NoneAssumption DEF TypeInv, TypeOK, Exclusive, At, Lag, Tearing, InFlight, Pairing
<1>0. Len(commands) \in Nat /\ Len(answers) \in Nat
  BY SeqFacts
<1>1. ASSUME NEW t \in Task, Spawn(t) PROVE Pairing'
  BY <1>0, <1>1 DEF Spawn, Queued
<1>2. ASSUME NEW t \in Task, NEW c \in Command, Begin(t, c) PROVE Pairing'
  BY <1>0, <1>2 DEF Begin, Queued
<1>3. ASSUME NEW t \in Task, Lock(t) PROVE Pairing'
  BY <1>0, <1>3 DEF Lock, Leave
<1>4. ASSUME NEW t \in Task, Write(t) PROVE Pairing'
  <2>1. CASE worker.alive /\ tasks[t].command.ref \notin TooLong
    BY <1>0, <1>4, <2>1, SeqFacts DEF Write, Busy
  <2>2. CASE ~(worker.alive /\ tasks[t].command.ref \notin TooLong)
    BY <1>0, <1>4, <2>2 DEF Write, Leave
  <2> QED BY <2>1, <2>2
<1>5. ASSUME NEW t \in Task, ReadPayload(t) PROVE Pairing'
  <2>1. Len(Tail(answers)) = Len(answers) - 1
    BY SeqFacts, <1>5 DEF ReadPayload
  <2> QED BY <1>0, <1>5, <2>1 DEF ReadPayload, Leave
<1>6. ASSUME NEW t \in Task, ReadEof(t) PROVE Pairing'
  <2>1. Len(answers') = 0 /\ Len(commands') = 0
    BY <1>6 DEF ReadEof
  <2> QED BY <2>1
<1>13. ASSUME NEW t \in Task, ReadLength(t) PROVE Pairing'
  <2>1. CASE torn
    BY <1>13, <2>1 DEF ReadLength
  <2>2. CASE ~torn
    BY <1>0, <1>13, <2>2 DEF ReadLength
  <2> QED BY <2>1, <2>2
<1>7. ASSUME NEW t \in Task, Return(t) PROVE Pairing'
  BY <1>0, <1>7 DEF Return, Idle
<1>8. ASSUME NEW t \in Task, SetUnlocked(t) PROVE Pairing'
  BY <1>0, <1>8 DEF SetUnlocked, Idle
<1>9. ASSUME NEW t \in Task, Drop(t) PROVE Pairing'
  BY <1>0, <1>9 DEF Drop, Idle
<1>10. ASSUME NEW o \in {"ok", "error"}, Work(o) PROVE Pairing'
  BY <1>0, <1>10, SeqFacts DEF Work, Answer
<1>11. ASSUME Die PROVE Pairing'
  BY <1>0, <1>11 DEF Die
<1>12. ASSUME UNCHANGED vars PROVE Pairing'
  BY <1>12 DEF vars
<1> QED
  BY <1>1, <1>2, <1>3, <1>4, <1>5, <1>6, <1>7, <1>8, <1>9, <1>10, <1>11, <1>12, <1>13
  DEF Next, Step, Worker

\* An answer is taken from the stream once, by the task that waits for it.
LEMMA MatchStep ==
    ASSUME TypeInv, Exclusive, Lag, Pairing, Unanswered, AnswersMatch, [Next]_vars
    PROVE  Unanswered' /\ AnswersMatch'
<1> USE NoneAssumption DEF TypeInv, TypeOK, Unanswered, AnswersMatch, At
<1>1. ASSUME NEW t \in Task, Spawn(t) PROVE Unanswered' /\ AnswersMatch'
  BY <1>1 DEF Spawn, Queued
<1>2. ASSUME NEW t \in Task, NEW c \in Command, Begin(t, c) PROVE Unanswered' /\ AnswersMatch'
  BY <1>2 DEF Begin, Queued
<1>3. ASSUME NEW t \in Task, Lock(t) PROVE Unanswered' /\ AnswersMatch'
  <2>1. CASE status = "crashed"
    <3>1. tasks[t].at # "idle" /\ Leave(t, None) /\ UNCHANGED dropped
      BY <1>3, <2>1 DEF Lock
    <3>2. /\ tasks'[t].at = "done" /\ tasks'[t].answer = None
          /\ \A u \in Task \ {t} : tasks'[u] = tasks[u]
      BY <3>1, LeaveType
    <3> QED BY <3>1, <3>2
  <2>2. CASE status # "crashed"
    <3>1. tasks[t].at = "lock" /\ tasks' = [tasks EXCEPT ![t].at = "write"] /\ UNCHANGED dropped
      BY <1>3, <2>2 DEF Lock
    <3> QED BY <3>1
  <2> QED BY <2>1, <2>2
<1>4. ASSUME NEW t \in Task, Write(t) PROVE Unanswered' /\ AnswersMatch'
  <2>1. CASE worker.alive /\ tasks[t].command.ref \notin TooLong
    <3>1. tasks[t].at = "write" /\ tasks' = [tasks EXCEPT ![t].at = "read"] /\ UNCHANGED dropped
      BY <1>4, <2>1 DEF Write
    <3> QED BY <3>1
  <2>2. CASE ~(worker.alive /\ tasks[t].command.ref \notin TooLong)
    BY <1>4, <2>2 DEF Write, Leave
  <2> QED BY <2>1, <2>2
<1>13. ASSUME NEW t \in Task, ReadLength(t) PROVE Unanswered' /\ AnswersMatch'
  <2>1. CASE torn
    <3>1. tasks[t].at # "idle" /\ Leave(t, None) /\ UNCHANGED dropped
      BY <1>13, <2>1 DEF ReadLength
    <3>2. /\ tasks'[t].at = "done" /\ tasks'[t].answer = None
          /\ \A u \in Task \ {t} : tasks'[u] = tasks[u]
      BY <3>1, LeaveType
    <3> QED BY <3>1, <3>2
  <2>2. CASE ~torn
    <3>1. tasks[t].at = "read" /\ tasks' = [tasks EXCEPT ![t].at = "payload"] /\ UNCHANGED dropped
      BY <1>13, <2>2 DEF ReadLength
    <3> QED BY <3>1
  <2> QED BY <2>1, <2>2
<1>5. ASSUME NEW t \in Task, ReadPayload(t) PROVE Unanswered' /\ AnswersMatch'
  <2>1. holder = t
    BY <1>5 DEF ReadPayload, Exclusive
  <2>2. dropped = 0 => Head(answers).of = tasks[t].command
    <3>1. answers # <<>> /\ Head(answers) = answers[1] /\ 1 \in 1..Len(answers)
      BY <1>5, SeqFacts DEF ReadPayload
    <3> QED BY <2>1, <3>1 DEF Pairing
  <2>3. Leave(t, Head(answers)) /\ Head(answers) \in Answer /\ UNCHANGED dropped
    BY <1>5, SeqFacts DEF ReadPayload
  <2>4. /\ tasks'[t].at = "done" /\ tasks'[t].answer = Head(answers)
        /\ tasks'[t].command = tasks[t].command
        /\ \A u \in Task \ {t} : tasks'[u] = tasks[u]
    BY <1>5, <2>3, LeaveType DEF ReadPayload
  <2>5. Unanswered'
    BY <2>4
  <2>6. ASSUME NEW u \in Task, dropped' = 0, tasks'[u].answer # None
        PROVE  tasks'[u].answer.of = tasks'[u].command
    <3>1. CASE u = t
      BY <2>2, <2>3, <2>4, <2>6, <3>1
    <3>2. CASE u # t
      BY <2>3, <2>4, <2>6, <3>2
    <3> QED BY <3>1, <3>2
  <2> QED BY <2>5, <2>6
<1>6. ASSUME NEW t \in Task, ReadEof(t) PROVE Unanswered' /\ AnswersMatch'
  BY <1>6 DEF ReadEof, Leave
<1>7. ASSUME NEW t \in Task, Return(t) PROVE Unanswered' /\ AnswersMatch'
  BY <1>7 DEF Return, Idle
<1>8. ASSUME NEW t \in Task, SetUnlocked(t) PROVE Unanswered' /\ AnswersMatch'
  BY <1>8 DEF SetUnlocked, Idle
<1>9. ASSUME NEW t \in Task, Drop(t) PROVE Unanswered' /\ AnswersMatch'
  BY <1>9 DEF Drop, Idle
<1>10. ASSUME NEW o \in {"ok", "error"}, Work(o) PROVE Unanswered' /\ AnswersMatch'
  BY <1>10 DEF Work
<1>11. ASSUME Die PROVE Unanswered' /\ AnswersMatch'
  BY <1>11 DEF Die
<1>12. ASSUME UNCHANGED vars PROVE Unanswered' /\ AnswersMatch'
  BY <1>12 DEF vars
<1> QED
  BY <1>1, <1>2, <1>3, <1>4, <1>5, <1>6, <1>7, <1>8, <1>9, <1>10, <1>11, <1>12, <1>13
  DEF Next, Step, Worker

\* spawn leaves both streams empty and the mutex free.
LEMMA InitStream == Init => StreamInv
<1> SUFFICES ASSUME Init PROVE StreamInv
  OBVIOUS
<1>1. TypeInv BY InitType
<1>2. Exclusive /\ Unanswered /\ AnswersMatch
  BY DEF Init, Idle, Exclusive, Unanswered, AnswersMatch
<1>3. Len(commands) = 0 /\ Len(answers) = 0
  BY DEF Init
<1>4. Lag /\ Tearing /\ Pairing
  BY <1>3 DEF Init, Idle, Lag, Tearing, AnswersLag, InFlight, Pairing
<1> QED BY <1>1, <1>2, <1>4 DEF StreamInv

\* The parts of the invariant hold each other up.
LEMMA StepStream == StreamInv /\ [Next]_vars => StreamInv'
  BY StepType, ExclusiveStep, LagStep, PairingStep, MatchStep DEF StreamInv

\* Whatever tasks queue and wherever the worker dies, no task leaves
\* send_command with the answer to another command, unless one was dropped
\* between its write and its read.
THEOREM MatchTheorem == Spec => []AnswersMatch
<1>1. StreamInv => AnswersMatch BY DEF StreamInv
<1> QED BY <1>1, InitStream, StepStream, PTL DEF Spec

\* While the worker runs, the answers outstanding are those of the waiting task
\* and of the dropped ones, for any number of them, and never fewer: each drop
\* shifts the stream for good (send_command).
THEOREM LagTheorem == Spec => []AnswersLag
<1>1. StreamInv => AnswersLag BY DEF StreamInv, Lag
<1> QED BY <1>1, InitStream, StepStream, PTL DEF Spec

-----------------------------------------------------------------------------
(* The status *)

\* send_command sets Crashed only when the worker is gone, which it stays, when
\* the stream is torn, which it stays too, or when a command is too long.
THEOREM CrashedTheorem == Spec => []CrashedIsDead
<1> DEFINE Inv == TypeInv /\ CrashedIsDead
<1>1. Init => Inv
  BY InitType DEF Init, CrashedIsDead
<1>2. Inv /\ [Next]_vars => Inv'
  <2> SUFFICES ASSUME TypeInv, CrashedIsDead, [Next]_vars PROVE CrashedIsDead'
    BY StepType
  <2> USE DEF CrashedIsDead
  <2>1. ASSUME NEW t \in Task, Write(t) PROVE CrashedIsDead'
    BY <2>1 DEF Write
  <2>2. ASSUME NEW t \in Task, ReadLength(t) \/ ReadEof(t) \/ SetUnlocked(t)
        PROVE  CrashedIsDead'
    BY <2>2 DEF ReadLength, ReadEof, SetUnlocked
  <2>3. ASSUME NEW t \in Task, Spawn(t) \/ Lock(t) \/ ReadPayload(t) \/ Return(t) \/ Drop(t)
        PROVE  CrashedIsDead'
    BY <2>3 DEF Spawn, Lock, ReadPayload, Return, Drop, TypeInv, TypeOK
  <2>4. ASSUME NEW t \in Task, NEW c \in Command, Begin(t, c) PROVE CrashedIsDead'
    BY <2>4 DEF Begin
  <2>5. ASSUME NEW o \in {"ok", "error"}, Work(o) PROVE CrashedIsDead'
    BY <2>5 DEF Work
  <2>6. ASSUME Die PROVE CrashedIsDead'
    BY <2>6 DEF Die, TypeInv, TypeOK
  <2>7. ASSUME UNCHANGED vars PROVE CrashedIsDead'
    BY <2>7 DEF vars
  <2> QED
    BY <2>1, <2>2, <2>3, <2>4, <2>5, <2>6, <2>7 DEF Next, Step, Worker
<1>3. Inv => CrashedIsDead
  OBVIOUS
<1> QED BY <1>1, <1>2, <1>3, PTL DEF Spec


(***************************************************************************)
(* DevVault: the file vault and the Gate that reads it                     *)
(*                                                                         *)
(* A cell of the file says which call wrote it and how far that call had   *)
(* come.  The last cell of a text is thus only there once its call has     *)
(* ended, and from then on nothing about that call changes.                *)
(***************************************************************************)

Cell == [of : Maker \cup {Nobody}, at : Nat]

MakerState == [step : {"new", "write", "done", "cut"}, password : Password, written : Nat]

BackendState ==
    [step : {"new", "none", "read", "open", "failed"}, got : Seq(Cell), of : Maker \cup {Nobody}]

FileType ==
    /\ blob \in Seq(Cell) \cup {Nobody}
    /\ maker \in [Maker -> MakerState]
    /\ backend \in BackendState
    /\ disturbed \in BOOLEAN

\* Each cell was written by the call it names.
Genuine(text) ==
    \A i \in DOMAIN text : text[i].of \in Maker => text[i].at <= maker[text[i].of].written

SoundBlob == blob \in Seq(Cell) /\ Genuine(blob)

Complete(m) == maker[m].step = "done" /\ maker[m].password = GatePassword

CellInv ==
    /\ \A m \in Maker :
          /\ maker[m].step = "new" => maker[m].written = 0
          /\ maker[m].step \in {"write", "cut"} => maker[m].written < Size[m]
          /\ maker[m].step # "new" => SoundBlob
    /\ blob = Nobody \/ SoundBlob
    /\ backend.step = "read" => SoundBlob
    /\ Genuine(backend.got)

ServedInv ==
    /\ backend.step = "open" => backend.of \in Maker /\ Complete(backend.of)
    /\ served # Nothing => /\ served.of \in Maker /\ Complete(served.of)
                           /\ served.ref \in Stored[served.of]

\* The first n cells of m's text.
Text(m, n) == [k \in 1..n |-> [of |-> m, at |-> k]]

\* The file holds the whole text of a call that has ended.
Settled == \E m \in Maker : maker[m].step = "done" /\ blob = Text(m, Size[m])

OrderInv ==
    /\ backend.step = "new" => backend.got = <<>>
    /\ ~disturbed =>
          /\ \A m \in Maker : maker[m].step # "cut"
          /\ \A m, n \in Maker : Writing(m) /\ Writing(n) => m = n
          /\ \A m \in Maker : Writing(m) => /\ blob = Text(m, maker[m].written)
                                            /\ backend.step # "read"
          /\ (\A m \in Maker : ~Writing(m)) => blob = Nobody \/ Settled
          /\ backend.step = "read" =>
                /\ Settled
                /\ \A i \in DOMAIN backend.got : i \in DOMAIN blob /\ backend.got[i] = blob[i]
          /\ backend.step = "failed" =>
                /\ backend.got # <<>> /\ backend.got[1].of \in Maker
                /\ maker[backend.got[1].of].step = "done"
                /\ maker[backend.got[1].of].password # GatePassword

\* What a step does to the calls: one that has ended stays as it is, and none unwrites.
MakersKept ==
    /\ maker' \in [Maker -> MakerState]
    /\ \A m \in Maker : /\ maker[m].step = "done" => maker'[m] = maker[m]
                        /\ maker'[m].written >= maker[m].written

\* The beginning of a text.
LEMMA TextSeq ==
    ASSUME NEW m \in Maker, NEW n \in Nat
    PROVE  /\ Text(m, n) \in Seq(Cell) /\ Len(Text(m, n)) = n /\ DOMAIN Text(m, n) = 1..n
           /\ \A k \in 1..n : Text(m, n)[k].of = m /\ Text(m, n)[k].at = k
<1>1. \A k \in 1..n : [of |-> m, at |-> k] \in Cell
  BY DEF Cell
<1>2. Text(m, n) \in [1..n -> Cell] /\ DOMAIN Text(m, n) = 1..n
  BY <1>1 DEF Text
<1>3. Text(m, n) \in Seq(Cell) /\ Len(Text(m, n)) = n
  BY <1>2
<1>4. \A k \in 1..n : Text(m, n)[k] = [of |-> m, at |-> k]
  BY DEF Text
<1> QED BY <1>2, <1>3, <1>4

\* create_dev_vault begins.
LEMMA CreateDoes ==
    ASSUME FileType, NEW m \in Maker, NEW p \in Password, CreateDevVault(m, p)
    PROVE  /\ maker[m].step = "new" /\ maker'[m].step = "write"
           /\ maker'[m].written = maker[m].written
           /\ \A n \in Maker \ {m} : maker'[n] = maker[n]
           /\ MakersKept
<1>1. maker[m].step = "new" /\ maker' = [maker EXCEPT ![m].step = "write", ![m].password = p]
  BY DEF CreateDevVault
<1>2. maker[m] \in MakerState /\ \A n \in Maker : maker[n].written \in Nat
  BY DEF FileType, MakerState
<1>3. /\ maker'[m].step = "write" /\ maker'[m].password = p /\ maker'[m].written = maker[m].written
      /\ maker'[m] \in MakerState
  BY <1>1, <1>2 DEF FileType, MakerState
<1>4. \A n \in Maker \ {m} : maker'[n] = maker[n]
  BY <1>1 DEF FileType
<1>5. maker' \in [Maker -> MakerState]
  BY <1>1, <1>3, <1>4 DEF FileType
<1> QED BY <1>1, <1>2, <1>3, <1>4, <1>5 DEF MakersKept

\* write_all writes a cell.
LEMMA WriteDoes ==
    ASSUME FileType, NEW m \in Maker, WriteCell(m)
    PROVE  /\ maker[m].step = "write" /\ maker'[m].written = maker[m].written + 1
           /\ maker'[m].step = IF maker[m].written + 1 = Size[m] THEN "done" ELSE "write"
           /\ \A n \in Maker \ {m} : maker'[n] = maker[n]
           /\ MakersKept
<1> DEFINE k == maker[m].written + 1
           s == IF k = Size[m] THEN "done" ELSE "write"
<1>1. maker[m].step = "write" /\ maker' = [maker EXCEPT ![m].written = k, ![m].step = s]
  BY DEF WriteCell, Writing
<1>2. /\ maker[m] \in MakerState /\ \A n \in Maker : maker[n].written \in Nat
      /\ k \in Nat /\ k >= maker[m].written /\ s \in {"done", "write"}
  BY DEF FileType, MakerState
<1> HIDE DEF k, s
<1>3. maker'[m].step = s /\ maker'[m].written = k /\ maker'[m] \in MakerState
  BY <1>1, <1>2 DEF FileType, MakerState
<1>4. \A n \in Maker \ {m} : maker'[n] = maker[n]
  BY <1>1 DEF FileType
<1>5. maker' \in [Maker -> MakerState]
  BY <1>1, <1>3, <1>4 DEF FileType
<1>6. MakersKept
  BY <1>1, <1>2, <1>3, <1>4, <1>5 DEF MakersKept
<1> QED BY <1>1, <1>3, <1>4, <1>6 DEF k, s

\* create_dev_vault is cut short.
LEMMA CutDoes ==
    ASSUME FileType, NEW m \in Maker, CutShort(m)
    PROVE  /\ maker[m].step = "write" /\ maker'[m].step = "cut"
           /\ maker'[m].written = maker[m].written
           /\ \A n \in Maker \ {m} : maker'[n] = maker[n]
           /\ MakersKept
<1>1. maker[m].step = "write" /\ maker' = [maker EXCEPT ![m].step = "cut"]
  BY DEF CutShort, Writing
<1>2. maker[m] \in MakerState /\ \A n \in Maker : maker[n].written \in Nat
  BY DEF FileType, MakerState
<1>3. maker'[m].step = "cut" /\ maker'[m].written = maker[m].written /\ maker'[m] \in MakerState
  BY <1>1, <1>2 DEF FileType, MakerState
<1>4. \A n \in Maker \ {m} : maker'[n] = maker[n]
  BY <1>1 DEF FileType
<1>5. maker' \in [Maker -> MakerState]
  BY <1>1, <1>3, <1>4 DEF FileType
<1> QED BY <1>1, <1>2, <1>3, <1>4, <1>5 DEF MakersKept

\* The file after a cell was written into it.
LEMMA WriteBlob ==
    ASSUME FileType, SoundBlob, NEW m \in Maker, WriteCell(m), NEW k, k = maker[m].written + 1
    PROVE  /\ blob' \in Seq(Cell)
           /\ \A i \in DOMAIN blob' :
                 \/ i = k /\ blob'[i] = [of |-> m, at |-> k]
                 \/ i \in DOMAIN blob /\ blob'[i] = blob[i]
                 \/ blob'[i] = Zero
           /\ blob = Text(m, k - 1) => blob' = Text(m, k)
<1> DEFINE end == IF k > Len(blob) THEN k ELSE Len(blob)
           Put(i) == IF i = k THEN [of |-> m, at |-> k]
                     ELSE IF i \in DOMAIN blob THEN blob[i] ELSE Zero
<1>1. blob' = [i \in 1..end |-> Put(i)]
  BY DEF WriteCell
<1>2. blob \in Seq(Cell) /\ Len(blob) \in Nat /\ DOMAIN blob = 1..Len(blob)
  BY DEF SoundBlob
<1>3. k \in Nat /\ k >= 1 /\ k - 1 \in Nat
  BY DEF FileType, MakerState
<1>4. end \in Nat
  BY <1>2, <1>3
<1>5. [of |-> m, at |-> k] \in Cell /\ Zero \in Cell
  BY <1>3 DEF Cell, Zero
<1>6. \A i \in 1..end : Put(i) \in Cell
  BY <1>2, <1>5
<1>7. ASSUME blob = Text(m, k - 1) PROVE blob' = Text(m, k)
  <2>1. Len(blob) = k - 1 /\ DOMAIN blob = 1..(k - 1)
    BY <1>3, <1>7, TextSeq
  <2>2. end = k
    BY <1>3, <2>1
  <2>3. \A i \in 1..k : Put(i) = [of |-> m, at |-> i]
    BY <1>3, <1>7, <2>1 DEF Text
  <2> HIDE DEF end, Put
  <2> QED BY <1>1, <2>2, <2>3 DEF Text
<1> HIDE DEF end
<1>8. DOMAIN blob' = 1..end /\ \A i \in 1..end : blob'[i] = Put(i)
  BY <1>1
<1>9. blob' \in [1..end -> Cell]
  BY <1>1, <1>6
<1>10. blob' \in Seq(Cell)
  BY <1>4, <1>9
<1> QED BY <1>7, <1>8, <1>10

\* Every step of create_dev_vault and of the Gate keeps the calls that have ended.
LEMMA MakersNext == FileType /\ [FileNext]_fileVars => MakersKept
<1> SUFFICES ASSUME FileType, [FileNext]_fileVars PROVE MakersKept
  OBVIOUS
<1>1. CASE UNCHANGED maker
  <2>1. \A m \in Maker : maker[m].written \in Nat
    BY DEF FileType, MakerState
  <2> QED BY <1>1, <2>1 DEF MakersKept, FileType
<1>2. CASE \E m \in Maker, p \in Password : CreateDevVault(m, p)
  BY <1>2, CreateDoes
<1>3. CASE \E m \in Maker : WriteCell(m) \/ CutShort(m)
  BY <1>3, WriteDoes, CutDoes
<1>4. FindVault \/ ReadCell \/ OpenVault \/ (\E r \in DevRef : FetchDev(r)) => UNCHANGED maker
  BY DEF FindVault, ReadCell, OpenVault, FetchDev
<1> QED BY <1>1, <1>2, <1>3, <1>4 DEF FileNext, fileVars

\* A cell that a Gate reads is one of the file's.
LEMMA ReadDoes ==
    ASSUME FileType, SoundBlob, ReadCell
    PROVE  /\ backend' \in BackendState /\ backend'.step = "read" /\ backend.step = "read"
           /\ backend'.got = Append(backend.got, blob[Len(backend.got) + 1])
           /\ Len(backend.got) + 1 \in DOMAIN blob
           /\ blob[Len(backend.got) + 1] \in Cell
           /\ UNCHANGED <<blob, maker, served, disturbed>>
<1>1. /\ backend.step = "read" /\ Len(backend.got) < Len(blob)
      /\ backend' = [backend EXCEPT !.got = Append(@, blob[Len(@) + 1])]
      /\ UNCHANGED <<blob, maker, served, disturbed>>
  BY DEF ReadCell
<1>2. /\ backend.got \in Seq(Cell) /\ Len(backend.got) \in Nat
      /\ blob \in Seq(Cell) /\ DOMAIN blob = 1..Len(blob) /\ Len(blob) \in Nat
  BY DEF FileType, BackendState, SoundBlob
<1> DEFINE n == Len(backend.got) + 1
<1>3. n \in DOMAIN blob /\ blob[n] \in Cell
  BY <1>1, <1>2
<1> HIDE DEF n
<1>4. Append(backend.got, blob[n]) \in Seq(Cell)
  BY <1>2, <1>3
<1>5. /\ backend' \in BackendState /\ backend'.step = "read"
      /\ backend'.got = Append(backend.got, blob[n])
  BY <1>1, <1>4 DEF FileType, BackendState, n
<1> QED BY <1>1, <1>3, <1>5 DEF n

\* The types of the file vault.
LEMMA FileTypeNext == FileType /\ CellInv /\ [FileNext]_fileVars => FileType'
<1> SUFFICES ASSUME FileType, CellInv, [FileNext]_fileVars PROVE FileType'
  OBVIOUS
<1>0. maker' \in [Maker -> MakerState]
  BY MakersNext DEF MakersKept
<1>1. ASSUME NEW m \in Maker, NEW p \in Password, CreateDevVault(m, p) PROVE FileType'
  <2>1. <<>> \in Seq(Cell)
    OBVIOUS
  <2> QED BY <1>0, <1>1, <2>1 DEF CreateDevVault, FileType
<1>2. ASSUME NEW m \in Maker, WriteCell(m) PROVE FileType'
  <2>1. SoundBlob
    BY <1>2 DEF WriteCell, Writing, CellInv
  <2>2. blob' \in Seq(Cell)
    BY <1>2, <2>1, WriteBlob
  <2> QED BY <1>0, <1>2, <2>2 DEF WriteCell, FileType
<1>3. ASSUME NEW m \in Maker, CutShort(m) PROVE FileType'
  BY <1>0, <1>3 DEF CutShort, FileType
<1>4. CASE FindVault
  BY <1>0, <1>4 DEF FindVault, FileType, BackendState
<1>5. CASE ReadCell
  <2>1. SoundBlob
    BY <1>5 DEF ReadCell, CellInv
  <2> QED BY <1>5, <2>1, ReadDoes DEF FileType
<1>6. CASE OpenVault
  <2>1. \A m \in ChachaDecrypt(backend.got, GatePassword) : m \in Maker
    BY DEF ChachaDecrypt
  <2> QED BY <1>0, <1>6, <2>1 DEF OpenVault, FileType, BackendState
<1>7. ASSUME NEW r \in DevRef, FetchDev(r) PROVE FileType'
  BY <1>7 DEF FetchDev, FileType
<1>8. CASE UNCHANGED fileVars
  BY <1>8 DEF fileVars, FileType
<1> QED BY <1>1, <1>2, <1>3, <1>4, <1>5, <1>6, <1>7, <1>8 DEF FileNext

\* What was written is still written.
LEMMA GenuineKept ==
    ASSUME FileType, MakersKept, NEW text \in Seq(Cell), Genuine(text)
    PROVE  \A i \in DOMAIN text : text[i].of \in Maker => text[i].at <= maker'[text[i].of].written
<1> SUFFICES ASSUME NEW i \in DOMAIN text, text[i].of \in Maker
             PROVE  text[i].at <= maker'[text[i].of].written
  OBVIOUS
<1>1. text[i].at \in Nat
  <2>1. text[i] \in Cell
    OBVIOUS
  <2> QED BY <2>1 DEF Cell
<1>2. maker[text[i].of].written \in Nat /\ maker'[text[i].of].written \in Nat
  BY DEF FileType, MakersKept, MakerState
<1>3. text[i].at <= maker[text[i].of].written /\ maker[text[i].of].written <= maker'[text[i].of].written
  BY DEF Genuine, MakersKept
<1> QED BY <1>1, <1>2, <1>3

\* A call that has a part of the file behind it, and the cells that say so.
LEMMA CellNext ==
    FileType /\ CellInv /\ [FileNext]_fileVars => CellInv'
<1> SUFFICES ASSUME FileType, CellInv, [FileNext]_fileVars PROVE CellInv'
  OBVIOUS
<1>0. MakersKept /\ FileType'
  BY MakersNext, FileTypeNext
<1>a. UNCHANGED blob /\ SoundBlob => SoundBlob'
  BY <1>0, GenuineKept DEF SoundBlob, Genuine
<1>b. UNCHANGED backend => Genuine(backend.got)'
  <2>1. backend.got \in Seq(Cell)
    BY DEF FileType, BackendState
  <2> QED BY <1>0, <2>1, GenuineKept DEF CellInv, Genuine
<1>c. \A m \in Maker : maker[m].written \in Nat /\ Size[m] \in Nat \ {0}
  BY VaultFileAssumption DEF FileType, MakerState
<1>1. ASSUME NEW m \in Maker, NEW p \in Password, CreateDevVault(m, p) PROVE CellInv'
  <2>1. blob' = <<>> /\ UNCHANGED backend
    BY <1>1 DEF CreateDevVault
  <2>2. SoundBlob'
    BY <2>1 DEF SoundBlob, Genuine
  <2>3. \A n \in Maker :
          /\ maker'[n].step = "new" => maker'[n].written = 0
          /\ maker'[n].step \in {"write", "cut"} => maker'[n].written < Size[n]
    BY <1>1, <1>c, CreateDoes DEF CellInv
  <2> QED BY <1>b, <2>1, <2>2, <2>3 DEF CellInv
<1>2. ASSUME NEW m \in Maker, WriteCell(m) PROVE CellInv'
  <2> DEFINE k == maker[m].written + 1
  <2>1. SoundBlob /\ UNCHANGED backend
    BY <1>2 DEF WriteCell, Writing, CellInv
  <2>2. /\ blob' \in Seq(Cell)
        /\ \A i \in DOMAIN blob' :
              \/ i = k /\ blob'[i] = [of |-> m, at |-> k]
              \/ i \in DOMAIN blob /\ blob'[i] = blob[i]
              \/ blob'[i] = Zero
    BY <1>2, <2>1, WriteBlob
  <2>3. k \in Nat /\ maker'[m].written = k
    BY <1>2, <1>c, WriteDoes
  <2> HIDE DEF k
  <2>4. \A i \in DOMAIN blob : blob[i].of \in Maker => blob[i].at <= maker'[blob[i].of].written
    BY <1>0, <2>1, GenuineKept DEF SoundBlob
  <2>5. ASSUME NEW i \in DOMAIN blob', blob'[i].of \in Maker
        PROVE  blob'[i].at <= maker'[blob'[i].of].written
    <3>1. CASE blob'[i] = [of |-> m, at |-> k]
      BY <2>3, <3>1
    <3>2. CASE i \in DOMAIN blob /\ blob'[i] = blob[i]
      BY <2>4, <2>5, <3>2
    <3>3. blob'[i] # Zero
      BY <2>5, VaultFileAssumption DEF Zero
    <3> QED BY <2>2, <3>1, <3>2, <3>3
  <2>6. SoundBlob'
    BY <2>2, <2>5 DEF SoundBlob, Genuine
  <2>7. /\ maker'[m].step = "done" \/ (maker'[m].step = "write" /\ maker'[m].written < Size[m])
        /\ \A n \in Maker \ {m} : maker'[n] = maker[n]
    BY <1>2, <1>c, WriteDoes DEF CellInv
  <2>8. \A n \in Maker :
          /\ maker'[n].step = "new" => maker'[n].written = 0
          /\ maker'[n].step \in {"write", "cut"} => maker'[n].written < Size[n]
    BY <2>7 DEF CellInv
  <2> QED BY <1>b, <2>1, <2>6, <2>8 DEF CellInv
<1>3. ASSUME NEW m \in Maker, CutShort(m) PROVE CellInv'
  <2>1. SoundBlob /\ UNCHANGED <<blob, backend>>
    BY <1>3 DEF CutShort, Writing, CellInv
  <2>2. \A n \in Maker :
          /\ maker'[n].step = "new" => maker'[n].written = 0
          /\ maker'[n].step \in {"write", "cut"} => maker'[n].written < Size[n]
    BY <1>3, CutDoes DEF CellInv
  <2> QED BY <1>a, <1>b, <2>1, <2>2 DEF CellInv
<1>4. CASE FindVault
  <2>1. UNCHANGED <<blob, maker>>
        /\ backend' = [backend EXCEPT !.step = IF blob = Nobody THEN "none" ELSE "read"]
    BY <1>4 DEF FindVault
  <2>2. /\ backend'.got = backend.got
        /\ backend'.step = "read" => blob # Nobody
    BY <2>1 DEF FileType, BackendState
  <2> QED BY <2>1, <2>2 DEF CellInv, SoundBlob, Genuine
<1>5. CASE ReadCell
  <2>1. SoundBlob
    BY <1>5 DEF ReadCell, CellInv
  <2> DEFINE n == Len(backend.got) + 1
  <2>2. /\ backend'.step = "read" /\ backend'.got = Append(backend.got, blob[n])
        /\ n \in DOMAIN blob /\ blob[n] \in Cell
        /\ UNCHANGED <<blob, maker, served, disturbed>>
    BY <1>5, <2>1, ReadDoes
  <2>3. backend.got \in Seq(Cell)
    BY DEF FileType, BackendState
  <2> DEFINE c == blob[n]
  <2>4. c.of \in Maker => c.at <= maker[c.of].written
    BY <2>1, <2>2 DEF SoundBlob, Genuine
  <2> HIDE DEF c
  <2>5. \A i \in DOMAIN Append(backend.got, c) :
           Append(backend.got, c)[i] = c \/ (i \in DOMAIN backend.got /\ Append(backend.got, c)[i] = backend.got[i])
    BY <2>3
  <2>6. Genuine(Append(backend.got, c))
    BY <2>4, <2>5 DEF CellInv, Genuine
  <2>7. Genuine(backend.got)'
    BY <2>2, <2>6 DEF Genuine, c
  <2> QED BY <2>1, <2>2, <2>7 DEF CellInv, SoundBlob, Genuine
<1>6. CASE OpenVault
  <2>1. UNCHANGED <<blob, maker>> /\ backend'.got = backend.got /\ backend'.step # "read"
    BY <1>6 DEF OpenVault, FileType, BackendState
  <2> QED BY <2>1 DEF CellInv, SoundBlob, Genuine
<1>7. ASSUME NEW r \in DevRef, FetchDev(r) PROVE CellInv'
  BY <1>7 DEF FetchDev, CellInv, SoundBlob, Genuine
<1>8. CASE UNCHANGED fileVars
  BY <1>8 DEF fileVars, CellInv, SoundBlob, Genuine
<1> QED BY <1>1, <1>2, <1>3, <1>4, <1>5, <1>6, <1>7, <1>8 DEF FileNext

\* What a Gate opens was written to its end, and so is what it serves.
LEMMA ServedNext ==
    FileType /\ CellInv /\ ServedInv /\ [FileNext]_fileVars => ServedInv'
<1> SUFFICES ASSUME FileType, CellInv, ServedInv, [FileNext]_fileVars PROVE ServedInv'
  OBVIOUS
<1>0. MakersKept
  BY MakersNext
<1>1. \A m \in Maker : Complete(m) => Complete(m)'
  BY <1>0 DEF MakersKept, Complete
<1>2. CASE UNCHANGED <<backend, served>>
  BY <1>1, <1>2 DEF ServedInv
<1>3. CASE FindVault \/ ReadCell
  <2>1. UNCHANGED served /\ backend'.step # "open"
    BY <1>3 DEF FindVault, ReadCell, FileType, BackendState
  <2> QED BY <1>1, <2>1 DEF ServedInv
<1>4. CASE OpenVault
  <2> DEFINE found == IF backend.got = <<>> THEN {} ELSE ChachaDecrypt(backend.got, GatePassword)
  <2>1. /\ UNCHANGED <<maker, served>>
        /\ \/ backend' = [backend EXCEPT !.step = "failed"]
           \/ \E m \in found : backend' = [backend EXCEPT !.step = "open", !.of = m]
    BY <1>4 DEF OpenVault
  <2>2. ASSUME NEW m \in found PROVE m \in Maker /\ Complete(m)
    <3>1. /\ m \in Maker /\ backend.got = Text(m, Size[m]) /\ maker[m].password = GatePassword
      BY <2>2 DEF ChachaDecrypt, Text
    <3>2. Size[m] \in Nat /\ Size[m] >= 1 /\ maker[m] \in MakerState
      BY <3>1, VaultFileAssumption DEF FileType
    <3>3. /\ Size[m] \in DOMAIN backend.got /\ backend.got[Size[m]].of = m
          /\ backend.got[Size[m]].at = Size[m]
      BY <3>1, <3>2, TextSeq
    <3>4. Size[m] <= maker[m].written
      BY <3>1, <3>3 DEF CellInv, Genuine
    <3>5. maker[m].step = "done"
      BY <3>1, <3>2, <3>4 DEF CellInv, MakerState
    <3> QED BY <3>1, <3>5 DEF Complete
  <2>3. backend'.step = "open" => backend'.of \in found
    BY <2>1 DEF FileType, BackendState
  <2> QED BY <1>1, <2>1, <2>2, <2>3 DEF ServedInv
<1>5. ASSUME NEW r \in DevRef, FetchDev(r) PROVE ServedInv'
  <2>1. /\ backend.step = "open" /\ UNCHANGED <<backend, maker>>
        /\ served' = IF r \in Stored[backend.of] THEN [ref |-> r, of |-> backend.of] ELSE Nothing
    BY <1>5 DEF FetchDev
  <2>2. served' # Nothing => served'.of = backend.of /\ served'.ref \in Stored[backend.of]
    BY <2>1
  <2> QED BY <1>1, <2>1, <2>2 DEF ServedInv
<1>6. \/ UNCHANGED <<backend, served>> \/ FindVault \/ ReadCell \/ OpenVault
      \/ \E r \in DevRef : FetchDev(r)
  BY DEF FileNext, fileVars, CreateDevVault, WriteCell, CutShort
<1> QED BY <1>2, <1>3, <1>4, <1>5, <1>6

\* While nobody was cut short or overlapped with another, the file is the text of one
\* call, as far as that call has come, and a Gate reads it from its beginning.
LEMMA OrderNext ==
    FileType /\ CellInv /\ OrderInv /\ [FileNext]_fileVars => OrderInv'
<1> SUFFICES ASSUME FileType, CellInv, OrderInv, [FileNext]_fileVars PROVE OrderInv'
  OBVIOUS
<1>0. MakersKept /\ disturbed \in BOOLEAN
  BY MakersNext DEF FileType
<1>a. \A m \in Maker : maker[m].written \in Nat /\ Size[m] \in Nat /\ Size[m] >= 1
  BY VaultFileAssumption DEF FileType, MakerState
\* A Gate that failed stays so, over a call that has ended.
<1>b. ASSUME ~disturbed, backend.step = "failed", UNCHANGED backend
      PROVE  /\ backend'.got # <<>> /\ backend'.got[1].of \in Maker
             /\ maker'[backend'.got[1].of].step = "done"
             /\ maker'[backend'.got[1].of].password # GatePassword
  BY <1>0, <1>b DEF OrderInv, MakersKept
<1>1. ASSUME NEW m \in Maker, NEW p \in Password, CreateDevVault(m, p) PROVE OrderInv'
  <2>1. /\ blob' = <<>> /\ UNCHANGED backend
        /\ disturbed' = (disturbed \/ backend.step = "read" \/ \E n \in Maker : Writing(n))
    BY <1>1 DEF CreateDevVault
  <2>2. /\ maker[m].step = "new" /\ maker'[m].step = "write" /\ maker'[m].written = 0
        /\ \A n \in Maker \ {m} : maker'[n] = maker[n]
    BY <1>1, CreateDoes DEF CellInv
  <2>3. blob' = Text(m, 0)
    BY <2>1 DEF Text
  <2>4. ASSUME ~disturbed'
        PROVE  /\ ~disturbed /\ backend.step # "read"
               /\ \A n \in Maker : maker'[n].step # "cut"
               /\ \A n \in Maker : Writing(n)' => n = m
    BY <2>1, <2>2, <2>4 DEF OrderInv, Writing
  <2>5. Writing(m)'
    BY <2>2 DEF Writing
  <2> QED BY <1>b, <2>1, <2>2, <2>3, <2>4, <2>5 DEF OrderInv
<1>2. ASSUME NEW m \in Maker, WriteCell(m) PROVE OrderInv'
  <2> DEFINE k == maker[m].written + 1
  <2>1. SoundBlob /\ Writing(m) /\ UNCHANGED <<backend, disturbed>>
    BY <1>2 DEF WriteCell, Writing, CellInv
  <2>2. /\ maker'[m].written = k /\ maker'[m].step = IF k = Size[m] THEN "done" ELSE "write"
        /\ \A n \in Maker \ {m} : maker'[n] = maker[n]
    BY <1>2, WriteDoes
  <2>3. blob = Text(m, k - 1) => blob' = Text(m, k)
    BY <1>2, <2>1, WriteBlob
  <2>4. k - 1 = maker[m].written
    BY <1>a
  <2> HIDE DEF k
  <2> SUFFICES ASSUME ~disturbed PROVE OrderInv'
    BY <2>1 DEF OrderInv
  <2>5. /\ blob' = Text(m, k) /\ backend.step # "read"
        /\ \A n \in Maker \ {m} : ~Writing(n)'
    BY <2>1, <2>2, <2>3, <2>4 DEF OrderInv, Writing
  <2>6. \A n \in Maker : maker'[n].step # "cut"
    BY <2>2 DEF OrderInv
  <2>7. (\A n \in Maker : ~Writing(n)') => Settled'
    <3> SUFFICES ASSUME ~Writing(m)' PROVE Settled'
      OBVIOUS
    <3>1. maker'[m].step = "done" /\ k = Size[m]
      BY <2>2 DEF Writing
    <3> QED BY <2>5, <3>1 DEF Settled
  <2> QED BY <1>b, <2>1, <2>2, <2>5, <2>6, <2>7 DEF OrderInv
<1>3. ASSUME NEW m \in Maker, CutShort(m) PROVE OrderInv'
  BY <1>3 DEF CutShort, OrderInv
<1>4. CASE FindVault
  <2>1. /\ backend.step = "new" /\ UNCHANGED <<blob, maker>>
        /\ backend' = [backend EXCEPT !.step = IF blob = Nobody THEN "none" ELSE "read"]
        /\ disturbed' = (disturbed \/ \E m \in Maker : Writing(m))
    BY <1>4 DEF FindVault
  <2>2. /\ backend'.got = <<>> /\ backend'.step \in {"none", "read"}
        /\ backend'.step = "read" => blob # Nobody
    BY <2>1 DEF OrderInv, FileType, BackendState
  <2>3. ASSUME ~disturbed' PROVE ~disturbed /\ \A m \in Maker : ~Writing(m) /\ ~Writing(m)'
    BY <2>1, <2>3 DEF Writing
  <2>4. Settled => Settled'
    BY <2>1 DEF Settled
  <2> QED BY <2>1, <2>2, <2>3, <2>4 DEF OrderInv
<1>5. CASE ReadCell
  <2>1. SoundBlob
    BY <1>5 DEF ReadCell, CellInv
  <2> DEFINE n == Len(backend.got) + 1
  <2>2. /\ backend.step = "read" /\ backend'.step = "read"
        /\ backend'.got = Append(backend.got, blob[n])
        /\ n \in DOMAIN blob /\ blob[n] \in Cell
        /\ UNCHANGED <<blob, maker, served, disturbed>>
    BY <1>5, <2>1, ReadDoes
  <2>3. backend.got \in Seq(Cell)
    BY DEF FileType, BackendState
  <2>4. \A i \in DOMAIN Append(backend.got, blob[n]) :
           \/ i = n /\ Append(backend.got, blob[n])[i] = blob[n]
           \/ i \in DOMAIN backend.got /\ Append(backend.got, blob[n])[i] = backend.got[i]
    BY <2>3
  <2> HIDE DEF n
  <2>5. ~disturbed => \A i \in DOMAIN backend'.got : i \in DOMAIN blob /\ backend'.got[i] = blob[i]
    BY <2>2, <2>4 DEF OrderInv
  <2>6. (Settled <=> Settled') /\ \A m \in Maker : Writing(m)' <=> Writing(m)
    BY <2>2 DEF Settled, Writing
  <2> QED BY <2>2, <2>5, <2>6 DEF OrderInv
<1>6. CASE OpenVault
  <2> DEFINE found == IF backend.got = <<>> THEN {} ELSE ChachaDecrypt(backend.got, GatePassword)
  <2>1. /\ backend.step = "read" /\ Len(backend.got) >= Len(blob)
        /\ UNCHANGED <<blob, maker, disturbed>>
        /\ \/ found = {} /\ backend' = [backend EXCEPT !.step = "failed"]
           \/ \E m \in found : backend' = [backend EXCEPT !.step = "open", !.of = m]
    BY <1>6 DEF OpenVault
  <2>2. /\ backend'.got = backend.got /\ backend'.step \in {"failed", "open"}
        /\ backend'.step = "failed" => found = {}
    BY <2>1 DEF FileType, BackendState
  <2>3. ASSUME ~disturbed, found = {}
        PROVE  /\ backend.got # <<>> /\ backend.got[1].of \in Maker
               /\ maker[backend.got[1].of].step = "done"
               /\ maker[backend.got[1].of].password # GatePassword
    <3>1. PICK m \in Maker : maker[m].step = "done" /\ blob = Text(m, Size[m])
      BY <2>1, <2>3 DEF OrderInv, Settled
    <3>2. \A i \in DOMAIN backend.got : i \in DOMAIN blob /\ backend.got[i] = blob[i]
      BY <2>1, <2>3 DEF OrderInv
    <3>3. Len(blob) = Size[m] /\ DOMAIN blob = 1..Size[m] /\ blob[1].of = m
      BY <1>a, <3>1, TextSeq
    <3>4. backend.got \in Seq(Cell)
      BY DEF FileType, BackendState
    <3>5. DOMAIN backend.got = 1..Len(backend.got) /\ Len(backend.got) \in Nat
      BY <3>4
    <3>6. Len(backend.got) = Size[m]
      <4>1. Len(backend.got) >= Size[m] /\ Size[m] \in Nat
        BY <1>a, <2>1, <3>3
      <4>2. Len(backend.got) > Size[m] => Len(backend.got) \in 1..Size[m]
        BY <3>2, <3>3, <3>5, <4>1
      <4> QED BY <3>5, <4>1, <4>2
    <3>7. backend.got = Text(m, Size[m])
      <4>1. backend.got = [i \in 1..Size[m] |-> backend.got[i]]
        BY <3>4, <3>5, <3>6
      <4>2. \A i \in 1..Size[m] : backend.got[i] = [of |-> m, at |-> i]
        BY <3>1, <3>2, <3>5, <3>6 DEF Text
      <4> QED BY <4>1, <4>2 DEF Text
    <3>8. backend.got # <<>> /\ backend.got[1].of = m
      BY <1>a, <3>2, <3>3, <3>5, <3>6
    <3>9. maker[m].password # GatePassword
      BY <2>3, <3>7, <3>8 DEF ChachaDecrypt, Text
    <3> QED BY <3>1, <3>8, <3>9
  <2>4. (Settled <=> Settled') /\ \A m \in Maker : Writing(m)' <=> Writing(m)
    BY <2>1 DEF Settled, Writing
  <2> HIDE DEF found
  <2> QED BY <2>1, <2>2, <2>3, <2>4 DEF OrderInv
<1>7. ASSUME NEW r \in DevRef, FetchDev(r) PROVE OrderInv'
  BY <1>7 DEF FetchDev, OrderInv, Settled, Writing
<1>8. CASE UNCHANGED fileVars
  BY <1>8 DEF fileVars, OrderInv, Settled, Writing
<1> QED BY <1>1, <1>2, <1>3, <1>4, <1>5, <1>6, <1>7, <1>8 DEF FileNext

\* A Gate serves from the file vault only what one call of create_dev_vault wrote in
\* full and with the Gate's password, however calls overlap or are cut short; and
\* if none does, the Gate fails to start only over another password: open, fetch.
THEOREM WholeVaultTheorem == FileSpec => []ServesWholeVault
<1> DEFINE Inv == FileType /\ CellInv /\ ServedInv /\ OrderInv
<1>1. FileInit => Inv
  <2> SUFFICES ASSUME FileInit PROVE Inv
    OBVIOUS
  <2> DEFINE fresh == [step |-> "new", password |-> GatePassword, written |-> 0]
  <2>1. /\ blob = Nobody /\ maker = [m \in Maker |-> fresh] /\ served = Nothing /\ disturbed = FALSE
        /\ backend = [step |-> "new", got |-> <<>>, of |-> Nobody]
    BY DEF FileInit
  <2>2. fresh \in MakerState /\ fresh.step = "new" /\ fresh.written = 0
    BY VaultFileAssumption DEF MakerState
  <2>3. backend \in BackendState /\ backend.step = "new" /\ backend.got = <<>>
    <3>1. <<>> \in Seq(Cell)
      OBVIOUS
    <3> QED BY <2>1, <3>1 DEF BackendState
  <2> HIDE DEF fresh
  <2>4. maker \in [Maker -> MakerState] /\ \A m \in Maker : maker[m] = fresh
    BY <2>1, <2>2
  <2>5. FileType
    BY <2>1, <2>3, <2>4 DEF FileType
  <2>6. CellInv
    BY <2>1, <2>2, <2>3, <2>4 DEF CellInv, Genuine
  <2>7. ServedInv /\ OrderInv
    BY <2>1, <2>2, <2>3, <2>4 DEF ServedInv, OrderInv, Writing
  <2> QED BY <2>5, <2>6, <2>7
<1>2. Inv /\ [FileNext]_fileVars => Inv'
  BY FileTypeNext, CellNext, ServedNext, OrderNext
<1>3. Inv => ServesWholeVault
  BY DEF ServedInv, OrderInv, Complete, ServesWholeVault
<1> QED BY <1>1, <1>2, <1>3, PTL DEF FileSpec

(***************************************************************************)
(* BrowserLogin: the answers under way                                     *)
(*                                                                         *)
(* Answers are taken in their order.  As long as the probe's answer was    *)
(* not left in the stream there is one line under way, the one for the     *)
(* step of the flow, so that ExtractCookies is sent only by a flow whose   *)
(* browser is logged in.  Once it was left there are two, and what is read *)
(* for ExtractCookies is the answer to WaitForLogin, which has no cookies. *)
(***************************************************************************)

Cookies == SUBSET {"session", "tracking", "anonymous"}

Response == [to : BrowserCommand, kind : {"ok", "data", "error", "twofa"}, cookies : Cookies]

Stream == [commands : Seq(BrowserCommand), answers : Seq(Response), torn : BOOLEAN]

BrowserType ==
    /\ flow \in [origin : Origin \cup {NoOrigin}, config : Config \cup {NoOrigin},
                 step : BrowserCommand \cup {"ask", "idle"}, late : BOOLEAN]
    /\ flow.step = "idle" => flow = NoFlow
    /\ stream \in Stream
    /\ browser \in [wrapper : Wrapper \cup {NoOrigin}, alive : BOOLEAN, in : BOOLEAN]

\* No line, one line and two lines under way, by the commands they answer.
NoLine(q, a) == Len(q) = 0 /\ Len(a) = 0

OneLine(q, a, x) ==
    \/ Len(q) = 1 /\ q[1] = x /\ Len(a) = 0
    \/ Len(q) = 0 /\ Len(a) = 1 /\ a[1].to = x

TwoLines(q, a, x, y) ==
    \/ Len(q) = 2 /\ q[1] = x /\ q[2] = y /\ Len(a) = 0
    \/ Len(q) = 1 /\ q[1] = y /\ Len(a) = 1 /\ a[1].to = x
    \/ Len(q) = 0 /\ Len(a) = 2 /\ a[1].to = x /\ a[2].to = y

LineInv ==
    /\ ~flow.late =>
          /\ ~stream.torn
          /\ flow.step \in {"ask", "idle"} => NoLine(stream.commands, stream.answers)
          /\ Waiting => OneLine(stream.commands, stream.answers, flow.step)
    /\ flow.late =>
          \/ flow.step = "wait" /\ TwoLines(stream.commands, stream.answers, "probe", "wait")
          \/ flow.step = "extract" /\ TwoLines(stream.commands, stream.answers, "wait", "extract")

\* What an answer says: only that to ExtractCookies has cookies, and it has the
\* session's if the flow has not gone astray; that the login is over is true.
Says(a, in, late) ==
    /\ a.kind = "data" => a.to = "extract"
    /\ a.to = "wait" /\ a.kind = "ok" => in
    /\ a.to = "extract" /\ ~late => a.cookies \in {{}, {"session", "tracking"}}

AnswerInv ==
    /\ \A i \in DOMAIN stream.answers : Says(stream.answers[i], browser.in, flow.late)
    /\ flow.step = "extract" /\ ~flow.late => browser.in

StoreInv == store \in [Origin -> {{}, {"session"}}]

LoginInv == BrowserType /\ LineInv /\ AnswerInv /\ StoreInv

\* A command is written.
LEMMA LineSent ==
    ASSUME NEW q \in Seq(BrowserCommand), NEW T, NEW a \in Seq(T), NEW y \in BrowserCommand
    PROVE  /\ Append(q, y) \in Seq(BrowserCommand)
           /\ NoLine(q, a) => OneLine(Append(q, y), a, y)
           /\ \A x : OneLine(q, a, x) => TwoLines(Append(q, y), a, x, y)
<1>1. /\ Append(q, y) \in Seq(BrowserCommand) /\ Len(Append(q, y)) = Len(q) + 1
      /\ \A i \in 1..Len(q) : Append(q, y)[i] = q[i]
      /\ Append(q, y)[Len(q) + 1] = y
      /\ Len(q) \in Nat /\ Len(a) \in Nat
  OBVIOUS
<1>2. NoLine(q, a) => OneLine(Append(q, y), a, y)
  BY <1>1 DEF NoLine, OneLine
<1>3. ASSUME NEW x, OneLine(q, a, x) PROVE TwoLines(Append(q, y), a, x, y)
  <2>1. CASE Len(q) = 1 /\ q[1] = x /\ Len(a) = 0
    <3>1. Len(Append(q, y)) = 2 /\ Append(q, y)[1] = x /\ Append(q, y)[2] = y
      BY <1>1, <2>1
    <3> QED BY <2>1, <3>1 DEF TwoLines
  <2>2. CASE Len(q) = 0 /\ Len(a) = 1 /\ a[1].to = x
    <3>1. Len(Append(q, y)) = 1 /\ Append(q, y)[1] = y
      BY <1>1, <2>2
    <3> QED BY <2>2, <3>1 DEF TwoLines
  <2> QED BY <1>3, <2>1, <2>2 DEF OneLine
<1> QED BY <1>1, <1>2, <1>3

\* The first answer is read.
LEMMA LineRead ==
    ASSUME NEW S, NEW q \in Seq(S), NEW T, NEW a \in Seq(T), a # <<>>
    PROVE  /\ Tail(a) \in Seq(T) /\ Head(a) \in T /\ 1 \in DOMAIN a /\ Head(a) = a[1]
           /\ \A i \in DOMAIN Tail(a) : i + 1 \in DOMAIN a /\ Tail(a)[i] = a[i + 1]
           /\ \A x : OneLine(q, a, x) => NoLine(q, Tail(a)) /\ Head(a).to = x
           /\ \A x, y : TwoLines(q, a, x, y) => OneLine(q, Tail(a), y) /\ Head(a).to = x
<1>1. /\ Tail(a) \in Seq(T) /\ Head(a) \in T /\ Head(a) = a[1] /\ Len(Tail(a)) = Len(a) - 1
      /\ \A i \in 1..Len(Tail(a)) : Tail(a)[i] = a[i + 1]
      /\ Len(a) \in Nat /\ Len(a) >= 1 /\ Len(q) \in Nat
  OBVIOUS
<1>2. DOMAIN a = 1..Len(a) /\ DOMAIN Tail(a) = 1..(Len(a) - 1)
  BY <1>1
<1>3. ASSUME NEW x, OneLine(q, a, x) PROVE NoLine(q, Tail(a)) /\ Head(a).to = x
  BY <1>1, <1>3 DEF OneLine, NoLine
<1>4. ASSUME NEW x, NEW y, TwoLines(q, a, x, y) PROVE OneLine(q, Tail(a), y) /\ Head(a).to = x
  BY <1>1, <1>4 DEF OneLine, TwoLines
<1>5. 1 \in DOMAIN a /\ \A i \in DOMAIN Tail(a) : i + 1 \in DOMAIN a /\ Tail(a)[i] = a[i + 1]
  BY <1>1, <1>2
<1> QED BY <1>1, <1>3, <1>4, <1>5

\* The first command is answered, by r.
LEMMA LineAnswered ==
    ASSUME NEW S, NEW q \in Seq(S), q # <<>>, NEW T, NEW a \in Seq(T), NEW r \in T, r.to = Head(q)
    PROVE  /\ Tail(q) \in Seq(S) /\ Append(a, r) \in Seq(T)
           /\ \A i \in DOMAIN Append(a, r) :
                 Append(a, r)[i] = r \/ (i \in DOMAIN a /\ Append(a, r)[i] = a[i])
           /\ \A x : OneLine(q, a, x) => OneLine(Tail(q), Append(a, r), x) /\ Head(q) = x
           /\ \A x, y : TwoLines(q, a, x, y) => TwoLines(Tail(q), Append(a, r), x, y)
<1>1. /\ Tail(q) \in Seq(S) /\ Head(q) = q[1] /\ Len(Tail(q)) = Len(q) - 1
      /\ \A i \in 1..Len(Tail(q)) : Tail(q)[i] = q[i + 1]
      /\ Len(q) \in Nat /\ Len(q) >= 1
  OBVIOUS
<1>2. /\ Append(a, r) \in Seq(T) /\ Len(Append(a, r)) = Len(a) + 1
      /\ \A i \in 1..Len(a) : Append(a, r)[i] = a[i]
      /\ Append(a, r)[Len(a) + 1] = r
      /\ Len(a) \in Nat
  OBVIOUS
<1>3. DOMAIN a = 1..Len(a) /\ DOMAIN Append(a, r) = 1..(Len(a) + 1)
  BY <1>2
<1>4. \A i \in DOMAIN Append(a, r) : Append(a, r)[i] = r \/ (i \in DOMAIN a /\ Append(a, r)[i] = a[i])
  BY <1>2, <1>3
<1>5. ASSUME NEW x, OneLine(q, a, x) PROVE OneLine(Tail(q), Append(a, r), x) /\ Head(q) = x
  BY <1>1, <1>2, <1>5 DEF OneLine
<1>6. ASSUME NEW x, NEW y, TwoLines(q, a, x, y) PROVE TwoLines(Tail(q), Append(a, r), x, y)
  BY <1>1, <1>2, <1>6 DEF TwoLines
<1> QED BY <1>1, <1>2, <1>4, <1>5, <1>6

\* What SendCommand leaves: the flow at its next step, and the command at the end of
\* the stream whose answers are `rest`.
SentStep(y, rest) ==
    /\ flow'.step = y /\ flow'.late = flow.late
    /\ flow' \in [origin : Origin \cup {NoOrigin}, config : Config \cup {NoOrigin},
                  step : BrowserCommand \cup {"ask", "idle"}, late : BOOLEAN]
    /\ stream'.commands = Append(stream.commands, y) /\ stream'.answers = rest
    /\ stream'.torn = stream.torn /\ stream' \in Stream
    /\ UNCHANGED <<browser, store>>

\* send_command after an answer was read, or after the callback has returned.
LEMMA Sends ==
    ASSUME BrowserType, NEW y \in BrowserCommand, NEW s \in Stream, SendCommand(y, s),
           s.commands = stream.commands, s.torn = stream.torn
    PROVE  SentStep(y, s.answers)
<1>1. /\ flow' = [flow EXCEPT !.step = y]
      /\ stream' = [s EXCEPT !.commands = Append(@, y)]
      /\ UNCHANGED <<browser, store>>
  BY DEF SendCommand
<1>2. Append(s.commands, y) \in Seq(BrowserCommand)
  BY LineSent DEF Stream
<1>3. /\ stream' \in Stream /\ stream'.commands = Append(s.commands, y)
      /\ stream'.answers = s.answers /\ stream'.torn = s.torn
  BY <1>1, <1>2 DEF Stream
<1>4. /\ flow'.step = y /\ flow'.late = flow.late
      /\ flow' \in [origin : Origin \cup {NoOrigin}, config : Config \cup {NoOrigin},
                    step : BrowserCommand \cup {"ask", "idle"}, late : BOOLEAN]
  BY <1>1 DEF BrowserType
<1> QED BY <1>1, <1>3, <1>4 DEF SentStep

\* The stream once its first answer was taken.
LEMMA RestStream ==
    ASSUME BrowserType, stream.answers # <<>>
    PROVE  /\ Rest \in Stream /\ Rest.commands = stream.commands /\ Rest.torn = stream.torn
           /\ Rest.answers = Tail(stream.answers)
<1>1. stream.answers \in Seq(Response) /\ stream.commands \in Seq(BrowserCommand)
  BY DEF BrowserType, Stream
<1>2. Tail(stream.answers) \in Seq(Response)
  BY <1>1, LineRead
<1> QED BY <1>1, <1>2 DEF Rest, BrowserType, Stream

\* The flow ends, or is dropped.
LEMMA EndKeeps ==
    ASSUME LoginInv, End, StoreInv'
    PROVE  LoginInv'
<1>1. /\ flow' = NoFlow /\ stream' = Closed
      /\ browser' = [browser EXCEPT !.alive = @ /\ browser.wrapper = "unshare"]
  BY DEF End
<1>2. /\ flow'.step = "idle" /\ flow'.late = FALSE
      /\ flow' \in [origin : Origin \cup {NoOrigin}, config : Config \cup {NoOrigin},
                    step : BrowserCommand \cup {"ask", "idle"}, late : BOOLEAN]
  BY <1>1 DEF NoFlow
<1>3. stream'.commands = <<>> /\ stream'.answers = <<>> /\ stream'.torn = FALSE /\ stream' \in Stream
  <2>1. <<>> \in Seq(BrowserCommand) /\ <<>> \in Seq(Response)
    OBVIOUS
  <2> QED BY <1>1, <2>1 DEF Closed, Stream
<1>4. BrowserType'
  <2>1. (browser.alive /\ browser.wrapper = "unshare") \in BOOLEAN
    OBVIOUS
  <2>2. browser' \in [wrapper : Wrapper \cup {NoOrigin}, alive : BOOLEAN, in : BOOLEAN]
    BY <1>1, <2>1 DEF LoginInv, BrowserType
  <2> QED BY <1>1, <1>2, <1>3, <2>2 DEF BrowserType
<1>5. LineInv'
  BY <1>2, <1>3 DEF LineInv, NoLine, Waiting, BrowserCommand
<1>6. AnswerInv'
  BY <1>2, <1>3 DEF AnswerInv
<1> QED BY <1>4, <1>5, <1>6 DEF LoginInv

\* A command is sent by a flow whose answers come in step, and after the answer to the
\* last one was taken.
LEMMA SentKeeps ==
    ASSUME LoginInv, NEW y \in BrowserCommand, NEW rest \in Seq(Response), SentStep(y, rest),
           ~flow.late, NoLine(stream.commands, rest), y = "extract" => browser.in
    PROVE  LoginInv'
<1>1. /\ flow'.step = y /\ flow'.late = FALSE /\ ~stream.torn
      /\ stream'.commands = Append(stream.commands, y) /\ stream'.answers = rest
      /\ stream'.torn = stream.torn
      /\ UNCHANGED <<browser, store>>
  BY DEF SentStep, LoginInv, LineInv, BrowserType
<1>2. y # "idle" /\ y # "ask"
  BY DEF BrowserCommand
<1>3. BrowserType'
  BY <1>1, <1>2 DEF SentStep, LoginInv, BrowserType
<1>4. OneLine(stream'.commands, stream'.answers, y)
  BY <1>1, LineSent DEF LoginInv, BrowserType, Stream
<1>5. LineInv'
  BY <1>1, <1>2, <1>4 DEF LineInv, Waiting
<1>6. DOMAIN rest = {}
  BY DEF NoLine
<1>7. AnswerInv'
  BY <1>1, <1>6 DEF AnswerInv
<1> QED BY <1>1, <1>3, <1>5, <1>7 DEF LoginInv, StoreInv

\* The order of run_login_flow.
LEMMA FollowedByStep ==
    ASSUME NEW s \in {"navigate", "fill", "submit", "enter", "wait"}
    PROVE  FollowedBy(s) \in BrowserCommand /\ (FollowedBy(s) = "extract" <=> s = "wait")
BY DEF FollowedBy, BrowserCommand

\* send_expect_ok goes on after an answer that is taken for a yes.
LEMMA ReadOkKeeps == LoginInv /\ ReadOk => LoginInv'
<1> SUFFICES ASSUME LoginInv, ReadOk PROVE LoginInv'
  OBVIOUS
<1>1. flow.step \in {"navigate", "fill", "submit", "enter", "wait"} /\ stream.answers # <<>>
  BY DEF ReadOk
<1>2. CASE End /\ UNCHANGED store
  BY <1>2, EndKeeps DEF LoginInv, StoreInv
<1>3. CASE Taken.kind \in {"ok", "data"} /\ SendCommand(FollowedBy(flow.step), Rest)
  <2> DEFINE y == FollowedBy(flow.step)
             q == stream.commands
             a == stream.answers
  <2>1. BrowserType /\ q \in Seq(BrowserCommand) /\ a \in Seq(Response)
    BY DEF LoginInv, BrowserType, Stream
  <2>2. y \in BrowserCommand /\ (y = "extract" <=> flow.step = "wait")
    BY <1>1, FollowedByStep
  <2>3. ~stream.torn /\ Taken = Head(a)
    BY <1>3 DEF Taken, BrowserResponse
  <2>4. Rest \in Stream /\ Rest.commands = q /\ Rest.torn = stream.torn /\ Rest.answers = Tail(a)
    BY <1>1, <2>1, RestStream
  <2>5. SentStep(y, Tail(a))
    BY <1>3, <2>1, <2>2, <2>4, Sends
  <2>6. /\ Tail(a) \in Seq(Response) /\ Head(a) \in Response /\ 1 \in DOMAIN a /\ Head(a) = a[1]
        /\ \A i \in DOMAIN Tail(a) : i + 1 \in DOMAIN a /\ Tail(a)[i] = a[i + 1]
        /\ \A x : OneLine(q, a, x) => NoLine(q, Tail(a)) /\ Head(a).to = x
        /\ \A x, z : TwoLines(q, a, x, z) => OneLine(q, Tail(a), z) /\ Head(a).to = x
    BY <1>1, <2>1, LineRead
  <2> HIDE DEF y, q, a
  <2>7. Head(a).kind \in {"ok", "data"} /\ Says(Head(a), browser.in, flow.late)
    BY <1>3, <2>3, <2>6 DEF LoginInv, AnswerInv, a
  <2>8. CASE ~flow.late
    <3>1. OneLine(q, a, flow.step)
      BY <1>1, <2>8 DEF LoginInv, LineInv, Waiting, BrowserCommand, q, a
    <3>2. NoLine(q, Tail(a)) /\ Head(a).to = flow.step
      BY <2>6, <3>1
    <3>3. y = "extract" => browser.in
      BY <2>2, <2>7, <3>2 DEF Says
    <3> QED BY <2>2, <2>5, <2>6, <2>8, <3>2, <3>3, SentKeeps DEF q
  <2>9. CASE flow.late
    <3>1. flow.step = "wait" /\ TwoLines(q, a, "probe", "wait")
      BY <1>1, <2>9 DEF LoginInv, LineInv, q, a
    <3>2. OneLine(q, Tail(a), "wait") /\ y = "extract"
      BY <2>2, <2>6, <3>1
    <3>3. TwoLines(Append(q, y), Tail(a), "wait", "extract")
      BY <2>1, <2>2, <2>6, <3>2, LineSent
    <3>4. /\ flow'.step = "extract" /\ flow'.late = flow.late /\ stream'.answers = Tail(a)
          /\ stream'.commands = Append(q, y) /\ UNCHANGED <<browser, store>>
      BY <2>5, <3>2 DEF SentStep, q
    <3>5. BrowserType'
      BY <2>1, <2>5, <3>4 DEF SentStep, BrowserType
    <3>6. LineInv'
      BY <2>9, <3>3, <3>4 DEF LineInv
    <3>7. AnswerInv'
      BY <2>6, <2>9, <3>4 DEF LoginInv, AnswerInv, Says, a
    <3> QED BY <3>4, <3>5, <3>6, <3>7 DEF LoginInv, StoreInv
  <2> QED BY <2>8, <2>9
<1> QED BY <1>2, <1>3 DEF ReadOk

\* try_handle_twofa reads the probe's answer.
LEMMA ReadProbeKeeps == LoginInv /\ ReadProbe => LoginInv'
<1> SUFFICES ASSUME LoginInv, ReadProbe PROVE LoginInv'
  OBVIOUS
<1> DEFINE q == stream.commands
           a == stream.answers
<1>1. flow.step = "probe" /\ a # <<>>
  BY DEF ReadProbe
<1>2. BrowserType /\ q \in Seq(BrowserCommand) /\ a \in Seq(Response) /\ flow.late \in BOOLEAN
  BY DEF LoginInv, BrowserType, Stream
<1>3. ~flow.late /\ OneLine(q, a, "probe") /\ ~stream.torn
  BY <1>1, <1>2 DEF LoginInv, LineInv, Waiting, BrowserCommand
<1>4. Tail(a) \in Seq(Response) /\ NoLine(q, Tail(a))
  BY <1>1, <1>2, <1>3, LineRead
<1>5. Rest \in Stream /\ Rest.commands = q /\ Rest.torn = stream.torn /\ Rest.answers = Tail(a)
  BY <1>1, <1>2, RestStream
<1>6. CASE End /\ UNCHANGED store
  BY <1>6, EndKeeps DEF LoginInv, StoreInv
<1>7. CASE SendCommand("wait", Rest)
  <2>1. "wait" \in BrowserCommand /\ "wait" # "extract"
    BY DEF BrowserCommand
  <2>2. SentStep("wait", Tail(a))
    BY <1>2, <1>5, <1>7, <2>1, Sends
  <2> HIDE DEF q, a
  <2> QED BY <1>3, <1>4, <2>1, <2>2, SentKeeps DEF q
<1>8. CASE flow' = [flow EXCEPT !.step = "ask"] /\ stream' = Rest /\ UNCHANGED <<browser, store>>
  <2>1. /\ flow'.step = "ask" /\ flow'.late = flow.late /\ BrowserType'
    BY <1>2, <1>5, <1>8 DEF BrowserType
  <2>2. LineInv'
    BY <1>3, <1>4, <1>5, <1>8, <2>1 DEF LineInv, Waiting, BrowserCommand
  <2>3. DOMAIN Tail(a) = {}
    <3> DEFINE t == Tail(a)
    <3>1. t \in Seq(Response) /\ Len(t) = 0
      BY <1>4 DEF NoLine
    <3> HIDE DEF t
    <3>2. DOMAIN t = {}
      BY <3>1
    <3> QED BY <3>2 DEF t
  <2>4. AnswerInv'
    BY <1>5, <1>8, <2>1, <2>3 DEF AnswerInv
  <2> QED BY <1>8, <2>1, <2>2, <2>4 DEF LoginInv, StoreInv
<1> QED BY <1>6, <1>7, <1>8 DEF ReadProbe

\* The code is entered, or the callback fails.
LEMMA CallbackKeeps == LoginInv /\ CallbackReturns => LoginInv'
<1> SUFFICES ASSUME LoginInv, CallbackReturns PROVE LoginInv'
  OBVIOUS
<1>1. /\ flow.step = "ask" /\ BrowserType /\ stream \in Stream
      /\ stream.answers \in Seq(Response) /\ flow.late \in BOOLEAN
  BY DEF CallbackReturns, LoginInv, BrowserType, Stream
<1>2. ~flow.late /\ NoLine(stream.commands, stream.answers)
  BY <1>1 DEF LoginInv, LineInv
<1>3. CASE End /\ UNCHANGED store
  BY <1>3, EndKeeps DEF LoginInv, StoreInv
<1>4. CASE SendCommand("enter", stream)
  <2>1. "enter" \in BrowserCommand /\ "enter" # "extract"
    BY DEF BrowserCommand
  <2>2. SentStep("enter", stream.answers)
    BY <1>1, <1>4, <2>1, Sends
  <2> QED BY <1>1, <1>2, <2>1, <2>2, SentKeeps
<1> QED BY <1>3, <1>4 DEF CallbackReturns

\* Cookies that are stored are those of a session, without the tracking.
LEMMA ReadCookiesKeeps == LoginInv /\ ReadCookies => LoginInv'
<1> SUFFICES ASSUME LoginInv, ReadCookies PROVE LoginInv'
  OBVIOUS
<1> DEFINE q == stream.commands
           a == stream.answers
<1>1. /\ flow.step = "extract" /\ a # <<>> /\ End
      /\ store' = IF Taken.kind = "data" /\ Taken.cookies # {}
                  THEN StoreProxyOnly(flow.origin, Taken.cookies) ELSE store
  BY DEF ReadCookies
<1>2. q \in Seq(BrowserCommand) /\ a \in Seq(Response) /\ flow.late \in BOOLEAN
  BY DEF LoginInv, BrowserType, Stream
<1>3. ASSUME Taken.kind = "data", Taken.cookies # {}
      PROVE  Taken.cookies = {"session", "tracking"}
  <2>1. Taken = Head(a)
    BY <1>3 DEF Taken, BrowserResponse
  <2>2. /\ 1 \in DOMAIN a /\ Head(a) = a[1]
        /\ \A x, z : TwoLines(q, a, x, z) => Head(a).to = x
    BY <1>1, <1>2, LineRead
  <2> HIDE DEF q, a
  <2>3. Says(Head(a), browser.in, flow.late)
    BY <2>2 DEF LoginInv, AnswerInv, a
  <2>4. Head(a).to = "extract"
    BY <1>3, <2>1, <2>3 DEF Says
  <2>5. ~flow.late
    <3>1. ASSUME flow.late PROVE FALSE
      <4>1. TwoLines(q, a, "wait", "extract")
        BY <1>1, <3>1 DEF LoginInv, LineInv, q, a
      <4> QED BY <2>2, <2>4, <4>1
    <3> QED BY <1>2, <3>1
  <2> QED BY <1>3, <2>1, <2>3, <2>4, <2>5 DEF Says
<1>4. FilterCookies({"session", "tracking"}) = {"session"}
  BY DEF FilterCookies
<1>5. StoreInv'
  BY <1>1, <1>3, <1>4 DEF LoginInv, StoreInv, StoreProxyOnly
<1> QED BY <1>1, <1>5, EndKeeps

\* Only the probe's time may pass without an end, and leaves its answer under way.
LEMMA TimeoutKeeps == LoginInv /\ Timeout => LoginInv'
<1> SUFFICES ASSUME LoginInv, Timeout PROVE LoginInv'
  OBVIOUS
<1>1. CASE End /\ UNCHANGED store
  BY <1>1, EndKeeps DEF LoginInv, StoreInv
<1>2. ASSUME flow.step = "probe", NEW half \in BOOLEAN,
             flow' = [flow EXCEPT !.step = "wait", !.late = TRUE],
             stream' = [stream EXCEPT !.torn = half, !.commands = Append(@, "wait")],
             UNCHANGED <<browser, store, logins>>
      PROVE  LoginInv'
  <2> DEFINE q == stream.commands
             a == stream.answers
  <2>1. /\ BrowserType /\ q \in Seq(BrowserCommand) /\ a \in Seq(Response) /\ flow.late \in BOOLEAN
        /\ "wait" \in BrowserCommand
    BY DEF LoginInv, BrowserType, Stream, BrowserCommand
  <2>2. ~flow.late /\ OneLine(q, a, "probe")
    BY <1>2, <2>1 DEF LoginInv, LineInv, Waiting, BrowserCommand
  <2>3. TwoLines(Append(q, "wait"), a, "probe", "wait") /\ Append(q, "wait") \in Seq(BrowserCommand)
    BY <2>1, <2>2, LineSent
  <2>4. /\ stream'.commands = Append(q, "wait") /\ stream'.answers = a /\ stream' \in Stream
        /\ flow'.step = "wait" /\ flow'.late = TRUE
        /\ flow' \in [origin : Origin \cup {NoOrigin}, config : Config \cup {NoOrigin},
                      step : BrowserCommand \cup {"ask", "idle"}, late : BOOLEAN]
    BY <1>2, <2>1, <2>3 DEF BrowserType, Stream
  <2>5. BrowserType'
    BY <1>2, <2>1, <2>4 DEF BrowserType
  <2>6. LineInv'
    BY <2>3, <2>4 DEF LineInv
  <2>7. AnswerInv'
    BY <1>2, <2>4 DEF LoginInv, AnswerInv, Says
  <2> QED BY <1>2, <2>5, <2>6, <2>7 DEF LoginInv, StoreInv
<1> QED BY <1>1, <1>2 DEF Timeout

\* What the program in the browser answers to a command.
LEMMA AnswerSays ==
    ASSUME NEW c \in BrowserCommand, NEW in \in BOOLEAN, NEW r \in AnswerTo(c, in)
    PROVE  /\ r \in Response /\ r.to = c
           /\ r.kind = "data" => c = "extract"
           /\ c = "wait" /\ r.kind = "ok" => in
           /\ c = "extract" /\ in => r.cookies \in {{}, {"session", "tracking"}}
<1> DEFINE To(kind, cookies) == [to |-> c, kind |-> kind, cookies |-> cookies]
<1>1. PICK kind \in {"ok", "data", "error", "twofa"}, cookies \in Cookies :
          /\ r = To(kind, cookies)
          /\ kind = "data" => c = "extract"
          /\ c = "wait" /\ kind = "ok" => in
          /\ c = "extract" /\ in => cookies \in {{}, {"session", "tracking"}}
  <2>1. CASE c \in {"navigate", "fill", "enter", "submit"}
    BY <2>1 DEF AnswerTo, BrowserResponse, Cookies
  <2>2. CASE c \in {"probe", "wait"}
    BY <2>2 DEF AnswerTo, BrowserResponse, Cookies
  <2>3. CASE c = "extract"
    BY <2>3 DEF AnswerTo, BrowserResponse, Cookies
  <2> QED BY <2>1, <2>2, <2>3 DEF BrowserCommand
<1> QED BY <1>1 DEF Response

\* The browser answers the first command; the site may let it in meanwhile.
LEMMA ObeyKeeps == LoginInv /\ Obey => LoginInv'
<1> SUFFICES ASSUME LoginInv, Obey PROVE LoginInv'
  OBVIOUS
<1> DEFINE q == stream.commands
           a == stream.answers
           c == Head(q)
<1>1. q # <<>> /\ UNCHANGED <<flow, store>>
  BY DEF Obey
<1>0. PICK in \in BOOLEAN :
          /\ browser.in => in
          /\ browser' = [browser EXCEPT !.in = in]
          /\ \E r \in AnswerTo(c, in) :
                stream' = [stream EXCEPT !.commands = Tail(@), !.answers = Append(@, r)]
  BY DEF Obey, LoginInv, BrowserType
<1>2. PICK r \in AnswerTo(c, in) :
          /\ browser.in => in
          /\ browser' = [browser EXCEPT !.in = in]
          /\ stream' = [stream EXCEPT !.commands = Tail(@), !.answers = Append(@, r)]
  BY <1>0
<1>3. /\ BrowserType /\ q \in Seq(BrowserCommand) /\ a \in Seq(Response)
      /\ flow.late \in BOOLEAN /\ c \in BrowserCommand
  <2>1. BrowserType /\ q \in Seq(BrowserCommand) /\ a \in Seq(Response) /\ flow.late \in BOOLEAN
    BY DEF LoginInv, BrowserType, Stream
  <2> QED BY <1>1, <2>1
<1> HIDE DEF c
<1>4. /\ r \in Response /\ r.to = c
      /\ r.kind = "data" => c = "extract"
      /\ c = "wait" /\ r.kind = "ok" => in
      /\ c = "extract" /\ in => r.cookies \in {{}, {"session", "tracking"}}
  BY <1>3, AnswerSays
<1>5. /\ Tail(q) \in Seq(BrowserCommand) /\ Append(a, r) \in Seq(Response)
      /\ \A i \in DOMAIN Append(a, r) : Append(a, r)[i] = r \/ (i \in DOMAIN a /\ Append(a, r)[i] = a[i])
      /\ \A x : OneLine(q, a, x) => OneLine(Tail(q), Append(a, r), x) /\ c = x
      /\ \A x, y : TwoLines(q, a, x, y) => TwoLines(Tail(q), Append(a, r), x, y)
  BY <1>1, <1>3, <1>4, LineAnswered DEF c
<1>6. /\ stream'.commands = Tail(q) /\ stream'.answers = Append(a, r)
      /\ stream'.torn = stream.torn /\ stream' \in Stream
  BY <1>2, <1>3, <1>5 DEF BrowserType, Stream
<1>7. browser'.in = in /\ BrowserType'
  BY <1>1, <1>2, <1>3, <1>6 DEF BrowserType
<1>8. flow.step \notin {"ask", "idle"} \/ flow.late
  BY <1>1, <1>3 DEF LoginInv, LineInv, NoLine
<1> HIDE DEF q, a
<1>9. LineInv'
  BY <1>1, <1>3, <1>5, <1>6, <1>8 DEF LoginInv, LineInv, Waiting, q, a
<1>10. ~flow.late => c = flow.step
  <2>1. ~flow.late => OneLine(q, a, flow.step)
    BY <1>3, <1>8 DEF LoginInv, LineInv, Waiting, BrowserType, q, a
  <2> QED BY <1>5, <2>1
<1>11. Says(r, in, flow.late)
  BY <1>2, <1>4, <1>10 DEF Says, LoginInv, AnswerInv
<1>12. \A i \in DOMAIN a : Says(a[i], in, flow.late)
  BY <1>2 DEF LoginInv, AnswerInv, Says, a
<1>13. AnswerInv'
  BY <1>1, <1>2, <1>5, <1>6, <1>7, <1>11, <1>12 DEF LoginInv, AnswerInv
<1> QED BY <1>1, <1>7, <1>9, <1>13 DEF LoginInv, StoreInv

\* A capture begins with a browser that nobody has let in, and an empty stream.
LEMMA CaptureKeeps ==
    ASSUME LoginInv, NEW o \in Origin, NEW w \in Wrapper, NEW c \in Config, Capture(o, w, c)
    PROVE  LoginInv'
<1>1. /\ browser' = [wrapper |-> w, alive |-> TRUE, in |-> FALSE]
      /\ flow' = [origin |-> o, config |-> c, step |-> "navigate", late |-> FALSE]
      /\ stream' = [Closed EXCEPT !.commands = <<"navigate">>]
      /\ UNCHANGED store
  BY DEF Capture
<1>2. "navigate" \in BrowserCommand
  BY DEF BrowserCommand
<1>3. <<"navigate">> \in Seq(BrowserCommand) /\ <<>> \in Seq(Response)
  BY <1>2
<1>4. /\ stream'.commands = <<"navigate">> /\ stream'.answers = <<>> /\ stream'.torn = FALSE
      /\ stream' \in Stream
  BY <1>1, <1>3 DEF Closed, Stream
<1>5. /\ flow'.step = "navigate" /\ flow'.late = FALSE /\ BrowserType'
  BY <1>1, <1>2, <1>4 DEF BrowserType
<1>6. OneLine(stream'.commands, stream'.answers, "navigate")
  BY <1>4 DEF OneLine
<1>7. LineInv'
  BY <1>4, <1>5, <1>6 DEF LineInv, Waiting
<1>8. AnswerInv'
  BY <1>4, <1>5 DEF AnswerInv
<1> QED BY <1>1, <1>5, <1>7, <1>8 DEF LoginInv, StoreInv

\* A browser is left over from a capture that did not begin.
LEMMA AbortedKeeps ==
    ASSUME LoginInv, NEW w \in Wrapper, SpawnAborted(w)
    PROVE  LoginInv'
<1>1. /\ browser' = [wrapper |-> w, alive |-> TRUE, in |-> FALSE]
      /\ UNCHANGED <<flow, stream, store>> /\ flow = NoFlow
  BY DEF SpawnAborted
<1>2. BrowserType'
  BY <1>1 DEF LoginInv, BrowserType
<1>3. flow.step = "idle" /\ ~flow.late
  BY <1>1 DEF NoFlow
<1>4. DOMAIN stream.answers = {}
  <2>1. stream.answers \in Seq(Response) /\ Len(stream.answers) = 0
    BY <1>3 DEF LoginInv, BrowserType, Stream, LineInv, NoLine
  <2> QED BY <2>1
<1>5. AnswerInv'
  BY <1>1, <1>3, <1>4 DEF AnswerInv
<1>6. LineInv' /\ StoreInv'
  BY <1>1 DEF LoginInv, LineInv, StoreInv, Waiting
<1> QED BY <1>2, <1>5, <1>6 DEF LoginInv

\* The browser exits, or nothing happens.
LEMMA ExitKeeps == LoginInv /\ (Exit \/ UNCHANGED browserVars) => LoginInv'
<1> SUFFICES ASSUME LoginInv, Exit \/ UNCHANGED browserVars PROVE LoginInv'
  OBVIOUS
<1>1. /\ UNCHANGED <<flow, stream, store>>
      /\ browser' = browser \/ browser' = [browser EXCEPT !.alive = FALSE]
  BY DEF Exit, browserVars
<1>2. browser'.in = browser.in /\ BrowserType'
  BY <1>1 DEF LoginInv, BrowserType
<1> QED BY <1>1, <1>2 DEF LoginInv, LineInv, AnswerInv, StoreInv, Waiting

\* Only the cookies of a browser the site let in are stored, whatever answers come late
\* and in whatever step the flow was: try_handle_twofa, send_expect_ok,
\* extract_cookies, store_proxy_only.
THEOREM StoredTheorem == BrowserSpec => []SessionStored
<1>1. BrowserInit => LoginInv
  <2> SUFFICES ASSUME BrowserInit PROVE LoginInv
    OBVIOUS
  <2>1. /\ flow = NoFlow /\ stream = Closed /\ store = [o \in Origin |-> {}]
        /\ browser = [wrapper |-> NoOrigin, alive |-> FALSE, in |-> FALSE]
    BY DEF BrowserInit
  <2>2. <<>> \in Seq(BrowserCommand) /\ <<>> \in Seq(Response)
    OBVIOUS
  <2>3. stream \in Stream /\ stream.commands = <<>> /\ stream.answers = <<>> /\ stream.torn = FALSE
    BY <2>1, <2>2 DEF Closed, Stream
  <2>4. flow.step = "idle" /\ flow.late = FALSE /\ BrowserType
    BY <2>1, <2>3 DEF NoFlow, BrowserType
  <2>5. LineInv
    BY <2>3, <2>4 DEF LineInv, NoLine, Waiting, BrowserCommand
  <2>6. AnswerInv /\ StoreInv
    BY <2>1, <2>3, <2>4 DEF AnswerInv, StoreInv
  <2> QED BY <2>4, <2>5, <2>6 DEF LoginInv
<1>2. LoginInv /\ [BrowserNext]_browserVars => LoginInv'
  <2> SUFFICES ASSUME LoginInv, [BrowserNext]_browserVars PROVE LoginInv'
    OBVIOUS
  <2>1. BrowserEof \/ Cancel => LoginInv'
    BY EndKeeps DEF BrowserEof, Cancel, LoginInv, StoreInv
  <2> QED BY <2>1, CaptureKeeps, AbortedKeeps, ReadOkKeeps, ReadProbeKeeps, ReadCookiesKeeps, TimeoutKeeps,
             CallbackKeeps, ObeyKeeps, ExitKeeps DEF BrowserNext, Drive
<1>3. LoginInv => SessionStored
  BY DEF LoginInv, StoreInv, SessionStored
<1> QED BY <1>1, <1>2, <1>3, PTL DEF BrowserSpec

-----------------------------------------------------------------------------
(* The intercepting proxy: Set-Cookie does not pass *)

\* What was read last lies in what was sent just before the count of what was read,
\* and each head lies in it where it begins.
StreamOK(sent, heads, read, data) ==
    /\ sent \in Seq(Piece) /\ data \in Seq(Piece) /\ read \in Nat
    /\ read <= Len(sent) /\ Len(data) <= read
    /\ \A i \in 1..Len(data) : data[i] = sent[read - Len(data) + i]
    /\ \A h \in heads : /\ IsHead(h.head) /\ h.at \in Nat /\ h.at + Len(h.head) <= Len(sent)
                        /\ \A i \in 1..Len(h.head) : sent[h.at + i] = h.head[i]

Way == [sent : Seq(Piece), heads : SUBSET [at : Nat, head : Seq(Piece)], read : Nat,
        data : Seq(Piece), passed : {StripSetCookie(d) : d \in Seq(Piece)}]

WayOK(way) ==
    /\ way \in Way
    /\ StreamOK(way.sent, way.heads, way.read, way.data)
    /\ way.passed = StripSetCookie(way.data)

\* A message after the others leaves what was read and the heads where they are.
LEMMA StreamSend ==
    ASSUME NEW sent, NEW heads, NEW read, NEW data, StreamOK(sent, heads, read, data),
           NEW head, NEW body \in Seq(Piece), IsHead(head),
           NEW new, new = sent \o head \o body
    PROVE  /\ StreamOK(new, heads \cup {[at |-> Len(sent), head |-> head]}, read, data)
           /\ new \in Seq(Piece)
<1>1. /\ sent \in Seq(Piece) /\ head \in Seq(Piece) /\ data \in Seq(Piece)
      /\ read \in Nat /\ read <= Len(sent) /\ Len(data) <= read
  BY DEF StreamOK, IsHead
<1>2. /\ new \in Seq(Piece)
      /\ Len(new) = Len(sent) + Len(head) + Len(body)
      /\ \A i \in 1..Len(sent) : new[i] = sent[i]
      /\ \A i \in 1..Len(head) : new[Len(sent) + i] = head[i]
  BY <1>1
<1>3. ASSUME NEW i \in 1..Len(data) PROVE data[i] = new[read - Len(data) + i]
  <2>1. read - Len(data) + i \in 1..Len(sent)
    BY <1>1
  <2> QED BY <1>2, <2>1 DEF StreamOK
<1>4. ASSUME NEW h \in heads
      PROVE  /\ IsHead(h.head) /\ h.at \in Nat /\ h.at + Len(h.head) <= Len(new)
             /\ \A i \in 1..Len(h.head) : new[h.at + i] = h.head[i]
  <2>1. /\ IsHead(h.head) /\ h.at \in Nat /\ h.at + Len(h.head) <= Len(sent)
        /\ \A i \in 1..Len(h.head) : sent[h.at + i] = h.head[i]
    BY DEF StreamOK
  <2>2. Len(h.head) \in Nat /\ Len(sent) \in Nat /\ Len(head) \in Nat /\ Len(body) \in Nat
    BY <1>1, <2>1 DEF IsHead
  <2>3. \A i \in 1..Len(h.head) : h.at + i \in 1..Len(sent)
    BY <2>1, <2>2
  <2> QED BY <1>2, <2>1, <2>2, <2>3
<1>5. PICK g : g = [at |-> Len(sent), head |-> head]
  OBVIOUS
<1>6. /\ IsHead(g.head) /\ g.at \in Nat /\ g.at + Len(g.head) <= Len(new)
      /\ \A i \in 1..Len(g.head) : new[g.at + i] = g.head[i]
  BY <1>1, <1>2, <1>5
<1>7. \A h \in heads \cup {g} :
        /\ IsHead(h.head) /\ h.at \in Nat /\ h.at + Len(h.head) <= Len(new)
        /\ \A i \in 1..Len(h.head) : new[h.at + i] = h.head[i]
  BY <1>4, <1>6
<1>8. read <= Len(new)
  BY <1>1, <1>2
<1> QED BY <1>1, <1>2, <1>3, <1>5, <1>7, <1>8, Zenon DEF StreamOK

\* A function on the first n numbers is a sequence.
LEMMA FunctionIsSeq ==
    ASSUME NEW S, NEW n \in Nat, NEW f \in [1..n -> S]
    PROVE  f \in Seq(S) /\ Len(f) = n
  OBVIOUS

\* A read of the next n pieces.
LEMMA StreamRead ==
    ASSUME NEW sent, NEW heads, NEW read, NEW data, StreamOK(sent, heads, read, data),
           NEW n \in Nat, n <= Len(sent) - read,
           NEW next, next = SubSeq(sent, read + 1, read + n)
    PROVE  StreamOK(sent, heads, read + n, next)
<1>1. sent \in Seq(Piece) /\ read \in Nat /\ Len(sent) \in Nat /\ read + n <= Len(sent)
  BY DEF StreamOK
<1>2. \A i \in (read + 1)..(read + n) : sent[i] \in Piece
  BY <1>1
<1>3. next = [i \in 1..n |-> sent[read + i]]
  BY <1>1
<1>4. \A i \in 1..n : sent[read + i] \in Piece
  BY <1>1
<1>5. next \in Seq(Piece) /\ Len(next) = n
  <2>1. next \in [1..n -> Piece]
    BY <1>3, <1>4
  <2> QED BY <2>1, FunctionIsSeq
<1>6. \A i \in 1..Len(next) : next[i] = sent[(read + n) - Len(next) + i]
  BY <1>1, <1>3, <1>5
<1> QED BY <1>1, <1>5, <1>6 DEF StreamOK

\* A read that begins with a head and holds it ends its header block with that head,
\* and what is dropped of it are the Set-Cookie lines of the head.
LEMMA ReadOfHead ==
    ASSUME NEW data \in Seq(Piece), NEW head, IsHead(head), Len(data) >= Len(head),
           \A i \in 1..Len(head) : data[i] = head[i]
    PROVE  StripSetCookie(data) = PiecesAt(data, DOMAIN data \ {i \in DOMAIN head : head[i] = "set"})
<1> DEFINE k == Len(head)
           ends == {i \in 2..Len(data) : data[i] = "crlf" /\ data[i - 1] # "text"}
<1>1. /\ head \in Seq(Piece) /\ k \in Nat /\ k >= 2 /\ head[k] = "crlf"
      /\ \A i \in 1..(k - 1) : head[i] \in {"line", "set"}
      /\ DOMAIN head = 1..k /\ DOMAIN data = 1..Len(data) /\ Len(data) \in Nat
  BY DEF IsHead
<1>2. data[k] = "crlf" /\ \A i \in 1..(k - 1) : data[i] \in {"line", "set"}
  BY <1>1
<1>3. k \in ends
  BY <1>1, <1>2
<1>4. \A i \in ends : i \in Nat /\ k <= i
  BY <1>1, <1>2
<1>5. FindHeaderEnd(data) = k
  <2> HIDE DEF ends, k
  <2>1. ends # {} /\ \A i \in ends : (\A j \in ends : i <= j) => i = k
    BY <1>1, <1>3, <1>4
  <2>2. (CHOOSE i \in ends : \A j \in ends : i <= j) = k
    BY <1>3, <1>4, <2>1
  <2> QED BY <2>1, <2>2 DEF FindHeaderEnd, ends
<1>6. {i \in DOMAIN data : i > k \/ data[i] # "set" \/ (i > 1 /\ data[i - 1] = "text")}
        = DOMAIN data \ {i \in DOMAIN head : head[i] = "set"}
  <2> SUFFICES ASSUME NEW i \in 1..Len(data)
               PROVE  (i > k \/ data[i] # "set" \/ (i > 1 /\ data[i - 1] = "text"))
                        <=> ~(i \in 1..k /\ head[i] = "set")
    BY <1>1
  <2>1. CASE i > k
    BY <1>1, <2>1
  <2>2. CASE i <= k
    <3>1. i \in 1..k /\ data[i] = head[i]
      BY <1>1, <2>2
    <3>2. i > 1 => data[i - 1] # "text"
      <4> SUFFICES ASSUME i > 1 PROVE data[i - 1] # "text"
        OBVIOUS
      <4>1. i - 1 \in 1..(k - 1)
        BY <1>1, <2>2
      <4> QED BY <1>2, <4>1
    <3> QED BY <1>1, <2>2, <3>1, <3>2
  <2> QED BY <1>1, <2>1, <2>2
<1>7. FilterHeaderLines(data, k) = PiecesAt(data, DOMAIN data \ {i \in DOMAIN head : head[i] = "set"})
  BY <1>6, Zenon DEF FilterHeaderLines
<1>8. k # 0
  BY <1>1
<1> QED BY <1>5, <1>7, <1>8, Zenon DEF StripSetCookie

\* A connection begins with nothing sent.
LEMMA QuietOK == WayOK(Quiet)
<1>1. <<>> \in Seq(Piece) /\ Len(<<>>) = 0
  OBVIOUS
<1>2. StripSetCookie(<<>>) = <<>>
  <2>1. {i \in 2..Len(<<>>) : <<>>[i] = "crlf" /\ <<>>[i - 1] # "text"} = {}
    BY <1>1
  <2>2. FindHeaderEnd(<<>>) = 0
    BY <2>1 DEF FindHeaderEnd
  <2> QED BY <2>2 DEF StripSetCookie
<1>3. Quiet \in Way
  BY <1>1, <1>2 DEF Quiet, Way
<1>4. StreamOK(<<>>, {}, 0, <<>>)
  BY <1>1 DEF StreamOK
<1> QED BY <1>2, <1>3, <1>4 DEF Quiet, WayOK

\* Sending and reading keep the stream as it should be.
LEMMA SendingOK ==
    ASSUME NEW way, WayOK(way), NEW m \in Message
    PROVE  WayOK(Sending(way, m))
<1>1. IsHead(m.head) /\ m.body \in Seq(Piece) /\ m.head \in Seq(Piece)
  BY MessageAssumption DEF IsHead
<1>2. PICK new : new = way.sent \o m.head \o m.body
  OBVIOUS
<1>3. PICK heads : heads = way.heads \cup {[at |-> Len(way.sent), head |-> m.head]}
  OBVIOUS
<1>4. StreamOK(new, heads, way.read, way.data) /\ new \in Seq(Piece)
  BY <1>1, <1>2, <1>3, StreamSend DEF WayOK
<1>5. heads \in SUBSET [at : Nat, head : Seq(Piece)]
  BY <1>1, <1>3 DEF WayOK, Way
<1>6. Sending(way, m) = [way EXCEPT !.sent = new, !.heads = heads]
  BY <1>2, <1>3 DEF Sending, WayOK, Way
<1>7. PICK w : w = Sending(way, m)
  OBVIOUS
<1>8. w \in Way /\ w.sent = new /\ w.heads = heads /\ w.read = way.read /\ w.data = way.data
  BY <1>4, <1>5, <1>6, <1>7 DEF WayOK, Way
<1>9. w.passed = way.passed
  BY <1>6, <1>7 DEF WayOK, Way
<1> QED BY <1>4, <1>7, <1>8, <1>9 DEF WayOK

LEMMA ReadingOK ==
    ASSUME NEW way, WayOK(way), NEW n \in Nat, n <= Left(way)
    PROVE  WayOK(Reading(way, n, StripSetCookie(NextRead(way, n))))
<1>1. PICK next : next = NextRead(way, n)
  OBVIOUS
<1>2. StreamOK(way.sent, way.heads, way.read + n, next)
  BY <1>1, StreamRead DEF WayOK, Left, NextRead
<1>3. next \in Seq(Piece) /\ way.read + n \in Nat
  BY <1>2 DEF StreamOK
<1>4. PICK w : w = Reading(way, n, StripSetCookie(next))
  OBVIOUS
<1>5. PICK done \in {StripSetCookie(d) : d \in Seq(Piece)} : done = StripSetCookie(next)
  BY <1>3
<1>6. w = [way EXCEPT !.read = way.read + n, !.data = next, !.passed = done]
  BY <1>1, <1>4, <1>5 DEF Reading
<1>7. w \in Way /\ w.sent = way.sent /\ w.heads = way.heads /\ w.read = way.read + n /\ w.data = next
  BY <1>3, <1>6 DEF WayOK, Way
<1>8. w.passed = done
  BY <1>6 DEF WayOK, Way
<1> QED BY <1>1, <1>2, <1>4, <1>5, <1>7, <1>8 DEF WayOK

\* A read that begins with a response and holds its head is passed on without the
\* Set-Cookie lines of that head and with all else but such lines, whatever
\* responses the upstream sends and wherever the reads before it ended
\* (strip_set_cookie, filter_header_lines).
THEOREM HeadTheorem == MitmSpec => []HeadStripped
<1> DEFINE Inv == WayOK(says)
<1>1. MitmInit => Inv
  BY QuietOK DEF MitmInit
<1>2. Inv /\ [MitmNext]_mitmVars => Inv'
  <2> SUFFICES ASSUME WayOK(says), [MitmNext]_mitmVars PROVE WayOK(says')
    BY DEF WayOK
  <2>1. CASE says' = says
    BY <2>1
  <2>2. CASE says' = Quiet
    BY <2>2, QuietOK
  <2>3. ASSUME NEW m \in Message, SendResponse(m) PROVE WayOK(says')
    BY <2>3, SendingOK DEF SendResponse
  <2>4. ASSUME NEW n \in 1..MaxRead, ForwardResponse(n) PROVE WayOK(says')
    <3>1. n \in Nat
      BY MitmAssumption
    <3> QED BY <2>4, <3>1, ReadingOK DEF ForwardResponse
  <2>5. CASE Connect
    BY <2>1, <2>2, <2>5 DEF Connect, HandleConnect, IssueLeafCert, Intercept, Close
  <2>6. CASE Exchange
    BY <2>1, <2>3, <2>6 DEF Exchange, SendRequest
  <2>7. CASE Forward
    BY <2>1, <2>4, <2>7 DEF Forward, ForwardRequest
  <2>8. CASE UNCHANGED mitmVars
    BY <2>1, <2>8 DEF mitmVars
  <2> QED BY <2>5, <2>6, <2>7, <2>8 DEF MitmNext
<1>3. Inv => HeadStripped
  <2> SUFFICES ASSUME WayOK(says), NEW h \in says.heads,
                      says.read - Len(says.data) = h.at, Len(says.data) >= Len(h.head)
               PROVE  \E kept \in SUBSET DOMAIN says.data :
                        /\ says.passed = PiecesAt(says.data, kept)
                        /\ \A i \in DOMAIN h.head : h.head[i] = "set" => i \notin kept
                        /\ \A i \in DOMAIN says.data \ kept : SetCookieLine(h.at + i)
    BY DEF HeadStripped
  <2>1. PICK sent, heads, read, data :
          sent = says.sent /\ heads = says.heads /\ read = says.read /\ data = says.data
    OBVIOUS
  <2>2. StreamOK(sent, heads, read, data)
    BY <2>1 DEF WayOK
  <2>3. /\ IsHead(h.head) /\ h.at + Len(h.head) <= Len(sent)
        /\ \A i \in 1..Len(h.head) : sent[h.at + i] = h.head[i]
        /\ \A i \in 1..Len(data) : data[i] = sent[read - Len(data) + i]
        /\ data \in Seq(Piece)
    BY <2>1, <2>2 DEF StreamOK
  <2>4. \A i \in 1..Len(h.head) : data[i] = h.head[i]
    <3> TAKE i \in 1..Len(h.head)
    <3>1. i \in 1..Len(data)
      BY <2>1, <2>3 DEF IsHead
    <3> QED BY <2>1, <2>3, <3>1
  <2>5. StripSetCookie(data) = PiecesAt(data, DOMAIN data \ {i \in DOMAIN h.head : h.head[i] = "set"})
    BY <2>1, <2>3, <2>4, ReadOfHead
  <2>6. says.passed = PiecesAt(says.data, DOMAIN says.data \ {i \in DOMAIN h.head : h.head[i] = "set"})
    BY <2>1, <2>5 DEF WayOK
  <2>7. ASSUME NEW i \in DOMAIN h.head, h.head[i] = "set" PROVE SetCookieLine(h.at + i)
    <3>1. h.at \in Nat /\ i \in Nat
      BY <2>1, <2>2, <2>3 DEF StreamOK, IsHead
    <3>2. (h.at + i) - h.at = i
      BY <3>1
    <3> QED BY <2>7, <3>2, Zenon DEF SetCookieLine
  <2>8. PICK kept : kept = DOMAIN says.data \ {i \in DOMAIN h.head : h.head[i] = "set"}
    OBVIOUS
  <2>9. \A i \in DOMAIN says.data \ kept : SetCookieLine(h.at + i)
    BY <2>7, <2>8
  <2> QED BY <2>6, <2>8, <2>9
<1>4. [(BrowserNext /\ UNCHANGED mitmVars) \/ (MitmNext /\ UNCHANGED browserVars)]_<<browserVars, mitmVars>>
        => [MitmNext]_mitmVars
  OBVIOUS
<1> QED BY <1>1, <1>2, <1>3, <1>4, PTL DEF MitmSpec

=============================================================================
