--------------------------- MODULE AuditLogProofs ---------------------------
(***************************************************************************)
(* Proofs about AuditLog, for any set of events: the types, the absence of *)
(* false alarms and the order of the sequence numbers are invariants.      *)
(***************************************************************************)
EXTENDS AuditLog, TLAPS

\* A file is a sequence of lines of some kind.
IsSeq(f) == \E S : f \in Seq(S)

\* Every line among the first n parses.
Clean(f, n) == \A j \in 1..n : f[j] # Garbled

\* The file and the flag of its last line fit together, and log runs only while
\* the log is open.
Shape ==
    /\ IsSeq(file)
    /\ ~ended => Len(file) > 0
    /\ step # "idle" => state = "open"

\* Why the chain holds: as long as every line parses and the last is ended,
\* prev_hash is the hash of the last line; the entry being written links to it,
\* or is the last line already and not yet ended.
ChainInv ==
    /\ NoFalseAlarm
    /\ state = "open" /\ ended /\ Clean(file, Len(file)) =>
          prevHash = IF Len(file) = 0 THEN Genesis ELSE file[Len(file)].hash
    /\ step = "line" => /\ entry.prev = prevHash
                        /\ entry.hash = Hash(entry.seq, entry.event, entry.prev)
    /\ step = "newline" => /\ ~ended
                           /\ Clean(file, Len(file)) => file[Len(file)] = entry

\* Why sequence numbers increase: the counter of an open log is not below any
\* line, and above all of them while a line is about to be written.
CounterInv ==
    /\ SequenceIncreases
    /\ \A i \in 1..Len(file) : file[i] # Garbled => file[i].seq \in Nat
    /\ state = "open" =>
          \A i \in 1..Len(file) : file[i] # Garbled => file[i].seq <= sequence
    /\ step = "line" =>
          /\ entry.seq = sequence
          /\ \A i \in 1..Len(file) : file[i] # Garbled => file[i].seq < sequence

IInv == LogTypeOK /\ Shape /\ ChainInv /\ CounterInv

-----------------------------------------------------------------------------
(* What Appended does to the file *)

\* A line is added to a sequence: it is the last, the others stay.
LEMMA AppendLine ==
    ASSUME NEW f, IsSeq(f), NEW x
    PROVE  /\ IsSeq(Append(f, x))
           /\ Len(f) \in Nat
           /\ Len(Append(f, x)) = Len(f) + 1
           /\ \A i \in 1..Len(f) : Append(f, x)[i] = f[i]
           /\ Append(f, x)[Len(f) + 1] = x
  <1>1. PICK S : f \in Seq(S)
    BY DEF IsSeq
  <1> DEFINE T == S \cup {x}
  <1>2. f \in Seq(T)
    BY <1>1
  <1>3. x \in T
    OBVIOUS
  <1>4. Append(f, x) \in Seq(T)
    BY <1>2, <1>3
  <1>5. IsSeq(Append(f, x))
    BY <1>4 DEF IsSeq
  <1>. HIDE DEF T
  <1>6. /\ Len(f) \in Nat
        /\ Len(Append(f, x)) = Len(f) + 1
        /\ \A i \in 1..Len(f) : Append(f, x)[i] = f[i]
        /\ Append(f, x)[Len(f) + 1] = x
    BY <1>2, <1>3
  <1>. QED
    BY <1>5, <1>6

\* Text that runs on garbles the last line, the others stay.
LEMMA GarbleLine ==
    ASSUME NEW f, IsSeq(f), Len(f) > 0, NEW g, g = [f EXCEPT ![Len(f)] = Garbled]
    PROVE  /\ IsSeq(g)
           /\ Len(f) \in Nat
           /\ Len(g) = Len(f)
           /\ \A i \in 1..Len(f) : i # Len(f) => g[i] = f[i]
           /\ g[Len(f)] = Garbled
  <1>1. PICK S : f \in Seq(S)
    BY DEF IsSeq
  <1> DEFINE T == S \cup {Garbled}
  <1>2. f \in Seq(T) /\ Garbled \in T
    BY <1>1
  <1>. HIDE DEF T
  <1>3. g \in Seq(T)
    BY <1>2
  <1>4. IsSeq(g)
    BY <1>3 DEF IsSeq
  <1>5. /\ Len(f) \in Nat
        /\ Len(g) = Len(f)
        /\ \A i \in 1..Len(f) : i # Len(f) => g[i] = f[i]
        /\ g[Len(f)] = Garbled
    BY <1>2, <1>3
  <1>. QED
    BY <1>4, <1>5

\* Both cases of Appended.
LEMMA AppendedFile ==
    ASSUME Shape, LogTypeOK, NEW x, NEW g, g = Appended(x)
    PROVE  /\ IsSeq(g)
           /\ Len(file) \in Nat
           /\ ended => /\ Len(g) = Len(file) + 1
                       /\ \A i \in 1..Len(file) : g[i] = file[i]
                       /\ g[Len(file) + 1] = x
           /\ ~ended => /\ Len(file) > 0
                        /\ Len(g) = Len(file)
                        /\ \A i \in 1..Len(file) : i # Len(file) => g[i] = file[i]
                        /\ g[Len(file)] = Garbled
  <1>1. CASE ended
    BY <1>1, AppendLine DEF Shape, Appended
  <1>2. CASE ~ended
    BY <1>2, GarbleLine DEF Shape, Appended
  <1>. QED
    BY <1>1, <1>2

\* The invariant says nothing about a file that is followed by garbled text but
\* what it said before: a torn write preserves what concerns the file alone.
FileInv(f) ==
    /\ \A i \in 1..Len(f) : (\A j \in 1..i : f[j] # Garbled) => Linked(f, i)
    /\ \A i, j \in 1..Len(f) :
          i < j /\ f[i] # Garbled /\ f[j] # Garbled => f[i].seq < f[j].seq
    /\ \A i \in 1..Len(f) : f[i] # Garbled => f[i].seq \in Nat

\* What a failed write or a crash leaves of the file.
LEMMA TornFile ==
    ASSUME Shape, LogTypeOK, FileInv(file), NEW g, g = Appended(Garbled)
    PROVE  /\ IsSeq(g) /\ Len(g) > 0
           /\ g[Len(g)] = Garbled
           /\ FileInv(g)
           /\ \A i \in 1..Len(g) : g[i] # Garbled => i \in 1..Len(file) /\ g[i] = file[i]
  <1>1. /\ IsSeq(g) /\ Len(file) \in Nat /\ Len(g) \in Nat /\ Len(g) > 0
        /\ g[Len(g)] = Garbled
        /\ Len(file) <= Len(g)
        /\ \A i \in 1..Len(g) : i # Len(g) => i \in 1..Len(file) /\ g[i] = file[i]
    <2>1. CASE ended
      BY <2>1, AppendedFile
    <2>2. CASE ~ended
      BY <2>2, AppendedFile
    <2>. QED
      BY <2>1, <2>2
  <1>2. \A i \in 1..Len(g) : g[i] # Garbled => i # Len(g) /\ i \in 1..Len(file) /\ g[i] = file[i]
    BY <1>1
  <1>3. ASSUME NEW i \in 1..Len(g), \A j \in 1..i : g[j] # Garbled
        PROVE  Linked(g, i)
    <2>1. \A j \in 1..i : j \in 1..Len(file) /\ g[j] = file[j]
      BY <1>1, <1>2, <1>3
    <2>2. Linked(file, i)
      BY <1>3, <2>1 DEF FileInv
    <2>. QED
      BY <2>1, <2>2, <1>1 DEF Linked
  <1>4. \A i, j \in 1..Len(g) :
           i < j /\ g[i] # Garbled /\ g[j] # Garbled => g[i].seq < g[j].seq
    BY <1>2 DEF FileInv
  <1>5. \A i \in 1..Len(g) : g[i] # Garbled => g[i].seq \in Nat
    BY <1>2 DEF FileInv
  <1>. QED
    BY <1>1, <1>2, <1>3, <1>4, <1>5 DEF FileInv

\* A line is appended to an ended file: it must link to the last one, and its
\* number be above all others, if the file parses so far.
LEMMA LineFile ==
    ASSUME Shape, LogTypeOK, ended, FileInv(file), NEW x, NEW g, g = Appended(x),
           x.seq \in Nat,
           \A i \in 1..Len(file) : file[i] # Garbled => file[i].seq < x.seq,
           Clean(file, Len(file)) =>
              x.prev = IF Len(file) = 0 THEN Genesis ELSE file[Len(file)].hash,
           x.hash = Hash(x.seq, x.event, x.prev)
    PROVE  FileInv(g)
  <1>1. /\ Len(file) \in Nat
        /\ Len(g) = Len(file) + 1
        /\ \A i \in 1..Len(file) : g[i] = file[i]
        /\ g[Len(file) + 1] = x
    BY AppendedFile
  <1>2. ASSUME NEW i \in 1..Len(g), \A j \in 1..i : g[j] # Garbled
        PROVE  Linked(g, i)
    <2>1. CASE i \in 1..Len(file)
      <3>1. Linked(file, i)
        BY <1>1, <1>2, <2>1 DEF FileInv
      <3>. QED
        BY <1>1, <2>1, <3>1 DEF Linked
    <2>2. CASE i = Len(file) + 1
      <3>1. Clean(file, Len(file))
        BY <1>1, <1>2, <2>2 DEF Clean
      <3>. QED
        BY <1>1, <2>2, <3>1 DEF Linked
    <2>. QED
      BY <1>1, <2>1, <2>2
  <1>3. \A i, j \in 1..Len(g) :
           i < j /\ g[i] # Garbled /\ g[j] # Garbled => g[i].seq < g[j].seq
    BY <1>1 DEF FileInv
  <1>4. \A i \in 1..Len(g) : g[i] # Garbled => g[i].seq \in Nat
    BY <1>1 DEF FileInv
  <1>. QED
    BY <1>2, <1>3, <1>4 DEF FileInv

-----------------------------------------------------------------------------
(* The invariant *)

\* An empty log satisfies the invariant.
LEMMA InitInv == LogInit => IInv
  <1>1. SUFFICES ASSUME LogInit PROVE IInv
    OBVIOUS
  <1>2. IsSeq(file) /\ Len(file) = 0
    BY <1>1 DEF LogInit, IsSeq
  <1>3. LogTypeOK
    BY <1>1 DEF LogInit, LogTypeOK
  <1>. QED
    BY <1>1, <1>2, <1>3
    DEF LogInit, IInv, Shape, ChainInv, CounterInv, NoFalseAlarm, SequenceIncreases

\* Types are preserved by every step.
LEMMA TypeStep == IInv /\ [LogNext]_logVars => LogTypeOK'
  <1>1. SUFFICES ASSUME IInv, [LogNext]_logVars PROVE LogTypeOK'
    OBVIOUS
  <1>. USE DEF IInv, LogTypeOK
  <1>2. CASE Start
    BY <1>1, <1>2 DEF Start
  <1>3. CASE Open
    <2>1. file # <<>> => Len(file) \in 1..Len(file)
      <3>1. PICK S : file \in Seq(S)
        BY <1>1 DEF Shape, IsSeq
      <3>. QED
        BY <3>1
    <2>. QED
      BY <1>1, <1>3, <2>1 DEF Open, Last, CounterInv
  <1>4. CASE \E e \in Event : Send(e)
    BY <1>1, <1>4 DEF Send
  <1>5. CASE Discard
    BY <1>1, <1>5 DEF Discard
  <1>6. CASE Log
    BY <1>1, <1>6 DEF Log
  <1>7. CASE WriteLine
    BY <1>1, <1>7 DEF WriteLine
  <1>8. CASE WriteNewline
    BY <1>1, <1>8 DEF WriteNewline, LogReturn
  <1>9. CASE WriteFails
    BY <1>1, <1>9 DEF WriteFails, Torn, LogReturn
  <1>10. CASE Crash
    <2>1. ended' \in BOOLEAN
      BY <1>1, <1>10 DEF Crash, Torn
    <2>2. queue' \in Seq(Event)
      BY <1>10 DEF Crash
    <2>. QED
      BY <1>1, <1>10, <2>1, <2>2 DEF Crash, LogReturn
  <1>11. CASE UNCHANGED logVars
    BY <1>1, <1>11 DEF logVars
  <1>. QED
    BY <1>1, <1>2, <1>3, <1>4, <1>5, <1>6, <1>7, <1>8, <1>9, <1>10, <1>11 DEF LogNext, Logger

\* The part of the invariant that is about the file alone.
LEMMA FilePart == NoFalseAlarm /\ SequenceIncreases
                  /\ (\A i \in 1..Len(file) : file[i] # Garbled => file[i].seq \in Nat)
                  <=> FileInv(file)
  BY DEF NoFalseAlarm, SequenceIncreases, FileInv

\* A step that leaves file and flag alone, or tears the line, leaves the file in
\* order and adds no entry to it.
LEMMA TornStep ==
    ASSUME IInv, Torn
    PROVE  /\ IsSeq(file')
           /\ ~ended' => Len(file') > 0
           /\ FileInv(file')
           /\ \A i \in 1..Len(file') : file'[i] # Garbled =>
                 i \in 1..Len(file) /\ file'[i] = file[i]
           /\ ended' /\ Clean(file', Len(file')) =>
                 file' = file /\ ended
  <1>1. Shape /\ LogTypeOK /\ FileInv(file)
    BY FilePart DEF IInv, ChainInv, CounterInv
  <1>2. CASE UNCHANGED <<file, ended>>
    BY <1>1, <1>2 DEF Shape
  <1>3. CASE step = "line" /\ file' = Appended(Garbled) /\ ended' = FALSE
    BY <1>1, <1>3, TornFile
  <1>. QED
    BY <1>2, <1>3 DEF Torn

\* What the invariant adds to the file's part about the task.
TaskInv ==
    /\ state = "open" /\ ended /\ Clean(file, Len(file)) =>
          prevHash = IF Len(file) = 0 THEN Genesis ELSE file[Len(file)].hash
    /\ step = "line" => /\ entry.prev = prevHash
                        /\ entry.hash = Hash(entry.seq, entry.event, entry.prev)
    /\ step = "newline" => /\ ~ended
                           /\ Clean(file, Len(file)) => file[Len(file)] = entry
    /\ state = "open" =>
          \A i \in 1..Len(file) : file[i] # Garbled => file[i].seq <= sequence
    /\ step = "line" =>
          /\ entry.seq = sequence
          /\ \A i \in 1..Len(file) : file[i] # Garbled => file[i].seq < sequence

\* The invariant, split into what it says of the file and of the task.
LEMMA Parts == IInv <=> LogTypeOK /\ Shape /\ FileInv(file) /\ TaskInv
  BY FilePart DEF IInv, ChainInv, CounterInv, TaskInv

\* Every step of the task, a failed write and a crash keep the invariant.
LEMMA StepInv == IInv /\ [LogNext]_logVars => IInv'
  <1>1. SUFFICES ASSUME IInv, [LogNext]_logVars PROVE LogTypeOK' /\ Shape' /\ FileInv(file') /\ TaskInv'
    BY DEF IInv, ChainInv, CounterInv, TaskInv, NoFalseAlarm, SequenceIncreases, FileInv
  <1>2. LogTypeOK'
    BY <1>1, TypeStep
  <1>3. LogTypeOK /\ Shape /\ FileInv(file) /\ TaskInv
    BY <1>1, Parts
  <1>4. CASE Start
    <2>1. UNCHANGED <<file, ended, step>> /\ step = "idle" /\ state' = "starting"
      BY <1>3, <1>4 DEF Start, Shape
    <2>. QED
      BY <1>2, <1>3, <2>1 DEF Shape, TaskInv, FileInv, Linked
  <1>5. CASE Open
    <2>1. UNCHANGED <<file, ended, step>> /\ step = "idle"
      BY <1>3, <1>5 DEF Open, Shape
    <2>2. FileInv(file') /\ Shape'
      BY <1>3, <2>1 DEF Shape
    <2>3. /\ file = <<>> => Len(file) = 0
          /\ file # <<>> => Len(file) \in 1..Len(file) /\ Len(file) # 0
      <3>1. PICK S : file \in Seq(S)
        BY <1>3 DEF Shape, IsSeq
      <3>. QED
        BY <3>1
    <2>4. CASE file = <<>>
      BY <1>2, <1>5, <2>1, <2>2, <2>3, <2>4 DEF Open, TaskInv
    <2>5. CASE file # <<>> /\ Last(file) = Garbled
      BY <1>2, <1>5, <2>1, <2>2, <2>5 DEF Open, TaskInv
    <2>6. CASE file # <<>> /\ Last(file) # Garbled
      <3>1. /\ state' = "open"
            /\ sequence' = file[Len(file)].seq
            /\ prevHash' = file[Len(file)].hash
            /\ file[Len(file)] # Garbled
        BY <1>5, <2>6 DEF Open, Last
      <3>2. \A i \in 1..Len(file) : file[i] # Garbled => file[i].seq <= file[Len(file)].seq
        BY <1>3, <2>3, <2>6, <3>1 DEF FileInv
      <3>. QED
        BY <1>2, <2>1, <2>2, <2>3, <2>6, <3>1, <3>2 DEF TaskInv
    <2>. QED
      BY <1>2, <2>2, <2>4, <2>5, <2>6
  <1>6. CASE (\E e \in Event : Send(e)) \/ Discard
    <2>1. UNCHANGED <<file, ended, state, sequence, prevHash, step, entry>>
      BY <1>6 DEF Send, Discard
    <2>. QED
      BY <1>2, <1>3, <2>1 DEF Shape, TaskInv
  <1>7. CASE Log
    <2>1. /\ UNCHANGED <<file, ended, state, prevHash>>
          /\ state = "open" /\ step' = "line" /\ sequence' = sequence + 1
          /\ entry'.prev = prevHash' /\ entry'.seq = sequence'
          /\ entry'.hash = Hash(entry'.seq, entry'.event, entry'.prev)
      BY <1>7 DEF Log, Entry
    <2>2. \A i \in 1..Len(file) : file[i] # Garbled => file[i].seq < sequence + 1 /\ file[i].seq <= sequence + 1
      BY <1>3, <2>1 DEF TaskInv, FileInv, LogTypeOK
    <2>. QED
      BY <1>2, <1>3, <2>1, <2>2 DEF Shape, TaskInv
  <1>8. CASE WriteLine
    <2>1. /\ step = "line" /\ state = "open" /\ file' = Appended(entry) /\ ended' = FALSE /\ step' = "newline"
          /\ UNCHANGED <<state, sequence, prevHash, entry>>
      BY <1>3, <1>8 DEF WriteLine, Shape
    <2>2. entry.seq = sequence /\ sequence \in Nat
      BY <1>3, <2>1 DEF TaskInv, LogTypeOK
    <2>3. CASE ended
      <3>1. FileInv(file')
        BY <1>3, <2>1, <2>2, <2>3, LineFile DEF TaskInv
      <3>2. /\ IsSeq(file') /\ Len(file) \in Nat
            /\ Len(file') = Len(file) + 1
            /\ \A i \in 1..Len(file) : file'[i] = file[i]
            /\ file'[Len(file')] = entry
        BY <1>3, <2>1, <2>3, AppendedFile
      <3>3. \A i \in 1..Len(file') : file'[i] # Garbled => file'[i].seq <= sequence
        BY <1>3, <2>1, <2>2, <3>2 DEF TaskInv, FileInv
      <3>. QED
        BY <1>2, <2>1, <3>1, <3>2, <3>3 DEF Shape, TaskInv
    <2>4. CASE ~ended
      <3>1. file' = Appended(Garbled)
        BY <2>1, <2>4 DEF Appended
      <3>2. /\ IsSeq(file') /\ Len(file') > 0
            /\ file'[Len(file')] = Garbled
            /\ FileInv(file')
            /\ \A i \in 1..Len(file') : file'[i] # Garbled => i \in 1..Len(file) /\ file'[i] = file[i]
        BY <1>3, <3>1, TornFile
      <3>3. ~Clean(file', Len(file'))
        <4>1. Len(file') \in 1..Len(file')
          <5>1. PICK S : file' \in Seq(S)
            BY <3>2 DEF IsSeq
          <5>. QED
            BY <3>2, <5>1
        <4>. QED
          BY <3>2, <4>1 DEF Clean
      <3>. QED
        BY <1>2, <1>3, <2>1, <3>2, <3>3 DEF Shape, TaskInv
    <2>. QED
      BY <2>3, <2>4
  <1>9. CASE WriteNewline
    <2>1. /\ step = "newline" /\ state = "open" /\ step' = "idle" /\ prevHash' = entry.hash
          /\ UNCHANGED <<file, state, sequence>> /\ ended' = TRUE
      BY <1>3, <1>9 DEF WriteNewline, LogReturn, Shape
    <2>2. ~ended /\ Len(file) > 0 /\ Len(file) # 0
      BY <1>3, <2>1 DEF TaskInv, Shape
    <2>. QED
      BY <1>2, <1>3, <2>1, <2>2 DEF Shape, TaskInv
  <1>10. CASE WriteFails
    <2>1. Torn /\ step' = "idle" /\ UNCHANGED <<state, sequence, prevHash>>
      BY <1>10 DEF WriteFails, LogReturn
    <2>. QED
      BY <1>1, <1>2, <1>3, <2>1, TornStep DEF Shape, TaskInv
  <1>11. CASE Crash
    <2>1. Torn /\ step' = "idle" /\ state' = "down"
      BY <1>11 DEF Crash, LogReturn
    <2>. QED
      BY <1>1, <1>2, <1>3, <2>1, TornStep DEF Shape, TaskInv
  <1>12. CASE UNCHANGED logVars
    BY <1>2, <1>3, <1>12 DEF logVars, Shape, TaskInv
  <1>. QED
    BY <1>1, <1>4, <1>5, <1>6, <1>7, <1>8, <1>9, <1>10, <1>11, <1>12 DEF LogNext, Logger

\* The invariant holds in every state of the log.
LEMMA Invariance == LogSpec => []IInv
  BY InitInv, StepInv, PTL DEF LogSpec

-----------------------------------------------------------------------------
\* The variables of the logger task keep their types.
THEOREM TypeCorrect == LogSpec => []LogTypeOK
  <1>1. IInv => LogTypeOK
    BY DEF IInv
  <1>. QED
    BY Invariance, <1>1, PTL

\* verify_chain never reports a broken link on a log only the logger wrote,
\* however many events, failed writes, crashes and restarts there were.
THEOREM NoFalseAlarmTheorem == LogSpec => []NoFalseAlarm
  <1>1. IInv => NoFalseAlarm
    BY DEF IInv, ChainInv
  <1>. QED
    BY Invariance, <1>1, PTL

\* Sequence numbers increase along the file, across failed writes and restarts.
THEOREM SequenceTheorem == LogSpec => []SequenceIncreases
  <1>1. IInv => SequenceIncreases
    BY DEF IInv, CounterInv
  <1>. QED
    BY Invariance, <1>1, PTL

=============================================================================
