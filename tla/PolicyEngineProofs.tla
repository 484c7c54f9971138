------------------------- MODULE PolicyEngineProofs -------------------------
(***************************************************************************)
(* Proof that what the policy engine grants is justified, for any number   *)
(* of policy files, edits and requests, whatever the files may hold.       *)
(***************************************************************************)
EXTENDS PolicyEngine, WellFoundedInduction, TLAPS

-----------------------------------------------------------------------------
(* Which entry decides *)

\* A set of positions has a first one.
LEMMA MinInSet ==
    ASSUME NEW S \in SUBSET Nat, S # {}
    PROVE  Min(S) \in S
<1>1. PICK x \in S : \A y \in S : ~(<<y, x>> \in OpToRel(<, Nat))
  BY NatLessThanWellFounded, WFMin, Zenon
<1>2. OpToRel(<, Nat) = {ss \in Nat \X Nat : ss[1] < ss[2]}
  BY Zenon DEF OpToRel
<1>3. \A y \in S : ~(<<y, x>> \in {ss \in Nat \X Nat : ss[1] < ss[2]})
  BY <1>1, <1>2, Zenon
<1>4. ASSUME NEW y \in S PROVE x <= y
  <2>1. <<y, x>> \in Nat \X Nat /\ <<y, x>>[1] = y /\ <<y, x>>[2] = x
    OBVIOUS
  <2>2. ~(y < x)
    BY <1>3, <2>1, Zenon
  <2> QED BY <2>2
<1> QED BY <1>4 DEF Min

PolicySet == [File -> Content \cup {<<>>}]

\* The entry evaluate finds is one of the set's.
LEMMA MatchingAmong ==
    ASSUME NEW set \in PolicySet, NEW a, NEW cred
    PROVE  \/ Matching(set, a, cred) = None
           \/ \E f \in File : \E i \in DOMAIN set[f] : Matching(set, a, cred) = set[f][i]
<1> DEFINE At(pass, f) == {i \in DOMAIN set[f] : /\ CredentialRefMatches(set[f][i], cred)
                                                 /\ Recognises(set[f][i], a, pass)}
           In(pass) == {f \in File : At(pass, f) # {}}
           passes == {pass \in Pass : In(pass) # {}}
           pass == Min(passes)
           f == Min(In(pass))
           i == Min(At(pass, f))
<1>1. Matching(set, a, cred) = IF passes = {} THEN None ELSE set[f][i]
  BY DEF Matching
<1>2. ASSUME passes # {} PROVE f \in File /\ i \in DOMAIN set[f]
  <2>1. passes \in SUBSET Nat
    BY DEF Pass
  <2>2. pass \in passes
    BY <1>2, <2>1, MinInSet
  <2>3. In(pass) \in SUBSET Nat /\ In(pass) # {}
    BY <2>2, EngineAssumption DEF File
  <2> HIDE DEF pass
  <2>4. f \in In(pass)
    BY <2>3, MinInSet
  <2>5. f \in File /\ At(pass, f) # {}
    BY <2>4
  <2> HIDE DEF f
  <2>6. At(pass, f) \in SUBSET Nat
    <3>1. set[f] \in Content \cup {<<>>}
      BY <2>5 DEF PolicySet
    <3>2. DOMAIN set[f] \in SUBSET Nat
      BY <3>1, EngineAssumption
    <3> QED BY <3>2
  <2>7. i \in At(pass, f)
    BY <2>5, <2>6, MinInSet
  <2> QED BY <2>5, <2>7
<1> HIDE DEF passes, f, i
<1> QED BY <1>1, <1>2

-----------------------------------------------------------------------------
(* The inductive invariant *)

\* Dialogs have ended as the dialog tool in use may end, or not at all.
Exit == {ExitOf(gui, b) : b \in Button}

Dialog == [task : Task, exit : Exit \cup {None}]

Entry == UNION {ToSet(c) : c \in Content}

TaskState ==
    [step : {"idle", "denied", "granted", "prompt", "waiting", "failed"},
     agent : Agent \cup {None}, entry : Entry \cup {None}, dialog : Nat]

WatchState ==
    [step : {"arm", "blocked", "ended", "settle", "load"}, event : BOOLEAN,
     left : SUBSET File, set : PolicySet]

EngineType ==
    /\ disk \in [File -> Content \cup {Garbled, None}]
    /\ watch \in WatchState
    /\ channel \in Seq(PolicySet)
    /\ policies \in PolicySet
    /\ tasks \in [Task -> TaskState]
    /\ gui \in Gui
    /\ dialogs \in Seq(Dialog)
    /\ seen \in [File -> SUBSET (Content \cup {Garbled, <<>>})]

\* What a file was seen to hold, and may be loaded.
Known(set) == \A f \in File : set[f] = <<>> \/ (set[f] \in seen[f] /\ Loadable(set[f]))

\* Whatever is or will be in force was in the files.
LoadedInv ==
    /\ \A f \in File : disk[f] # None => disk[f] \in seen[f]
    /\ Known(policies) /\ Known(watch.set)
    /\ \A i \in DOMAIN channel : Known(channel[i])

Justified(e) == \E f \in File : \E c \in seen[f] : Loadable(c) /\ e \in ToSet(c)

\* Task t has the dialog d.
HasDialog(t, d) == d \in DOMAIN dialogs /\ d # 0 /\ dialogs[d].task = t

\* A dialog ended with a button that allows.
Allowed(exit) == exit # None /\ exit \in {ExitOf(gui, "once"), ExitOf(gui, "timed")}

TaskInv(t) ==
    LET e == tasks[t].entry  d == tasks[t].dialog IN
    /\ tasks[t].step \in {"granted", "prompt", "waiting"} => Justified(e)
    /\ tasks[t].step = "waiting" => gui # None /\ HasDialog(t, d)
    /\ tasks[t].step = "granted" =>
          \/ d = 0 /\ e.mode = "auto" /\ e.hash # None
          \/ HasDialog(t, d) /\ Allowed(dialogs[d].exit)

EngineInv == EngineType /\ LoadedInv /\ \A t \in Task : TaskInv(t)

\* No contents are known at first.
LEMMA NoSetKnown == NoSet \in PolicySet /\ Known(NoSet) /\ \A s : NewWatch(s).set = NoSet
BY DEF NoSet, PolicySet, Known, NewWatch

\* A new round of the watcher.
LEMMA NewWatchType ==
    ASSUME NEW s \in {"arm", "blocked", "ended", "settle", "load"}
    PROVE  NewWatch(s) \in WatchState
BY NoSetKnown DEF NewWatch, WatchState

\* What was seen stays seen.
SeenKept ==
    /\ seen' \in [File -> SUBSET (Content \cup {Garbled, <<>>})]
    /\ \A f \in File : seen[f] \subseteq seen'[f]

\* An entry that was justified stays so, and a set that was known.
LEMMA KnownKept ==
    ASSUME SeenKept
    PROVE  /\ \A e : Justified(e) => Justified(e)'
           /\ \A set : Known(set) => \A f \in File : set[f] = <<>> \/ (set[f] \in seen'[f] /\ Loadable(set[f]))
<1>1. \A f \in File : \A c \in seen[f] : c \in seen'[f]
  BY DEF SeenKept
<1>2. ASSUME NEW e, Justified(e) PROVE \E f \in File : \E c \in seen'[f] : Loadable(c) /\ e \in ToSet(c)
  BY <1>1, <1>2 DEF Justified
<1>3. ASSUME NEW set, Known(set), NEW f \in File
      PROVE  set[f] = <<>> \/ (set[f] \in seen'[f] /\ Loadable(set[f]))
  BY <1>1, <1>3 DEF Known
<1> QED BY <1>2, <1>3 DEF Justified

\* An entry of a known set is justified.
LEMMA KnownEntry ==
    ASSUME NEW set \in PolicySet, Known(set), NEW f \in File, NEW i \in DOMAIN set[f]
    PROVE  /\ Justified(set[f][i]) /\ ValidatePolicy(set[f][i])
           /\ set[f][i] \in Entry
<1>1. set[f] # <<>>
  OBVIOUS
<1>2. set[f] \in Content /\ set[f] \in seen[f] /\ Loadable(set[f])
  BY <1>1 DEF PolicySet, Known
<1>3. set[f][i] \in ToSet(set[f])
  BY DEF ToSet
<1> QED BY <1>2, <1>3 DEF Justified, Loadable, Entry

\* PolicyEngine::new starts from what it could load.
LEMMA EngineInitial == Init => EngineInv
<1> SUFFICES ASSUME Init PROVE EngineInv
  OBVIOUS
<1>1. /\ disk \in Initial /\ \A f \in File : Loadable(InForce(disk)[f])
      /\ watch = NewWatch("arm") /\ channel = <<>> /\ policies = InForce(disk)
      /\ tasks = [t \in Task |-> IdleTask] /\ gui \in Gui /\ dialogs = <<>>
      /\ seen = [f \in File |-> {InForce(disk)[f]}]
  BY DEF Init
<1>2. disk \in [File -> Content \cup {Garbled, None}]
  BY <1>1, EngineAssumption DEF File
<1>3. \A f \in File : /\ disk[f] = None => InForce(disk)[f] = <<>>
                      /\ disk[f] # None => InForce(disk)[f] = disk[f] /\ disk[f] \in Content
  BY <1>1, <1>2 DEF InForce, Loadable
<1>4. policies \in PolicySet
  BY <1>1, <1>3 DEF PolicySet, InForce
<1>5. IdleTask \in TaskState /\ IdleTask.step = "idle"
  BY DEF IdleTask, TaskState
<1>6. <<>> \in Seq(PolicySet) /\ <<>> \in Seq(Dialog)
  OBVIOUS
<1>7. \A f \in File : seen[f] = {InForce(disk)[f]}
  BY <1>1
<1>8. seen \in [File -> SUBSET (Content \cup {Garbled, <<>>})]
  BY <1>1, <1>3
<1>9. EngineType
  BY <1>1, <1>2, <1>4, <1>5, <1>6, <1>8, NewWatchType DEF EngineType
<1>10. LoadedInv
  <2>1. Known(policies)
    BY <1>1, <1>3, <1>7 DEF Known
  <2>2. Known(watch.set)
    BY <1>1, NoSetKnown
  <2> QED BY <1>1, <1>3, <1>7, <2>1, <2>2 DEF LoadedInv
<1>11. \A t \in Task : TaskInv(t)
  BY <1>1, <1>5 DEF TaskInv
<1> QED BY <1>9, <1>10, <1>11 DEF EngineInv

-----------------------------------------------------------------------------
(* The steps *)

\* Tasks that are left alone keep what they have while files are edited and loaded.
LEMMA TasksKept ==
    ASSUME EngineInv, SeenKept, UNCHANGED <<tasks, dialogs, gui>>
    PROVE  \A t \in Task : TaskInv(t)'
<1> SUFFICES ASSUME NEW t \in Task PROVE TaskInv(t)'
  OBVIOUS
<1>1. TaskInv(t)
  BY DEF EngineInv
<1>2. Justified(tasks[t].entry) => Justified(tasks[t].entry)'
  BY KnownKept
<1> QED BY <1>1, <1>2 DEF TaskInv, HasDialog, Allowed

\* A file changes, or is moved out.
LEMMA EditKeeps ==
    ASSUME EngineInv, NEW f \in File, NEW c \in Content \cup {Garbled, None},
           Edit(f, c) \/ (c = None /\ MoveOut(f))
    PROVE  EngineInv'
<1>1. /\ disk' = [disk EXCEPT ![f] = c]
      /\ UNCHANGED <<channel, policies, tasks, dialogs, gui>>
      /\ watch' = watch \/ watch' = [watch EXCEPT !.event = @ \/ watch.step = "blocked"]
  BY DEF Edit, MoveOut
<1>2. disk \in [File -> Content \cup {Garbled, None}] /\ watch \in WatchState
      /\ seen \in [File -> SUBSET (Content \cup {Garbled, <<>>})]
  BY DEF EngineInv, EngineType
<1> DEFINE new == IF c = None THEN <<>> ELSE c
<1>3. seen' = [seen EXCEPT ![f] = @ \cup {new}]
  BY <1>1, <1>2 DEF Edit, MoveOut, InForce
<1>4. new \in Content \cup {Garbled, <<>>} /\ (c # None => new = c)
  OBVIOUS
<1> HIDE DEF new
<1>5. /\ seen' \in [File -> SUBSET (Content \cup {Garbled, <<>>})]
      /\ seen'[f] = seen[f] \cup {new} /\ \A g \in File \ {f} : seen'[g] = seen[g]
  BY <1>2, <1>3, <1>4
<1>6. SeenKept
  BY <1>5 DEF SeenKept
<1>7. watch' \in WatchState /\ watch'.set = watch.set
  <2>1. (watch.event \/ watch.step = "blocked") \in BOOLEAN
    OBVIOUS
  <2> QED BY <1>1, <1>2, <2>1 DEF WatchState
<1>8. disk' \in [File -> Content \cup {Garbled, None}]
  BY <1>1, <1>2
<1>9. EngineType'
  BY <1>1, <1>5, <1>7, <1>8 DEF EngineInv, EngineType, Dialog, Exit
<1>10. LoadedInv'
  <2>1. \A g \in File : disk'[g] # None => disk'[g] \in seen'[g]
    BY <1>1, <1>2, <1>4, <1>5 DEF EngineInv, LoadedInv
  <2>2. Known(policies)' /\ Known(watch.set)'
    BY <1>1, <1>6, <1>7, KnownKept DEF EngineInv, LoadedInv, Known
  <2>3. \A i \in DOMAIN channel' : Known(channel[i])'
    BY <1>1, <1>6, KnownKept DEF EngineInv, LoadedInv, Known
  <2> QED BY <2>1, <2>2, <2>3 DEF LoadedInv
<1>11. \A t \in Task : TaskInv(t)'
  BY <1>1, <1>6, TasksKept
<1> QED BY <1>9, <1>10, <1>11 DEF EngineInv

\* The watcher turns a round, and what it has read it has read from the files.
LEMMA WatchKeeps ==
    ASSUME EngineInv, UNCHANGED <<disk, channel, policies, tasks, dialogs, seen, gui>>,
           watch' \in WatchState, Known(watch'.set)
    PROVE  EngineInv'
<1>1. SeenKept
  BY DEF SeenKept, EngineInv, EngineType
<1>2. EngineType'
  BY DEF EngineInv, EngineType, Dialog, Exit
<1>3. LoadedInv'
  BY DEF EngineInv, LoadedInv, Known
<1>4. \A t \in Task : TaskInv(t)'
  BY <1>1, TasksKept
<1> QED BY <1>2, <1>3, <1>4 DEF EngineInv

\* A reload starts, or is given up.
LEMMA WatchTurns ==
    EngineInv /\ (WatchArm \/ WatchFail \/ WatchWake \/ WatchList) => EngineInv'
<1> SUFFICES ASSUME EngineInv, WatchArm \/ WatchFail \/ WatchWake \/ WatchList PROVE EngineInv'
  OBVIOUS
<1>1. UNCHANGED <<disk, channel, policies, tasks, dialogs, seen, gui>>
  BY DEF WatchArm, WatchFail, WatchWake, WatchList
<1>2. CASE WatchArm \/ WatchFail \/ WatchWake
  <2>1. PICK s \in {"blocked", "ended", "settle"} : watch' = NewWatch(s)
    BY <1>2 DEF WatchArm, WatchFail, WatchWake
  <2>2. watch' \in WatchState /\ Known(watch'.set)
    BY <2>1, NewWatchType, NoSetKnown
  <2> QED BY <1>1, <2>2, WatchKeeps
<1>3. CASE WatchList
  <2>1. watch' = [NewWatch("load") EXCEPT !.left = {f \in File : disk[f] # None}]
    BY <1>3 DEF WatchList
  <2>2. NewWatch("load") \in WatchState /\ NewWatch("load").set = NoSet
    BY NewWatchType, NoSetKnown
  <2> DEFINE w == NewWatch("load")
             L == {f \in File : disk[f] # None}
  <2>3. L \in SUBSET File /\ w \in WatchState /\ w.set = NoSet /\ watch' = [w EXCEPT !.left = L]
    BY <2>1, <2>2
  <2> HIDE DEF w, L
  <2>4. watch' \in WatchState /\ watch'.set = NoSet
    BY <2>3 DEF WatchState
  <2> QED BY <1>1, <2>4, NoSetKnown, WatchKeeps
<1> QED BY <1>2, <1>3

\* load_policies_from_dir reads the next file.
LEMMA WatchReads == EngineInv /\ WatchRead => EngineInv'
<1> SUFFICES ASSUME EngineInv, WatchRead PROVE EngineInv'
  OBVIOUS
<1> DEFINE f == Min(watch.left)
<1>1. /\ UNCHANGED <<disk, channel, policies, tasks, dialogs, seen, gui>>
      /\ watch.left # {}
      /\ watch' = IF disk[f] # None /\ Loadable(disk[f])
                  THEN [watch EXCEPT !.left = @ \ {f}, !.set[f] = disk[f]]
                  ELSE NewWatch("arm")
  BY DEF WatchRead
<1>2. watch.left \in SUBSET File /\ watch \in WatchState
  BY DEF EngineInv, EngineType, WatchState
<1>3. f \in watch.left
  <2>1. watch.left \in SUBSET Nat
    BY <1>2, EngineAssumption DEF File
  <2> QED BY <1>1, <2>1, MinInSet
<1>4. f \in File
  BY <1>2, <1>3
<1> HIDE DEF f
<1>5. CASE disk[f] # None /\ Loadable(disk[f])
  <2> DEFINE new == [watch.set EXCEPT ![f] = disk[f]]
  <2>1. disk[f] \in Content /\ disk[f] \in seen[f]
    BY <1>4, <1>5 DEF EngineInv, EngineType, LoadedInv, Loadable
  <2>2. watch.set \in PolicySet /\ watch.left \ {f} \in SUBSET File
    BY <1>2 DEF WatchState
  <2>3. new \in PolicySet /\ Known(new)
    BY <1>4, <1>5, <2>1, <2>2 DEF PolicySet, Known, EngineInv, LoadedInv
  <2>4. watch' = [watch EXCEPT !.left = watch.left \ {f}, !.set = new]
    BY <1>1, <1>5
  <2> HIDE DEF new
  <2>5. watch' \in WatchState /\ watch'.set = new
    BY <1>2, <2>2, <2>3, <2>4 DEF WatchState
  <2> QED BY <1>1, <2>3, <2>5, WatchKeeps
<1>6. CASE ~(disk[f] # None /\ Loadable(disk[f]))
  <2>1. watch' = NewWatch("arm")
    BY <1>1, <1>6
  <2>2. watch' \in WatchState /\ Known(watch'.set)
    BY <2>1, NewWatchType, NoSetKnown
  <2> QED BY <1>1, <2>2, WatchKeeps
<1> QED BY <1>5, <1>6

\* A set goes into the channel, and out of it into force.
LEMMA ChannelKeeps == EngineInv /\ (WatchSend \/ Reload) => EngineInv'
<1> SUFFICES ASSUME EngineInv, WatchSend \/ Reload PROVE EngineInv'
  OBVIOUS
<1>0. /\ channel \in Seq(PolicySet) /\ watch.set \in PolicySet
      /\ Known(watch.set) /\ \A i \in DOMAIN channel : Known(channel[i])
  BY DEF EngineInv, EngineType, WatchState, LoadedInv
<1>1. UNCHANGED <<disk, tasks, dialogs, seen, gui>>
  BY DEF WatchSend, Reload
<1>2. \A set : Known(set)' <=> Known(set)
  BY <1>1 DEF Known
<1>3. SeenKept
  BY <1>1 DEF SeenKept, EngineInv, EngineType
<1>4. \A t \in Task : TaskInv(t)'
  BY <1>1, <1>3, TasksKept
<1>5. CASE WatchSend
  <2>1. channel' = Append(channel, watch.set) /\ watch' = NewWatch("arm") /\ UNCHANGED policies
    BY <1>5 DEF WatchSend
  <2> DEFINE s == watch.set
  <2>2. s \in PolicySet /\ Known(s) /\ channel' = Append(channel, s)
    BY <1>0, <2>1
  <2> HIDE DEF s
  <2>3. /\ channel' \in Seq(PolicySet)
        /\ \A i \in DOMAIN channel' : channel'[i] = s \/ (i \in DOMAIN channel /\ channel'[i] = channel[i])
    BY <1>0, <2>2
  <2>4. watch' \in WatchState /\ watch'.set = NoSet
    BY <2>1, NewWatchType, NoSetKnown
  <2>5. EngineType'
    BY <1>1, <2>1, <2>3, <2>4 DEF EngineInv, EngineType, Dialog, Exit
  <2>6. \A i \in DOMAIN channel' : Known(channel'[i])
    BY <1>0, <2>2, <2>3
  <2>7. Known(policies') /\ Known(watch'.set)
    BY <2>1, <2>4, NoSetKnown DEF EngineInv, LoadedInv
  <2>8. LoadedInv'
    BY <1>1, <2>6, <2>7 DEF EngineInv, LoadedInv, Known
  <2> QED BY <1>4, <2>5, <2>8 DEF EngineInv
<1>6. CASE Reload
  <2>1. channel # <<>> /\ policies' = Head(channel) /\ channel' = Tail(channel) /\ UNCHANGED watch
    BY <1>6 DEF Reload
  <2>2. /\ Head(channel) \in PolicySet /\ Head(channel) = channel[1] /\ 1 \in DOMAIN channel
        /\ Tail(channel) \in Seq(PolicySet)
        /\ \A i \in DOMAIN Tail(channel) : i + 1 \in DOMAIN channel /\ Tail(channel)[i] = channel[i + 1]
    BY <1>0, <2>1
  <2>3. EngineType'
    BY <1>1, <2>1, <2>2 DEF EngineInv, EngineType, Dialog, Exit
  <2>4. Known(policies') /\ \A i \in DOMAIN channel' : Known(channel'[i])
    BY <1>0, <2>1, <2>2
  <2>5. LoadedInv'
    BY <1>0, <1>1, <2>1, <2>4 DEF EngineInv, LoadedInv, Known
  <2> QED BY <1>4, <2>3, <2>5 DEF EngineInv
<1> QED BY <1>5, <1>6

\* A dialog that was started stays, and its end with it once it has one.
DialogsKept ==
    /\ dialogs' \in Seq(Dialog)
    /\ \A d \in DOMAIN dialogs : /\ d \in DOMAIN dialogs' /\ dialogs'[d].task = dialogs[d].task
                                 /\ dialogs[d].exit # None => dialogs'[d].exit = dialogs[d].exit

\* A task that is left alone keeps what it has while other tasks and the user act.
LEMMA OtherTask ==
    ASSUME NEW t \in Task, TaskInv(t), DialogsKept, UNCHANGED <<seen, gui, tasks[t]>>
    PROVE  TaskInv(t)'
<1>1. \A e : Justified(e) => Justified(e)'
  BY DEF Justified
<1>2. \A d : HasDialog(t, d) => HasDialog(t, d)'
  BY DEF HasDialog, DialogsKept
<1>3. \A d : HasDialog(t, d) /\ Allowed(dialogs[d].exit) => Allowed(dialogs[d].exit)'
  BY DEF HasDialog, DialogsKept, Allowed
<1> QED BY <1>1, <1>2, <1>3 DEF TaskInv, Allowed

\* One task moves on, or the user answers.
LEMMA TaskMoves ==
    ASSUME EngineInv, UNCHANGED <<disk, watch, channel, policies, seen, gui>>, DialogsKept,
           tasks' \in [Task -> TaskState],
           \A t \in Task : tasks'[t] = tasks[t] \/ TaskInv(t)'
    PROVE  EngineInv'
<1>1. EngineType'
  BY DEF EngineInv, EngineType, DialogsKept, Dialog, Exit
<1>2. LoadedInv'
  BY DEF EngineInv, LoadedInv, Known
<1>3. \A t \in Task : TaskInv(t)'
  BY OtherTask DEF EngineInv
<1> QED BY <1>1, <1>2, <1>3 DEF EngineInv

\* The dialogs are left alone.
LEMMA DialogsStay == EngineInv /\ UNCHANGED dialogs => DialogsKept
BY DEF EngineInv, EngineType, DialogsKept

\* evaluate decides by an entry in force, or refuses.
LEMMA EvaluateKeeps ==
    ASSUME EngineInv, NEW t \in Task, NEW a \in Agent, NEW k \in Credential, NEW w \in Requested,
           Evaluate(t, a, k, w)
    PROVE  EngineInv'
<1>1. PICK e : e = Matching(policies, a, k)
  OBVIOUS
<1>2. PICK s : s = Decision(e, w)
  OBVIOUS
<1> DEFINE new == [IdleTask EXCEPT !.step = s, !.agent = a, !.entry = e]
<1>3. /\ tasks' = [tasks EXCEPT ![t] = new]
      /\ UNCHANGED <<disk, watch, channel, policies, dialogs, seen, gui>>
  BY <1>1, <1>2 DEF Evaluate
<1>4. policies \in PolicySet /\ Known(policies) /\ tasks \in [Task -> TaskState]
  BY DEF EngineInv, EngineType, LoadedInv
<1>5. e = None \/ (Justified(e) /\ ValidatePolicy(e) /\ e \in Entry)
  <2>1. CASE e = None
    BY <2>1
  <2>2. CASE e # None
    <3>1. PICK f \in File : \E i \in DOMAIN policies[f] : e = policies[f][i]
      BY <1>1, <1>4, <2>2, MatchingAmong
    <3>2. PICK i \in DOMAIN policies[f] : e = policies[f][i]
      BY <3>1
    <3> QED BY <1>4, <3>2, KnownEntry
  <2> QED BY <2>1, <2>2
<1>6. /\ s \in {"denied", "granted", "prompt"}
      /\ s \in {"granted", "prompt"} => e # None
      /\ s = "granted" => e.mode = "auto"
  BY <1>2 DEF Decision
<1>7. IdleTask \in TaskState /\ IdleTask.dialog = 0
  BY DEF IdleTask, TaskState
<1>8. new \in TaskState /\ new.step = s /\ new.entry = e /\ new.dialog = 0
  BY <1>5, <1>6, <1>7 DEF TaskState
<1> HIDE DEF new
<1>9. tasks' \in [Task -> TaskState] /\ tasks'[t] = new /\ \A u \in Task \ {t} : tasks'[u] = tasks[u]
  BY <1>3, <1>4, <1>8
<1>10. TaskInv(t)'
  <2>1. s \in {"granted", "prompt"} => Justified(e)'
    BY <1>3, <1>5, <1>6 DEF Justified
  <2>2. s = "granted" => e.mode = "auto" /\ e.hash # None
    BY <1>5, <1>6 DEF ValidatePolicy
  <2>3. tasks'[t].step = s /\ tasks'[t].entry = e /\ tasks'[t].dialog = 0 /\ s # "waiting"
    BY <1>6, <1>8, <1>9
  <2> QED BY <2>1, <2>2, <2>3 DEF TaskInv, Justified
<1> QED BY <1>3, <1>9, <1>10, DialogsStay, TaskMoves

\* A task takes another step, with the entry and the dialog it has.
LEMMA StepKeeps ==
    ASSUME EngineInv, NEW t \in Task, UNCHANGED <<disk, watch, channel, policies, dialogs, seen, gui>>,
           NEW s \in {"denied", "failed", "granted"}, tasks' = [tasks EXCEPT ![t].step = s],
           tasks[t].step \in {"prompt", "waiting"},
           s = "granted" => /\ HasDialog(t, tasks[t].dialog)
                            /\ Allowed(dialogs[tasks[t].dialog].exit)
    PROVE  EngineInv'
<1>1. tasks \in [Task -> TaskState] /\ TaskInv(t)
  BY DEF EngineInv, EngineType
<1> DEFINE new == [tasks[t] EXCEPT !.step = s]
<1>2. /\ new \in TaskState /\ new.step = s
      /\ new.entry = tasks[t].entry /\ new.dialog = tasks[t].dialog
  BY <1>1 DEF TaskState
<1>3. tasks' = [tasks EXCEPT ![t] = new]
  OBVIOUS
<1> HIDE DEF new
<1>4. tasks' \in [Task -> TaskState] /\ tasks'[t] = new /\ \A u \in Task \ {t} : tasks'[u] = tasks[u]
  BY <1>1, <1>2, <1>3
<1>5. TaskInv(t)'
  <2>1. Justified(tasks[t].entry)
    BY <1>1 DEF TaskInv
  <2>2. Justified(tasks[t].entry)'
    BY <1>2, <1>4, <2>1 DEF Justified
  <2>3. s = "granted" => (HasDialog(t, tasks[t].dialog) /\ Allowed(dialogs[tasks[t].dialog].exit))'
    BY <1>2, <1>4 DEF HasDialog, Allowed
  <2>4. tasks'[t].step = s /\ s # "waiting"
    BY <1>2, <1>4
  <2> QED BY <2>2, <2>3, <2>4 DEF TaskInv
<1> QED BY <1>4, <1>5, DialogsStay, TaskMoves

\* What prompt_user takes for a yes is the end of a dialog by a button that allows.
LEMMA YesIsAllowed ==
    ASSUME NEW exit \in Exit, exit # None, gui \in Gui, gui # None,
           ApprovalResult(gui, exit) = "allow"
    PROVE  Allowed(exit)
<1>1. PICK b \in Button : exit = ExitOf(gui, b)
  BY DEF Exit
<1>2. b \in {"once", "timed", "deny", "killed"} /\ None \notin {0, 1, 2}
  BY <1>1, EngineAssumption DEF Button
<1>3. CASE gui = "kdialog"
  <2>1. /\ b = "deny" => exit.code = 1
        /\ b = "killed" => exit.code = None
    BY <1>1, <1>3 DEF ExitOf
  <2>2. exit.code \in {0, 2}
    BY <1>3 DEF ApprovalResult
  <2>3. b \in {"once", "timed"}
    BY <1>2, <2>1, <2>2
  <2> QED BY <1>1, <2>3 DEF Allowed
<1>4. CASE gui = "zenity"
  <2>1. /\ b = "deny" => exit.code = 1
        /\ b = "killed" => exit.code = None
    BY <1>1, <1>4 DEF ExitOf
  <2>2. b \in {"deny", "killed"} => exit.out = ""
    BY <1>1, <1>4 DEF ExitOf
  <2>3. exit.code \in {0} \/ exit.out = "Allow 10min"
    BY <1>4 DEF ApprovalResult
  <2>4. b \in {"deny", "killed"} => ~(exit.code \in {0})
    BY <1>2, <2>1
  <2>5. b \in {"deny", "killed"} => ~(exit.out = "Allow 10min")
    BY <2>2
  <2>6. b \notin {"deny", "killed"}
    BY <2>3, <2>4, <2>5, Zenon
  <2> QED BY <1>1, <1>2, <2>6 DEF Allowed
<1>5. CASE gui = "osascript"
  BY <1>1, <1>2, <1>5 DEF ApprovalResult, ExitOf, Allowed
<1> QED BY <1>3, <1>4, <1>5, EngineAssumption

\* The task learns how its dialog ended.
LEMMA CollectKeeps ==
    ASSUME EngineInv, NEW t \in Task, Collect(t)
    PROVE  EngineInv'
<1>1. TaskInv(t) /\ gui \in Gui /\ dialogs \in Seq(Dialog)
  BY DEF EngineInv, EngineType
<1>2. PICK exit : exit = dialogs[tasks[t].dialog].exit
  OBVIOUS
<1>3. tasks[t].step = "waiting" /\ exit # None /\ HasDialog(t, tasks[t].dialog) /\ gui # None
  BY <1>1, <1>2 DEF Collect, TaskInv
<1>4. exit \in Exit
  <2>1. tasks[t].dialog \in DOMAIN dialogs
    BY <1>3 DEF HasDialog
  <2>2. dialogs[tasks[t].dialog] \in Dialog
    BY <1>1, <2>1
  <2> QED BY <1>2, <1>3, <2>2 DEF Dialog
<1>5. PICK s : s = CASE ApprovalResult(gui, exit) = "allow" -> "granted"
                     [] ApprovalResult(gui, exit) = "deny" -> "denied"
                     [] OTHER -> "failed"
  OBVIOUS
<1>6. /\ s \in {"denied", "failed", "granted"}
      /\ s = "granted" => ApprovalResult(gui, exit) = "allow"
  BY <1>5
<1>7. /\ tasks' = [tasks EXCEPT ![t].step = s]
      /\ UNCHANGED <<disk, watch, channel, policies, dialogs, seen, gui>>
  BY <1>2, <1>5 DEF Collect
<1>8. s = "granted" => Allowed(exit)
  BY <1>1, <1>3, <1>4, <1>6, YesIsAllowed
<1> QED BY <1>2, <1>3, <1>6, <1>7, <1>8, StepKeeps

\* The dialog cannot be shown, or the request waits no longer.
LEMMA GiveUpKeeps ==
    ASSUME EngineInv, NEW t \in Task, PromptFails(t) \/ Timeout(t)
    PROVE  EngineInv'
<1>1. /\ tasks[t].step \in {"prompt", "waiting"} /\ tasks' = [tasks EXCEPT ![t].step = "failed"]
      /\ UNCHANGED <<disk, watch, channel, policies, dialogs, seen, gui>>
  BY DEF PromptFails, Timeout
<1> QED BY <1>1, StepKeeps

\* The task serves its next request.
LEMMA ReturnKeeps ==
    ASSUME EngineInv, NEW t \in Task, Return(t)
    PROVE  EngineInv'
<1>1. /\ tasks' = [tasks EXCEPT ![t] = IdleTask]
      /\ UNCHANGED <<disk, watch, channel, policies, dialogs, seen, gui>>
  BY DEF Return
<1>2. IdleTask \in TaskState /\ IdleTask.step = "idle"
  BY DEF IdleTask, TaskState
<1>3. /\ tasks' \in [Task -> TaskState] /\ tasks'[t] = IdleTask
      /\ \A u \in Task \ {t} : tasks'[u] = tasks[u]
  BY <1>1, <1>2 DEF EngineInv, EngineType
<1>4. TaskInv(t)'
  BY <1>2, <1>3 DEF TaskInv
<1> QED BY <1>1, <1>3, <1>4, DialogsStay, TaskMoves

\* prompt_user starts a dialog for the task.
LEMMA PromptKeeps ==
    ASSUME EngineInv, NEW t \in Task, Prompt(t)
    PROVE  EngineInv'
<1>1. dialogs \in Seq(Dialog) /\ tasks \in [Task -> TaskState] /\ TaskInv(t)
  BY DEF EngineInv, EngineType
<1>2. PICK n : n = Len(dialogs) + 1
  OBVIOUS
<1> DEFINE d == [task |-> t, exit |-> None]
           new == [tasks[t] EXCEPT !.step = "waiting", !.dialog = n]
<1>3. /\ tasks[t].step = "prompt" /\ gui # None /\ dialogs' = Append(dialogs, d)
      /\ tasks' = [tasks EXCEPT ![t] = new]
      /\ UNCHANGED <<disk, watch, channel, policies, seen, gui>>
  BY <1>2 DEF Prompt
<1>4. d \in Dialog /\ d.task = t /\ d.exit = None
  BY DEF Dialog
<1>5. n \in Nat /\ n # 0
  BY <1>1, <1>2
<1>6. new \in TaskState /\ new.step = "waiting" /\ new.dialog = n /\ new.entry = tasks[t].entry
  BY <1>1, <1>5 DEF TaskState
<1> HIDE DEF d, new
<1>7. /\ dialogs' \in Seq(Dialog) /\ n \in DOMAIN dialogs' /\ dialogs'[n] = d
      /\ \A i \in DOMAIN dialogs : i \in DOMAIN dialogs' /\ dialogs'[i] = dialogs[i]
  BY <1>1, <1>2, <1>3, <1>4
<1>8. DialogsKept
  BY <1>3, <1>7 DEF DialogsKept
<1>9. tasks' \in [Task -> TaskState] /\ tasks'[t] = new /\ \A u \in Task \ {t} : tasks'[u] = tasks[u]
  BY <1>1, <1>3, <1>6
<1>10. TaskInv(t)'
  <2>1. Justified(tasks[t].entry)'
    BY <1>1, <1>3, <1>6, <1>9 DEF TaskInv, Justified
  <2>2. HasDialog(t, tasks[t].dialog)' /\ gui' # None
    BY <1>3, <1>4, <1>5, <1>6, <1>7, <1>9 DEF HasDialog
  <2> QED BY <1>6, <1>9, <2>1, <2>2 DEF TaskInv
<1> QED BY <1>3, <1>8, <1>9, <1>10, TaskMoves

\* The user ends a dialog that was still open.
LEMMA AnswerKeeps ==
    ASSUME EngineInv, NEW i \in DOMAIN dialogs, NEW b \in Button, Answer(i, b)
    PROVE  EngineInv'
<1>1. dialogs \in Seq(Dialog) /\ tasks \in [Task -> TaskState]
  BY DEF EngineInv, EngineType
<1>2. PICK x : x = ExitOf(gui, b)
  OBVIOUS
<1> DEFINE new == [dialogs[i] EXCEPT !.exit = x]
<1>3. /\ dialogs[i].exit = None /\ dialogs' = [dialogs EXCEPT ![i] = new]
      /\ UNCHANGED <<disk, watch, channel, policies, tasks, seen, gui>>
  BY <1>2 DEF Answer
<1>4. dialogs[i] \in Dialog
  BY <1>1
<1>5. new \in Dialog /\ new.task = dialogs[i].task
  BY <1>2, <1>4 DEF Dialog, Exit
<1> HIDE DEF new
<1>6. /\ dialogs' \in Seq(Dialog) /\ DOMAIN dialogs' = DOMAIN dialogs /\ dialogs'[i] = new
      /\ \A d \in DOMAIN dialogs \ {i} : dialogs'[d] = dialogs[d]
  BY <1>1, <1>3, <1>5
<1>7. DialogsKept
  BY <1>3, <1>5, <1>6 DEF DialogsKept
<1> QED BY <1>1, <1>3, <1>7, TaskMoves

LEMMA EngineStep == EngineInv /\ [Next]_vars => EngineInv'
<1> SUFFICES ASSUME EngineInv, [Next]_vars PROVE EngineInv'
  OBVIOUS
<1>1. CASE \E f \in File : MoveOut(f) \/ \E c \in Content \cup {Garbled, None} : Edit(f, c)
  BY <1>1, EditKeeps
<1>2. CASE Watch \/ WatchFail
  BY <1>2, WatchTurns, WatchReads, ChannelKeeps DEF Watch
<1>3. CASE Reload
  BY <1>3, ChannelKeeps
<1>4. ASSUME NEW t \in Task, NEW a \in Agent, NEW k \in Credential, NEW w \in Requested,
             Evaluate(t, a, k, w)
      PROVE  EngineInv'
  BY <1>4, EvaluateKeeps
<1>5. ASSUME NEW t \in Task, Serve(t) PROVE EngineInv'
  BY <1>5, PromptKeeps, GiveUpKeeps, CollectKeeps, ReturnKeeps DEF Serve
<1>6. ASSUME NEW i \in DOMAIN dialogs, NEW b \in Button, Answer(i, b) PROVE EngineInv'
  BY <1>6, AnswerKeeps
<1>7. CASE UNCHANGED vars
  <2>1. UNCHANGED <<disk, watch, channel, policies, tasks, dialogs, seen, gui>>
    BY <1>7 DEF vars
  <2> QED BY <2>1, WatchKeeps DEF EngineInv, EngineType, LoadedInv
<1> QED BY <1>1, <1>2, <1>3, <1>4, <1>5, <1>6, <1>7 DEF Next

-----------------------------------------------------------------------------
\* Whatever is edited, half-written and reloaded meanwhile, a request is granted
\* only by an entry that some file really had and that was validated, without
\* asking only if the entry names a hash, and otherwise only if its own dialog
\* ended with a button that allows it: for any policy files, agents, tasks and
\* dialog tool (load_policies_from_dir, evaluate_with_approval, run_gui_approval).
THEOREM JustifiedTheorem == Spec => []GrantJustified
<1>1. EngineInv => GrantJustified
  BY DEF EngineInv, TaskInv, Justified, HasDialog, Allowed, GrantJustified
<1> QED BY <1>1, EngineInitial, EngineStep, PTL DEF Spec
=============================================================================
