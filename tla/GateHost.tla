------------------------------ MODULE GateHost ------------------------------
(***************************************************************************)
(* A Gate process from its start to its end, as seen from the file system  *)
(* (cdp-gate main.rs, fingerprint.rs, listener.rs): the fingerprint file   *)
(* that clients find it by and the path of its socket.  A Gate may be      *)
(* killed at any step, and another may be started before or after; nothing *)
(* locks the two paths.                                                    *)
(***************************************************************************)
EXTENDS Integers

CONSTANTS
    GateId,  \* Gate processes, each started once
    NoGate   \* no process, no file, no socket

ASSUME HostAssumption == NoGate \notin GateId

VARIABLES
    phase,  \* how far each Gate is
    file,   \* the fingerprint file: its inode, named after the Gate that made it,
            \* whom it describes, whether it is whole, whether its mode is 0400
    inode,  \* the inode each Gate has open for writing
    link,   \* the Gate whose socket is bound to the path; stale if it is gone
    root,   \* whether Gates run as root, which modes do not bind
    alone   \* the Gates that have shared no moment of their life with another

hostVars == <<phase, file, inode, link, root, alone>>

NoFile == [inode |-> NoGate, of |-> NoGate, whole |-> FALSE, sealed |-> FALSE]

HostInit ==
    /\ phase = [g \in GateId |-> "new"]
    /\ file = NoFile
    /\ inode = [g \in GateId |-> NoGate]
    /\ link = NoGate
    /\ root \in BOOLEAN
    /\ alone = GateId

Runs(g) == phase[g] \notin {"new", "gone"}

\* Its listener is open.
Listens(g) == phase[g] \in {"serving", "stopping", "cleaned"}

Turn(g, p, q) == phase[g] = p /\ phase' = [phase EXCEPT ![g] = q]

-----------------------------------------------------------------------------
(* GateIdentity::create *)

\* load_config, and the process begins.
StartGate(g) ==
    /\ Turn(g, "new", "create")
    /\ alone' = LET others == {h \in GateId : Runs(h)}
                IN  IF others = {} THEN alone ELSE alone \ (others \cup {g})
    /\ UNCHANGED <<file, inode, link, root>>

\* Mutant: the file is not truncated, so a longer text leaves its tail.
CreateFileKeeping(g) ==
    /\ file = NoFile \/ ~file.sealed \/ root
    /\ Turn(g, "create", "write")
    /\ file' = IF file = NoFile THEN [NoFile EXCEPT !.inode = g] ELSE file
    /\ inode' = [inode EXCEPT ![g] = file'.inode]
    /\ UNCHANGED <<link, root, alone>>

\* fs::write opens and truncates; a file of mode 0400 stops all but root.
CreateFile(g) ==
    /\ file = NoFile \/ ~file.sealed \/ root
    /\ Turn(g, "create", "write")
    /\ file' = IF file = NoFile THEN [NoFile EXCEPT !.inode = g]
               ELSE [file EXCEPT !.of = NoGate, !.whole = FALSE]
    /\ inode' = [inode EXCEPT ![g] = file'.inode]
    /\ UNCHANGED <<link, root, alone>>

\* fs::write writes, into a file that may have been unlinked, or over the text of a
\* Gate that opened it too, whose tail is left if it is longer.
WriteFile(g) ==
    /\ Turn(g, "write", "seal")
    /\ \E clean \in BOOLEAN :
          /\ file.of = NoGate => clean
          /\ file' = IF file.inode # inode[g] THEN file
                     ELSE [file EXCEPT !.of = g, !.whole = clean]
    /\ inode' = [inode EXCEPT ![g] = NoGate]
    /\ UNCHANGED <<link, root, alone>>

\* set_permissions goes by the path again.
SealFile(g) ==
    /\ file # NoFile
    /\ Turn(g, "seal", "setup")
    /\ file' = [file EXCEPT !.sealed = TRUE]
    /\ UNCHANGED <<inode, link, root, alone>>

-----------------------------------------------------------------------------
(* GateListener::bind, and the end *)

\* The policies and the vault are opened; then the stale socket is removed.
RemoveSocket(g) ==
    /\ Turn(g, "setup", "bind")
    /\ link' = NoGate
    /\ UNCHANGED <<file, inode, root, alone>>

\* UnixListener::bind takes only a path that does not exist.
BindSocket(g) ==
    /\ link = NoGate
    /\ Turn(g, "bind", "serving")
    /\ link' = g
    /\ UNCHANGED <<file, inode, root, alone>>

\* A step of the start fails: no permission, no file, an unreadable policy or vault,
\* a path that is bound.  main returns, and what was made stays.
StartFails(g) ==
    /\ phase[g] \in {"create", "seal", "setup", "bind"}
    /\ phase' = [phase EXCEPT ![g] = "gone"]
    /\ UNCHANGED <<file, inode, link, root, alone>>

\* SIGTERM or SIGINT: stop_all.
StopGate(g) ==
    /\ Turn(g, "serving", "stopping")
    /\ UNCHANGED <<file, inode, link, root, alone>>

\* cleanup removes the file, whosever it is.
RemoveFile(g) ==
    /\ Turn(g, "stopping", "cleaned")
    /\ file' = NoFile
    /\ UNCHANGED <<inode, link, root, alone>>

\* Drop for GateListener removes what is at the path.
DropListener(g) ==
    /\ Turn(g, "cleaned", "gone")
    /\ link' = NoGate
    /\ UNCHANGED <<file, inode, root, alone>>

\* The process is killed.
KillGate(g) ==
    /\ Runs(g)
    /\ phase' = [phase EXCEPT ![g] = "gone"]
    /\ inode' = [inode EXCEPT ![g] = NoGate]
    /\ UNCHANGED <<file, link, root, alone>>

\* The user deletes a fingerprint file that keeps a Gate from starting.
DeleteFile ==
    /\ file.sealed
    /\ file' = NoFile
    /\ alone' = {g \in alone : ~Runs(g)}
    /\ UNCHANGED <<phase, inode, link, root>>

HostNext ==
    \/ \E g \in GateId :
          \/ StartGate(g) \/ CreateFile(g) \/ WriteFile(g) \/ SealFile(g) \/ RemoveSocket(g) \/ BindSocket(g)
          \/ StartFails(g) \/ StopGate(g) \/ RemoveFile(g) \/ DropListener(g) \/ KillGate(g)
    \/ DeleteFile

HostSpec == HostInit /\ [][HostNext]_hostVars

-----------------------------------------------------------------------------
(* Properties *)

\* A Gate that serves, and that no other Gate crossed, is the one that clients find,
\* by the file and by the path, whatever Gates killed before it have left: a file
\* half written, unsealed or sealed, a socket no one listens on (create, bind).
AloneIsFound ==
    \A g \in alone : phase[g] = "serving" => link = g /\ file.of = g /\ file.whole

=============================================================================
