------------------------------ MODULE Persistence ------------------------------
(***************************************************************************)
(* Snapshot persistence: rdb.cpp (Serialize, SaveToFile, BgSaveFork,       *)
(* LoadFromFile), the SAVE, BGSAVE and SHUTDOWN commands, the end of       *)
(* Server::Run and the restore in main.cpp.                                *)
(*                                                                         *)
(* The server process and its BGSAVE children all write the same           *)
(* `path.tmp' and rename it to `path'.  Only system calls are atomic:      *)
(* open(O_TRUNC), each write of a chunk, rename.  An open file keeps its   *)
(* inode when its name is renamed or its contents are truncated, so the    *)
(* model has inodes, two directory entries and one descriptor per saver.   *)
(*                                                                         *)
(* A dataset is a version number; version 0 is the empty dataset of a new  *)
(* process, and every write makes a new version.  The serialized image of  *)
(* version v is Size[v] chunks; the CRC trailer is taken to accept exactly *)
(* the byte strings that Serialize produced.                               *)
(***************************************************************************)
EXTENDS Integers

CONSTANTS
    Server,        \* the server process, as a saver
    Kids,          \* the slots for BGSAVE children
    Inodes,        \* the files that can exist at a time
    None,          \* no file, no chunk
    MaxWrites,     \* bound on the number of writes
    MaxLen,        \* bound on the chunks of an image
    Size,          \* Size[v]: the chunks of the image of version v
    MaxPowerLoss   \* bound on the losses of power

Versions == 0..MaxWrites
Savers == {Server} \cup Kids
Chunks == 1..MaxLen

ASSUME PersistenceAssumption ==
    /\ MaxWrites \in Nat /\ MaxLen \in Nat /\ MaxPowerLoss \in Nat
    /\ Size \in [Versions -> Chunks]
    /\ Server \notin Kids
    /\ None \notin Inodes /\ None \notin Versions

VARIABLES
    mode,        \* the server process: "up", "save" (inside SAVE), "exit" (in
                 \* the final save), "saved" (exited after it), "down" (gone)
    db,          \* version of the dataset in memory (a ghost once "saved")
    written,     \* the newest version ever made
    lastSave,    \* g_last_save: the version whose save was announced last
    pc,          \* pc[p]: "free", "open", "write", "rename" or "zombie"
    snap,        \* snap[p]: the version p serialized
    fd,          \* fd[p]: the inode p has open
    off,         \* off[p]: the chunks p has written
    orphans,     \* the children whose parent is gone
    content,     \* content[i]: the chunks of inode i
    tmp, dump,   \* the inodes named path.tmp and path
    losses,      \* losses of power so far
    \* history variables, read by properties only:
    overlapped,  \* the savers in flight together with another one
    dumpKind,    \* how the dump was last replaced: "none", "alone", "orphan"
                 \* (alone, by a child of a former server), "overlap", "lost"
    dumpSnap     \* the version held by the saver that last replaced the dump

server == <<mode, db, written, lastSave>>
saver == <<pc, snap, fd, off, orphans, overlapped>>
files == <<content, tmp, dump, dumpKind, dumpSnap>>
vars == <<server, saver, files, losses>>

InFlight == {p \in Savers : pc[p] \in {"open", "write", "rename"}}
Empty == [j \in Chunks |-> None]
Image(v) == [j \in Chunks |-> IF j <= Size[v] THEN v ELSE None]
Whole(f) == \E v \in Versions : f = Image(v)

TypeOK ==
    /\ mode \in {"up", "save", "exit", "saved", "down"}
    /\ db \in Versions /\ written \in Versions /\ lastSave \in Versions
    /\ pc \in [Savers -> {"free", "open", "write", "rename", "zombie"}]
    /\ snap \in [Savers -> Versions]
    /\ fd \in [Savers -> Inodes \cup {None}]
    /\ off \in [Savers -> 0..MaxLen]
    /\ orphans \in SUBSET Kids /\ overlapped \in SUBSET Savers
    /\ content \in [Inodes -> [Chunks -> Versions \cup {None}]]
    /\ tmp \in Inodes \cup {None} /\ dump \in Inodes \cup {None}
    /\ losses \in 0..MaxPowerLoss
    /\ dumpKind \in {"none", "alone", "orphan", "overlap", "lost"}
    /\ dumpSnap \in Versions

Init ==
    /\ mode = "up" /\ db = 0 /\ written = 0 /\ lastSave = 0
    /\ pc = [p \in Savers |-> "free"]
    /\ snap = [p \in Savers |-> 0]
    /\ fd = [p \in Savers |-> None]
    /\ off = [p \in Savers |-> 0]
    /\ orphans = {} /\ overlapped = {}
    /\ content = [i \in Inodes |-> Empty]
    /\ tmp = None /\ dump = None
    /\ losses = 0
    /\ dumpKind = "none" /\ dumpSnap = 0

-----------------------------------------------------------------------------
(* The server process between saves.                                       *)

\* Any command that changes the dataset.
Write ==
    /\ mode = "up" /\ written < MaxWrites
    /\ written' = written + 1
    /\ db' = written'
    /\ UNCHANGED <<mode, lastSave, saver, files, losses>>

\* Serialize in process p; p is about to open the temporary file.
Serialize(p) ==
    /\ pc' = [pc EXCEPT ![p] = "open"]
    /\ snap' = [snap EXCEPT ![p] = db]
    /\ overlapped' = IF InFlight = {} THEN overlapped
                     ELSE overlapped \cup InFlight \cup {p}

Save ==
    /\ mode = "up"
    /\ mode' = "save"
    /\ Serialize(Server)
    /\ UNCHANGED <<db, written, lastSave, fd, off, orphans, files, losses>>

\* The parent announces the save at once.  A failed fork only makes an error
\* reply.
BgSaveFork(k) ==
    /\ mode = "up" /\ pc[k] = "free"
    /\ Serialize(k)
    /\ lastSave' = db
    /\ UNCHANGED <<mode, db, written, fd, off, orphans, files, losses>>

\* Mutant of Reap: waitpid is asked once, for the first child only, and finds none.
ReapNone ==
    /\ mode = "up" /\ \E k \in Kids : pc[k] = "zombie"
    /\ UNCHANGED vars

\* PeriodicTasks: waitpid(WNOHANG) until no exited child is left.
Reap ==
    /\ mode = "up" /\ \E k \in Kids : pc[k] = "zombie"
    /\ pc' = [p \in Savers |-> IF pc[p] = "zombie" THEN "free" ELSE pc[p]]
    /\ UNCHANGED <<server, snap, fd, off, orphans, overlapped, files, losses>>

\* The server process ends.  Its children live on; init reaps the zombies.
Terminate(saved) ==
    /\ mode' = IF saved THEN "saved" ELSE "down"
    /\ db' = IF saved THEN db ELSE 0
    /\ lastSave' = 0
    /\ pc' = [p \in Savers |-> IF p = Server \/ pc[p] = "zombie" THEN "free" ELSE pc[p]]
    /\ orphans' = {k \in Kids : pc[k] \notin {"free", "zombie"}}

\* SHUTDOWN, SIGINT or SIGTERM: Run leaves its loop and saves.
ShutdownSave ==
    /\ mode = "up"
    /\ mode' = "exit"
    /\ Serialize(Server)
    /\ UNCHANGED <<db, written, lastSave, fd, off, orphans, files, losses>>

\* SHUTDOWN NOSAVE.
ShutdownNoSave ==
    /\ mode = "up"
    /\ Terminate(FALSE)
    /\ UNCHANGED <<written, snap, fd, off, overlapped, files, losses>>
-----------------------------------------------------------------------------
(* The steps of a saver p: SaveToFile in the server, the child of          *)
(* BgSaveFork otherwise.                                                   *)

Unused == {i \in Inodes : i \notin {tmp, dump} /\ \A q \in Savers : fd[q] # i}

\* A file that has lost its last name and descriptor is gone.
Unlinked ==
    content' = [i \in Inodes |->
                  IF i \in {tmp', dump'} \/ \E q \in Savers : fd'[q] = i
                  THEN content[i] ELSE Empty]

\* Mutant of Open: the temporary file of an earlier save is not truncated.
OpenNoTrunc(p) ==
    /\ pc[p] = "open" /\ (tmp # None \/ Unused # {})
    /\ tmp' = IF tmp = None THEN CHOOSE j \in Unused : TRUE ELSE tmp
    /\ fd' = [fd EXCEPT ![p] = tmp']
    /\ pc' = [pc EXCEPT ![p] = "write"]
    /\ UNCHANGED <<server, snap, off, orphans, overlapped, content, dump, dumpKind, dumpSnap, losses>>

\* open(tmp, O_CREAT | O_TRUNC).
Open(p) ==
    /\ pc[p] = "open" /\ (tmp # None \/ Unused # {})
    /\ LET i == IF tmp = None THEN CHOOSE j \in Unused : TRUE ELSE tmp IN
          /\ tmp' = i
          /\ fd' = [fd EXCEPT ![p] = i]
          /\ content' = [content EXCEPT ![i] = Empty]
    /\ pc' = [pc EXCEPT ![p] = "write"]
    /\ UNCHANGED <<server, snap, off, orphans, overlapped, dump, dumpKind, dumpSnap, losses>>

\* Mutant of WriteChunk: one write too many.
WriteChunkExtra(p) ==
    /\ pc[p] = "write"
    /\ content' = [content EXCEPT ![fd[p]][off[p] + 1] = snap[p]]
    /\ off' = [off EXCEPT ![p] = @ + 1]
    /\ pc' = [pc EXCEPT ![p] = IF off[p] = Size[snap[p]] THEN "rename" ELSE "write"]
    /\ UNCHANGED <<server, snap, fd, orphans, overlapped, tmp, dump, dumpKind, dumpSnap, losses>>

\* One write of the stream, at p's own offset; the last one is the flush.
WriteChunk(p) ==
    /\ pc[p] = "write"
    /\ content' = [content EXCEPT ![fd[p]][off[p] + 1] = snap[p]]
    /\ off' = [off EXCEPT ![p] = @ + 1]
    /\ pc' = [pc EXCEPT ![p] = IF off[p] + 1 = Size[snap[p]] THEN "rename" ELSE "write"]
    /\ UNCHANGED <<server, snap, fd, orphans, overlapped, tmp, dump, dumpKind, dumpSnap, losses>>

\* p is done: SaveToFile returns, or the child exits.
Return(p, ok) ==
    /\ snap' = [snap EXCEPT ![p] = 0]
    /\ fd' = [fd EXCEPT ![p] = None]
    /\ off' = [off EXCEPT ![p] = 0]
    /\ overlapped' = overlapped \ {p}
    /\ \/ /\ p # Server
          /\ pc' = [pc EXCEPT ![p] = IF p \in orphans THEN "free" ELSE "zombie"]
          /\ orphans' = orphans \ {p}
          /\ UNCHANGED <<mode, db, lastSave>>
       \/ /\ p = Server /\ mode = "save"
          /\ pc' = [pc EXCEPT ![p] = "free"]
          /\ mode' = "up"
          /\ lastSave' = IF ok THEN snap[p] ELSE lastSave
          /\ UNCHANGED <<db, orphans>>
       \/ /\ p = Server /\ mode = "exit"
          /\ Terminate(ok)
    /\ Unlinked
    /\ UNCHANGED <<written, losses>>

\* rename(tmp, path), which moves whatever file is called tmp by now.
Rename(p) ==
    /\ pc[p] = "rename" /\ tmp # None
    /\ dump' = tmp /\ tmp' = None
    /\ dumpSnap' = snap[p]
    /\ dumpKind' = IF p \in overlapped THEN "overlap"
                   ELSE IF p \in orphans THEN "orphan" ELSE "alone"
    /\ Return(p, TRUE)

\* Mutant of Fail: the caller takes a failed save for a successful one.
FailUnnoticed(p) ==
    /\ pc[p] \in {"open", "write", "rename"}
    /\ UNCHANGED <<tmp, dump, dumpKind, dumpSnap>>
    /\ Return(p, TRUE)

\* Any of the three calls fails; the temporary file is left as it is.
Fail(p) ==
    /\ pc[p] \in {"open", "write", "rename"}
    /\ UNCHANGED <<tmp, dump, dumpKind, dumpSnap>>
    /\ Return(p, FALSE)
-----------------------------------------------------------------------------
(* Crash, loss of power and restart.                                       *)

\* The server process is killed; its children go on.
Crash ==
    /\ mode \in {"up", "save", "exit"}
    /\ Terminate(FALSE)
    /\ snap' = [snap EXCEPT ![Server] = 0]
    /\ fd' = [fd EXCEPT ![Server] = None]
    /\ off' = [off EXCEPT ![Server] = 0]
    /\ overlapped' = overlapped \ {Server}
    /\ UNCHANGED <<written, tmp, dump, dumpKind, dumpSnap, losses>>
    /\ Unlinked

\* The machine goes down.  Nothing was fsynced, so any file may come back
\* without its contents.
PowerLoss ==
    /\ losses < MaxPowerLoss
    /\ losses' = losses + 1
    /\ mode' = "down" /\ db' = 0 /\ lastSave' = 0
    /\ pc' = [p \in Savers |-> "free"]
    /\ snap' = [p \in Savers |-> 0]
    /\ fd' = [p \in Savers |-> None]
    /\ off' = [p \in Savers |-> 0]
    /\ orphans' = {} /\ overlapped' = {}
    /\ \E kept \in SUBSET Inodes :
          /\ content' = [i \in Inodes |-> IF i \in kept THEN content[i] ELSE Empty]
          /\ dumpKind' = IF dump \in kept \/ dumpKind \in {"none", "overlap"}
                         THEN dumpKind ELSE "lost"
    /\ UNCHANGED <<written, tmp, dump, dumpSnap>>

\* LoadFromFile: a file that fails the magic, the CRC or the parse is refused
\* and leaves the database as it was, empty.
LoadFromFile ==
    IF dump # None /\ Whole(content[dump])
    THEN CHOOSE v \in Versions : content[dump] = Image(v)
    ELSE 0

\* Mutant of Start: serve without restoring the dump.
StartEmpty ==
    /\ mode \in {"saved", "down"}
    /\ mode' = "up"
    /\ db' = 0
    /\ UNCHANGED <<written, lastSave, saver, files, losses>>

\* main: restore the dump if there is one, whatever comes of it, and serve.
Start ==
    /\ mode \in {"saved", "down"}
    /\ mode' = "up"
    /\ db' = LoadFromFile
    /\ UNCHANGED <<written, lastSave, saver, files, losses>>

SaverStep(p) == Open(p) \/ WriteChunk(p) \/ Rename(p) \/ Fail(p)

Next ==
    \/ Write \/ Save \/ Reap \/ ShutdownSave \/ ShutdownNoSave
    \/ Crash \/ PowerLoss \/ Start
    \/ \E k \in Kids : BgSaveFork(k)
    \/ \E p \in Savers : SaverStep(p)

Spec == Init /\ [][Next]_vars

\* The operating system runs every saver; the event loop ends each batch of
\* events with PeriodicTasks, however many SAVEs it served.
Fairness ==
    /\ \A p \in Savers : WF_vars(SaverStep(p))
    /\ SF_vars(Reap)

FairSpec == Spec /\ Fairness
-----------------------------------------------------------------------------
(* Properties.                                                             *)

\* A save that ran from Serialize to rename with no other saver in flight
\* leaves in the dump exactly the image it serialized, and no later open,
\* write, failure or crash of any saver changes that file: the dump stays
\* restorable until it is replaced (SaveToFile, BgSaveFork).
AloneDumpWhole ==
    dumpKind \in {"alone", "orphan"} =>
        dump # None /\ content[dump] = Image(dumpSnap)

\* After a graceful shutdown whose final save succeeded and overlapped no
\* child, a restart finds the very dataset the server had when it stopped
\* (the end of Server::Run, then the restore in main).
GracefulExitKeepsData ==
    mode = "saved" /\ dumpKind # "overlap" => LoadFromFile = db

\* Saves that do not overlap never replace the dump by an older dataset, even
\* across crashes and restarts, as long as no child of a dead server wrote it
\* (BgSaveFork serializes in the parent, main restores before it serves).
DumpNeverOlder ==
    [][dumpKind = "alone" /\ dumpKind' = "alone" => dumpSnap' >= dumpSnap]_vars

\* Every BGSAVE child finishes and is reaped: no zombie stays behind
\* (PeriodicTasks).
ChildrenReaped == \A k \in Kids : (pc[k] = "open") ~> (pc[k] = "free")

\* What README.md says of BGSAVE: writing a temporary file and renaming it
\* leaves no risk of a corrupt dump.
DumpNeverTorn == dump # None => Whole(content[dump])
=============================================================================
