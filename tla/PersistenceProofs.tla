--------------------------- MODULE PersistenceProofs ---------------------------
(***************************************************************************)
(* Proofs about Persistence, for any number of children, files, writes,    *)
(* chunks and losses of power.                                             *)
(***************************************************************************)
EXTENDS Persistence, TLAPS

Up == {"up", "save", "exit"}

\* The control state of a saver and its descriptor go together; only the server
\* saves while it is in SAVE or in its final save.
Control ==
    /\ \A p \in Savers : pc[p] \in {"write", "rename"} => fd[p] \in Inodes
    /\ \A p \in Savers : pc[p] \notin {"write", "rename"} => fd[p] = None /\ off[p] = 0
    /\ \A p \in Savers : pc[p] = "write" => off[p] < Size[snap[p]]
    /\ pc[Server] # "zombie"
    /\ Server \in InFlight <=> mode \in {"save", "exit"}
    /\ tmp # None => tmp # dump

\* A saver that is not marked as overlapped is the only one in flight, and the
\* temporary file is its own: what it wrote so far and nothing else.
Alone ==
    /\ overlapped \in SUBSET InFlight
    /\ \A p \in InFlight \ overlapped :
          /\ \A q \in InFlight : q = p
          /\ pc[p] \in {"write", "rename"} =>
                /\ tmp = fd[p]
                /\ content[tmp] = [j \in Chunks |-> IF j <= off[p] THEN snap[p] ELSE None]
          /\ pc[p] = "rename" => off[p] = Size[snap[p]]

\* A dump installed by such a saver is whole, and nobody has it open.
Installed ==
    dumpKind \in {"alone", "orphan"} =>
        /\ dump \in Inodes
        /\ content[dump] = Image(dumpSnap)
        /\ \A q \in Savers : fd[q] # dump

\* Versions only grow within the life of a server, and the server of an "alone"
\* dump is never behind it.
Ordered ==
    /\ mode \in {"save", "exit"} => snap[Server] = db
    /\ \A p \in InFlight \ orphans : mode \in Up /\ snap[p] <= db
    /\ dumpKind = "alone" =>
          /\ mode \in Up => dumpSnap <= db
          /\ \A p \in InFlight \ (overlapped \cup orphans) : dumpSnap <= snap[p]

\* Nothing in memory or on disk is newer than the newest write.
Bounded ==
    /\ db <= written
    /\ \A p \in Savers : snap[p] <= written
    /\ \A i \in Inodes, j \in Chunks : content[i][j] \in (0..written) \cup {None}

\* What a graceful exit leaves: its own dump and no saver, or an overlap that
\* every saver still in flight took part in.
Exited ==
    mode = "saved" =>
        \/ dumpKind = "alone" /\ dumpSnap = db /\ InFlight = {}
        \/ dumpKind = "overlap" /\ InFlight \subseteq overlapped

IInv == TypeOK /\ Control /\ Alone /\ Installed /\ Ordered /\ Bounded /\ Exited
-----------------------------------------------------------------------------
(* Facts about images and LoadFromFile.                                    *)

LEMMA ImageInjective ==
    ASSUME NEW u \in Versions, NEW v \in Versions, Image(u) = Image(v)
    PROVE  u = v
<1>1. Size[u] \in Chunks /\ Size[v] \in Chunks /\ 1 \in Chunks
  BY PersistenceAssumption DEF Chunks
<1>2. Image(u)[1] = u /\ Image(v)[1] = v
  BY <1>1 DEF Image, Chunks
<1> QED BY <1>2

\* LoadFromFile restores the version whose image is in the dump.
LEMMA LoadsImage ==
    ASSUME NEW v \in Versions, dump # None, content[dump] = Image(v)
    PROVE  LoadFromFile = v
<1>1. Whole(content[dump])
  BY DEF Whole
<1>2. \A u \in Versions : content[dump] = Image(u) => u = v
  BY ImageInjective
<1> QED BY <1>1, <1>2 DEF LoadFromFile

LEMMA LoadType == LoadFromFile \in Versions
BY PersistenceAssumption DEF LoadFromFile, Whole, Versions
-----------------------------------------------------------------------------
(* The inductive invariant.                                                *)

LEMMA InitIInv == Init => IInv
<1> SUFFICES ASSUME Init PROVE IInv
  OBVIOUS
<1> USE PersistenceAssumption DEF Init
<1>1. TypeOK
  BY DEF TypeOK, Empty, Versions
<1>2. Control
  BY DEF Control, InFlight, Savers
<1>3. Alone /\ Installed /\ Exited
  BY DEF Alone, Installed, Exited, InFlight
<1>4. Ordered /\ Bounded
  BY DEF Ordered, Bounded, InFlight, Empty
<1> QED BY <1>1, <1>2, <1>3, <1>4 DEF IInv

LEMMA WriteIInv == IInv /\ Write => IInv'
<1> SUFFICES ASSUME IInv, Write PROVE IInv'
  OBVIOUS
<1> USE DEF IInv, Write, saver, files
<1>1. TypeOK'
  BY PersistenceAssumption DEF TypeOK, Versions
<1>2. Control' /\ Alone' /\ Installed'
  BY DEF Control, Alone, Installed, InFlight, Image
<1>3. Ordered'
  <2>1. written \in Int /\ db \in Int /\ dumpSnap \in Int
    BY PersistenceAssumption DEF TypeOK, Versions
  <2>2. \A p \in Savers : snap[p] \in Int
    BY PersistenceAssumption DEF TypeOK, Versions
  <2> QED BY <2>1, <2>2 DEF Ordered, Bounded, InFlight, Up
<1>4. Bounded'
  BY PersistenceAssumption DEF TypeOK, Bounded, Versions
<1>5. Exited'
  BY DEF Exited
<1> QED BY <1>1, <1>2, <1>3, <1>4, <1>5

LEMMA SaveIInv == IInv /\ (Save \/ ShutdownSave) => IInv'
<1> SUFFICES ASSUME IInv, Save \/ ShutdownSave PROVE IInv'
  OBVIOUS
<1> USE DEF IInv, Save, ShutdownSave, Serialize, files
<1>1. TypeOK'
  BY DEF TypeOK, Savers, InFlight
<1>2. Control'
  BY DEF TypeOK, Control, InFlight, Savers
<1>3. Alone'
  BY DEF TypeOK, Control, Alone, InFlight, Savers
<1>4. Installed'
  BY DEF Installed, Image
<1>5. Ordered'
  BY DEF TypeOK, Control, Ordered, InFlight, Savers, Versions, Up
<1>6. Bounded' /\ Exited'
  BY DEF TypeOK, Bounded, Exited
<1> QED BY <1>1, <1>2, <1>3, <1>4, <1>5, <1>6

LEMMA BgSaveForkIInv == ASSUME NEW k \in Kids PROVE IInv /\ BgSaveFork(k) => IInv'
<1> SUFFICES ASSUME IInv, BgSaveFork(k) PROVE IInv'
  OBVIOUS
<1> USE DEF IInv, BgSaveFork, Serialize, files
<1>0. k \in Savers /\ k # Server
  BY PersistenceAssumption DEF Savers
<1>1. TypeOK'
  BY <1>0 DEF TypeOK, InFlight
<1>2. Control'
  BY <1>0 DEF TypeOK, Control, InFlight, Savers
<1>3. Alone'
  BY <1>0 DEF TypeOK, Control, Alone, InFlight
<1>4. Installed'
  BY DEF Installed, Image
<1>5. Ordered'
  BY <1>0 DEF TypeOK, Ordered, InFlight, Versions, Up
<1>6. Bounded' /\ Exited'
  BY DEF TypeOK, Bounded, Exited
<1> QED BY <1>1, <1>2, <1>3, <1>4, <1>5, <1>6

LEMMA ReapIInv == IInv /\ Reap => IInv'
<1> SUFFICES ASSUME IInv, Reap PROVE IInv'
  OBVIOUS
<1> USE DEF IInv, Reap, server, files
<1>0. InFlight' = InFlight
  BY DEF InFlight, TypeOK
<1>1. TypeOK'
  BY DEF TypeOK
<1>2. Control'
  BY <1>0 DEF TypeOK, Control, Savers
<1>3. Alone'
  BY <1>0 DEF TypeOK, Alone, InFlight
<1>4. Installed' /\ Ordered' /\ Bounded' /\ Exited'
  BY <1>0 DEF Installed, Ordered, Bounded, Exited, Image
<1> QED BY <1>1, <1>2, <1>3, <1>4

\* The end of the server process: only the children stay in flight.
LEMMA TerminateFlight ==
    ASSUME TypeOK, NEW saved \in BOOLEAN, Terminate(saved)
    PROVE  /\ InFlight' = InFlight \ {Server}
           /\ orphans' = InFlight' /\ orphans' \in SUBSET Kids
           /\ pc' \in [Savers -> {"free", "open", "write", "rename", "zombie"}]
           /\ \A p \in Savers \ {Server} : p \in InFlight => pc'[p] = pc[p]
           /\ \A p \in Savers : p \notin InFlight' => pc'[p] = "free"
BY PersistenceAssumption DEF Terminate, InFlight, TypeOK, Savers

LEMMA ShutdownNoSaveIInv == IInv /\ ShutdownNoSave => IInv'
<1> SUFFICES ASSUME IInv, ShutdownNoSave PROVE IInv'
  OBVIOUS
<1> USE DEF IInv, ShutdownNoSave, files
<1>0. /\ Server \notin InFlight /\ InFlight' = InFlight /\ orphans' = InFlight
      /\ orphans' \in SUBSET Kids
      /\ pc' \in [Savers -> {"free", "open", "write", "rename", "zombie"}]
      /\ \A p \in InFlight : pc'[p] = pc[p]
      /\ \A p \in Savers : p \notin InFlight => pc'[p] = "free"
  BY TerminateFlight DEF Control, InFlight
<1>m. mode' = "down" /\ db' = 0 /\ lastSave' = 0
  BY DEF Terminate
<1>1. TypeOK'
  BY <1>0, <1>m, PersistenceAssumption DEF TypeOK, Versions
<1>2. Control'
  BY <1>0, <1>m DEF TypeOK, Control, InFlight, Savers
<1>3. Alone'
  BY <1>0 DEF TypeOK, Alone, InFlight
<1>4. Installed'
  BY DEF Installed, Image
<1>5. Ordered' /\ Exited'
  BY <1>0, <1>m DEF TypeOK, Ordered, Exited, Versions, Up
<1>6. Bounded'
  BY <1>m, PersistenceAssumption DEF TypeOK, Bounded, Versions
<1> QED BY <1>1, <1>2, <1>3, <1>4, <1>5, <1>6

LEMMA OpenIInv == ASSUME NEW p \in Savers PROVE IInv /\ Open(p) => IInv'
<1> SUFFICES ASSUME IInv, Open(p) PROVE IInv'
  OBVIOUS
<1> DEFINE i == IF tmp = None THEN CHOOSE j \in Unused : TRUE ELSE tmp
<1> USE DEF IInv, server
<1>0. /\ pc[p] = "open" /\ pc' = [pc EXCEPT ![p] = "write"]
      /\ tmp' = i /\ fd' = [fd EXCEPT ![p] = i]
      /\ content' = [content EXCEPT ![i] = Empty]
      /\ UNCHANGED <<server, snap, off, orphans, overlapped, dump, dumpKind, dumpSnap, losses>>
  BY DEF Open
<1>i. i \in Inodes /\ i # dump /\ (tmp = None => \A q \in Savers : fd[q] # i)
  BY PersistenceAssumption DEF Open, Unused, TypeOK, Control
<1> HIDE DEF i
<1>f. InFlight' = InFlight
  BY <1>0 DEF InFlight, TypeOK
<1>1. TypeOK'
  BY <1>0, <1>i DEF TypeOK, Empty
<1>2. Control'
  <2>1. Size[snap[p]] > 0
    BY PersistenceAssumption DEF TypeOK, Chunks
  <2> QED BY <1>0, <1>i, <1>f, <2>1 DEF TypeOK, Control
<1>3. Alone'
  <2>1. p \in InFlight /\ \A q \in InFlight \ overlapped : q = p
    BY <1>0 DEF Alone, InFlight
  <2>2. off[p] = 0 /\ content'[tmp'] = Empty /\ fd'[p] = tmp' /\ pc'[p] = "write"
    BY <1>0, <1>i DEF TypeOK, Control
  <2>3. Empty = [j \in Chunks |-> IF j <= 0 THEN snap[p] ELSE None]
    BY DEF Empty, Chunks
  <2> QED BY <1>0, <1>f, <2>1, <2>2, <2>3 DEF Alone
<1>4. Installed'
  BY <1>0, <1>i DEF TypeOK, Installed, Image
<1>5. Ordered' /\ Exited'
  BY <1>0, <1>f DEF Ordered, Exited
<1>6. Bounded'
  BY <1>0, <1>i DEF TypeOK, Bounded, Empty
<1> QED BY <1>1, <1>2, <1>3, <1>4, <1>5, <1>6

LEMMA WriteChunkIInv == ASSUME NEW p \in Savers PROVE IInv /\ WriteChunk(p) => IInv'
<1> SUFFICES ASSUME IInv, WriteChunk(p) PROVE IInv'
  OBVIOUS
<1> USE DEF IInv, WriteChunk, server
<1>0. /\ fd[p] \in Inodes /\ off[p] \in Nat /\ off[p] + 1 \in Chunks
      /\ Size[snap[p]] \in Chunks /\ off[p] < Size[snap[p]]
  BY PersistenceAssumption DEF TypeOK, Control, Chunks
<1>f. InFlight' = InFlight
  BY DEF InFlight, TypeOK
<1>1. TypeOK'
  BY <1>0 DEF TypeOK, Chunks
<1>2. Control'
  BY <1>0, <1>f DEF TypeOK, Control, Chunks
<1>3. Alone'
  <2> SUFFICES ASSUME NEW q \in InFlight \ overlapped
               PROVE  /\ \A r \in InFlight : r = q
                      /\ pc'[q] \in {"write", "rename"} =>
                           /\ tmp = fd[q]
                           /\ content'[tmp] = [j \in Chunks |-> IF j <= off'[q] THEN snap[q] ELSE None]
                      /\ pc'[q] = "rename" => off'[q] = Size[snap[q]]
    BY <1>f DEF Alone
  <2>1. p \in InFlight /\ q = p /\ \A r \in InFlight : r = q
    BY DEF Alone, InFlight
  <2>2. tmp = fd[p] /\ content[tmp] = [j \in Chunks |-> IF j <= off[p] THEN snap[p] ELSE None]
    BY <2>1 DEF Alone
  <2>3. content'[tmp] = [content[tmp] EXCEPT ![off[p] + 1] = snap[p]]
    BY <1>0, <2>2 DEF TypeOK
  <2>4. off'[p] = off[p] + 1
    BY DEF TypeOK
  <2>5. \A j \in Chunks : content'[tmp][j] = IF j <= off[p] + 1 THEN snap[p] ELSE None
    BY <1>0, <2>2, <2>3, PersistenceAssumption DEF Chunks
  <2>6. content'[tmp] = [j \in Chunks |-> IF j <= off[p] + 1 THEN snap[p] ELSE None]
    BY <2>2, <2>3, <2>5
  <2> QED BY <1>0, <2>1, <2>2, <2>4, <2>6 DEF TypeOK
<1>4. Installed'
  BY <1>0 DEF TypeOK, Installed, Image
<1>5. Ordered' /\ Exited'
  BY <1>f DEF Ordered, Exited
<1>6. Bounded'
  <2>1. snap[p] \in 0..written
    BY PersistenceAssumption DEF TypeOK, Bounded, Versions
  <2> QED BY <1>0, <2>1 DEF TypeOK, Bounded
<1> QED BY <1>1, <1>2, <1>3, <1>4, <1>5, <1>6

\* What Return leaves behind: p is out of flight and the others are as they were.
ReturnPost(p, ok) ==
    /\ InFlight' = InFlight \ {p} /\ overlapped' = overlapped \ {p}
    /\ pc' \in [Savers -> {"free", "open", "write", "rename", "zombie"}]
    /\ pc'[Server] # "zombie"
    /\ \A q \in InFlight' : pc'[q] = pc[q]
    /\ \A q \in Savers \ {p} : fd'[q] = fd[q] /\ off'[q] = off[q] /\ snap'[q] = snap[q]
    /\ fd'[p] = None /\ off'[p] = 0 /\ snap'[p] = 0
    /\ lastSave' \in Versions /\ db' \in Versions /\ db' <= db
    /\ mode' \in {"up", "save", "exit", "saved", "down"}
    /\ orphans' \in SUBSET Kids
    /\ InFlight' \ orphans' \subseteq InFlight \ orphans
    /\ Server \in InFlight' <=> mode' \in {"save", "exit"}
    /\ mode' \in Up => mode \in Up /\ db' = db
    /\ \A q \in InFlight' \ orphans' : mode' \in Up
    /\ mode' = "saved" => \/ mode = "saved" /\ db' = db
                          \/ p = Server /\ ok /\ mode = "exit" /\ db' = db

LEMMA ReturnEffect ==
    ASSUME IInv, NEW p \in InFlight, NEW ok \in BOOLEAN, Return(p, ok)
    PROVE  ReturnPost(p, ok)
<1> USE DEF IInv, ReturnPost
<1>t. p \in Savers /\ Server \in Savers /\ 0 \in Versions
  BY PersistenceAssumption DEF InFlight, Savers, Versions
<1>1. CASE p # Server
  <2>1. /\ pc' = [pc EXCEPT ![p] = IF p \in orphans THEN "free" ELSE "zombie"]
        /\ orphans' = orphans \ {p}
        /\ UNCHANGED <<mode, db, lastSave>>
    BY <1>1 DEF Return
  <2>2. InFlight' = InFlight \ {p} /\ \A q \in InFlight' : pc'[q] = pc[q]
    BY <1>t, <2>1 DEF InFlight, TypeOK
  <2>3. db \in Int
    BY PersistenceAssumption DEF TypeOK, Versions
  <2> QED BY <1>1, <1>t, <2>1, <2>2, <2>3 DEF Return, TypeOK, Control, Ordered, Up
<1>2. CASE p = Server /\ mode = "save"
  BY <1>2, <1>t, PersistenceAssumption
     DEF Return, TypeOK, Control, Ordered, InFlight, Savers, Up, Versions
<1>3. CASE p = Server /\ mode = "exit"
  <2>1. Terminate(ok)
    BY <1>3 DEF Return
  <2>2. db' \in Versions /\ db' <= db
    BY <2>1, <1>t, PersistenceAssumption DEF TypeOK, Terminate, Versions
  <2> QED BY <1>3, <1>t, <2>1, <2>2, TerminateFlight
          DEF Return, Terminate, TypeOK, Control, Ordered, InFlight, Savers, Up
<1> QED BY <1>1, <1>2, <1>3 DEF Control

\* Unlinked only clears files that have neither a name nor a descriptor.
LEMMA UnlinkedEffect ==
    ASSUME TypeOK, Unlinked
    PROVE  /\ content' \in [Inodes -> [Chunks -> Versions \cup {None}]]
           /\ \A i \in Inodes : i \in {tmp', dump'} => content'[i] = content[i]
BY DEF TypeOK, Unlinked, Empty

LEMMA ReturnBounded ==
    ASSUME IInv, NEW p \in Savers, NEW ok \in BOOLEAN, ReturnPost(p, ok), Unlinked,
           written' = written
    PROVE  Bounded'
<1>1. db \in Int /\ db' \in Int /\ written \in Int /\ 0 <= written
  BY PersistenceAssumption DEF IInv, TypeOK, ReturnPost, Versions
<1> QED BY <1>1 DEF IInv, TypeOK, Bounded, ReturnPost, Unlinked, Empty

LEMMA RenameIInv == ASSUME NEW p \in Savers PROVE IInv /\ Rename(p) => IInv'
<1> SUFFICES ASSUME IInv, Rename(p) PROVE IInv'
  OBVIOUS
<1> USE DEF IInv
<1>0. /\ pc[p] = "rename" /\ tmp \in Inodes /\ dump' = tmp /\ tmp' = None
      /\ dumpSnap' = snap[p] /\ dumpSnap' \in Versions
      /\ dumpKind' = IF p \in overlapped THEN "overlap"
                     ELSE IF p \in orphans THEN "orphan" ELSE "alone"
      /\ snap' = [snap EXCEPT ![p] = 0] /\ fd' = [fd EXCEPT ![p] = None]
      /\ off' = [off EXCEPT ![p] = 0]
      /\ Return(p, TRUE) /\ Unlinked /\ UNCHANGED <<written, losses>>
  BY DEF Rename, Return, TypeOK
<1>p. p \in InFlight
  BY <1>0 DEF InFlight
<1>r. ReturnPost(p, TRUE)
  BY <1>0, <1>p, ReturnEffect
<1>u. /\ content' \in [Inodes -> [Chunks -> Versions \cup {None}]]
      /\ content'[tmp] = content[tmp]
  BY <1>0, UnlinkedEffect
<1>1. TypeOK'
  <2>1. /\ 0 \in Versions /\ 0 \in 0..MaxLen
        /\ dumpKind' \in {"none", "alone", "orphan", "overlap", "lost"}
    BY <1>0, PersistenceAssumption DEF Versions
  <2>2. /\ snap' \in [Savers -> Versions] /\ fd' \in [Savers -> Inodes \cup {None}]
        /\ off' \in [Savers -> 0..MaxLen] /\ overlapped' \in SUBSET Savers
    BY <1>0, <1>r, <2>1 DEF TypeOK, ReturnPost
  <2> QED BY <1>0, <1>r, <1>u, <2>1, <2>2 DEF TypeOK, ReturnPost
<1>2. Control'
  <2>1. \A q \in Savers \ {p} : pc'[q] \in {"write", "rename"} => pc'[q] = pc[q]
    BY <1>r DEF InFlight, ReturnPost
  <2>2. \A q \in Savers \ {p} : pc[q] \in {"write", "rename"} => pc'[q] = pc[q]
    BY <1>r DEF InFlight, ReturnPost
  <2>3. pc'[p] \notin {"write", "rename"}
    BY <1>r DEF InFlight, ReturnPost
  <2> QED BY <1>0, <1>r, <2>1, <2>2, <2>3 DEF Control, ReturnPost
<1>3. p \notin overlapped => \A q \in Savers : q \notin InFlight'
  BY <1>p, <1>r DEF Alone, ReturnPost
<1>4. Alone'
  <2>1. ASSUME NEW q \in InFlight' \ overlapped' PROVE FALSE
    <3>1. q \in InFlight \ overlapped /\ q # p
      BY <1>r DEF ReturnPost
    <3> QED BY <1>p, <3>1 DEF Alone
  <2> QED BY <1>r, <2>1 DEF Alone, ReturnPost
<1>5. Installed'
  <2> SUFFICES ASSUME p \notin overlapped
               PROVE  content[tmp] = Image(snap[p]) /\ \A q \in Savers : fd'[q] # tmp
    BY <1>0, <1>u DEF Installed, Image
  <2>1. \A q \in Savers : fd'[q] = None
    BY <1>3, <1>r DEF Control, InFlight, ReturnPost
  <2>2. /\ content[tmp] = [j \in Chunks |-> IF j <= off[p] THEN snap[p] ELSE None]
        /\ off[p] = Size[snap[p]]
    BY <1>0, <1>p DEF Alone
  <2> QED BY <2>1, <2>2, <1>0, PersistenceAssumption DEF Image
<1>6. Ordered'
  <2>2. mode' \in {"save", "exit"} => snap'[Server] = db'
    BY <1>r, PersistenceAssumption DEF Ordered, Control, Savers, Up, ReturnPost
  <2>3. \A q \in InFlight' \ orphans' : mode' \in Up /\ snap'[q] <= db'
    BY <1>r DEF Ordered, InFlight, ReturnPost
  <2>4. ASSUME dumpKind' = "alone"
        PROVE  /\ mode' \in Up => dumpSnap' <= db'
               /\ \A q \in InFlight' : FALSE
    BY <2>4, <1>0, <1>p, <1>r, <1>3 DEF Ordered, InFlight, ReturnPost
  <2> QED BY <2>2, <2>3, <2>4 DEF Ordered
<1>7. Exited'
  <2>1. CASE mode = "saved"
    BY <2>1, <1>0, <1>p, <1>r DEF Exited, ReturnPost
  <2>2. CASE p = Server /\ mode = "exit" /\ db' = db
    BY <2>2, <1>0, <1>p, <1>r, <1>3, PersistenceAssumption DEF TypeOK, Exited, Alone, Ordered, ReturnPost
  <2> QED BY <2>1, <2>2, <1>r DEF Exited, ReturnPost
<1>8. Bounded'
  BY <1>0, <1>r, ReturnBounded
<1> QED BY <1>1, <1>2, <1>4, <1>5, <1>6, <1>7, <1>8

LEMMA FailIInv == ASSUME NEW p \in Savers PROVE IInv /\ Fail(p) => IInv'
<1> SUFFICES ASSUME IInv, Fail(p) PROVE IInv'
  OBVIOUS
<1> USE DEF IInv
<1>0. /\ UNCHANGED <<tmp, dump, dumpKind, dumpSnap, written, losses>>
      /\ snap' = [snap EXCEPT ![p] = 0] /\ fd' = [fd EXCEPT ![p] = None]
      /\ off' = [off EXCEPT ![p] = 0]
      /\ Return(p, FALSE) /\ Unlinked
  BY DEF Fail, Return
<1>p. p \in InFlight
  BY DEF Fail, InFlight
<1>r. ReturnPost(p, FALSE)
  BY <1>0, <1>p, ReturnEffect
<1>u. /\ content' \in [Inodes -> [Chunks -> Versions \cup {None}]]
      /\ \A i \in Inodes : i \in {tmp, dump} => content'[i] = content[i]
  BY <1>0, UnlinkedEffect
<1>1. TypeOK'
  <2>1. 0 \in Versions /\ 0 \in 0..MaxLen
    BY PersistenceAssumption DEF Versions
  <2>2. /\ snap' \in [Savers -> Versions] /\ fd' \in [Savers -> Inodes \cup {None}]
        /\ off' \in [Savers -> 0..MaxLen] /\ overlapped' \in SUBSET Savers
    BY <1>0, <1>r, <2>1 DEF TypeOK, ReturnPost
  <2> QED BY <1>0, <1>r, <1>u, <2>1, <2>2 DEF TypeOK, ReturnPost
<1>2. Control'
  <2>1. \A q \in Savers \ {p} : pc'[q] \in {"write", "rename"} => pc'[q] = pc[q]
    BY <1>r DEF InFlight, ReturnPost
  <2>2. \A q \in Savers \ {p} : pc[q] \in {"write", "rename"} => pc'[q] = pc[q]
    BY <1>r DEF InFlight, ReturnPost
  <2>3. pc'[p] \notin {"write", "rename"}
    BY <1>r DEF InFlight, ReturnPost
  <2> QED BY <1>0, <1>r, <2>1, <2>2, <2>3 DEF Control, ReturnPost
<1>4. Alone'
  <2>1. ASSUME NEW q \in InFlight' \ overlapped' PROVE FALSE
    <3>1. q \in InFlight \ overlapped /\ q # p
      BY <1>r DEF ReturnPost
    <3> QED BY <1>p, <3>1 DEF Alone
  <2> QED BY <1>r, <2>1 DEF Alone, ReturnPost
<1>5. Installed'
  <2>1. \A q \in Savers : fd'[q] \in {fd[q], None}
    BY <1>r DEF ReturnPost
  <2> QED BY <1>0, <1>u, <2>1, PersistenceAssumption DEF Installed, Image
<1>6. Ordered'
  <2>2. mode' \in {"save", "exit"} => snap'[Server] = db'
    BY <1>r, PersistenceAssumption DEF Ordered, Control, Savers, Up, ReturnPost
  <2>3. \A q \in InFlight' \ orphans' : mode' \in Up /\ snap'[q] <= db'
    BY <1>r DEF Ordered, InFlight, ReturnPost
  <2>4. \A q \in InFlight' \ (overlapped' \cup orphans') :
            q \in InFlight \ (overlapped \cup orphans) /\ snap'[q] = snap[q]
    BY <1>r DEF InFlight, ReturnPost
  <2>5. mode' \in Up => mode \in Up /\ db' = db
    BY <1>r DEF ReturnPost
  <2> QED BY <1>0, <2>2, <2>3, <2>4, <2>5 DEF Ordered
<1>7. Exited'
  BY <1>0, <1>p, <1>r DEF Exited, ReturnPost
<1>8. Bounded'
  BY <1>0, <1>r, ReturnBounded
<1> QED BY <1>1, <1>2, <1>4, <1>5, <1>6, <1>7, <1>8

LEMMA CrashIInv == IInv /\ Crash => IInv'
<1> SUFFICES ASSUME IInv, Crash PROVE IInv'
  OBVIOUS
<1> USE DEF IInv
<1>0. /\ Terminate(FALSE) /\ mode' = "down" /\ db' = 0 /\ lastSave' = 0
      /\ snap' = [snap EXCEPT ![Server] = 0] /\ fd' = [fd EXCEPT ![Server] = None]
      /\ off' = [off EXCEPT ![Server] = 0] /\ overlapped' = overlapped \ {Server}
      /\ UNCHANGED <<written, tmp, dump, dumpKind, dumpSnap, losses>> /\ Unlinked
  BY DEF Crash, Terminate
<1>r. /\ InFlight' = InFlight \ {Server}
      /\ orphans' = InFlight' /\ orphans' \in SUBSET Kids
      /\ pc' \in [Savers -> {"free", "open", "write", "rename", "zombie"}]
      /\ \A p \in Savers \ {Server} : p \in InFlight => pc'[p] = pc[p]
      /\ \A p \in Savers : p \notin InFlight' => pc'[p] = "free"
  BY <1>0, TerminateFlight
<1>u. /\ content' \in [Inodes -> [Chunks -> Versions \cup {None}]]
      /\ \A i \in Inodes : i \in {tmp, dump} => content'[i] = content[i]
  BY <1>0, UnlinkedEffect
<1>s. Server \in Savers /\ 0 \in Versions /\ 0 \in 0..MaxLen
  BY PersistenceAssumption DEF Savers, Versions
<1>1. TypeOK'
  BY <1>0, <1>r, <1>u, <1>s DEF TypeOK
<1>2. Control'
  BY <1>0, <1>r, <1>s DEF TypeOK, Control, InFlight
<1>3. Alone'
  <2>1. overlapped' \in SUBSET InFlight'
    BY <1>0, <1>r DEF Alone
  <2>2. \A p \in InFlight' \ overlapped' :
          /\ p \in InFlight \ overlapped /\ p # Server /\ p \in Savers
          /\ pc'[p] = pc[p] /\ fd'[p] = fd[p] /\ off'[p] = off[p] /\ snap'[p] = snap[p]
    BY <1>0, <1>r DEF TypeOK, InFlight
  <2>3. ASSUME NEW p \in InFlight' \ overlapped'
        PROVE  /\ \A q \in InFlight' : q = p
               /\ pc'[p] \in {"write", "rename"} =>
                    /\ tmp' = fd'[p]
                    /\ content'[tmp'] = [j \in Chunks |-> IF j <= off'[p] THEN snap'[p] ELSE None]
               /\ pc'[p] = "rename" => off'[p] = Size[snap'[p]]
    <3>1. p \in InFlight \ overlapped /\ \A q \in InFlight' : q \in InFlight
      BY <1>r, <2>2
    <3>2. \A q \in InFlight' : q = p
      BY <3>1 DEF Alone
    <3>3. /\ pc[p] \in {"write", "rename"} =>
               /\ tmp = fd[p]
               /\ content[tmp] = [j \in Chunks |-> IF j <= off[p] THEN snap[p] ELSE None]
          /\ pc[p] = "rename" => off[p] = Size[snap[p]]
      BY <2>2 DEF Alone
    <3>4. pc[p] \in {"write", "rename"} => content'[tmp] = content[tmp]
      <4>1. pc[p] \in {"write", "rename"} => fd[p] \in Inodes
        BY <2>2 DEF Control
      <4> QED BY <1>u, <3>3, <4>1
    <3> QED BY <1>0, <2>2, <3>2, <3>4, <3>3
  <2> QED BY <2>1, <2>3 DEF Alone
<1>4. Installed'
  BY <1>0, <1>u, <1>s, PersistenceAssumption DEF TypeOK, Installed, Image
<1>5. Ordered' /\ Exited'
  BY <1>0, <1>r DEF TypeOK, Ordered, Exited, Up, Versions
<1>6. Bounded'
  BY <1>0, <1>s, PersistenceAssumption DEF TypeOK, Bounded, Unlinked, Empty, Versions
<1> QED BY <1>1, <1>2, <1>3, <1>4, <1>5, <1>6

LEMMA PowerLossIInv == IInv /\ PowerLoss => IInv'
<1> SUFFICES ASSUME IInv, PowerLoss PROVE IInv'
  OBVIOUS
<1> USE DEF IInv
<1>0. InFlight' = {}
  BY DEF PowerLoss, InFlight
<1>s. Server \in Savers /\ 0 \in Versions /\ 0 \in 0..MaxLen
  BY PersistenceAssumption DEF Savers, Versions
<1>1. TypeOK'
  BY <1>s, PersistenceAssumption DEF PowerLoss, TypeOK, Empty
<1>2. Control' /\ Alone' /\ Exited'
  BY <1>0, <1>s DEF PowerLoss, Control, Alone, Exited
<1>3. Installed'
  BY PersistenceAssumption DEF PowerLoss, TypeOK, Installed, Image
<1>4. Ordered'
  BY <1>0 DEF PowerLoss, TypeOK, Ordered, Up, Versions
<1>5. Bounded'
  BY PersistenceAssumption DEF PowerLoss, TypeOK, Bounded, Empty, Versions
<1> QED BY <1>1, <1>2, <1>3, <1>4, <1>5

LEMMA StartIInv == IInv /\ Start => IInv'
<1> SUFFICES ASSUME IInv, Start PROVE IInv'
  OBVIOUS
<1> USE DEF IInv, Start, saver, files
<1>0. InFlight' = InFlight
  BY DEF InFlight
<1>1. TypeOK'
  BY LoadType DEF TypeOK
<1>2. Control' /\ Alone' /\ Installed' /\ Exited'
  BY <1>0 DEF Control, Alone, Installed, Exited, Image
<1>3. Ordered'
  <2>1. ASSUME dumpKind = "alone" PROVE dumpSnap <= LoadFromFile
    <3>1. dump # None /\ content[dump] = Image(dumpSnap) /\ dumpSnap \in Versions
      BY <2>1, PersistenceAssumption DEF Installed, TypeOK
    <3> QED BY <3>1, LoadsImage, PersistenceAssumption DEF Versions
  <2>2. \A p \in InFlight \ orphans : FALSE
    BY DEF Ordered, Up
  <2> QED BY <1>0, <2>1, <2>2 DEF Ordered
<1>4. Bounded'
  <2>1. CASE dump # None /\ Whole(content[dump])
    <3>1. PICK v \in Versions : content[dump] = Image(v)
      BY <2>1 DEF Whole
    <3>2. 1 \in Chunks /\ Size[v] \in Chunks
      BY PersistenceAssumption DEF Chunks
    <3>3. content[dump][1] = v
      BY <3>1, <3>2 DEF Image, Chunks
    <3>4. v <= written
      <4>1. content[dump][1] \in (0..written) \cup {None}
        BY <2>1, <3>2 DEF TypeOK, Bounded
      <4> QED BY <3>3, <4>1, PersistenceAssumption DEF TypeOK, Versions
    <3> QED BY <2>1, <3>1, <3>4, LoadsImage DEF Bounded
  <2>2. CASE ~(dump # None /\ Whole(content[dump]))
    BY <2>2, PersistenceAssumption DEF LoadFromFile, TypeOK, Bounded, Versions
  <2> QED BY <2>1, <2>2
<1> QED BY <1>1, <1>2, <1>3, <1>4
-----------------------------------------------------------------------------
(* The theorems.                                                           *)

LEMMA StepIInv == IInv /\ [Next]_vars => IInv'
<1> SUFFICES ASSUME IInv, [Next]_vars PROVE IInv'
  OBVIOUS
<1>1. ASSUME NEW k \in Kids, BgSaveFork(k) PROVE IInv'
  BY <1>1, BgSaveForkIInv
<1>2. ASSUME NEW p \in Savers, SaverStep(p) PROVE IInv'
  BY <1>2, OpenIInv, WriteChunkIInv, RenameIInv, FailIInv DEF SaverStep
<1>3. CASE UNCHANGED vars
  BY <1>3 DEF vars, server, saver, files, IInv, TypeOK, Control, Alone, Installed,
              Ordered, Bounded, Exited, InFlight, Image
<1> QED BY <1>1, <1>2, <1>3, WriteIInv, SaveIInv, ReapIInv, ShutdownNoSaveIInv, CrashIInv,
           PowerLossIInv, StartIInv DEF Next

\* Every reachable state of the persistence model is well typed.
THEOREM TypeCorrect == Spec => []TypeOK
<1>1. IInv => TypeOK
  BY DEF IInv
<1> QED BY <1>1, InitIInv, StepIInv, PTL DEF Spec

\* A save that overlapped no other save leaves a dump that is exactly what it
\* serialized, and the dump stays so until it is replaced.
THEOREM AloneDumpIsWhole == Spec => []AloneDumpWhole
<1>1. IInv => AloneDumpWhole
  BY PersistenceAssumption DEF IInv, Installed, AloneDumpWhole
<1> QED BY <1>1, InitIInv, StepIInv, PTL DEF Spec

\* A restart after a graceful exit restores the dataset of that exit.
THEOREM GracefulExit == Spec => []GracefulExitKeepsData
<1>1. ASSUME IInv, mode = "saved", dumpKind # "overlap" PROVE LoadFromFile = db
  <2>1. dumpKind = "alone" /\ dumpSnap = db
    BY <1>1 DEF IInv, Exited
  <2>2. dump # None /\ content[dump] = Image(db) /\ db \in Versions
    BY <1>1, <2>1, PersistenceAssumption DEF IInv, Installed, TypeOK
  <2> QED BY <2>2, LoadsImage
<1>2. IInv => GracefulExitKeepsData
  BY <1>1 DEF GracefulExitKeepsData
<1> QED BY <1>2, InitIInv, StepIInv, PTL DEF Spec

\* Saves that do not overlap never replace the dump by an older one.
THEOREM NeverOlder == Spec => DumpNeverOlder
<1> DEFINE Grow == dumpKind = "alone" /\ dumpKind' = "alone" => dumpSnap' >= dumpSnap
<1>1. ASSUME IInv, [Next]_vars PROVE Grow \/ UNCHANGED vars
  <2>1. dumpSnap \in Int /\ \A p \in Savers : snap[p] \in Int
    BY <1>1, PersistenceAssumption DEF IInv, TypeOK, Versions
  <2>2. ASSUME NEW p \in Savers, SaverStep(p) PROVE Grow
    <3>1. CASE Rename(p)
      BY <1>1, <2>1, <3>1 DEF Rename, IInv, Ordered, InFlight
    <3>2. CASE Open(p) \/ WriteChunk(p) \/ Fail(p)
      <4>1. dumpSnap' = dumpSnap
        BY <3>2 DEF Open, WriteChunk, Fail
      <4> QED BY <2>1, <4>1
    <3> QED BY <2>2, <3>1, <3>2 DEF SaverStep
  <2>3. ASSUME NEW k \in Kids, BgSaveFork(k) PROVE Grow
    BY <2>1, <2>3 DEF BgSaveFork, files
  <2>4. CASE Write \/ Save \/ Reap \/ ShutdownSave \/ ShutdownNoSave \/ Crash \/ PowerLoss \/ Start
    <3>1. dumpSnap' = dumpSnap
      BY <2>4 DEF Write, Save, Reap, ShutdownSave, ShutdownNoSave, Crash, PowerLoss, Start, files
    <3> QED BY <2>1, <3>1
  <2> QED BY <1>1, <2>2, <2>3, <2>4 DEF Next
<1>2. IInv /\ [Next]_vars => [Grow]_vars
  BY <1>1
<1> QED BY <1>2, InitIInv, StepIInv, PTL DEF Spec, DumpNeverOlder
=============================================================================
