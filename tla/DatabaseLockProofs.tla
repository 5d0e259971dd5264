------------------------- MODULE DatabaseLockProofs -------------------------
(***************************************************************************)
(* Proofs about DatabaseLock: what the lock file guarantees for every set  *)
(* of processes and any number of lock files, and the only way in which    *)
(* mutual exclusion can be lost.                                           *)
(***************************************************************************)
EXTENDS DatabaseLock, TLAPS

\* What a process has locked is the file it has open, at the steps of
\* acquire_mcp_lock and clean_stale_mcp_lock that hold the lock.
Owns(p) ==
    /\ pc[p] \in Holding \cup {"probe_close"} => fd[p] \in Inode /\ locked[fd[p]] = p
    /\ \A i \in Inode : locked[i] = p => pc[p] \in Holding \cup {"probe_close"} /\ fd[p] = i

\* LockInv, process by process.
LEMMA LockInvByProcess ==
    LockInv <=> TypeOK /\ \A q \in Proc : Owns(q) /\ LockSound(q)
<1>1. ASSUME TypeOK PROVE \A i \in Inode : locked[i] # NoProc => locked[i] \in Proc
  BY <1>1 DEF TypeOK
<1>2. LockInv => TypeOK /\ \A q \in Proc : Owns(q) /\ LockSound(q)
  BY LockAssumption DEF LockInv, HolderHasLock, NoOrphanLock, Owns, LockSound
<1>3. ASSUME TypeOK, \A q \in Proc : Owns(q) /\ LockSound(q)
      PROVE  LockInv
  <2>1. HolderHasLock
    BY <1>3 DEF Owns, HolderHasLock
  <2>2. NoOrphanLock
    BY <1>1, <1>3 DEF Owns, NoOrphanLock
  <2> QED
    BY <1>3, <2>1, <2>2 DEF LockInv
<1> QED
  BY <1>2, <1>3

\* A step of one process keeps LockInv when it keeps the process's own part
\* and does not touch the others: their files, their locks, and the name of
\* a file they are about to lock or hold.
LEMMA StepKeeps ==
    ASSUME LockInv, TypeOK', NEW p \in Proc,
           \A q \in Proc \ {p} : /\ pc'[q] = pc[q]
                                 /\ fd'[q] = fd[q]
                                 /\ cleanings'[q] = cleanings[q],
           \A i \in Inode : \/ locked'[i] = locked[i]
                            \/ locked[i] = NoProc /\ locked'[i] = p
                            \/ locked[i] = p /\ locked'[i] = NoProc,
           \A q \in Proc \ {p} : q \notin orphaned' /\ pc[q] \in Acquiring =>
                                    q \notin orphaned /\ path' = path,
           Owns(p)', LockSound(p)'
    PROVE  LockInv'
<1>1. ASSUME NEW q \in Proc \ {p} PROVE Owns(q)'
  <2>1. Owns(q)
    BY LockInvByProcess
  <2>2. \A i \in Inode : locked'[i] = q <=> locked[i] = q
    BY LockAssumption
  <2> QED
    BY <2>1, <2>2 DEF Owns
<1>2. ASSUME NEW q \in Proc \ {p} PROVE LockSound(q)'
  <2>1. LockSound(q)
    BY LockInvByProcess
  <2>2. \A i \in Inode : locked[i] = q => locked'[i] = q
    BY LockAssumption
  <2> QED
    BY <2>1, <2>2 DEF LockSound
<1>3. (LockInv <=> TypeOK /\ \A q \in Proc : Owns(q) /\ LockSound(q))'
  BY LockInvByProcess, PTL
<1> QED
  BY <1>1, <1>2, <1>3

\* The files and locks of a fresh system agree with its idle processes.
LEMMA LockInit == Init => LockInv
<1> SUFFICES ASSUME Init PROVE LockInv
  OBVIOUS
<1>1. TypeOK
  BY LockAssumption DEF Init, TypeOK, Inode, NoFile, PC
<1>2. \A q \in Proc : Owns(q) /\ LockSound(q)
  BY LockAssumption DEF Init, Owns, LockSound, Holding, Cleaning, Acquiring
<1> QED
  BY <1>1, <1>2, LockInvByProcess

\* A process that is about to lock its file, or holds it, has it open.
LEMMA AcquiringFile ==
    ASSUME LockInv PROVE \A q \in Proc : pc[q] \in Acquiring => fd[q] \in Inode /\ fd[q] # NoFile
BY DEF LockInv, HolderHasLock, LockSound, Acquiring, Holding, Inode, NoFile

\* The steps of handle_open and close that touch neither locks nor names.
QuietStep(p) ==
    \/ \E force \in Forces : StartOpen(p, force)
    \/ CleanRead(p) \/ CleanKeep(p)
    \/ TruncateLockFile(p) \/ WritePid(p) \/ OpenSucceeds(p) \/ OpenFails(p)
    \/ CloseDatabase(p)

\* Quiet steps keep the files and locks consistent.
LEMMA QuietLock ==
    ASSUME LockInv, NEW p \in Proc, QuietStep(p)
    PROVE  LockInv'
<1>1. UNCHANGED <<path, made, locked, fd, parent, orphaned>>
  BY DEF QuietStep, StartOpen, CleanRead, CleanKeep, CleanDone, TruncateLockFile, WritePid,
         OpenSucceeds, OpenFails, CloseDatabase
<1>2. PICK l \in PC :
        /\ pc' = [pc EXCEPT ![p] = l]
        /\ l \notin {"lock", "probe_lock", "probe_close"}
        /\ l \in Holding <=> pc[p] \in Holding \cup {"probe_close"}
        /\ l \in Acquiring <=> pc[p] \in Acquiring
        /\ l \in Cleaning => \/ cleanings'[p] = cleanings[p] /\ pc[p] \in Cleaning
                            \/ cleanings'[p] > 0
  BY DEF LockInv, TypeOK, QuietStep, Goto, StartOpen, CleanRead, CleanKeep, CleanDone,
         TruncateLockFile, WritePid, OpenSucceeds, OpenFails, CloseDatabase, PC, Holding,
         Acquiring, Cleaning
<1>3. LockSound(p) /\ Owns(p) /\ TypeOK
  BY LockInvByProcess
<1>4. \E n \in 0 .. 2 : cleanings' = [cleanings EXCEPT ![p] = n]
  BY <1>3 DEF TypeOK, LockSound, QuietStep, StartOpen, CleanRead, CleanKeep, CleanDone, Cleaning,
         TruncateLockFile, WritePid, OpenSucceeds, OpenFails, CloseDatabase
<1>5. TypeOK'
  <2>1. pc' \in [Proc -> PC] /\ cleanings' \in [Proc -> 0 .. 2]
    BY <1>2, <1>3, <1>4 DEF TypeOK
  <2>2. content' \in [Inode -> Proc \cup {NoProc}]
    BY <1>3 DEF TypeOK, Owns, Holding, QuietStep, StartOpen, CleanRead, CleanKeep, CleanDone,
         TruncateLockFile, WritePid, OpenSucceeds, OpenFails, CloseDatabase
  <2>3. seen' \in [Proc -> Proc \cup {NoProc}]
    BY <1>3 DEF TypeOK, NoFile, QuietStep, StartOpen, CleanRead, CleanKeep, CleanDone,
         TruncateLockFile, WritePid, OpenSucceeds, OpenFails, CloseDatabase
  <2> QED
    BY <1>1, <1>3, <2>1, <2>2, <2>3 DEF TypeOK
<1>6. Owns(p)' /\ LockSound(p)'
  BY <1>1, <1>2, <1>3 DEF Owns, LockSound, TypeOK
<1>7. \A q \in Proc \ {p} : pc'[q] = pc[q] /\ fd'[q] = fd[q] /\ cleanings'[q] = cleanings[q]
  BY <1>1, <1>2, <1>3, <1>4 DEF TypeOK
<1> QED
  BY <1>1, <1>5, <1>6, <1>7, StepKeeps

\* Closing a file keeps the types and gives back only the process's own lock.
LEMMA CloseKeeps ==
    ASSUME LockInv, NEW p \in Proc, CloseFile(p)
    PROVE  /\ fd' = [fd EXCEPT ![p] = NoFile] /\ fd' \in [Proc -> Inode \cup {NoFile}]
           /\ orphaned' \in SUBSET Proc
           /\ locked' \in [Inode -> Proc \cup {NoProc}]
           /\ \A i \in Inode : \/ locked'[i] = locked[i]
                               \/ locked[i] = p /\ locked'[i] = NoProc
           /\ \A i \in Inode : locked'[i] # p
           /\ \A q \in Proc \ {p} : q \in orphaned' <=> q \in orphaned
<1>1. TypeOK /\ Owns(p)
  BY LockInvByProcess
<1>2. locked' = [i \in Inode |-> IF i = fd[p] /\ locked[i] = p THEN NoProc ELSE locked[i]]
  BY DEF CloseFile
<1>3. \A i \in Inode : locked'[i] # p
  BY <1>1, <1>2, LockAssumption DEF Owns
<1> QED
  BY <1>1, <1>2, <1>3 DEF TypeOK, CloseFile

\* The steps that close the file, or die, keep the locks consistent.
LEMMA CloseLock ==
    ASSUME LockInv, NEW p \in Proc,
           CloseFile(p),
           UNCHANGED <<path, made, content, parent>>,
           seen' \in [Proc -> Proc \cup {NoProc}],
           NEW l \in PC \ (Holding \cup Acquiring \cup {"probe_lock", "probe_close"}),
           Goto(p, l),
           NEW n \in 0 .. 2, cleanings' = [cleanings EXCEPT ![p] = n],
           l \in Cleaning => n > 0
    PROVE  LockInv'
<1>1. TypeOK
  BY DEF LockInv
<1>2. pc' = [pc EXCEPT ![p] = l] /\ pc' \in [Proc -> PC]
  BY <1>1 DEF TypeOK, Goto
<1>3. TypeOK'
  BY <1>1, <1>2, CloseKeeps DEF TypeOK
<1>4. Owns(p)' /\ LockSound(p)'
  BY <1>1, <1>2, CloseKeeps DEF TypeOK, Owns, LockSound, Acquiring
<1>5. \A q \in Proc \ {p} : pc'[q] = pc[q] /\ fd'[q] = fd[q] /\ cleanings'[q] = cleanings[q]
  BY <1>1, <1>2, CloseKeeps DEF TypeOK
<1>6. \A i \in Inode : \/ locked'[i] = locked[i]
                       \/ locked[i] = NoProc /\ locked'[i] = p
                       \/ locked[i] = p /\ locked'[i] = NoProc
  BY CloseKeeps
<1>7. \A q \in Proc \ {p} : q \notin orphaned' /\ pc[q] \in Acquiring =>
                              q \notin orphaned /\ path' = path
  BY CloseKeeps
<1> QED
  BY <1>3, <1>4, <1>5, <1>6, <1>7, StepKeeps

\* Removing the lock file by name keeps the locks consistent: whoever has the
\* removed file open and wants it is orphaned.
LEMMA UnlinkLock ==
    ASSUME LockInv, NEW p \in Proc,
           Unlink(p),
           UNCHANGED <<made, content, locked, fd, seen>>,
           parent' \in [Proc -> {"waiting", "unlink", "done"}],
           NEW l \in PC \ Acquiring, Goto(p, l),
           l \notin {"lock", "probe_lock", "probe_close"},
           l \in Holding <=> pc[p] \in Holding \cup {"probe_close"},
           NEW n \in 0 .. 2, cleanings' = [cleanings EXCEPT ![p] = n],
           l \in Cleaning => n > 0
    PROVE  LockInv'
<1>1. TypeOK /\ Owns(p) /\ LockSound(p)
  BY LockInvByProcess
<1>2. path' = NoFile /\ orphaned' \in SUBSET Proc
  BY <1>1 DEF TypeOK, Unlink
<1>7. pc' = [pc EXCEPT ![p] = l]
  BY DEF Goto
<1>3. TypeOK'
  BY <1>1, <1>2, <1>7 DEF TypeOK
<1>4. Owns(p)' /\ LockSound(p)'
  BY <1>1, <1>7 DEF TypeOK, Owns, LockSound
<1>5. \A q \in Proc \ {p} : pc'[q] = pc[q] /\ fd'[q] = fd[q] /\ cleanings'[q] = cleanings[q]
  BY <1>1, <1>7 DEF TypeOK
<1>6. ASSUME NEW q \in Proc \ {p}, q \notin orphaned', pc[q] \in Acquiring
      PROVE  q \notin orphaned /\ path' = path
  <2>1. q \notin orphaned /\ fd[q] # path
    BY <1>6 DEF Unlink
  <2>2. LockSound(q)
    BY LockInvByProcess
  <2> QED
    BY <2>1, <2>2, <1>6 DEF LockSound
<1> QED
  BY <1>3, <1>4, <1>5, <1>6, StepKeeps

\* Taking the lock of a free file keeps the locks consistent.
LEMMA LockLock ==
    ASSUME LockInv, NEW p \in Proc,
           pc[p] \in {"lock", "probe_lock"},
           locked[fd[p]] = NoProc,
           locked' = [locked EXCEPT ![fd[p]] = p],
           pc' = [pc EXCEPT ![p] = IF pc[p] = "lock" THEN "truncate" ELSE "probe_close"],
           UNCHANGED <<path, made, content, fd, seen, cleanings, parent, orphaned>>
    PROVE  LockInv'
<1>1. TypeOK /\ Owns(p) /\ LockSound(p) /\ fd[p] \in Inode
  BY LockInvByProcess DEF LockSound
<1>2. TypeOK'
  BY <1>1 DEF TypeOK, PC, Holding, Cleaning
<1>3. Owns(p)'
  BY <1>1 DEF TypeOK, Owns, Holding
<1>4. LockSound(p)'
  BY <1>1 DEF TypeOK, LockSound, Cleaning, Acquiring
<1>5. \A q \in Proc \ {p} : pc'[q] = pc[q] /\ fd'[q] = fd[q] /\ cleanings'[q] = cleanings[q]
  BY <1>1 DEF TypeOK
<1>6. \A i \in Inode : \/ locked'[i] = locked[i]
                       \/ locked[i] = NoProc /\ locked'[i] = p
  BY <1>1 DEF TypeOK
<1> QED
  BY <1>2, <1>3, <1>4, <1>5, <1>6, StepKeeps

\* Opening, or creating, the lock file keeps the locks consistent.
LEMMA OpenFileLock ==
    ASSUME LockInv, NEW p \in Proc,
           pc[p] \in {"create", "probe"},
           NEW f \in Inode, fd' = [fd EXCEPT ![p] = f],
           path' = f, path = NoFile \/ path = f,
           made' \in 0 .. MaxInode,
           pc' = [pc EXCEPT ![p] = IF pc[p] = "create" THEN "lock" ELSE "probe_lock"],
           UNCHANGED <<content, locked, seen, cleanings, parent, orphaned>>
    PROVE  LockInv'
<1>1. TypeOK /\ Owns(p) /\ LockSound(p)
  BY LockInvByProcess
<1>2. TypeOK'
  BY <1>1 DEF TypeOK, PC, Cleaning
<1>3. Owns(p)'
  BY <1>1 DEF TypeOK, Owns, Holding
<1>4. LockSound(p)'
  BY <1>1 DEF TypeOK, LockSound, Cleaning, Acquiring
<1>5. \A q \in Proc \ {p} : pc'[q] = pc[q] /\ fd'[q] = fd[q] /\ cleanings'[q] = cleanings[q]
  BY <1>1 DEF TypeOK
<1>6. ASSUME NEW q \in Proc \ {p}, q \notin orphaned', pc[q] \in Acquiring
      PROVE  q \notin orphaned /\ path' = path
  <2>1. LockSound(q) /\ fd[q] # NoFile
    BY <1>6, LockInvByProcess, AcquiringFile
  <2> QED
    BY <1>6, <2>1 DEF LockSound
<1> QED
  BY <1>2, <1>3, <1>4, <1>5, <1>6, StepKeeps

\* Every step of the processes and of the parent keeps LockInv.
LEMMA LockNext == LockInv /\ [Next]_vars => LockInv'
<1> SUFFICES ASSUME LockInv, [Next]_vars PROVE LockInv'
  OBVIOUS
<1>0. TypeOK
  BY DEF LockInv
<1>1. CASE UNCHANGED vars
  BY <1>1 DEF vars, LockInv, TypeOK, HolderHasLock, NoOrphanLock, LockSound
<1>2. ASSUME NEW p \in Proc, QuietStep(p) PROVE LockInv'
  BY <1>2, QuietLock
<1>3. ASSUME NEW p \in Proc, ProbeOpen(p) \/ CreateLockFile(p) PROVE LockInv'
  <2>1. CASE ProbeOpen(p) /\ path = NoFile
    <3>1. LockSound(p) /\ Owns(p) /\ pc[p] = "probe"
      BY <2>1, LockInvByProcess DEF ProbeOpen
    <3>2. pc' = [pc EXCEPT ![p] = IF cleanings[p] > 1 THEN "clean" ELSE "create"]
      BY <2>1 DEF ProbeOpen, CleanDone, Goto
    <3>3. /\ cleanings' = [cleanings EXCEPT ![p] = cleanings[p] - 1]
          /\ UNCHANGED <<path, made, content, locked, fd, seen, parent, orphaned>>
      BY <2>1 DEF ProbeOpen, CleanDone
    <3>4. cleanings[p] - 1 \in 0 .. 2 /\ cleanings[p] \in 0 .. 2
      BY <1>0, <3>1 DEF TypeOK, LockSound, Cleaning
    <3>5. TypeOK'
      BY <1>0, <3>2, <3>3, <3>4 DEF TypeOK, PC, Cleaning
    <3>6. Owns(p)'
      BY <1>0, <3>1, <3>2, <3>3 DEF TypeOK, Owns, Holding
    <3>7. LockSound(p)'
      BY <1>0, <3>2, <3>3, <3>4 DEF TypeOK, LockSound, Cleaning, Acquiring
    <3>8. \A q \in Proc \ {p} : pc'[q] = pc[q] /\ fd'[q] = fd[q] /\ cleanings'[q] = cleanings[q]
      BY <1>0, <3>2, <3>3 DEF TypeOK
    <3> QED
      BY <3>3, <3>5, <3>6, <3>7, <3>8, StepKeeps
  <2>2. CASE ProbeOpen(p) /\ path # NoFile
    BY <1>0, <2>2, OpenFileLock DEF ProbeOpen, Goto, TypeOK
  <2>3. CASE CreateLockFile(p) /\ path # NoFile
    BY <1>0, <2>3, OpenFileLock DEF CreateLockFile, Goto, TypeOK
  <2>4. CASE CreateLockFile(p) /\ path = NoFile
    <3>1. made + 1 \in Inode /\ made + 1 \in 0 .. MaxInode
      BY <1>0, <2>4, LockAssumption DEF CreateLockFile, TypeOK, Inode
    <3> QED
      BY <2>4, <3>1, OpenFileLock DEF CreateLockFile, Goto
  <2> QED
    BY <1>3, <2>1, <2>2, <2>3, <2>4
<1>4. ASSUME NEW p \in Proc, ProbeLock(p) \/ TryLockFile(p) PROVE LockInv'
  <2>1. CASE locked[fd[p]] = NoProc
    BY <1>4, <2>1, LockLock DEF ProbeLock, TryLockFile, Goto
  <2>2. CASE locked[fd[p]] # NoProc /\ ProbeLock(p)
    <3>1. LockSound(p) /\ pc[p] = "probe_lock" /\ cleanings[p] - 1 \in 0 .. 2
      BY <1>0, <2>2, LockInvByProcess DEF ProbeLock, LockSound, Cleaning, TypeOK
    <3>2. PICK l \in {"clean", "create"} : Goto(p, l) /\ (l = "clean" => cleanings[p] - 1 > 0)
      <4>1. Goto(p, IF cleanings[p] > 1 THEN "clean" ELSE "create") /\ cleanings[p] \in 0 .. 2
        BY <1>0, <2>2 DEF ProbeLock, CleanDone, TypeOK
      <4> QED
        BY <4>1
    <3>3. l \in PC \ (Holding \cup Acquiring \cup {"probe_lock", "probe_close"})
      BY <3>2 DEF PC, Cleaning, Holding, Acquiring
    <3>4. /\ CloseFile(p) /\ cleanings' = [cleanings EXCEPT ![p] = cleanings[p] - 1]
          /\ UNCHANGED <<path, made, content, parent, seen>>
      BY <2>2 DEF ProbeLock, CleanDone
    <3>5. l \in Cleaning => cleanings[p] - 1 > 0
      BY <3>2 DEF Cleaning
    <3> QED
      BY <1>0, <3>1, <3>2, <3>3, <3>4, <3>5, CloseLock DEF TypeOK
  <2>3. CASE locked[fd[p]] # NoProc /\ TryLockFile(p)
    <3>1. /\ CloseFile(p) /\ Goto(p, "idle") /\ cleanings' = [cleanings EXCEPT ![p] = cleanings[p]]
          /\ UNCHANGED <<path, made, content, parent, seen>>
      BY <1>0, <2>3 DEF TryLockFile, TypeOK
    <3>2. "idle" \in PC \ (Holding \cup Acquiring \cup {"probe_lock", "probe_close"}) /\ "idle" \notin Cleaning
      BY DEF PC, Cleaning, Holding, Acquiring
    <3> QED
      BY <1>0, <3>1, <3>2, CloseLock DEF TypeOK
  <2> QED
    BY <1>4, <2>1, <2>2, <2>3
<1>5. ASSUME NEW p \in Proc, ProbeClose(p) \/ ReleaseClose(p) \/ Crash(p) PROVE LockInv'
  <2>1. PICK l \in {"clean_unlink", "idle", "dead"} :
            Goto(p, l) /\ (l = "clean_unlink" => pc[p] = "probe_close")
    BY <1>5 DEF ProbeClose, ReleaseClose, Crash
  <2>2. CloseFile(p) /\ UNCHANGED <<path, made, content, cleanings, parent>>
    BY <1>5 DEF ProbeClose, ReleaseClose, Crash
  <2>5. cleanings' = [cleanings EXCEPT ![p] = cleanings[p]]
    BY <1>0, <2>2 DEF TypeOK
  <2>6. seen' \in [Proc -> Proc \cup {NoProc}]
    BY <1>0, <1>5 DEF ProbeClose, ReleaseClose, Crash, TypeOK
  <2>3. l \in PC \ (Holding \cup Acquiring \cup {"probe_lock", "probe_close"})
    BY <2>1 DEF PC, Cleaning, Holding, Acquiring
  <2>4. l \in Cleaning => cleanings[p] > 0
    BY <2>1, LockInvByProcess DEF LockSound, Cleaning
  <2> QED
    BY <1>0, <2>1, <2>2, <2>3, <2>4, <2>5, <2>6, CloseLock DEF TypeOK
<1>6. ASSUME NEW p \in Proc, CleanUnlink(p) PROVE LockInv'
  <2>1. LockSound(p) /\ pc[p] = "clean_unlink" /\ cleanings[p] - 1 \in 0 .. 2
    BY <1>0, <1>6, LockInvByProcess DEF CleanUnlink, LockSound, Cleaning, TypeOK
  <2>2. PICK l \in {"clean", "create"} : Goto(p, l) /\ (l = "clean" => cleanings[p] - 1 > 0)
    <3>1. Goto(p, IF cleanings[p] > 1 THEN "clean" ELSE "create") /\ cleanings[p] \in 0 .. 2
      BY <1>0, <1>6 DEF CleanUnlink, CleanDone, TypeOK
    <3> QED
      BY <3>1
  <2>3. /\ Unlink(p) /\ cleanings' = [cleanings EXCEPT ![p] = cleanings[p] - 1]
        /\ UNCHANGED <<made, content, locked, fd, seen, parent>>
    BY <1>6 DEF CleanUnlink, CleanDone
  <2>4. /\ l \in PC \ Acquiring /\ l \notin {"lock", "probe_lock", "probe_close"}
        /\ l \in Holding <=> pc[p] \in Holding \cup {"probe_close"}
        /\ l \in Cleaning => cleanings[p] - 1 > 0
    BY <2>1, <2>2 DEF PC, Cleaning, Holding, Acquiring
  <2> QED
    BY <1>0, <2>1, <2>2, <2>3, <2>4, UnlinkLock DEF TypeOK
<1>7. ASSUME NEW p \in Proc, ReleaseUnlink(p) PROVE LockInv'
  <2>1. /\ Unlink(p) /\ pc[p] = "unlink" /\ Goto(p, "close")
        /\ cleanings' = [cleanings EXCEPT ![p] = cleanings[p]]
        /\ UNCHANGED <<made, content, locked, fd, seen, parent>>
    BY <1>0, <1>7 DEF ReleaseUnlink, TypeOK
  <2>2. /\ "close" \in PC \ Acquiring /\ "close" \notin Cleaning
        /\ "close" \in Holding <=> pc[p] \in Holding \cup {"probe_close"}
    BY <2>1 DEF PC, Cleaning, Holding, Acquiring
  <2> QED
    BY <1>0, <2>1, <2>2, UnlinkLock DEF TypeOK
<1>8. ASSUME NEW p \in Proc, ParentUnlinks(p) PROVE LockInv'
  <2>1. /\ path' = NoFile
        /\ orphaned' = orphaned \cup {q \in Proc : pc[q] \in Acquiring /\ fd[q] = path}
        /\ UNCHANGED <<made, content, locked, pc, fd, seen, cleanings>>
    BY <1>8, LockAssumption DEF ParentUnlinks, Unlink
  <2>2. parent' \in [Proc -> {"waiting", "unlink", "done"}]
    BY <1>0, <1>8 DEF ParentUnlinks, TypeOK
  <2>3. TypeOK'
    BY <1>0, <2>1, <2>2 DEF TypeOK
  <2>4. ASSUME NEW q \in Proc, q \notin orphaned', pc[q] \in Acquiring
        PROVE  q \notin orphaned /\ path' = path
    <3>1. q \notin orphaned /\ fd[q] # path
      BY <2>1, <2>4
    <3> QED
      BY <2>4, <3>1, LockInvByProcess DEF LockSound
  <2>5. Owns(p)' /\ LockSound(p)'
    <3>1. Owns(p) /\ LockSound(p)
      BY LockInvByProcess
    <3> QED
      BY <2>1, <2>4, <3>1 DEF Owns, LockSound
  <2> QED
    BY <2>1, <2>3, <2>4, <2>5, StepKeeps
<1>9. ASSUME NEW p \in Proc, ParentReads(p) PROVE LockInv'
  <2>1. UNCHANGED <<path, made, content, locked, pc, fd, seen, cleanings, orphaned>>
    BY <1>9 DEF ParentReads
  <2>2. parent' \in [Proc -> {"waiting", "unlink", "done"}]
    BY <1>0, <1>9 DEF ParentReads, TypeOK
  <2> QED
    BY <1>0, <2>1, <2>2 DEF LockInv, TypeOK, HolderHasLock, NoOrphanLock, LockSound
<1> QED
  BY <1>1, <1>2, <1>3, <1>4, <1>5, <1>6, <1>7, <1>8, <1>9
    DEF Next, OpenStep, ReleaseStep, QuietStep

\* Files, locks and the lock file's name always agree with where each process
\* is: the inductive invariant of acquire_mcp_lock, release_mcp_lock,
\* clean_stale_mcp_lock and remove_mcp_lock_for_pid.
THEOREM LockInvariant == Spec => []LockInv
BY LockInit, LockNext, PTL DEF Spec

\* For every number of processes and crashes, a process past acquire_mcp_lock
\* has the fcntl lock of its file, and no lock outlives its process: a crashed
\* worker never blocks the next open.
THEOREM LocksAreOwned == Spec => [](HolderHasLock /\ NoOrphanLock)
<1>1. LockInv => HolderHasLock /\ NoOrphanLock
  BY DEF LockInv
<1> QED
  BY <1>1, LockInvariant, PTL

\* For every number of processes, two of them have the database open only if
\* somebody removed the lock file of one of them by name: without the removals
\* in release_mcp_lock, clean_stale_mcp_lock and remove_mcp_lock_for_pid that
\* race with an open, the lock excludes.
THEOREM ExclusionHolds == Spec => []ExclusionUnlessOrphaned
<1>1. LockInv => ExclusionUnlessOrphaned
  <2> SUFFICES ASSUME LockInv, NEW p \in Proc, NEW q \in Proc,
                      pc[p] \in InDatabase, pc[q] \in InDatabase,
                      p \notin orphaned, q \notin orphaned
               PROVE  p = q
    BY DEF ExclusionUnlessOrphaned
  <2>1. fd[p] = path /\ fd[q] = path
    BY DEF LockInv, LockSound, InDatabase, Acquiring
  <2>2. locked[fd[p]] = p /\ locked[fd[q]] = q
    BY DEF LockInv, HolderHasLock, InDatabase, Holding
  <2> QED
    BY <2>1, <2>2
<1> QED
  BY <1>1, LockInvariant, PTL
-----------------------------------------------------------------------------
\* p accounts for the lock file's name: it has that very file open on its way
\* to an open database, or is about to remove the name because the file had
\* no pid, or died before it could.
Uses(p) ==
    \/ pc[p] \in Acquiring \cup {"probe_close"} /\ fd[p] = path
    \/ pc[p] = "clean_unlink" /\ seen[p] = NoProc
    \/ pc[p] = "dead"

\* A process that is past the remove_file of release_mcp_lock has a file
\* which the name can never refer to again: inodes are not used twice.
FileSound(q) == fd[q] <= made /\ (pc[q] = "close" => fd[q] # path)

\* The inductive invariant behind LockFileHasUser.
FileInv ==
    /\ path <= made
    /\ \A q \in Proc : FileSound(q)
    /\ path # NoFile => \E q \in Proc : Uses(q)

\* A step of p keeps FileInv when somebody accounts for the name after it.
LEMMA FileStep ==
    ASSUME LockInv, LockInv', FileInv, NEW p \in Proc,
           \A q \in Proc \ {p} : pc'[q] = pc[q] /\ fd'[q] = fd[q] /\ seen'[q] = seen[q],
           FileSound(p)',
           \/ path' \in {path, NoFile} /\ made' = made
           \/ path = NoFile /\ made' = made + 1 /\ path' = made',
           \/ path' = NoFile
           \/ Uses(p)'
           \/ path' = path /\ ~Uses(p)
           \/ path' = path /\ \E q \in Proc \ {p} : Uses(q)
    PROVE  FileInv'
<1>1. /\ made \in Nat /\ path \in Nat /\ \A q \in Proc : fd[q] \in Nat
      /\ \A q \in Proc : pc[q] = "close" => fd[q] # NoFile
  BY LockAssumption DEF LockInv, TypeOK, Inode, NoFile, HolderHasLock, Holding
<1>2. path' <= made'
  BY <1>1 DEF FileInv, NoFile
<1>3. \A q \in Proc \ {p} : FileSound(q)'
  BY <1>1 DEF FileInv, FileSound, NoFile
<1>4. ASSUME path' # NoFile PROVE \E q \in Proc : Uses(q)'
  <2>1. CASE Uses(p)'
    BY <2>1
  <2>2. CASE ~ Uses(p)'
    <3>1. path' = path /\ \E q \in Proc \ {p} : Uses(q)
      BY <1>4, <2>2 DEF FileInv
    <3>2. PICK q \in Proc \ {p} : Uses(q)
      BY <3>1
    <3>3. Uses(q)'
      BY <3>1, <3>2 DEF Uses
    <3> QED
      BY <3>3
  <2> QED
    BY <2>1, <2>2
<1> QED
  BY <1>2, <1>3, <1>4 DEF FileInv

\* Every operation leaves somebody who accounts for the lock file: a failed
\* try_lock_file because the holder of the lock does, clean_stale_mcp_lock
\* leaves the file of a running process alone because that one does.
LEMMA FileNext == LockInv /\ LockInv' /\ FileInv /\ [Next]_vars => FileInv'
<1> SUFFICES ASSUME LockInv, LockInv', FileInv, [Next]_vars PROVE FileInv'
  OBVIOUS
<1>0. /\ TypeOK /\ TypeOK' /\ made \in Nat /\ path \in Nat /\ path <= made
      /\ \A q \in Proc : FileSound(q) /\ fd[q] \in Nat
      /\ \A q \in Proc : (pc[q] = "close" => fd[q] # NoFile)'
  BY LockAssumption DEF LockInv, TypeOK, FileInv, Inode, NoFile, HolderHasLock, Holding
<1>1. CASE UNCHANGED vars
  BY <1>1 DEF vars, FileInv, FileSound, Uses
<1>2. ASSUME NEW p \in Proc,
             \/ \E force \in Forces : StartOpen(p, force)
             \/ CleanRead(p) \/ CleanKeep(p)
      PROVE  FileInv'
  <2>1. /\ UNCHANGED <<path, made, fd>> /\ ~ Uses(p)
        /\ \A q \in Proc \ {p} : seen'[q] = seen[q]
    BY <1>0, <1>2, LockAssumption
      DEF StartOpen, CleanRead, CleanKeep, Uses, Acquiring, Running, TypeOK
  <2>2. (\A q \in Proc \ {p} : pc'[q] = pc[q]) /\ pc'[p] # "close"
    BY <1>0, <1>2 DEF StartOpen, CleanRead, CleanKeep, CleanDone, Goto, TypeOK
  <2> QED
    BY <1>0, <2>1, <2>2, FileStep DEF FileSound
<1>3. ASSUME NEW p \in Proc, ProbeOpen(p) PROVE FileInv'
  <2>1. /\ UNCHANGED <<path, made, seen>> /\ ~ Uses(p)
        /\ \A q \in Proc \ {p} : fd'[q] = fd[q]
        /\ fd'[p] \in {fd[p], path}
    BY <1>0, <1>3 DEF ProbeOpen, Uses, Acquiring, TypeOK
  <2>2. (\A q \in Proc \ {p} : pc'[q] = pc[q]) /\ pc'[p] # "close"
    BY <1>0, <1>3 DEF ProbeOpen, CleanDone, Goto, TypeOK
  <2> QED
    BY <1>0, <2>1, <2>2, FileStep DEF FileSound
<1>4. ASSUME NEW p \in Proc, ProbeLock(p) PROVE FileInv'
  <2>1. /\ UNCHANGED <<path, made, seen>> /\ ~ Uses(p)
        /\ \A q \in Proc \ {p} : fd'[q] = fd[q]
        /\ fd'[p] \in {fd[p], NoFile}
    BY <1>0, <1>4 DEF ProbeLock, CloseFile, Uses, Acquiring, TypeOK
  <2>2. (\A q \in Proc \ {p} : pc'[q] = pc[q]) /\ pc'[p] # "close"
    BY <1>0, <1>4 DEF ProbeLock, CleanDone, Goto, TypeOK
  <2> QED
    BY <1>0, <2>1, <2>2, FileStep DEF FileSound, NoFile
<1>5. ASSUME NEW p \in Proc, ProbeClose(p) \/ Crash(p) \/ ReleaseClose(p) PROVE FileInv'
  <2>1. /\ UNCHANGED <<path, made>>
        /\ \A q \in Proc \ {p} : fd'[q] = fd[q] /\ pc'[q] = pc[q] /\ seen'[q] = seen[q]
        /\ fd'[p] = NoFile /\ pc'[p] # "close"
    BY <1>0, <1>5 DEF ProbeClose, Crash, ReleaseClose, CloseFile, Goto, TypeOK
  <2>2. Uses(p)' \/ ~ Uses(p)
    BY <1>0, <1>5 DEF ProbeClose, Crash, ReleaseClose, Goto, TypeOK, Uses, Acquiring
  <2> QED
    BY <1>0, <2>1, <2>2, FileStep DEF FileSound, NoFile
<1>6. ASSUME NEW p \in Proc, CleanUnlink(p) \/ ReleaseUnlink(p) PROVE FileInv'
  <2>1. path' = NoFile /\ UNCHANGED <<made, fd, seen>>
    BY <1>6 DEF CleanUnlink, ReleaseUnlink, Unlink
  <2>2. \A q \in Proc \ {p} : pc'[q] = pc[q]
    BY <1>0, <1>6 DEF CleanUnlink, ReleaseUnlink, CleanDone, Goto, TypeOK
  <2> QED
    BY <1>0, <2>1, <2>2, FileStep DEF FileSound
<1>7. ASSUME NEW p \in Proc, ParentUnlinks(p) PROVE FileInv'
  <2>1. path' = NoFile /\ UNCHANGED <<made, fd, seen, pc>>
    BY <1>7 DEF ParentUnlinks, Unlink
  <2> QED
    BY <1>0, <2>1, FileStep DEF FileSound
<1>8. ASSUME NEW p \in Proc, CreateLockFile(p) PROVE FileInv'
  <2>1. /\ UNCHANGED seen /\ pc'[p] = "lock" /\ fd'[p] = path'
        /\ \A q \in Proc \ {p} : fd'[q] = fd[q] /\ pc'[q] = pc[q]
        /\ \/ path' = path /\ made' = made
           \/ path = NoFile /\ made' = made + 1 /\ path' = made'
    BY <1>0, <1>8 DEF CreateLockFile, Goto, TypeOK
  <2>2. Uses(p)' /\ path' <= made'
    BY <1>0, <2>1 DEF Uses, Acquiring
  <2> QED
    BY <1>0, <2>1, <2>2, FileStep DEF FileSound
<1>9. ASSUME NEW p \in Proc, TryLockFile(p), locked[fd[p]] # NoProc PROVE FileInv'
  <2>1. /\ UNCHANGED <<path, made, seen>> /\ fd'[p] = NoFile /\ pc'[p] = "idle" /\ pc[p] = "lock"
        /\ \A q \in Proc \ {p} : fd'[q] = fd[q] /\ pc'[q] = pc[q]
    BY <1>0, <1>9 DEF TryLockFile, CloseFile, Goto, TypeOK
  <2>2. ASSUME fd[p] = path PROVE \E q \in Proc \ {p} : Uses(q)
    <3> DEFINE q == locked[fd[p]]
    <3>1. fd[p] \in Inode
      BY <2>1 DEF LockInv, LockSound
    <3>2. q \in Proc /\ pc[q] \in Holding \cup {"probe_close"} /\ fd[q] = fd[p]
      BY <1>0, <1>9, <3>1 DEF LockInv, NoOrphanLock, TypeOK
    <3>3. pc[q] # "close" /\ q # p
      BY <1>0, <2>1, <2>2, <3>2 DEF FileSound, Holding
    <3>4. Uses(q)
      BY <2>2, <3>2, <3>3 DEF Uses, Holding, Acquiring
    <3> QED
      BY <3>2, <3>3, <3>4
  <2>3. ~ Uses(p) \/ \E q \in Proc \ {p} : Uses(q)
    BY <2>1, <2>2 DEF Uses
  <2> QED
    BY <1>0, <2>1, <2>3, FileStep DEF FileSound, NoFile
<1>10. ASSUME NEW p \in Proc,
              \/ TryLockFile(p) /\ locked[fd[p]] = NoProc
              \/ TruncateLockFile(p) \/ WritePid(p)
              \/ OpenSucceeds(p) \/ OpenFails(p) \/ CloseDatabase(p)
       PROVE  FileInv'
  <2>1. /\ UNCHANGED <<path, made, fd, seen>>
        /\ pc[p] \in Acquiring
    BY <1>10 DEF TryLockFile, TruncateLockFile, WritePid, OpenSucceeds, OpenFails,
                 CloseDatabase, Acquiring
  <2>2. (\A q \in Proc \ {p} : pc'[q] = pc[q]) /\ pc'[p] \in Acquiring /\ pc'[p] # "close"
    BY <1>0, <1>10 DEF TryLockFile, TruncateLockFile, WritePid, OpenSucceeds, OpenFails,
                 CloseDatabase, Acquiring, Goto, TypeOK
  <2>3. Uses(p)' \/ ~ Uses(p)
    BY <2>1, <2>2 DEF Uses, Acquiring
  <2> QED
    BY <1>0, <2>1, <2>2, <2>3, FileStep DEF FileSound
<1>11. ASSUME NEW p \in Proc, ParentReads(p) PROVE FileInv'
  BY <1>11 DEF ParentReads, FileInv, FileSound, Uses
<1> QED
  BY <1>1, <1>2, <1>3, <1>4, <1>5, <1>6, <1>7, <1>8, <1>9, <1>10, <1>11
    DEF Next, OpenStep, ReleaseStep

\* The lock file's name is always accounted for.
THEOREM FileInvariant == Spec => []FileInv
<1>1. Init => FileInv
  BY DEF Init, FileInv, FileSound, NoFile
<1> QED
  BY <1>1, FileNext, LockInvariant, PTL DEF Spec

\* For every number of processes: as long as none of them dies, the lock file
\* is there only while one of them opens or has the database, or is about to
\* remove the file.  Failed and cancelled opens, failed lock attempts, closes
\* and forced cleanings leave no lock file that nobody will remove.
THEOREM LockFilesHaveUsers == Spec => []LockFileHasUser
<1>1. FileInv => LockFileHasUser
  BY DEF FileInv, LockFileHasUser, Uses
<1> QED
  BY <1>1, FileInvariant, PTL
=============================================================================
