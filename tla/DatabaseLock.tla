---------------------------- MODULE DatabaseLock ----------------------------
(***************************************************************************)
(* The lock file beside an IDA database (src/src/ida/lock.rs), used by the *)
(* worker processes that open and close one database                       *)
(* (handle_open in src/src/ida/handlers/database.rs, the Close and         *)
(* Shutdown requests in src/src/ida/loop_impl.rs) and by the parent that   *)
(* cleans up after a worker it killed (finish_dead_worker in pool.rs).     *)
(*                                                                         *)
(* A lock file is an inode; `path' says which inode the .imcp name refers  *)
(* to.  fcntl locks belong to a process and an inode.  One system call is  *)
(* one step.                                                               *)
(***************************************************************************)
EXTENDS Naturals, FiniteSets

CONSTANTS
    Proc,        \* the worker processes; a process that died never comes back
    NoProc,      \* no process: an unlocked inode, a file without a pid
    Forces,      \* the values of open_idb's force argument
    MaxInode     \* bound on the lock files that are created

ASSUME LockAssumption ==
    NoProc \notin Proc /\ Forces \subseteq BOOLEAN /\ MaxInode \in Nat

Inode == 1 .. MaxInode
NoFile == 0

VARIABLES
    path,        \* the inode the lock file's name refers to, or NoFile
    made,        \* how many inodes were created
    content,     \* the pid a lock file holds, NoProc when it has none
    locked,      \* the process that holds the fcntl lock of an inode
    pc,          \* where each process is in handle_open or in the release
    fd,          \* the inode of the File a process has open
    seen,        \* the pid that clean_stale_mcp_lock read
    cleanings,   \* candidates that clean_stale_mcp_lock still has to visit
    parent,      \* the parent's remove_mcp_lock_for_pid for each process
    orphaned     \* history: processes whose lock file somebody else removed

vars == <<path, made, content, locked, pc, fd, seen, cleanings, parent, orphaned>>

\* The steps at which a process holds the lock, and has the database open.
Holding == {"truncate", "write", "opening", "open", "unlink", "close"}
InDatabase == {"opening", "open"}
\* The steps between the open of the lock file and its removal by its owner.
Acquiring == {"lock", "truncate", "write", "opening", "open", "unlink"}
Cleaning == {"clean", "probe", "probe_lock", "probe_close", "clean_unlink"}
PC == Holding \cup Cleaning \cup {"idle", "create", "lock", "dead"}

\* Type invariant.
TypeOK ==
    /\ path \in Inode \cup {NoFile}
    /\ made \in 0 .. MaxInode
    /\ content \in [Inode -> Proc \cup {NoProc}]
    /\ locked \in [Inode -> Proc \cup {NoProc}]
    /\ pc \in [Proc -> PC]
    /\ fd \in [Proc -> Inode \cup {NoFile}]
    /\ seen \in [Proc -> Proc \cup {NoProc}]
    /\ cleanings \in [Proc -> 0 .. 2]
    /\ parent \in [Proc -> {"waiting", "unlink", "done"}]
    /\ orphaned \in SUBSET Proc

Init ==
    /\ path = NoFile
    /\ made = 0
    /\ content = [i \in Inode |-> NoProc]
    /\ locked = [i \in Inode |-> NoProc]
    /\ pc = [p \in Proc |-> "idle"]
    /\ fd = [p \in Proc |-> NoFile]
    /\ seen = [p \in Proc |-> NoProc]
    /\ cleanings = [p \in Proc |-> 0]
    /\ parent = [p \in Proc |-> "waiting"]
    /\ orphaned = {}

-----------------------------------------------------------------------------
(* Operating system.                                                       *)

Goto(p, label) == pc' = [pc EXCEPT ![p] = label]

\* remove_file(path) by p, or by the parent (NoProc); the result is ignored.
Unlink(p) ==
    /\ path' = NoFile
    /\ orphaned' = orphaned \cup {q \in Proc \ {p} : pc[q] \in Acquiring /\ fd[q] = path}

\* Closing any descriptor of an inode gives up the process's lock on it.
CloseFile(p) ==
    /\ fd' = [fd EXCEPT ![p] = NoFile]
    /\ locked' = [i \in Inode |-> IF i = fd[p] /\ locked[i] = p
                                  THEN NoProc ELSE locked[i]]
    /\ orphaned' = orphaned \ {p}

\* is_process_running: kill(pid, 0) succeeds.
Running == {p \in Proc : pc[p] # "dead"}

-----------------------------------------------------------------------------
(* handle_open.                                                            *)

\* No database is open.  With force the stale locks of the lock target and
\* of the input path are cleaned first; the two can have one lock file.
StartOpen(p, force) ==
    /\ pc[p] = "idle"
    /\ Goto(p, IF force THEN "clean" ELSE "create")
    /\ \E n \in 1 .. 2 : cleanings' = [cleanings EXCEPT ![p] = IF force THEN n ELSE 0]
    /\ UNCHANGED <<path, made, content, locked, fd, seen, parent, orphaned>>

\* clean_stale_mcp_lock is over for this candidate.
CleanDone(p) ==
    /\ cleanings' = [cleanings EXCEPT ![p] = @ - 1]
    /\ Goto(p, IF cleanings[p] > 1 THEN "clean" ELSE "create")

\* clean_stale_mcp_lock: exists and read_lock_file_pid.
CleanRead(p) ==
    /\ pc[p] = "clean"
    /\ IF path = NoFile
       THEN CleanDone(p) /\ UNCHANGED seen
       ELSE /\ seen' = [seen EXCEPT ![p] = content[path]]
            /\ Goto(p, IF content[path] = NoProc THEN "probe" ELSE "clean_unlink")
            /\ UNCHANGED cleanings
    /\ UNCHANGED <<path, made, content, locked, fd, parent, orphaned>>

\* clean_stale_mcp_lock: the file has no pid, so it is opened ...
ProbeOpen(p) ==
    /\ pc[p] = "probe"
    /\ IF path = NoFile
       THEN CleanDone(p) /\ UNCHANGED fd
       ELSE /\ fd' = [fd EXCEPT ![p] = path]
            /\ Goto(p, "probe_lock")
            /\ UNCHANGED cleanings
    /\ UNCHANGED <<path, made, content, locked, seen, parent, orphaned>>

\* ... locked; when somebody else has the lock it is not stale ...
ProbeLock(p) ==
    /\ pc[p] = "probe_lock"
    /\ IF locked[fd[p]] = NoProc
       THEN /\ locked' = [locked EXCEPT ![fd[p]] = p]
            /\ Goto(p, "probe_close")
            /\ UNCHANGED <<fd, cleanings, orphaned>>
       ELSE CloseFile(p) /\ CleanDone(p)
    /\ UNCHANGED <<path, made, content, seen, parent>>

\* ... closed, and then removed by name.
ProbeClose(p) ==
    /\ pc[p] = "probe_close"
    /\ CloseFile(p)
    /\ seen' = [seen EXCEPT ![p] = NoProc]
    /\ Goto(p, "clean_unlink")
    /\ UNCHANGED <<path, made, content, cleanings, parent>>

\* clean_stale_mcp_lock: the lock of a running process is left alone.
CleanKeep(p) ==
    /\ pc[p] = "clean_unlink"
    /\ seen[p] \in Running
    /\ CleanDone(p)
    /\ UNCHANGED <<path, made, content, locked, fd, seen, parent, orphaned>>

\* clean_stale_mcp_lock: a stale lock is removed.
CleanUnlink(p) ==
    /\ pc[p] = "clean_unlink"
    /\ seen[p] \notin Running
    /\ Unlink(p)
    /\ CleanDone(p)
    /\ UNCHANGED <<made, content, locked, fd, seen, parent>>

\* acquire_mcp_lock: open the lock file, creating it when it is not there.
CreateLockFile(p) ==
    /\ pc[p] = "create"
    /\ IF path # NoFile
       THEN fd' = [fd EXCEPT ![p] = path] /\ UNCHANGED <<path, made>>
       ELSE /\ made < MaxInode
            /\ made' = made + 1
            /\ path' = made + 1
            /\ fd' = [fd EXCEPT ![p] = made + 1]
    /\ Goto(p, "lock")
    /\ UNCHANGED <<content, locked, seen, cleanings, parent, orphaned>>

\* Mutant: the result of try_lock_file is ignored.
LockWithoutCheck(p) ==
    /\ pc[p] = "lock"
    /\ Goto(p, "truncate")
    /\ locked' = [locked EXCEPT ![fd[p]] = IF @ = NoProc THEN p ELSE @]
    /\ UNCHANGED <<path, made, content, fd, seen, cleanings, parent, orphaned>>

\* acquire_mcp_lock: try_lock_file; DatabaseLocked when another process has it.
TryLockFile(p) ==
    /\ pc[p] = "lock"
    /\ IF locked[fd[p]] = NoProc
       THEN /\ locked' = [locked EXCEPT ![fd[p]] = p]
            /\ Goto(p, "truncate")
            /\ UNCHANGED <<fd, orphaned>>
       ELSE CloseFile(p) /\ Goto(p, "idle")
    /\ UNCHANGED <<path, made, content, seen, cleanings, parent>>

\* acquire_mcp_lock: set_len(0).
TruncateLockFile(p) ==
    /\ pc[p] = "truncate"
    /\ content' = [content EXCEPT ![fd[p]] = NoProc]
    /\ Goto(p, "write")
    /\ UNCHANGED <<path, made, locked, fd, seen, cleanings, parent, orphaned>>

\* acquire_mcp_lock: write_all of the pid.
WritePid(p) ==
    /\ pc[p] = "write"
    /\ content' = [content EXCEPT ![fd[p]] = p]
    /\ Goto(p, "opening")
    /\ UNCHANGED <<path, made, locked, fd, seen, cleanings, parent, orphaned>>

\* IDA opens the database and no cancellation is pending.
OpenSucceeds(p) ==
    /\ pc[p] = "opening"
    /\ Goto(p, "open")
    /\ UNCHANGED <<path, made, content, locked, fd, seen, cleanings, parent, orphaned>>

\* Mutant: a failed open closes the lock file and leaves it there.
OpenFailsKeepsFile(p) ==
    /\ pc[p] = "opening"
    /\ Goto(p, "close")
    /\ UNCHANGED <<path, made, content, locked, fd, seen, cleanings, parent, orphaned>>

\* IDA fails (release_mcp_lock_file), or the open is cancelled and the
\* database and then the McpLock are dropped: both unlink, then close.
OpenFails(p) ==
    /\ pc[p] = "opening"
    /\ Goto(p, "unlink")
    /\ UNCHANGED <<path, made, content, locked, fd, seen, cleanings, parent, orphaned>>

-----------------------------------------------------------------------------
(* Close, CloseIfGeneration and Shutdown drop the database first.          *)

CloseDatabase(p) ==
    /\ pc[p] = "open"
    /\ Goto(p, "unlink")
    /\ UNCHANGED <<path, made, content, locked, fd, seen, cleanings, parent, orphaned>>

\* release_mcp_lock: the name goes first ...
ReleaseUnlink(p) ==
    /\ pc[p] = "unlink"
    /\ Unlink(p)
    /\ Goto(p, "close")
    /\ UNCHANGED <<made, content, locked, fd, seen, cleanings, parent>>

\* ... and the lock with the file.
ReleaseClose(p) ==
    /\ pc[p] = "close"
    /\ CloseFile(p)
    /\ Goto(p, "idle")
    /\ UNCHANGED <<path, made, content, seen, cleanings, parent>>

-----------------------------------------------------------------------------
(* A process dies at any point; the kernel closes its files.               *)

Crash(p) ==
    /\ pc[p] # "dead"
    /\ CloseFile(p)
    /\ Goto(p, "dead")
    /\ UNCHANGED <<path, made, content, seen, cleanings, parent>>

\* remove_mcp_lock_for_pid, called by the parent of a dead worker: the file is
\* read ...
ParentReads(p) ==
    /\ pc[p] = "dead" /\ parent[p] = "waiting"
    /\ parent' = [parent EXCEPT ![p] = IF path # NoFile /\ content[path] = p
                                       THEN "unlink" ELSE "done"]
    /\ UNCHANGED <<path, made, content, locked, pc, fd, seen, cleanings, orphaned>>

\* ... and removed by name when it has the worker's pid.
ParentUnlinks(p) ==
    /\ parent[p] = "unlink"
    /\ Unlink(NoProc)
    /\ parent' = [parent EXCEPT ![p] = "done"]
    /\ UNCHANGED <<made, content, locked, pc, fd, seen, cleanings>>

-----------------------------------------------------------------------------
OpenStep(p) ==
    \/ CleanRead(p) \/ ProbeOpen(p) \/ ProbeLock(p) \/ ProbeClose(p)
    \/ CleanKeep(p) \/ CleanUnlink(p)
    \/ CreateLockFile(p) \/ TryLockFile(p) \/ TruncateLockFile(p) \/ WritePid(p)
    \/ OpenSucceeds(p) \/ OpenFails(p)
ReleaseStep(p) == ReleaseUnlink(p) \/ ReleaseClose(p)

Next == \E p \in Proc :
    \/ \E force \in Forces : StartOpen(p, force)
    \/ OpenStep(p)
    \/ CloseDatabase(p)
    \/ ReleaseStep(p)
    \/ Crash(p)
    \/ ParentReads(p)
    \/ ParentUnlinks(p)

Spec == Init /\ [][Next]_vars

-----------------------------------------------------------------------------
(* Properties.                                                             *)

\* A process that got through acquire_mcp_lock has the fcntl lock of its lock
\* file until it closes the file, whatever happens to the name meanwhile.
HolderHasLock ==
    \A p \in Proc : pc[p] \in Holding => fd[p] \in Inode /\ locked[fd[p]] = p

\* A lock belongs to a live process that has the file open: the lock of a
\* crashed worker never blocks the next open, with or without force.
NoOrphanLock ==
    \A i \in Inode : locked[i] # NoProc =>
        /\ pc[locked[i]] \in Holding \cup {"probe_close"}
        /\ fd[locked[i]] = i

\* At most one process has the database open (or is opening it).
MutualExclusion ==
    \A p, q \in Proc : pc[p] \in InDatabase /\ pc[q] \in InDatabase => p = q

\* Only the removal of a lock file by another process, after its owner opened
\* it, lets two processes into the database.
ExclusionUnlessOrphaned ==
    \A p, q \in Proc :
        pc[p] \in InDatabase /\ pc[q] \in InDatabase /\ p # q =>
            p \in orphaned \/ q \in orphaned

\* What pc says about fd and locked, and which file the name refers to as long
\* as nobody else removed it.
LockSound(q) ==
    /\ pc[q] \in {"lock", "probe_lock", "probe_close"} => fd[q] \in Inode
    /\ pc[q] \in Cleaning => cleanings[q] > 0
    /\ pc[q] = "probe_close" => locked[fd[q]] = q
    /\ pc[q] \in Acquiring /\ q \notin orphaned => fd[q] = path

\* The inductive invariant behind HolderHasLock, NoOrphanLock and
\* ExclusionUnlessOrphaned: files, locks and the lock file's name agree with
\* where each process is in handle_open and release_mcp_lock.
LockInv == TypeOK /\ HolderHasLock /\ NoOrphanLock /\ \A q \in Proc : LockSound(q)

\* Without crashes the lock file does not outlive the processes that use it:
\* failed and cancelled opens, failed lock attempts and closes remove it.
LockFileHasUser ==
    path # NoFile =>
        \E p \in Proc : pc[p] \in Acquiring \cup {"probe_close", "clean_unlink", "dead"}
=============================================================================
