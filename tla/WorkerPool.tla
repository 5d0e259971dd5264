----------------------------- MODULE WorkerPool -----------------------------
(***************************************************************************)
(* The pool of child worker processes behind pooled HTTP mode and the      *)
(* sessions that lease them (src/src/ida/pool.rs).                         *)
(*                                                                         *)
(* Every async request, and every job handed to the executor by a Drop     *)
(* implementation, runs in a slot of Task.  One step of a task is the code *)
(* between two awaits that another task can observe.  The critical         *)
(* sections under PoolInner's lock are single steps.  So is what one child *)
(* lock protects.  The two locks held across awaits are variables: a       *)
(* slot's call_lock and a session's handle lock.                           *)
(***************************************************************************)
EXTENDS Integers, FiniteSets

CONSTANTS Session, NoSession, Task, NoTask,
          MaxWorkers, MinWorkers, \* WorkerPoolConfig
          IdleReap,               \* worker_idle_timeout is not zero
          SpawnMayFail,           \* whether spawn_slot can return an error
          ServerStops,            \* whether the server is shut down
          MaxSpawns,              \* bound on next_id
          MaxGeneration,          \* bound on next_database_generation
          MaxInFlight,            \* bound on the requests a session has running
          MaxDrops                \* bound on the request futures dropped

Lesser(a, b) == IF a < b THEN a ELSE b
Min == Lesser(MinWorkers, MaxWorkers)

ASSUME PoolAssumption ==
  /\ MaxWorkers \in Nat /\ MinWorkers \in Nat
  /\ {IdleReap, SpawnMayFail, ServerStops} \subseteq BOOLEAN
  /\ MaxSpawns \in Nat /\ Min =< MaxSpawns
  /\ MaxGeneration \in Nat /\ MaxInFlight \in Nat /\ MaxDrops \in Nat
  /\ NoSession \notin Session /\ NoTask \notin Task

Worker == 0..(MaxSpawns - 1)
NoWorker == -1
Generation == 1..MaxGeneration

\* ChildState.  Unborn is an id that no slot has yet.
Child(tag, s) == [tag |-> tag, session |-> s]
Unborn == Child("Unborn", NoSession)
Idle == Child("Idle", NoSession)
Leased(s) == Child("Leased", s)
Closing == Child("Closing", NoSession)
Dead == Child("Dead", NoSession)
ChildState == {Unborn, Idle, Closing, Dead} \cup {Leased(s) : s \in Session}

\* PooledDatabaseLease, held in PooledSessionState.handle.
Lease(w, g) == [worker |-> w, generation |-> g]
NoLease == Lease(NoWorker, 0)

(***************************************************************************)
(* A task.  op is the request it serves: "open" an open that makes the     *)
(* session's lease (fresh_lease), "reopen" one that finds a lease, "job"   *)
(* an executor job.  s and w are the session and worker it works for, g is *)
(* the generation a call is bound to (0: none) or an open's lease will     *)
(* have, n the id it reserved, and caller where a running mark_dead        *)
(* returns to:                                                             *)
(*   "call"     inside call_tool, call_lock held, guard armed              *)
(*   "release"  inside release_inner, call_lock held, guard armed          *)
(*   "tool"     after a child error that retires the worker                *)
(*   "job"      a spawned task                                             *)
(*   "final"    a retirement that replenishes nothing                      *)
(***************************************************************************)
Requests == {"open", "reopen", "call", "close"}
Opens == {"open", "reopen"}
Ops == Requests \cup {"job", "none"}
Callers == {"call", "release", "tool", "job", "final", "none"}
PCs == {"idle", "spawn", "install", "call", "rpc", "path", "clear",
        "relcur", "release", "closing", "sched",
        "take", "forget", "forgetNone", "finish", "ensure"}
TaskState ==
  [pc : PCs, op : Ops, s : Session \cup {NoSession},
   w : Worker \cup {NoWorker}, g : 0..MaxGeneration,
   n : Worker \cup {NoWorker}, caller : Callers]
TaskAt(pc, op, s, w, g, n, caller) ==
  [pc |-> pc, op |-> op, s |-> s, w |-> w, g |-> g, n |-> n, caller |-> caller]
IdleTask == TaskAt("idle", "none", NoSession, NoWorker, 0, NoWorker, "none")

\* A job an executor has been given and not started.
Job(kind, w, s) == [kind |-> kind, w |-> w, s |-> s]
JobSet == [kind : {"retire", "unreserve", "discard", "shutdown"},
           w : Worker, s : Session \cup {NoSession}]
          \cup [kind : {"drop"}, w : {NoWorker}, s : Session]

VARIABLES children, spawning, nextId,        \* PoolInner
          state, idbPath, process, callLock, \* ChildSlot and PooledChild
          reaper,                            \* a timely reaper sleeps
          handle, handleLock, nextGeneration, alive, \* PooledSessionState
          task, jobs, drops, down

innerVars == <<children, spawning, nextId>>
slotVars == <<state, idbPath, process, reaper>>
sessionVars == <<handle, nextGeneration, alive>>
lockVars == <<callLock, handleLock>>
envVars == <<jobs, drops, down>>
vars == <<innerVars, slotVars, sessionVars, lockVars, task, envVars>>

Live == {w \in children : state[w] # Dead}
Active == Cardinality(spawning) + Cardinality(Live)
InFlight(s) == {t \in Task : task[t].op \in Requests /\ task[t].s = s}
Retiring == {"take", "forget", "forgetNone", "finish", "ensure"}

Goto(t, p) == task' = [task EXCEPT ![t].pc = p]
Done(t) == task' = [task EXCEPT ![t] = IdleTask]

(* warm_min has run: the pool serves only afterwards. *)
Init ==
  /\ children = 0..(Min - 1) /\ spawning = {} /\ nextId = Min
  /\ state = [w \in Worker |-> IF w < Min THEN Idle ELSE Unborn]
  /\ idbPath = [w \in Worker |-> FALSE]
  /\ process = [w \in Worker |-> w < Min]
  /\ callLock = [w \in Worker |-> NoTask]
  /\ reaper = [w \in Worker |-> FALSE]
  /\ handle = [s \in Session |-> NoLease]
  /\ handleLock = [s \in Session |-> NoTask]
  /\ nextGeneration = [s \in Session |-> 0]
  /\ alive = [s \in Session |-> TRUE]
  /\ task = [t \in Task |-> IdleTask]
  /\ jobs = {} /\ drops = 0 /\ down = FALSE

-----------------------------------------------------------------------------
(* A request of session s starts in task t and has the handle lock. *)
Begin(t, s) ==
  /\ task[t] = IdleTask
  /\ alive[s] /\ ~down
  /\ handleLock[s] = NoTask
  /\ Cardinality(InFlight(s)) < MaxInFlight

StartTask(t, pc, op, s, w, g) ==
  task' = [task EXCEPT ![t] = TaskAt(pc, op, s, w, g, NoWorker, "none")]

(* An open of a session that already has a lease uses it again. *)
OpenOnLease(t, s) ==
  /\ Begin(t, s)
  /\ handle[s] # NoLease
  /\ StartTask(t, "call", "reopen", s, handle[s].worker, 0)
  /\ UNCHANGED <<innerVars, slotVars, sessionVars, lockVars, envVars>>

(* lease_for_open without a lease: a new generation, then pool.lease. *)
LeaseForOpen(t, s) ==
  /\ Begin(t, s)
  /\ handle[s] = NoLease
  /\ nextGeneration[s] < MaxGeneration
  /\ nextGeneration' = [nextGeneration EXCEPT ![s] = @ + 1]

(* The lease takes an idle child.  The code takes the first one in the     *)
(* children's order, the model any one.                                    *)
LeaseIdle(t, s, w) ==
  /\ LeaseForOpen(t, s)
  /\ w \in children /\ state[w] = Idle
  /\ state' = [state EXCEPT ![w] = Leased(s)]
  /\ reaper' = [reaper EXCEPT ![w] = FALSE]
  /\ handle' = [handle EXCEPT ![s] = Lease(w, nextGeneration'[s])]
  /\ StartTask(t, "call", "open", s, w, 0)
  /\ UNCHANGED <<innerVars, idbPath, process, alive, lockVars, envVars>>

NoIdleChild == \A w \in children : state[w] # Idle

LeaseExhausted(t, s) ==
  /\ LeaseForOpen(t, s)
  /\ NoIdleChild /\ Active >= MaxWorkers
  /\ children' = Live
  /\ UNCHANGED <<spawning, nextId, slotVars, handle, alive, lockVars, task, envVars>>

LeaseReserveHasRoom == Active < MaxWorkers

ReserveSpawnSlot ==
  /\ nextId < MaxSpawns
  /\ nextId' = nextId + 1
  /\ spawning' = spawning \cup {nextId}

(* The lease reserves an id, and spawns with the handle lock held. *)
LeaseReserve(t, s) ==
  /\ LeaseForOpen(t, s)
  /\ NoIdleChild /\ LeaseReserveHasRoom
  /\ children' = Live
  /\ ReserveSpawnSlot
  /\ handleLock' = [handleLock EXCEPT ![s] = t]
  /\ task' = [task EXCEPT ![t] =
                TaskAt("spawn", "open", s, NoWorker, nextGeneration'[s], nextId, "none")]
  /\ UNCHANGED <<slotVars, handle, alive, callLock, envVars>>

(* required_handle_for_generation: a call bound to generation g, or to none *)
(* (g = 0), clones the handle and lets go of the handle lock.              *)
StartCall(t, s, g) ==
  /\ Begin(t, s)
  /\ handle[s] # NoLease
  /\ g = 0 \/ g = handle[s].generation
  /\ StartTask(t, "call", "call", s, handle[s].worker, g)
  /\ UNCHANGED <<innerVars, slotVars, sessionVars, lockVars, envVars>>

\* Mutant: the handle is cloned, not taken.
CloneHandle(t, s, op) ==
  /\ StartTask(t, "release", op, s, handle[s].worker, 0)
  /\ UNCHANGED handle

(* take_handle, and what follows it in release_current_handle. *)
TakeHandle(t, s, op) ==
  /\ handle' = [handle EXCEPT ![s] = NoLease]
  /\ StartTask(t, "release", op, s, handle[s].worker, 0)

Close(t, s) ==
  /\ Begin(t, s)
  /\ handle[s] # NoLease
  /\ TakeHandle(t, s, "close")
  /\ UNCHANGED <<innerVars, slotVars, nextGeneration, alive, lockVars, envVars>>

CloseIfGeneration(t, s, g) ==
  /\ Begin(t, s)
  /\ handle[s].generation = g
  /\ TakeHandle(t, s, "close")
  /\ UNCHANGED <<innerVars, slotVars, nextGeneration, alive, lockVars, envVars>>

\* Mutant: PooledSessionState has no Drop.
DropSessionOnly(s) ==
  /\ alive[s] /\ InFlight(s) = {}
  /\ alive' = [alive EXCEPT ![s] = FALSE]
  /\ UNCHANGED <<innerVars, slotVars, handle, nextGeneration, lockVars, task, envVars>>

(* PooledSessionState is dropped once no request refers to it. *)
DropSession(s) ==
  /\ alive[s] /\ InFlight(s) = {}
  /\ alive' = [alive EXCEPT ![s] = FALSE]
  /\ jobs' = jobs \cup {Job("drop", NoWorker, s)}
  /\ UNCHANGED <<innerVars, slotVars, handle, nextGeneration, lockVars, task, drops, down>>

-----------------------------------------------------------------------------
\* Mutant: call_lock is still held on the error path after mark_dead.
MarkDeadReturnsLocked(t) ==
  LET x == task[t]
  IN /\ callLock' = callLock
     /\ task' = [task EXCEPT ![t] =
          IF x.caller = "call"
          THEN [x EXCEPT !.pc = IF x.op \in Opens THEN "relcur" ELSE "clear",
                         !.caller = "none", !.n = NoWorker]
          ELSE IdleTask]

(* mark_dead has finished: call_tool goes on to its error path and lets go *)
(* of call_lock, release_inner returns, a job ends.                        *)
MarkDeadReturns(t) ==
  LET x == task[t]
      held == x.caller \in {"call", "release"}
  IN /\ callLock' = IF held THEN [callLock EXCEPT ![x.w] = NoTask] ELSE callLock
     /\ task' = [task EXCEPT ![t] =
          IF x.caller = "call"
          THEN [x EXCEPT !.pc = IF x.op \in Opens THEN "relcur" ELSE "clear",
                         !.caller = "none", !.n = NoWorker]
          ELSE IdleTask]

(* spawn_slot returns the slot of a started process. *)
SpawnSlot(t) ==
  LET x == task[t]
  IN /\ x.pc = "spawn"
     /\ process' = [process EXCEPT ![x.n] = TRUE]
     /\ state' = [state EXCEPT ![x.n] = IF x.caller = "none" THEN Leased(x.s) ELSE Idle]
     /\ Goto(t, "install")
     /\ UNCHANGED <<innerVars, idbPath, reaper, sessionVars, lockVars, envVars>>

\* Mutant: the installed slot keeps its reservation.
InstallSlotReserved(t) ==
  LET x == task[t]
      leasing == x.caller = "none"
  IN /\ x.pc = "install"
     /\ children' = children \cup {x.n}
     /\ IF leasing
        THEN /\ handle' = [handle EXCEPT ![x.s] = Lease(x.n, x.g)]
             /\ handleLock' = [handleLock EXCEPT ![x.s] = NoTask]
             /\ StartTask(t, "call", "open", x.s, x.n, 0)
        ELSE /\ task' = [task EXCEPT ![t].pc = "ensure", ![t].n = NoWorker]
             /\ UNCHANGED <<handle, handleLock>>
     /\ UNCHANGED <<spawning, nextId, state, idbPath, process, reaper, nextGeneration,
                    alive, callLock, envVars>>

(* finish_spawn_reservation(id, Some(slot)).  A lease stores its handle;    *)
(* ensure_min_workers loops.                                               *)
InstallSlot(t) ==
  LET x == task[t]
      leasing == x.caller = "none"
  IN /\ x.pc = "install"
     /\ spawning' = spawning \ {x.n}
     /\ children' = children \cup {x.n}
     /\ IF leasing
        THEN /\ handle' = [handle EXCEPT ![x.s] = Lease(x.n, x.g)]
             /\ handleLock' = [handleLock EXCEPT ![x.s] = NoTask]
             /\ StartTask(t, "call", "open", x.s, x.n, 0)
        ELSE /\ task' = [task EXCEPT ![t].pc = "ensure", ![t].n = NoWorker]
             /\ UNCHANGED <<handle, handleLock>>
     /\ UNCHANGED <<nextId, state, idbPath, process, reaper, nextGeneration, alive,
                    callLock, envVars>>

(* finish_spawn_reservation(id, None) after a failed spawn. *)
SpawnFails(t) ==
  LET x == task[t]
  IN /\ SpawnMayFail /\ x.pc = "spawn"
     /\ spawning' = spawning \ {x.n}
     /\ IF x.caller = "none"
        THEN /\ handleLock' = [handleLock EXCEPT ![x.s] = NoTask]
             /\ Done(t) /\ UNCHANGED callLock
        ELSE MarkDeadReturns(t) /\ UNCHANGED handleLock
     /\ UNCHANGED <<children, nextId, slotVars, sessionVars, envVars>>

-----------------------------------------------------------------------------
(* call_tool has call_lock and the slot is leased to this session. *)
CallDispatch(t) ==
  LET x == task[t]
  IN /\ x.pc = "call" /\ callLock[x.w] = NoTask
     /\ state[x.w] = Leased(x.s)
     /\ callLock' = [callLock EXCEPT ![x.w] = t]
     /\ Goto(t, "rpc")
     /\ UNCHANGED <<innerVars, slotVars, sessionVars, handleLock, envVars>>

(* call_tool finds the slot in another state: WorkerCrashed for Dead,      *)
(* RemoteProtocol otherwise.                                               *)
CallRefused(t) ==
  LET x == task[t]
  IN /\ x.pc = "call" /\ callLock[x.w] = NoTask
     /\ state[x.w] # Leased(x.s)
     /\ IF x.op = "call" THEN Goto(t, "clear")
        ELSE IF x.op = "open" \/ state[x.w] = Dead THEN Goto(t, "relcur")
        ELSE Done(t)
     /\ UNCHANGED <<innerVars, slotVars, sessionVars, lockVars, envVars>>

(* The child answers.  "error" is a tool error that leaves the worker      *)
(* alone, "fatal" one after which a call retires the worker and an open    *)
(* releases its lease.                                                     *)
RpcAnswer(t, answer) ==
  LET x == task[t]
  IN /\ x.pc = "rpc"
     /\ callLock' = [callLock EXCEPT ![x.w] = NoTask]
     /\ CASE x.op \in Opens /\ answer = "ok" -> Goto(t, "path")
          [] x.op \in Opens /\ answer # "ok" ->
               IF x.op = "open" \/ answer = "fatal" THEN Goto(t, "relcur") ELSE Done(t)
          [] x.op = "call" /\ answer = "fatal" ->
               task' = [task EXCEPT ![t].pc = "clear", ![t].caller = "tool"]
          [] OTHER -> Done(t)
     /\ UNCHANGED <<innerVars, slotVars, sessionVars, handleLock, envVars>>

(* Cancellation, timeout or transport error: mark_dead under call_lock. *)
RpcKill(t) ==
  /\ task[t].pc = "rpc"
  /\ task' = [task EXCEPT ![t].pc = "take", ![t].caller = "call"]
  /\ UNCHANGED <<innerVars, slotVars, sessionVars, lockVars, envVars>>

(* A successful open records the path, after call_lock is free. *)
RecordPath(t) ==
  /\ task[t].pc = "path"
  /\ idbPath' = [idbPath EXCEPT ![task[t].w] = TRUE]
  /\ Done(t)
  /\ UNCHANGED <<innerVars, state, process, reaper, sessionVars, lockVars, envVars>>

(* clear_handle_if_worker, then the mark_dead of a fatal child error. *)
ClearHandleIfWorker(t) ==
  LET x == task[t]
  IN /\ x.pc = "clear" /\ handleLock[x.s] = NoTask
     /\ handle' = IF handle[x.s].worker = x.w THEN [handle EXCEPT ![x.s] = NoLease] ELSE handle
     /\ IF x.caller = "tool" THEN Goto(t, "take") ELSE Done(t)
     /\ UNCHANGED <<innerVars, slotVars, nextGeneration, alive, lockVars, envVars>>

\* Mutant: the handle is taken and thrown away.
ForgetCurrentHandle(t) ==
  LET x == task[t]
  IN /\ x.pc = "relcur" /\ handleLock[x.s] = NoTask
     /\ handle' = [handle EXCEPT ![x.s] = NoLease]
     /\ Done(t)
     /\ UNCHANGED <<innerVars, slotVars, nextGeneration, alive, lockVars, envVars>>

(* release_current_handle of a failed open, or of a dropped session. *)
ReleaseCurrentHandle(t) ==
  LET x == task[t]
  IN /\ x.pc = "relcur" /\ handleLock[x.s] = NoTask
     /\ IF handle[x.s] = NoLease
        THEN Done(t) /\ UNCHANGED handle
        ELSE TakeHandle(t, x.s, x.op)
     /\ UNCHANGED <<innerVars, slotVars, nextGeneration, alive, lockVars, envVars>>

-----------------------------------------------------------------------------
(* release_inner on a slot that died meanwhile has nothing to do. *)
ReleaseDead(t) ==
  LET x == task[t]
  IN /\ x.pc = "release" /\ callLock[x.w] = NoTask
     /\ state[x.w] = Dead
     /\ Done(t)
     /\ UNCHANGED <<innerVars, slotVars, sessionVars, lockVars, envVars>>

\* Mutant: release_inner does not wait for call_lock.
ReleaseBeginUnlocked(t) ==
  LET x == task[t]
  IN /\ x.pc = "release" /\ state[x.w] # Dead
     /\ callLock' = [callLock EXCEPT ![x.w] = t]
     /\ state' = [state EXCEPT ![x.w] = Closing]
     /\ Goto(t, "closing")
     /\ UNCHANGED <<innerVars, idbPath, process, reaper, sessionVars, handleLock, envVars>>

(* release_inner takes call_lock and sends close_idb. *)
ReleaseBegin(t) ==
  LET x == task[t]
  IN /\ x.pc = "release" /\ callLock[x.w] = NoTask
     /\ state[x.w] # Dead
     /\ callLock' = [callLock EXCEPT ![x.w] = t]
     /\ state' = [state EXCEPT ![x.w] = Closing]
     /\ Goto(t, "closing")
     /\ UNCHANGED <<innerVars, idbPath, process, reaper, sessionVars, handleLock, envVars>>

(* close_idb succeeded or failed with an error that does not retire the    *)
(* worker: the slot is idle again, unless it died meanwhile.               *)
ReleaseIdle(t) ==
  LET x == task[t]
  IN /\ x.pc = "closing"
     /\ callLock' = [callLock EXCEPT ![x.w] = NoTask]
     /\ IF state[x.w] = Dead
        THEN Done(t) /\ UNCHANGED <<state, idbPath, reaper>>
        ELSE /\ state' = [state EXCEPT ![x.w] = Idle]
             /\ idbPath' = [idbPath EXCEPT ![x.w] = FALSE]
             /\ reaper' = [reaper EXCEPT ![x.w] = FALSE]
             /\ Goto(t, "sched")
     /\ UNCHANGED <<innerVars, process, sessionVars, handleLock, envVars>>

(* close_idb timed out or its transport failed. *)
ReleaseRetires(t) ==
  /\ task[t].pc = "closing"
  /\ task' = [task EXCEPT ![t].pc = "take", ![t].caller = "release"]
  /\ UNCHANGED <<innerVars, slotVars, sessionVars, lockVars, envVars>>

(* schedule_idle_reap, if the slot is still idle. *)
ScheduleIdleReap(t) ==
  LET x == task[t]
  IN /\ x.pc = "sched"
     /\ reaper' = [reaper EXCEPT ![x.w] = @ \/ (IdleReap /\ state[x.w] = Idle)]
     /\ Done(t)
     /\ UNCHANGED <<innerVars, state, idbPath, process, sessionVars, lockVars, envVars>>

-----------------------------------------------------------------------------
(* mark_dead: take_dead_worker, forget_slot, finish_dead_worker and        *)
(* ensure_min_workers, each under its own lock.                            *)
TakeDeadWorker(t) ==
  LET x == task[t]
  IN /\ x.pc = "take"
     /\ state' = [state EXCEPT ![x.w] = Dead]
     /\ idbPath' = [idbPath EXCEPT ![x.w] = @ /\ state[x.w] = Dead]
     /\ Goto(t, IF state[x.w] = Dead THEN "forgetNone" ELSE "forget")
     /\ UNCHANGED <<innerVars, process, reaper, sessionVars, lockVars, envVars>>

Replenish(t) == IF task[t].caller = "final" THEN Done(t) ELSE Goto(t, "ensure")

\* Mutant: the process of a retired worker is never closed.
ForgetSlotOnly(t) ==
  LET x == task[t]
  IN /\ x.pc \in {"forget", "forgetNone"}
     /\ children' = children \ {x.w}
     /\ Replenish(t)
     /\ UNCHANGED <<spawning, nextId, slotVars, sessionVars, lockVars, envVars>>

ForgetSlot(t) ==
  LET x == task[t]
  IN /\ x.pc \in {"forget", "forgetNone"}
     /\ children' = children \ {x.w}
     /\ IF x.pc = "forget" THEN Goto(t, "finish") ELSE Replenish(t)
     /\ UNCHANGED <<spawning, nextId, slotVars, sessionVars, lockVars, envVars>>

FinishDeadWorker(t) ==
  /\ task[t].pc = "finish"
  /\ process' = [process EXCEPT ![task[t].w] = FALSE]
  /\ Replenish(t)
  /\ UNCHANGED <<innerVars, state, idbPath, reaper, sessionVars, lockVars, envVars>>

LiveOrReserved == Cardinality(spawning) + Cardinality(children)

EnsureMinReserve(t) ==
  /\ task[t].pc = "ensure"
  /\ LiveOrReserved < Min
  /\ ReserveSpawnSlot
  /\ task' = [task EXCEPT ![t].pc = "spawn", ![t].n = nextId]
  /\ UNCHANGED <<children, slotVars, sessionVars, lockVars, envVars>>

EnsureMinDone(t) ==
  /\ task[t].pc = "ensure"
  /\ LiveOrReserved >= Min
  /\ MarkDeadReturns(t)
  /\ UNCHANGED <<innerVars, slotVars, sessionVars, handleLock, envVars>>

-----------------------------------------------------------------------------
(* A sleeping reaper wakes.  It leaves the slot alone when it is in use or *)
(* the pool is at its minimum; it never comes back.                        *)
ReapSkip(w) ==
  /\ reaper[w]
  /\ Active =< MinWorkers \/ state[w] # Idle
  /\ reaper' = [reaper EXCEPT ![w] = FALSE]
  /\ UNCHANGED <<innerVars, state, idbPath, process, sessionVars, lockVars, task, envVars>>

ReapIdle(t, w) ==
  /\ reaper[w] /\ task[t] = IdleTask
  /\ Active > MinWorkers /\ state[w] = Idle
  /\ state' = [state EXCEPT ![w] = Dead]
  /\ idbPath' = [idbPath EXCEPT ![w] = FALSE]
  /\ reaper' = [reaper EXCEPT ![w] = FALSE]
  /\ task' = [task EXCEPT ![t] =
                TaskAt("forget", "job", NoSession, w, 0, NoWorker, "final")]
  /\ UNCHANGED <<innerVars, process, sessionVars, lockVars, envVars>>

(* shutdown_all retires the children it finds, without replacement. *)
ShutdownAll ==
  /\ ServerStops /\ ~down /\ down' = TRUE
  /\ jobs' = jobs \cup {Job("shutdown", w, NoSession) : w \in children}
  /\ UNCHANGED <<innerVars, slotVars, sessionVars, lockVars, task, drops>>

(* The future of a request is dropped at an await.  Its locks are free,    *)
(* and what WorkerRetireGuard and SpawnReservation do when they are        *)
(* dropped armed becomes a job.  A dropped DeadWorker kills its process.   *)
GuardJobs(x) ==
  IF x.pc \in {"rpc", "release", "closing"} \/ x.caller \in {"call", "release"}
  THEN {Job("retire", x.w, x.s)} ELSE {}

\* Mutant: SpawnReservation has no Drop.
NoReservationJobs(x) == {}

\* Mutant: the dropped reservation forgets the slot it was installing.
ReservationJobsNoCleanup(x) ==
  IF x.pc \in {"spawn", "install"} THEN {Job("unreserve", x.n, x.s)} ELSE {}

ReservationJobs(x) ==
  CASE x.pc = "spawn" -> {Job("unreserve", x.n, x.s)}
    [] x.pc = "install" -> {Job("discard", x.n, x.s)}
    [] OTHER -> {}

DropFuture(t) ==
  LET x == task[t]
  IN /\ x.op \in Requests /\ drops < MaxDrops
     /\ drops' = drops + 1
     /\ jobs' = jobs \cup GuardJobs(x) \cup ReservationJobs(x)
     /\ callLock' = [w \in Worker |-> IF callLock[w] = t THEN NoTask ELSE callLock[w]]
     /\ handleLock' = [s \in Session |-> IF handleLock[s] = t THEN NoTask ELSE handleLock[s]]
     /\ process' = IF x.pc \in {"forget", "finish"} THEN [process EXCEPT ![x.w] = FALSE] ELSE process
     /\ Done(t)
     /\ UNCHANGED <<innerVars, state, idbPath, reaper, sessionVars, down>>

(* The executor starts a job. *)
StartJob(t, j) ==
  /\ j \in jobs /\ jobs' = jobs \ {j}
  /\ task[t] = IdleTask
  /\ LET start(pc, caller) ==
           task' = [task EXCEPT ![t] = TaskAt(pc, "job", j.s, j.w, 0, NoWorker, caller)]
     IN CASE j.kind = "unreserve" -> UNCHANGED task
          [] j.kind = "drop" -> start("relcur", "none")
          [] j.kind = "shutdown" -> start("take", "final")
          [] OTHER -> start("take", "job")
  /\ spawning' = IF j.kind \in {"unreserve", "discard"} THEN spawning \ {j.w} ELSE spawning
  /\ UNCHANGED <<children, nextId, slotVars, sessionVars, lockVars, drops, down>>

-----------------------------------------------------------------------------
RequestStep(t) ==
  \E s \in Session :
    \/ OpenOnLease(t, s)
    \/ \E w \in children : LeaseIdle(t, s, w)
    \/ LeaseExhausted(t, s)
    \/ LeaseReserve(t, s)
    \/ \E g \in {0} \cup Generation : StartCall(t, s, g)
    \/ Close(t, s)
    \/ \E g \in Generation : CloseIfGeneration(t, s, g)

TaskStep(t) ==
  \/ SpawnSlot(t) \/ InstallSlot(t) \/ SpawnFails(t)
  \/ CallDispatch(t) \/ CallRefused(t)
  \/ \E answer \in {"ok", "error", "fatal"} : RpcAnswer(t, answer)
  \/ RpcKill(t) \/ RecordPath(t)
  \/ ClearHandleIfWorker(t) \/ ReleaseCurrentHandle(t)
  \/ ReleaseDead(t) \/ ReleaseBegin(t) \/ ReleaseIdle(t) \/ ReleaseRetires(t)
  \/ ScheduleIdleReap(t)
  \/ TakeDeadWorker(t) \/ ForgetSlot(t) \/ FinishDeadWorker(t)
  \/ EnsureMinReserve(t) \/ EnsureMinDone(t)

JobStep(t) ==
  \/ \E j \in jobs : StartJob(t, j)
  \/ \E w \in Worker : ReapIdle(t, w)

Next ==
  \/ \E t \in Task : RequestStep(t) \/ TaskStep(t) \/ JobStep(t) \/ DropFuture(t)
  \/ \E s \in Session : DropSession(s)
  \/ \E w \in Worker : ReapSkip(w)
  \/ ShutdownAll

Spec == Init /\ [][Next]_vars

(***************************************************************************)
(* The executor polls every ready future.  Every call to a child ends,     *)
(* because call_tool and release_inner put a timeout on it.  Both locks    *)
(* and PoolInner's are Tokio mutexes, which serve waiters in order: a      *)
(* waiter that is offered the lock again and again gets it (strong         *)
(* fairness).  Nothing makes clients send requests or drop them.           *)
(***************************************************************************)
Fairness ==
  /\ \A t \in Task : SF_vars(TaskStep(t))
  /\ SF_vars(\E t \in Task : \E j \in jobs : StartJob(t, j))

FairSpec == Spec /\ Fairness

-----------------------------------------------------------------------------
(* The variables hold what pool.rs declares. *)
TypeOK ==
  /\ children \subseteq Worker /\ spawning \subseteq Worker
  /\ nextId \in 0..MaxSpawns
  /\ state \in [Worker -> ChildState]
  /\ idbPath \in [Worker -> BOOLEAN] /\ process \in [Worker -> BOOLEAN]
  /\ callLock \in [Worker -> Task \cup {NoTask}]
  /\ reaper \in [Worker -> BOOLEAN]
  /\ handle \in [Session -> [worker : Worker \cup {NoWorker}, generation : 0..MaxGeneration]]
  /\ handleLock \in [Session -> Task \cup {NoTask}]
  /\ nextGeneration \in [Session -> 0..MaxGeneration]
  /\ alive \in [Session -> BOOLEAN]
  /\ task \in [Task -> TaskState]
  /\ jobs \subseteq JobSet
  /\ drops \in 0..MaxDrops /\ down \in BOOLEAN

(* Live children and reservations never exceed max_workers, whichever of   *)
(* lease, ensure_min_workers, dropped spawns and late retirements          *)
(* interleave (pool.rs lease, ensure_min_workers).                         *)
Capacity == Active =< MaxWorkers

(* A session's lease names a slot that is leased to this session, or dead: *)
(* no release, reaper or other lease ever takes a slot away from a session *)
(* that still holds its handle, and no two sessions hold one live slot.    *)
HandleOwnsSlot ==
  \A s \in Session :
    handle[s] # NoLease => state[handle[s].worker] \in {Leased(s), Dead}

(* While a tool call is at the child, the child is leased to the caller's  *)
(* session or was killed: call_lock keeps a release from handing the slot  *)
(* to another session under a running call.                                *)
DispatchIsolated ==
  \A t \in Task :
    task[t].pc = "rpc" => state[task[t].w] \in {Leased(task[t].s), Dead}

(* Every reserved id has a spawn running or an unreserve job that will     *)
(* give it back, so a dropped spawn cannot keep capacity for ever          *)
(* (SpawnReservation and its Drop).                                        *)
ReservationHasOwner ==
  \A n \in spawning :
    \/ \E t \in Task : task[t].pc \in {"spawn", "install"} /\ task[t].n = n
    \/ \E j \in jobs : j.kind \in {"unreserve", "discard"} /\ j.w = n

(* Every running child process is known to someone who will stop it: it is *)
(* a live child, or a task or a job is installing or retiring it.          *)
ProcessHasOwner ==
  \A w \in Worker : process[w] =>
    \/ w \in Live
    \/ \E t \in Task : \/ task[t].pc = "install" /\ task[t].n = w
                       \/ task[t].pc \in {"take", "forget", "finish"} /\ task[t].w = w
    \/ \E j \in jobs : j.kind = "discard" /\ j.w = w

(* Somebody will give slot w back: a session has its handle, or a task or a *)
(* job is going to install, release or retire it.                          *)
Owned(w) ==
  \/ \E s \in Session : handle[s].worker = w
  \/ \E t \in Task :
       \/ task[t].pc \in {"release", "take"} /\ task[t].w = w
       \/ task[t].pc = "clear" /\ task[t].caller = "tool" /\ task[t].w = w
       \/ task[t].pc = "install" /\ task[t].n = w
  \/ \E j \in jobs : j.kind \in {"retire", "discard", "shutdown"} /\ j.w = w
Stray(w) == state[w].tag = "Leased" /\ ~Owned(w)

\* The late error of a call that started before a close and a reopen.
LateClear(t, w) == ClearHandleIfWorker(t) /\ task[t].caller = "none" /\ task[t].w = w
\* A request is dropped between clear_handle_if_worker and mark_dead.
DroppedRetirement(t, w) == DropFuture(t) /\ task[t].caller = "tool" /\ task[t].w = w

(* A leased slot always has somebody who will give it back: TRANSPORTS.md   *)
(* says a session owns its worker until close_idb, DELETE, session timeout *)
(* or shutdown.  Only two steps of the code lose a slot, both in           *)
(* call_result_for_generation: a late error clears the handle of a newer   *)
(* lease of the same worker, and a request is dropped before the           *)
(* mark_dead that follows its clear_handle_if_worker.                      *)
LeaseKeepsOwner ==
  [][\A w \in Worker : Stray(w)' => Stray(w) \/ \E t \in Task : LateClear(t, w)
                                                        \/ DroppedRetirement(t, w)]_vars

(* A call bound to a generation is never at the child while its session    *)
(* leases that child for another generation                                *)
(* (required_handle_for_generation).                                       *)
BoundCallOnItsLease ==
  \A t \in Task :
    LET x == task[t]
    IN x.pc = "rpc" /\ x.op = "call" /\ x.g # 0 /\ handle[x.s].worker = x.w
         => handle[x.s].generation = x.g

(* A retirement left behind by one session's dropped future never waits to *)
(* kill a worker that is now leased to another session.                    *)
RetireTargetsOwnLease ==
  \A j \in jobs : j.kind = "retire" =>
    \A s \in Session : state[j.w] = Leased(s) => s = j.s

(* Every request and every job ends: no two of call_lock, the handle lock  *)
(* and PoolInner's lock are ever waited for in a circle.  A task that       *)
(* needs a spawn past the bound of the model waits.                        *)
TaskEnds ==
  \A t \in Task : task[t].pc # "idle" ~> (task[t].pc = "idle" \/ nextId = MaxSpawns)

(* A session that goes away hands its workers back (Drop for               *)
(* PooledSessionState), except those that one of the two steps of          *)
(* LeaseKeepsOwner lost.                                                   *)
DroppedSessionReleases ==
  \A s \in Session : ~alive[s] ~> \A w \in Worker : state[w] = Leased(s) => Stray(w)

(* Every child that shutdown_all found is eventually stopped, also when a   *)
(* request is retiring or releasing it at the same time.                   *)
ShutdownStopsChildren ==
  \A w \in Worker : Job("shutdown", w, NoSession) \in jobs ~> ~process[w]

(***************************************************************************)
(* What makes Capacity and TypeOK inductive.  A task that uses a worker    *)
(* has one, a running mark_dead knows its caller, and a reserved id        *)
(* belongs to one spawn or one job and is not a child yet.                 *)
(***************************************************************************)
Spawning(t) == task[t].pc \in {"spawn", "install"}
GivesBack(j) == j.kind \in {"unreserve", "discard"}
UsesWorker == {"call", "rpc", "path", "clear", "release", "closing", "sched"} \cup Retiring
ServesSession == {"call", "rpc", "clear", "relcur"}

TaskSound(x) ==
  /\ x.pc \in UsesWorker \/ x.caller # "none" => x.w \in Worker
  /\ x.pc \in Retiring => x.caller # "none"
  /\ \/ x.op \in Requests \/ x.pc \in ServesSession \/ x.caller = "call"
     \/ x.pc \in {"spawn", "install"} /\ x.caller = "none"
     => x.s \in Session

TasksSound ==
  \A t \in Task : TaskSound(task[t]) /\ (Spawning(t) => task[t].n \in spawning)

HandlesSound == \A s \in Session : handle[s] # NoLease => handle[s].worker \in Worker

ReservationsSound ==
  /\ \A t, u \in Task : Spawning(t) /\ Spawning(u) /\ t # u => task[t].n # task[u].n
  /\ \A t \in Task : \A j \in jobs : Spawning(t) /\ GivesBack(j) => j.w # task[t].n
  /\ \A n \in spawning : n \notin children /\ n < nextId
  /\ \A w \in children : w < nextId
  /\ \A j \in jobs : GivesBack(j) => j.w < nextId

(* The invariant by which Capacity is proved: every reservation is         *)
(* accounted for once (pool.rs SpawnReservation, finish_spawn_reservation), *)
(* together with the capacity itself.                                      *)
PoolInv == TypeOK /\ TasksSound /\ HandlesSound /\ ReservationsSound
CapacityInv == PoolInv /\ Capacity
=============================================================================
