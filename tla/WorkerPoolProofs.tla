-------------------------- MODULE WorkerPoolProofs --------------------------
(***************************************************************************)
(* Proofs about WorkerPool, for every number of sessions, tasks and        *)
(* workers and every value of the bounds: the invariant PoolInv, then who  *)
(* owns what (leases, calls at a child, reservations, child processes).    *)
(***************************************************************************)
EXTENDS WorkerPool, TLAPS

(* What a step may do to the reservations and the live children: neither   *)
(* grows, or one id is reserved under one of the two limits, or one         *)
(* reservation becomes a child.                                            *)
Shrinks == spawning' \subseteq spawning /\ Live' \subseteq Live

Reserving ==
  /\ Active < MaxWorkers \/ LiveOrReserved < Min
  /\ ReserveSpawnSlot /\ Live' \subseteq Live

Installing ==
  \E n \in spawning : /\ spawning' = spawning \ {n}
                      /\ children' = children \cup {n} /\ UNCHANGED state

PoolStep == PoolInv' /\ (Shrinks \/ Reserving \/ Installing)

-----------------------------------------------------------------------------
(* Task records. *)
Quiet(x) == x \in TaskState /\ TaskSound(x) /\ x.pc \notin {"spawn", "install"}

(* Task t moves to a sound state in which it does not spawn. *)
Moves(t) == \E x : Quiet(x) /\ task' = [task EXCEPT ![t] = x]

LeaseSet == [worker : Worker \cup {NoWorker}, generation : 0..MaxGeneration]

(* The states a slot moves through are states. *)
LEMMA ChildStates ==
  /\ Idle \in ChildState /\ Closing \in ChildState /\ Dead \in ChildState
  /\ \A s \in Session : Leased(s) \in ChildState
BY Zenon DEF ChildState

(* A free task is sound. *)
LEMMA IdleQuiet == Quiet(IdleTask)
BY PoolAssumption
   DEF Quiet, TaskState, TaskSound, IdleTask, TaskAt, PCs, Ops, Requests, Callers, UsesWorker, Retiring, ServesSession, NoWorker

(* A task that starts to spawn: its record is sound and names the new id. *)
Reserves(t) ==
  \E x \in TaskState : /\ task' = [task EXCEPT ![t] = x]
                       /\ x.pc = "spawn" /\ x.n = nextId /\ TaskSound(x)

-----------------------------------------------------------------------------
(* warm_min leaves a pool within its limits. *)
LEMMA InitInv == Init => PoolInv
<1> SUFFICES ASSUME Init PROVE PoolInv
  BY Zenon
<1>1. Min \in Nat /\ Min =< MaxWorkers /\ Min =< MaxSpawns
  BY PoolAssumption DEF Min, Lesser
<1>2. TypeOK
  <2>1. IdleTask \in TaskState
    BY Zenon, IdleQuiet DEF Quiet
  <2>2. state \in [Worker -> ChildState]
    BY Zenon, ChildStates DEF Init, ChildState
  <2>3. handle \in [Session -> LeaseSet]
    BY PoolAssumption DEF Init, NoLease, Lease, LeaseSet
  <2>4. /\ children \subseteq Worker /\ nextId \in 0..MaxSpawns
        /\ drops \in 0..MaxDrops /\ nextGeneration \in [Session -> 0..MaxGeneration]
    BY <1>1, PoolAssumption DEF Init, Worker
  <2>5. process \in [Worker -> BOOLEAN]
    BY DEF Init
  <2> QED
    BY Zenon, <2>1, <2>2, <2>3, <2>4, <2>5 DEF Init, TypeOK, LeaseSet
<1>3. TasksSound /\ HandlesSound
  BY Zenon, IdleQuiet DEF Init, TasksSound, HandlesSound, Quiet, Spawning
<1>4. ReservationsSound
  BY <1>1, IdleQuiet DEF Init, ReservationsSound, Spawning, Quiet
<1> QED
  BY Zenon, <1>2, <1>3, <1>4 DEF PoolInv

(* No step of the pool, of a session or of the executor breaks it. *)
LEMMA NextInv == PoolInv /\ [Next]_vars => PoolStep
(* A task that only moves its program counter stays sound. *)
<1>GotoQuiet.
    ASSUME NEW x \in TaskState, TaskSound(x), NEW p \in PCs \ {"spawn", "install"},
           p \in UsesWorker => x.w \in Worker, p \in Retiring => x.caller # "none",
           p \in ServesSession => x.s \in Session
    PROVE  Quiet([x EXCEPT !.pc = p])
  BY Zenon, <1>GotoQuiet DEF Quiet, TaskState, TaskSound

(* A started task is sound when it has the worker it uses. *)
<1>StartQuiet.
    ASSUME NEW p \in PCs \ {"spawn", "install"}, NEW op \in Ops,
           NEW s \in Session \cup {NoSession}, NEW w \in Worker \cup {NoWorker},
           NEW g \in 0..MaxGeneration, NEW caller \in Callers,
           p \in UsesWorker \/ caller # "none" => w \in Worker,
           p \in Retiring => caller # "none",
           op \in Requests \/ p \in ServesSession \/ caller = "call" => s \in Session
    PROVE  Quiet(TaskAt(p, op, s, w, g, NoWorker, caller))
  BY Zenon, <1>StartQuiet DEF TaskAt, Quiet, TaskState, TaskSound

(* A leased open goes on to call its child. *)
<1>OpenQuiet.
    ASSUME NEW s \in Session, NEW w \in Worker
    PROVE  Quiet(TaskAt("call", "open", s, w, 0, NoWorker, "none"))
  <2> USE <1>OpenQuiet
  <2>1. "call" \in PCs \ {"spawn", "install"} /\ "call" \notin Retiring
        /\ "open" \in Ops /\ "none" \in Callers
    BY Zenon DEF PCs, Retiring, Ops, Requests, Callers
  <2>2. 0 \in 0..MaxGeneration
    BY PoolAssumption
  <2> QED
    BY Zenon, <2>1, <2>2, <1>StartQuiet

(* What a step needs to keep the tasks and reservations sound when it      *)
(* reserves nothing and starts no spawn.                                   *)
<1>QuietStep.
    ASSUME PoolInv, NEW t \in Task, NEW x, Quiet(x),
           task' = [task EXCEPT ![t] = x],
           children' \subseteq children, spawning' = spawning, nextId' = nextId,
           \A j \in jobs' : j \in jobs \/ ~GivesBack(j)
    PROVE  task' \in [Task -> TaskState] /\ TasksSound' /\ ReservationsSound'
  <2> USE <1>QuietStep
  <2>1. task \in [Task -> TaskState] /\ spawning \subseteq Worker
    BY Zenon DEF PoolInv, TypeOK
  <2>2. task' \in [Task -> TaskState]
    BY Zenon, <2>1 DEF Quiet
  <2>3. task'[t] = x /\ \A u \in Task \ {t} : task'[u] = task[u]
    BY Zenon, <2>1
  <2>4. TasksSound'
    BY <2>3 DEF PoolInv, TasksSound, Spawning, Quiet, TaskSound
  <2>5. ReservationsSound'
    BY <2>3 DEF PoolInv, ReservationsSound, Spawning, Quiet, GivesBack
  <2> QED
    BY Zenon, <2>2, <2>4, <2>5

(* The rest of the invariant for such a step. *)
<1>QuietInv.
    ASSUME PoolInv, NEW t \in Task, Moves(t),
           children' \subseteq children, spawning' = spawning, nextId' = nextId,
           jobs' \subseteq JobSet, \A j \in jobs' : j \in jobs \/ ~GivesBack(j),
           state' \in [Worker -> ChildState], \A w \in children' : state[w] = Dead => state'[w] = Dead,
           idbPath' \in [Worker -> BOOLEAN], process' \in [Worker -> BOOLEAN],
           reaper' \in [Worker -> BOOLEAN],
           callLock' \in [Worker -> Task \cup {NoTask}],
           handleLock' \in [Session -> Task \cup {NoTask}],
           handle' \in [Session -> LeaseSet],
           HandlesSound', nextGeneration' \in [Session -> 0..MaxGeneration],
           alive' = alive, drops' \in 0..MaxDrops, down' = down
    PROVE  PoolStep
  <2> USE <1>QuietInv
  <2>0. PICK x : Quiet(x) /\ task' = [task EXCEPT ![t] = x]
    BY Zenon DEF Moves
  <2>1. task' \in [Task -> TaskState] /\ TasksSound' /\ ReservationsSound'
    BY Zenon, <2>0, <1>QuietStep
  <2>2. TypeOK'
    BY Zenon, <2>1 DEF PoolInv, TypeOK, LeaseSet
  <2>3. Live' \subseteq Live
    BY Zenon DEF Live
  <2> QED
    BY Zenon, <2>1, <2>2, <2>3 DEF PoolInv, PoolStep, Shrinks

(* Taking a handle away leaves well-typed handles. *)
<1>ClearedHandle.
    ASSUME TypeOK, HandlesSound, NEW s, handle' = [handle EXCEPT ![s] = NoLease]
    PROVE  handle' \in [Session -> LeaseSet] /\ HandlesSound'
  <2> USE <1>ClearedHandle
  <2>1. NoLease \in LeaseSet
    BY PoolAssumption DEF NoLease, Lease, LeaseSet
  <2>2. handle \in [Session -> LeaseSet]
    BY Zenon DEF TypeOK, LeaseSet
  <2> QED
    BY Zenon, <2>1, <2>2 DEF HandlesSound

(* The requests that reserve nothing. *)
<1>RequestInv.
    ASSUME PoolInv, NEW t \in Task, NEW s \in Session,
           \/ OpenOnLease(t, s)
           \/ \E w \in children : LeaseIdle(t, s, w)
           \/ \E g \in {0} \cup Generation : StartCall(t, s, g)
           \/ Close(t, s)
           \/ \E g \in Generation : CloseIfGeneration(t, s, g)
    PROVE  PoolStep
  <2> USE <1>RequestInv
  <2> USE DEF innerVars, slotVars, sessionVars, lockVars, envVars
  <2>0. TypeOK /\ HandlesSound
    BY Zenon DEF PoolInv
  <2>1. /\ {"call", "release"} \subseteq PCs \ ({"spawn", "install"} \cup Retiring)
        /\ {"open", "reopen", "call", "close"} \subseteq Ops /\ "none" \in Callers
        /\ "none" \notin {"call", "release"}
    BY Zenon DEF PCs, Ops, Requests, Callers, Retiring
  <2>2. CASE OpenOnLease(t, s)
    <3> DEFINE x == TaskAt("call", "reopen", s, handle[s].worker, 0, NoWorker, "none")
    <3>1. handle[s].worker \in Worker
      BY Zenon, <2>0, <2>2 DEF OpenOnLease, HandlesSound
    <3>2. Quiet(x)
      BY <2>1, <3>1, <1>StartQuiet, PoolAssumption
    <3>3. Moves(t)
      BY Zenon, <2>2, <3>2 DEF OpenOnLease, StartTask, Moves
    <3> QED
      BY Zenon, <2>0, <2>2, <3>3, <1>QuietInv DEF OpenOnLease, TypeOK, LeaseSet, HandlesSound
  <2>3. ASSUME NEW w \in children, LeaseIdle(t, s, w)  PROVE PoolStep
    <3> DEFINE x == TaskAt("call", "open", s, w, 0, NoWorker, "none")
    <3>1. w \in Worker
      BY Zenon, <2>0 DEF TypeOK
    <3>2. Quiet(x)
      BY <2>1, <3>1, <1>StartQuiet, PoolAssumption
    <3>3. Moves(t)
      BY Zenon, <2>3, <3>2 DEF LeaseIdle, StartTask, Moves
    <3>4. /\ state' \in [Worker -> ChildState]
          /\ \A v \in children : state[v] = Dead => state'[v] = Dead
      BY <2>0, <2>3, ChildStates DEF LeaseIdle, TypeOK, Idle, Dead, Child
    <3>5. nextGeneration' \in [Session -> 0..MaxGeneration]
      BY <2>0, <2>3, PoolAssumption DEF LeaseIdle, LeaseForOpen, TypeOK
    <3>6. /\ handle' \in [Session -> LeaseSet]
          /\ HandlesSound'
      BY Zenon, <2>0, <2>3, <3>1, <3>5 DEF LeaseIdle, TypeOK, HandlesSound, Lease, LeaseSet
    <3> QED
      BY Zenon, <2>0, <2>3, <3>3, <3>4, <3>5, <3>6, <1>QuietInv DEF LeaseIdle, TypeOK, LeaseSet
  <2>4. ASSUME NEW g \in {0} \cup Generation, StartCall(t, s, g)  PROVE PoolStep
    <3> DEFINE x == TaskAt("call", "call", s, handle[s].worker, g, NoWorker, "none")
    <3>1. handle[s].worker \in Worker
      BY Zenon, <2>0, <2>4 DEF StartCall, HandlesSound
    <3>2. Quiet(x)
      BY <2>1, <3>1, <1>StartQuiet, PoolAssumption DEF Generation
    <3>3. Moves(t)
      BY Zenon, <2>4, <3>2 DEF StartCall, StartTask, Moves
    <3> QED
      BY Zenon, <2>0, <2>4, <3>3, <1>QuietInv DEF StartCall, TypeOK, LeaseSet, HandlesSound
  <2>5. ASSUME Close(t, s) \/ \E g \in Generation : CloseIfGeneration(t, s, g)
        PROVE  PoolStep
    <3> DEFINE x == TaskAt("release", "close", s, handle[s].worker, 0, NoWorker, "none")
    <3>0. /\ handle[s] # NoLease /\ TakeHandle(t, s, "close")
          /\ UNCHANGED <<innerVars, slotVars, nextGeneration, alive, lockVars, envVars>>
      BY <2>5 DEF Close, CloseIfGeneration, NoLease, Lease, Generation
    <3>1. handle[s].worker \in Worker
      BY Zenon, <2>0, <3>0 DEF HandlesSound
    <3>2. Quiet(x)
      BY <2>1, <3>1, <1>StartQuiet, PoolAssumption
    <3>3. Moves(t)
      BY Zenon, <3>0, <3>2 DEF TakeHandle, StartTask, Moves
    <3>4. /\ handle' \in [Session -> LeaseSet]
          /\ HandlesSound'
      BY Zenon, <2>0, <3>0, <1>ClearedHandle DEF TakeHandle
    <3> QED
      BY Zenon, <2>0, <3>0, <3>3, <3>4, <1>QuietInv DEF TypeOK
  <2> QED
    BY <2>2, <2>3, <2>4, <2>5

(* A task that ends. *)
<1>DoneMoves. ASSUME NEW t \in Task, Done(t) PROVE Moves(t)
  BY <1>DoneMoves, Zenon, IdleQuiet DEF Done, Moves

(* A task that moves to another point of its program. *)
<1>GotoMoves.
    ASSUME PoolInv, NEW t \in Task, NEW p \in PCs \ {"spawn", "install"}, Goto(t, p),
           p \in UsesWorker => task[t].w \in Worker, p \in Retiring => task[t].caller # "none",
           p \in ServesSession => task[t].s \in Session
    PROVE  Moves(t)
  <2> USE <1>GotoMoves
  <2>1. task \in [Task -> TaskState] /\ task[t] \in TaskState /\ TaskSound(task[t])
    BY Zenon DEF PoolInv, TypeOK, TasksSound
  <2>2. Quiet([task[t] EXCEPT !.pc = p])
    BY Zenon, <2>1, <1>GotoQuiet
  <2>3. task' = [task EXCEPT ![t] = [task[t] EXCEPT !.pc = p]]
    BY Zenon, <2>1 DEF Goto
  <2> QED
    BY Zenon, <2>2, <2>3 DEF Moves

(* The same with a new caller: mark_dead is called. *)
<1>RetireMoves.
    ASSUME PoolInv, NEW t \in Task, NEW p \in {"take", "clear"},
           NEW c \in Callers \ {"none"}, task[t].w \in Worker,
           p = "clear" \/ c = "call" => task[t].s \in Session,
           task' = [task EXCEPT ![t].pc = p, ![t].caller = c]
    PROVE  Moves(t)
  <2> USE <1>RetireMoves
  <2>1. task \in [Task -> TaskState] /\ task[t] \in TaskState /\ TaskSound(task[t])
    BY Zenon DEF PoolInv, TypeOK, TasksSound
  <2> DEFINE x == [task[t] EXCEPT !.pc = p, !.caller = c]
  <2>2. /\ x.pc = p /\ x.caller = c /\ x.w = task[t].w /\ x.s = task[t].s /\ x.op = task[t].op
        /\ x \in TaskState
    BY Zenon, <2>1 DEF TaskState, PCs
  <2>3. Quiet(x)
    BY Zenon, <2>1, <2>2 DEF Quiet, TaskSound, Retiring, ServesSession
  <2>4. task' = [task EXCEPT ![t] = x]
    BY Zenon, <2>1
  <2> QED
    BY Zenon, <2>3, <2>4 DEF Moves

(* mark_dead returns to its caller. *)
<1>MarkDeadReturnsMoves.
    ASSUME PoolInv, NEW t \in Task, MarkDeadReturns(t)
    PROVE  Moves(t) /\ callLock' \in [Worker -> Task \cup {NoTask}]
  <2> USE <1>MarkDeadReturnsMoves
  <2>1. /\ task \in [Task -> TaskState] /\ task[t] \in TaskState /\ TaskSound(task[t])
        /\ callLock \in [Worker -> Task \cup {NoTask}]
    BY Zenon DEF PoolInv, TypeOK, TasksSound
  <2>2. callLock' \in [Worker -> Task \cup {NoTask}]
    BY Zenon, <2>1 DEF MarkDeadReturns
  <2>3. CASE task[t].caller = "call"
    <3> DEFINE x == [task[t] EXCEPT !.pc = IF task[t].op \in Opens THEN "relcur" ELSE "clear",
                                    !.caller = "none", !.n = NoWorker]
    <3>1. task[t].w \in Worker /\ task[t].s \in Session
      BY Zenon, <2>1, <2>3 DEF TaskSound
    <3>2. /\ x.pc \in {"relcur", "clear"}
          /\ x.caller = "none" /\ x.w = task[t].w /\ x.s = task[t].s /\ x.op = task[t].op
          /\ x \in TaskState
      BY Zenon, <2>1 DEF TaskState, PCs, Callers
    <3>3. Quiet(x)
      BY Zenon, <2>1, <3>1, <3>2 DEF Quiet, TaskSound, Retiring
    <3>4. task' = [task EXCEPT ![t] = x]
      BY Zenon, <2>3 DEF MarkDeadReturns
    <3> QED
      BY Zenon, <2>2, <3>3, <3>4 DEF Moves
  <2>4. CASE task[t].caller # "call"
    BY Zenon, <2>2, <2>4, IdleQuiet DEF MarkDeadReturns, Moves
  <2> QED
    BY Zenon, <2>3, <2>4

(* The steps of call_tool and of the error paths after it. *)
<1>CallInv.
    ASSUME PoolInv, NEW t \in Task,
           \/ CallDispatch(t) \/ CallRefused(t)
           \/ \E answer \in {"ok", "error", "fatal"} : RpcAnswer(t, answer)
           \/ RpcKill(t) \/ RecordPath(t)
           \/ ClearHandleIfWorker(t) \/ ReleaseCurrentHandle(t)
    PROVE  PoolStep
  <2> USE <1>CallInv
  <2> USE DEF innerVars, slotVars, sessionVars, lockVars, envVars
  <2>0. TypeOK /\ HandlesSound /\ TaskSound(task[t])
    BY Zenon DEF PoolInv, TasksSound
  <2>1. /\ {"rpc", "path", "clear", "relcur"} \subseteq PCs \ ({"spawn", "install"} \cup Retiring)
        /\ "take" \in PCs \ {"spawn", "install"} /\ {"call", "tool"} \subseteq Callers \ {"none"}
        /\ {"call", "rpc", "path", "clear", "take"} \subseteq UsesWorker /\ "relcur" \notin UsesWorker
        /\ {"call", "rpc", "clear", "relcur"} \subseteq ServesSession /\ "take" \notin ServesSession
    BY Zenon DEF PCs, Retiring, Callers, UsesWorker, ServesSession
  <2>2. CASE CallDispatch(t)
    <3>1. Moves(t)
      BY Zenon, <2>0, <2>1, <2>2, <1>GotoMoves DEF CallDispatch, TaskSound
    <3> QED
      BY Zenon, <2>0, <2>2, <3>1, <1>QuietInv DEF CallDispatch, TypeOK, LeaseSet, HandlesSound
  <2>3. CASE CallRefused(t)
    <3>1. task[t].w \in Worker /\ task[t].s \in Session
      BY Zenon, <2>0, <2>1, <2>3 DEF CallRefused, TaskSound
    <3>2. Goto(t, "clear") \/ Goto(t, "relcur") \/ Done(t)
      BY ZenonT(40), <2>3 DEF CallRefused
    <3>3. Moves(t)
      BY Zenon, <2>1, <3>1, <3>2, <1>GotoMoves, <1>DoneMoves
    <3> QED
      BY Zenon, <2>0, <2>3, <3>3, <1>QuietInv DEF CallRefused, TypeOK, LeaseSet, HandlesSound
  <2>4. ASSUME NEW answer \in {"ok", "error", "fatal"}, RpcAnswer(t, answer)
        PROVE  PoolStep
    <3>1. task[t].w \in Worker /\ task[t].s \in Session
      BY Zenon, <2>0, <2>1, <2>4 DEF RpcAnswer, TaskSound
    <3>2. \/ Goto(t, "path") \/ Goto(t, "relcur") \/ Done(t)
          \/ task' = [task EXCEPT ![t].pc = "clear", ![t].caller = "tool"]
      BY Zenon, <2>4 DEF RpcAnswer
    <3>3. Moves(t)
      BY Zenon, <2>1, <3>1, <3>2, <1>GotoMoves, <1>RetireMoves, <1>DoneMoves
    <3> QED
      BY Zenon, <2>0, <2>4, <3>3, <1>QuietInv DEF RpcAnswer, TypeOK, LeaseSet, HandlesSound
  <2>5. CASE RpcKill(t)
    <3>1. Moves(t)
      BY Zenon, <2>0, <2>1, <2>5, <1>RetireMoves DEF RpcKill, TaskSound
    <3> QED
      BY Zenon, <2>0, <2>5, <3>1, <1>QuietInv DEF RpcKill, TypeOK, LeaseSet, HandlesSound
  <2>6. CASE RecordPath(t)
    <3>1. Moves(t)
      BY Zenon, <2>6, <1>DoneMoves DEF RecordPath
    <3> QED
      BY Zenon, <2>0, <2>6, <3>1, <1>QuietInv DEF RecordPath, TypeOK, LeaseSet, HandlesSound
  <2>7. CASE ClearHandleIfWorker(t)
    <3>1. Moves(t)
      BY Zenon, <2>0, <2>1, <2>7, <1>GotoMoves, <1>DoneMoves DEF ClearHandleIfWorker, TaskSound
    <3>2. /\ handle' \in [Session -> LeaseSet]
          /\ HandlesSound'
      <4>1. CASE handle' = handle
        BY Zenon, <2>0, <4>1 DEF TypeOK, HandlesSound, LeaseSet
      <4>2. CASE handle' = [handle EXCEPT ![task[t].s] = NoLease]
        BY Zenon, <2>0, <4>2, <1>ClearedHandle
      <4> QED
        BY Zenon, <2>7, <4>1, <4>2 DEF ClearHandleIfWorker
    <3> QED
      BY Zenon, <2>0, <2>7, <3>1, <3>2, <1>QuietInv DEF ClearHandleIfWorker, TypeOK, LeaseSet
  <2>8. CASE ReleaseCurrentHandle(t)
    <3> DEFINE s == task[t].s
    <3>0. s \in Session /\ task[t].op \in Ops
      BY Zenon, <2>0, <2>1, <2>8 DEF ReleaseCurrentHandle, TaskSound, TypeOK, TaskState
    <3>1. CASE handle[s] = NoLease
      <4>1. Moves(t) /\ handle' = handle
        BY Zenon, <2>8, <3>1, <1>DoneMoves DEF ReleaseCurrentHandle
      <4> QED
        BY Zenon, <2>0, <2>8, <4>1, <1>QuietInv DEF ReleaseCurrentHandle, TypeOK, LeaseSet, HandlesSound
    <3>2. CASE handle[s] # NoLease
      <4>1. handle[s].worker \in Worker
        BY Zenon, <2>0, <3>0, <3>2 DEF HandlesSound
      <4>2. "release" \in PCs \ {"spawn", "install"} /\ "release" \notin Retiring
            /\ "none" \in Callers /\ "none" \notin {"call", "release"}
        BY Zenon DEF PCs, Retiring, Callers
      <4>3. Quiet(TaskAt("release", task[t].op, s, handle[s].worker, 0, NoWorker, "none"))
        BY <3>0, <4>1, <4>2, <1>StartQuiet, PoolAssumption
      <4>4. Moves(t)
        BY Zenon, <2>8, <3>2, <4>3 DEF ReleaseCurrentHandle, TakeHandle, StartTask, Moves
      <4>5. /\ handle' \in [Session -> LeaseSet]
            /\ HandlesSound'
        BY Zenon, <2>0, <2>8, <3>2, <1>ClearedHandle DEF ReleaseCurrentHandle, TakeHandle
      <4> QED
        BY Zenon, <2>0, <2>8, <4>4, <4>5, <1>QuietInv DEF ReleaseCurrentHandle, TypeOK, LeaseSet
    <3> QED
      BY Zenon, <3>1, <3>2
  <2> QED
    BY Zenon, <2>2, <2>3, <2>4, <2>5, <2>6, <2>7, <2>8

(* The steps of release, and of mark_dead until it replenishes. *)
<1>ReleaseInv.
    ASSUME PoolInv, NEW t \in Task,
           \/ ReleaseDead(t) \/ ReleaseBegin(t) \/ ReleaseIdle(t) \/ ReleaseRetires(t)
           \/ ScheduleIdleReap(t)
           \/ TakeDeadWorker(t) \/ ForgetSlot(t) \/ FinishDeadWorker(t) \/ EnsureMinDone(t)
    PROVE  PoolStep
  <2> USE <1>ReleaseInv
  <2> USE DEF innerVars, slotVars, sessionVars, lockVars, envVars
  <2>0. TypeOK /\ HandlesSound /\ TaskSound(task[t])
    BY Zenon DEF PoolInv, TasksSound
  <2>1. /\ {"closing", "sched", "take", "forget", "forgetNone", "finish", "ensure"}
             \subseteq PCs \ {"spawn", "install"}
        /\ {"release", "closing", "sched"} \subseteq UsesWorker \ Retiring
        /\ {"take", "forget", "forgetNone", "finish", "ensure"} \subseteq Retiring
        /\ Retiring \subseteq UsesWorker
        /\ "release" \in Callers \ {"none", "call"}
        /\ \A p \in {"closing", "sched"} \cup Retiring : p \notin ServesSession
    BY Zenon DEF PCs, Retiring, Callers, UsesWorker, ServesSession
  <2>2. CASE ReleaseDead(t)
    <3>1. Moves(t)
      BY Zenon, <2>2, <1>DoneMoves DEF ReleaseDead
    <3> QED
      BY Zenon, <2>0, <2>2, <3>1, <1>QuietInv DEF ReleaseDead, TypeOK, LeaseSet, HandlesSound
  <2>3. CASE ReleaseBegin(t)
    <3>1. Moves(t)
      BY Zenon, <2>0, <2>1, <2>3, <1>GotoMoves DEF ReleaseBegin, TaskSound
    <3>2. /\ state' \in [Worker -> ChildState]
          /\ \A v \in children : state[v] = Dead => state'[v] = Dead
      BY Zenon, <2>0, <2>3, ChildStates DEF ReleaseBegin, TypeOK
    <3> QED
      BY Zenon, <2>0, <2>3, <3>1, <3>2, <1>QuietInv DEF ReleaseBegin, TypeOK, LeaseSet, HandlesSound
  <2>4. CASE ReleaseIdle(t)
    <3>1. Goto(t, "sched") \/ Done(t)
      BY ZenonT(40), <2>4 DEF ReleaseIdle
    <3>2. Moves(t)
      BY Zenon, <2>0, <2>1, <2>4, <3>1, <1>GotoMoves, <1>DoneMoves DEF ReleaseIdle, TaskSound
    <3>3. /\ state' \in [Worker -> ChildState]
          /\ \A v \in children : state[v] = Dead => state'[v] = Dead
          /\ idbPath' \in [Worker -> BOOLEAN] /\ reaper' \in [Worker -> BOOLEAN]
      BY Zenon, <2>0, <2>4, ChildStates DEF ReleaseIdle, TypeOK
    <3> QED
      BY Zenon, <2>0, <2>4, <3>2, <3>3, <1>QuietInv DEF ReleaseIdle, TypeOK, LeaseSet, HandlesSound
  <2>5. CASE ReleaseRetires(t)
    <3>1. Moves(t)
      BY Zenon, <2>0, <2>1, <2>5, <1>RetireMoves DEF ReleaseRetires, TaskSound
    <3> QED
      BY Zenon, <2>0, <2>5, <3>1, <1>QuietInv DEF ReleaseRetires, TypeOK, LeaseSet, HandlesSound
  <2>6. CASE ScheduleIdleReap(t)
    <3>1. Moves(t)
      BY Zenon, <2>6, <1>DoneMoves DEF ScheduleIdleReap
    <3>2. reaper' \in [Worker -> BOOLEAN]
      BY Zenon, <2>0, <2>6 DEF ScheduleIdleReap, TypeOK
    <3> QED
      BY Zenon, <2>0, <2>6, <3>1, <3>2, <1>QuietInv DEF ScheduleIdleReap, TypeOK, LeaseSet, HandlesSound
  <2>7. CASE TakeDeadWorker(t)
    <3>1. Goto(t, "forget") \/ Goto(t, "forgetNone")
      BY Zenon, <2>7 DEF TakeDeadWorker
    <3>2. Moves(t)
      BY Zenon, <2>0, <2>1, <2>7, <3>1, <1>GotoMoves DEF TakeDeadWorker, TaskSound
    <3>3. /\ state' \in [Worker -> ChildState]
          /\ \A v \in children : state[v] = Dead => state'[v] = Dead
          /\ idbPath' \in [Worker -> BOOLEAN]
      BY Zenon, <2>0, <2>7, ChildStates DEF TakeDeadWorker, TypeOK
    <3> QED
      BY Zenon, <2>0, <2>7, <3>2, <3>3, <1>QuietInv DEF TakeDeadWorker, TypeOK, LeaseSet, HandlesSound
  <2>8. CASE ForgetSlot(t)
    <3>1. Goto(t, "finish") \/ Goto(t, "ensure") \/ Done(t)
      BY Zenon, <2>8 DEF ForgetSlot, Replenish
    <3>2. Moves(t)
      BY ZenonT(40), <2>0, <2>1, <2>8, <3>1, <1>GotoMoves, <1>DoneMoves DEF ForgetSlot, TaskSound
    <3> QED
      BY Zenon, <2>0, <2>8, <3>2, <1>QuietInv DEF ForgetSlot, TypeOK, LeaseSet, HandlesSound
  <2>9. CASE FinishDeadWorker(t)
    <3>1. Goto(t, "ensure") \/ Done(t)
      BY Zenon, <2>9 DEF FinishDeadWorker, Replenish
    <3>2. Moves(t)
      BY Zenon, <2>0, <2>1, <2>9, <3>1, <1>GotoMoves, <1>DoneMoves DEF FinishDeadWorker, TaskSound
    <3> QED
      BY Zenon, <2>0, <2>9, <3>2, <1>QuietInv DEF FinishDeadWorker, TypeOK, LeaseSet, HandlesSound
  <2>10. CASE EnsureMinDone(t)
    <3>1. Moves(t) /\ callLock' \in [Worker -> Task \cup {NoTask}]
      BY Zenon, <2>10, <1>MarkDeadReturnsMoves DEF EnsureMinDone
    <3> QED
      BY Zenon, <2>0, <2>10, <3>1, <1>QuietInv DEF EnsureMinDone, TypeOK, LeaseSet, HandlesSound
  <2> QED
    BY Zenon, <2>2, <2>3, <2>4, <2>5, <2>6, <2>7, <2>8, <2>9, <2>10

(* The steps that move no task. *)
<1>NoTaskInv.
    ASSUME PoolInv,
           \/ \E t \in Task, s \in Session : LeaseExhausted(t, s)
           \/ \E s \in Session : DropSession(s)
           \/ \E w \in Worker : ReapSkip(w)
           \/ ShutdownAll
           \/ UNCHANGED vars
    PROVE  PoolStep
  <2> USE <1>NoTaskInv
  <2> USE DEF innerVars, slotVars, sessionVars, lockVars, envVars
  <2>0. TypeOK /\ HandlesSound /\ TasksSound /\ ReservationsSound
    BY Zenon DEF PoolInv
  <2>1. /\ task' = task /\ spawning' = spawning /\ nextId' = nextId /\ state' = state
        /\ handle' = handle
        /\ children' \subseteq children
    BY Zenon DEF LeaseExhausted, DropSession, ReapSkip, ShutdownAll, vars, Live
  <2>2. jobs' \subseteq JobSet /\ \A j \in jobs' : j \in jobs \/ ~GivesBack(j)
    <3>1. CASE \E s \in Session : DropSession(s)
      <4>1. PICK s \in Session : jobs' = jobs \cup {Job("drop", NoWorker, s)}
        BY Zenon, <3>1 DEF DropSession
      <4>2. Job("drop", NoWorker, s) \in JobSet /\ ~GivesBack(Job("drop", NoWorker, s))
        BY Zenon DEF Job, JobSet, GivesBack
      <4> QED
        BY Zenon, <2>0, <4>1, <4>2 DEF TypeOK
    <3>2. CASE ShutdownAll
      BY <2>0, <3>2 DEF ShutdownAll, TypeOK, Job, JobSet, GivesBack
    <3>3. CASE jobs' = jobs
      BY Zenon, <2>0, <3>3 DEF TypeOK
    <3> QED
      BY Zenon, <3>1, <3>2, <3>3 DEF LeaseExhausted, ReapSkip, vars
  <2>3. TypeOK'
    <3>1. alive' \in [Session -> BOOLEAN] /\ down' \in BOOLEAN
      <4>1. \/ alive' = alive
            \/ \E s \in Session : alive' = [alive EXCEPT ![s] = FALSE]
        BY Zenon DEF LeaseExhausted, DropSession, ReapSkip, ShutdownAll, vars
      <4>2. down' = down \/ down' = TRUE
        BY Zenon DEF LeaseExhausted, DropSession, ReapSkip, ShutdownAll, vars
      <4> QED
        BY ZenonT(40), <2>0, <4>1, <4>2 DEF TypeOK
    <3>2. nextGeneration' \in [Session -> 0..MaxGeneration]
      BY <2>0, PoolAssumption
         DEF LeaseExhausted, LeaseForOpen, DropSession, ReapSkip, ShutdownAll, vars, TypeOK
    <3>3. reaper' \in [Worker -> BOOLEAN]
      BY Zenon, <2>0 DEF LeaseExhausted, DropSession, ReapSkip, ShutdownAll, vars, TypeOK
    <3>4. UNCHANGED <<idbPath, process, callLock, handleLock, drops>>
      BY Zenon DEF LeaseExhausted, DropSession, ReapSkip, ShutdownAll, vars
    <3> QED
      BY Zenon, <2>0, <2>1, <2>2, <3>1, <3>2, <3>3, <3>4 DEF TypeOK
  <2>4. TasksSound' /\ HandlesSound'
    BY Zenon, <2>0, <2>1 DEF TasksSound, HandlesSound, Spawning
  <2>5. ReservationsSound'
    BY Zenon, <2>0, <2>1, <2>2 DEF ReservationsSound, Spawning, GivesBack
  <2>6. Shrinks
    BY Zenon, <2>1 DEF Shrinks, Live
  <2> QED
    BY Zenon, <2>3, <2>4, <2>5, <2>6 DEF PoolInv, PoolStep

(* An open that reserves an id starts to spawn (lease). *)
<1>LeaseReserves.
    ASSUME PoolInv, NEW t \in Task, NEW s \in Session, LeaseReserve(t, s), nextId \in Worker
    PROVE  Reserves(t) /\ nextGeneration' \in [Session -> 0..MaxGeneration]
  <2> USE <1>LeaseReserves
  <2> DEFINE x == TaskAt("spawn", "open", s, NoWorker, nextGeneration'[s], nextId, "none")
  <2>1. nextGeneration' \in [Session -> 0..MaxGeneration]
    BY PoolAssumption DEF PoolInv, LeaseReserve, LeaseForOpen, TypeOK
  <2>2. x \in TaskState
    BY Zenon, <2>1 DEF TaskAt, TaskState, PCs, Ops, Requests, Callers
  <2>3. TaskSound(x)
    BY Zenon DEF TaskSound, TaskAt, UsesWorker, Retiring
  <2>4. x.pc = "spawn" /\ x.n = nextId
    BY Zenon DEF TaskAt
  <2>5. task' = [task EXCEPT ![t] = x]
    BY Zenon DEF LeaseReserve
  <2> QED
    BY Zenon, <2>1, <2>2, <2>3, <2>4, <2>5 DEF Reserves

(* A retirement that replenishes starts to spawn (ensure_min_workers). *)
<1>EnsureReserves.
    ASSUME PoolInv, NEW t \in Task, EnsureMinReserve(t), nextId \in Worker
    PROVE  Reserves(t)
  <2> USE <1>EnsureReserves
  <2>1. /\ task \in [Task -> TaskState] /\ task[t] \in TaskState /\ TaskSound(task[t])
        /\ task[t].pc = "ensure"
    BY Zenon DEF PoolInv, TypeOK, TasksSound, EnsureMinReserve
  <2> DEFINE x == [task[t] EXCEPT !.pc = "spawn", !.n = nextId]
  <2>2. /\ x.pc = "spawn" /\ x.n = nextId /\ x.caller = task[t].caller
        /\ x.w = task[t].w /\ x.s = task[t].s /\ x.op = task[t].op
        /\ x \in TaskState
    BY Zenon, <2>1 DEF TaskState, PCs
  <2>3. TaskSound(x)
    BY Zenon, <2>1, <2>2 DEF TaskSound, UsesWorker, Retiring, ServesSession
  <2>4. task' = [task EXCEPT ![t] = x]
    BY Zenon, <2>1 DEF EnsureMinReserve
  <2> QED
    BY Zenon, <2>2, <2>3, <2>4 DEF Reserves

(* lease and ensure_min_workers reserve an id: the new reservation is      *)
(* nobody else's.                                                          *)
<1>ReserveInv.
    ASSUME PoolInv, NEW t \in Task,
           \/ \E s \in Session : LeaseReserve(t, s)
           \/ EnsureMinReserve(t)
    PROVE  PoolStep
  <2> USE <1>ReserveInv
  <2> USE DEF innerVars, slotVars, sessionVars, lockVars, envVars
  <2>0. TypeOK /\ HandlesSound /\ TasksSound /\ ReservationsSound
    BY Zenon DEF PoolInv
  <2>1. /\ nextId \in Worker /\ nextId' = nextId + 1 /\ nextId' \in 0..MaxSpawns
        /\ spawning' = spawning \cup {nextId} /\ children' \subseteq children
        /\ UNCHANGED <<state, idbPath, process, reaper, handle, alive, callLock, jobs, drops, down>>
        /\ ReserveSpawnSlot
    BY <2>0, PoolAssumption
       DEF LeaseReserve, EnsureMinReserve, ReserveSpawnSlot, TypeOK, Worker, Live
  <2>2. /\ Reserves(t) /\ (Active < MaxWorkers \/ LiveOrReserved < Min)
        /\ nextGeneration' \in [Session -> 0..MaxGeneration]
        /\ handleLock' \in [Session -> Task \cup {NoTask}]
    <3>1. ASSUME NEW s \in Session, LeaseReserve(t, s)
          PROVE  handleLock' \in [Session -> Task \cup {NoTask}] /\ Active < MaxWorkers
      BY Zenon, <2>0, <3>1 DEF LeaseReserve, LeaseReserveHasRoom, TypeOK
    <3>2. ASSUME EnsureMinReserve(t)
          PROVE  /\ handleLock' \in [Session -> Task \cup {NoTask}] /\ LiveOrReserved < Min
                 /\ nextGeneration' \in [Session -> 0..MaxGeneration]
      BY Zenon, <2>0, <3>2 DEF EnsureMinReserve, TypeOK
    <3> QED
      BY <2>1, <3>1, <3>2, <1>LeaseReserves, <1>EnsureReserves
  <2>3. PICK x \in TaskState : /\ task' = [task EXCEPT ![t] = x]
                               /\ x.pc = "spawn" /\ x.n = nextId /\ TaskSound(x)
    BY ZenonT(40), <2>2 DEF Reserves
  <2>4. /\ task \in [Task -> TaskState] /\ task' \in [Task -> TaskState]
        /\ task'[t] = x /\ \A u \in Task \ {t} : task'[u] = task[u]
    BY Zenon, <2>0, <2>3 DEF TypeOK
  <2>5. TypeOK'
    BY Zenon, <2>0, <2>1, <2>2, <2>4 DEF TypeOK
  <2>6. TasksSound' /\ HandlesSound'
    BY Zenon, <2>0, <2>1, <2>3, <2>4 DEF TasksSound, HandlesSound, Spawning
  <2>7. ReservationsSound'
    <3>1. \A u \in Task : Spawning(u) => task[u].n \in spawning /\ task[u].n # nextId
      BY <2>0 DEF TasksSound, ReservationsSound, TypeOK, Worker
    <3>2. nextId \notin children /\ \A j \in jobs : GivesBack(j) => j.w # nextId
      BY <2>0 DEF ReservationsSound, TypeOK, Worker
    <3>3. /\ \A n \in spawning' : n \notin children' /\ n < nextId'
          /\ \A w \in children' : w < nextId'
          /\ \A j \in jobs' : GivesBack(j) => j.w < nextId'
      <4>1. spawning \subseteq Worker /\ children \subseteq Worker /\ nextId \in Int
        BY <2>0 DEF TypeOK
      <4>2. \A j \in jobs : GivesBack(j) => j.w \in Worker
        BY Zenon, <2>0 DEF TypeOK, JobSet, GivesBack
      <4> QED
        BY <2>0, <2>1, <3>2, <4>1, <4>2 DEF ReservationsSound, Worker
    <3> QED
      BY <2>0, <2>1, <2>3, <2>4, <3>1, <3>2, <3>3 DEF ReservationsSound, Spawning, GivesBack
  <2>8. Reserving
    BY Zenon, <2>0, <2>1, <2>2 DEF Reserving, Live
  <2> QED
    BY Zenon, <2>5, <2>6, <2>7, <2>8 DEF PoolInv, PoolStep

(* A reservation that ends was nobody else's. *)
<1>ReservationOver.
    ASSUME PoolInv, NEW t \in Task, Moves(t), NEW n, n < nextId,
           \A u \in Task \ {t} : Spawning(u) => task[u].n # n,
           spawning' = spawning \ {n}, children' \subseteq children \cup {n},
           nextId' = nextId, jobs' \subseteq jobs
    PROVE  task' \in [Task -> TaskState] /\ TasksSound' /\ ReservationsSound'
  <2> USE <1>ReservationOver
  <2>0. PICK x : Quiet(x) /\ task' = [task EXCEPT ![t] = x]
    BY Zenon DEF Moves
  <2>1. task \in [Task -> TaskState]
    BY Zenon DEF PoolInv, TypeOK
  <2>2. task' \in [Task -> TaskState]
    BY Zenon, <2>0, <2>1 DEF Quiet
  <2>3. task'[t] = x /\ \A u \in Task \ {t} : task'[u] = task[u]
    BY Zenon, <2>0, <2>1
  <2>4. TasksSound'
    BY <2>0, <2>3 DEF PoolInv, TasksSound, Spawning, Quiet
  <2>5. ReservationsSound'
    BY <2>0, <2>3 DEF PoolInv, ReservationsSound, Spawning, Quiet, GivesBack
  <2> QED
    BY Zenon, <2>2, <2>4, <2>5

(* The spawn succeeds, fails, or its slot is installed. *)
<1>SpawnInv.
    ASSUME PoolInv, NEW t \in Task, SpawnSlot(t) \/ InstallSlot(t) \/ SpawnFails(t)
    PROVE  PoolStep
  <2> USE <1>SpawnInv
  <2> USE DEF innerVars, slotVars, sessionVars, lockVars, envVars
  <2> DEFINE n == task[t].n
  <2>0. TypeOK /\ HandlesSound /\ TasksSound /\ ReservationsSound /\ TaskSound(task[t])
    BY Zenon DEF PoolInv, TasksSound
  <2>1. /\ task[t] \in TaskState /\ n \in spawning /\ n \in Worker
        /\ n \notin children /\ n < nextId
        /\ \A u \in Task \ {t} : Spawning(u) => task[u].n # n
    BY Zenon, <2>0 DEF SpawnSlot, InstallSlot, SpawnFails, Spawning, TasksSound, ReservationsSound, TypeOK
  <2>2. CASE SpawnSlot(t)
    <3> DEFINE x == [task[t] EXCEPT !.pc = "install"]
    <3>1. /\ x.pc = "install" /\ x.n = n /\ x.caller = task[t].caller
          /\ x.w = task[t].w /\ x.s = task[t].s /\ x.op = task[t].op
          /\ x \in TaskState
      BY Zenon, <2>1 DEF TaskState, PCs
    <3>2. TaskSound(x)
      BY Zenon, <2>0, <2>2, <3>1 DEF SpawnSlot, TaskSound, UsesWorker, Retiring, ServesSession
    <3>3. /\ task' \in [Task -> TaskState]
          /\ task'[t] = x /\ \A u \in Task \ {t} : task'[u] = task[u]
      BY Zenon, <2>0, <2>2, <3>1 DEF SpawnSlot, Goto, TypeOK
    <3>4. task[t].caller = "none" => task[t].s \in Session
      BY Zenon, <2>0, <2>2 DEF SpawnSlot, TaskSound
    <3>5. state' \in [Worker -> ChildState] /\ \A v \in children : state'[v] = state[v]
      BY Zenon, <2>0, <2>1, <2>2, <3>4, ChildStates DEF SpawnSlot, TypeOK
    <3>6. TypeOK'
      BY Zenon, <2>0, <2>2, <3>3, <3>5 DEF SpawnSlot, TypeOK
    <3>7. TasksSound' /\ HandlesSound'
      <4>1. spawning' = spawning /\ handle' = handle
        BY ZenonT(40), <2>2 DEF SpawnSlot
      <4> HIDE DEF x
      <4>2. \A u \in Task : TaskSound(task'[u]) /\ (Spawning(u)' => task'[u].n \in spawning)
        BY Zenon, <2>0, <2>1, <3>1, <3>2, <3>3 DEF TasksSound, Spawning
      <4> QED
        BY Zenon, <2>0, <4>1, <4>2 DEF TasksSound, HandlesSound
    <3>8. ReservationsSound'
      <4>1. \A u \in Task : (Spawning(u)' <=> Spawning(u)) /\ task'[u].n = task[u].n
        BY Zenon, <2>2, <3>1, <3>3 DEF SpawnSlot, Spawning
      <4>2. UNCHANGED <<children, spawning, nextId, jobs>>
        BY Zenon, <2>2 DEF SpawnSlot
      <4> QED
        BY Zenon, <2>0, <4>1, <4>2 DEF ReservationsSound, GivesBack
    <3>9. Shrinks
      BY Zenon, <2>2, <3>5 DEF SpawnSlot, Shrinks, Live
    <3> QED
      BY Zenon, <3>6, <3>7, <3>8, <3>9 DEF PoolInv, PoolStep
  <2>3. CASE InstallSlot(t)
    <3>1. /\ Moves(t)
          /\ handle' \in [Session -> LeaseSet] /\ HandlesSound'
          /\ handleLock' \in [Session -> Task \cup {NoTask}]
      <4>1. CASE task[t].caller = "none"
        <5>1. task[t].s \in Session /\ task[t].g \in 0..MaxGeneration
          BY Zenon, <2>0, <2>1, <2>3, <4>1 DEF InstallSlot, TaskSound, TaskState
        <5>2. Quiet(TaskAt("call", "open", task[t].s, n, 0, NoWorker, "none"))
          BY Zenon, <2>1, <5>1, <1>OpenQuiet
        <5>3. Moves(t)
          BY Zenon, <2>3, <4>1, <5>2 DEF InstallSlot, StartTask, Moves
        <5>4. /\ handle' = [handle EXCEPT ![task[t].s] = Lease(n, task[t].g)]
              /\ handleLock' = [handleLock EXCEPT ![task[t].s] = NoTask]
          BY Zenon, <2>3, <4>1 DEF InstallSlot
        <5>5. Lease(n, task[t].g) \in LeaseSet /\ Lease(n, task[t].g).worker \in Worker
          BY Zenon, <2>1, <5>1 DEF Lease, LeaseSet
        <5>6. handle' \in [Session -> LeaseSet] /\ HandlesSound'
          BY Zenon, <2>0, <5>4, <5>5 DEF TypeOK, LeaseSet, HandlesSound
        <5> QED
          BY Zenon, <2>0, <5>3, <5>4, <5>6 DEF TypeOK
      <4>2. CASE task[t].caller # "none"
        <5> DEFINE x == [task[t] EXCEPT !.pc = "ensure", !.n = NoWorker]
        <5>1. /\ x.pc = "ensure" /\ x.caller = task[t].caller
              /\ x.w = task[t].w /\ x.s = task[t].s /\ x.op = task[t].op
              /\ x \in TaskState
          BY Zenon, <2>1 DEF TaskState, PCs
        <5>2. Quiet(x)
          BY Zenon, <2>0, <4>2, <5>1 DEF Quiet, TaskSound, ServesSession
        <5>3. task' = [task EXCEPT ![t] = x] /\ handle' = handle /\ handleLock' = handleLock
          BY Zenon, <2>0, <2>3, <4>2 DEF InstallSlot, TypeOK
        <5>4. Moves(t)
          BY Zenon, <5>2, <5>3 DEF Moves
        <5> QED
          BY Zenon, <2>0, <5>3, <5>4 DEF TypeOK, HandlesSound, LeaseSet
      <4> QED
        BY Zenon, <4>1, <4>2
    <3>2. task' \in [Task -> TaskState] /\ TasksSound' /\ ReservationsSound'
      BY Zenon, <2>1, <2>3, <3>1, <1>ReservationOver DEF InstallSlot
    <3>3. TypeOK'
      BY Zenon, <2>0, <2>1, <2>3, <3>1, <3>2 DEF InstallSlot, TypeOK, LeaseSet
    <3>4. Installing
      BY Zenon, <2>1, <2>3 DEF InstallSlot, Installing
    <3> QED
      BY Zenon, <3>1, <3>2, <3>3, <3>4 DEF PoolInv, PoolStep
  <2>4. CASE SpawnFails(t)
    <3>1. /\ Moves(t)
          /\ callLock' \in [Worker -> Task \cup {NoTask}]
          /\ handleLock' \in [Session -> Task \cup {NoTask}]
      BY ZenonT(40), <2>0, <2>4, <1>DoneMoves, <1>MarkDeadReturnsMoves DEF SpawnFails, TypeOK
    <3>2. task' \in [Task -> TaskState] /\ TasksSound' /\ ReservationsSound'
      BY Zenon, <2>1, <2>4, <3>1, <1>ReservationOver DEF SpawnFails
    <3>3. TypeOK' /\ HandlesSound'
      BY Zenon, <2>0, <2>4, <3>1, <3>2 DEF SpawnFails, TypeOK, HandlesSound
    <3>4. Shrinks
      BY Zenon, <2>4 DEF SpawnFails, Shrinks, Live
    <3> QED
      BY Zenon, <3>2, <3>3, <3>4 DEF PoolInv, PoolStep
  <2> QED
    BY Zenon, <2>2, <2>3, <2>4

(* The executor starts a job, or a reaper retires its slot. *)
<1>JobInv.
    ASSUME PoolInv, NEW t \in Task, JobStep(t)
    PROVE  PoolStep
  <2> USE <1>JobInv
  <2> USE DEF innerVars, slotVars, sessionVars, lockVars, envVars
  <2>0. TypeOK /\ HandlesSound /\ TasksSound /\ ReservationsSound
    BY Zenon DEF PoolInv
  <2>1. /\ {"relcur", "take", "forget"} \subseteq PCs \ {"spawn", "install"}
        /\ {"take", "forget"} \cap ServesSession = {} /\ "relcur" \notin UsesWorker \cup Retiring
        /\ "job" \in Ops \ Requests /\ {"final", "job", "none"} \subseteq Callers \ {"call"}
    BY Zenon DEF PCs, ServesSession, UsesWorker, Retiring, Ops, Requests, Callers
  <2>2. ASSUME NEW w \in Worker, ReapIdle(t, w)  PROVE PoolStep
    <3>1. Quiet(TaskAt("forget", "job", NoSession, w, 0, NoWorker, "final"))
      BY <2>1, <1>StartQuiet, PoolAssumption
    <3>2. Moves(t)
      BY Zenon, <2>2, <3>1 DEF ReapIdle, Moves
    <3>3. /\ state' \in [Worker -> ChildState]
          /\ \A v \in children : state[v] = Dead => state'[v] = Dead
      BY Zenon, <2>0, <2>2, ChildStates DEF ReapIdle, TypeOK
    <3> QED
      BY Zenon, <2>0, <2>2, <3>2, <3>3, <1>QuietInv DEF ReapIdle, TypeOK, LeaseSet, HandlesSound
  <2>3. ASSUME NEW j \in jobs, StartJob(t, j)  PROVE PoolStep
    <3>1. /\ j \in JobSet /\ jobs' \subseteq jobs /\ jobs' \subseteq JobSet
          /\ task[t] = IdleTask /\ task \in [Task -> TaskState]
      BY Zenon, <2>0, <2>3 DEF StartJob, TypeOK
    <3>2. /\ j.kind = "drop" => j.s \in Session /\ j.w \in Worker \cup {NoWorker}
          /\ j.kind # "drop" => j.s \in Session \cup {NoSession} /\ j.w \in Worker
      BY Zenon, <3>1 DEF JobSet
    <3>3. Moves(t)
      <4>1. CASE j.kind = "unreserve"
        <5>1. task' = [task EXCEPT ![t] = IdleTask]
          BY Zenon, <2>3, <3>1, <4>1 DEF StartJob
        <5> QED
          BY Zenon, <5>1, IdleQuiet DEF Moves
      <4>2. CASE j.kind = "drop"
        <5>1. Quiet(TaskAt("relcur", "job", j.s, j.w, 0, NoWorker, "none"))
          BY <2>1, <3>2, <4>2, <1>StartQuiet, PoolAssumption
        <5> QED
          BY Zenon, <2>3, <4>2, <5>1 DEF StartJob, Moves
      <4>3. ASSUME j.kind \notin {"unreserve", "drop"}, NEW c \in {"final", "job"}
            PROVE  Quiet(TaskAt("take", "job", j.s, j.w, 0, NoWorker, c))
        BY <2>1, <3>2, <4>3, <1>StartQuiet, PoolAssumption
      <4>4. CASE j.kind \notin {"unreserve", "drop"}
        BY Zenon, <2>3, <4>3, <4>4 DEF StartJob, Moves
      <4> QED
        BY Zenon, <4>1, <4>2, <4>4
    <3>4. CASE GivesBack(j)
      <4>1. j.w < nextId /\ \A u \in Task \ {t} : Spawning(u) => task[u].n # j.w
        BY Zenon, <2>0, <3>4 DEF ReservationsSound
      <4>2. spawning' = spawning \ {j.w}
        BY Zenon, <2>3, <3>4 DEF StartJob, GivesBack
      <4>3. task' \in [Task -> TaskState] /\ TasksSound' /\ ReservationsSound'
        BY Zenon, <2>3, <3>1, <3>3, <4>1, <4>2, <1>ReservationOver DEF StartJob
      <4>4. TypeOK' /\ HandlesSound'
        BY Zenon, <2>0, <2>3, <3>1, <4>2, <4>3 DEF StartJob, TypeOK, HandlesSound
      <4>5. Shrinks
        BY Zenon, <2>3, <4>2 DEF StartJob, Shrinks, Live
      <4> QED
        BY Zenon, <4>3, <4>4, <4>5 DEF PoolInv, PoolStep
    <3>5. CASE ~GivesBack(j)
      <4>1. spawning' = spawning
        BY Zenon, <2>3, <3>5 DEF StartJob, GivesBack
      <4> QED
        BY Zenon, <2>0, <2>3, <3>1, <3>3, <4>1, <1>QuietInv DEF StartJob, TypeOK, LeaseSet, HandlesSound
    <3> QED
      BY Zenon, <3>4, <3>5
  <2> QED
    BY Zenon, <2>2, <2>3 DEF JobStep

(* A request's future is dropped: the job that it leaves behind owns the   *)
(* reservation that the request had (Drop for SpawnReservation).           *)
<1>DropInv.
    ASSUME PoolInv, NEW t \in Task, DropFuture(t)
    PROVE  PoolStep
  <2> USE <1>DropInv
  <2> USE DEF innerVars, slotVars, sessionVars, lockVars, envVars
  <2> DEFINE x == task[t]
             new == GuardJobs(x) \cup ReservationJobs(x)
  <2>0. TypeOK /\ HandlesSound /\ TasksSound /\ ReservationsSound
    BY Zenon DEF PoolInv
  <2>1. /\ x \in TaskState /\ TaskSound(x) /\ x.s \in Session
        /\ Spawning(t) => x.n \in spawning /\ x.n \in Worker /\ x.n < nextId
    BY Zenon, <2>0 DEF TypeOK, TasksSound, ReservationsSound, DropFuture, TaskSound
  <2>2. /\ new \subseteq JobSet
        /\ \A j \in new : GivesBack(j) => Spawning(t) /\ j.w = x.n
    <3>1. \A j \in GuardJobs(x) : j \in JobSet /\ ~GivesBack(j)
      <4>1. GuardJobs(x) # {} => x.w \in Worker
        BY Zenon, <2>1 DEF GuardJobs, TaskSound, UsesWorker
      <4>2. \A j \in GuardJobs(x) : j = Job("retire", x.w, x.s)
        BY Zenon DEF GuardJobs
      <4>3. x.w \in Worker => Job("retire", x.w, x.s) \in JobSet /\ ~GivesBack(Job("retire", x.w, x.s))
        BY Zenon, <2>1 DEF Job, JobSet, GivesBack
      <4> HIDE DEF x
      <4> QED
        BY Zenon, <4>1, <4>2, <4>3
    <3>2. \A j \in ReservationJobs(x) : j \in JobSet /\ Spawning(t) /\ j.w = x.n
      BY <2>1 DEF ReservationJobs, Job, JobSet, Spawning
    <3> QED
      BY <3>1, <3>2
  <2>3. /\ task' = [task EXCEPT ![t] = IdleTask] /\ jobs' = jobs \cup new
        /\ UNCHANGED <<children, spawning, nextId, state, handle>>
    BY Zenon DEF DropFuture, Done
  <2>4. /\ task' \in [Task -> TaskState] /\ ~Spawning(t)' /\ TaskSound(task'[t])
        /\ \A u \in Task \ {t} : task'[u] = task[u]
    BY Zenon, <2>0, <2>3, IdleQuiet DEF TypeOK, Quiet, Spawning
  <2>5. TypeOK'
    <3>1. /\ callLock' \in [Worker -> Task \cup {NoTask}]
          /\ handleLock' \in [Session -> Task \cup {NoTask}]
      BY Zenon, <2>0 DEF DropFuture, TypeOK
    <3>2. process' \in [Worker -> BOOLEAN] /\ drops' \in 0..MaxDrops
      <4>1. process' = process \/ process' = [process EXCEPT ![x.w] = FALSE]
        BY Zenon DEF DropFuture
      <4>2. process' \in [Worker -> BOOLEAN]
        BY ZenonT(40), <2>0, <4>1 DEF TypeOK
      <4>3. drops < MaxDrops /\ drops' = drops + 1
        BY Zenon DEF DropFuture
      <4> QED
        BY <2>0, <4>2, <4>3, PoolAssumption DEF TypeOK
    <3>3. jobs' \subseteq JobSet
      BY Zenon, <2>0, <2>2, <2>3 DEF TypeOK
    <3>4. UNCHANGED <<idbPath, reaper, nextGeneration, alive, down>>
      BY Zenon DEF DropFuture
    <3> QED
      BY Zenon, <2>0, <2>3, <2>4, <3>1, <3>2, <3>3, <3>4 DEF TypeOK
  <2>6. TasksSound' /\ HandlesSound'
    BY Zenon, <2>0, <2>3, <2>4 DEF TasksSound, HandlesSound, Spawning
  <2>7. ReservationsSound'
    <3>1. \A u \in Task : Spawning(u)' => u # t /\ Spawning(u) /\ task'[u].n = task[u].n
      BY Zenon, <2>4 DEF Spawning
    <3>2. \A u \in Task : \A j \in jobs' : Spawning(u)' /\ GivesBack(j) => j.w # task'[u].n
      BY Zenon, <2>0, <2>2, <2>3, <3>1 DEF ReservationsSound
    <3>3. \A j \in jobs' : GivesBack(j) => j.w < nextId
      <4>1. \A j \in jobs : GivesBack(j) => j.w < nextId
        BY Zenon, <2>0 DEF ReservationsSound
      <4>2. \A j \in new : GivesBack(j) => j.w < nextId
        BY Zenon, <2>1, <2>2
      <4> HIDE DEF new
      <4> QED
        BY Zenon, <2>3, <4>1, <4>2
    <3>4. \A u, v \in Task : Spawning(u)' /\ Spawning(v)' /\ u # v => task'[u].n # task'[v].n
      BY Zenon, <2>0, <3>1 DEF ReservationsSound
    <3>5. /\ \A n \in spawning' : n \notin children' /\ n < nextId'
          /\ \A w \in children' : w < nextId'
      BY Zenon, <2>0, <2>3 DEF ReservationsSound
    <3>6. \A j : GivesBack(j)' <=> GivesBack(j)
      BY Zenon DEF GivesBack
    <3> HIDE DEF new, x
    <3> QED
      BY Zenon, <2>3, <3>2, <3>3, <3>4, <3>5, <3>6 DEF ReservationsSound
  <2>8. Shrinks
    BY Zenon, <2>0, <2>3 DEF Shrinks, Live
  <2> QED
    BY Zenon, <2>5, <2>6, <2>7, <2>8 DEF PoolInv, PoolStep
<1> SUFFICES ASSUME PoolInv, [Next]_vars PROVE PoolStep
  BY Zenon
<1>1. ASSUME NEW t \in Task, RequestStep(t)  PROVE PoolStep
  BY Zenon, <1>1, <1>RequestInv, <1>ReserveInv, <1>NoTaskInv DEF RequestStep
<1>2. ASSUME NEW t \in Task, TaskStep(t)  PROVE PoolStep
  BY Zenon, <1>2, <1>SpawnInv, <1>CallInv, <1>ReleaseInv, <1>ReserveInv DEF TaskStep
<1>3. ASSUME NEW t \in Task, JobStep(t)  PROVE PoolStep
  BY Zenon, <1>3, <1>JobInv
<1>4. ASSUME NEW t \in Task, DropFuture(t)  PROVE PoolStep
  BY Zenon, <1>4, <1>DropInv
<1>5. CASE \/ \E s \in Session : DropSession(s)
           \/ \E w \in Worker : ReapSkip(w)
           \/ ShutdownAll \/ UNCHANGED vars
  BY Zenon, <1>5, <1>NoTaskInv
<1> QED
  BY Zenon, <1>1, <1>2, <1>3, <1>4, <1>5 DEF Next

(* For every number of sessions, tasks and workers: reservations are        *)
(* accounted for once, whatever spawns, drops and retirements interleave.  *)
THEOREM PoolInvariant == Spec => []PoolInv
<1>1. PoolInv /\ [Next]_vars => PoolInv'
  BY Zenon, NextInv DEF PoolStep
<1> QED
  BY <1>1, InitInv, PTL DEF Spec

(* The pool's variables keep the types that pool.rs declares. *)
THEOREM TypeCorrect == Spec => []TypeOK
<1>1. PoolInv => TypeOK
  BY Zenon DEF PoolInv
<1> QED
  BY <1>1, PoolInvariant, PTL

-----------------------------------------------------------------------------
(* Who owns what: leases, calls at a child, reservations and processes.    *)

(* An id that some slot has had: reserved, and no longer being spawned. *)
Known(w) == w \in Worker /\ w < nextId /\ w \notin spawning
KnownThen(w) == w \in Worker /\ w < nextId' /\ w \notin spawning'

NeedsWorker(x) == x.pc \in UsesWorker \/ x.caller # "none"
HoldsLock(x) == x.pc \in {"rpc", "closing"} \/ x.caller \in {"call", "release"}

(* Handles, tasks, retirements and reapers name slots that were installed  *)
(* or discarded, never one that a spawn is still making.                   *)
WorkersKnown ==
  /\ \A s \in Session : handle[s] # NoLease => Known(handle[s].worker)
  /\ \A t \in Task : NeedsWorker(task[t]) => Known(task[t].w)
  /\ \A j \in jobs : j.kind \in {"retire", "shutdown"} => Known(j.w)
  /\ \A w \in Worker : reaper[w] => Known(w)

(* Only a running mark_dead has a caller, or a fatal error that waits for  *)
(* the handle lock before its mark_dead.                                   *)
CallerSound(x) ==
  x.caller # "none" => \/ x.pc \in Retiring \cup {"spawn", "install"}
                       \/ x.pc = "clear" /\ x.caller = "tool"

(* A task at a child, or retiring one from inside call_tool or             *)
(* release_inner, has the slot's call_lock.                                *)
LocksHeld ==
  \A t \in Task : CallerSound(task[t]) /\ (HoldsLock(task[t]) => callLock[task[t].w] = t)

(* A release is alone: it took the only handle of its slot. *)
ReleasesAlone ==
  /\ \A t \in Task : task[t].pc = "release" => state[task[t].w] \in {Leased(task[t].s), Dead}
  /\ \A t \in Task, s \in Session :
       task[t].pc = "release" /\ handle[s] # NoLease /\ handle[s].worker = task[t].w
         => state[task[t].w] = Dead
  /\ \A t, u \in Task :
       t # u /\ task[t].pc = "release" /\ task[u].pc = "release" /\ task[t].w = task[u].w
         => state[task[t].w] = Dead
  /\ \A t \in Task : task[t].pc = "closing" => state[task[t].w] \in {Closing, Dead}

(* A slot that is being installed is as spawn_slot made it. *)
InstallsFresh ==
  \A t \in Task : task[t].pc = "install" =>
    state[task[t].n] = IF task[t].caller = "none" THEN Leased(task[t].s) ELSE Idle

Slots == ReleasesAlone /\ InstallsFresh /\ HandleOwnsSlot /\ DispatchIsolated

(* The inductive invariant for leases and calls. *)
LeaseRest == WorkersKnown /\ LocksHeld /\ Slots
LeaseInv == PoolInv /\ LeaseRest

-----------------------------------------------------------------------------
(* What a step does to the tasks. *)
Moved(t) == \A u \in Task \ {t} : task'[u] = task[u]
Keeps(t) == /\ task'[t].op = task[t].op /\ task'[t].s = task[t].s /\ task'[t].w = task[t].w
            /\ task'[t].n = task[t].n /\ task'[t].g = task[t].g

(* A task that goes on at p changes nothing else. *)
LEMMA GotoFacts ==
  ASSUME TypeOK, NEW t \in Task, NEW p, Goto(t, p)
  PROVE  Moved(t) /\ Keeps(t) /\ task'[t].pc = p /\ task'[t].caller = task[t].caller
BY Zenon DEF TypeOK, Goto, Moved, Keeps, TaskState

(* The same when mark_dead is called for c. *)
LEMMA CallerFacts ==
  ASSUME TypeOK, NEW t \in Task, NEW p, NEW c,
         task' = [task EXCEPT ![t].pc = p, ![t].caller = c]
  PROVE  Moved(t) /\ Keeps(t) /\ task'[t].pc = p /\ task'[t].caller = c
BY Zenon DEF TypeOK, Moved, Keeps, TaskState

(* A task that ends is free. *)
LEMMA DoneFacts ==
  ASSUME TypeOK, NEW t \in Task, Done(t)
  PROVE  Moved(t) /\ task'[t] = IdleTask /\ task'[t].pc = "idle" /\ task'[t].caller = "none"
BY Zenon DEF TypeOK, Done, Moved, IdleTask, TaskAt

(* A task that starts has the fields it is given. *)
LEMMA StartFacts ==
  ASSUME TypeOK, NEW t \in Task, NEW pc, NEW op, NEW s, NEW w, NEW g, NEW n, NEW c,
         task' = [task EXCEPT ![t] = TaskAt(pc, op, s, w, g, n, c)]
  PROVE  /\ Moved(t)
         /\ task'[t].pc = pc /\ task'[t].op = op /\ task'[t].s = s /\ task'[t].w = w
         /\ task'[t].n = n /\ task'[t].caller = c
BY Zenon DEF TypeOK, Moved, TaskAt

(* mark_dead returns: into the error path of a call, or the task ends. *)
LEMMA ReturnFacts ==
  ASSUME TypeOK, NEW t \in Task, MarkDeadReturns(t)
  PROVE  /\ Moved(t)
         /\ task'[t].pc \in {"relcur", "clear", "idle"} /\ task'[t].caller = "none"
         /\ task'[t].pc # "idle" => task[t].caller = "call" /\ task'[t].w = task[t].w
         /\ \A w \in Worker : callLock'[w] \in {callLock[w], NoTask}
         /\ \A w \in Worker : w # task[t].w => callLock'[w] = callLock[w]
         /\ task[t].caller \notin {"call", "release"} => callLock' = callLock
BY Zenon DEF TypeOK, MarkDeadReturns, Moved, IdleTask, TaskAt, TaskState

(* The states of a slot are told apart by their tag and their session. *)
LEMMA StatesDiffer ==
  /\ \A a, b : Leased(a) = Leased(b) => a = b
  /\ \A a : Leased(a) # Idle /\ Leased(a) # Closing /\ Leased(a) # Dead
  /\ Idle # Closing /\ Idle # Dead /\ Closing # Dead
BY Zenon DEF Leased, Idle, Closing, Dead, Child

(* Only a leased slot has the tag Leased; no lease names no worker. *)
LEMMA NoLeaseTags ==
  Idle.tag # "Leased" /\ Closing.tag # "Leased" /\ Dead.tag # "Leased" /\ NoLease.worker \notin Worker
<1>1. NoLease.worker = -1
  BY Zenon DEF NoLease, Lease, NoWorker
<1>2. -1 \notin Worker
  BY DEF Worker
<1> QED
  BY Zenon, <1>1, <1>2 DEF Idle, Closing, Dead, Child

(* A task at rest is idle. *)
LEMMA IdleAtRest == IdleTask.pc = "idle" /\ IdleTask.caller = "none"
BY Zenon DEF IdleTask, TaskAt

(* A pool that has only been warmed has no lease, no task and no job. *)
LEMMA InitLease == Init => LeaseInv
<1> SUFFICES ASSUME Init PROVE LeaseInv
  BY Zenon
<1>1. PoolInv
  BY Zenon, InitInv
<1>2. /\ \A t \in Task : task[t].pc = "idle" /\ task[t].caller = "none"
      /\ \A s \in Session : handle[s] = NoLease
      /\ \A w \in Worker : ~reaper[w]
      /\ jobs = {}
  BY Zenon DEF Init, IdleTask, TaskAt
<1>3. \A t \in Task : ~NeedsWorker(task[t]) /\ ~HoldsLock(task[t]) /\ CallerSound(task[t])
  BY Zenon, <1>2 DEF NeedsWorker, HoldsLock, CallerSound, UsesWorker, Retiring
<1>4. WorkersKnown /\ LocksHeld
  BY Zenon, <1>2, <1>3 DEF WorkersKnown, LocksHeld
<1>5. Slots
  BY Zenon, <1>2 DEF Slots, ReleasesAlone, InstallsFresh, HandleOwnsSlot, DispatchIsolated
<1> QED
  BY Zenon, <1>1, <1>4, <1>5 DEF LeaseInv, LeaseRest

(* Every step keeps the invariant. *)
LEMMA NextLease == LeaseInv /\ [Next]_vars => LeaseInv'
(* Known ids stay known while ids are only handed out and given back. *)
<1>KnownKept.
    ASSUME TypeOK, NEW w, Known(w), nextId' \in {nextId, nextId + 1},
           spawning' \subseteq spawning \cup {nextId}
    PROVE  KnownThen(w)
  BY <1>KnownKept DEF Known, KnownThen, TypeOK, Worker

(* The part of the invariant about ids and locks, for a step of task t. *)
<1>KnownStep.
    ASSUME TypeOK, WorkersKnown, LocksHeld, NEW t \in Task, Moved(t),
           nextId' \in {nextId, nextId + 1}, spawning' \subseteq spawning \cup {nextId},
           NeedsWorker(task'[t]) => KnownThen(task'[t].w),
           CallerSound(task'[t]), HoldsLock(task'[t]) => callLock'[task'[t].w] = t,
           \A u \in Task \ {t} : \A w \in Worker : callLock[w] = u => callLock'[w] = u,
           \A s \in Session : \/ handle'[s] \in {handle[s], NoLease}
                              \/ KnownThen(handle'[s].worker),
           \A j \in jobs' : j \in jobs \/ (j.kind \in {"retire", "shutdown"} => KnownThen(j.w)),
           \A w \in Worker : reaper'[w] => reaper[w] \/ KnownThen(w)
    PROVE  WorkersKnown' /\ LocksHeld'
  <2> USE <1>KnownStep
  <2>1. \A w : Known(w) => KnownThen(w)
    BY Zenon, <1>KnownKept
  <2>2. \A s \in Session : handle'[s] # NoLease => KnownThen(handle'[s].worker)
    BY Zenon, <2>1 DEF WorkersKnown
  <2>3. \A u \in Task : NeedsWorker(task'[u]) => KnownThen(task'[u].w)
    BY Zenon, <2>1 DEF WorkersKnown, Moved
  <2>4. \A j \in jobs' : j.kind \in {"retire", "shutdown"} => KnownThen(j.w)
    BY Zenon, <2>1 DEF WorkersKnown
  <2>5. \A w \in Worker : reaper'[w] => KnownThen(w)
    BY Zenon, <2>1 DEF WorkersKnown
  <2>6. ASSUME NEW u \in Task \ {t}, HoldsLock(task'[u])
        PROVE  callLock'[task'[u].w] = u
    <3>1. task'[u] = task[u] /\ callLock[task[u].w] = u
      BY Zenon, <2>6 DEF Moved, LocksHeld
    <3>2. task[u].w \in Worker
      BY Zenon, <2>6, <3>1 DEF WorkersKnown, NeedsWorker, HoldsLock, UsesWorker, Known
    <3> QED
      BY Zenon, <3>1, <3>2
  <2>7. \A u \in Task : CallerSound(task'[u])
    BY Zenon DEF Moved, LocksHeld
  <2> QED
    BY Zenon, <2>2, <2>3, <2>4, <2>5, <2>6, <2>7
    DEF WorkersKnown, LocksHeld, NeedsWorker, HoldsLock, CallerSound, Known, KnownThen

(* The part about slots, for a step that at most kills known slots, takes  *)
(* handles away, and starts no release, install or call at a child that    *)
(* it does not own.                                                        *)
<1>QuietSlots.
    ASSUME LeaseInv, NEW t \in Task, Moved(t),
           task'[t].pc \notin {"release", "closing", "install"},
           task'[t].pc = "rpc" => state'[task'[t].w] \in {Leased(task'[t].s), Dead},
           \A w \in Worker : state'[w] = state[w] \/ (Known(w) /\ state'[w] = Dead),
           \A s \in Session : handle'[s] \in {handle[s], NoLease}
    PROVE  Slots'
  <2> USE <1>QuietSlots
  <2>0. /\ ReleasesAlone /\ InstallsFresh /\ HandleOwnsSlot /\ DispatchIsolated
        /\ WorkersKnown /\ TasksSound /\ TypeOK
    BY Zenon DEF LeaseInv, LeaseRest, Slots, PoolInv
  <2>1. \A u \in Task : task[u].pc \in {"release", "closing", "rpc"} => task[u].w \in Worker
    BY Zenon, <2>0 DEF WorkersKnown, NeedsWorker, UsesWorker, Known
  <2>2. \A s \in Session : handle[s] # NoLease => handle[s].worker \in Worker
    BY Zenon, <2>0 DEF WorkersKnown, Known
  <2>3. \A u \in Task : task[u].pc = "install" =>
          /\ task[u].n \in Worker /\ state'[task[u].n] = state[task[u].n]
    BY Zenon, <2>0 DEF TasksSound, Spawning, TypeOK, Known
  <2>4. ReleasesAlone'
    BY <2>0, <2>1 DEF ReleasesAlone, Moved
  <2>5. InstallsFresh'
    BY <2>0, <2>3 DEF InstallsFresh, Moved
  <2>6. HandleOwnsSlot'
    BY Zenon, <2>0, <2>2 DEF HandleOwnsSlot
  <2>7. DispatchIsolated'
    BY Zenon, <2>0, <2>1 DEF DispatchIsolated, Moved
  <2> QED
    BY Zenon, <2>4, <2>5, <2>6, <2>7 DEF Slots

(* Both parts, for a step of task t that touches no slot but to kill it. *)
<1>QuietTask.
    ASSUME LeaseInv, NEW t \in Task, Moved(t),
           task'[t].pc \notin {"release", "closing", "install"},
           task'[t].pc = "rpc" => state'[task'[t].w] \in {Leased(task'[t].s), Dead},
           NeedsWorker(task'[t]) => KnownThen(task'[t].w),
           CallerSound(task'[t]), HoldsLock(task'[t]) => callLock'[task'[t].w] = t,
           \A u \in Task \ {t} : \A w \in Worker : callLock[w] = u => callLock'[w] = u,
           nextId' \in {nextId, nextId + 1}, spawning' \subseteq spawning \cup {nextId},
           \A w \in Worker : state'[w] = state[w] \/ (Known(w) /\ state'[w] = Dead),
           \A s \in Session : handle'[s] \in {handle[s], NoLease},
           \A j \in jobs' : j \in jobs \/ (j.kind \in {"retire", "shutdown"} => KnownThen(j.w)),
           \A w \in Worker : reaper'[w] => reaper[w] \/ KnownThen(w)
    PROVE  LeaseRest'
  <2> USE <1>QuietTask
  <2>1. TypeOK /\ WorkersKnown /\ LocksHeld
    BY Zenon DEF LeaseInv, LeaseRest, PoolInv
  <2>2. WorkersKnown' /\ LocksHeld'
    BY Zenon, <2>1, <1>KnownStep
  <2>3. Slots'
    BY Zenon, <1>QuietSlots
  <2> QED
    BY Zenon, <2>2, <2>3 DEF LeaseRest

(* The same for a task that goes on with its worker or gives its lock back. *)
<1>GoOn.
    ASSUME LeaseInv, NEW t \in Task, Moved(t),
           task'[t].pc \notin {"release", "closing", "install", "rpc"},
           NeedsWorker(task'[t]) => KnownThen(task'[t].w), CallerSound(task'[t]),
           HoldsLock(task'[t]) => HoldsLock(task[t]) /\ task'[t].w = task[t].w,
           \A w \in Worker : \/ callLock'[w] = callLock[w]
                             \/ callLock[w] = t /\ ~HoldsLock(task'[t]),
           nextId' \in {nextId, nextId + 1}, spawning' \subseteq spawning \cup {nextId},
           \A w \in Worker : state'[w] = state[w] \/ (Known(w) /\ state'[w] = Dead),
           \A s \in Session : handle'[s] \in {handle[s], NoLease},
           \A j \in jobs' : j \in jobs \/ (j.kind \in {"retire", "shutdown"} => KnownThen(j.w)),
           \A w \in Worker : reaper'[w] => reaper[w] \/ KnownThen(w)
    PROVE  LeaseRest'
  <2> USE <1>GoOn
  <2>1. LocksHeld /\ WorkersKnown
    BY Zenon DEF LeaseInv, LeaseRest
  <2>2. HoldsLock(task[t]) => callLock[task[t].w] = t /\ task[t].w \in Worker
    BY Zenon, <2>1 DEF LocksHeld, WorkersKnown, NeedsWorker, HoldsLock, UsesWorker, Known
  <2>3. HoldsLock(task'[t]) => callLock'[task'[t].w] = t
    BY Zenon, <2>2
  <2>4. \A u \in Task \ {t} : \A w \in Worker : callLock[w] = u => callLock'[w] = u
    BY Zenon
  <2> QED
    BY Zenon, <2>3, <2>4, <1>QuietTask

(* A task ends, or starts, with nothing else changed that matters here. *)
<1>GoOnAlone.
    ASSUME LeaseInv, NEW t \in Task, Moved(t),
           task'[t].pc \notin {"release", "closing", "install", "rpc"},
           NeedsWorker(task'[t]) => Known(task'[t].w), CallerSound(task'[t]),
           HoldsLock(task'[t]) => HoldsLock(task[t]) /\ task'[t].w = task[t].w,
           \A w \in Worker : \/ callLock'[w] = callLock[w]
                             \/ callLock[w] = t /\ ~HoldsLock(task'[t]),
           \A s \in Session : handle'[s] \in {handle[s], NoLease},
           UNCHANGED <<nextId, spawning, state, jobs, reaper>>
    PROVE  LeaseRest'
  <2> USE <1>GoOnAlone
  <2>1. \A w : Known(w) <=> KnownThen(w)
    BY Zenon DEF Known, KnownThen
  <2>2. TypeOK
    BY Zenon DEF LeaseInv, PoolInv
  <2>3. nextId' = nextId /\ spawning' = spawning
    BY Zenon
  <2> QED
    BY Zenon, <2>1, <2>3, <1>GoOn

(* Requests that find a handle go on to call its slot. *)
<1>StartLease.
    ASSUME LeaseInv, NEW t \in Task, NEW s \in Session,
           OpenOnLease(t, s) \/ \E g \in {0} \cup Generation : StartCall(t, s, g)
    PROVE  LeaseRest'
  <2> USE <1>StartLease
  <2> USE DEF innerVars, slotVars, sessionVars, lockVars, envVars
  <2>1. TypeOK /\ WorkersKnown
    BY Zenon DEF LeaseInv, LeaseRest, PoolInv
  <2>2. /\ handle[s] # NoLease
        /\ \E op, g : StartTask(t, "call", op, s, handle[s].worker, g)
        /\ UNCHANGED <<innerVars, slotVars, sessionVars, lockVars, envVars>>
    BY Zenon DEF OpenOnLease, StartCall
  <2>3. PICK op, g : StartTask(t, "call", op, s, handle[s].worker, g)
    BY Zenon, <2>2
  <2>4. /\ Moved(t) /\ task'[t].pc = "call" /\ task'[t].w = handle[s].worker
        /\ task'[t].caller = "none"
    BY Zenon, <2>1, <2>3 DEF StartTask, TaskAt, Moved, TypeOK
  <2>5. Known(task'[t].w)
    BY Zenon, <2>1, <2>2, <2>4 DEF WorkersKnown
  <2>6. ~HoldsLock(task'[t]) /\ CallerSound(task'[t])
    BY Zenon, <2>4 DEF HoldsLock, CallerSound
  <2> QED
    BY Zenon, <2>2, <2>4, <2>5, <2>6, <1>GoOnAlone

(* The steps of call_tool, and of its error paths. *)
<1>CallLease.
    ASSUME LeaseInv, NEW t \in Task,
           \/ CallDispatch(t) \/ CallRefused(t)
           \/ \E answer \in {"ok", "error", "fatal"} : RpcAnswer(t, answer)
           \/ RpcKill(t) \/ RecordPath(t) \/ ClearHandleIfWorker(t)
    PROVE  LeaseRest'
  <2> USE <1>CallLease
  <2> USE DEF innerVars, slotVars, sessionVars, lockVars, envVars
  <2>1. TypeOK /\ WorkersKnown /\ LocksHeld /\ CallerSound(task[t])
    BY Zenon DEF LeaseInv, LeaseRest, PoolInv, LocksHeld
  <2>2. task[t].pc \in UsesWorker => Known(task[t].w) /\ task[t].w \in Worker
    BY Zenon, <2>1 DEF WorkersKnown, Known, NeedsWorker
  <2>3. CASE CallDispatch(t)
    <3>1. /\ Moved(t) /\ Keeps(t) /\ task'[t].pc = "rpc" /\ task'[t].caller = task[t].caller
      BY Zenon, <2>1, <2>3, GotoFacts DEF CallDispatch
    <3>2. Known(task[t].w) /\ task[t].w \in Worker /\ task[t].caller = "none"
      BY Zenon, <2>1, <2>2, <2>3 DEF CallDispatch, UsesWorker, CallerSound, Retiring
    <3>3. /\ callLock'[task[t].w] = t
          /\ \A u \in Task \ {t} : \A w \in Worker : callLock[w] = u => callLock'[w] = u
      BY Zenon, <2>1, <2>3, <3>2, PoolAssumption DEF CallDispatch, TypeOK
    <3>4. \A w : Known(w) <=> KnownThen(w)
      BY Zenon, <2>3 DEF Known, KnownThen, CallDispatch
    <3>5. CallerSound(task'[t])
      BY Zenon, <3>1, <3>2 DEF CallerSound
    <3> QED
      BY Zenon, <2>3, <3>1, <3>2, <3>3, <3>4, <3>5, <1>QuietTask DEF CallDispatch, Keeps
  <2>4. CASE CallRefused(t)
    <3>1. \/ Goto(t, "clear") \/ Goto(t, "relcur") \/ Done(t)
      BY Zenon, <2>4 DEF CallRefused
    <3>2. Known(task[t].w) /\ task[t].caller = "none"
      BY ZenonT(40), <2>1, <2>2, <2>4 DEF CallRefused, UsesWorker, CallerSound, Retiring
    <3>3. /\ Moved(t) /\ task'[t].pc \in {"clear", "relcur", "idle"} /\ task'[t].caller = "none"
          /\ task'[t].pc # "idle" => task'[t].w = task[t].w
      BY Zenon, <2>1, <3>1, <3>2, GotoFacts, DoneFacts DEF Keeps
    <3>4. /\ ~HoldsLock(task'[t]) /\ CallerSound(task'[t])
          /\ NeedsWorker(task'[t]) => Known(task'[t].w)
      BY Zenon, <3>2, <3>3 DEF NeedsWorker, UsesWorker, Retiring, HoldsLock, CallerSound
    <3> QED
      BY Zenon, <2>4, <3>3, <3>4, <1>GoOnAlone DEF CallRefused
  <2>5. ASSUME NEW answer \in {"ok", "error", "fatal"}, RpcAnswer(t, answer) PROVE LeaseRest'
    <3>1. \/ Goto(t, "path") \/ Goto(t, "relcur") \/ Done(t)
          \/ task' = [task EXCEPT ![t].pc = "clear", ![t].caller = "tool"]
      BY Zenon, <2>5 DEF RpcAnswer
    <3>2. /\ Known(task[t].w) /\ task[t].w \in Worker /\ task[t].caller = "none"
          /\ callLock[task[t].w] = t
      BY Zenon, <2>1, <2>2, <2>5 DEF RpcAnswer, UsesWorker, CallerSound, Retiring, LocksHeld, HoldsLock
    <3>3. /\ Moved(t) /\ task'[t].pc \in {"path", "clear", "relcur", "idle"}
          /\ \/ task'[t].caller = "none"
             \/ task'[t].pc = "clear" /\ task'[t].caller = "tool"
          /\ task'[t].pc # "idle" => task'[t].w = task[t].w
      BY <2>1, <3>1, <3>2, GotoFacts, DoneFacts, CallerFacts DEF Keeps
    <3>4. /\ ~HoldsLock(task'[t]) /\ CallerSound(task'[t])
          /\ NeedsWorker(task'[t]) => Known(task'[t].w)
      BY Zenon, <3>2, <3>3 DEF NeedsWorker, UsesWorker, Retiring, HoldsLock, CallerSound
    <3>5. \A w \in Worker : callLock'[w] = callLock[w] \/ callLock[w] = t
      BY Zenon, <2>1, <2>5, <3>2 DEF RpcAnswer, TypeOK
    <3> QED
      BY Zenon, <2>5, <3>3, <3>4, <3>5, <1>GoOnAlone DEF RpcAnswer
  <2>6. CASE RpcKill(t)
    <3>1. Moved(t) /\ Keeps(t) /\ task'[t].pc = "take" /\ task'[t].caller = "call"
      BY Zenon, <2>1, <2>6, CallerFacts DEF RpcKill
    <3>2. Known(task[t].w) /\ HoldsLock(task[t]) /\ task[t].pc = "rpc"
      BY Zenon, <2>2, <2>6 DEF RpcKill, UsesWorker, HoldsLock
    <3>3. CallerSound(task'[t])
      BY Zenon, <3>1 DEF CallerSound, Retiring
    <3> QED
      BY Zenon, <2>6, <3>1, <3>2, <3>3, <1>GoOnAlone DEF RpcKill, Keeps
  <2>7. CASE RecordPath(t)
    <3>1. Moved(t) /\ task'[t].pc = "idle" /\ task'[t].caller = "none"
      BY Zenon, <2>1, <2>7, DoneFacts DEF RecordPath
    <3>2. ~NeedsWorker(task'[t]) /\ ~HoldsLock(task'[t]) /\ CallerSound(task'[t])
      BY Zenon, <3>1 DEF NeedsWorker, UsesWorker, Retiring, HoldsLock, CallerSound
    <3> QED
      BY Zenon, <2>7, <3>1, <3>2, <1>GoOnAlone DEF RecordPath
  <2>8. CASE ClearHandleIfWorker(t)
    <3>1. Known(task[t].w) /\ task[t].caller \in {"none", "tool"}
      BY Zenon, <2>1, <2>2, <2>8 DEF ClearHandleIfWorker, UsesWorker, CallerSound, Retiring
    <3>2. \/ task[t].caller = "tool" /\ Goto(t, "take")
          \/ Done(t)
      BY ZenonT(40), <2>8 DEF ClearHandleIfWorker
    <3>3. /\ Moved(t)
          /\ \/ task'[t].pc = "take" /\ task'[t].caller = "tool" /\ task'[t].w = task[t].w
             \/ task'[t].pc = "idle" /\ task'[t].caller = "none"
      BY Zenon, <2>1, <3>2, GotoFacts, DoneFacts DEF Keeps
    <3>4. /\ ~HoldsLock(task'[t]) /\ CallerSound(task'[t])
          /\ NeedsWorker(task'[t]) => Known(task'[t].w)
      BY Zenon, <3>1, <3>3 DEF NeedsWorker, UsesWorker, Retiring, HoldsLock, CallerSound
    <3>5. \A s \in Session : handle'[s] \in {handle[s], NoLease}
      BY Zenon, <2>1, <2>8 DEF ClearHandleIfWorker, TypeOK
    <3> QED
      BY Zenon, <2>8, <3>3, <3>4, <3>5, <1>GoOnAlone DEF ClearHandleIfWorker
  <2> QED
    BY Zenon, <2>3, <2>4, <2>5, <2>6, <2>7, <2>8

(* The steps of mark_dead, and those of a release that do not hand over    *)
(* the slot.                                                               *)
<1>RetireLease.
    ASSUME LeaseInv, NEW t \in Task,
           \/ ReleaseDead(t) \/ ReleaseRetires(t) \/ ScheduleIdleReap(t)
           \/ TakeDeadWorker(t) \/ ForgetSlot(t) \/ FinishDeadWorker(t)
    PROVE  LeaseRest'
  <2> USE <1>RetireLease
  <2> USE DEF innerVars, slotVars, sessionVars, lockVars, envVars
  <2>1. TypeOK /\ WorkersKnown /\ LocksHeld /\ CallerSound(task[t])
    BY Zenon DEF LeaseInv, LeaseRest, PoolInv, LocksHeld
  <2>2. task[t].pc \in UsesWorker => Known(task[t].w) /\ task[t].w \in Worker
    BY Zenon, <2>1 DEF WorkersKnown, Known, NeedsWorker
  <2>3. UNCHANGED <<nextId, spawning, handle, jobs, callLock>>
    BY Zenon DEF ReleaseDead, ReleaseRetires, ScheduleIdleReap, TakeDeadWorker, ForgetSlot,
           FinishDeadWorker
  <2>4. \A w : Known(w) <=> KnownThen(w)
    BY Zenon, <2>3 DEF Known, KnownThen
  <2>5. Known(task[t].w) /\ task[t].w \in Worker
    BY Zenon, <2>2 DEF ReleaseDead, ReleaseRetires, ScheduleIdleReap, TakeDeadWorker, ForgetSlot,
                FinishDeadWorker, UsesWorker, Retiring
  <2>6. \A w \in Worker : state'[w] = state[w] \/ (Known(w) /\ state'[w] = Dead)
    BY Zenon, <2>1, <2>5 DEF ReleaseDead, ReleaseRetires, ScheduleIdleReap, TakeDeadWorker,
                      ForgetSlot, FinishDeadWorker, TypeOK
  <2>7. \A w \in Worker : reaper'[w] => reaper[w] \/ KnownThen(w)
    BY Zenon, <2>1, <2>4, <2>5 DEF ReleaseDead, ReleaseRetires, ScheduleIdleReap, TakeDeadWorker,
                            ForgetSlot, FinishDeadWorker, TypeOK
  <2>8. CASE Done(t)
    <3>1. Moved(t) /\ task'[t].pc = "idle" /\ task'[t].caller = "none"
      BY Zenon, <2>1, <2>8, DoneFacts
    <3>2. ~NeedsWorker(task'[t]) /\ ~HoldsLock(task'[t]) /\ CallerSound(task'[t])
      BY Zenon, <3>1 DEF NeedsWorker, UsesWorker, Retiring, HoldsLock, CallerSound
    <3> QED
      BY <2>3, <2>6, <2>7, <3>1, <3>2, <1>GoOn
  <2>9. CASE ReleaseRetires(t)
    <3>1. Moved(t) /\ Keeps(t) /\ task'[t].pc = "take" /\ task'[t].caller = "release"
      BY Zenon, <2>1, <2>9, CallerFacts DEF ReleaseRetires
    <3>2. HoldsLock(task[t]) /\ CallerSound(task'[t])
      BY Zenon, <2>9, <3>1 DEF ReleaseRetires, CallerSound, Retiring, HoldsLock
    <3> QED
      BY Zenon, <2>3, <2>4, <2>5, <2>6, <2>7, <3>1, <3>2, <1>GoOn DEF Keeps
  <2>10. CASE /\ task[t].pc \in Retiring
              /\ \E p \in {"forget", "forgetNone", "finish", "ensure"} : Goto(t, p)
    <3>1. PICK p \in {"forget", "forgetNone", "finish", "ensure"} : Goto(t, p)
      BY Zenon, <2>10
    <3>2. Moved(t) /\ Keeps(t) /\ task'[t].pc = p /\ task'[t].caller = task[t].caller
      BY Zenon, <2>1, <3>1, GotoFacts
    <3>3. HoldsLock(task'[t]) => HoldsLock(task[t])
      BY Zenon, <2>10, <3>2 DEF HoldsLock
    <3>4. CallerSound(task'[t])
      BY Zenon, <2>1, <3>2 DEF CallerSound, Retiring
    <3> QED
      BY Zenon, <2>3, <2>4, <2>5, <2>6, <2>7, <3>2, <3>3, <3>4, <1>GoOn DEF Keeps
  <2> QED
    BY Zenon, <2>8, <2>9, <2>10 DEF ReleaseDead, ScheduleIdleReap, TakeDeadWorker, ForgetSlot,
                             FinishDeadWorker, Replenish, Retiring

(* ensure_min_workers reserves an id or returns, and a spawn fails. *)
<1>ReserveLease.
    ASSUME LeaseInv, NEW t \in Task,
           \/ EnsureMinDone(t) \/ EnsureMinReserve(t) \/ SpawnFails(t)
           \/ \E s \in Session : LeaseReserve(t, s)
    PROVE  LeaseRest'
  <2> USE <1>ReserveLease
  <2> USE DEF innerVars, slotVars, sessionVars, lockVars, envVars
  <2>1. TypeOK /\ WorkersKnown /\ LocksHeld /\ CallerSound(task[t])
    BY Zenon DEF LeaseInv, LeaseRest, PoolInv, LocksHeld
  <2>2. /\ NeedsWorker(task[t]) => Known(task[t].w) /\ task[t].w \in Worker
        /\ HoldsLock(task[t]) => callLock[task[t].w] = t
    BY Zenon, <2>1 DEF WorkersKnown, Known, LocksHeld
  <2>3. /\ UNCHANGED <<state, handle, jobs, reaper>>
        /\ nextId' \in {nextId, nextId + 1} /\ spawning' \subseteq spawning \cup {nextId}
    BY Zenon DEF EnsureMinDone, EnsureMinReserve, SpawnFails, LeaseReserve, ReserveSpawnSlot,
           LeaseForOpen
  <2>4. \A w : Known(w) => KnownThen(w)
    BY Zenon, <2>1, <2>3, <1>KnownKept
  <2>5. CASE MarkDeadReturns(t)
    <3>1. /\ Moved(t)
          /\ task'[t].pc \in {"relcur", "clear", "idle"} /\ task'[t].caller = "none"
          /\ task'[t].pc # "idle" => task[t].caller = "call" /\ task'[t].w = task[t].w
          /\ \A w \in Worker : w # task[t].w => callLock'[w] = callLock[w]
          /\ task[t].caller \notin {"call", "release"} => callLock' = callLock
      BY Zenon, <2>1, <2>5, ReturnFacts
    <3>2. /\ ~HoldsLock(task'[t]) /\ CallerSound(task'[t])
          /\ NeedsWorker(task'[t]) => KnownThen(task'[t].w)
      BY Zenon, <2>2, <2>4, <3>1 DEF HoldsLock, CallerSound, NeedsWorker, UsesWorker, Retiring
    <3>3. \A w \in Worker : callLock'[w] = callLock[w] \/ callLock[w] = t
      BY Zenon, <2>2, <3>1 DEF HoldsLock
    <3> QED
      BY Zenon, <2>3, <3>1, <3>2, <3>3, <1>GoOn
  <2>6. CASE Done(t) /\ UNCHANGED callLock
    <3>1. Moved(t) /\ task'[t].pc = "idle" /\ task'[t].caller = "none"
      BY Zenon, <2>1, <2>6, DoneFacts
    <3>2. ~NeedsWorker(task'[t]) /\ ~HoldsLock(task'[t]) /\ CallerSound(task'[t])
      BY Zenon, <3>1 DEF NeedsWorker, UsesWorker, Retiring, HoldsLock, CallerSound
    <3> QED
      BY Zenon, <2>3, <2>6, <3>1, <3>2, <1>GoOn
  <2>7. CASE EnsureMinReserve(t)
    <3>1. /\ Moved(t) /\ task'[t].pc = "spawn" /\ task'[t].w = task[t].w
          /\ task'[t].caller = task[t].caller
      BY Zenon, <2>1, <2>7 DEF EnsureMinReserve, Moved, TypeOK, TaskState
    <3>2. /\ HoldsLock(task'[t]) => HoldsLock(task[t])
          /\ CallerSound(task'[t])
          /\ NeedsWorker(task'[t]) => KnownThen(task'[t].w)
      BY Zenon, <2>2, <2>4, <3>1 DEF HoldsLock, CallerSound, NeedsWorker, UsesWorker, Retiring
    <3>3. UNCHANGED callLock
      BY Zenon, <2>7 DEF EnsureMinReserve
    <3> QED
      BY Zenon, <2>3, <3>1, <3>2, <3>3, <1>GoOn
  <2>8. ASSUME NEW s \in Session, LeaseReserve(t, s) PROVE LeaseRest'
    <3>1. Moved(t) /\ task'[t].pc = "spawn" /\ task'[t].caller = "none"
      BY Zenon, <2>1, <2>8 DEF LeaseReserve, Moved, TypeOK, TaskAt
    <3>2. ~NeedsWorker(task'[t]) /\ ~HoldsLock(task'[t]) /\ CallerSound(task'[t])
      BY Zenon, <3>1 DEF NeedsWorker, UsesWorker, Retiring, HoldsLock, CallerSound
    <3>3. UNCHANGED callLock
      BY Zenon, <2>8 DEF LeaseReserve
    <3> QED
      BY ZenonT(40), <2>3, <3>1, <3>2, <3>3, <1>GoOn
  <2> QED
    BY Zenon, <2>5, <2>6, <2>7, <2>8 DEF EnsureMinDone, SpawnFails

(* Jobs start, the reaper retires an idle slot, a request is dropped. *)
<1>JobLease.
    ASSUME LeaseInv, NEW t \in Task,
           \/ \E j \in jobs : StartJob(t, j)
           \/ \E w \in Worker : ReapIdle(t, w)
           \/ DropFuture(t)
    PROVE  LeaseRest'
  <2> USE <1>JobLease
  <2> USE DEF innerVars, slotVars, sessionVars, lockVars, envVars
  <2>1. TypeOK /\ WorkersKnown /\ LocksHeld /\ ReservationsSound
    BY Zenon DEF LeaseInv, LeaseRest, PoolInv
  <2>2. nextId' = nextId /\ spawning' \subseteq spawning
    BY Zenon DEF StartJob, ReapIdle, DropFuture
  <2>3. \A w : Known(w) => KnownThen(w)
    BY Zenon, <2>1, <2>2, <1>KnownKept
  <2>4. ASSUME NEW j \in jobs, StartJob(t, j) PROVE LeaseRest'
    <3>1. /\ UNCHANGED <<state, handle, callLock, reaper>> /\ jobs' \subseteq jobs
          /\ task[t] = IdleTask
      BY Zenon, <2>4 DEF StartJob
    <3>2. CASE j.kind = "unreserve"
      <4>1. task' = task
        BY Zenon, <2>4, <3>2 DEF StartJob
      <4>2. Moved(t) /\ task'[t].pc = "idle" /\ task'[t].caller = "none"
        BY <3>1, <4>1 DEF Moved, IdleTask, TaskAt
      <4>3. ~NeedsWorker(task'[t]) /\ ~HoldsLock(task'[t]) /\ CallerSound(task'[t])
        BY Zenon, <4>2 DEF NeedsWorker, UsesWorker, Retiring, HoldsLock, CallerSound
      <4> QED
        BY Zenon, <2>2, <3>1, <4>2, <4>3, <1>GoOn
    <3>3. CASE j.kind = "drop"
      <4>1. Moved(t) /\ task'[t].pc = "relcur" /\ task'[t].caller = "none"
        BY <2>1, <2>4, <3>3 DEF StartJob, Moved, TaskAt, TypeOK
      <4>2. ~NeedsWorker(task'[t]) /\ ~HoldsLock(task'[t]) /\ CallerSound(task'[t])
        BY Zenon, <4>1 DEF NeedsWorker, UsesWorker, Retiring, HoldsLock, CallerSound
      <4> QED
        BY Zenon, <2>2, <3>1, <4>1, <4>2, <1>GoOn
    <3>4. CASE j.kind \notin {"unreserve", "drop"}
      <4>1. /\ Moved(t) /\ task'[t].pc = "take" /\ task'[t].caller \in {"final", "job"}
            /\ task'[t].w = j.w
        BY <2>1, <2>4, <3>4 DEF StartJob, Moved, TaskAt, TypeOK
      <4>2. j.kind \in {"retire", "discard", "shutdown"} /\ j.w \in Worker
        BY Zenon, <2>1, <3>4 DEF TypeOK, JobSet
      <4>3. KnownThen(j.w)
        <5>1. CASE j.kind = "discard"
          <6>1. j.w < nextId
            BY Zenon, <2>1, <5>1 DEF ReservationsSound, GivesBack
          <6>2. spawning' = spawning \ {j.w}
            BY Zenon, <2>4, <5>1 DEF StartJob
          <6> QED
            BY Zenon, <2>2, <4>2, <6>1, <6>2 DEF KnownThen
        <5>2. CASE j.kind \in {"retire", "shutdown"}
          BY Zenon, <2>1, <2>3, <5>2 DEF WorkersKnown
        <5> QED
          BY Zenon, <4>2, <5>1, <5>2
      <4>4. ~HoldsLock(task'[t]) /\ CallerSound(task'[t])
        BY Zenon, <4>1 DEF Retiring, HoldsLock, CallerSound
      <4> QED
        BY Zenon, <2>2, <3>1, <4>1, <4>3, <4>4, <1>GoOn
    <3> QED
      BY Zenon, <3>2, <3>3, <3>4
  <2>5. ASSUME NEW w \in Worker, ReapIdle(t, w) PROVE LeaseRest'
    <3>1. UNCHANGED <<spawning, nextId, handle, callLock, jobs>> /\ reaper[w]
      BY Zenon, <2>5 DEF ReapIdle
    <3>2. Known(w)
      BY Zenon, <2>1, <3>1 DEF WorkersKnown
    <3>3. /\ Moved(t) /\ task'[t].pc = "forget" /\ task'[t].caller = "final"
          /\ task'[t].w = w
      BY Zenon, <2>1, <2>5 DEF ReapIdle, Moved, TaskAt, TypeOK
    <3>4. ~HoldsLock(task'[t]) /\ CallerSound(task'[t])
      BY Zenon, <3>3 DEF Retiring, HoldsLock, CallerSound
    <3>5. /\ \A v \in Worker : state'[v] = state[v] \/ (Known(v) /\ state'[v] = Dead)
          /\ \A v \in Worker : reaper'[v] => reaper[v]
      BY Zenon, <2>1, <2>5, <3>2 DEF ReapIdle, TypeOK
    <3> QED
      BY Zenon, <2>2, <2>3, <3>1, <3>2, <3>3, <3>4, <3>5, <1>GoOn
  <2>6. CASE DropFuture(t)
    <3>1. UNCHANGED <<spawning, nextId, handle, state, reaper>>
      BY Zenon, <2>6 DEF DropFuture
    <3>2. Moved(t) /\ task'[t].pc = "idle" /\ task'[t].caller = "none"
      BY Zenon, <2>1, <2>6, DoneFacts DEF DropFuture
    <3>3. ~NeedsWorker(task'[t]) /\ ~HoldsLock(task'[t]) /\ CallerSound(task'[t])
      BY Zenon, <3>2 DEF NeedsWorker, UsesWorker, Retiring, HoldsLock, CallerSound
    <3>4. \A w \in Worker : callLock'[w] = callLock[w] \/ callLock[w] = t
      BY Zenon, <2>6 DEF DropFuture
    <3>5. GuardJobs(task[t]) # {} => Known(task[t].w)
      BY Zenon, <2>1 DEF GuardJobs, WorkersKnown, NeedsWorker, UsesWorker
    <3>6. /\ \A j \in GuardJobs(task[t]) : j.w = task[t].w
          /\ \A j \in ReservationJobs(task[t]) : j.kind \in {"unreserve", "discard"}
      BY DEF GuardJobs, ReservationJobs, Job
    <3>7. \A j \in jobs' : j \in jobs \/ (j.kind \in {"retire", "shutdown"} => KnownThen(j.w))
      BY ZenonT(40), <2>3, <2>6, <3>5, <3>6 DEF DropFuture
    <3> QED
      BY ZenonT(40), <3>1, <3>2, <3>3, <3>4, <3>7, <1>GoOn
  <2> QED
    BY Zenon, <2>4, <2>5, <2>6

(* What the invariant says of the slots, for the steps that hand one over. *)
<1>LeaseFacts.
    ASSUME LeaseInv
    PROVE  /\ TypeOK /\ WorkersKnown /\ LocksHeld /\ TasksSound /\ ReservationsSound
           /\ ReleasesAlone /\ InstallsFresh /\ HandleOwnsSlot /\ DispatchIsolated
           /\ \A u \in Task : task[u].pc \in {"release", "closing", "rpc", "call"} => Known(task[u].w)
           /\ \A u \in Task : task[u].pc = "install" => task[u].n \in spawning
  BY Zenon, <1>LeaseFacts DEF LeaseInv, LeaseRest, Slots, PoolInv, WorkersKnown, NeedsWorker, UsesWorker,
         TasksSound, Spawning

(* A lease takes an idle slot, which nobody is using. *)
<1>IdleLease.
    ASSUME LeaseInv, NEW t \in Task, NEW s \in Session, NEW w \in children, LeaseIdle(t, s, w)
    PROVE  LeaseRest'
  <2> USE <1>IdleLease
  <2> USE DEF innerVars, slotVars, sessionVars, lockVars, envVars
  <2>1. /\ TypeOK /\ WorkersKnown /\ LocksHeld /\ ReservationsSound
        /\ ReleasesAlone /\ InstallsFresh /\ HandleOwnsSlot /\ DispatchIsolated
        /\ \A u \in Task : task[u].pc = "install" => task[u].n \in spawning
    BY Zenon, <1>LeaseFacts
  <2>2. /\ UNCHANGED <<nextId, spawning, callLock, jobs>> /\ state[w] = Idle
    BY Zenon DEF LeaseIdle
  <2>3. Known(w) /\ KnownThen(w) /\ w \notin spawning
    BY Zenon, <2>1, <2>2 DEF Known, KnownThen, ReservationsSound, TypeOK
  <2>4. /\ Moved(t) /\ task'[t].pc = "call" /\ task'[t].w = w
        /\ task'[t].caller = "none" /\ task'[t].s = s
    BY Zenon, <2>1 DEF LeaseIdle, StartTask, TaskAt, Moved, TypeOK
  <2>5. ~HoldsLock(task'[t]) /\ CallerSound(task'[t])
    BY Zenon, <2>4 DEF HoldsLock, CallerSound
  <2>6. /\ \A v \in Worker : v # w => state'[v] = state[v]
        /\ state'[w] = Leased(s)
        /\ \A a \in Session : a # s => handle'[a] = handle[a]
        /\ handle'[s].worker = w
        /\ \A v \in Worker : reaper'[v] => reaper[v]
    BY Zenon, <2>1, <2>3 DEF LeaseIdle, TypeOK, Lease, Known
  <2>7. WorkersKnown' /\ LocksHeld'
    BY Zenon, <2>1, <2>2, <2>3, <2>4, <2>5, <2>6, <1>KnownStep
  <2>8. /\ \A u \in Task : task[u].pc \in {"release", "closing", "rpc"} =>
             task[u].w # w /\ task[u].w \in Worker
        /\ \A a \in Session : handle[a] # NoLease => handle[a].worker # w /\ handle[a].worker \in Worker
        /\ \A u \in Task : task[u].pc = "install" => task[u].n # w /\ task[u].n \in Worker
    BY <2>1, <2>2, <2>3, StatesDiffer
    DEF ReleasesAlone, HandleOwnsSlot, DispatchIsolated, WorkersKnown, NeedsWorker, UsesWorker,
        Known, TypeOK
  <2>9. ReleasesAlone'
    BY <2>1, <2>4, <2>6, <2>8 DEF ReleasesAlone, Moved
  <2>10. InstallsFresh'
    BY <2>1, <2>4, <2>6, <2>8 DEF InstallsFresh, Moved
  <2>11. HandleOwnsSlot'
    BY Zenon, <2>1, <2>6, <2>8 DEF HandleOwnsSlot
  <2>12. DispatchIsolated'
    BY <2>1, <2>4, <2>6, <2>8 DEF DispatchIsolated, Moved
  <2> QED
    BY Zenon, <2>7, <2>9, <2>10, <2>11, <2>12 DEF LeaseRest, Slots

(* The handle of a session is taken, and its slot released by the taker. *)
<1>TakeLease.
    ASSUME LeaseInv, NEW t \in Task, NEW s \in Session, NEW op, handle[s] # NoLease,
           TakeHandle(t, s, op), UNCHANGED <<innerVars, slotVars, callLock, jobs>>
    PROVE  LeaseRest'
  <2> USE <1>TakeLease
  <2> USE DEF innerVars, slotVars
  <2>1. /\ TypeOK /\ WorkersKnown /\ LocksHeld
        /\ ReleasesAlone /\ InstallsFresh /\ HandleOwnsSlot /\ DispatchIsolated
    BY Zenon, <1>LeaseFacts
  <2>2. /\ Moved(t) /\ task'[t].pc = "release" /\ task'[t].w = handle[s].worker
        /\ task'[t].caller = "none" /\ task'[t].s = s
    BY Zenon, <2>1 DEF TakeHandle, StartTask, TaskAt, Moved, TypeOK
  <2>3. /\ \A a \in Session : a # s => handle'[a] = handle[a]
        /\ handle'[s] = NoLease
    BY Zenon, <2>1 DEF TakeHandle, TypeOK
  <2>4. Known(handle[s].worker) /\ KnownThen(handle[s].worker)
    BY Zenon, <2>1 DEF WorkersKnown, Known, KnownThen
  <2>5. ~HoldsLock(task'[t]) /\ CallerSound(task'[t])
    BY Zenon, <2>2 DEF HoldsLock, CallerSound
  <2>6. WorkersKnown' /\ LocksHeld'
    BY Zenon, <2>1, <2>2, <2>3, <2>4, <2>5, <1>KnownStep
  <2>7. ReleasesAlone'
    <3>1. state[handle[s].worker] \in {Leased(s), Dead}
      BY Zenon, <2>1 DEF HandleOwnsSlot
    <3>2. \A a \in Session : handle'[a] # NoLease /\ handle'[a].worker = handle[s].worker
            => state[handle[s].worker] = Dead
      BY <2>1, <2>3, <3>1, StatesDiffer DEF HandleOwnsSlot
    <3>3. \A u \in Task : task[u].pc = "release" /\ task[u].w = handle[s].worker
            => state[handle[s].worker] = Dead
      BY Zenon, <2>1 DEF ReleasesAlone
    <3> QED
      BY <2>1, <2>2, <2>3, <3>1, <3>2, <3>3 DEF ReleasesAlone, Moved
  <2>8. InstallsFresh' /\ HandleOwnsSlot' /\ DispatchIsolated'
    BY ZenonT(40), <2>1, <2>2, <2>3 DEF InstallsFresh, HandleOwnsSlot, DispatchIsolated, Moved
  <2> QED
    BY Zenon, <2>6, <2>7, <2>8 DEF LeaseRest, Slots

(* close, close_if_generation, and release_current_handle. *)
<1>CloseLease.
    ASSUME LeaseInv, NEW t \in Task,
           \/ \E s \in Session : Close(t, s) \/ \E g \in Generation : CloseIfGeneration(t, s, g)
           \/ ReleaseCurrentHandle(t)
    PROVE  LeaseRest'
  <2> USE <1>CloseLease
  <2> USE DEF innerVars, slotVars, sessionVars, lockVars, envVars
  <2>1. ASSUME NEW s \in Session, Close(t, s) PROVE LeaseRest'
    BY Zenon, <2>1, <1>TakeLease DEF Close
  <2>2. ASSUME NEW s \in Session, NEW g \in Generation, CloseIfGeneration(t, s, g) PROVE LeaseRest'
    <3>1. handle[s] # NoLease
      BY <2>2, PoolAssumption DEF CloseIfGeneration, NoLease, Lease, Generation
    <3> QED
      BY Zenon, <2>2, <3>1, <1>TakeLease DEF CloseIfGeneration
  <2>3. CASE ReleaseCurrentHandle(t)
    <3>1. TypeOK /\ task[t].s \in Session
      BY Zenon, <2>3 DEF LeaseInv, PoolInv, TasksSound, TaskSound, ReleaseCurrentHandle, ServesSession
    <3>2. CASE handle[task[t].s] = NoLease
      <4>1. Done(t) /\ UNCHANGED <<innerVars, slotVars, handle, callLock, jobs>>
        BY ZenonT(40), <2>3, <3>2 DEF ReleaseCurrentHandle
      <4>2. Moved(t) /\ task'[t].pc = "idle" /\ task'[t].caller = "none"
        BY <3>1, <4>1, DoneFacts
      <4>3. ~NeedsWorker(task'[t]) /\ ~HoldsLock(task'[t]) /\ CallerSound(task'[t])
        BY Zenon, <4>2 DEF NeedsWorker, UsesWorker, Retiring, HoldsLock, CallerSound
      <4> QED
        BY Zenon, <4>1, <4>2, <4>3, <1>GoOnAlone
    <3>3. CASE handle[task[t].s] # NoLease
      <4>1. /\ TakeHandle(t, task[t].s, task[t].op)
            /\ UNCHANGED <<innerVars, slotVars, callLock, jobs>>
        BY Zenon, <2>3, <3>3 DEF ReleaseCurrentHandle
      <4> QED
        BY Zenon, <3>1, <3>3, <4>1, <1>TakeLease
    <3> QED
      BY Zenon, <3>2, <3>3
  <2> QED
    BY Zenon, <2>1, <2>2, <2>3

(* spawn_slot makes a slot that nothing refers to yet. *)
<1>SpawnLease.
    ASSUME LeaseInv, NEW t \in Task, SpawnSlot(t)
    PROVE  LeaseRest'
  <2> USE <1>SpawnLease
  <2> USE DEF innerVars, slotVars, sessionVars, lockVars, envVars
  <2> DEFINE n == task[t].n
  <2>1. /\ TypeOK /\ WorkersKnown /\ LocksHeld /\ TasksSound /\ ReservationsSound
        /\ ReleasesAlone /\ InstallsFresh /\ HandleOwnsSlot /\ DispatchIsolated
        /\ \A u \in Task : task[u].pc \in {"release", "closing", "rpc", "call"} => Known(task[u].w)
    BY Zenon, <1>LeaseFacts
  <2>2. /\ UNCHANGED <<nextId, spawning, callLock, jobs, handle, reaper>>
        /\ task[t].pc = "spawn" /\ n \in spawning /\ n \in Worker
    BY Zenon, <2>1 DEF SpawnSlot, TasksSound, Spawning, TypeOK
  <2>3. /\ Moved(t) /\ Keeps(t) /\ task'[t].pc = "install" /\ task'[t].caller = task[t].caller
    BY Zenon, <2>1, GotoFacts DEF SpawnSlot
  <2>4. /\ \A v \in Worker : v # n => state'[v] = state[v]
        /\ state'[n] = IF task[t].caller = "none" THEN Leased(task[t].s) ELSE Idle
    BY Zenon, <2>1, <2>2 DEF SpawnSlot, TypeOK
  <2>5. \A w : Known(w) <=> KnownThen(w)
    BY Zenon, <2>2 DEF Known, KnownThen
  <2>6. /\ NeedsWorker(task'[t]) => NeedsWorker(task[t])
        /\ HoldsLock(task'[t]) => HoldsLock(task[t])
        /\ CallerSound(task'[t])
    BY Zenon, <2>3 DEF NeedsWorker, HoldsLock, CallerSound, UsesWorker, Retiring
  <2>7. WorkersKnown' /\ LocksHeld'
    <3>1. NeedsWorker(task'[t]) => KnownThen(task'[t].w)
      BY Zenon, <2>1, <2>3, <2>5, <2>6 DEF WorkersKnown, Keeps
    <3>2. HoldsLock(task'[t]) => callLock'[task'[t].w] = t
      BY Zenon, <2>1, <2>2, <2>3, <2>6 DEF LocksHeld, Keeps
    <3> QED
      BY ZenonT(40), <2>1, <2>2, <2>3, <2>6, <3>1, <3>2, <1>KnownStep
  <2>8. /\ \A u \in Task : task[u].pc \in {"release", "closing", "rpc"} =>
             task[u].w # n /\ task[u].w \in Worker
        /\ \A a \in Session : handle[a] # NoLease => handle[a].worker # n /\ handle[a].worker \in Worker
    BY ZenonT(40), <2>1, <2>2 DEF WorkersKnown, Known
  <2>9. \A u \in Task : task[u].pc = "install" => u # t /\ task[u].n # n /\ task[u].n \in Worker
    BY Zenon, <2>1, <2>2 DEF ReservationsSound, Spawning, TasksSound, TypeOK
  <2>10. ReleasesAlone'
    BY <2>1, <2>2, <2>3, <2>4, <2>8 DEF ReleasesAlone, Moved
  <2>11. InstallsFresh'
    <3>1. ASSUME NEW u \in Task, task'[u].pc = "install"
          PROVE  state'[task'[u].n] = IF task'[u].caller = "none" THEN Leased(task'[u].s) ELSE Idle
      <4>1. CASE u = t
        BY Zenon, <2>3, <2>4, <4>1 DEF Keeps
      <4>2. CASE u # t
        BY <2>1, <2>3, <2>4, <2>9, <3>1, <4>2 DEF InstallsFresh, Moved
      <4> QED
        BY Zenon, <4>1, <4>2
    <3> QED
      BY Zenon, <3>1 DEF InstallsFresh
  <2>12. HandleOwnsSlot'
    BY Zenon, <2>1, <2>2, <2>4, <2>8 DEF HandleOwnsSlot
  <2>13. DispatchIsolated'
    BY <2>1, <2>3, <2>4, <2>8 DEF DispatchIsolated, Moved
  <2> QED
    BY Zenon, <2>7, <2>10, <2>11, <2>12, <2>13 DEF LeaseRest, Slots

(* The new slot becomes a child, and the session's lease when it was made  *)
(* for one.                                                                *)
<1>InstallLease.
    ASSUME LeaseInv, NEW t \in Task, InstallSlot(t)
    PROVE  LeaseRest'
  <2> USE <1>InstallLease
  <2> USE DEF innerVars, slotVars, sessionVars, lockVars, envVars
  <2> DEFINE n == task[t].n
  <2>1. /\ TypeOK /\ WorkersKnown /\ LocksHeld /\ TasksSound /\ ReservationsSound
        /\ ReleasesAlone /\ InstallsFresh /\ HandleOwnsSlot /\ DispatchIsolated
        /\ \A u \in Task : task[u].pc \in {"release", "closing", "rpc", "call"} => Known(task[u].w)
    BY Zenon, <1>LeaseFacts
  <2>2. /\ UNCHANGED <<nextId, state, callLock, jobs, reaper>> /\ spawning' = spawning \ {n}
        /\ task[t].pc = "install" /\ n \in spawning /\ n \in Worker
    BY Zenon, <2>1 DEF InstallSlot, TasksSound, Spawning, TypeOK
  <2>3. KnownThen(n) /\ \A w : Known(w) => KnownThen(w)
    BY Zenon, <2>1, <2>2 DEF Known, KnownThen, ReservationsSound
  <2>4. CASE task[t].caller = "none"
    <3> DEFINE s == task[t].s
    <3>1. s \in Session /\ state[n] = Leased(s)
      BY Zenon, <2>1, <2>2, <2>4 DEF TasksSound, TaskSound, InstallsFresh
    <3>2. /\ Moved(t) /\ task'[t].pc = "call" /\ task'[t].w = n /\ task'[t].caller = "none"
      BY <2>1, <2>4 DEF InstallSlot, StartTask, TaskAt, Moved, TypeOK
    <3>3. /\ \A a \in Session : a # s => handle'[a] = handle[a]
          /\ handle'[s].worker = n
      BY <2>1, <2>4, <3>1 DEF InstallSlot, TypeOK, Lease
    <3>4. ~HoldsLock(task'[t]) /\ CallerSound(task'[t])
      BY Zenon, <3>2 DEF HoldsLock, CallerSound
    <3>5. WorkersKnown' /\ LocksHeld'
      BY Zenon, <2>1, <2>2, <2>3, <3>1, <3>2, <3>3, <3>4, <1>KnownStep
    <3>6. \A u \in Task : task[u].pc = "release" => task[u].w # n
      BY ZenonT(40), <2>1, <2>2 DEF Known
    <3>7. ReleasesAlone'
      BY <2>1, <2>2, <3>1, <3>2, <3>3, <3>6 DEF ReleasesAlone, Moved
    <3>8. InstallsFresh' /\ HandleOwnsSlot' /\ DispatchIsolated'
      BY ZenonT(40), <2>1, <2>2, <3>1, <3>2, <3>3 DEF InstallsFresh, HandleOwnsSlot, DispatchIsolated, Moved
    <3> QED
      BY Zenon, <3>5, <3>7, <3>8 DEF LeaseRest, Slots
  <2>5. CASE task[t].caller # "none"
    <3>1. /\ Moved(t) /\ task'[t].pc = "ensure" /\ task'[t].w = task[t].w
          /\ task'[t].caller = task[t].caller /\ UNCHANGED handle
      BY <2>1, <2>5 DEF InstallSlot, Moved, TypeOK, TaskState
    <3>2. /\ NeedsWorker(task[t])
          /\ HoldsLock(task'[t]) => HoldsLock(task[t])
          /\ CallerSound(task'[t])
      BY Zenon, <2>5, <3>1 DEF NeedsWorker, HoldsLock, CallerSound, Retiring
    <3>3. KnownThen(task'[t].w)
      BY Zenon, <2>1, <2>3, <3>1, <3>2 DEF WorkersKnown
    <3> QED
      BY Zenon, <2>2, <3>1, <3>2, <3>3, <1>GoOn
  <2> QED
    BY Zenon, <2>4, <2>5

(* A release makes its slot Closing, which no call and no handle sees. *)
<1>BeginLease.
    ASSUME LeaseInv, NEW t \in Task, ReleaseBegin(t)
    PROVE  LeaseRest'
  <2> USE <1>BeginLease
  <2> USE DEF innerVars, slotVars, sessionVars, lockVars, envVars
  <2> DEFINE w == task[t].w
  <2>1. /\ TypeOK /\ WorkersKnown /\ LocksHeld /\ TasksSound
        /\ ReleasesAlone /\ InstallsFresh /\ HandleOwnsSlot /\ DispatchIsolated
        /\ \A u \in Task : task[u].pc \in {"release", "closing", "rpc", "call"} => Known(task[u].w)
        /\ \A u \in Task : task[u].pc = "install" => task[u].n \in spawning
    BY Zenon, <1>LeaseFacts
  <2>2. /\ UNCHANGED <<nextId, spawning, jobs, handle, reaper>>
        /\ task[t].pc = "release" /\ callLock[w] = NoTask /\ state[w] # Dead
    BY Zenon DEF ReleaseBegin
  <2>3. Known(w) /\ KnownThen(w) /\ w \in Worker
    BY Zenon, <2>1, <2>2 DEF Known, KnownThen
  <2>4. /\ Moved(t) /\ Keeps(t) /\ task'[t].pc = "closing" /\ task'[t].caller = task[t].caller
    BY Zenon, <2>1, GotoFacts DEF ReleaseBegin
  <2>5. /\ \A v \in Worker : v # w => state'[v] = state[v] /\ callLock'[v] = callLock[v]
        /\ state'[w] = Closing /\ callLock'[w] = t
    BY Zenon, <2>1, <2>3 DEF ReleaseBegin, TypeOK
  <2>6. \A u \in Task : u # NoTask
    BY Zenon, PoolAssumption
  <2>7. task[t].caller = "none"
    BY Zenon, <2>1, <2>2 DEF LocksHeld, CallerSound, Retiring
  <2>8. CallerSound(task'[t])
    BY Zenon, <2>4, <2>7 DEF CallerSound
  <2>9. WorkersKnown' /\ LocksHeld'
    BY ZenonT(40), <2>1, <2>2, <2>3, <2>4, <2>5, <2>6, <2>8, <1>KnownStep DEF Keeps
  <2>10. /\ \A u \in Task \ {t} : task[u].pc \in {"release", "closing", "rpc"} =>
              task[u].w # w /\ task[u].w \in Worker
         /\ \A a \in Session : handle[a] # NoLease => handle[a].worker # w /\ handle[a].worker \in Worker
         /\ \A u \in Task : task[u].pc = "install" => task[u].n # w /\ task[u].n \in Worker
    <3>1. \A u \in Task \ {t} : task[u].pc = "release" => task[u].w # w
      BY Zenon, <2>1, <2>2 DEF ReleasesAlone
    <3>2. \A u \in Task : task[u].pc \in {"closing", "rpc"} => task[u].w # w
      BY Zenon, <2>1, <2>2, <2>6 DEF LocksHeld, HoldsLock
    <3>3. \A a \in Session : handle[a] # NoLease => handle[a].worker # w
      BY Zenon, <2>1, <2>2 DEF ReleasesAlone
    <3> QED
      BY Zenon, <2>1, <2>3, <3>1, <3>2, <3>3 DEF Known, WorkersKnown, TypeOK
  <2>11. ReleasesAlone'
    BY <2>1, <2>2, <2>4, <2>5, <2>10 DEF ReleasesAlone, Moved, Keeps
  <2>12. InstallsFresh'
    <3> SUFFICES ASSUME NEW u \in Task, task'[u].pc = "install"
                 PROVE  state'[task'[u].n] = IF task'[u].caller = "none" THEN Leased(task'[u].s)
                                            ELSE Idle
      BY Zenon DEF InstallsFresh
    <3>1. task'[u] = task[u]
      BY Zenon, <2>4, <2>5, <2>10 DEF Moved
    <3>2. state'[task[u].n] = state[task[u].n]
      BY ZenonT(40), <2>5, <2>10, <3>1
    <3> QED
      BY Zenon, <2>1, <3>1, <3>2 DEF InstallsFresh
  <2>13. HandleOwnsSlot' /\ DispatchIsolated'
    BY <2>1, <2>2, <2>4, <2>5, <2>10 DEF HandleOwnsSlot, DispatchIsolated, Moved
  <2> QED
    BY Zenon, <2>9, <2>11, <2>12, <2>13 DEF LeaseRest, Slots

(* A finished release makes its slot idle, unless it was killed. *)
<1>FinishLease.
    ASSUME LeaseInv, NEW t \in Task, ReleaseIdle(t)
    PROVE  LeaseRest'
  <2> USE <1>FinishLease
  <2> USE DEF innerVars, slotVars, sessionVars, lockVars, envVars
  <2> DEFINE w == task[t].w
  <2>1. /\ TypeOK /\ WorkersKnown /\ LocksHeld /\ TasksSound
        /\ ReleasesAlone /\ InstallsFresh /\ HandleOwnsSlot /\ DispatchIsolated
        /\ \A u \in Task : task[u].pc \in {"release", "closing", "rpc", "call"} => Known(task[u].w)
        /\ \A u \in Task : task[u].pc = "install" => task[u].n \in spawning
    BY Zenon, <1>LeaseFacts
  <2>2. UNCHANGED <<nextId, spawning, jobs, handle>> /\ task[t].pc = "closing"
    BY Zenon DEF ReleaseIdle
  <2>3. Known(w) /\ KnownThen(w) /\ w \in Worker /\ callLock[w] = t /\ task[t].caller = "none"
    BY Zenon, <2>1, <2>2 DEF Known, KnownThen, LocksHeld, HoldsLock, CallerSound, Retiring
  <2>4. \A v \in Worker : v # w => callLock'[v] = callLock[v]
    BY Zenon, <2>1 DEF ReleaseIdle, TypeOK
  <2>5. CASE state[w] = Dead
    <3>1. Done(t) /\ UNCHANGED <<state, reaper>>
      BY Zenon, <2>5 DEF ReleaseIdle
    <3>2. Moved(t) /\ task'[t].pc = "idle" /\ task'[t].caller = "none"
      BY Zenon, <2>1, <3>1, DoneFacts
    <3>3. ~NeedsWorker(task'[t]) /\ ~HoldsLock(task'[t]) /\ CallerSound(task'[t])
      BY Zenon, <3>2 DEF NeedsWorker, UsesWorker, Retiring, HoldsLock, CallerSound
    <3> QED
      BY Zenon, <2>2, <2>3, <2>4, <3>1, <3>2, <3>3, <1>GoOnAlone
  <2>6. CASE state[w] # Dead
    <3>1. state[w] = Closing
      BY Zenon, <2>1, <2>2, <2>6 DEF ReleasesAlone
    <3>2. /\ Moved(t) /\ Keeps(t) /\ task'[t].pc = "sched" /\ task'[t].caller = "none"
      BY ZenonT(40), <2>1, <2>3, <2>6, GotoFacts DEF ReleaseIdle
    <3>3. ~HoldsLock(task'[t]) /\ CallerSound(task'[t])
      BY Zenon, <3>2 DEF HoldsLock, CallerSound
    <3>4. /\ \A v \in Worker : v # w => state'[v] = state[v]
          /\ state'[w] = Idle
          /\ \A v \in Worker : reaper'[v] => reaper[v]
      <4>1. state \in [Worker -> ChildState] /\ reaper \in [Worker -> BOOLEAN]
        BY Zenon, <2>1 DEF TypeOK
      <4> QED
        BY Zenon, <2>3, <2>6, <4>1 DEF ReleaseIdle
    <3>5. \A u \in Task \ {t} : \A v \in Worker : callLock[v] = u => callLock'[v] = u
      BY Zenon, <2>3, <2>4
    <3>6. WorkersKnown' /\ LocksHeld'
      BY Zenon, <2>1, <2>2, <2>3, <3>2, <3>3, <3>4, <3>5, <1>KnownStep DEF Keeps
    <3>7. /\ \A u \in Task \ {t} : task[u].pc \in {"release", "closing", "rpc"} =>
                task[u].w # w /\ task[u].w \in Worker
          /\ \A a \in Session : handle[a] # NoLease => handle[a].worker # w /\ handle[a].worker \in Worker
          /\ \A u \in Task : task[u].pc = "install" => task[u].n # w /\ task[u].n \in Worker
      <4>1. \A u \in Task \ {t} : task[u].pc = "release" => task[u].w # w
        BY ZenonT(40), <2>1, <3>1, StatesDiffer DEF ReleasesAlone
      <4>2. \A u \in Task \ {t} : task[u].pc \in {"closing", "rpc"} => task[u].w # w
        BY Zenon, <2>1, <2>3 DEF LocksHeld, HoldsLock
      <4>3. \A a \in Session : handle[a] # NoLease => handle[a].worker # w
        BY Zenon, <2>1, <3>1, StatesDiffer DEF HandleOwnsSlot
      <4> QED
        BY Zenon, <2>1, <2>3, <4>1, <4>2, <4>3 DEF Known, WorkersKnown, TypeOK
    <3>8. ReleasesAlone'
      BY <2>1, <2>2, <3>2, <3>4, <3>7 DEF ReleasesAlone, Moved
    <3>9. InstallsFresh'
      <4> SUFFICES ASSUME NEW u \in Task, task'[u].pc = "install"
                   PROVE  state'[task'[u].n] = IF task'[u].caller = "none" THEN Leased(task'[u].s)
                                              ELSE Idle
        BY Zenon DEF InstallsFresh
      <4>1. task'[u] = task[u]
        BY Zenon, <3>2, <3>4, <3>7 DEF Moved
      <4> QED
        BY Zenon, <2>1, <4>1, <3>2, <3>4, <3>7 DEF InstallsFresh
    <3>10. HandleOwnsSlot' /\ DispatchIsolated'
      BY <2>1, <2>2, <3>2, <3>4, <3>7 DEF HandleOwnsSlot, DispatchIsolated, Moved
    <3> QED
      BY Zenon, <3>6, <3>8, <3>9, <3>10 DEF LeaseRest, Slots
  <2> QED
    BY Zenon, <2>5, <2>6

(* Steps of no task: an exhausted pool, a dropped session, a reaper that   *)
(* skips its slot, the shutdown.                                           *)
<1>NoTaskLease.
    ASSUME LeaseInv,
           \/ \E t \in Task, s \in Session : LeaseExhausted(t, s)
           \/ \E s \in Session : DropSession(s)
           \/ \E w \in Worker : ReapSkip(w)
           \/ ShutdownAll
           \/ UNCHANGED vars
    PROVE  LeaseRest'
  <2> USE <1>NoTaskLease
  <2> USE DEF innerVars, slotVars, sessionVars, lockVars, envVars
  <2>1. /\ TypeOK /\ WorkersKnown /\ LocksHeld /\ ReservationsSound
        /\ ReleasesAlone /\ InstallsFresh /\ HandleOwnsSlot /\ DispatchIsolated
    BY Zenon, <1>LeaseFacts
  <2>2. UNCHANGED <<nextId, spawning, state, handle, task, callLock>>
    BY Zenon DEF LeaseExhausted, DropSession, ReapSkip, ShutdownAll, vars
  <2>3. \A w \in Worker : reaper'[w] => reaper[w]
    BY Zenon, <2>1 DEF LeaseExhausted, DropSession, ReapSkip, ShutdownAll, vars, TypeOK
  <2>4. \A j \in jobs' : j.kind \in {"retire", "shutdown"} => Known(j.w)
    <3>1. CASE ShutdownAll
      <4>1. \A w \in children : Known(w)
        BY Zenon, <2>1 DEF ReservationsSound, Known, TypeOK
      <4>2. ASSUME NEW w \in children PROVE Known(Job("shutdown", w, NoSession).w)
        BY Zenon, <4>1 DEF Job
      <4> QED
        BY Zenon, <2>1, <3>1, <4>2 DEF ShutdownAll, WorkersKnown
    <3>2. CASE ~ShutdownAll
      <4>1. \A j \in jobs' : j \in jobs \/ j.kind = "drop"
        <5>1. jobs' = jobs \/ \E s \in Session : jobs' = jobs \cup {Job("drop", NoWorker, s)}
          BY Zenon, <3>2 DEF LeaseExhausted, DropSession, ReapSkip, vars
        <5>2. \A s : Job("drop", NoWorker, s).kind = "drop"
          BY Zenon DEF Job
        <5> QED
          BY Zenon, <5>1, <5>2
      <4> QED
        BY Zenon, <2>1, <4>1 DEF WorkersKnown
    <3> QED
      BY <3>1, <3>2
  <2>5. WorkersKnown'
    BY Zenon, <2>1, <2>2, <2>3, <2>4 DEF WorkersKnown, Known, NeedsWorker
  <2>6. LocksHeld'
    BY Zenon, <2>1, <2>2 DEF LocksHeld, HoldsLock, CallerSound
  <2>7. Slots'
    BY Zenon, <2>1, <2>2 DEF Slots, ReleasesAlone, InstallsFresh, HandleOwnsSlot, DispatchIsolated
  <2> QED
    BY Zenon, <2>5, <2>6, <2>7 DEF LeaseRest
<1> SUFFICES ASSUME LeaseInv, [Next]_vars PROVE LeaseInv'
  BY Zenon
<1>1. PoolInv'
  BY Zenon, NextInv DEF LeaseInv, PoolStep
<1>2. ASSUME NEW t \in Task, RequestStep(t) PROVE LeaseRest'
  <2>1. PICK s \in Session :
          \/ OpenOnLease(t, s)
          \/ \E w \in children : LeaseIdle(t, s, w)
          \/ LeaseExhausted(t, s)
          \/ LeaseReserve(t, s)
          \/ \E g \in {0} \cup Generation : StartCall(t, s, g)
          \/ Close(t, s)
          \/ \E g \in Generation : CloseIfGeneration(t, s, g)
    BY Zenon, <1>2 DEF RequestStep
  <2> QED
    BY Zenon, <2>1, <1>StartLease, <1>IdleLease, <1>NoTaskLease, <1>ReserveLease, <1>CloseLease
<1>3. ASSUME NEW t \in Task, TaskStep(t) PROVE LeaseRest'
  BY Zenon, <1>3, <1>SpawnLease, <1>InstallLease, <1>ReserveLease, <1>CallLease, <1>CloseLease, <1>RetireLease,
     <1>BeginLease, <1>FinishLease
  DEF TaskStep
<1>4. ASSUME NEW t \in Task, JobStep(t) \/ DropFuture(t) PROVE LeaseRest'
  BY Zenon, <1>4, <1>JobLease DEF JobStep
<1>5. LeaseRest'
  BY Zenon, <1>2, <1>3, <1>4, <1>NoTaskLease DEF Next
<1> QED
  BY Zenon, <1>1, <1>5 DEF LeaseInv

-----------------------------------------------------------------------------
(* For every number of sessions, tasks, workers and generations, every      *)
(* reachable state satisfies the invariant of leases, releases and calls.  *)
THEOREM LeaseInvariant == Spec => []LeaseInv
<1> QED
  BY InitLease, NextLease, PTL DEF Spec

(* A session's handle always names a slot leased to this session, or a     *)
(* dead one (PooledSessionState.handle and ChildSlot.state).               *)
THEOREM HandlesOwnSlots == Spec => []HandleOwnsSlot
<1>1. LeaseInv => HandleOwnsSlot
  BY Zenon DEF LeaseInv, LeaseRest, Slots
<1> QED
  BY <1>1, LeaseInvariant, PTL

(* A tool call at a child is never overtaken by a release that hands the   *)
(* child to another session (call_tool and release_inner).                 *)
THEOREM DispatchesIsolated == Spec => []DispatchIsolated
<1>1. LeaseInv => DispatchIsolated
  BY Zenon DEF LeaseInv, LeaseRest, Slots
<1> QED
  BY <1>1, LeaseInvariant, PTL

-----------------------------------------------------------------------------
(* Reservations and processes. *)
Killing == {"forget", "finish"}
Dying == Killing \cup {"forgetNone"}

(* A running process whose slot is dead is about to be closed; any other   *)
(* one is a child, is being installed, or is being discarded by a job that *)
(* cannot be dropped.                                                      *)
ProcessInv ==
  /\ \A t \in Task : task[t].pc \in Dying => state[task[t].w] = Dead
  /\ \A w \in Worker : process[w] /\ state[w] = Dead =>
       \E t \in Task : task[t].pc \in Killing /\ task[t].w = w
  /\ \A w \in Worker : process[w] /\ state[w] # Dead =>
       \/ w \in children
       \/ \E t \in Task : task[t].pc = "install" /\ task[t].n = w
       \/ \E t \in Task : task[t].pc = "take" /\ task[t].op = "job" /\ task[t].w = w
       \/ \E j \in jobs : j.kind = "discard" /\ j.w = w

OwnerInv == ReservationHasOwner /\ ProcessInv

(* The steps of call_tool, of its error paths and of a release. *)
CallStep(t) ==
  \/ CallDispatch(t) \/ CallRefused(t)
  \/ \E answer \in {"ok", "error", "fatal"} : RpcAnswer(t, answer)
  \/ RpcKill(t) \/ RecordPath(t)
  \/ ClearHandleIfWorker(t) \/ ReleaseCurrentHandle(t)
  \/ ReleaseDead(t) \/ ReleaseBegin(t) \/ ReleaseIdle(t) \/ ReleaseRetires(t)
  \/ ScheduleIdleReap(t) \/ EnsureMinDone(t)

(* Where they lead: never to a spawn, and to a retirement only from its    *)
(* beginning.                                                              *)
LEMMA CallMoves ==
  ASSUME TypeOK, NEW t \in Task, CallStep(t)
  PROVE  /\ Moved(t)
         /\ task'[t].pc \in {"rpc", "clear", "relcur", "path", "take", "closing", "sched",
                              "release", "idle"}
         /\ \/ task'[t].caller \in {"none", "call", "release", "tool"}
            \/ task'[t].caller = task[t].caller /\ task'[t].op = task[t].op
<1>1. CASE CallDispatch(t)
  BY ZenonT(40), <1>1, GotoFacts DEF CallDispatch, Keeps
<1>2. CASE CallRefused(t)
  BY Zenon, <1>2, GotoFacts, DoneFacts DEF CallRefused, Keeps
<1>3. ASSUME NEW answer \in {"ok", "error", "fatal"}, RpcAnswer(t, answer)
      PROVE  \/ Goto(t, "path") \/ Goto(t, "relcur") \/ Done(t)
             \/ task' = [task EXCEPT ![t].pc = "clear", ![t].caller = "tool"]
  BY Zenon, <1>3 DEF RpcAnswer
<1>4. CASE \E answer \in {"ok", "error", "fatal"} : RpcAnswer(t, answer)
  <2>1. CASE Goto(t, "path") \/ Goto(t, "relcur") \/ Done(t)
    BY ZenonT(40), <2>1, GotoFacts, DoneFacts DEF Keeps
  <2>2. CASE task' = [task EXCEPT ![t].pc = "clear", ![t].caller = "tool"]
    <3>1. Moved(t) /\ task'[t].pc = "clear" /\ task'[t].caller = "tool"
      BY Zenon, <2>2, CallerFacts
    <3> QED
      BY Zenon, <3>1
  <2> QED
    BY <1>3, <1>4, <2>1, <2>2
<1>5. CASE RpcKill(t)
  <2>1. Moved(t) /\ task'[t].pc = "take" /\ task'[t].caller = "call"
    BY Zenon, <1>5, CallerFacts DEF RpcKill
  <2> QED
    BY <2>1
<1>6. CASE RecordPath(t) \/ ReleaseDead(t) \/ ScheduleIdleReap(t)
  BY Zenon, <1>6, DoneFacts DEF RecordPath, ReleaseDead, ScheduleIdleReap
<1>7. CASE ClearHandleIfWorker(t)
  BY Zenon, <1>7, GotoFacts, DoneFacts DEF ClearHandleIfWorker, Keeps
<1>8. CASE ReleaseCurrentHandle(t)
  <2>1. Done(t) \/ StartTask(t, "release", task[t].op, task[t].s, handle[task[t].s].worker, 0)
    BY Zenon, <1>8 DEF ReleaseCurrentHandle, TakeHandle
  <2> QED
    BY <2>1, DoneFacts, StartFacts DEF StartTask
<1>9. CASE ReleaseBegin(t)
  BY Zenon, <1>9, GotoFacts DEF ReleaseBegin, Keeps
<1>10. CASE ReleaseIdle(t)
  BY ZenonT(40), <1>10, GotoFacts, DoneFacts DEF ReleaseIdle, Keeps
<1>11. CASE ReleaseRetires(t)
  <2>1. Moved(t) /\ task'[t].pc = "take" /\ task'[t].caller = "release"
    BY Zenon, <1>11, CallerFacts DEF ReleaseRetires
  <2> QED
    BY <2>1
<1>12. CASE EnsureMinDone(t)
  BY Zenon, <1>12, ReturnFacts DEF EnsureMinDone, Keeps
<1> QED
  BY Zenon, <1>1, <1>2, <1>4, <1>5, <1>6, <1>7, <1>8, <1>9, <1>10, <1>11, <1>12 DEF CallStep

(* What they leave alone. *)
LEMMA CallLeaves ==
  ASSUME TypeOK, NEW t \in Task, CallStep(t)
  PROVE  /\ UNCHANGED <<spawning, process, children, jobs, handleLock>>
         /\ \A s \in Session : handle'[s] \in {handle[s], NoLease}
<1> USE DEF innerVars, slotVars, sessionVars, lockVars, envVars
<1>1. CASE ClearHandleIfWorker(t) \/ ReleaseCurrentHandle(t)
  BY Zenon, <1>1 DEF ClearHandleIfWorker, ReleaseCurrentHandle, TakeHandle, TypeOK
<1>2. CASE \/ CallDispatch(t) \/ CallRefused(t)
           \/ \E answer \in {"ok", "error", "fatal"} : RpcAnswer(t, answer)
           \/ RpcKill(t) \/ RecordPath(t)
  BY Zenon, <1>2 DEF CallDispatch, CallRefused, RpcAnswer, RpcKill, RecordPath
<1>3. CASE \/ ReleaseDead(t) \/ ReleaseBegin(t) \/ ReleaseIdle(t) \/ ReleaseRetires(t)
           \/ ScheduleIdleReap(t) \/ EnsureMinDone(t)
  BY Zenon, <1>3 DEF ReleaseDead, ReleaseBegin, ReleaseIdle, ReleaseRetires, ScheduleIdleReap,
              EnsureMinDone
<1> QED
  BY ZenonT(40), <1>1, <1>2, <1>3 DEF CallStep

(* The warmed children are the only processes, and nothing is reserved. *)
LEMMA InitOwner == Init => OwnerInv
<1> SUFFICES ASSUME Init PROVE OwnerInv
  BY Zenon
<1>1. ReservationHasOwner
  BY Zenon DEF Init, ReservationHasOwner
<1>2. /\ \A t \in Task : task[t].pc = "idle"
      /\ \A w \in Worker : state[w] # Dead
      /\ \A w \in Worker : process[w] => w \in children
  <2>1. \A t \in Task : task[t].pc = "idle"
    BY Zenon DEF Init, IdleTask, TaskAt
  <2>2. \A w \in Worker : state[w] # Dead
    BY Zenon DEF Init, Idle, Unborn, Dead, Child
  <2>3. \A w \in Worker : process[w] => w \in children
    <3>1. Min \in Nat /\ Worker \subseteq Nat
      BY PoolAssumption DEF Min, Lesser, Worker
    <3>2. children = 0 .. (Min - 1) /\ process = [w \in Worker |-> w < Min]
      BY Zenon DEF Init
    <3>3. \A w \in Worker : process[w] => w < Min
      BY Zenon, <3>2
    <3> QED
      BY <3>1, <3>2, <3>3
  <2> QED
    BY Zenon, <2>1, <2>2, <2>3
<1>3. ProcessInv
  BY Zenon, <1>2 DEF ProcessInv, Dying, Killing
<1> QED
  BY Zenon, <1>1, <1>3 DEF OwnerInv

(* Every step keeps the owners. *)
LEMMA NextOwner == LeaseInv /\ OwnerInv /\ [Next]_vars => OwnerInv'
(* A step of a task that neither spawns nor retires. *)
<1>QuietOwner.
    ASSUME LeaseInv, OwnerInv, NEW t \in Task, Moved(t),
           task[t].pc \notin {"spawn", "install", "take"} \cup Dying,
           task'[t].pc \notin Dying,
           UNCHANGED <<spawning, process>>,
           \A w \in Worker : state'[w] = state[w] \/ (state[w] # Dead /\ state'[w] # Dead),
           Live \subseteq children',
           \A j \in jobs : GivesBack(j) => j \in jobs'
    PROVE  OwnerInv'
  <2> USE <1>QuietOwner
  <2>1. TypeOK /\ ReservationHasOwner /\ ProcessInv /\ WorkersKnown
    BY Zenon DEF LeaseInv, LeaseRest, PoolInv, OwnerInv
  <2>2. ReservationHasOwner'
    BY Zenon, <2>1 DEF ReservationHasOwner, Moved, GivesBack
  <2>3. \A u \in Task : task'[u].pc \in Dying => state'[task'[u].w] = Dead
    <3> SUFFICES ASSUME NEW u \in Task, task'[u].pc \in Dying PROVE state'[task'[u].w] = Dead
      BY Zenon
    <3>1. u # t /\ task'[u] = task[u]
      BY Zenon DEF Moved
    <3>2. state[task[u].w] = Dead /\ task[u].w \in Worker
      BY <2>1, <3>1 DEF ProcessInv, WorkersKnown, NeedsWorker, UsesWorker, Retiring, Dying, Killing,
                        Known
    <3> QED
      BY Zenon, <3>1, <3>2
  <2>4. \A w \in Worker : process'[w] /\ state'[w] = Dead =>
          \E u \in Task : task'[u].pc \in Killing /\ task'[u].w = w
    BY <2>1 DEF ProcessInv, Moved, Dying
  <2>5. ASSUME NEW w \in Worker, process'[w], state'[w] # Dead
        PROVE  \/ w \in children'
               \/ \E u \in Task : task'[u].pc = "install" /\ task'[u].n = w
               \/ \E u \in Task : task'[u].pc = "take" /\ task'[u].op = "job" /\ task'[u].w = w
               \/ \E j \in jobs' : j.kind = "discard" /\ j.w = w
    <3>1. process[w] /\ state[w] # Dead
      BY Zenon, <2>5
    <3>2. CASE w \in children
      BY Zenon, <3>1, <3>2 DEF Live
    <3>3. CASE \E u \in Task : task[u].pc = "install" /\ task[u].n = w
      BY Zenon, <3>3 DEF Moved
    <3>4. CASE \E u \in Task : task[u].pc = "take" /\ task[u].op = "job" /\ task[u].w = w
      BY Zenon, <3>4 DEF Moved
    <3>5. CASE \E j \in jobs : j.kind = "discard" /\ j.w = w
      BY Zenon, <3>5 DEF GivesBack
    <3> QED
      BY Zenon, <2>1, <3>1, <3>2, <3>3, <3>4, <3>5 DEF ProcessInv
  <2> QED
    BY Zenon, <2>2, <2>3, <2>4, <2>5 DEF OwnerInv, ProcessInv

(* Requests, calls and releases keep the owners. *)
<1>RequestOwner.
    ASSUME LeaseInv, OwnerInv, NEW t \in Task, NEW s \in Session,
           \/ OpenOnLease(t, s)
           \/ \E w \in children : LeaseIdle(t, s, w)
           \/ \E g \in {0} \cup Generation : StartCall(t, s, g)
           \/ Close(t, s)
           \/ \E g \in Generation : CloseIfGeneration(t, s, g)
    PROVE  OwnerInv'
  <2> USE <1>RequestOwner
  <2> USE DEF innerVars, slotVars, sessionVars, lockVars, envVars
  <2>1. TypeOK
    BY Zenon DEF LeaseInv, PoolInv
  <2>2. task[t].pc = "idle" /\ UNCHANGED <<spawning, process, children, jobs>>
    BY Zenon, IdleAtRest
    DEF OpenOnLease, LeaseIdle, LeaseForOpen, StartCall, Close, CloseIfGeneration, Begin
  <2>3. \E pc \in {"call", "release"} : \E op, w, g : StartTask(t, pc, op, s, w, g)
    BY ZenonT(40) DEF OpenOnLease, LeaseIdle, StartCall, Close, CloseIfGeneration, TakeHandle
  <2>4. Moved(t) /\ task'[t].pc \in {"call", "release"}
    BY <2>1, <2>3 DEF StartTask, TaskAt, Moved, TypeOK
  <2>5. \A w \in Worker : state'[w] = state[w] \/ (state[w] # Dead /\ state'[w] # Dead)
    BY <2>1, StatesDiffer DEF OpenOnLease, LeaseIdle, StartCall, Close, CloseIfGeneration, TypeOK
  <2> QED
    BY Zenon, <2>2, <2>4, <2>5, <1>QuietOwner DEF Live, Dying, Killing

(* Calls and releases keep the owners: a slot that dies had none. *)
<1>CallOwner.
    ASSUME LeaseInv, OwnerInv, NEW t \in Task, CallStep(t)
    PROVE  OwnerInv'
  <2> USE <1>CallOwner
  <2> USE DEF innerVars, slotVars, sessionVars, lockVars, envVars
  <2>1. TypeOK
    BY Zenon DEF LeaseInv, PoolInv
  <2>2. task[t].pc \notin {"spawn", "install", "take"} \cup Dying
    BY Zenon DEF CallStep, CallDispatch, CallRefused, RpcAnswer, RpcKill, RecordPath, ClearHandleIfWorker,
           ReleaseCurrentHandle, ReleaseDead, ReleaseBegin, ReleaseIdle, ReleaseRetires,
           ScheduleIdleReap, EnsureMinDone, Dying, Killing
  <2>3. \A w \in Worker : state'[w] = state[w] \/ (state[w] # Dead /\ state'[w] # Dead)
    <3>1. CASE ReleaseBegin(t) \/ ReleaseIdle(t)
      BY Zenon, <2>1, <3>1, StatesDiffer DEF ReleaseBegin, ReleaseIdle, TypeOK
    <3>2. CASE UNCHANGED state
      BY Zenon, <3>2
    <3> QED
      BY Zenon, <3>1, <3>2
      DEF CallStep, CallDispatch, CallRefused, RpcAnswer, RpcKill, RecordPath, ClearHandleIfWorker,
          ReleaseCurrentHandle, ReleaseDead, ReleaseRetires, ScheduleIdleReap, EnsureMinDone
  <2>4. /\ Moved(t) /\ task'[t].pc \notin Dying
        /\ UNCHANGED <<spawning, process, children, jobs>>
    BY Zenon, <2>1, CallMoves, CallLeaves DEF Dying, Killing
  <2> QED
    BY Zenon, <2>2, <2>3, <2>4, <1>QuietOwner DEF Live

(* Reservations are made, and given back by a failed spawn. *)
<1>ReserveOwner.
    ASSUME LeaseInv, OwnerInv, NEW t \in Task,
           \/ EnsureMinReserve(t) \/ SpawnFails(t)
           \/ \E s \in Session : LeaseReserve(t, s)
    PROVE  OwnerInv'
  <2> USE <1>ReserveOwner
  <2> USE DEF innerVars, slotVars, sessionVars, lockVars, envVars
  <2>1. TypeOK /\ ReservationHasOwner /\ ProcessInv
    BY Zenon DEF LeaseInv, PoolInv, OwnerInv
  <2>2. UNCHANGED <<process, state, jobs>> /\ Live \subseteq children'
    BY Zenon DEF EnsureMinReserve, SpawnFails, LeaseReserve, Live
  <2>3. CASE EnsureMinReserve(t) \/ \E s \in Session : LeaseReserve(t, s)
    <3>1. task[t].pc \in {"idle", "ensure"} /\ spawning' = spawning \cup {nextId}
      BY <2>3 DEF EnsureMinReserve, LeaseReserve, LeaseForOpen, Begin, IdleTask, TaskAt,
                  ReserveSpawnSlot
    <3>2. Moved(t) /\ task'[t].pc = "spawn" /\ task'[t].n = nextId
      BY <2>1, <2>3 DEF EnsureMinReserve, LeaseReserve, Moved, TypeOK, TaskState, TaskAt
    <3>3. ReservationHasOwner'
      <4>1. \A u \in Task : task[u].pc \in {"spawn", "install"} => task'[u] = task[u]
        BY Zenon, <3>1, <3>2 DEF Moved
      <4> QED
        BY <2>1, <2>2, <3>1, <3>2, <4>1 DEF ReservationHasOwner
    <3>4. ProcessInv'
      BY <2>1, <2>2, <3>1, <3>2 DEF ProcessInv, Moved, Live, Dying, Killing
    <3> QED
      BY Zenon, <3>3, <3>4 DEF OwnerInv
  <2>4. CASE SpawnFails(t)
    <3>1. task[t].pc = "spawn" /\ spawning' = spawning \ {task[t].n} /\ UNCHANGED children
      BY Zenon, <2>4 DEF SpawnFails
    <3>2. Moved(t) /\ task'[t].pc \in {"relcur", "clear", "idle"}
      BY Zenon, <2>1, <2>4, DoneFacts, ReturnFacts DEF SpawnFails
    <3>3. ReservationHasOwner'
      <4>1. \A u \in Task : task[u].n # task[t].n => task'[u] = task[u]
        BY Zenon, <3>1, <3>2 DEF Moved
      <4> QED
        BY <2>1, <2>2, <3>1, <3>2, <4>1 DEF ReservationHasOwner
    <3>4. ProcessInv'
      BY <2>1, <2>2, <3>1, <3>2 DEF ProcessInv, Moved, Live, Dying, Killing
    <3> QED
      BY Zenon, <3>3, <3>4 DEF OwnerInv
  <2> QED
    BY Zenon, <2>3, <2>4

(* A process starts, and its slot becomes a child. *)
<1>SpawnOwner.
    ASSUME LeaseInv, OwnerInv, NEW t \in Task, SpawnSlot(t) \/ InstallSlot(t)
    PROVE  OwnerInv'
  <2> USE <1>SpawnOwner
  <2> USE DEF innerVars, slotVars, sessionVars, lockVars, envVars
  <2> DEFINE n == task[t].n
  <2>1. TypeOK /\ ReservationHasOwner /\ ProcessInv /\ TasksSound /\ WorkersKnown
    BY Zenon DEF LeaseInv, LeaseRest, PoolInv, OwnerInv
  <2>2. n \in spawning /\ n \in Worker /\ UNCHANGED jobs
    BY Zenon, <2>1 DEF SpawnSlot, InstallSlot, TasksSound, Spawning, TypeOK
  <2>3. \A u \in Task : task[u].pc \in Dying => task[u].w # n /\ task[u].w \in Worker
    BY Zenon, <2>1, <2>2 DEF WorkersKnown, Known, NeedsWorker, UsesWorker, Retiring, Dying, Killing
  <2>4. CASE SpawnSlot(t)
    <3>1. /\ task[t].pc = "spawn" /\ UNCHANGED <<children, spawning>>
          /\ \A w \in Worker : w # n => process'[w] = process[w] /\ state'[w] = state[w]
          /\ state'[n] # Dead
      BY Zenon, <2>1, <2>2, <2>4, StatesDiffer DEF SpawnSlot, TypeOK
    <3>2. Moved(t) /\ task'[t].pc = "install" /\ task'[t].n = n
      BY Zenon, <2>1, <2>4, GotoFacts DEF SpawnSlot, Keeps
    <3>3. ReservationHasOwner'
      <4>1. \A u \in Task : task[u].pc \in {"spawn", "install"} => 
               task'[u].pc \in {"spawn", "install"} /\ task'[u].n = task[u].n
        BY Zenon, <3>1, <3>2 DEF Moved
      <4> QED
        BY <2>1, <2>2, <3>1, <3>2, <4>1 DEF ReservationHasOwner
    <3>4. \A u \in Task : task'[u].pc \in Dying => state'[task'[u].w] = Dead
      BY <2>1, <2>3, <3>1, <3>2 DEF ProcessInv, Moved, Dying, Killing
    <3>5. \A w \in Worker : process'[w] /\ state'[w] = Dead =>
            \E u \in Task : task'[u].pc \in Killing /\ task'[u].w = w
      BY <2>1, <3>1, <3>2 DEF ProcessInv, Moved, Killing
    <3>6. \A w \in Worker : process'[w] /\ state'[w] # Dead =>
            \/ w \in children'
            \/ \E u \in Task : task'[u].pc = "install" /\ task'[u].n = w
            \/ \E u \in Task : task'[u].pc = "take" /\ task'[u].op = "job" /\ task'[u].w = w
            \/ \E j \in jobs' : j.kind = "discard" /\ j.w = w
      BY <2>1, <2>2, <3>1, <3>2 DEF ProcessInv, Moved
    <3> QED
      BY ZenonT(40), <3>3, <3>4, <3>5, <3>6 DEF OwnerInv, ProcessInv
  <2>5. CASE InstallSlot(t)
    <3>1. /\ task[t].pc = "install" /\ UNCHANGED <<process, state>>
          /\ children' = children \cup {n} /\ spawning' = spawning \ {n}
      BY Zenon, <2>5 DEF InstallSlot
    <3>2. Moved(t) /\ task'[t].pc \in {"call", "ensure"}
      BY <2>1, <2>5 DEF InstallSlot, StartTask, TaskAt, Moved, TypeOK, TaskState
    <3>3. ReservationHasOwner'
      <4>1. \A u \in Task : task[u].n # n => task'[u] = task[u]
        BY Zenon, <3>1, <3>2 DEF Moved
      <4> QED
        BY <2>1, <2>2, <3>1, <3>2, <4>1 DEF ReservationHasOwner
    <3>4. ProcessInv'
      BY <2>1, <2>2, <3>1, <3>2 DEF ProcessInv, Moved, Dying, Killing
    <3> QED
      BY Zenon, <3>3, <3>4 DEF OwnerInv
  <2> QED
    BY Zenon, <2>4, <2>5

(* mark_dead and the reaper kill a slot, forget it and close its process. *)
<1>RetireOwner.
    ASSUME LeaseInv, OwnerInv, NEW t \in Task,
           \/ TakeDeadWorker(t) \/ ForgetSlot(t) \/ FinishDeadWorker(t)
           \/ \E w \in Worker : ReapIdle(t, w)
    PROVE  OwnerInv'
  <2> USE <1>RetireOwner
  <2> USE DEF innerVars, slotVars, sessionVars, lockVars, envVars
  <2>1. /\ TypeOK /\ ReservationHasOwner /\ ProcessInv
        /\ \A u \in Task : task[u].pc \in Retiring => task[u].w \in Worker
    BY ZenonT(40) DEF LeaseInv, LeaseRest, PoolInv, OwnerInv, WorkersKnown, NeedsWorker, UsesWorker, Known
  <2>2. /\ UNCHANGED <<spawning, jobs>>
        /\ task[t].pc \in {"idle", "take", "forget", "forgetNone", "finish"}
    BY DEF TakeDeadWorker, ForgetSlot, FinishDeadWorker, ReapIdle, IdleTask, TaskAt
  <2>3. ASSUME Moved(t) PROVE ReservationHasOwner'
    BY ZenonT(40), <2>1, <2>2, <2>3 DEF ReservationHasOwner, Moved
  <2>4. CASE TakeDeadWorker(t)
    <3> DEFINE w == task[t].w
    <3>1. /\ Moved(t) /\ task'[t].w = w
          /\ task'[t].pc = IF state[w] = Dead THEN "forgetNone" ELSE "forget"
      BY ZenonT(40), <2>1, <2>4, GotoFacts DEF TakeDeadWorker, Keeps
    <3>2. /\ w \in Worker /\ state'[w] = Dead /\ task[t].pc = "take"
          /\ \A v \in Worker : v # w => state'[v] = state[v]
          /\ UNCHANGED <<process, children>>
      BY Zenon, <2>1, <2>4 DEF TakeDeadWorker, TypeOK, Retiring
    <3>3. \A u \in Task : task'[u].pc \in Dying => state'[task'[u].w] = Dead
      <4>1. ASSUME NEW u \in Task, u # t, task'[u].pc \in Dying PROVE state'[task'[u].w] = Dead
        BY <2>1, <3>1, <3>2, <4>1 DEF ProcessInv, Moved, Retiring, Dying, Killing
      <4> QED
        BY Zenon, <3>1, <3>2, <4>1
    <3>4. \A v \in Worker : process'[v] /\ state'[v] = Dead =>
            \E u \in Task : task'[u].pc \in Killing /\ task'[u].w = v
      BY <2>1, <3>1, <3>2 DEF ProcessInv, Moved, Killing
    <3>5. \A v \in Worker : process'[v] /\ state'[v] # Dead =>
            \/ v \in children'
            \/ \E u \in Task : task'[u].pc = "install" /\ task'[u].n = v
            \/ \E u \in Task : task'[u].pc = "take" /\ task'[u].op = "job" /\ task'[u].w = v
            \/ \E j \in jobs' : j.kind = "discard" /\ j.w = v
      BY <2>1, <2>2, <3>1, <3>2 DEF ProcessInv, Moved
    <3> QED
      BY Zenon, <2>3, <3>1, <3>3, <3>4, <3>5 DEF OwnerInv, ProcessInv
  <2>5. CASE ForgetSlot(t)
    <3>1. /\ Moved(t)
          /\ IF task[t].pc = "forget"
             THEN task'[t].pc = "finish" /\ task'[t].w = task[t].w
             ELSE task'[t].pc \in {"ensure", "idle"}
      BY ZenonT(40), <2>1, <2>5, GotoFacts, DoneFacts DEF ForgetSlot, Replenish, Keeps
    <3>2. /\ state[task[t].w] = Dead /\ task[t].pc \in {"forget", "forgetNone"}
          /\ children' = children \ {task[t].w} /\ UNCHANGED <<process, state>>
      BY Zenon, <2>1, <2>5 DEF ForgetSlot, ProcessInv, Dying, Killing
    <3>3. ProcessInv'
      BY <2>1, <2>2, <3>1, <3>2 DEF ProcessInv, Moved, Dying, Killing
    <3> QED
      BY Zenon, <2>3, <3>1, <3>3 DEF OwnerInv
  <2>6. CASE FinishDeadWorker(t)
    <3>1. /\ Moved(t) /\ task'[t].pc \in {"ensure", "idle"}
      BY ZenonT(40), <2>1, <2>6, GotoFacts, DoneFacts DEF FinishDeadWorker, Replenish
    <3>2. /\ task[t].pc = "finish" /\ UNCHANGED <<children, state>> /\ ~process'[task[t].w]
          /\ \A v \in Worker : v # task[t].w => process'[v] = process[v]
      BY ZenonT(40), <2>1, <2>6 DEF FinishDeadWorker, TypeOK, Retiring
    <3>3. ProcessInv'
      BY <2>1, <2>2, <3>1, <3>2 DEF ProcessInv, Moved, Dying, Killing
    <3> QED
      BY Zenon, <2>3, <3>1, <3>3 DEF OwnerInv
  <2>7. ASSUME NEW w \in Worker, ReapIdle(t, w) PROVE OwnerInv'
    <3>1. /\ Moved(t) /\ task'[t].pc = "forget" /\ task'[t].w = w /\ task[t].pc = "idle"
      BY <2>1, <2>7 DEF ReapIdle, TaskAt, IdleTask, Moved, TypeOK
    <3>2. /\ state'[w] = Dead /\ UNCHANGED <<process, children>>
          /\ \A v \in Worker : v # w => state'[v] = state[v]
      BY ZenonT(40), <2>1, <2>7 DEF ReapIdle, TypeOK
    <3>3. \A u \in Task : task'[u].pc \in Dying => state'[task'[u].w] = Dead
      BY <2>1, <3>1, <3>2 DEF ProcessInv, Moved, Retiring, Dying, Killing
    <3>4. \A v \in Worker : process'[v] /\ state'[v] = Dead =>
            \E u \in Task : task'[u].pc \in Killing /\ task'[u].w = v
      BY <2>1, <3>1, <3>2 DEF ProcessInv, Moved, Killing
    <3>5. \A v \in Worker : process'[v] /\ state'[v] # Dead =>
            \/ v \in children'
            \/ \E u \in Task : task'[u].pc = "install" /\ task'[u].n = v
            \/ \E u \in Task : task'[u].pc = "take" /\ task'[u].op = "job" /\ task'[u].w = v
            \/ \E j \in jobs' : j.kind = "discard" /\ j.w = v
      BY <2>1, <2>2, <3>1, <3>2 DEF ProcessInv, Moved
    <3> QED
      BY Zenon, <2>3, <3>1, <3>3, <3>4, <3>5 DEF OwnerInv, ProcessInv
  <2> QED
    BY Zenon, <2>4, <2>5, <2>6, <2>7

(* A dropped request hands its reservation or its new slot to a job. *)
<1>DropOwner.
    ASSUME LeaseInv, OwnerInv, NEW t \in Task, DropFuture(t)
    PROVE  OwnerInv'
  <2> USE <1>DropOwner
  <2> USE DEF innerVars, slotVars, sessionVars, lockVars, envVars
  <2>1. /\ TypeOK /\ ReservationHasOwner /\ ProcessInv
        /\ \A u \in Task : task[u].pc \in Retiring => task[u].w \in Worker
    BY Zenon DEF LeaseInv, LeaseRest, PoolInv, OwnerInv, WorkersKnown, NeedsWorker, UsesWorker, Known
  <2>2. Moved(t) /\ task'[t].pc = "idle"
    BY Zenon, <2>1, DoneFacts DEF DropFuture
  <2>3. /\ UNCHANGED <<children, spawning, state>> /\ task[t].op # "job"
        /\ jobs \subseteq jobs' /\ ReservationJobs(task[t]) \subseteq jobs'
    BY ZenonT(40) DEF DropFuture, Requests
  <2>4. /\ \A w \in Worker : process'[w] => process[w]
        /\ task[t].pc \in Killing => ~process'[task[t].w]
    BY Zenon, <2>1 DEF DropFuture, TypeOK, Killing, Retiring
  <2>5. /\ task[t].pc = "spawn" => \E j \in jobs' : j.kind = "unreserve" /\ j.w = task[t].n
        /\ task[t].pc = "install" => \E j \in jobs' : j.kind = "discard" /\ j.w = task[t].n
    <3>1. CASE task[t].pc = "spawn"
      <4>1. Job("unreserve", task[t].n, task[t].s) \in jobs'
        BY Zenon, <2>3, <3>1 DEF ReservationJobs
      <4> QED
        BY Zenon, <3>1, <4>1 DEF Job
    <3>2. CASE task[t].pc = "install"
      <4>1. Job("discard", task[t].n, task[t].s) \in jobs'
        BY Zenon, <2>3, <3>2 DEF ReservationJobs
      <4> QED
        BY Zenon, <3>2, <4>1 DEF Job
    <3> QED
      BY ZenonT(40), <3>1, <3>2
  <2>6. ReservationHasOwner'
    <3> SUFFICES ASSUME NEW n \in spawning
                 PROVE  \/ \E u \in Task : task'[u].pc \in {"spawn", "install"} /\ task'[u].n = n
                        \/ \E j \in jobs' : j.kind \in {"unreserve", "discard"} /\ j.w = n
      BY Zenon, <2>3 DEF ReservationHasOwner
    <3>1. CASE \E j \in jobs : j.kind \in {"unreserve", "discard"} /\ j.w = n
      BY Zenon, <2>3, <3>1
    <3>2. ASSUME NEW u \in Task, task[u].pc \in {"spawn", "install"}, task[u].n = n
          PROVE  \/ \E v \in Task : task'[v].pc \in {"spawn", "install"} /\ task'[v].n = n
                 \/ \E j \in jobs' : j.kind \in {"unreserve", "discard"} /\ j.w = n
      BY ZenonT(40), <2>2, <2>5, <3>2 DEF Moved
    <3> QED
      BY Zenon, <2>1, <3>1, <3>2 DEF ReservationHasOwner
  <2>7. \A u \in Task : task'[u].pc \in Dying => state'[task'[u].w] = Dead
    <3>1. ASSUME NEW u \in Task, task'[u].pc \in Dying PROVE task'[u] = task[u]
      BY Zenon, <2>2, <3>1 DEF Moved, Dying, Killing
    <3> QED
      BY Zenon, <2>1, <2>3, <3>1 DEF ProcessInv
  <2>8. \A w \in Worker : process'[w] /\ state'[w] = Dead =>
          \E u \in Task : task'[u].pc \in Killing /\ task'[u].w = w
    BY <2>1, <2>2, <2>3, <2>4 DEF ProcessInv, Moved
  <2>9. ASSUME NEW w \in Worker, process'[w], state'[w] # Dead
        PROVE  \/ w \in children'
               \/ \E u \in Task : task'[u].pc = "install" /\ task'[u].n = w
               \/ \E u \in Task : task'[u].pc = "take" /\ task'[u].op = "job" /\ task'[u].w = w
               \/ \E j \in jobs' : j.kind = "discard" /\ j.w = w
    <3>1. process[w] /\ state[w] # Dead
      BY Zenon, <2>3, <2>4, <2>9
    <3>2. CASE \E u \in Task : task[u].pc = "install" /\ task[u].n = w
      BY ZenonT(40), <2>2, <2>5, <3>2 DEF Moved
    <3>3. CASE \E u \in Task : task[u].pc = "take" /\ task[u].op = "job" /\ task[u].w = w
      BY Zenon, <2>2, <2>3, <3>3 DEF Moved
    <3> QED
      BY Zenon, <2>1, <2>3, <3>1, <3>2, <3>3 DEF ProcessInv
  <2> QED
    BY Zenon, <2>6, <2>7, <2>8, <2>9 DEF OwnerInv, ProcessInv

(* A job that starts gives its reservation back, or takes its slot over. *)
<1>JobOwner.
    ASSUME LeaseInv, OwnerInv, NEW t \in Task, NEW j \in jobs, StartJob(t, j)
    PROVE  OwnerInv'
  <2> USE <1>JobOwner
  <2> USE DEF innerVars, slotVars, sessionVars, lockVars, envVars
  <2>1. TypeOK /\ ReservationHasOwner /\ ProcessInv
    BY Zenon DEF LeaseInv, PoolInv, OwnerInv
  <2>2. /\ UNCHANGED <<children, state, process>> /\ jobs' = jobs \ {j}
        /\ task[t].pc = "idle"
        /\ spawning' = IF j.kind \in {"unreserve", "discard"} THEN spawning \ {j.w} ELSE spawning
    BY DEF StartJob, IdleTask, TaskAt
  <2>3. /\ Moved(t) /\ task'[t].pc \in {"idle", "relcur", "take"}
        /\ j.kind = "discard" => task'[t].pc = "take" /\ task'[t].op = "job" /\ task'[t].w = j.w
    <3>1. CASE j.kind = "unreserve"
      BY Zenon, <2>2, <3>1 DEF StartJob, Moved
    <3>2. CASE j.kind # "unreserve"
      <4>1. \E pc \in {"relcur", "take"} : \E c :
              /\ task' = [task EXCEPT ![t] = TaskAt(pc, "job", j.s, j.w, 0, NoWorker, c)]
              /\ j.kind = "discard" => pc = "take"
        BY Zenon, <3>2 DEF StartJob
      <4> QED
        BY <2>1, <4>1 DEF TaskAt, Moved, TypeOK
    <3> QED
      BY Zenon, <3>1, <3>2
  <2>4. ReservationHasOwner'
    <3> SUFFICES ASSUME NEW n \in spawning'
                 PROVE  \/ \E u \in Task : task'[u].pc \in {"spawn", "install"} /\ task'[u].n = n
                        \/ \E i \in jobs' : i.kind \in {"unreserve", "discard"} /\ i.w = n
      BY Zenon DEF ReservationHasOwner
    <3>1. CASE \E i \in jobs : i.kind \in {"unreserve", "discard"} /\ i.w = n
      BY Zenon, <2>2, <3>1
    <3>2. CASE \E u \in Task : task[u].pc \in {"spawn", "install"} /\ task[u].n = n
      BY ZenonT(40), <2>2, <2>3, <3>2 DEF Moved
    <3> QED
      BY Zenon, <2>1, <2>2, <3>1, <3>2 DEF ReservationHasOwner
  <2>5. \A u \in Task : task'[u].pc \in Dying => state'[task'[u].w] = Dead
    BY <2>1, <2>2, <2>3 DEF ProcessInv, Moved, Dying, Killing
  <2>6. \A w \in Worker : process'[w] /\ state'[w] = Dead =>
          \E u \in Task : task'[u].pc \in Killing /\ task'[u].w = w
    BY <2>1, <2>2, <2>3 DEF ProcessInv, Moved, Killing
  <2>7. ASSUME NEW w \in Worker, process'[w], state'[w] # Dead
        PROVE  \/ w \in children'
               \/ \E u \in Task : task'[u].pc = "install" /\ task'[u].n = w
               \/ \E u \in Task : task'[u].pc = "take" /\ task'[u].op = "job" /\ task'[u].w = w
               \/ \E i \in jobs' : i.kind = "discard" /\ i.w = w
    <3>1. process[w] /\ state[w] # Dead
      BY <2>2, <2>7
    <3>2. CASE \E u \in Task : task[u].pc = "install" /\ task[u].n = w
      BY ZenonT(40), <2>2, <2>3, <3>2 DEF Moved
    <3>3. CASE \E u \in Task : task[u].pc = "take" /\ task[u].op = "job" /\ task[u].w = w
      BY ZenonT(40), <2>2, <2>3, <3>3 DEF Moved
    <3>4. CASE \E i \in jobs : i.kind = "discard" /\ i.w = w
      BY <2>2, <2>3, <3>4
    <3> QED
      BY ZenonT(40), <2>1, <2>2, <3>1, <3>2, <3>3, <3>4 DEF ProcessInv
  <2> QED
    BY Zenon, <2>4, <2>5, <2>6, <2>7 DEF OwnerInv, ProcessInv

(* Steps of no task keep every owner. *)
<1>NoTaskOwner.
    ASSUME LeaseInv, OwnerInv,
           \/ \E t \in Task, s \in Session : LeaseExhausted(t, s)
           \/ \E s \in Session : DropSession(s)
           \/ \E w \in Worker : ReapSkip(w)
           \/ ShutdownAll
           \/ UNCHANGED vars
    PROVE  OwnerInv'
  <2> USE <1>NoTaskOwner
  <2> USE DEF innerVars, slotVars, sessionVars, lockVars, envVars
  <2>1. ReservationHasOwner /\ ProcessInv
    BY Zenon DEF OwnerInv
  <2>2. /\ UNCHANGED <<spawning, state, process, task>> /\ jobs \subseteq jobs'
        /\ Live \subseteq children'
    BY Zenon DEF LeaseExhausted, DropSession, ReapSkip, ShutdownAll, vars, Live
  <2>3. ReservationHasOwner'
    BY Zenon, <2>1, <2>2 DEF ReservationHasOwner
  <2>4. ProcessInv'
    BY Zenon, <2>1, <2>2 DEF ProcessInv, Live
  <2> QED
    BY Zenon, <2>3, <2>4 DEF OwnerInv
<1> SUFFICES ASSUME LeaseInv, OwnerInv, [Next]_vars PROVE OwnerInv'
  BY Zenon
<1>1. ASSUME NEW t \in Task, RequestStep(t) PROVE OwnerInv'
  <2>1. PICK s \in Session :
          \/ OpenOnLease(t, s)
          \/ \E w \in children : LeaseIdle(t, s, w)
          \/ LeaseExhausted(t, s)
          \/ LeaseReserve(t, s)
          \/ \E g \in {0} \cup Generation : StartCall(t, s, g)
          \/ Close(t, s)
          \/ \E g \in Generation : CloseIfGeneration(t, s, g)
    BY Zenon, <1>1 DEF RequestStep
  <2> QED
    BY Zenon, <2>1, <1>RequestOwner, <1>NoTaskOwner, <1>ReserveOwner
<1>2. ASSUME NEW t \in Task, TaskStep(t) PROVE OwnerInv'
  BY Zenon, <1>2, <1>SpawnOwner, <1>ReserveOwner, <1>CallOwner, <1>RetireOwner DEF TaskStep, CallStep
<1>3. ASSUME NEW t \in Task, JobStep(t) \/ DropFuture(t) PROVE OwnerInv'
  BY Zenon, <1>3, <1>JobOwner, <1>RetireOwner, <1>DropOwner DEF JobStep
<1> QED
  BY Zenon, <1>1, <1>2, <1>3, <1>NoTaskOwner DEF Next

-----------------------------------------------------------------------------
(* Every reachable state knows who gives back each reservation and who     *)
(* stops each child process.                                               *)
THEOREM OwnerInvariant == Spec => [](LeaseInv /\ OwnerInv)
<1> QED
  BY InitLease, InitOwner, NextLease, NextOwner, PTL DEF Spec

(* A dropped or failed spawn never keeps capacity for ever: each reserved  *)
(* id has its spawn or its unreserve job (SpawnReservation).               *)
THEOREM ReservationsHaveOwners == Spec => []ReservationHasOwner
<1>1. OwnerInv => ReservationHasOwner
  BY Zenon DEF OwnerInv
<1> QED
  BY <1>1, OwnerInvariant, PTL

(* No child process is ever orphaned: it is a live child, or a task or a   *)
(* job is installing or retiring it (PooledChild, DeadWorker).             *)
THEOREM ProcessesHaveOwners == Spec => []ProcessHasOwner
<1>1. OwnerInv => ProcessHasOwner
  BY Zenon DEF OwnerInv, ProcessInv, ProcessHasOwner, Live, Killing
<1> QED
  BY <1>1, OwnerInvariant, PTL

-----------------------------------------------------------------------------
(* An open that spawns keeps the handle lock of a session without lease,   *)
(* and only spawned tasks retire a worker without a guard.                 *)
OpenInv ==
  /\ \A t \in Task : Spawning(t) /\ task[t].caller = "none" =>
       handle[task[t].s] = NoLease /\ handleLock[task[t].s] = t
  /\ \A t \in Task : task[t].caller \in {"job", "final"} => task[t].op = "job"

(* A task that does not go on to spawn for an open. *)
Plain(t) == /\ Moved(t) /\ task'[t].pc \notin {"spawn", "install"}
            /\ task'[t].caller \in {"job", "final"} => task'[t].op = "job"

(* Every step keeps it. *)
LEMMA NextOpen == PoolInv /\ OpenInv /\ [Next]_vars => OpenInv'
(* The invariant, for a step of t that respects the handle locks of others. *)
<1>OpenStep.
    ASSUME PoolInv, OpenInv, NEW t \in Task, Moved(t),
           task'[t].pc \in {"spawn", "install"} /\ task'[t].caller = "none" =>
             handle'[task'[t].s] = NoLease /\ handleLock'[task'[t].s] = t,
           task'[t].caller \in {"job", "final"} => task'[t].op = "job",
           \A s \in Session : \/ handleLock[s] \in {t, NoTask}
                              \/ /\ handle'[s] \in {handle[s], NoLease}
                                 /\ handleLock'[s] = handleLock[s]
    PROVE  OpenInv'
  <2> USE <1>OpenStep
  <2>1. ASSUME NEW u \in Task, u # t, task'[u].pc \in {"spawn", "install"}, task'[u].caller = "none"
        PROVE  handle'[task'[u].s] = NoLease /\ handleLock'[task'[u].s] = u
    <3>1. task'[u] = task[u]
      BY Zenon, <2>1 DEF Moved
    <3>2. task[u].s \in Session
      BY Zenon, <2>1, <3>1 DEF PoolInv, TasksSound, TaskSound
    <3>3. handle[task[u].s] = NoLease /\ handleLock[task[u].s] = u
      BY ZenonT(40), <2>1, <3>1 DEF OpenInv, Spawning
    <3>4. u # NoTask
      BY Zenon, PoolAssumption
    <3> QED
      BY Zenon, <2>1, <3>1, <3>2, <3>3, <3>4
  <2>2. \A u \in Task : task'[u].caller \in {"job", "final"} => task'[u].op = "job"
    BY Zenon DEF OpenInv, Moved
  <2> QED
    BY Zenon, <2>1, <2>2 DEF OpenInv, Spawning

(* The ways a task goes on without spawning. *)
<1>PlainWays.
    ASSUME TypeOK, OpenInv, NEW t \in Task,
           \/ Done(t) \/ MarkDeadReturns(t)
           \/ \E p \in PCs \ {"spawn", "install"} : Goto(t, p)
           \/ \E p \in PCs \ {"spawn", "install"}, c \in {"call", "release", "tool"} :
                task' = [task EXCEPT ![t].pc = p, ![t].caller = c]
           \/ \E pc \in PCs \ {"spawn", "install"} : \E op, s, w, g : StartTask(t, pc, op, s, w, g)
    PROVE  Plain(t)
  <2> USE <1>PlainWays
  <2>1. task[t].caller \in {"job", "final"} => task[t].op = "job"
    BY Zenon DEF OpenInv
  <2>2. CASE Done(t) \/ MarkDeadReturns(t)
    BY Zenon, <2>2, DoneFacts, ReturnFacts DEF Plain
  <2>3. ASSUME NEW p \in PCs \ {"spawn", "install"}, Goto(t, p) PROVE Plain(t)
    BY Zenon, <2>1, <2>3, GotoFacts DEF Plain, Keeps
  <2>4. ASSUME NEW p \in PCs \ {"spawn", "install"}, NEW c \in {"call", "release", "tool"},
               task' = [task EXCEPT ![t].pc = p, ![t].caller = c]
        PROVE  Plain(t)
    <3>1. Moved(t) /\ task'[t].pc = p /\ task'[t].caller = c
      BY Zenon, <2>4, CallerFacts
    <3> QED
      BY Zenon, <3>1 DEF Plain
  <2>5. ASSUME NEW pc \in PCs \ {"spawn", "install"}, NEW op, NEW s, NEW w, NEW g,
               StartTask(t, pc, op, s, w, g)
        PROVE  Plain(t)
    <3>1. Moved(t) /\ task'[t].pc = pc /\ task'[t].caller = "none"
      BY Zenon, <2>5, StartFacts, Zenon DEF StartTask
    <3> QED
      BY Zenon, <3>1 DEF Plain
  <2> QED
    BY Zenon, <2>2, <2>3, <2>4, <2>5

(* Requests other than one that reserves an id. *)
<1>RequestOpen.
    ASSUME PoolInv, OpenInv, NEW t \in Task, NEW s \in Session,
           \/ OpenOnLease(t, s)
           \/ \E w \in children : LeaseIdle(t, s, w)
           \/ \E g \in {0} \cup Generation : StartCall(t, s, g)
           \/ Close(t, s)
           \/ \E g \in Generation : CloseIfGeneration(t, s, g)
    PROVE  OpenInv'
  <2> USE <1>RequestOpen
  <2> USE DEF innerVars, slotVars, sessionVars, lockVars, envVars
  <2>1. TypeOK
    BY Zenon DEF PoolInv
  <2>2. \E pc \in PCs \ {"spawn", "install"} : \E op, w, g : StartTask(t, pc, op, s, w, g)
    BY Zenon DEF OpenOnLease, LeaseIdle, StartCall, Close, CloseIfGeneration, TakeHandle, PCs
  <2>3. Plain(t)
    BY <2>1, <2>2, <1>PlainWays
  <2>4. /\ handleLock[s] = NoTask /\ UNCHANGED handleLock
        /\ \A a \in Session : a # s => handle'[a] = handle[a]
    BY Zenon, <2>1 DEF OpenOnLease, LeaseIdle, LeaseForOpen, StartCall, Close, CloseIfGeneration, Begin,
                TakeHandle, TypeOK
  <2> QED
    BY Zenon, <2>3, <2>4, <1>OpenStep DEF Plain

(* Steps of a request or of a retirement that do not spawn. *)
<1>TaskOpen.
    ASSUME PoolInv, OpenInv, NEW t \in Task,
           \/ CallStep(t)
           \/ TakeDeadWorker(t) \/ ForgetSlot(t) \/ FinishDeadWorker(t)
           \/ DropFuture(t)
    PROVE  OpenInv'
  <2> USE <1>TaskOpen
  <2> USE DEF innerVars, slotVars, sessionVars, lockVars, envVars
  <2>1. TypeOK /\ (task[t].caller \in {"job", "final"} => task[t].op = "job")
    BY Zenon DEF PoolInv, OpenInv
  <2>2. CASE CallStep(t)
    <3>1. Plain(t)
      BY ZenonT(40), <2>1, <2>2, CallMoves DEF Plain
    <3> QED
      BY Zenon, <2>1, <2>2, <3>1, CallLeaves, <1>OpenStep DEF Plain
  <2>3. CASE TakeDeadWorker(t) \/ ForgetSlot(t) \/ FinishDeadWorker(t)
    <3>1. \/ Done(t) \/ Goto(t, "forgetNone") \/ Goto(t, "forget") \/ Goto(t, "finish")
          \/ Goto(t, "ensure")
      BY Zenon, <2>3 DEF TakeDeadWorker, ForgetSlot, FinishDeadWorker, Replenish
    <3>2. Plain(t)
      BY <2>1, <3>1, GotoFacts, DoneFacts DEF Plain, Keeps
    <3>3. UNCHANGED <<handle, handleLock>>
      BY Zenon, <2>3 DEF TakeDeadWorker, ForgetSlot, FinishDeadWorker
    <3> QED
      BY Zenon, <3>2, <3>3, <1>OpenStep DEF Plain
  <2>4. CASE DropFuture(t)
    <3>1. Plain(t)
      BY Zenon, <2>1, <2>4, DoneFacts DEF DropFuture, Plain
    <3>2. UNCHANGED handle /\ \A s \in Session : handleLock[s] = t \/ handleLock'[s] = handleLock[s]
      BY ZenonT(40), <2>4 DEF DropFuture
    <3> QED
      BY Zenon, <3>1, <3>2, <1>OpenStep DEF Plain
  <2> QED
    BY Zenon, <2>2, <2>3, <2>4

(* Spawns for an open and for ensure_min_workers, and jobs. *)
<1>SpawnOpen.
    ASSUME PoolInv, OpenInv, NEW t \in Task,
           \/ \E s \in Session : LeaseReserve(t, s)
           \/ EnsureMinReserve(t) \/ SpawnSlot(t) \/ InstallSlot(t) \/ SpawnFails(t)
           \/ JobStep(t)
    PROVE  OpenInv'
  <2> USE <1>SpawnOpen
  <2> USE DEF innerVars, slotVars, sessionVars, lockVars, envVars
  <2>1. /\ TypeOK /\ TaskSound(task[t])
        /\ task[t].caller \in {"job", "final"} => task[t].op = "job"
        /\ Spawning(t) /\ task[t].caller = "none" =>
             handle[task[t].s] = NoLease /\ handleLock[task[t].s] = t
    BY ZenonT(40) DEF PoolInv, TasksSound, OpenInv
  <2>2. ASSUME NEW s \in Session, LeaseReserve(t, s) PROVE OpenInv'
    <3>1. /\ Moved(t) /\ task'[t].caller = "none" /\ task'[t].s = s
      BY Zenon, <2>1, <2>2 DEF LeaseReserve, TaskAt, Moved, TypeOK
    <3>2. /\ handleLock[s] = NoTask /\ handle[s] = NoLease /\ UNCHANGED handle
          /\ handleLock'[s] = t /\ \A a \in Session : a # s => handleLock'[a] = handleLock[a]
      BY Zenon, <2>1, <2>2 DEF LeaseReserve, LeaseForOpen, Begin, TypeOK
    <3> QED
      BY Zenon, <3>1, <3>2, <1>OpenStep
  <2>3. CASE EnsureMinReserve(t)
    <3>1. /\ Moved(t) /\ task'[t].caller = task[t].caller /\ task'[t].op = task[t].op
      BY Zenon, <2>1, <2>3 DEF EnsureMinReserve, Moved, TypeOK, TaskState
    <3>2. task[t].caller # "none" /\ UNCHANGED <<handle, handleLock>>
      BY Zenon, <2>1, <2>3 DEF EnsureMinReserve, TaskSound, Retiring
    <3> QED
      BY Zenon, <2>1, <3>1, <3>2, <1>OpenStep
  <2>4. CASE SpawnSlot(t)
    <3>1. Moved(t) /\ Keeps(t) /\ task'[t].caller = task[t].caller
      BY Zenon, <2>1, <2>4, GotoFacts DEF SpawnSlot
    <3>2. task[t].pc = "spawn" /\ UNCHANGED <<handle, handleLock>>
      BY ZenonT(40), <2>4 DEF SpawnSlot
    <3> QED
      BY Zenon, <2>1, <3>1, <3>2, <1>OpenStep DEF Keeps, Spawning
  <2>5. CASE InstallSlot(t)
    <3>1. CASE task[t].caller = "none"
      <4>1. /\ StartTask(t, "call", "open", task[t].s, task[t].n, 0)
            /\ handle' = [handle EXCEPT ![task[t].s] = Lease(task[t].n, task[t].g)]
            /\ handleLock' = [handleLock EXCEPT ![task[t].s] = NoTask]
            /\ handleLock[task[t].s] = t
        BY Zenon, <2>1, <2>5, <3>1 DEF InstallSlot, Spawning
      <4>2. Plain(t)
        BY Zenon, <2>1, <4>1, <1>PlainWays DEF PCs
      <4>3. \A s \in Session : handleLock[s] = t \/ (handle'[s] = handle[s] /\ handleLock'[s] = handleLock[s])
        BY Zenon, <2>1, <4>1 DEF TypeOK
      <4> QED
        BY Zenon, <4>2, <4>3, <1>OpenStep DEF Plain
    <3>2. CASE task[t].caller # "none"
      <4>1. /\ Moved(t) /\ task'[t].caller = task[t].caller /\ task'[t].op = task[t].op
            /\ UNCHANGED <<handle, handleLock>>
        BY <2>1, <2>5, <3>2 DEF InstallSlot, Moved, TypeOK, TaskState
      <4> QED
        BY Zenon, <2>1, <3>2, <4>1, <1>OpenStep
    <3> QED
      BY Zenon, <3>1, <3>2
  <2>6. CASE SpawnFails(t)
    <3>1. Plain(t)
      BY Zenon, <2>1, <2>6, <1>PlainWays DEF SpawnFails
    <3>2. UNCHANGED handle /\ \A s \in Session : handleLock[s] = t \/ handleLock'[s] = handleLock[s]
      BY Zenon, <2>1, <2>6 DEF SpawnFails, Spawning, TypeOK
    <3> QED
      BY Zenon, <3>1, <3>2, <1>OpenStep DEF Plain
  <2>7. CASE JobStep(t)
    <3>1. UNCHANGED <<handle, handleLock>>
      BY Zenon, <2>7 DEF JobStep, StartJob, ReapIdle
    <3>2. \/ task' = task
          \/ \E pc \in {"relcur", "take", "forget"} : \E s, w, c :
               task' = [task EXCEPT ![t] = TaskAt(pc, "job", s, w, 0, NoWorker, c)]
      BY <2>7 DEF JobStep, StartJob, ReapIdle
    <3>3. CASE task' = task
      BY Zenon, <3>1, <3>3 DEF OpenInv, Spawning
    <3>4. CASE \E pc \in {"relcur", "take", "forget"} : \E s, w, c :
               task' = [task EXCEPT ![t] = TaskAt(pc, "job", s, w, 0, NoWorker, c)]
      <4>1. Plain(t)
        BY <2>1, <3>4 DEF Plain, Moved, TaskAt, TypeOK
      <4> QED
        BY ZenonT(40), <3>1, <4>1, <1>OpenStep DEF Plain
    <3> QED
      BY Zenon, <3>2, <3>3, <3>4
  <2> QED
    BY Zenon, <2>2, <2>3, <2>4, <2>5, <2>6, <2>7
<1> SUFFICES ASSUME PoolInv, OpenInv, [Next]_vars PROVE OpenInv'
  BY Zenon
<1>1. ASSUME NEW t \in Task, NEW s \in Session, LeaseExhausted(t, s) PROVE OpenInv'
  BY Zenon, <1>1 DEF LeaseExhausted, OpenInv, Spawning, lockVars
<1>2. CASE \/ \E s \in Session : DropSession(s)
           \/ \E w \in Worker : ReapSkip(w)
           \/ ShutdownAll \/ UNCHANGED vars
  <2>1. UNCHANGED <<task, handle, handleLock>>
    BY Zenon, <1>2 DEF DropSession, ReapSkip, ShutdownAll, vars, sessionVars, lockVars
  <2> QED
    BY Zenon, <2>1 DEF OpenInv, Spawning
<1>3. ASSUME NEW t \in Task, RequestStep(t) PROVE OpenInv'
  <2>1. PICK s \in Session :
          \/ OpenOnLease(t, s)
          \/ \E w \in children : LeaseIdle(t, s, w)
          \/ LeaseExhausted(t, s)
          \/ LeaseReserve(t, s)
          \/ \E g \in {0} \cup Generation : StartCall(t, s, g)
          \/ Close(t, s)
          \/ \E g \in Generation : CloseIfGeneration(t, s, g)
    BY Zenon, <1>3 DEF RequestStep
  <2> QED
    BY Zenon, <1>1, <2>1, <1>RequestOpen, <1>SpawnOpen
<1>4. ASSUME NEW t \in Task, TaskStep(t) \/ JobStep(t) \/ DropFuture(t) PROVE OpenInv'
  BY Zenon, <1>4, <1>TaskOpen, <1>SpawnOpen DEF TaskStep, CallStep
<1> QED
  BY Zenon, <1>2, <1>3, <1>4 DEF Next

-----------------------------------------------------------------------------
(* The owners of a leased slot, one kind at a time. *)
TaskOwns(x, w) ==
  \/ x.pc \in {"release", "take"} /\ x.w = w
  \/ x.pc = "clear" /\ x.caller = "tool" /\ x.w = w
  \/ x.pc = "install" /\ x.n = w
JobOwns(j, w) == j.kind \in {"retire", "discard", "shutdown"} /\ j.w = w
Lost(t, w) == LateClear(t, w) \/ DroppedRetirement(t, w)

(* Only the two steps that LeaseKeepsOwner names lose a slot. *)
LEMMA NextKeeps ==
  LeaseInv /\ OpenInv /\ Next =>
    \A w \in Worker : Stray(w)' => Stray(w) \/ \E t \in Task : Lost(t, w)

(* No slot is lost by a step of t that hands every owner of w on. *)
<1>HandedOn.
    ASSUME NEW t \in Task, NEW w \in Worker, ~Stray(w), Moved(t),
           state'[w] = state[w] \/ state'[w].tag # "Leased",
           state'[w].tag = "Leased" =>
             /\ \A s \in Session : handle[s].worker = w =>
                  \/ handle'[s].worker = w
                  \/ TaskOwns(task'[t], w)
             /\ \/ ~TaskOwns(task[t], w)
                \/ TaskOwns(task'[t], w)
                \/ \E s \in Session : handle'[s].worker = w
                \/ \E j \in jobs' : JobOwns(j, w)
             /\ \A j \in jobs : JobOwns(j, w) => j \in jobs' \/ TaskOwns(task'[t], w)
    PROVE  ~Stray(w)'
  <2> USE <1>HandedOn
  <2> SUFFICES ASSUME state'[w].tag = "Leased" PROVE Owned(w)'
    BY Zenon DEF Stray
  <2>1. Owned(w)
    BY Zenon DEF Stray
  <2>2. TaskOwns(task'[t], w) => Owned(w)'
    BY Zenon DEF Owned, TaskOwns
  <2>3. (\E s \in Session : handle'[s].worker = w) => Owned(w)'
    BY Zenon DEF Owned
  <2>4. (\E j \in jobs' : JobOwns(j, w)) => Owned(w)'
    BY ZenonT(40) DEF Owned, JobOwns
  <2>5. CASE \E s \in Session : handle[s].worker = w
    BY Zenon, <2>2, <2>3, <2>5
  <2>6. CASE \E j \in jobs : JobOwns(j, w)
    BY ZenonT(40), <2>2, <2>4, <2>6
  <2>7. ASSUME NEW u \in Task, TaskOwns(task[u], w) PROVE Owned(w)'
    <3>1. CASE u = t
      BY <2>2, <2>3, <2>4, <2>7, <3>1
    <3>2. CASE u # t
      BY Zenon, <2>7, <3>2 DEF Moved, Owned, TaskOwns
    <3> QED
      BY <3>1, <3>2
  <2> QED
    BY Zenon, <2>1, <2>5, <2>6, <2>7 DEF Owned, TaskOwns, JobOwns

(* Requests. *)
<1>RequestKeeps.
    ASSUME LeaseInv, OpenInv, NEW t \in Task, NEW s \in Session, NEW w \in Worker, ~Stray(w),
           \/ OpenOnLease(t, s)
           \/ \E v \in children : LeaseIdle(t, s, v)
           \/ LeaseReserve(t, s)
           \/ \E g \in {0} \cup Generation : StartCall(t, s, g)
           \/ Close(t, s)
           \/ \E g \in Generation : CloseIfGeneration(t, s, g)
    PROVE  ~Stray(w)'
  <2> USE <1>RequestKeeps
  <2> USE DEF innerVars, slotVars, sessionVars, lockVars, envVars
  <2>1. TypeOK /\ task[t].pc = "idle" /\ UNCHANGED jobs
    BY Zenon, IdleAtRest
    DEF LeaseInv, PoolInv, OpenOnLease, LeaseIdle, LeaseReserve, LeaseForOpen, StartCall,
        Close, CloseIfGeneration, Begin
  <2>2. ~TaskOwns(task[t], w)
    BY Zenon, <2>1 DEF TaskOwns
  <2>3. CASE \/ OpenOnLease(t, s) \/ LeaseReserve(t, s)
             \/ \E g \in {0} \cup Generation : StartCall(t, s, g)
    <3>1. UNCHANGED <<state, handle>>
      BY Zenon, <2>3 DEF OpenOnLease, LeaseReserve, StartCall
    <3>2. Moved(t)
      BY Zenon, <2>1, <2>3 DEF OpenOnLease, LeaseReserve, StartCall, StartTask, Moved, TypeOK
    <3> QED
      BY Zenon, <2>1, <2>2, <3>1, <3>2, <1>HandedOn
  <2>4. ASSUME TakeHandle(t, s, "close"), UNCHANGED state PROVE ~Stray(w)'
    <3>1. /\ Moved(t) /\ task'[t].pc = "release" /\ task'[t].w = handle[s].worker
          /\ \A a \in Session : a # s => handle'[a] = handle[a]
      BY Zenon, <2>1, <2>4 DEF TakeHandle, StartTask, TaskAt, Moved, TypeOK
    <3>2. TaskOwns(task'[t], handle[s].worker)
      BY Zenon, <3>1 DEF TaskOwns
    <3> QED
      BY ZenonT(40), <2>1, <2>2, <2>4, <3>1, <3>2, <1>HandedOn
  <2>5. ASSUME NEW v \in children, LeaseIdle(t, s, v) PROVE ~Stray(w)'
    <3>1. /\ Moved(t) /\ handle[s] = NoLease /\ handle'[s].worker = v
          /\ \A a \in Session : a # s => handle'[a] = handle[a]
          /\ w # v => state'[w] = state[w]
      BY Zenon, <2>1, <2>5 DEF LeaseIdle, LeaseForOpen, StartTask, Moved, TypeOK, Lease
    <3>2. handle[s].worker \notin Worker
      BY Zenon, <3>1, NoLeaseTags
    <3>3. CASE w = v
      BY Zenon, <3>1, <3>3 DEF Stray, Owned
    <3>4. CASE w # v
      BY ZenonT(40), <2>1, <2>2, <3>1, <3>2, <3>4, <1>HandedOn
    <3> QED
      BY <3>3, <3>4
  <2> QED
    BY Zenon, <2>3, <2>4, <2>5 DEF Close, CloseIfGeneration

(* call_tool, its error paths and the releases. *)
<1>CallKeeps.
    ASSUME LeaseInv, OpenInv, NEW t \in Task, NEW w \in Worker, ~Stray(w), ~Lost(t, w), CallStep(t)
    PROVE  ~Stray(w)'
  <2> USE <1>CallKeeps
  <2> USE DEF innerVars, slotVars, sessionVars, lockVars, envVars
  <2>1. TypeOK /\ WorkersKnown /\ CallerSound(task[t]) /\ TaskSound(task[t])
    BY ZenonT(40) DEF LeaseInv, LeaseRest, LocksHeld, PoolInv, TasksSound
  <2>2. UNCHANGED jobs /\ Moved(t)
    BY Zenon, <2>1, CallMoves, CallLeaves
  <2>3. CASE \/ CallDispatch(t) \/ CallRefused(t)
             \/ \E answer \in {"ok", "error", "fatal"} : RpcAnswer(t, answer)
             \/ RpcKill(t) \/ RecordPath(t) \/ ReleaseIdle(t) \/ ReleaseRetires(t)
             \/ ScheduleIdleReap(t) \/ EnsureMinDone(t)
    <3>1. task[t].pc \in {"call", "rpc", "path", "closing", "sched", "ensure"} /\ UNCHANGED handle
      BY Zenon, <2>3 DEF CallDispatch, CallRefused, RpcAnswer, RpcKill, RecordPath, ReleaseIdle,
                  ReleaseRetires, ScheduleIdleReap, EnsureMinDone
    <3>2. state'[w] = state[w] \/ state'[w].tag # "Leased"
      <4>1. CASE ReleaseIdle(t)
        BY <2>1, <4>1 DEF ReleaseIdle, TypeOK, Idle, Child
      <4>2. CASE ~ ReleaseIdle(t)
        BY Zenon, <2>3, <4>2 DEF CallDispatch, CallRefused, RpcAnswer, RpcKill, RecordPath,
                          ReleaseRetires, ScheduleIdleReap, EnsureMinDone
      <4> QED
        BY Zenon, <4>1, <4>2
    <3>3. ~TaskOwns(task[t], w)
      BY Zenon, <3>1 DEF TaskOwns
    <3> QED
      BY Zenon, <2>2, <3>1, <3>2, <3>3, <1>HandedOn
  <2>4. CASE ReleaseDead(t) \/ ReleaseBegin(t)
    <3>1. task[t].pc = "release" /\ task[t].w \in Worker /\ UNCHANGED handle
      BY ZenonT(40), <2>1, <2>4 DEF ReleaseDead, ReleaseBegin, TaskSound, UsesWorker
    <3>2. /\ state'[w] = state[w] \/ state'[w].tag # "Leased"
          /\ w = task[t].w => state'[w].tag # "Leased"
      BY <2>1, <2>4, <3>1 DEF ReleaseDead, ReleaseBegin, TypeOK, Dead, Closing, Child
    <3>3. w # task[t].w => ~TaskOwns(task[t], w)
      BY Zenon, <3>1 DEF TaskOwns
    <3> QED
      BY Zenon, <2>2, <3>1, <3>2, <3>3, <1>HandedOn
  <2>5. CASE ClearHandleIfWorker(t)
    <3>1. /\ task[t].pc = "clear" /\ UNCHANGED state /\ task[t].caller \in {"none", "tool"}
          /\ task[t].s \in Session
      BY ZenonT(40), <2>1, <2>5 DEF ClearHandleIfWorker, CallerSound, Retiring, TaskSound, ServesSession
    <3>2. \A a \in Session : handle[a].worker # task[t].w => handle'[a] = handle[a]
      BY Zenon, <2>1, <2>5 DEF ClearHandleIfWorker, TypeOK
    <3>3. CASE w # task[t].w
      <4>1. ~TaskOwns(task[t], w)
        BY Zenon, <3>1, <3>3 DEF TaskOwns
      <4> QED
        BY Zenon, <2>2, <3>1, <3>2, <3>3, <4>1, <1>HandedOn
    <3>4. CASE w = task[t].w
      <4>1. task[t].caller = "tool"
        BY Zenon, <2>5, <3>1, <3>4 DEF Lost, LateClear
      <4>2. task'[t].pc = "take" /\ task'[t].w = w
        BY Zenon, <2>1, <2>5, <3>4, <4>1, GotoFacts DEF ClearHandleIfWorker, Keeps
      <4>3. TaskOwns(task'[t], w)
        BY Zenon, <4>2 DEF TaskOwns
      <4> QED
        BY ZenonT(40), <2>2, <3>1, <4>3, <1>HandedOn
    <3> QED
      BY Zenon, <3>3, <3>4
  <2>6. CASE ReleaseCurrentHandle(t)
    <3> DEFINE s == task[t].s
    <3>1. task[t].pc = "relcur" /\ UNCHANGED state /\ s \in Session /\ ~TaskOwns(task[t], w)
      BY Zenon, <2>1, <2>6 DEF ReleaseCurrentHandle, TaskSound, ServesSession, TaskOwns
    <3>2. CASE handle[s] = NoLease
      <4>1. UNCHANGED handle
        BY Zenon, <2>6, <3>2 DEF ReleaseCurrentHandle
      <4> QED
        BY Zenon, <2>2, <3>1, <4>1, <1>HandedOn
    <3>3. CASE handle[s] # NoLease
      <4>1. TakeHandle(t, s, task[t].op)
        BY Zenon, <2>6, <3>3 DEF ReleaseCurrentHandle
      <4>2. /\ task'[t].pc = "release" /\ task'[t].w = handle[s].worker
            /\ \A a \in Session : a # s => handle'[a] = handle[a]
        BY Zenon, <2>1, <4>1 DEF TakeHandle, StartTask, TaskAt, TypeOK
      <4>3. TaskOwns(task'[t], handle[s].worker)
        BY Zenon, <4>2 DEF TaskOwns
      <4> QED
        BY ZenonT(40), <2>2, <3>1, <4>2, <4>3, <1>HandedOn
    <3> QED
      BY Zenon, <3>2, <3>3
  <2> QED
    BY Zenon, <2>3, <2>4, <2>5, <2>6 DEF CallStep

(* Spawns: the new slot is installed by its task, then named by the handle. *)
<1>SpawnKeeps.
    ASSUME LeaseInv, OpenInv, NEW t \in Task, NEW w \in Worker, ~Stray(w),
           EnsureMinReserve(t) \/ SpawnFails(t) \/ SpawnSlot(t) \/ InstallSlot(t)
    PROVE  ~Stray(w)'
  <2> USE <1>SpawnKeeps
  <2> USE DEF innerVars, slotVars, sessionVars, lockVars, envVars
  <2>1. /\ TypeOK /\ TaskSound(task[t]) /\ InstallsFresh
        /\ Spawning(t) => task[t].n \in Worker
    BY Zenon DEF LeaseInv, LeaseRest, Slots, PoolInv, TasksSound, TypeOK
  <2>2. UNCHANGED jobs
    BY Zenon DEF EnsureMinReserve, SpawnFails, SpawnSlot, InstallSlot
  <2>3. CASE EnsureMinReserve(t) \/ SpawnFails(t)
    <3>1. task[t].pc \in {"ensure", "spawn"} /\ UNCHANGED <<handle, state>>
      BY Zenon, <2>3 DEF EnsureMinReserve, SpawnFails
    <3>2. Moved(t)
      <4>1. CASE EnsureMinReserve(t)
        BY Zenon, <2>1, <4>1 DEF EnsureMinReserve, Moved, TypeOK
      <4>2. CASE SpawnFails(t)
        BY Zenon, <2>1, <4>2, DoneFacts, ReturnFacts DEF SpawnFails
      <4> QED
        BY <2>3, <4>1, <4>2
    <3>3. ~TaskOwns(task[t], w)
      BY Zenon, <3>1 DEF TaskOwns
    <3> QED
      BY Zenon, <2>2, <3>1, <3>2, <3>3, <1>HandedOn
  <2>4. CASE SpawnSlot(t)
    <3>1. /\ Moved(t) /\ task'[t].pc = "install" /\ task'[t].n = task[t].n /\ UNCHANGED handle
          /\ task[t].pc = "spawn"
          /\ w # task[t].n => state'[w] = state[w]
      BY Zenon, <2>1, <2>4, GotoFacts DEF SpawnSlot, Keeps, TypeOK
    <3>2. CASE w = task[t].n
      BY Zenon, <3>1, <3>2 DEF Stray, Owned
    <3>3. CASE w # task[t].n
      <4>1. ~TaskOwns(task[t], w)
        BY Zenon, <3>1 DEF TaskOwns
      <4>2. state'[w] = state[w] /\ UNCHANGED handle /\ Moved(t)
        BY ZenonT(40), <2>1, <2>4, <3>1, <3>3 DEF SpawnSlot, TypeOK
      <4> QED
        BY Zenon, <2>2, <4>1, <4>2, <1>HandedOn
    <3> QED
      BY Zenon, <3>2, <3>3
  <2>5. CASE InstallSlot(t)
    <3>1. task[t].pc = "install" /\ task[t].n \in Worker /\ UNCHANGED state
      BY Zenon, <2>1, <2>5 DEF InstallSlot, Spawning
    <3>2. TaskOwns(task[t], w) => w = task[t].n
      BY Zenon, <3>1 DEF TaskOwns
    <3>3. CASE task[t].caller = "none"
      <4> DEFINE s == task[t].s
      <4>1. s \in Session /\ handle[s].worker \notin Worker
        <5>1. s \in Session /\ handle[s] = NoLease
          BY Zenon, <2>1, <3>1, <3>3 DEF TaskSound, OpenInv, Spawning
        <5> QED
          BY Zenon, <5>1, NoLeaseTags
      <4>2. /\ Moved(t) /\ handle'[s].worker = task[t].n
            /\ \A a \in Session : a # s => handle'[a] = handle[a]
        <5>1. /\ handle' = [handle EXCEPT ![s] = Lease(task[t].n, task[t].g)]
              /\ StartTask(t, "call", "open", s, task[t].n, 0)
          BY Zenon, <2>5, <3>3 DEF InstallSlot
        <5>2. Moved(t)
          BY Zenon, <2>1, <5>1 DEF StartTask, Moved, TypeOK
        <5> QED
          BY Zenon, <2>1, <4>1, <5>1, <5>2 DEF TypeOK, Lease
      <4> QED
        BY Zenon, <2>2, <3>1, <3>2, <4>1, <4>2, <1>HandedOn
    <3>4. CASE task[t].caller # "none"
      <4>1. Moved(t) /\ UNCHANGED handle
        BY Zenon, <2>1, <2>5, <3>4 DEF InstallSlot, Moved, TypeOK
      <4>2. state[task[t].n] = Idle
        BY ZenonT(40), <2>1, <3>1, <3>4 DEF InstallsFresh
      <4>3. state'[w].tag = "Leased" => ~TaskOwns(task[t], w)
        BY Zenon, <3>1, <3>2, <4>2, NoLeaseTags
      <4> QED
        BY Zenon, <2>2, <3>1, <4>1, <4>3, <1>HandedOn
    <3> QED
      BY Zenon, <3>3, <3>4
  <2> QED
    BY Zenon, <2>3, <2>4, <2>5

(* Retirements: the slot that loses its owner is dead. *)
<1>RetireKeeps.
    ASSUME LeaseInv, NEW t \in Task, NEW w \in Worker, ~Stray(w),
           \/ TakeDeadWorker(t) \/ ForgetSlot(t) \/ FinishDeadWorker(t)
           \/ \E v \in Worker : ReapIdle(t, v)
    PROVE  ~Stray(w)'
  <2> USE <1>RetireKeeps
  <2> USE DEF innerVars, slotVars, sessionVars, lockVars, envVars
  <2>1. TypeOK /\ UNCHANGED <<jobs, handle>>
    BY Zenon DEF LeaseInv, PoolInv, TakeDeadWorker, ForgetSlot, FinishDeadWorker, ReapIdle
  <2>2. Moved(t)
    <3>1. CASE TakeDeadWorker(t) \/ ForgetSlot(t) \/ FinishDeadWorker(t)
      BY Zenon, <2>1, <3>1, GotoFacts, DoneFacts
      DEF TakeDeadWorker, ForgetSlot, FinishDeadWorker, Replenish
    <3>2. CASE \E v \in Worker : ReapIdle(t, v)
      BY Zenon, <2>1, <3>2 DEF ReapIdle, Moved, TypeOK
    <3> QED
      BY Zenon, <3>1, <3>2
  <2>3. state'[w] = state[w] \/ state'[w].tag # "Leased"
    <3>1. ASSUME NEW v, state' = [state EXCEPT ![v] = Dead]
          PROVE  state'[w] = state[w] \/ state'[w].tag # "Leased"
      BY Zenon, <2>1, <3>1, NoLeaseTags DEF TypeOK
    <3> QED
      BY Zenon, <3>1 DEF TakeDeadWorker, ForgetSlot, FinishDeadWorker, ReapIdle
  <2>4. state'[w].tag = "Leased" => ~TaskOwns(task[t], w)
    <3>1. CASE TakeDeadWorker(t)
      <4>1. task[t].pc = "take" /\ state' = [state EXCEPT ![task[t].w] = Dead]
        BY Zenon, <3>1 DEF TakeDeadWorker
      <4>2. w = task[t].w => state'[w] = Dead
        BY Zenon, <2>1, <4>1 DEF TypeOK
      <4> QED
        BY Zenon, <4>1, <4>2, NoLeaseTags DEF TaskOwns
    <3>2. CASE ~TakeDeadWorker(t)
      <4>1. task[t].pc \in {"forget", "forgetNone", "finish", "idle"}
        BY Zenon, <3>2, IdleAtRest DEF ForgetSlot, FinishDeadWorker, ReapIdle
      <4> QED
        BY Zenon, <4>1 DEF TaskOwns
    <3> QED
      BY Zenon, <3>1, <3>2
  <2> QED
    BY Zenon, <2>1, <2>2, <2>3, <2>4, <1>HandedOn

(* A dropped future leaves its slot to a job, but for DroppedRetirement. *)
<1>DropKeeps.
    ASSUME LeaseInv, OpenInv, NEW t \in Task, NEW w \in Worker, ~Stray(w), ~Lost(t, w),
           DropFuture(t)
    PROVE  ~Stray(w)'
  <2> USE <1>DropKeeps
  <2> USE DEF innerVars, slotVars, sessionVars, lockVars, envVars
  <2>1. TypeOK /\ TaskSound(task[t]) /\ UNCHANGED <<state, handle>> /\ jobs \subseteq jobs'
    BY Zenon DEF LeaseInv, PoolInv, TasksSound, DropFuture
  <2>2. Moved(t)
    BY Zenon, <2>1, DoneFacts DEF DropFuture
  <2>3. ASSUME TaskOwns(task[t], w) PROVE \E j \in jobs' : JobOwns(j, w)
    <3>1. ASSUME Job("retire", task[t].w, task[t].s) \in jobs', w = task[t].w
          PROVE  \E j \in jobs' : JobOwns(j, w)
      BY Zenon, <3>1 DEF Job, JobOwns
    <3>2. ASSUME Job("discard", task[t].n, task[t].s) \in jobs', w = task[t].n
          PROVE  \E j \in jobs' : JobOwns(j, w)
      BY Zenon, <3>2 DEF Job, JobOwns
    <3>3. CASE task[t].pc = "release"
      BY Zenon, <2>3, <3>1, <3>3 DEF TaskOwns, DropFuture, GuardJobs
    <3>4. CASE task[t].pc = "install"
      BY Zenon, <2>3, <3>2, <3>4 DEF TaskOwns, DropFuture, ReservationJobs
    <3>5. CASE task[t].pc \in {"take", "clear"}
      <4>1. w = task[t].w /\ task[t].caller # "tool"
        BY Zenon, <2>3, <3>5 DEF TaskOwns, Lost, DroppedRetirement
      <4>2. task[t].pc = "take" /\ task[t].caller # "none"
        BY Zenon, <2>1, <2>3, <3>5, <4>1 DEF TaskOwns, TaskSound, Retiring
      <4>3. task[t].caller \notin {"job", "final"}
        BY ZenonT(40) DEF OpenInv, DropFuture, Requests
      <4>4. task[t].caller \in {"call", "release"}
        BY Zenon, <2>1, <4>1, <4>2, <4>3 DEF TypeOK, TaskState, Callers
      <4> QED
        BY ZenonT(40), <3>1, <4>1, <4>4 DEF DropFuture, GuardJobs
    <3> QED
      BY ZenonT(40), <2>3, <3>3, <3>4, <3>5 DEF TaskOwns
  <2> QED
    BY Zenon, <2>1, <2>2, <2>3, <1>HandedOn

(* A job that starts is now the owner itself. *)
<1>JobKeeps.
    ASSUME LeaseInv, NEW t \in Task, NEW w \in Worker, ~Stray(w), NEW j \in jobs, StartJob(t, j)
    PROVE  ~Stray(w)'
  <2> USE <1>JobKeeps
  <2> USE DEF innerVars, slotVars, sessionVars, lockVars, envVars
  <2>1. /\ TypeOK /\ UNCHANGED <<state, handle>> /\ jobs' = jobs \ {j} /\ task[t].pc = "idle"
    BY DEF LeaseInv, PoolInv, StartJob, IdleTask, TaskAt
  <2>2. ~TaskOwns(task[t], w)
    BY Zenon, <2>1 DEF TaskOwns
  <2>3. Moved(t)
    BY Zenon, <2>1 DEF StartJob, Moved, TypeOK
  <2>4. JobOwns(j, w) => TaskOwns(task'[t], w)
    <3> SUFFICES ASSUME JobOwns(j, w) PROVE TaskOwns(task'[t], w)
      BY Zenon
    <3>1. j.w = w /\ \E c : task' = [task EXCEPT ![t] = TaskAt("take", "job", j.s, j.w, 0, NoWorker, c)]
      BY Zenon DEF JobOwns, StartJob
    <3>2. task'[t].pc = "take" /\ task'[t].w = w
      BY <2>1, <3>1 DEF TypeOK, TaskAt
    <3> QED
      BY Zenon, <3>2 DEF TaskOwns
  <2> QED
    BY Zenon, <2>1, <2>2, <2>3, <2>4, <1>HandedOn

(* Steps of no task. *)
<1>NoTaskKeeps.
    ASSUME NEW w \in Worker, ~Stray(w),
           \/ \E t \in Task, s \in Session : LeaseExhausted(t, s)
           \/ \E s \in Session : DropSession(s)
           \/ \E v \in Worker : ReapSkip(v)
           \/ ShutdownAll
    PROVE  ~Stray(w)'
  <2> USE <1>NoTaskKeeps
  <2>1. UNCHANGED <<state, handle, task>> /\ jobs \subseteq jobs'
    BY Zenon DEF LeaseExhausted, DropSession, ReapSkip, ShutdownAll, slotVars, sessionVars, envVars
  <2> QED
    BY ZenonT(40), <2>1 DEF Stray, Owned
<1> SUFFICES ASSUME LeaseInv, OpenInv, Next, NEW w \in Worker, Stray(w)', ~Stray(w),
                    \A t \in Task : ~Lost(t, w)
             PROVE  FALSE
  BY Zenon
<1>1. ASSUME NEW t \in Task, RequestStep(t) PROVE ~Stray(w)'
  <2>1. PICK s \in Session :
          \/ OpenOnLease(t, s)
          \/ \E v \in children : LeaseIdle(t, s, v)
          \/ LeaseExhausted(t, s)
          \/ LeaseReserve(t, s)
          \/ \E g \in {0} \cup Generation : StartCall(t, s, g)
          \/ Close(t, s)
          \/ \E g \in Generation : CloseIfGeneration(t, s, g)
    BY Zenon, <1>1 DEF RequestStep
  <2> QED
    BY Zenon, <2>1, <1>RequestKeeps, <1>NoTaskKeeps
<1>2. ASSUME NEW t \in Task, TaskStep(t) PROVE ~Stray(w)'
  BY Zenon, <1>2, <1>SpawnKeeps, <1>CallKeeps, <1>RetireKeeps DEF TaskStep, CallStep
<1>3. ASSUME NEW t \in Task, JobStep(t) \/ DropFuture(t) PROVE ~Stray(w)'
  BY Zenon, <1>3, <1>JobKeeps, <1>RetireKeeps, <1>DropKeeps DEF JobStep
<1> QED
  BY Zenon, <1>1, <1>2, <1>3, <1>NoTaskKeeps DEF Next

(* No session spawns before its first request. *)
LEMMA InitOpen == Init => OpenInv
BY DEF Init, OpenInv, Spawning, IdleTask, TaskAt

(* A leased slot loses its last owner only where a late error clears the   *)
(* handle of a newer lease, or a request is dropped between its            *)
(* clear_handle_if_worker and its mark_dead (call_result_for_generation):  *)
(* opens, closes, retirements, jobs, drops of sessions and the shutdown    *)
(* all hand their slot on.                                                 *)
THEOREM LeasesKeepOwners == Spec => LeaseKeepsOwner
<1>1. LeaseInv /\ OpenInv /\ [Next]_vars =>
        [\A w \in Worker : Stray(w)' => Stray(w) \/ \E t \in Task : LateClear(t, w)
                                                            \/ DroppedRetirement(t, w)]_vars
  BY Zenon, NextKeeps DEF Lost
<1>2. LeaseInv => PoolInv
  BY Zenon DEF LeaseInv
<1> QED
  BY <1>1, <1>2, InitOpen, NextOpen, LeaseInvariant, PTL DEF Spec, LeaseKeepsOwner
=============================================================================
