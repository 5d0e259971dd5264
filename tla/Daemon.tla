------------------------------- MODULE Daemon -------------------------------
(***************************************************************************)
(* Daemon mode: the router process (src/src/daemon/router.rs), the worker  *)
(* subprocess it starts for every target (src/src/daemon/worker.rs), the   *)
(* files that name them (src/src/daemon/mod.rs) and the command-line       *)
(* clients (src/src/cli.rs), each of which sends one request on one        *)
(* connection.                                                             *)
(*                                                                         *)
(* Several routers may be started; only the name of the public socket      *)
(* keeps them apart.  One system call on a shared name is one step, and so *)
(* is everything a handler does between two awaits.  A timeout may expire  *)
(* whenever its answer is outstanding.                                     *)
(***************************************************************************)
EXTENDS Naturals, Sequences, DaemonOps

CONSTANTS
    NRouters,       \* router processes; one that exited never comes back
    NConns,         \* connections open at the same time
    LoadRequest,    \* target.load requests: canonical path and database
    None,           \* no router, no worker, no request, no target
    StaleFile,      \* a file left behind by a daemon of the past
    MaxTargets,     \* bound on next_id, the targets of one router
    QueueCapacity,  \* sync_channel(64) between a worker's threads
    MaxRequests,    \* bound on the requests that are sent to one router alone
    MaxOverlap,     \* bound on the requests once a second router was started
    MaxFaults       \* bound on crashes and failed system calls

\* Routers are numbered in the order they start; a new connection takes the
\* lowest free number.
Router == 1 .. NRouters
Conn == 1 .. NConns
Id == 1 .. MaxTargets
\* A worker is known by its router's pid and its target's id: worker_socket_path.
Worker == Router \X Id
RouterOf(w) == w[1]
IdOf(w) == w[2]

ASSUME DaemonAssumption ==
    /\ MaxTargets \in Nat /\ QueueCapacity \in Nat \ {0}
    /\ NRouters \in Nat /\ NConns \in Nat /\ MaxFaults \in Nat
    /\ MaxRequests \in Nat /\ MaxOverlap \in 0 .. MaxRequests
    /\ \A q \in LoadRequest : DOMAIN q = {"path", "db"}
    /\ None \notin Router \cup Conn \cup Worker /\ StaleFile \notin Router \cup {None}

VARIABLES
    sock, registry,   \* who made the public socket and daemon.json, or None
    workerSock,       \* workers whose socket file exists
    main,             \* where run_router is
    notified,         \* routers whose shutdown was notified
    targets, active, nextId,   \* RouterState
    conn,             \* the handler of each connection
    worker,           \* the worker processes
    requests, faults, \* requests, and crashes and failures, so far
    robbed,           \* history: live routers whose file somebody else removed
    expired,          \* history: workers that missed a deadline of the router
    lost              \* history: workers killed with acknowledged changes

routerVars == <<targets, active, nextId>>
fileVars == <<sock, registry>>
counters == <<requests, faults>>
vars == <<sock, registry, workerSock, main, notified, targets, active, nextId, conn,
          worker, requests, faults, robbed, expired, lost>>

\* The steps of run_router; "off" before it and "gone" after it.
Starting == {"check", "unlink", "unlink_registry", "sweep", "bind", "register"}
Leaving == {"clean_socket", "clean_registry"}
Up(r) == main[r] \notin {"off", "gone"}

LoadPC == {"load_lock", "boot", "load_wait", "load_insert", "load_kill"}
OpPC == {"op_lock", "op_wait"}
StopPC == {"stop_send", "stop_wait", "stop_exit"}
ShutdownPC == {"notify", "drop_socket", "drop_registry", "drain"}

\* op: what an analysis request does; todo: workers shutdown_all_workers has left.
IdleConn == [pc |-> "idle", r |-> None, w |-> None, q |-> None, op |-> "none", todo |-> {}]
NoProcess == [st |-> "none", q |-> None, loaded |-> FALSE, queue |-> <<>>,
              exit |-> "no", unsaved |-> FALSE]
Alive(w) == worker[w].st \in {"boot", "run"}

Item(c, op) == [c |-> c, op |-> op]

Init ==
    /\ sock \in {None, StaleFile} /\ registry = sock
    /\ workerSock = {}
    /\ main = [r \in Router |-> "off"] /\ notified = {}
    /\ targets = [r \in Router |-> {}]
    /\ active = [r \in Router |-> None]
    /\ nextId = [r \in Router |-> 1]
    /\ conn = [c \in Conn |-> IdleConn]
    /\ worker = [w \in Worker |-> NoProcess]
    /\ requests = 0 /\ faults = 0 /\ robbed = {} /\ expired = {} /\ lost = {}

-----------------------------------------------------------------------------
(* Processes and files.                                                    *)

Goto(r, label) == main' = [main EXCEPT ![r] = label]
ConnGoto(c, label) == conn' = [conn EXCEPT ![c].pc = label]
\* The handler writes its response and the connection ends.
Finish(c) == conn' = [conn EXCEPT ![c] = IdleConn]

\* remove_file on the two shared names, by router r.
Robs(r, owner) == robbed' = IF owner \in Router \ {r} /\ Up(owner) /\ owner \notin notified
                            THEN robbed \cup {owner} ELSE robbed
RemoveSocket(r) == sock' = None /\ registry' = registry /\ Robs(r, sock)
RemoveRegistry(r) == registry' = None /\ sock' = sock /\ Robs(r, registry)

\* A worker process ends.  Only the orderly end drops the TargetManager, and
\* with it the database, which was opened with save(true).
Ended(w) == [worker EXCEPT ![w] = [@ EXCEPT !.st = "gone", !.queue = <<>>, !.unsaved = FALSE]]
Kill(w) ==
    /\ worker' = IF Alive(w) THEN Ended(w) ELSE worker
    /\ lost' = IF Alive(w) /\ worker[w].unsaved THEN lost \cup {w} ELSE lost

\* Nobody waits any more for the answers to the items of connections C.
Orphaned(queue, C) ==
    [k \in DOMAIN queue |-> IF queue[k].c \in C THEN [queue[k] EXCEPT !.c = None]
                            ELSE queue[k]]

\* Mutant: the worker does not watch stdin.
RouterGoneUnwatched(r) ==
    /\ Goto(r, "gone")
    /\ conn' = [c \in Conn |-> IF conn[c].r = r THEN IdleConn ELSE conn[c]]
    /\ worker' = [w \in Worker |->
                    IF RouterOf(w) = r /\ Alive(w)
                    THEN [worker[w] EXCEPT !.queue = Orphaned(@, Conn)] ELSE worker[w]]

\* The process of router r is over: its connections break and every worker
\* reads the end of its stdin pipe.
RouterGone(r) ==
    /\ Goto(r, "gone")
    /\ conn' = [c \in Conn |-> IF conn[c].r = r THEN IdleConn ELSE conn[c]]
    /\ worker' = [w \in Worker |->
                    IF RouterOf(w) = r /\ Alive(w)
                    THEN [worker[w] EXCEPT !.exit = IF @ = "no" THEN "due" ELSE @,
                                           !.queue = Orphaned(@, Conn)]
                    ELSE worker[w]]

Fault == faults < MaxFaults /\ faults' = faults + 1 /\ UNCHANGED requests

-----------------------------------------------------------------------------
(* run_router.                                                             *)

RouterStart(r) ==
    /\ main[r] = "off"
    /\ \A q \in 1 .. r - 1 : main[q] # "off"
    /\ r > 1 => requests <= MaxOverlap
    /\ Goto(r, "check")
    /\ UNCHANGED <<fileVars, workerSock, notified, routerVars, conn, worker, counters,
                   robbed, expired, lost>>

\* ping_socket with the two-second timeout: a router that serves answers; one
\* that is bound but does not accept yet, or that is on its way out, may not.
MayAnswer(r) == r \in Router /\ main[r] \in {"register", "serve"}
MustAnswer(r) == r \in Router /\ main[r] = "serve" /\ r \notin notified

\* ensure_single_instance up to the ping.
EnsureSingleInstance(r) ==
    /\ main[r] = "check"
    /\ \/ sock = None /\ Goto(r, "sweep")
       \/ sock # None /\ MayAnswer(sock) /\ Goto(r, "gone")
       \/ sock # None /\ ~MustAnswer(sock) /\ Goto(r, "unlink")
    /\ UNCHANGED <<fileVars, workerSock, notified, routerVars, conn, worker, counters,
                   robbed, expired, lost>>

\* The stale socket is removed; an error (somebody removed it first) ends the
\* start.  The registry goes next.
RemoveStale(r) ==
    /\ \/ /\ main[r] = "unlink"
          /\ RemoveSocket(r)
          /\ Goto(r, IF sock = None THEN "gone" ELSE "unlink_registry")
       \/ /\ main[r] = "unlink_registry"
          /\ RemoveRegistry(r)
          /\ Goto(r, "sweep")
    /\ UNCHANGED <<workerSock, notified, routerVars, conn, worker, counters, expired, lost>>

\* sweep_stale_worker_sockets: an idle worker answers the ping; a busy one has
\* 200 ms to do so.
SweepWorkerSockets(r) ==
    /\ main[r] = "sweep"
    /\ \E kept \in SUBSET {w \in workerSock : worker[w].st = "run"} :
         /\ \A w \in workerSock :
              worker[w].st = "run" /\ worker[w].queue = <<>> => w \in kept
         /\ workerSock' = kept
    /\ Goto(r, "bind")
    /\ UNCHANGED <<fileVars, notified, routerVars, conn, worker, counters, robbed, expired,
                   lost>>

\* Mutant: whatever has the name is removed before the bind.
BindSocketReplacing(r) ==
    /\ main[r] = "bind"
    /\ sock' = r /\ Goto(r, "register")
    /\ UNCHANGED <<registry, workerSock, notified, routerVars, conn, worker, counters,
                   robbed, expired, lost>>

\* bind fails when the name exists.
BindSocket(r) ==
    /\ main[r] = "bind"
    /\ \/ sock = None /\ sock' = r /\ Goto(r, "register")
       \/ sock # None /\ sock' = sock /\ Goto(r, "gone")
    /\ UNCHANGED <<registry, workerSock, notified, routerVars, conn, worker, counters,
                   robbed, expired, lost>>

WriteRegistry(r) ==
    /\ main[r] = "register"
    /\ registry' = r
    /\ Goto(r, "serve")
    /\ UNCHANGED <<sock, workerSock, notified, routerVars, conn, worker, counters, robbed,
                   expired, lost>>

\* run_accept_loop ends when the shutdown is notified or accept fails.
AcceptLoopEnds(r) ==
    /\ main[r] = "serve"
    /\ \/ r \in notified /\ UNCHANGED counters
       \/ r \notin notified /\ Fault
    /\ Goto(r, "clean_socket")
    /\ UNCHANGED <<fileVars, workerSock, notified, routerVars, conn, worker, robbed,
                   expired, lost>>

\* The two removals on the way out; the runtime and its tasks end with the
\* second one.
RouterCleanup(r) ==
    /\ \/ /\ main[r] = "clean_socket"
          /\ RemoveSocket(r)
          /\ Goto(r, "clean_registry")
          /\ UNCHANGED <<conn, worker>>
       \/ /\ main[r] = "clean_registry"
          /\ RemoveRegistry(r)
          /\ RouterGone(r)
    /\ UNCHANGED <<workerSock, notified, routerVars, counters, expired, lost>>

RouterCrash(r) ==
    /\ Up(r)
    /\ Fault
    /\ RouterGone(r)
    /\ UNCHANGED <<fileVars, workerSock, notified, routerVars, robbed, expired, lost>>

RouterStep(r) ==
    \/ EnsureSingleInstance(r) \/ RemoveStale(r) \/ SweepWorkerSockets(r)
    \/ BindSocket(r) \/ WriteRegistry(r) \/ RouterCleanup(r)
    \/ main[r] = "serve" /\ r \in notified /\ AcceptLoopEnds(r)

-----------------------------------------------------------------------------
(* Requests: route_inner up to the first await that can wait for long.     *)

\* send_daemon_request: a client reaches the router the name leads to.
Accepted(c, r) == conn[c].pc = "idle" /\ sock = r /\ r \in Router /\ main[r] = "serve"

\* resolve_selector: an id or a unique part of a name leads to any of the
\* targets, no selector to the active one; without targets there is no answer.
Resolve(r) == IF targets[r] = {} THEN {} ELSE targets[r] \cup ({active[r]} \ {None})

LowestTargetId(S) == IF S = {} THEN None ELSE CHOOSE i \in S : \A j \in S : i <= j

RequestLoad(c) ==
    \E r \in Router, q \in LoadRequest :
      /\ Accepted(c, r)
      /\ conn' = [conn EXCEPT ![c] = [IdleConn EXCEPT !.pc = "load_lock", !.r = r, !.q = q]]
      /\ UNCHANGED <<fileVars, workerSock, main, notified, routerVars, worker, faults,
                     robbed, expired, lost>>

RequestSwitch(c) ==
    \E r \in Router : \E i \in Resolve(r) :
      /\ Accepted(c, r)
      /\ active' = [active EXCEPT ![r] = i]
      /\ UNCHANGED <<fileVars, workerSock, main, notified, targets, nextId, conn, worker,
                     faults, robbed, expired, lost>>

\* The entry goes first, then the worker is stopped outside the state lock.
RequestClose(c) ==
    \E r \in Router : \E i \in Resolve(r) \cap targets[r] :
      /\ Accepted(c, r)
      /\ targets' = [targets EXCEPT ![r] = @ \ {i}]
      /\ active' = [active EXCEPT ![r] = IF @ = i THEN LowestTargetId(targets[r] \ {i}) ELSE @]
      /\ conn' = [conn EXCEPT ![c] = [IdleConn EXCEPT !.pc = "stop_send", !.r = r,
                                                       !.w = <<r, i>>]]
      /\ UNCHANGED <<fileVars, workerSock, main, notified, nextId, worker, faults, robbed,
                     expired, lost>>

\* q remembers which load the target the client chose came from.
RequestAnalysis(c) ==
    \E r \in Router : \E i \in Resolve(r) \cap targets[r], op \in CliOps \ RouterOps :
      /\ Accepted(c, r)
      /\ conn' = [conn EXCEPT ![c] = [IdleConn EXCEPT !.pc = "op_lock", !.r = r,
                                        !.w = <<r, i>>, !.q = worker[<<r, i>>].q,
                                        !.op = Effect(op)]]
      /\ UNCHANGED <<fileVars, workerSock, main, notified, routerVars, worker, faults,
                     robbed, expired, lost>>

RequestShutdown(c) ==
    \E r \in Router :
      /\ Accepted(c, r)
      /\ conn' = [conn EXCEPT ![c] = [IdleConn EXCEPT !.pc = "notify", !.r = r]]
      /\ UNCHANGED <<fileVars, workerSock, main, notified, routerVars, worker, faults,
                     robbed, expired, lost>>

-----------------------------------------------------------------------------
(* Talking to a worker: forward_to_worker and the worker's connection.     *)

\* connect succeeds on the socket of a live worker only.
Reachable(w) == w \in workerSock /\ worker[w].st = "run"
\* The main thread has taken the head of the queue out of the channel, or not yet.
MayEnqueue(w) == Len(worker[w].queue) <= QueueCapacity
MayBeBusy(w) == Len(worker[w].queue) >= QueueCapacity
Enqueue(w, item) == worker' = [worker EXCEPT ![w].queue = Append(@, item)]

\* The timeout of forward_to_worker drops the connection.
GiveUp(c) ==
    LET w == conn[c].w
    IN /\ Alive(w)
       /\ worker' = [worker EXCEPT ![w].queue = Orphaned(@, {c})]
       /\ expired' = expired \cup {w}

\* Forward a request and wait at label `wait'; label `failed' is reached when
\* the connection fails or the worker is busy.
Forward(c, op, wait, failed) ==
    LET w == conn[c].w
    IN \/ /\ Reachable(w) /\ MayEnqueue(w)
          /\ Enqueue(w, Item(c, op))
          /\ ConnGoto(c, wait)
       \/ /\ ~Reachable(w) \/ MayBeBusy(w)
          /\ worker' = worker
          /\ IF failed = "idle" THEN Finish(c) ELSE ConnGoto(c, failed)

-----------------------------------------------------------------------------
(* handle_target_load.                                                     *)

HoldsLoadLock(c, r) == conn[c].r = r /\ conn[c].pc \in LoadPC \ {"load_lock"}
\* Mutant: only the input paths are compared.
FindPathConflict(r, q) == \E i \in targets[r] : worker[<<r, i>>].q.path = q.path
FindLoadConflict(r, q) ==
    \E i \in targets[r] : worker[<<r, i>>].q.path = q.path \/ worker[<<r, i>>].q.db = q.db

\* Under the load lock: the conflict check, alloc_id and the spawn.
LoadSpawn(c) ==
    LET r == conn[c].r
        q == conn[c].q
        w == <<r, nextId[r]>>
    IN /\ conn[c].pc = "load_lock"
       /\ \A d \in Conn : ~HoldsLoadLock(d, r)
       /\ \/ /\ FindLoadConflict(r, q) \/ nextId[r] > MaxTargets
             /\ Finish(c)
             /\ UNCHANGED <<workerSock, nextId, worker>>
          \/ /\ ~FindLoadConflict(r, q) /\ nextId[r] <= MaxTargets
             /\ nextId' = [nextId EXCEPT ![r] = @ + 1]
             /\ workerSock' = workerSock \ {w}
             /\ worker' = [worker EXCEPT ![w] = [NoProcess EXCEPT !.st = "boot", !.q = q]]
             /\ conn' = [conn EXCEPT ![c].pc = "boot", ![c].w = w]
       /\ UNCHANGED <<fileVars, main, notified, targets, active, counters, robbed, expired, lost>>

\* Mutant: a child that exits while it boots is not noticed.
LoadBootBlind(c) ==
    LET w == conn[c].w
    IN /\ conn[c].pc = "boot"
       /\ Reachable(w) /\ Forward(c, "load", "load_wait", "load_kill")
       /\ UNCHANGED <<fileVars, workerSock, main, notified, routerVars, counters, robbed,
                      expired, lost>>

\* spawn_worker's loop: the socket accepts, the child exited, or the deadline
\* passed and the child is killed.  Then the load is forwarded.
LoadBoot(c) ==
    LET w == conn[c].w
    IN /\ conn[c].pc = "boot"
       /\ \/ Reachable(w) /\ Forward(c, "load", "load_wait", "load_kill")
             /\ UNCHANGED <<expired, lost>>
          \/ ~Alive(w) /\ Finish(c) /\ UNCHANGED <<worker, expired, lost>>
          \/ Alive(w) /\ ~Reachable(w) /\ Kill(w) /\ Finish(c) /\ expired' = expired \cup {w}
       /\ UNCHANGED <<fileVars, workerSock, main, notified, routerVars, counters, robbed>>

LoadInsert(c) ==
    LET r == conn[c].r
        i == IdOf(conn[c].w)
    IN /\ conn[c].pc = "load_insert"
       /\ targets' = [targets EXCEPT ![r] = @ \cup {i}]
       /\ active' = [active EXCEPT ![r] = IF @ = None THEN i ELSE @]
       /\ Finish(c)
       /\ UNCHANGED <<fileVars, workerSock, main, notified, nextId, worker, counters, robbed,
                      expired, lost>>

LoadTimeout(c) ==
    /\ conn[c].pc = "load_wait"
    /\ GiveUp(c)
    /\ ConnGoto(c, "load_kill")
    /\ UNCHANGED <<fileVars, workerSock, main, notified, routerVars, counters, robbed, lost>>

\* Mutant: a failed load returns early and leaves the child.
LoadKillLeaks(c) ==
    /\ conn[c].pc = "load_kill"
    /\ Finish(c)
    /\ UNCHANGED <<fileVars, workerSock, main, notified, routerVars, worker, counters, robbed,
                   expired, lost>>

\* The load failed: worker_load_handshake stops the child.
LoadKill(c) ==
    /\ conn[c].pc = "load_kill"
    /\ Kill(conn[c].w)
    /\ workerSock' = workerSock \ {conn[c].w}
    /\ Finish(c)
    /\ UNCHANGED <<fileVars, main, notified, routerVars, counters, robbed, expired>>

-----------------------------------------------------------------------------
(* Analysis requests.                                                      *)

\* op_lock: one request in flight per worker.
OpForward(c) ==
    /\ conn[c].pc = "op_lock"
    /\ \A d \in Conn : ~(conn[d].pc = "op_wait" /\ conn[d].w = conn[c].w)
    /\ Forward(c, conn[c].op, "op_wait", "idle")
    /\ UNCHANGED <<fileVars, workerSock, main, notified, routerVars, counters, robbed,
                   expired, lost>>

\* op_timeout passed: the lock is free again, the worker still computes.
OpTimeout(c) ==
    /\ conn[c].pc = "op_wait"
    /\ GiveUp(c)
    /\ Finish(c)
    /\ UNCHANGED <<fileVars, workerSock, main, notified, routerVars, counters, robbed, lost>>

-----------------------------------------------------------------------------
(* stop_worker, for target.close and for shutdown_all_workers.             *)

StopSend(c) ==
    /\ conn[c].pc = "stop_send"
    /\ Forward(c, "shutdown", "stop_wait", "stop_exit")
    /\ UNCHANGED <<fileVars, workerSock, main, notified, routerVars, counters, robbed,
                   expired, lost>>

StopTimeout(c) ==
    /\ conn[c].pc = "stop_wait"
    /\ GiveUp(c)
    /\ ConnGoto(c, "stop_exit")
    /\ UNCHANGED <<fileVars, workerSock, main, notified, routerVars, counters, robbed, lost>>

\* The next worker of shutdown_all_workers, or the end of the handler.
StopNext(c) ==
    IF conn[c].todo = {} THEN Finish(c)
    ELSE \E w \in conn[c].todo :
           conn' = [conn EXCEPT ![c].pc = "stop_send", ![c].w = w, ![c].todo = @ \ {w}]

\* Mutant: the child is killed at once.
WaitChildKills(c) ==
    LET w == conn[c].w
    IN /\ conn[c].pc = "stop_exit"
       /\ Kill(w)
       /\ workerSock' = workerSock \ {w}
       /\ StopNext(c)
       /\ UNCHANGED <<fileVars, main, notified, routerVars, counters, robbed, expired>>

\* wait_child: the child has exited, or the grace period passed and it is
\* killed; its socket file goes.
WaitChild(c) ==
    LET w == conn[c].w
    IN /\ conn[c].pc = "stop_exit"
       /\ Kill(w)
       /\ expired' = IF Alive(w) THEN expired \cup {w} ELSE expired
       /\ workerSock' = workerSock \ {w}
       /\ StopNext(c)
       /\ UNCHANGED <<fileVars, main, notified, routerVars, counters, robbed>>

-----------------------------------------------------------------------------
(* The shutdown request, after its response was written.                   *)

ShutdownStep(c) ==
    LET r == conn[c].r
    IN \/ /\ conn[c].pc = "notify"
          /\ notified' = notified \cup {r}
          /\ ConnGoto(c, "drop_socket")
          /\ UNCHANGED <<fileVars, targets, robbed>>
       \/ /\ conn[c].pc = "drop_socket"
          /\ RemoveSocket(r)
          /\ ConnGoto(c, "drop_registry")
          /\ UNCHANGED <<notified, targets>>
       \/ /\ conn[c].pc = "drop_registry"
          /\ RemoveRegistry(r)
          /\ ConnGoto(c, "drain")
          /\ UNCHANGED <<notified, targets>>
       \/ /\ conn[c].pc = "drain"
          /\ targets' = [targets EXCEPT ![r] = {}]
          /\ LET all == {<<r, i>> : i \in targets[r]}
             IN IF all = {} THEN Finish(c)
                ELSE \E w \in all :
                       conn' = [conn EXCEPT ![c].pc = "stop_send", ![c].w = w,
                                            ![c].todo = all \ {w}]
          /\ UNCHANGED <<fileVars, notified, robbed>>

Shutdown(c) ==
    /\ ShutdownStep(c)
    /\ UNCHANGED <<workerSock, main, active, nextId, worker, counters, expired, lost>>

-----------------------------------------------------------------------------
(* Workers.                                                                *)

\* run_worker up to the accept loop of its socket thread.
WorkerUp(w) ==
    /\ worker[w].st = "boot"
    /\ worker' = [worker EXCEPT ![w].st = "run"]
    /\ workerSock' = workerSock \cup {w}
    /\ UNCHANGED <<fileVars, main, notified, routerVars, conn, counters, robbed, expired, lost>>

\* The main thread answers the head of its queue; the answer reaches the
\* handler c that waits for it, if one still does.
Dispatch(w) ==
    LET item == Head(worker[w].queue)
        c == item.c
        next == [worker[w] EXCEPT !.queue = Tail(@)]
    IN /\ worker[w].st = "run" /\ worker[w].queue # <<>> /\ item.op # "exit"
       /\ \/ /\ item.op = "load"
             /\ \E ok \in BOOLEAN :
                  /\ worker' = [worker EXCEPT ![w] = [next EXCEPT !.loaded = ok]]
                  /\ IF c = None THEN conn' = conn
                     ELSE ConnGoto(c, IF ok THEN "load_insert" ELSE "load_kill")
          \/ /\ item.op \in {"read", "write", "unknown"}
             /\ worker' = [worker EXCEPT ![w] =
                             IF item.op = "write" /\ c # None
                             THEN [next EXCEPT !.unsaved = TRUE] ELSE next]
             /\ IF c = None THEN conn' = conn ELSE Finish(c)
          \/ /\ item.op = "shutdown"
             /\ \E flushed \in IF c = None THEN BOOLEAN ELSE {TRUE} :
                  worker' = [worker EXCEPT ![w] =
                               IF flushed /\ next.exit = "no"
                               THEN [next EXCEPT !.exit = "due"] ELSE next]
             /\ IF c = None THEN conn' = conn ELSE ConnGoto(c, "stop_exit")
       /\ UNCHANGED <<fileVars, workerSock, main, notified, routerVars, counters, robbed,
                      expired, lost>>

\* The blocking send of Exit, by the connection that answered a shutdown or by
\* the watchdog that read the end of stdin.
PostExit(w) ==
    /\ worker[w].st = "run" /\ worker[w].exit = "due"
    /\ MayEnqueue(w)
    /\ worker' = [worker EXCEPT ![w].exit = "sent", ![w].queue = Append(@, Item(None, "exit"))]
    /\ UNCHANGED <<fileVars, workerSock, main, notified, routerVars, conn, counters, robbed,
                   expired, lost>>

\* The end of run_worker: the database is saved and the socket file removed.
WorkerExit(w) ==
    /\ worker[w].st = "run" /\ worker[w].queue # <<>>
    /\ Head(worker[w].queue).op = "exit"
    /\ worker' = Ended(w)
    /\ workerSock' = workerSock \ {w}
    /\ UNCHANGED <<fileVars, main, notified, routerVars, conn, counters, robbed, expired, lost>>

WorkerCrash(w) ==
    /\ Alive(w)
    /\ Fault
    /\ worker' = Ended(w)
    /\ UNCHANGED <<fileVars, workerSock, main, notified, routerVars, conn, robbed, expired,
                   lost>>

\* The connection to a worker that is gone breaks.
WorkerClosed(c) ==
    /\ conn[c].pc \in {"load_wait", "op_wait", "stop_wait"} /\ ~Alive(conn[c].w)
    /\ \/ conn[c].pc = "load_wait" /\ ConnGoto(c, "load_kill")
       \/ conn[c].pc = "op_wait" /\ Finish(c)
       \/ conn[c].pc = "stop_wait" /\ ConnGoto(c, "stop_exit")
    /\ UNCHANGED <<fileVars, workerSock, main, notified, routerVars, worker, counters, robbed,
                   expired, lost>>

-----------------------------------------------------------------------------
Request(c) ==
    /\ \A d \in 1 .. c - 1 : conn[d].pc # "idle"
    /\ requests < IF \E r \in Router : r > 1 /\ main[r] # "off" THEN MaxOverlap ELSE MaxRequests
    /\ requests' = requests + 1
    /\ \/ RequestLoad(c) \/ RequestSwitch(c) \/ RequestClose(c) \/ RequestAnalysis(c)
       \/ RequestShutdown(c)
HandlerStep(c) ==
    \/ LoadSpawn(c) \/ LoadBoot(c) \/ LoadInsert(c) \/ LoadTimeout(c) \/ LoadKill(c)
    \/ OpForward(c) \/ OpTimeout(c) \/ StopSend(c) \/ StopTimeout(c) \/ WaitChild(c)
    \/ Shutdown(c) \/ WorkerClosed(c)
WorkerStep(w) == WorkerUp(w) \/ Dispatch(w) \/ PostExit(w) \/ WorkerExit(w)

Next ==
    \/ \E r \in Router : RouterStart(r) \/ RouterStep(r) \/ AcceptLoopEnds(r) \/ RouterCrash(r)
    \/ \E c \in Conn : Request(c) \/ HandlerStep(c)
    \/ \E w \in Worker : WorkerStep(w) \/ WorkerCrash(w)

Spec == Init /\ [][Next]_vars

\* Processes and tasks are scheduled, and every request a worker's main thread
\* works on ends.
Fairness ==
    /\ \A r \in Router : WF_vars(RouterStep(r))
    /\ \A c \in Conn : WF_vars(HandlerStep(c))
    /\ \A w \in Worker : WF_vars(WorkerStep(w))
FairSpec == Spec /\ Fairness

-----------------------------------------------------------------------------
(* Properties.                                                             *)

Serving == {r \in Router : main[r] = "serve" /\ r \notin notified}

\* As long as no file of a live daemon was removed by another one, at most one
\* daemon accepts requests and the socket and the registry are its own
\* (ensure_single_instance, the bind before write_registry).
OneDaemon ==
    robbed = {} => /\ \A q, r \in Serving : q = r
                   /\ \A r \in Serving : sock = r /\ registry = r

\* Two workers of a daemon have one database open at the same time only while
\* one of them is being stopped by a target.close or a shutdown whose entry is
\* already gone.
BeingStopped(w) == \E c \in Conn : w \in {conn[c].w} \cup conn[c].todo /\ conn[c].pc \in StopPC
OpenTwiceOnlyWhileStopping ==
    \A v, w \in Worker :
      /\ v # w /\ RouterOf(v) = RouterOf(w) /\ Up(RouterOf(v))
      /\ Alive(v) /\ Alive(w) /\ worker[v].loaded /\ worker[w].loaded
      /\ worker[v].q.db = worker[w].q.db
      => BeingStopped(v) \/ BeingStopped(w)

\* No failed load, close or shutdown leaks a subprocess: a live worker of a
\* live daemon is a target, or a handler is loading or stopping it
\* (worker_load_handshake, stop_worker).
WorkerHasOwner ==
    \A w \in Worker : Alive(w) /\ Up(RouterOf(w)) =>
      \/ IdOf(w) \in targets[RouterOf(w)]
      \/ \E c \in Conn : conn[c].w = w /\ conn[c].pc \in LoadPC
      \/ BeingStopped(w)

\* The daemon kills a worker that holds acknowledged changes only after one of
\* its deadlines for that worker passed (stop_worker, wait_child).
LostOnlyByDeadline == lost \subseteq expired

\* The workers of a daemon that exited or crashed exit on their own (the
\* watchdog on stdin).
WorkersFollowRouter ==
    \A r \in Router : main[r] = "gone" ~> \A i \in Id : ~Alive(<<r, i>>)

\* A request ends, whatever the worker does: with an answer, an error or a
\* timeout.
RequestEnds == \A c \in Conn : conn[c].pc # "idle" ~> conn[c].pc = "idle"
=============================================================================
