------------------------------ MODULE IdaServer ------------------------------
(***************************************************************************)
(* The MCP server (src/src/server/mod.rs) on top of one IDA thread         *)
(* (src/src/ida/worker.rs, loop_impl.rs): the handlers of the tools, the   *)
(* foreground operations and their registry (operation.rs), the background *)
(* tasks open_dsc and analyze_funcs start, the close token of the shared   *)
(* HTTP server, and the shutdown of the process (src/src/bin/mcp_main.rs). *)
(* The IDA thread executes one request at a time, in the order of a        *)
(* bounded queue.  A request is named by who waits for its answer; an      *)
(* answer nobody waits for any more is dropped.                            *)
(*                                                                         *)
(* setup is how the process was started and what its clients do:           *)
(*   mode    "stdio" | "http" (sessions share one database) | "pooled"     *)
(*           (one session and its child); in stdio and pooled mode the     *)
(*           Sessions are the concurrent calls of the one client           *)
(*   calls   per session: how many calls it makes (a bound)                *)
(*   uses    per session: the handlers it calls                            *)
(*   events  what else happens: "session_end", "cancel", "signal", "wedge" *)
(*           (IDA hangs), "large" (an input analysed in the background),   *)
(*           "background" (analyze_funcs is called with background = true) *)
(*   paths   the inputs of open_idb                                        *)
(*   filter  the inputs of the tool filter                                 *)
(*   sessionless   the sessions that are single MCP 2026 requests          *)
(*   sdk94   IDA opens a dyld shared cache itself, without idat            *)
(***************************************************************************)
EXTENDS Sequences, SessionStreams, ServerOps

CONSTANTS
    Sessions,        \* the clients' sessions
    Setups,          \* the values of setup
    QueueCapacity    \* REQUEST_QUEUE_CAPACITY

VARIABLES
    setup,
    db,         \* the open database: [gen, path]; generation 0 is none
    lastGen,    \* next_database_generation
    queue,      \* the requests in the channel
    running,    \* the request the IDA thread executes, or Idle
    looping,    \* run_ida_loop has not returned
    wedged,     \* the IDA kernel does not return from the running request
    reply,      \* the answer waiting for each caller, or NoReply
    lease,      \* CloseTokenState: [owner, token, gen, live], or NoLease
    lastToken,  \* number of tokens generated
    call,       \* per session: its tool call in progress
    calls,      \* per session: calls made
    ops,        \* OperationRegistry: [current, active], and progress in transit
    task,       \* the background tasks "dsc" and "analyze"
    idat,       \* the idat child of the dsc task: "none" | "running" | "ok" | "failed"
    file,       \* the .i64 beside the cache: "absent" | "partial" | "complete"
    alive,      \* the sessions whose handler exists
    main        \* the thread that shuts the process down
fixed == <<setup, wedged>>
idaVars == <<db, lastGen, queue, running, looping, reply>>
leaseVars == <<lease, lastToken>>
callVars == <<call, calls, ops>>
taskVars == <<task, idat, file>>
serverVars == <<setup, idaVars, wedged, leaseVars, callVars, taskVars, alive, main>>
vars == <<serverVars, streamVars>>

NoOne == "noone"
Gone == "gone"          \* the receiver of an abandoned request
NoReply == [res |-> "none", gen |-> 0]
Idle == [from |-> NoOne, kind |-> "idle", path |-> "", gen |-> 0, cancel |-> FALSE]
NoDb == [gen |-> 0, path |-> ""]
NoLease == [owner |-> NoOne, token |-> 0, gen |-> 0, live |-> FALSE]
IdleCall == [pc |-> "idle", tool |-> "", kind |-> "", left |-> 0, gen |-> 0, seen |-> NoLease,
             right |-> ""]
NoTask == [pc |-> "none", owner |-> NoOne, cancelled |-> FALSE, gen |-> 0, why |-> "",
           status |-> "none"]
TaskKinds == {"dsc", "analyze"}
Callers == Sessions \cup TaskKinds \cup {"main"}

\* The other receivers of answers are no sessions.
ASSUME ServerAssumption == Sessions \cap (TaskKinds \cup {"main", NoOne, Gone}) = {}

Http == setup.mode = "http"
Pooled == setup.mode = "pooled"
Up == main.pc # "exited"
\* The runtime of the stdio server, and with it every handler and background
\* task, is dropped once Shutdown was sent; the IDA thread goes on.
Serving == Up /\ (main.pc = "stopping" => Http)
Enabled == FromInputs(setup.filter)
Legacy(s) == s \notin setup.sessionless

Init ==
    /\ setup \in Setups
    /\ db = NoDb /\ lastGen = 0
    /\ queue = <<>> /\ running = Idle /\ looping = TRUE /\ wedged = FALSE
    /\ reply = [x \in Callers |-> NoReply]
    /\ lease = NoLease /\ lastToken = 0
    /\ call = [s \in Sessions |-> IdleCall]
    /\ calls = [s \in Sessions |-> 0]
    /\ ops = [current |-> {}, active |-> NoOne, progress |-> {}]
    /\ task = [t \in TaskKinds |-> NoTask]
    /\ idat = "none" /\ file = "absent"
    /\ alive = Sessions
    /\ main = [pc |-> "up", late |-> FALSE]
    /\ StreamsInit

(***************************************************************************)
(* Sending: try_send, and one attempt of send_with_retry.  A request that  *)
(* cannot be sent is answered at once (Busy, WorkerClosed).                *)
(***************************************************************************)
Request(x, kind, path, gen) ==
    [from |-> x, kind |-> kind, path |-> path, gen |-> gen, cancel |-> FALSE]
CanSend == looping /\ Len(queue) < QueueCapacity
TrySend(r) ==
    /\ IF CanSend THEN queue' = Append(queue, r) /\ UNCHANGED reply
       ELSE /\ reply' = [reply EXCEPT ![r.from] = [res |-> "err", gen |-> 0]]
            /\ UNCHANGED queue
    /\ UNCHANGED <<db, lastGen, running, looping>>

\* The caller takes its answer.
Taken(x) ==
    /\ reply' = [reply EXCEPT ![x] = NoReply]
    /\ UNCHANGED <<db, lastGen, queue, running, looping>>
Answered(x) == reply[x] # NoReply
AnsweredOk(x) == reply[x].res = "ok"

\* The caller cancels the token its request carries.
Cancelled(r) == [r EXCEPT !.cancel = TRUE]
CancelInFlight(x) ==
    /\ queue' = [i \in DOMAIN queue |->
                     IF queue[i].from = x THEN Cancelled(queue[i]) ELSE queue[i]]
    /\ running' = IF running.from = x THEN Cancelled(running) ELSE running
\* The caller stops waiting for the answer; the request stays where it is.
Abandon(r) == [r EXCEPT !.from = Gone]
AbandonInFlight(x) ==
    /\ queue' = [i \in DOMAIN queue |->
                     IF queue[i].from = x THEN Abandon(queue[i]) ELSE queue[i]]
    /\ running' = IF running.from = x THEN Abandon(running) ELSE running

(***************************************************************************)
(* The IDA thread: IdaLoop's account of one request, in two steps.         *)
(***************************************************************************)
Cancellable == {"Open", "AnalyzeFuncs", "RunScript"}
Answer(x, res, gen) ==
    reply' = IF x = Gone THEN reply ELSE [reply EXCEPT ![x] = [res |-> res, gen |-> gen]]

\* The next request is taken; one that was cancelled in the queue is refused.
TakeRequest ==
    /\ Up /\ looping /\ running = Idle /\ queue # <<>>
    /\ LET r == Head(queue) IN
           /\ r.kind # "Shutdown"
           /\ queue' = Tail(queue)
           /\ IF r.cancel /\ r.kind \in Cancellable /\ ~Pooled
              THEN Answer(r.from, "cancelled", 0) /\ UNCHANGED running
              ELSE running' = r /\ UNCHANGED reply
    /\ UNCHANGED <<fixed, db, lastGen, looping, leaseVars, callVars, taskVars, alive, main,
                   streamVars>>

\* handle_open: a second open of the open path keeps the generation, another
\* path is refused; opening itself may fail.
FinishOpen(r) ==
    \/ /\ db.gen = 0
       /\ lastGen' = lastGen + 1
       /\ db' = [gen |-> lastGen', path |-> r.path]
       /\ Answer(r.from, "ok", lastGen')
    \/ /\ db.gen # 0 /\ db.path = r.path
       /\ Answer(r.from, "ok", db.gen)
       /\ UNCHANGED <<db, lastGen>>
    \/ /\ db.gen = 0 \/ db.path # r.path
       /\ Answer(r.from, "err", 0)
       /\ UNCHANGED <<db, lastGen>>
FinishClose(r) ==
    /\ db' = NoDb
    /\ Answer(r.from, "ok", 0)
    /\ UNCHANGED lastGen
FinishCloseIf(r) ==
    /\ db' = IF db.gen = r.gen THEN NoDb ELSE db
    /\ Answer(r.from, IF db.gen = r.gen THEN "closed" ELSE "other", 0)
    /\ UNCHANGED lastGen
\* The arms that need a database, and their own generation when one is given.
FinishWork(r) ==
    /\ r.kind \in ReadKinds \cup WriteKinds
    /\ \E res \in {"ok", "err"} :
           /\ res = "ok" => db.gen # 0 /\ r.gen \in {0, db.gen}
           /\ Answer(r.from, res, 0)
    /\ UNCHANGED <<db, lastGen>>
FinishCancelled(r) ==
    /\ r.cancel /\ r.kind \in Cancellable
    /\ Answer(r.from, "cancelled", 0)
    /\ UNCHANGED <<db, lastGen>>

\* A database is saved when it is closed: a cache opened without idat then has its
\* .i64 too.
Saved == file' = IF db.path = "dsc" /\ db'.path # "dsc" THEN "complete" ELSE file

FinishRequest ==
    /\ Up /\ running # Idle /\ ~wedged
    /\ Pooled => ~running.cancel
    /\ CASE running.kind = "Open" -> FinishOpen(running) \/ FinishCancelled(running)
         [] running.kind = "Close" -> FinishClose(running)
         [] running.kind = "CloseIfGeneration" -> FinishCloseIf(running)
         [] OTHER -> FinishWork(running) \/ FinishCancelled(running)
    /\ running' = Idle
    /\ Saved
    /\ UNCHANGED <<fixed, queue, looping, leaseVars, callVars, task, idat, alive, main,
                   streamVars>>

\* IDA does not come back, as auto_wait may not (external).
Wedge ==
    /\ Up /\ "wedge" \in setup.events /\ running # Idle /\ ~wedged
    /\ wedged' = TRUE
    /\ UNCHANGED <<setup, idaVars, leaseVars, callVars, taskVars, alive, main, streamVars>>

\* Shutdown: the database is closed, the loop returns and the channel goes
\* away with the requests in it, whose callers see WorkerClosed.
LoopEnds ==
    /\ Up /\ looping /\ running = Idle /\ queue # <<>> /\ Head(queue).kind = "Shutdown"
    /\ looping' = FALSE
    /\ db' = NoDb
    /\ queue' = <<>>
    /\ reply' = [x \in Callers |->
                     IF \E i \in DOMAIN queue : queue[i].from = x /\ queue[i].kind # "Shutdown"
                     THEN [res |-> "err", gen |-> 0] ELSE reply[x]]
    /\ Saved
    /\ UNCHANGED <<fixed, lastGen, running, leaseVars, callVars, task, idat, alive, main,
                   streamVars>>

\* PooledWorkerHandle::call_tool.  call_lock makes the session's child work on one
\* call at a time.  A call that is cancelled, before or after it gets the lock, or
\* that exceeds its time kills the child, and the calls behind it find it dead.
ChildKilled(x, res) ==
    /\ queue' = <<>> /\ running' = Idle /\ db' = NoDb
    /\ reply' = [y \in Callers |->
                     IF y = x THEN [res |-> res, gen |-> 0]
                     ELSE IF \E i \in DOMAIN queue : queue[i].from = y
                     THEN [res |-> "err", gen |-> 0] ELSE reply[y]]
CallKillsChild ==
    /\ Up /\ Pooled /\ running # Idle
    /\ ChildKilled(running.from, IF running.cancel THEN "cancelled" ELSE "err")
    /\ UNCHANGED <<fixed, lastGen, looping, leaseVars, callVars, taskVars, alive, main,
                   streamVars>>

\* A foreground request reports a phase, in the process itself; the drain task
\* records it.
Progress ==
    /\ Serving /\ ~Pooled /\ ~wedged /\ running.kind \in Cancellable
    /\ running.from \in ops.current /\ call[running.from].pc \in {"fg", "late"}
    /\ running.from \notin ops.progress
    /\ ops' = [ops EXCEPT !.progress = @ \cup {running.from}]
    /\ UNCHANGED <<fixed, idaVars, leaseVars, call, calls, taskVars, alive, main, streamVars>>
\* record_progress: an operation that is not current is left alone.
RecordProgress(s) ==
    /\ Serving /\ s \in ops.progress
    /\ ops' = [ops EXCEPT !.progress = @ \ {s},
                          !.active = IF s \in ops.current THEN s ELSE @]
    /\ UNCHANGED <<fixed, idaVars, leaseVars, call, calls, taskVars, alive, main, streamVars>>

(***************************************************************************)
(* The close token (CloseTokenState, and who asks for it).                 *)
(***************************************************************************)
\* issue_for_session, for the database of generation gen.  The owner keeps its
\* token, another one's lease is left; a single-request context never returns
\* under its own identity.
Issue(s, gen) ==
    IF Http /\ lease = NoLease
    THEN /\ lastToken' = lastToken + 1
         /\ lease' = [owner |-> s, token |-> lastToken', gen |-> gen, live |-> db.gen = gen]
    ELSE UNCHANGED leaseVars
\* Mutant: any session may close.
AuthorizedAnyone(s, token, force) == TRUE
\* authorize_close.  Only the shared HTTP server asks.
Authorized(s, token, force) ==
    \/ ~Http
    \/ lease = NoLease
    \/ token = lease.token
    \/ Legacy(s) /\ lease.owner = s
    \/ force

(***************************************************************************)
(* Foreground operations: open_idb, analyze_funcs, run_script.             *)
(***************************************************************************)
CanCall(s, tool) ==
    /\ Serving /\ (main.pc = "up" \/ Http)
    /\ s \in alive /\ call[s].pc = "idle" /\ calls[s] < setup.calls[s]
    /\ tool \in setup.uses[s] /\ tool \in Enabled
Begin(s, c) ==
    /\ call' = [call EXCEPT ![s] = c]
    /\ calls' = [calls EXCEPT ![s] = @ + 1]
Goto(s, pc) == call' = [call EXCEPT ![s].pc = pc] /\ UNCHANGED calls
Return(s) == call' = [call EXCEPT ![s] = IdleCall] /\ UNCHANGED calls
WithCall == <<fixed, taskVars, alive, main, streamVars>>

\* run_foreground_operation: start the operation and send the request.
StartForeground(s, tool, kind, path) ==
    /\ CanCall(s, tool)
    /\ Begin(s, [IdleCall EXCEPT !.pc = "fg", !.tool = tool, !.kind = kind])
    /\ ops' = [ops EXCEPT !.current = @ \cup {s}, !.active = s]
    /\ TrySend(Request(s, kind, path, 0))
    /\ UNCHANGED <<leaseVars, WithCall>>
OpenIdb(s) == \E path \in setup.paths : StartForeground(s, "open_idb", "Open", path)
AnalyzeFuncs(s) ==
    "background" \notin setup.events /\ StartForeground(s, "analyze_funcs", "AnalyzeFuncs", "")
RunScript(s) == StartForeground(s, "run_script", "RunScript", "")

\* The biased select: an answer that is there wins.
ForegroundAnswered(s) ==
    /\ Serving /\ call[s].pc = "fg" /\ Answered(s)
    /\ Goto(s, "drain")
    /\ UNCHANGED <<idaVars, leaseVars, ops, WithCall>>
\* The client cancels, or the timeout passes: the worker's token is cancelled.
ForegroundGivesUp(s) ==
    /\ Serving /\ call[s].pc = "fg" /\ ~Answered(s)
    /\ Goto(s, "late")
    /\ CancelInFlight(s)
    /\ UNCHANGED <<db, lastGen, looping, reply, leaseVars, ops, WithCall>>
\* Mutant: the registry forgets to reset the active operation.
FinishedKeepsActive(s) ==
    [current |-> ops.current \ {s}, active |-> ops.active, progress |-> ops.progress \ {s}]
\* OperationRegistry::finish; a drain task that is still there was aborted.
Finished(s) ==
    [current |-> ops.current \ {s}, active |-> IF ops.active = s THEN NoOne ELSE ops.active,
     progress |-> ops.progress \ {s}]
\* Mutant: the cleanup after a timeout waits for the answer without a limit.
ForegroundSettlesAnswered(s) ==
    /\ Serving /\ call[s].pc = "late" /\ Answered(s)
    /\ Return(s)
    /\ ops' = Finished(s)
    /\ Taken(s)
    /\ UNCHANGED <<leaseVars, WithCall>>
\* finish_cancelled_foreground waits for the answer, not for ever, and drops it:
\* an operation that succeeded after all is reported as cancelled or timed out.
ForegroundSettles(s) ==
    /\ Serving /\ call[s].pc = "late"
    /\ Return(s)
    /\ ops' = Finished(s)
    /\ IF Answered(s) THEN Taken(s)
       ELSE AbandonInFlight(s) /\ UNCHANGED <<db, lastGen, looping, reply>>
    /\ UNCHANGED <<leaseVars, WithCall>>

\* spawn_analyze_funcs_task: one analysis at a time, whoever asks.
CanSpawn(t) == task[t].status # "running"
Spawned(t, s) ==
    [task EXCEPT ![t] = [NoTask EXCEPT !.pc = "start", !.status = "running",
                                       !.owner = IF Legacy(s) THEN s ELSE "runtime"]]
\* The drain task has recorded every phase: the operation ends and open_idb goes
\* on to the close token and, for a large input, to a background analysis.
ForegroundEnds(s) ==
    /\ Serving /\ call[s].pc = "drain" /\ s \notin ops.progress
    /\ Return(s)
    /\ ops' = Finished(s)
    /\ Taken(s)
    /\ IF call[s].tool = "open_idb" /\ AnsweredOk(s)
       THEN /\ Issue(s, reply[s].gen)
            /\ \E large \in BOOLEAN :
                   task' = IF large /\ "large" \in setup.events /\ CanSpawn("analyze")
                           THEN Spawned("analyze", s) ELSE task
       ELSE UNCHANGED <<leaseVars, task>>
    /\ UNCHANGED <<fixed, idat, file, alive, main, streamVars>>

(***************************************************************************)
(* close_idb.                                                              *)
(***************************************************************************)
Tokens == 0..lastToken      \* 0: none given
CloseIdb(s) ==
    /\ CanCall(s, "close_idb")
    /\ \E token \in Tokens, force \in BOOLEAN :
           /\ Authorized(s, token, force)
           /\ Begin(s, [IdleCall EXCEPT !.pc = "send", !.tool = "close_idb", !.seen = lease,
                            !.right = IF force THEN "force"
                                      ELSE IF token # 0 /\ token = lease.token THEN "token"
                                      ELSE IF Legacy(s) /\ lease.owner = s THEN "owner" ELSE ""])
    /\ UNCHANGED <<idaVars, leaseVars, ops, WithCall>>
\* send_with_retry gives up after CLOSE_SEND_TIMEOUT_SECS, or when the loop is gone.
SendClose(s) ==
    /\ Serving /\ call[s].pc = "send"
    /\ \/ CanSend /\ Goto(s, "closing") /\ TrySend(Request(s, "Close", "", 0))
       \/ ~CanSend /\ Return(s) /\ UNCHANGED idaVars
    /\ UNCHANGED <<leaseVars, ops, WithCall>>
CloseAnswered(s) ==
    /\ Serving /\ call[s].pc = "closing" /\ Answered(s)
    /\ IF AnsweredOk(s) THEN Goto(s, "clear") ELSE Return(s)
    /\ Taken(s)
    /\ UNCHANGED <<leaseVars, ops, WithCall>>
ClearToken(s) ==
    /\ Serving /\ call[s].pc = "clear"
    /\ lease' = NoLease
    /\ Return(s)
    /\ UNCHANGED <<idaVars, lastToken, ops, WithCall>>

(***************************************************************************)
(* The other tools: one request after the other.  In a pool each goes to   *)
(* the session's child as the call of a tool.                              *)
(***************************************************************************)
SomeItems == 2       \* an Each tool is called with two items
ArrivesAs(kind) ==
    LET kinds == Delivered(kind, Pooled)
    IN  IF kind \in kinds THEN kind ELSE IF kinds = {} THEN "Unsupported"
        ELSE CHOOSE k \in kinds : TRUE
CallTool(s, t) ==
    /\ CanCall(s, t) /\ t \notin StepwiseTools
    /\ \E kind \in Tools[t].kinds :
           /\ Begin(s, [IdleCall EXCEPT !.pc = "item", !.tool = t, !.kind = kind,
                            !.left = IF Tools[t].each THEN SomeItems - 1 ELSE 0])
           /\ TrySend(Request(s, ArrivesAs(kind), "", 0))
    /\ UNCHANGED <<ops, leaseVars, WithCall>>

\* The next item of the call, the request that follows, or the answer.
NextItem(s, ok) ==
    IF call[s].left > 0
    THEN call' = [call EXCEPT ![s].pc = "next", ![s].left = @ - 1] /\ UNCHANGED calls
    ELSE IF ok /\ Tools[call[s].tool].then # {} /\ call[s].kind \notin Tools[call[s].tool].then
    THEN /\ call' = [call EXCEPT ![s].pc = "next",
                                 ![s].kind = CHOOSE k \in Tools[call[s].tool].then : TRUE]
         /\ UNCHANGED calls
    ELSE Return(s)
ItemAnswered(s) ==
    /\ Serving /\ call[s].pc = "item" /\ Answered(s)
    /\ call[s].kind \in TimedKinds \cup AnswerKinds
    /\ NextItem(s, AnsweredOk(s))
    /\ Taken(s)
    /\ UNCHANGED <<ops, leaseVars, WithCall>>
SendItem(s) ==
    /\ Serving /\ call[s].pc = "next"
    /\ Goto(s, "item")
    /\ TrySend(Request(s, ArrivesAs(call[s].kind), "", 0))
    /\ UNCHANGED <<ops, leaseVars, WithCall>>
\* recv_with_timeout passes: the request stays where it is.
ItemTimesOut(s) ==
    /\ Serving /\ call[s].pc = "item" /\ ~Answered(s)
    /\ call[s].kind \in TimedKinds /\ ~Pooled
    /\ NextItem(s, FALSE)
    /\ AbandonInFlight(s)
    /\ UNCHANGED <<db, lastGen, looping, reply, ops, leaseVars, WithCall>>

(***************************************************************************)
(* open_dsc.                                                               *)
(***************************************************************************)
\* dsc_open_plan: an .i64 that is there is opened at once, whatever wrote it.
OpenDscDirect(s) ==
    /\ CanCall(s, "open_dsc") /\ file # "absent"
    /\ Begin(s, [IdleCall EXCEPT !.pc = "dopen", !.tool = "open_dsc"])
    /\ TrySend(Request(s, "Open", "dsc.i64", 0))
    /\ UNCHANGED <<ops, leaseVars, WithCall>>
\* open_dsc_direct: the loads (one stands for them all) and the status are bound to
\* the opened database.  A failed load ends the call and leaves the database open,
\* without a token; a build without native loading goes on with a warning.
DirectAnswered(s) ==
    /\ Serving /\ Answered(s)
    /\ \/ /\ call[s].pc = "dopen"
          /\ IF AnsweredOk(s)
             THEN call' = [call EXCEPT ![s].pc = "dnext", ![s].gen = reply[s].gen] /\ UNCHANGED calls
             ELSE Return(s)
          /\ Taken(s)
       \/ /\ call[s].pc = "dload"
          /\ Goto(s, "dstat") \/ (~AnsweredOk(s) /\ Return(s))
          /\ Taken(s)
       \/ /\ call[s].pc = "dstatus"
          /\ Goto(s, "dissue")
          /\ Taken(s)
    /\ UNCHANGED <<ops, leaseVars, WithCall>>
DirectSends(s) ==
    /\ Serving
    /\ \/ /\ call[s].pc = "dnext" /\ Goto(s, "dload")
          /\ TrySend(Request(s, "DscLoadImage", "", call[s].gen))
       \/ /\ call[s].pc = "dstat" /\ Goto(s, "dstatus")
          /\ TrySend(Request(s, "AnalysisStatus", "", call[s].gen))
    /\ UNCHANGED <<ops, leaseVars, WithCall>>
DirectTimesOut(s) ==
    /\ Serving /\ call[s].pc = "dload" /\ ~Answered(s)
    /\ Return(s)
    /\ AbandonInFlight(s)
    /\ UNCHANGED <<db, lastGen, looping, reply, ops, leaseVars, WithCall>>
DirectIssues(s) ==
    /\ Serving /\ call[s].pc = "dissue"
    /\ Issue(s, call[s].gen)
    /\ Return(s)
    /\ UNCHANGED <<idaVars, ops, WithCall>>

(***************************************************************************)
(* Background tasks.  The registry itself is module TaskRegistry: here a   *)
(* task is its status, the token that cancels it and where its future is.  *)
(***************************************************************************)
WithTask == <<fixed, callVars, alive, main, streamVars>>
At(t, pc) == Serving /\ task[t].status = "running" /\ task[t].pc = pc
TaskGoto(t, pc) == task' = [task EXCEPT ![t].pc = pc]
Settle(t, status) == task' = [task EXCEPT ![t].pc = "done", ![t].status = status]
\* complete_with_cancel_token: a task whose cancellation was asked is cancelled.
SettleUnlessCancelled(t, status) ==
    Settle(t, IF task[t].cancelled THEN "cancelled" ELSE status)

\* The owner cancels the task, or its session ends, or the process stops.
CancelTasks(T) ==
    /\ task' = [t \in TaskKinds |->
                    IF t \in T /\ task[t].status = "running"
                    THEN [task[t] EXCEPT !.cancelled = TRUE] ELSE task[t]]
    /\ LET hit(r) == IF r.from \in T THEN Cancelled(r) ELSE r IN
           /\ queue' = [i \in DOMAIN queue |-> hit(queue[i])]
           /\ running' = hit(running)
    /\ UNCHANGED <<db, lastGen, looping, reply, idat, file>>
CancelTask(t) ==
    /\ Serving /\ "cancel" \in setup.events
    /\ task[t].status = "running" /\ ~task[t].cancelled
    /\ CancelTasks({t})
    /\ UNCHANGED <<leaseVars, WithTask>>
\* The handler of a session is dropped (SessionLifetime).
SessionEnds(s) ==
    /\ Serving /\ s \in alive /\ Legacy(s)
    /\ "session_end" \in setup.events
    /\ Pooled => session = "closed"
    /\ alive' = alive \ {s}
    /\ CancelTasks({t \in TaskKinds : task[t].owner = s})
    /\ UNCHANGED <<fixed, leaseVars, callVars, main, streamVars>>

\* analyze_funcs(background = true).
AnalyzeInBackground(s) ==
    /\ "background" \in setup.events /\ CanCall(s, "analyze_funcs") /\ CanSpawn("analyze")
    /\ calls' = [calls EXCEPT ![s] = @ + 1]
    /\ task' = Spawned("analyze", s)
    /\ UNCHANGED <<idaVars, leaseVars, call, ops, fixed, idat, file, alive, main, streamVars>>
AnalyzeStarts ==
    /\ At("analyze", "start")
    /\ TaskGoto("analyze", "wait")
    /\ TrySend([Request("analyze", "AnalyzeFuncs", "", 0) EXCEPT !.cancel = task["analyze"].cancelled])
    /\ UNCHANGED <<leaseVars, idat, file, WithTask>>
AnalyzeSettles ==
    /\ At("analyze", "wait") /\ Answered("analyze")
    /\ SettleUnlessCancelled("analyze", "completed")
    /\ Taken("analyze")
    /\ UNCHANGED <<leaseVars, idat, file, WithTask>>
\* open_dsc when there is no .i64: start_dsc_background.
OpenDscBackground(s) ==
    /\ CanCall(s, "open_dsc") /\ file = "absent" /\ CanSpawn("dsc")
    /\ calls' = [calls EXCEPT ![s] = @ + 1]
    /\ task' = Spawned("dsc", s)
    /\ idat' = "none"
    /\ UNCHANGED <<idaVars, leaseVars, call, ops, fixed, file, alive, main, streamVars>>

\* run_dsc_background up to the open: the cache is opened directly, or idat
\* writes the .i64 first.
SendDscOpen ==
    /\ TaskGoto("dsc", "open")
    /\ TrySend([Request("dsc", "Open", IF setup.sdk94 THEN "dsc" ELSE "dsc.i64", 0) EXCEPT !.cancel = task["dsc"].cancelled])
DscStarts ==
    /\ At("dsc", "start")
    /\ \/ task["dsc"].cancelled /\ Settle("dsc", "cancelled") /\ UNCHANGED <<idaVars, idat, file>>
       \/ ~task["dsc"].cancelled /\ setup.sdk94 /\ SendDscOpen /\ UNCHANGED <<idat, file>>
       \/ /\ ~task["dsc"].cancelled /\ ~setup.sdk94
          /\ \/ idat' = "running" /\ file' = "partial" /\ TaskGoto("dsc", "idat")
             \/ idat' = "failed" /\ TaskGoto("dsc", "settled") /\ UNCHANGED file
          /\ UNCHANGED idaVars
    /\ UNCHANGED <<leaseVars, WithTask>>
\* The child itself (external).
IdatExits ==
    /\ Up /\ idat = "running"
    /\ \/ idat' = "ok" /\ file' = "complete"
       \/ idat' = "failed" /\ UNCHANGED file
    /\ UNCHANGED <<idaVars, leaseVars, task, WithTask>>
\* Mutant: the killed child's output stays.
IdatKilledLeavesOutput ==
    /\ At("dsc", "idat") /\ task["dsc"].cancelled
    /\ idat' = "none"
    /\ Settle("dsc", "cancelled")
    /\ UNCHANGED <<file, idaVars, leaseVars, WithTask>>
\* stop_idat.  The select of idat's exit and the cancellation takes either when
\* both are there.
IdatKilled ==
    /\ At("dsc", "idat") /\ task["dsc"].cancelled
    /\ idat' = "none" /\ file' = "absent"
    /\ Settle("dsc", "cancelled")
    /\ UNCHANGED <<idaVars, leaseVars, WithTask>>
IdatSettles ==
    /\ At("dsc", "idat") /\ idat \in {"ok", "failed"}
    /\ TaskGoto("dsc", "settled")
    /\ UNCHANGED <<idat, file, idaVars, leaseVars, WithTask>>
IdatWaitFails ==
    /\ At("dsc", "idat")
    /\ idat' = "none" /\ file' = "absent"
    /\ SettleUnlessCancelled("dsc", "failed")
    /\ UNCHANGED <<idaVars, leaseVars, WithTask>>
\* A cancellation seen here returns before the output is looked at; otherwise a
\* failed idat's output is removed.
DscAfterIdat ==
    /\ At("dsc", "settled")
    /\ \/ task["dsc"].cancelled /\ Settle("dsc", "cancelled") /\ UNCHANGED <<idaVars, file>>
       \/ ~task["dsc"].cancelled /\ idat = "failed" /\ file' = "absent"
          /\ Settle("dsc", "failed") /\ UNCHANGED idaVars
       \/ ~task["dsc"].cancelled /\ idat = "ok" /\ SendDscOpen /\ UNCHANGED file
    /\ UNCHANGED <<idat, leaseVars, WithTask>>

\* From here on the task owns a database: every way out that is not completion
\* goes through close_if_generation ("undo"), why saying how it will settle.
Undo(why) == task' = [task EXCEPT !["dsc"].pc = "undo", !["dsc"].why = why]
\* Mutant: a cancellation seen after the open settles without closing.
DscOpenedForgets ==
    /\ At("dsc", "open") /\ Answered("dsc")
    /\ \/ /\ AnsweredOk("dsc")
          /\ task' = [task EXCEPT !["dsc"] =
                 IF @.cancelled
                 THEN [@ EXCEPT !.gen = reply["dsc"].gen, !.pc = "done", !.status = "cancelled"]
                 ELSE [@ EXCEPT !.gen = reply["dsc"].gen,
                                !.pc = IF setup.sdk94 THEN "next" ELSE "issue"]]
       \/ ~AnsweredOk("dsc") /\ SettleUnlessCancelled("dsc", "failed")
    /\ Taken("dsc")
    /\ UNCHANGED <<leaseVars, idat, file, WithTask>>
DscOpened ==
    /\ At("dsc", "open") /\ Answered("dsc")
    /\ \/ /\ AnsweredOk("dsc")
          /\ task' = [task EXCEPT !["dsc"] =
                 IF @.cancelled
                 THEN [@ EXCEPT !.gen = reply["dsc"].gen, !.pc = "undo", !.why = "cancelled"]
                 ELSE [@ EXCEPT !.gen = reply["dsc"].gen,
                                !.pc = IF setup.sdk94 THEN "next" ELSE "issue"]]
       \/ ~AnsweredOk("dsc") /\ SettleUnlessCancelled("dsc", "failed")
    /\ Taken("dsc")
    /\ UNCHANGED <<leaseVars, idat, file, WithTask>>
DscLoads ==
    /\ \/ /\ At("dsc", "next") /\ TaskGoto("dsc", "load")
          /\ TrySend(Request("dsc", "DscLoadImage", "", task["dsc"].gen))
       \/ /\ At("dsc", "stat") /\ TaskGoto("dsc", "status")
          /\ TrySend(Request("dsc", "AnalysisStatus", "", task["dsc"].gen))
    /\ UNCHANGED <<leaseVars, idat, file, WithTask>>
DscLoaded ==
    /\ At("dsc", "load") /\ Answered("dsc")
    /\ IF task["dsc"].cancelled THEN Undo("cancelled")
       ELSE IF AnsweredOk("dsc") THEN TaskGoto("dsc", "stat")
       ELSE Undo("failed")
    /\ Taken("dsc")
    /\ UNCHANGED <<leaseVars, idat, file, WithTask>>
DscLoadTimesOut ==
    /\ At("dsc", "load") /\ ~Answered("dsc")
    /\ Undo(IF task["dsc"].cancelled THEN "cancelled" ELSE "failed")
    /\ AbandonInFlight("dsc")
    /\ UNCHANGED <<db, lastGen, looping, reply, leaseVars, idat, file, WithTask>>
DscStatus ==
    /\ At("dsc", "status") /\ Answered("dsc")
    /\ IF task["dsc"].cancelled THEN Undo("cancelled") ELSE TaskGoto("dsc", "issue")
    /\ Taken("dsc")
    /\ UNCHANGED <<leaseVars, idat, file, WithTask>>
\* The token goes to the session that asked for the cache, then the task
\* completes unless a cancellation got in between.
DscIssues ==
    /\ At("dsc", "issue")
    /\ IF task["dsc"].cancelled THEN Undo("cancelled") /\ UNCHANGED leaseVars
       ELSE TaskGoto("dsc", "complete") /\ Issue(task["dsc"].owner, task["dsc"].gen)
    /\ UNCHANGED <<idaVars, idat, file, WithTask>>
DscCompletes ==
    /\ At("dsc", "complete")
    /\ IF task["dsc"].cancelled THEN Undo("cancelled") ELSE Settle("dsc", "completed")
    /\ UNCHANGED <<idaVars, leaseVars, idat, file, WithTask>>

\* close_if_generation, its clearing of the token, and the settlement.  A close
\* that cannot be sent is reported as a cleanup error.
DscSendsClose ==
    /\ At("dsc", "undo")
    /\ \/ CanSend /\ TaskGoto("dsc", "undoing")
          /\ TrySend(Request("dsc", "CloseIfGeneration", "", task["dsc"].gen))
       \/ ~CanSend /\ Settle("dsc", "cleanup_error") /\ UNCHANGED idaVars
    /\ UNCHANGED <<leaseVars, idat, file, WithTask>>
DscUndone == SettleUnlessCancelled("dsc", task["dsc"].why)
DscCloseAnswered ==
    /\ At("dsc", "undoing") /\ Answered("dsc")
    /\ CASE reply["dsc"].res = "closed" -> TaskGoto("dsc", "clear")
         [] reply["dsc"].res = "other" -> DscUndone
         [] OTHER -> Settle("dsc", "cleanup_error")
    /\ Taken("dsc")
    /\ UNCHANGED <<leaseVars, idat, file, WithTask>>
\* Mutant: close_if_generation leaves the token.
DscClearsNothing ==
    /\ At("dsc", "clear")
    /\ DscUndone
    /\ UNCHANGED <<leaseVars, idaVars, idat, file, WithTask>>
DscClears ==
    /\ At("dsc", "clear")
    /\ lease' = NoLease
    /\ DscUndone
    /\ UNCHANGED <<idaVars, lastToken, idat, file, WithTask>>

(***************************************************************************)
(* Shutdown: main.pc is "up", "close" (sending Close), "closing", "shut"   *)
(* (sending Shutdown), "stopping", "exited".  The stdio server bounds each *)
(* step and then leaves the process; the HTTP server waits.                *)
(***************************************************************************)
WithMain == <<fixed, leaseVars, callVars, alive, streamVars>>
MainGoto(pc) == main' = [main EXCEPT !.pc = pc]
Signal ==
    /\ main.pc = "up" /\ "signal" \in setup.events
    /\ MainGoto("close")
    /\ IF Http THEN UNCHANGED <<idaVars, taskVars>> ELSE CancelTasks(TaskKinds)
    /\ UNCHANGED WithMain
MainSends ==
    /\ \/ /\ main.pc = "close" /\ CanSend /\ MainGoto("closing")
          /\ TrySend(Request("main", "Close", "", 0))
       \/ /\ main.pc = "shut" /\ CanSend
          /\ MainGoto(IF main.late THEN "exited" ELSE "stopping")
          /\ TrySend(Request("main", "Shutdown", "", 0))
    /\ UNCHANGED <<taskVars, WithMain>>
MainClosed ==
    /\ main.pc = "closing" /\ Answered("main")
    /\ MainGoto("shut")
    /\ Taken("main")
    /\ UNCHANGED <<taskVars, WithMain>>
\* Mutant: only the wait for the close is bounded.
MainTimesOutClosing ==
    /\ ~Http /\ main.pc = "closing" /\ ~Answered("main")
    /\ main' = [pc |-> "shut", late |-> TRUE] /\ AbandonInFlight("main")
    /\ UNCHANGED <<db, lastGen, looping, reply, taskVars, WithMain>>
\* WORKER_SHUTDOWN_TIMEOUT of close_for_shutdown or of shutdown.
MainTimesOut ==
    /\ ~Http
    /\ \/ main.pc \in {"close", "closing"} /\ ~Answered("main")
          /\ main' = [pc |-> "shut", late |-> TRUE] /\ AbandonInFlight("main")
       \/ main.pc = "shut" /\ ~CanSend /\ MainGoto("exited") /\ UNCHANGED <<queue, running>>
    /\ UNCHANGED <<db, lastGen, looping, reply, taskVars, WithMain>>
MainExits ==
    /\ main.pc = "stopping" /\ ~looping
    /\ MainGoto("exited")
    /\ UNCHANGED <<idaVars, taskVars, WithMain>>

(***************************************************************************)
(* The specification.                                                      *)
(***************************************************************************)
IdaThread == TakeRequest \/ FinishRequest \/ LoopEnds \/ CallKillsChild
\* What a handler does once it was called.
Continue(s) ==
    /\ call[s].pc # "idle"
    /\ \/ ForegroundAnswered(s) \/ ForegroundGivesUp(s) \/ ForegroundSettles(s) \/ ForegroundEnds(s)
       \/ SendClose(s) \/ CloseAnswered(s) \/ ClearToken(s)
       \/ ItemAnswered(s) \/ SendItem(s) \/ ItemTimesOut(s)
       \/ DirectAnswered(s) \/ DirectSends(s) \/ DirectTimesOut(s) \/ DirectIssues(s)
Calls(s) ==
    \/ OpenIdb(s) \/ AnalyzeFuncs(s) \/ RunScript(s) \/ CloseIdb(s)
    \/ \E t \in setup.uses[s] \cap DOMAIN Tools : CallTool(s, t)
    \/ OpenDscDirect(s) \/ OpenDscBackground(s) \/ AnalyzeInBackground(s)
AnalyzeTask == AnalyzeStarts \/ AnalyzeSettles
DscTask ==
    /\ task["dsc"].status = "running"
    /\ \/ DscStarts \/ IdatKilled \/ IdatSettles \/ DscAfterIdat \/ DscOpened \/ DscLoads
       \/ DscLoaded \/ DscLoadTimesOut \/ DscStatus \/ DscIssues \/ DscCompletes
       \/ DscSendsClose \/ DscCloseAnswered \/ DscClears
Main == MainSends \/ MainClosed \/ MainTimesOut \/ MainExits

Next ==
    \/ IdaThread \/ Progress \/ Wedge
    \/ \E s \in Sessions : Calls(s) \/ Continue(s) \/ RecordProgress(s) \/ SessionEnds(s)
    \/ AnalyzeTask \/ DscTask \/ IdatExits \/ IdatWaitFails
    \/ \E t \in TaskKinds : CancelTask(t)
    \/ Signal \/ Main
    \/ Pooled /\ "session_end" \in setup.events /\ StreamsNext /\ UNCHANGED serverVars

\* Threads are scheduled, timers expire, and IDA answers unless it is wedged.
\* Clients, signals, cancellations and idat's exit are not assumed to happen.
Fairness ==
    /\ WF_vars(IdaThread)
    /\ \A s \in Sessions : WF_vars(Continue(s)) /\ WF_vars(RecordProgress(s))
    /\ WF_vars(AnalyzeTask)
    /\ WF_vars(DscTask)
    /\ WF_vars(Main)
    /\ WF_vars(Pooled /\ (\E c \in closer : Closer(c)) /\ UNCHANGED serverVars)
Spec == Init /\ [][Next]_vars /\ Fairness

-----------------------------------------------------------------------------

\* The active operation recent_operations reports is one that has not finished,
\* and the registry's current operations are exactly the foreground handlers
\* between their start and their finish (OperationRegistry, run_foreground_operation).
ActiveOperationRuns ==
    /\ ops.active # NoOne => ops.active \in ops.current
    /\ ops.current = {s \in Sessions : call[s].pc \in {"fg", "late", "drain"}}

\* A close token that was issued while its database was open is void once the
\* database is closed: whoever closes it, close_idb or the cleanup of open_dsc,
\* clears the token, and until then it is on its way to do so.  (A token issued
\* after its database was closed by someone else is stale from the start.)
Clearing ==
    \/ \E s \in Sessions : call[s].pc = "clear" \/ (call[s].pc = "closing" /\ AnsweredOk(s))
    \/ task["dsc"].pc = "clear" \/ (task["dsc"].pc = "undoing" /\ reply["dsc"].res = "closed")
LeaseHasDatabase ==
    main.pc = "up" /\ lease.live => db.gen = lease.gen \/ Clearing

\* close_idb of one session closes a database under another session's token only
\* if it was forced, gave the token, or was granted before that token existed:
\* between the authorisation and the close the lease may have changed.
OwnedCloseNeedsRight ==
    [][ running.kind = "Close" /\ running.from \in Sessions /\ db.gen # 0 /\ db'.gen = 0
        /\ lease # NoLease
            => \/ call[running.from].right # ""
               \/ call[running.from].seen # lease ]_vars

\* A background open_dsc that did not complete leaves no database of its own
\* behind: it is closed, or was replaced, before the task says cancelled or
\* failed; a cleanup that could not be done is reported as such.
UnsuccessfulDscLeavesNothingOpen ==
    task["dsc"].status \in {"cancelled", "failed"} /\ task["dsc"].gen # 0
        => db.gen # task["dsc"].gen

\* An incomplete .i64, which the next open_dsc would open as it is, exists only
\* while the task that runs idat can still remove it.  The one exception is the
\* early return of a cancellation that is seen after idat exited by itself.
PartialIsBeingWritten ==
    file = "partial" => \/ task["dsc"].pc \in {"idat", "settled"}
                        \/ task["dsc"].status = "cancelled" /\ idat = "failed"

InFlightOf(s) ==
    {r \in {queue[i] : i \in DOMAIN queue} \cup {running} : r.from = s}
\* Under --read-only no tool call puts a request that changes the database in the
\* queue, whatever --tools lists; loading debug info and opening are allowed.
ReadOnlyNeverWrites ==
    setup.filter.readOnly =>
        \A s \in Sessions : \A r \in InFlightOf(s) :
            r.kind \in WriteKinds =>
                r.kind = "LoadDebugInfo" \/ call[s].tool = "open_dsc"

\* The request that reaches the IDA thread is the one the tool asked for, in the
\* process itself and through the tool called on a pooled child.
RequestIsWhatWasAsked ==
    \A s \in Sessions : call[s].pc = "item" =>
        \A r \in InFlightOf(s) : r.kind = call[s].kind

\* A foreground operation and a tool with a time limit return to the client even
\* if IDA never answers.
Bounded(s) ==
    call[s].pc \in {"fg", "late"} \/ (call[s].pc = "item" /\ call[s].kind \in TimedKinds)
BoundedCallEnds == \A s \in Sessions : Bounded(s) ~> ~Bounded(s) \/ ~Serving

\* A signal ends the stdio server although IDA hangs.  What escapes the bounds of
\* shutdown_worker_bounded is a request that got into the queue between the close
\* and the shutdown and hangs: nobody waits for the loop.  The HTTP server has no
\* bound: it ends if IDA answers.
ShutdownEnds ==
    main.pc = "close" ~> ~Up \/ (wedged /\ (Http \/ main.pc = "stopping"))
=============================================================================
