------------------------------ MODULE IdaLoop ------------------------------
(***************************************************************************)
(* The IDA thread (src/src/ida/loop_impl.rs) and the handle through which  *)
(* async code talks to it (src/src/ida/worker.rs).                         *)
(*                                                                         *)
(* A client is a future that sends one request at a time and waits for its *)
(* answer.  The queue is a bounded channel.  Every request carries the     *)
(* sending half of a oneshot channel; client = NoClient says that the      *)
(* receiving half is gone.  The IDA thread does one request after the      *)
(* other, and nobody else sees the database, so that a handler is one step. *)
(* A cancellation that a running handler notices came before that step, one *)
(* that it does not notice after it.                                       *)
(***************************************************************************)
EXTENDS Integers, Sequences, FiniteSets

CONSTANTS Client, NoClient, Path, NoPath,
          QueueCapacity,  \* REQUEST_QUEUE_CAPACITY
          MaxGeneration,  \* u64::MAX
          Startup         \* states of the library at the start of the loop

ASSUME LoopAssumption ==
  /\ NoClient \notin Client /\ NoPath \notin Path
  /\ QueueCapacity \in Nat \ {0} /\ MaxGeneration \in Nat
  /\ Startup \subseteq {"deferred", "ready", "mismatch"}

Generation == 0..MaxGeneration \* 0: none

\* Open, AnalyzeFuncs and RunScript ("work"), the tools that may be bound to a
\* generation ("call"), Close, CloseIfGeneration and Shutdown.
Kinds == {"open", "work", "call", "close", "closeIf", "shutdown"}
Cancellable == {"open", "work"}
Control == {"close", "closeIf", "shutdown"}

Request(kind, c, p, g, token) ==
  [kind |-> kind, client |-> c, path |-> p, gen |-> g, token |-> token]
Requests ==
  [kind : Kinds, client : Client \cup {NoClient}, path : Path \cup {NoPath},
   gen : Generation, token : {"none", "live", "cancelled"}]
NoRequest == Request("call", NoClient, NoPath, 0, "none")

Tags == {"none", "ok", "error", "cancelled", "replaced", "notCurrent", "closed"}
Answer(tag, g) == [tag |-> tag, gen |-> g]
NoAnswer == Answer("none", 0)

VARIABLES lib, loop, exec,                    \* the thread and its request
          idb, generation, nextGeneration,    \* its database
          queue,
          phase, pending, answer, lifetime    \* per client

libVars == <<lib, loop, exec>>
dbVars == <<idb, generation, nextGeneration>>
clientVars == <<phase, pending, answer, lifetime>>
vars == <<libVars, dbVars, queue, clientVars>>

Init ==
  /\ lib \in Startup /\ loop = "recv" /\ exec = NoRequest
  /\ idb = NoPath /\ generation = 0 /\ nextGeneration = 0
  /\ queue = <<>>
  /\ phase = [c \in Client |-> "idle"]
  /\ pending = [c \in Client |-> NoRequest]
  /\ answer = [c \in Client |-> NoAnswer]
  /\ lifetime = [c \in Client |-> 0]

-----------------------------------------------------------------------------
(* The handle: worker.rs. *)

HasRoom == loop # "stopped" /\ Len(queue) < QueueCapacity

\* Shutdown has no answer.
Sent(c, r) ==
  /\ queue' = Append(queue, r)
  /\ phase' = [phase EXCEPT ![c] = IF r.kind = "shutdown" THEN "idle" ELSE "wait"]
  /\ pending' = [pending EXCEPT ![c] = NoRequest]

\* What client c may ask for.  A call is bound to no lifetime or to the one
\* that c opened, a conditional close always to that one.
Asks(c) ==
  {Request("open", c, p, 0, "live") : p \in Path}
  \cup {Request("work", c, NoPath, 0, "live"), Request("close", c, NoPath, 0, "none"),
        Request("shutdown", NoClient, NoPath, 0, "none"), Request("call", c, NoPath, 0, "none")}
  \cup {Request(k, c, NoPath, lifetime[c], "none") :
          k \in {kind \in {"call", "closeIf"} : lifetime[c] # 0}}

(* try_send, and the first try of send_with_retry.  Busy and WorkerClosed   *)
(* change nothing.                                                         *)
Send(c) ==
  /\ phase[c] = "idle" /\ HasRoom
  /\ \E r \in Asks(c) : Sent(c, r)
  /\ UNCHANGED <<libVars, dbVars, answer, lifetime>>

(* send_with_retry finds the queue full. *)
SendControl(c) ==
  /\ phase[c] = "idle" /\ loop # "stopped" /\ ~HasRoom
  /\ \E r \in Asks(c) :
       r.kind \in Control /\ pending' = [pending EXCEPT ![c] = r]
  /\ phase' = [phase EXCEPT ![c] = "retry"]
  /\ UNCHANGED <<libVars, dbVars, queue, answer, lifetime>>

RetrySend(c) ==
  /\ phase[c] = "retry" /\ HasRoom
  /\ Sent(c, pending[c])
  /\ UNCHANGED <<libVars, dbVars, answer, lifetime>>

(* CLOSE_SEND_TIMEOUT_SECS are over, or the loop has ended. *)
RetryFails(c) ==
  /\ phase[c] = "retry"
  /\ pending[c].kind # "shutdown" \/ loop = "stopped"
  /\ phase' = [phase EXCEPT ![c] = "idle"]
  /\ pending' = [pending EXCEPT ![c] = NoRequest]
  /\ UNCHANGED <<libVars, dbVars, queue, answer, lifetime>>

(* The answer arrives.  An open tells its generation. *)
Receive(c) ==
  /\ phase[c] = "answered"
  /\ phase' = [phase EXCEPT ![c] = "idle"]
  /\ lifetime' = IF answer[c].gen # 0 THEN [lifetime EXCEPT ![c] = answer[c].gen] ELSE lifetime
  /\ answer' = [answer EXCEPT ![c] = NoAnswer]
  /\ UNCHANGED <<libVars, dbVars, queue, pending>>

InQueue(c) == {i \in 1..Len(queue) : queue[i].client = c}

\* Mutant: a request keeps its channel although nobody waits any more.
DroppedKept(r, c) == r

\* The token of client c is cancelled; the receiving half of its oneshot
\* channel is dropped.
Cancelled(r, c) ==
  IF r.client = c /\ r.token = "live"
  THEN Request(r.kind, c, r.path, r.gen, "cancelled") ELSE r
Dropped(r, c) ==
  IF r.client = c THEN Request(r.kind, NoClient, r.path, r.gen, r.token) ELSE r

Cancel(c) ==
  /\ phase[c] = "wait"
  /\ queue' = [i \in 1..Len(queue) |-> Cancelled(queue[i], c)]
  /\ exec' = Cancelled(exec, c)
  /\ UNCHANGED <<lib, loop, dbVars, clientVars>>

\* Mutant: the future is dropped without a cancellation.
MayAbandonAny(r) == TRUE

\* run_foreground_operation cancels before it gives up.  Nothing limits the
\* wait for a conditional close.
MayAbandon(r) == r.token # "live" /\ r.kind # "closeIf"

(* The future gives up: recv_with_timeout, the end of the wait after a      *)
(* cancellation, or the limit of shutdown_worker_bounded.                  *)
Abandon(c) ==
  /\ phase[c] = "wait"
  /\ \A i \in InQueue(c) : MayAbandon(queue[i])
  /\ exec.client = c => MayAbandon(exec)
  /\ queue' = [i \in 1..Len(queue) |-> Dropped(queue[i], c)]
  /\ exec' = Dropped(exec, c)
  /\ phase' = [phase EXCEPT ![c] = "idle"]
  /\ UNCHANGED <<lib, loop, dbVars, pending, answer, lifetime>>

(* It gave up before the handler was done, and the answer is thrown away. *)
Discard(c) ==
  /\ phase[c] = "answered"
  /\ phase' = [phase EXCEPT ![c] = "idle"]
  /\ answer' = [answer EXCEPT ![c] = NoAnswer]
  /\ UNCHANGED <<libVars, dbVars, queue, pending, lifetime>>

-----------------------------------------------------------------------------
(* The thread: loop_impl.rs. *)

Reply(r, tag, g) ==
  IF r.client \in Client
  THEN /\ phase' = [phase EXCEPT ![r.client] = "answered"]
       /\ answer' = [answer EXCEPT ![r.client] = Answer(tag, g)]
  ELSE UNCHANGED <<phase, answer>>

\* The thread has answered and waits for the next request.
Finish(tag, g) ==
  /\ Reply(exec, tag, g)
  /\ loop' = "recv" /\ exec' = NoRequest
  /\ UNCHANGED <<pending, lifetime>>

(* A close that is rejected is answered like one that closed. *)
RejectTag(r, tag) == IF r.kind = "close" THEN "ok" ELSE tag

(* rx.recv().  Before the library is initialised, a cancelled request is    *)
(* rejected here.                                                          *)
Recv ==
  /\ loop = "recv" /\ queue # <<>>
  /\ queue' = Tail(queue)
  /\ IF lib = "deferred" /\ Head(queue).token = "cancelled"
     THEN Reply(Head(queue), "cancelled", 0) /\ UNCHANGED <<loop, exec>>
     ELSE /\ exec' = Head(queue)
          /\ loop' = IF lib = "deferred" THEN "init" ELSE "dispatch"
          /\ UNCHANGED <<phase, answer>>
  /\ UNCHANGED <<lib, dbVars, pending, lifetime>>

InitLibrary ==
  /\ loop = "init"
  /\ lib' \in {"ready", "mismatch"}
  /\ loop' = "dispatch"
  /\ UNCHANGED <<exec, dbVars, queue, clientVars>>

(* The request is rejected, a shutdown too. *)
InitFails ==
  /\ loop = "init"
  /\ Finish(RejectTag(exec, "error"), 0)
  /\ UNCHANGED <<lib, dbVars, queue>>

RejectMismatch ==
  /\ loop = "dispatch" /\ lib = "mismatch" /\ exec.kind # "shutdown"
  /\ Finish(RejectTag(exec, "error"), 0)
  /\ UNCHANGED <<lib, dbVars, queue>>

Dispatch(kinds) == loop = "dispatch" /\ lib = "ready" /\ exec.kind \in kinds

RefusesCancelled(r) == r.kind \in Cancellable /\ r.token = "cancelled"

CancelledFirst ==
  /\ Dispatch(Cancellable) /\ RefusesCancelled(exec)
  /\ Finish("cancelled", 0)
  /\ UNCHANGED <<lib, dbVars, queue>>

Opening == Dispatch({"open"}) /\ ~RefusesCancelled(exec)

(* The database is open already. *)
OpenAgain ==
  /\ Opening /\ idb = exec.path
  /\ Finish("ok", generation)
  /\ UNCHANGED <<lib, dbVars, queue>>

(* Another database is open, or this one cannot be opened. *)
OpenFails ==
  /\ Opening /\ idb # exec.path
  /\ Finish("error", 0)
  /\ UNCHANGED <<lib, dbVars, queue>>

\* Mutant: an open after a close goes on with the old number.
NumberReused == nextGeneration' = IF nextGeneration = 0 THEN 1 ELSE nextGeneration

NumberLifetime == nextGeneration' = nextGeneration + 1

OpenSucceeds ==
  /\ Opening /\ idb = NoPath /\ nextGeneration < MaxGeneration
  /\ NumberLifetime
  /\ idb' = exec.path /\ generation' = nextGeneration'
  /\ Finish("ok", generation')
  /\ UNCHANGED <<lib, queue>>

CloseDatabase == idb' = NoPath /\ generation' = 0 /\ UNCHANGED nextGeneration

Close ==
  /\ Dispatch({"close"})
  /\ CloseDatabase
  /\ Finish("ok", 0)
  /\ UNCHANGED <<lib, queue>>

CloseIfGeneration ==
  /\ Dispatch({"closeIf"})
  /\ IF generation = exec.gen
     THEN CloseDatabase /\ Finish("ok", 0)
     ELSE UNCHANGED dbVars /\ Finish("notCurrent", 0)
  /\ UNCHANGED <<lib, queue>>

\* Mutant: a bound call is done for whatever database is open.
RequireNothing(g) == TRUE

RequireGeneration(g) == g = 0 \/ g = generation

(* A tool, or the analysis or script that was not cancelled. *)
Call ==
  /\ Dispatch({"call", "work"}) /\ ~RefusesCancelled(exec)
  /\ IF ~RequireGeneration(exec.gen) THEN Finish("replaced", 0)
     ELSE \E tag \in {"error"} \cup {t \in {"ok"} : idb # NoPath} : Finish(tag, 0)
  /\ UNCHANGED <<lib, dbVars, queue>>

\* Mutant: the receiving half of the queue outlives the loop.
StopKeepsQueue ==
  /\ loop = "dispatch" /\ exec.kind = "shutdown"
  /\ loop' = "stopped" /\ exec' = NoRequest
  /\ idb' = NoPath /\ generation' = 0
  /\ UNCHANGED <<lib, nextGeneration, queue, clientVars>>

(* Shutdown: the database is closed, the loop ends and drops its queue, so *)
(* that everyone who waits gets WorkerClosed.                              *)
Stop ==
  /\ loop = "dispatch" /\ exec.kind = "shutdown"
  /\ loop' = "stopped" /\ exec' = NoRequest
  /\ idb' = NoPath /\ generation' = 0 /\ queue' = <<>>
  /\ LET waiting == {c \in Client : InQueue(c) # {}}
     IN /\ phase' = [c \in Client |-> IF c \in waiting THEN "answered" ELSE phase[c]]
        /\ answer' = [c \in Client |-> IF c \in waiting THEN Answer("closed", 0) ELSE answer[c]]
  /\ UNCHANGED <<lib, nextGeneration, pending, lifetime>>

LoopStep ==
  \/ Recv \/ InitLibrary \/ InitFails \/ RejectMismatch
  \/ CancelledFirst \/ OpenAgain \/ OpenFails \/ OpenSucceeds
  \/ Close \/ CloseIfGeneration \/ Call \/ Stop

ClientStep(c) ==
  \/ Send(c) \/ SendControl(c) \/ RetrySend(c) \/ RetryFails(c)
  \/ Receive(c) \/ Cancel(c) \/ Abandon(c) \/ Discard(c)

Next == LoopStep \/ \E c \in Client : ClientStep(c)

Spec == Init /\ [][Next]_vars

(* The IDA thread goes on as long as it has something to do: every call    *)
(* into IDA returns.                                                       *)
FairSpec == Spec /\ WF_vars(LoopStep)

-----------------------------------------------------------------------------
(* The variables hold what the code declares. *)
TypeOK ==
  /\ lib \in {"deferred", "ready", "mismatch"}
  /\ loop \in {"recv", "init", "dispatch", "stopped"}
  /\ exec \in Requests
  /\ idb \in Path \cup {NoPath}
  /\ generation \in Generation /\ nextGeneration \in Generation
  /\ queue \in Seq(Requests) /\ Len(queue) =< QueueCapacity
  /\ phase \in [Client -> {"idle", "retry", "wait", "answered"}]
  /\ pending \in [Client -> Requests]
  /\ answer \in [Client -> [tag : Tags, gen : Generation]]
  /\ lifetime \in [Client -> Generation]

(***************************************************************************)
(* What makes the properties below inductive.  The thread has a request    *)
(* only while it works on one.  A client waits if and only if a request    *)
(* with its channel is queued or being done, and there is no second one.   *)
(* An open with a live token has somebody who waits, a shutdown nobody,    *)
(* and a bound request names the lifetime that its client knows.  A        *)
(* generation is set exactly while a database is open.                     *)
(***************************************************************************)
RequestSound(r) ==
  /\ r.kind = "open" =>
       r.path \in Path /\ (r.token = "cancelled" \/ (r.token = "live" /\ r.client \in Client))
  /\ r.kind = "shutdown" => r.client = NoClient
  /\ r.gen # 0 => r.kind \in {"call", "closeIf"}
  /\ r.client \in Client /\ r.gen # 0 => r.gen = lifetime[r.client]

PendingSound(c) ==
  phase[c] = "retry" =>
    /\ pending[c].kind \in Control
    /\ pending[c].gen # 0 => pending[c].kind = "closeIf" /\ pending[c].gen = lifetime[c]
    /\ pending[c].client = IF pending[c].kind = "shutdown" THEN NoClient ELSE c

LoopInv ==
  /\ TypeOK
  /\ loop \in {"recv", "stopped"} => exec = NoRequest
  /\ RequestSound(exec)
  /\ \A i \in 1..Len(queue) :
       /\ RequestSound(queue[i])
       /\ queue[i].client \in Client => queue[i].client # exec.client
       /\ \A j \in 1..Len(queue) :
            queue[i].client \in Client /\ queue[i].client = queue[j].client => i = j
  /\ \A c \in Client :
       /\ phase[c] = "wait" <=> exec.client = c \/ \E i \in 1..Len(queue) : queue[i].client = c
       /\ PendingSound(c)
  /\ idb = NoPath <=> generation = 0

(* A client that waits has exactly one request, in the queue or at the IDA *)
(* thread, and one that does not wait has none: no answer is lost, none    *)
(* comes twice, and a late one never reaches a later request.              *)
OneRequestPerWait ==
  \A c \in Client :
    Cardinality(InQueue(c)) + (IF exec.client = c THEN 1 ELSE 0)
      = IF phase[c] = "wait" THEN 1 ELSE 0

(* A database is opened only while somebody waits for it: an open whose    *)
(* caller gave up before its turn leaves no database behind that nobody    *)
(* knows of.                                                               *)
NobodyOpensForTheDead ==
  [][idb = NoPath /\ idb' # NoPath => exec.client \in Client]_vars

(* A call bound to the lifetime that its client opened succeeds only if    *)
(* that lifetime is still the current one, however long it was queued      *)
(* (require_generation).                                                   *)
BoundCallOnItsLifetime ==
  [][\A c \in Client :
       exec.client = c /\ exec.gen # 0 /\ answer'[c].tag = "ok" /\ answer[c].tag # "ok"
         => lifetime[c] = generation /\ idb # NoPath]_vars

(* Databases follow DatabaseLifetime: no lifetime comes back after its     *)
(* end, whichever opens, closes and conditional closes were queued.        *)
Lifetimes == INSTANCE DatabaseLifetime
  WITH database <- idb, lifetime <- generation, last <- nextGeneration
ImplementsLifetimes == Lifetimes!Spec

(* Every client that waits gets an answer, also when IDA cannot be         *)
(* initialised, when its version is wrong and when the loop ends.          *)
Answered == \A c \in Client : phase[c] = "wait" ~> phase[c] # "wait"

(* A shutdown that was sent ends the loop ("always honour shutdown").      *)
ShutdownEndsLoop ==
  (\E i \in 1..Len(queue) : queue[i].kind = "shutdown") ~> loop = "stopped"
=============================================================================
