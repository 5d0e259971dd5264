---------------------------- MODULE DaemonProofs ----------------------------
(***************************************************************************)
(* Proofs about Daemon, for any number of routers, connections, targets    *)
(* and requests: which daemon has the public files, who is responsible for *)
(* a worker process, which database it may have open, and when the daemon  *)
(* throws changes away.                                                    *)
(***************************************************************************)
EXTENDS Daemon, TLAPS

\* The steps of handle_target_load under the load lock.
Loading == LoadPC \ {"load_lock"}
Effects == {"read", "write", "unknown"}
MainPC == Starting \cup Leaving \cup {"off", "serve", "gone"}
ConnPC == {"idle"} \cup LoadPC \cup OpPC \cup StopPC \cup ShutdownPC

QueueItem == [c : Conn \cup {None}, op : Effects \cup {"load", "shutdown", "exit"}]
Handler == [pc : ConnPC, r : Router \cup {None}, w : Worker \cup {None},
            q : LoadRequest \cup {None}, op : Effects \cup {"none"}, todo : SUBSET Worker]
Process == [st : {"none", "boot", "run", "gone"}, q : LoadRequest \cup {None},
            loaded : BOOLEAN, queue : Seq(QueueItem), exit : {"no", "due", "sent"},
            unsaved : BOOLEAN]

TypeInv ==
    /\ main \in [Router -> MainPC]
    /\ targets \in [Router -> SUBSET Id]
    /\ nextId \in [Router -> Nat \ {0}]
    /\ conn \in [Conn -> Handler]
    /\ worker \in [Worker -> Process]

\* The workers a handler refers to.
Refs(c) == ({conn[c].w} \ {None}) \cup conn[c].todo

\* What pc says about the other fields of a handler: whose request it is, and
\* that it refers to workers of its own router which were started before.
ConnSound(c) ==
    /\ conn[c].pc # "idle" => conn[c].r \in Router /\ main[conn[c].r] # "off"
    /\ conn[c].w # None <=> conn[c].pc \in Loading \cup OpPC \cup StopPC
    /\ conn[c].pc \notin StopPC => conn[c].todo = {}
    /\ conn[c].pc \in OpPC => conn[c].op \in Effects
    /\ \A w \in Refs(c) : RouterOf(w) = conn[c].r /\ IdOf(w) < nextId[RouterOf(w)]

\* A worker that is being loaded belongs to its handler alone: it is no target
\* yet, no other handler knows it, nobody else has the load lock, it has no
\* changes, and its database is not that of any target.
LoadSound(c) ==
    conn[c].pc \in Loading =>
      /\ ~ worker[conn[c].w].unsaved
      /\ \A d \in Conn \ {c} : conn[c].w \notin Refs(d)
      /\ \A d \in Conn \ {c} : conn[d].r = conn[c].r => conn[d].pc \notin Loading
      /\ \A i \in targets[conn[c].r] :
           i # IdOf(conn[c].w) /\ worker[<<conn[c].r, i>>].q.db # worker[conn[c].w].q.db

\* Targets were started before, and no two of them have the same database.
TargetsSound ==
    \A r \in Router :
      /\ \A i \in targets[r] : i < nextId[r]
      /\ \A i, j \in targets[r] : worker[<<r, i>>].q.db = worker[<<r, j>>].q.db => i = j

\* Where a handler waits for the answer to an operation.
WaitAt(op) == IF op = "load" THEN "load_wait"
              ELSE IF op = "shutdown" THEN "stop_wait" ELSE "op_wait"

\* A queued request has a handler that waits for it at this worker, unless the
\* handler gave up, and no handler waits for two answers.
Matches(queue, w, handlers) ==
    /\ \A k \in DOMAIN queue : queue[k].c # None =>
         /\ handlers[queue[k].c].w = w /\ handlers[queue[k].c].pc = WaitAt(queue[k].op)
         /\ queue[k].op # "exit"
    /\ \A k, l \in DOMAIN queue : queue[k].c # None /\ queue[k].c = queue[l].c => k = l

WorkerSound(w) ==
    /\ ~Alive(w) => worker[w].queue = <<>>
    /\ Alive(w) => main[RouterOf(w)] # "off"
    /\ Matches(worker[w].queue, w, conn)

\* The inductive invariant of daemon mode.
Handlers == (\A c \in Conn : ConnSound(c) /\ LoadSound(c)) /\ TargetsSound
Workers == \A w \in Worker : WorkerSound(w)
DaemonInv == TypeInv /\ Handlers /\ Workers

-----------------------------------------------------------------------------
(* Frames: at most one handler moves, at most one worker changes.          *)

Aside(c) == \A d \in Conn \ {c} : conn'[d] = conn[d]

\* The handler goes on: it keeps its request and its workers.
Stays(c) ==
    /\ conn'[c].r = conn[c].r /\ conn'[c].w = conn[c].w
    /\ conn'[c].op = conn[c].op /\ conn'[c].todo = conn[c].todo
    /\ \/ conn[c].pc \in Loading /\ conn'[c].pc \in Loading
       \/ conn[c].pc \in OpPC /\ conn'[c].pc \in OpPC
       \/ conn[c].pc \in StopPC /\ conn'[c].pc \in StopPC
       \/ conn[c].pc \in ShutdownPC /\ conn'[c].pc \in ShutdownPC

\* What ConnGoto does.
LEMMA GotoFacts ==
    ASSUME TypeInv, NEW c \in Conn, NEW label \in ConnPC, ConnGoto(c, label)
    PROVE  /\ Aside(c) /\ conn' \in [Conn -> Handler]
           /\ conn'[c].pc = label /\ conn'[c].r = conn[c].r /\ conn'[c].w = conn[c].w
           /\ conn'[c].op = conn[c].op /\ conn'[c].todo = conn[c].todo
           /\ conn'[c].q = conn[c].q
BY Zenon DEF TypeInv, ConnGoto, Handler, Aside

\* What Finish does.
LEMMA FinishFacts ==
    ASSUME TypeInv, NEW c \in Conn, Finish(c)
    PROVE  /\ Aside(c) /\ conn' \in [Conn -> Handler]
           /\ conn'[c] = IdleConn
BY Zenon DEF TypeInv, Finish, Handler, Aside, IdleConn, ConnPC

\* Nobody works for an idle connection.
LEMMA IdleFacts ==
    ASSUME NEW c \in Conn, conn'[c] = IdleConn
    PROVE  /\ conn'[c].pc = "idle" /\ conn'[c].w = None /\ conn'[c].todo = {}
           /\ Refs(c)' = {} /\ ConnSound(c)' /\ LoadSound(c)'
BY DEF IdleConn, Refs, ConnSound, LoadSound, Loading, LoadPC, OpPC, StopPC

\* A target of its router.
Listed(w) == IdOf(w) \in targets[RouterOf(w)]

\* What a step may do without touching a load: no load begins, no handler
\* comes to know a worker that is no target, no target appears, and changes
\* appear only where an analysis request was answered.
SameLoads ==
    \A d \in Conn : conn'[d].pc \in Loading =>
      conn[d].pc \in Loading /\ conn'[d].w = conn[d].w /\ conn'[d].r = conn[d].r
KnownRefs == \A d \in Conn : \A w \in Refs(d)' : w \in Refs(d) \/ Listed(w)
FewerTargets == \A r \in Router : targets'[r] \subseteq targets[r]
SameRequests == \A w \in Worker : worker'[w].q = worker[w].q
ChangesAreAnswers ==
    \A w \in Worker : worker'[w].unsaved =>
      worker[w].unsaved \/ \E d \in Conn : conn[d].w = w /\ conn[d].pc = "op_wait"

\* The types of a handler's fields.
LEMMA HandlerTypes ==
    ASSUME TypeInv, NEW c \in Conn
    PROVE  /\ conn[c].pc \in ConnPC /\ conn[c].r \in Router \cup {None}
           /\ conn[c].w \in Worker \cup {None} /\ conn[c].todo \subseteq Worker
           /\ conn[c].q \in LoadRequest \cup {None}
           /\ Refs(c) \subseteq Worker
BY Zenon DEF TypeInv, Handler, Refs

\* A handler that loads, uses or stops a worker has one, of its own router.
LEMMA AtWorker ==
    ASSUME TypeInv, Handlers, NEW c \in Conn, conn[c].pc \in Loading \cup OpPC \cup StopPC
    PROVE  /\ conn[c].r \in Router /\ conn[c].w \in Worker /\ conn[c].w \in Refs(c)
           /\ RouterOf(conn[c].w) = conn[c].r
           /\ conn[c].w = <<conn[c].r, IdOf(conn[c].w)>>
           /\ IdOf(conn[c].w) < nextId[conn[c].r]
<1>1. conn[c].w \in Worker /\ conn[c].w \in Refs(c) /\ conn[c].w # None
  BY Zenon, HandlerTypes DEF Handlers, ConnSound, Refs
<1>2. conn[c].pc # "idle"
  BY Zenon DEF Loading, LoadPC, OpPC, StopPC
<1>3. /\ conn[c].r \in Router /\ RouterOf(conn[c].w) = conn[c].r
      /\ IdOf(conn[c].w) < nextId[conn[c].r]
  BY Zenon, <1>1, <1>2 DEF Handlers, ConnSound
<1>4. conn[c].w = <<conn[c].r, IdOf(conn[c].w)>>
  BY <1>1, <1>3 DEF Worker, RouterOf, IdOf
<1>. QED BY Zenon, <1>1, <1>3, <1>4

\* Such a step keeps every load sound.
LEMMA LoadsKept ==
    ASSUME TypeInv, Handlers, SameLoads, KnownRefs, SameRequests, ChangesAreAnswers,
           NEW c \in Conn, conn[c].r \in Router => targets'[conn[c].r] \subseteq targets[conn[c].r]
    PROVE  LoadSound(c)'
<1>. SUFFICES ASSUME conn'[c].pc \in Loading
              PROVE  /\ ~ worker'[conn'[c].w].unsaved
                     /\ \A d \in Conn \ {c} : conn'[c].w \notin Refs(d)'
                     /\ \A d \in Conn \ {c} :
                          conn'[d].r = conn'[c].r => conn'[d].pc \notin Loading
                     /\ \A i \in targets'[conn'[c].r] :
                          /\ i # IdOf(conn'[c].w)
                          /\ worker'[<<conn'[c].r, i>>].q.db # worker'[conn'[c].w].q.db
  BY Zenon DEF LoadSound
<1>1. conn[c].pc \in Loading /\ conn'[c].w = conn[c].w /\ conn'[c].r = conn[c].r
  BY Zenon DEF SameLoads
<1>. DEFINE w == conn[c].w
            r == conn[c].r
<1>2. r \in Router /\ w \in Worker /\ w \in Refs(c) /\ RouterOf(w) = r
      /\ w = <<r, IdOf(w)>>
  BY Zenon, <1>1, AtWorker
<1>3. /\ ~ worker[w].unsaved
      /\ \A d \in Conn \ {c} : w \notin Refs(d)
      /\ \A d \in Conn \ {c} : conn[d].r = r => conn[d].pc \notin Loading
      /\ \A i \in targets[r] : i # IdOf(w) /\ worker[<<r, i>>].q.db # worker[w].q.db
  BY Zenon, <1>1 DEF Handlers, LoadSound
<1>4. ~ Listed(w)
  BY Zenon, <1>2, <1>3 DEF Listed
<1>5. ~ worker'[w].unsaved
  <2>1. ASSUME NEW d \in Conn, conn[d].w = w, conn[d].pc = "op_wait" PROVE FALSE
    <3>1. d # c
      BY Zenon, <1>1, <2>1 DEF Loading, LoadPC
    <3>2. w \in Refs(d)
      BY Zenon, <2>1, <1>2, DaemonAssumption DEF Refs
    <3>. QED BY Zenon, <3>1, <3>2, <1>3
  <2>. QED BY Zenon, <2>1, <1>2, <1>3 DEF ChangesAreAnswers
<1>6. ASSUME NEW d \in Conn \ {c}
      PROVE  w \notin Refs(d)' /\ (conn'[d].r = r => conn'[d].pc \notin Loading)
  <2>1. w \notin Refs(d)'
    BY Zenon, <1>3, <1>4 DEF KnownRefs
  <2>2. conn'[d].r = r => conn'[d].pc \notin Loading
    BY Zenon, <1>3 DEF SameLoads
  <2>. QED BY Zenon, <2>1, <2>2
<1>7. ASSUME NEW i \in targets'[r]
      PROVE  i # IdOf(w) /\ worker'[<<r, i>>].q.db # worker'[w].q.db
  <2>1. i \in targets[r] /\ i \in Id /\ <<r, i>> \in Worker
    BY Zenon, <1>2 DEF TypeInv, Worker
  <2>2. worker'[<<r, i>>].q = worker[<<r, i>>].q /\ worker'[w].q = worker[w].q
    BY Zenon, <2>1, <1>2 DEF SameRequests
  <2>. QED BY Zenon, <2>1, <2>2, <1>3
<1>. QED BY Zenon, <1>1, <1>5, <1>6, <1>7

\* Such a step keeps the targets sound.
LEMMA TargetsKept ==
    ASSUME TypeInv, TargetsSound, FewerTargets, SameRequests, nextId' = nextId
    PROVE  TargetsSound'
<1>. SUFFICES ASSUME NEW r \in Router
              PROVE  /\ \A i \in targets'[r] : i < nextId'[r]
                     /\ \A i, j \in targets'[r] :
                          worker'[<<r, i>>].q.db = worker'[<<r, j>>].q.db => i = j
  BY Zenon DEF TargetsSound
<1>1. \A i \in targets'[r] : i < nextId'[r]
  BY Zenon DEF TargetsSound, FewerTargets
<1>2. ASSUME NEW i \in targets'[r], NEW j \in targets'[r],
             worker'[<<r, i>>].q.db = worker'[<<r, j>>].q.db
      PROVE  i = j
  <2>1. i \in targets[r] /\ j \in targets[r] /\ <<r, i>> \in Worker /\ <<r, j>> \in Worker
    BY Zenon DEF FewerTargets, TypeInv, Worker
  <2>2. worker[<<r, i>>].q.db = worker[<<r, j>>].q.db
    BY Zenon, <2>1, <1>2 DEF SameRequests
  <2>. QED BY Zenon, <2>1, <2>2 DEF TargetsSound
<1>. QED BY Zenon, <1>1, <1>2

\* A handler that does not move stays sound.
LEMMA OthersSound ==
    ASSUME TypeInv, Handlers, NEW d \in Conn, conn'[d] = conn[d],
           \A r \in Router : main[r] # "off" => main'[r] # "off",
           \A r \in Router : nextId[r] \in Nat /\ nextId'[r] \in Nat /\ nextId[r] <= nextId'[r]
    PROVE  ConnSound(d)' /\ Refs(d)' = Refs(d)
<1>1. Refs(d)' = Refs(d)
  BY Zenon DEF Refs
<1>2. \A w \in Refs(d) : RouterOf(w) \in Router /\ IdOf(w) \in Nat
  BY HandlerTypes DEF Worker, Id, RouterOf, IdOf
<1>3. \A w \in Refs(d)' : RouterOf(w) = conn'[d].r /\ IdOf(w) < nextId'[RouterOf(w)]
  BY <1>1, <1>2 DEF Handlers, ConnSound
<1>. QED BY Zenon, <1>1, <1>3 DEF Handlers, ConnSound

-----------------------------------------------------------------------------
(* The queue of a worker.                                                  *)

Waiting == {"load_wait", "op_wait", "stop_wait"}
\* Nothing in the queue is answered to c.
Absent(c, queue) == \A k \in DOMAIN queue : queue[k].c # c

\* An empty queue keeps nobody waiting.
LEMMA QueueEmpty ==
    ASSUME NEW w, NEW handlers
    PROVE  Matches(<<>>, w, handlers) /\ <<>> \in Seq(QueueItem)
BY DEF Matches

\* A handler that has nothing in a queue may move.
LEMMA QueueKept ==
    ASSUME NEW Q \in Seq(QueueItem), NEW w, NEW before, NEW after, NEW c,
           Matches(Q, w, before), Absent(c, Q), \A d \in Conn \ {c} : after[d] = before[d]
    PROVE  Matches(Q, w, after)
<1>1. \A k \in DOMAIN Q : Q[k].c \in Conn \cup {None}
  <2>1. \A k \in DOMAIN Q : Q[k] \in QueueItem
    OBVIOUS
  <2>. QED BY Zenon, <2>1 DEF QueueItem
<1>2. \A k \in DOMAIN Q : Q[k].c # None => after[Q[k].c] = before[Q[k].c]
  BY Zenon, <1>1 DEF Absent
<1>. QED BY Zenon, <1>2 DEF Matches

\* A request joins the queue when its handler waits and had nothing there.
LEMMA QueueAppend ==
    ASSUME NEW Q \in Seq(QueueItem), NEW w, NEW handlers, NEW item \in QueueItem,
           Matches(Q, w, handlers),
           item.c # None => /\ handlers[item.c].w = w
                            /\ handlers[item.c].pc = WaitAt(item.op)
                            /\ item.op # "exit"
                            /\ Absent(item.c, Q)
    PROVE  Matches(Append(Q, item), w, handlers) /\ Append(Q, item) \in Seq(QueueItem)
<1>. DEFINE R == Append(Q, item)
<1>1. /\ R \in Seq(QueueItem) /\ DOMAIN R = 1 .. Len(Q) + 1 /\ DOMAIN Q = 1 .. Len(Q)
      /\ Len(Q) \in Nat /\ R[Len(Q) + 1] = item
      /\ \A k \in 1 .. Len(Q) : R[k] = Q[k]
  OBVIOUS
<1>. HIDE DEF R
<1>2. \A k \in DOMAIN R : \/ k \in DOMAIN Q /\ R[k] = Q[k]
                          \/ k = Len(Q) + 1 /\ R[k] = item
  BY <1>1
<1>3. \A k \in DOMAIN R : R[k].c # None =>
         /\ handlers[R[k].c].w = w /\ handlers[R[k].c].pc = WaitAt(R[k].op)
         /\ R[k].op # "exit"
  BY Zenon, <1>2 DEF Matches
<1>4. \A k, l \in DOMAIN R : R[k].c # None /\ R[k].c = R[l].c => k = l
  BY <1>1, <1>2 DEF Matches, Absent
<1>. QED BY Zenon, <1>1, <1>3, <1>4 DEF Matches, R

\* The head is taken out, and its handler has nothing left in the queue.
LEMMA QueueTail ==
    ASSUME NEW Q \in Seq(QueueItem), NEW w, NEW handlers, Matches(Q, w, handlers), Q # <<>>
    PROVE  /\ Matches(Tail(Q), w, handlers) /\ Tail(Q) \in Seq(QueueItem)
           /\ Head(Q) = Q[1] /\ 1 \in DOMAIN Q /\ Head(Q) \in QueueItem
           /\ Head(Q).c # None => Absent(Head(Q).c, Tail(Q))
<1>. DEFINE R == Tail(Q)
<1>1. /\ R \in Seq(QueueItem) /\ DOMAIN R = 1 .. Len(Q) - 1 /\ DOMAIN Q = 1 .. Len(Q)
      /\ Len(Q) \in Nat \ {0} /\ Head(Q) = Q[1]
      /\ \A k \in 1 .. Len(Q) - 1 : R[k] = Q[k + 1]
  OBVIOUS
<1>. HIDE DEF R
<1>2. \A k \in DOMAIN R : k + 1 \in DOMAIN Q /\ k + 1 # 1 /\ R[k] = Q[k + 1] /\ k \in Nat
  BY <1>1
<1>3. \A k \in DOMAIN R : R[k].c # None =>
         /\ handlers[R[k].c].w = w /\ handlers[R[k].c].pc = WaitAt(R[k].op)
         /\ R[k].op # "exit"
  BY <1>2 DEF Matches
<1>4. \A k, l \in DOMAIN R : R[k].c # None /\ R[k].c = R[l].c => k = l
  <2>1. TAKE k, l \in DOMAIN R
  <2>2. HAVE R[k].c # None /\ R[k].c = R[l].c
  <2>3. k + 1 = l + 1
    BY <1>2, <2>2 DEF Matches
  <2>. QED BY <2>3, <1>2
<1>5. 1 \in DOMAIN Q /\ Q[1] \in QueueItem
  BY <1>1
<1>6. Q[1].c # None => Absent(Q[1].c, R)
  BY Zenon, <1>2, <1>5 DEF Matches, Absent
<1>. QED BY Zenon, <1>1, <1>3, <1>4, <1>5, <1>6 DEF Matches, R

\* Handlers that give up leave their requests to nobody.
LEMMA QueueOrphaned ==
    ASSUME NEW Q \in Seq(QueueItem), NEW w, NEW handlers, NEW S \in SUBSET Conn,
           Matches(Q, w, handlers)
    PROVE  /\ Matches(Orphaned(Q, S), w, handlers) /\ Orphaned(Q, S) \in Seq(QueueItem)
           /\ \A c \in S : Absent(c, Orphaned(Q, S))
<1>. DEFINE R == Orphaned(Q, S)
<1>1. DOMAIN R = DOMAIN Q /\ DOMAIN Q = 1 .. Len(Q) /\ Len(Q) \in Nat
  BY DEF Orphaned
<1>2. \A k \in DOMAIN Q :
        /\ Q[k] \in QueueItem /\ R[k] \in QueueItem /\ R[k].op = Q[k].op
        /\ R[k].c = IF Q[k].c \in S THEN None ELSE Q[k].c
  <2>1. \A k \in DOMAIN Q : Q[k] \in QueueItem
    OBVIOUS
  <2>. QED BY Zenon, <2>1 DEF Orphaned, QueueItem
<1>3. R \in Seq(QueueItem)
  BY <1>1, <1>2 DEF Orphaned
<1>. HIDE DEF R
<1>4. \A k \in DOMAIN R : R[k].c # None => R[k].c = Q[k].c /\ R[k].op = Q[k].op
  BY Zenon, <1>1, <1>2
<1>5. Matches(R, w, handlers)
  BY Zenon, <1>1, <1>4 DEF Matches
<1>6. \A c \in S : Absent(c, R)
  BY Zenon, <1>1, <1>2, DaemonAssumption DEF Absent
<1>. QED BY Zenon, <1>3, <1>5, <1>6 DEF R

\* A handler that waits for nothing, or for another worker, is in no queue.
LEMMA NotQueued ==
    ASSUME NEW w, WorkerSound(w), NEW c \in Conn, conn[c].pc \notin Waiting \/ conn[c].w # w
    PROVE  Absent(c, worker[w].queue)
BY Zenon, DaemonAssumption DEF WorkerSound, Matches, WaitAt, Waiting, Absent

-----------------------------------------------------------------------------
(* What a handler does to workers.                                         *)

MainKept == \A r \in Router : main[r] # "off" => main'[r] # "off"
\* No worker starts, no changes appear, no worker gets another database.
Tame == \A v \in Worker : /\ worker'[v].q = worker[v].q
                          /\ worker'[v].unsaved => worker[v].unsaved
                          /\ Alive(v)' => Alive(v)

\* The types of a worker's fields.
LEMMA WorkerTypes ==
    ASSUME TypeInv, NEW w \in Worker
    PROVE  /\ worker[w] \in Process /\ worker[w].queue \in Seq(QueueItem)
           /\ RouterOf(w) \in Router /\ IdOf(w) \in Id /\ w = <<RouterOf(w), IdOf(w)>>
<1>1. worker[w] \in Process
  BY Zenon DEF TypeInv
<1>2. worker[w].queue \in Seq(QueueItem)
  BY Zenon, <1>1 DEF Process
<1>3. RouterOf(w) \in Router /\ IdOf(w) \in Id /\ w = <<RouterOf(w), IdOf(w)>>
  BY DEF Worker, RouterOf, IdOf
<1>. QED BY Zenon, <1>1, <1>2, <1>3

\* A handler that is in no queue moves, and at most worker w changes.
LEMMA WorkersStep ==
    ASSUME TypeInv, Workers, MainKept, NEW c \in Conn, Aside(c), NEW w \in Worker,
           \A v \in Worker \ {w} : worker'[v] = worker[v] /\ Absent(c, worker[v].queue),
           WorkerSound(w)'
    PROVE  Workers'
<1>. SUFFICES ASSUME NEW v \in Worker \ {w} PROVE WorkerSound(v)'
  BY Zenon DEF Workers
<1>1. worker'[v] = worker[v] /\ worker[v].queue \in Seq(QueueItem) /\ RouterOf(v) \in Router
  BY Zenon, WorkerTypes
<1>2. Matches(worker[v].queue, v, conn) /\ Absent(c, worker[v].queue)
  BY Zenon DEF Workers, WorkerSound
<1>3. Matches(worker'[v].queue, v, conn')
  BY Zenon, <1>1, <1>2, QueueKept DEF Aside
<1>. QED BY Zenon, <1>1, <1>3 DEF Workers, WorkerSound, Alive, MainKept

\* A handler that is in no queue moves, and no worker changes.
LEMMA WorkersStill ==
    ASSUME TypeInv, Workers, MainKept, NEW c \in Conn, Aside(c), worker' = worker,
           \A v \in Worker : Absent(c, worker[v].queue)
    PROVE  Workers' /\ Tame /\ worker' \in [Worker -> Process]
<1>1. ASSUME NEW v \in Worker PROVE WorkerSound(v)'
  <2>1. worker'[v] = worker[v] /\ worker[v].queue \in Seq(QueueItem) /\ RouterOf(v) \in Router
    BY Zenon, WorkerTypes
  <2>2. Matches(worker[v].queue, v, conn) /\ Absent(c, worker[v].queue)
    BY Zenon DEF Workers, WorkerSound
  <2>3. Matches(worker'[v].queue, v, conn')
    BY Zenon, <2>1, <2>2, QueueKept DEF Aside
  <2>. QED BY Zenon, <2>1, <2>3 DEF Workers, WorkerSound, Alive, MainKept
<1>2. Tame
  BY Zenon DEF Tame, Alive
<1>. QED BY Zenon, <1>1, <1>2 DEF Workers, TypeInv

\* Only one worker gets another queue, and nothing else.
LEMMA QueueFacts ==
    ASSUME TypeInv, NEW w \in Worker, NEW Q \in Seq(QueueItem),
           worker' = [worker EXCEPT ![w].queue = Q]
    PROVE  /\ worker' \in [Worker -> Process] /\ Tame
           /\ worker'[w].queue = Q /\ worker'[w].st = worker[w].st
           /\ \A v \in Worker \ {w} : worker'[v] = worker[v]
<1>1. worker[w] \in Process /\ worker'[w] = [worker[w] EXCEPT !.queue = Q]
      /\ \A v \in Worker \ {w} : worker'[v] = worker[v]
  BY Zenon DEF TypeInv
<1>2. /\ worker'[w] \in Process /\ worker'[w].queue = Q /\ worker'[w].st = worker[w].st
      /\ worker'[w].q = worker[w].q /\ worker'[w].unsaved = worker[w].unsaved
  BY <1>1 DEF Process
<1>3. worker' \in [Worker -> Process]
  BY Zenon, <1>1, <1>2 DEF TypeInv
<1>4. Tame
  BY Zenon, <1>1, <1>2 DEF Tame, Alive
<1>. QED BY Zenon, <1>1, <1>2, <1>3, <1>4

\* forward_to_worker: the handler waits, or it fails.
LEMMA ForwardFacts ==
    ASSUME DaemonInv, main' = main, NEW c \in Conn,
           conn[c].pc \notin Waiting, conn[c].w \in Worker,
           NEW op \in Effects \cup {"load", "shutdown"}, NEW failed \in ConnPC,
           Forward(c, op, WaitAt(op), failed)
    PROVE  /\ Aside(c) /\ conn' \in [Conn -> Handler] /\ worker' \in [Worker -> Process]
           /\ \/ conn'[c] = IdleConn /\ failed = "idle"
              \/ /\ conn'[c].pc \in {WaitAt(op), failed} \ {"idle"}
                 /\ conn'[c].r = conn[c].r
                 /\ conn'[c].w = conn[c].w /\ conn'[c].op = conn[c].op
                 /\ conn'[c].todo = conn[c].todo
           /\ Workers' /\ Tame
<1>. PICK w \in Worker : w = conn[c].w
  BY Zenon
<1>. DEFINE item == Item(c, op)
<1>. TypeInv /\ Workers /\ MainKept
  BY Zenon DEF DaemonInv, MainKept
<1>1. \A v \in Worker : Absent(c, worker[v].queue)
  BY Zenon, NotQueued DEF Workers
<1>2. CASE Enqueue(w, item) /\ ConnGoto(c, WaitAt(op)) /\ Reachable(w)
  <2>1. /\ Aside(c) /\ conn' \in [Conn -> Handler]
        /\ conn'[c].pc = WaitAt(op) /\ conn'[c].pc # "idle"
        /\ conn'[c].r = conn[c].r /\ conn'[c].w = w
        /\ conn'[c].op = conn[c].op /\ conn'[c].todo = conn[c].todo
    <3>1. WaitAt(op) \in ConnPC /\ WaitAt(op) # "idle"
      BY Zenon DEF WaitAt, ConnPC, LoadPC, OpPC, StopPC
    <3>. QED BY Zenon, <3>1, <1>2, GotoFacts
  <2>2. /\ item \in QueueItem /\ item.c = c /\ item.op = op /\ c # None
        /\ op # "exit"
    BY Zenon, DaemonAssumption DEF Item, QueueItem, Effects
  <2>3. worker[w].queue \in Seq(QueueItem) /\ Matches(worker[w].queue, w, conn)
    BY Zenon, WorkerTypes DEF Workers, WorkerSound
  <2>4. Matches(worker[w].queue, w, conn')
    BY Zenon, <1>1, <2>1, <2>3, QueueKept DEF Aside
  <2>. DEFINE Q == Append(worker[w].queue, item)
  <2>5. Matches(Q, w, conn') /\ Q \in Seq(QueueItem)
    BY Zenon, <1>1, <2>1, <2>2, <2>3, <2>4, QueueAppend
  <2>6. worker' = [worker EXCEPT ![w].queue = Q]
    BY Zenon, <1>2 DEF Enqueue, TypeInv
  <2>. HIDE DEF Q
  <2>7. /\ worker' \in [Worker -> Process] /\ Tame
        /\ worker'[w].queue = Q /\ worker'[w].st = worker[w].st
        /\ \A v \in Worker \ {w} : worker'[v] = worker[v]
    BY Zenon, <2>5, <2>6, QueueFacts
  <2>8. /\ Alive(w) /\ Alive(w)' /\ main'[RouterOf(w)] # "off"
        /\ Matches(worker'[w].queue, w, conn')
    BY Zenon, <1>2, <2>5, <2>7 DEF Reachable, Alive, Workers, WorkerSound
  <2>9. WorkerSound(w)'
    BY Zenon, <2>8 DEF WorkerSound
  <2>. QED BY Zenon, <1>1, <2>1, <2>7, <2>9, WorkersStep
<1>3. CASE worker' = worker /\ Finish(c) /\ failed = "idle"
  BY Zenon, <1>1, <1>3, FinishFacts, WorkersStill
<1>4. CASE worker' = worker /\ ConnGoto(c, failed) /\ failed # "idle"
  BY Zenon, <1>1, <1>4, GotoFacts, WorkersStill
<1>. QED BY Zenon, <1>2, <1>3, <1>4 DEF Forward

\* A worker that ends is gone with its queue.
LEMMA EndedFacts ==
    ASSUME TypeInv, NEW w \in Worker, worker' = Ended(w)
    PROVE  /\ worker' \in [Worker -> Process] /\ Tame
           /\ \A v \in Worker \ {w} : worker'[v] = worker[v]
           /\ worker'[w].st = "gone" /\ worker'[w].queue = <<>>
<1>1. /\ worker[w] \in Process
      /\ worker'[w] = [worker[w] EXCEPT !.st = "gone", !.queue = <<>>, !.unsaved = FALSE]
      /\ \A v \in Worker \ {w} : worker'[v] = worker[v]
  BY Zenon DEF Ended, TypeInv
<1>2. worker'[w] \in Process
  <2>. <<>> \in Seq(QueueItem)
    OBVIOUS
  <2>. QED BY Zenon, <1>1 DEF Process
<1>3. /\ worker'[w].queue = <<>> /\ worker'[w].st = "gone"
      /\ worker'[w].q = worker[w].q /\ ~worker'[w].unsaved
  BY Zenon, <1>1 DEF Process
<1>4. worker' \in [Worker -> Process]
  BY Zenon, <1>1, <1>2 DEF TypeInv, Ended
<1>5. Tame
  BY Zenon, <1>1, <1>3 DEF Tame, Alive
<1>. QED BY Zenon, <1>1, <1>3, <1>4, <1>5

\* A killed worker is gone with its queue.
LEMMA KillFacts ==
    ASSUME TypeInv, NEW w \in Worker, Kill(w)
    PROVE  /\ worker' \in [Worker -> Process] /\ Tame
           /\ \A v \in Worker \ {w} : worker'[v] = worker[v]
           /\ ~Alive(w)' /\ lost' \subseteq lost \cup {w}
           /\ worker'[w].queue \in {<<>>, worker[w].queue}
           /\ Alive(w) => worker'[w].queue = <<>>
           /\ ~worker[w].unsaved => lost' = lost
           /\ ~Alive(w) => lost' = lost
<1>1. CASE Alive(w)
  <2>1. worker' = Ended(w)
    BY Zenon, <1>1 DEF Kill
  <2>. QED BY Zenon, <1>1, <2>1, EndedFacts DEF Alive, Kill
<1>2. CASE ~Alive(w)
  <2>1. worker' = worker /\ lost' = lost
    BY Zenon, <1>2 DEF Kill
  <2>. QED BY Zenon, <1>2, <2>1 DEF TypeInv, Tame, Alive
<1>. QED BY Zenon, <1>1, <1>2

\* A handler that waits for nothing kills a worker and moves.
LEMMA KillWorkers ==
    ASSUME TypeInv, Workers, MainKept, NEW c \in Conn, Aside(c), conn[c].pc \notin Waiting,
           NEW w \in Worker, Kill(w)
    PROVE  Workers'
<1>1. /\ \A v \in Worker \ {w} : worker'[v] = worker[v]
      /\ ~Alive(w)' /\ worker'[w].queue \in {<<>>, worker[w].queue}
      /\ Alive(w) => worker'[w].queue = <<>>
  BY Zenon, KillFacts
<1>2. \A v \in Worker : Absent(c, worker[v].queue)
  BY Zenon, NotQueued DEF Workers
<1>3. worker'[w].queue = <<>>
  BY Zenon, <1>1 DEF Workers, WorkerSound
<1>4. WorkerSound(w)'
  BY Zenon, <1>1, <1>3, QueueEmpty DEF WorkerSound
<1>. QED BY Zenon, <1>1, <1>2, <1>4, WorkersStep

\* The timeout of forward_to_worker: nothing in a queue is answered to c any more.
LEMMA GiveUpFacts ==
    ASSUME TypeInv, Workers, MainKept, NEW c \in Conn, Aside(c), conn[c].w \in Worker, GiveUp(c)
    PROVE  worker' \in [Worker -> Process] /\ Tame /\ Workers'
<1>. PICK w \in Worker : w = conn[c].w
  BY Zenon
<1>. DEFINE Q == Orphaned(worker[w].queue, {c})
<1>1. worker[w].queue \in Seq(QueueItem) /\ Matches(worker[w].queue, w, conn)
      /\ RouterOf(w) \in Router
  BY Zenon, WorkerTypes DEF Workers, WorkerSound
<1>2. Matches(Q, w, conn) /\ Q \in Seq(QueueItem) /\ Absent(c, Q)
  BY Zenon, <1>1, QueueOrphaned
<1>3. worker' = [worker EXCEPT ![w].queue = Q] /\ Alive(w)
  BY Zenon DEF GiveUp, TypeInv
<1>. HIDE DEF Q
<1>4. /\ worker' \in [Worker -> Process] /\ Tame
      /\ worker'[w].queue = Q /\ worker'[w].st = worker[w].st
      /\ \A v \in Worker \ {w} : worker'[v] = worker[v]
  BY Zenon, <1>2, <1>3, QueueFacts
<1>5. Matches(Q, w, conn')
  BY Zenon, <1>2, QueueKept DEF Aside
<1>6. WorkerSound(w)'
  BY Zenon, <1>1, <1>3, <1>4, <1>5 DEF WorkerSound, Workers, Alive, MainKept
<1>7. \A v \in Worker \ {w} : Absent(c, worker[v].queue)
  BY Zenon, NotQueued DEF Workers
<1>. QED BY Zenon, <1>4, <1>6, <1>7, WorkersStep

\* A handler that goes on or ends, while targets stay what they are.
LEMMA HandlersStay ==
    ASSUME TypeInv, Handlers, NEW c \in Conn, Aside(c), Stays(c) \/ conn'[c] = IdleConn,
           main' = main, targets' = targets, nextId' = nextId,
           SameRequests, ChangesAreAnswers
    PROVE  Handlers'
<1>1. ASSUME NEW d \in Conn PROVE ConnSound(d)' /\ Refs(d)' \subseteq Refs(d)
  <2>1. CASE d # c
    <3>1. conn'[d] = conn[d]
      BY Zenon, <2>1 DEF Aside
    <3>2. \A r \in Router : nextId[r] \in Nat /\ nextId'[r] \in Nat /\ nextId[r] <= nextId'[r]
      BY DEF TypeInv
    <3>. QED BY Zenon, <3>1, <3>2, OthersSound
  <2>2. CASE d = c /\ conn'[c] = IdleConn
    BY Zenon, <2>2, IdleFacts
  <2>3. CASE d = c /\ Stays(c)
    <3>1. Refs(c)' = Refs(c)
      BY Zenon, <2>3 DEF Refs, Stays
    <3>2. /\ conn[c].pc # "idle" /\ conn'[c].pc # "idle"
          /\ conn[c].pc \in Loading \cup OpPC \cup StopPC
               <=> conn'[c].pc \in Loading \cup OpPC \cup StopPC
          /\ conn[c].pc \in OpPC <=> conn'[c].pc \in OpPC
          /\ conn[c].pc \in StopPC <=> conn'[c].pc \in StopPC
      BY Zenon, <2>3 DEF Stays, Loading, LoadPC, OpPC, StopPC, ShutdownPC
    <3>3. ConnSound(c)
      BY Zenon DEF Handlers
    <3>4. ConnSound(c)'
      BY Zenon, <2>3, <3>1, <3>2, <3>3 DEF Stays, ConnSound
    <3>. QED BY Zenon, <2>3, <3>1, <3>4
  <2>. QED BY Zenon, <2>1, <2>2, <2>3
<1>2. SameLoads
  BY Zenon, IdleFacts DEF SameLoads, Aside, Stays, Loading, LoadPC, OpPC, StopPC, ShutdownPC
<1>3. KnownRefs /\ FewerTargets
  BY Zenon, <1>1 DEF KnownRefs, FewerTargets
<1>4. \A d \in Conn : LoadSound(d)'
  BY Zenon, <1>2, <1>3, LoadsKept DEF FewerTargets
<1>5. TargetsSound'
  BY Zenon, <1>3, TargetsKept DEF Handlers
<1>. QED BY Zenon, <1>1, <1>4, <1>5 DEF Handlers

\* A tame step gives no worker another database and makes no changes.
LEMMA TameFacts ==
    ASSUME Tame PROVE SameRequests /\ ChangesAreAnswers
BY Zenon DEF Tame, SameRequests, ChangesAreAnswers

-----------------------------------------------------------------------------
(* What a step of a handler passes on.                                     *)

\* The handler is loading or stopping the worker.
Claims(c, w) ==
    \/ conn[c].w = w /\ conn[c].pc \in LoadPC
    \/ w \in {conn[c].w} \cup conn[c].todo /\ conn[c].pc \in StopPC

\* No worker starts without the handler, and none that lives on loses it for
\* nothing.
Hands(c) ==
    \A w \in Worker : Alive(w)' =>
      /\ Alive(w) \/ Claims(c, w)'
      /\ Claims(c, w) \/ Listed(w) => Claims(c, w)' \/ Listed(w)'

\* The handler goes on with the request it had, or it is a new one; it comes to
\* the shutdown steps through the notification only.
Leads(c) ==
    /\ conn'[c].pc # "idle" => \/ conn[c].pc # "idle" /\ conn'[c].r = conn[c].r
                               \/ conn'[c].r \in Router /\ main[conn'[c].r] = "serve"
    /\ conn'[c].pc \in ShutdownPC => conn[c].pc \in ShutdownPC \/ conn'[c].pc = "notify"

Passes(c) == Aside(c) /\ Leads(c) /\ Hands(c)

\* Only a handler that loads or stops a worker claims one.
LEMMA ClaimFacts ==
    ASSUME TypeInv, Handlers, NEW c \in Conn, NEW w \in Worker
    PROVE  /\ conn[c].pc \notin Loading \cup StopPC => ~Claims(c, w)
           /\ conn[c].todo = {} \/ conn[c].pc \notin StopPC => (Claims(c, w) => w = conn[c].w)
<1>1. conn[c].pc \notin Loading \cup OpPC \cup StopPC => conn[c].w = None
  BY Zenon DEF Handlers, ConnSound
<1>2. conn[c].pc \notin Loading \cup StopPC => ~Claims(c, w)
  BY Zenon, <1>1, DaemonAssumption DEF Claims, Loading, LoadPC, OpPC
<1>3. conn[c].todo = {} \/ conn[c].pc \notin StopPC => (Claims(c, w) => w = conn[c].w)
  BY Zenon DEF Claims
<1>. QED BY Zenon, <1>2, <1>3

-----------------------------------------------------------------------------
(* The actions of a handler.                                               *)

\* No process starts.
NoStart == \A w \in Worker : Alive(w)' => Alive(w)

\* A handler that goes on, or ends without leaving a worker alone, hands over
\* what it must.
LEMMA StayPasses ==
    ASSUME NEW c \in Conn, Aside(c), NoStart, targets' = targets,
           \/ Stays(c)
           \/ conn'[c] = IdleConn /\ \A w \in Worker : Claims(c, w) => ~Alive(w)'
    PROVE  Passes(c)
<1>1. Leads(c)
  BY Zenon, IdleFacts DEF Leads, Stays, Loading, LoadPC, OpPC, StopPC, ShutdownPC
<1>2. ASSUME NEW w \in Worker, Alive(w)'
      PROVE  Alive(w) /\ (Claims(c, w) \/ Listed(w) => Claims(c, w)' \/ Listed(w)')
  <2>1. Alive(w) /\ Listed(w)' = Listed(w)
    BY Zenon, <1>2 DEF NoStart, Listed
  <2>2. CASE Stays(c)
    <3>1. /\ conn[c].pc \in LoadPC => conn'[c].pc \in LoadPC
          /\ conn[c].pc \in StopPC => conn'[c].pc \in StopPC
      BY Zenon, <2>2 DEF Stays, Loading, LoadPC, OpPC, StopPC, ShutdownPC
    <3>2. Claims(c, w) => Claims(c, w)'
      BY Zenon, <2>2, <3>1 DEF Stays, Claims
    <3>. QED BY Zenon, <2>1, <3>2
  <2>. QED BY Zenon, <1>2, <2>1, <2>2
<1>3. Hands(c)
  BY Zenon, <1>2 DEF Hands
<1>. QED BY Zenon, <1>1, <1>3 DEF Passes

\* It keeps the invariant.
LEMMA StayInv ==
    ASSUME DaemonInv, NEW c \in Conn, Aside(c),
           \/ Stays(c)
           \/ conn'[c] = IdleConn /\ \A w \in Worker : Claims(c, w) => ~Alive(w)',
           conn' \in [Conn -> Handler], worker' \in [Worker -> Process], Workers', Tame,
           main' = main, targets' = targets, nextId' = nextId
    PROVE  DaemonInv' /\ Passes(c)
<1>1. TypeInv'
  BY Zenon DEF DaemonInv, TypeInv
<1>2. Handlers'
  BY Zenon, TameFacts, HandlersStay DEF DaemonInv
<1>3. Passes(c)
  BY Zenon, StayPasses DEF Tame, NoStart
<1>. QED BY Zenon, <1>1, <1>2, <1>3 DEF DaemonInv

\* A handler that goes elsewhere, but not to a load, keeps the invariant when
\* it is sound there and refers to workers it knew or to targets.
LEMMA MoveInv ==
    ASSUME DaemonInv, NEW c \in Conn, Aside(c), conn'[c].pc \notin Loading, ConnSound(c)',
           \A w \in Refs(c)' : w \in Refs(c) \/ Listed(w),
           conn' \in [Conn -> Handler], worker' \in [Worker -> Process], Workers', Tame,
           main' = main, targets' \in [Router -> SUBSET Id], FewerTargets, nextId' = nextId,
           Leads(c), Hands(c)
    PROVE  DaemonInv' /\ Passes(c)
<1>. TypeInv /\ Handlers
  BY Zenon DEF DaemonInv
<1>1. TypeInv'
  BY Zenon DEF TypeInv
<1>2. ASSUME NEW d \in Conn \ {c} PROVE ConnSound(d)' /\ Refs(d)' = Refs(d)
  <2>1. \A r \in Router : nextId[r] \in Nat /\ nextId'[r] \in Nat /\ nextId[r] <= nextId'[r]
    BY DEF TypeInv
  <2>. QED BY Zenon, <2>1, OthersSound DEF Aside
<1>3. SameLoads
  BY Zenon DEF SameLoads, Aside
<1>4. KnownRefs
  BY Zenon, <1>2 DEF KnownRefs
<1>5. \A d \in Conn : LoadSound(d)'
  BY Zenon, <1>3, <1>4, TameFacts, LoadsKept DEF FewerTargets
<1>6. TargetsSound'
  BY Zenon, TameFacts, TargetsKept DEF Handlers
<1>. QED BY Zenon, <1>1, <1>2, <1>5, <1>6 DEF DaemonInv, Handlers, Passes

\* spawn_worker's loop and the forwarded load.
LEMMA LoadBootInv ==
    ASSUME DaemonInv, NEW c \in Conn, LoadBoot(c)
    PROVE  DaemonInv' /\ Passes(c)
<1>. TypeInv /\ Handlers /\ Workers /\ MainKept
  BY Zenon DEF DaemonInv, LoadBoot, MainKept
<1>1. conn[c].pc = "boot" /\ conn[c].pc \in Loading /\ conn[c].pc \notin Waiting
      /\ main' = main /\ targets' = targets /\ nextId' = nextId
  BY Zenon DEF LoadBoot, Loading, LoadPC, Waiting, routerVars
<1>2. PICK w \in Worker : w = conn[c].w
  BY Zenon, <1>1, AtWorker
<1>3. \A v \in Worker : Absent(c, worker[v].queue)
  BY Zenon, <1>1, NotQueued DEF Workers
<1>4. CASE Forward(c, "load", "load_wait", "load_kill")
  <2>1. WaitAt("load") = "load_wait" /\ "load_kill" \in ConnPC /\ "load_kill" # "idle"
        /\ "load_kill" \in Loading /\ "load_wait" \in Loading
    BY Zenon DEF WaitAt, ConnPC, Loading, LoadPC
  <2>2. /\ Aside(c) /\ conn' \in [Conn -> Handler] /\ worker' \in [Worker -> Process]
        /\ conn'[c].pc \in {"load_wait", "load_kill"} /\ conn'[c].r = conn[c].r
        /\ conn'[c].w = conn[c].w /\ conn'[c].op = conn[c].op
        /\ conn'[c].todo = conn[c].todo
        /\ Workers' /\ Tame
    BY <1>1, <1>2, <1>4, <2>1, ForwardFacts
  <2>3. Stays(c)
    BY Zenon, <1>1, <2>1, <2>2 DEF Stays
  <2>. QED BY Zenon, <1>1, <2>2, <2>3, StayInv
<1>5. ASSUME Finish(c), worker' \in [Worker -> Process], Workers', Tame, ~Alive(w)'
      PROVE  DaemonInv' /\ Passes(c)
  <2>1. \A v \in Worker : Claims(c, v) => v = w
    BY Zenon, <1>1, <1>2, ClaimFacts DEF StopPC
  <2>. QED BY Zenon, <1>1, <1>5, <2>1, FinishFacts, StayInv
<1>6. CASE Finish(c) /\ worker' = worker /\ ~Alive(w)
  BY Zenon, <1>3, <1>5, <1>6, FinishFacts, WorkersStill DEF Alive
<1>7. CASE Finish(c) /\ Kill(w)
  BY Zenon, <1>1, <1>5, <1>7, FinishFacts, KillFacts, KillWorkers
<1>. QED BY Zenon, <1>2, <1>4, <1>6, <1>7 DEF LoadBoot

\* The load was not answered in time.
LEMMA LoadTimeoutInv ==
    ASSUME DaemonInv, NEW c \in Conn, LoadTimeout(c)
    PROVE  DaemonInv' /\ Passes(c)
<1>. TypeInv /\ Handlers /\ Workers /\ MainKept
  BY Zenon DEF DaemonInv, LoadTimeout, MainKept
<1>1. /\ conn[c].pc \in Loading /\ "load_kill" \in ConnPC /\ "load_kill" \in Loading
      /\ main' = main /\ targets' = targets /\ nextId' = nextId
  BY Zenon DEF LoadTimeout, Loading, LoadPC, ConnPC, routerVars
<1>2. /\ Aside(c) /\ conn' \in [Conn -> Handler]
      /\ conn'[c].pc = "load_kill" /\ conn'[c].r = conn[c].r /\ conn'[c].w = conn[c].w
      /\ conn'[c].op = conn[c].op /\ conn'[c].todo = conn[c].todo
  BY Zenon, <1>1, GotoFacts DEF LoadTimeout
<1>3. worker' \in [Worker -> Process] /\ Tame /\ Workers'
  BY Zenon, <1>1, <1>2, AtWorker, GiveUpFacts DEF LoadTimeout
<1>4. Stays(c)
  BY Zenon, <1>1, <1>2 DEF Stays
<1>. QED BY Zenon, <1>1, <1>2, <1>3, <1>4, StayInv

\* A failed load ends with its worker.
LEMMA LoadKillInv ==
    ASSUME DaemonInv, NEW c \in Conn, LoadKill(c)
    PROVE  DaemonInv' /\ Passes(c)
<1>. TypeInv /\ Handlers /\ Workers /\ MainKept
  BY Zenon DEF DaemonInv, LoadKill, MainKept
<1>1. /\ conn[c].pc \in Loading /\ conn[c].pc \notin Waiting
      /\ main' = main /\ targets' = targets /\ nextId' = nextId
  BY Zenon DEF LoadKill, Loading, LoadPC, Waiting, routerVars
<1>2. PICK w \in Worker : w = conn[c].w
  BY Zenon, <1>1, AtWorker
<1>3. Kill(w) /\ Finish(c)
  BY Zenon, <1>2 DEF LoadKill
<1>4. \A v \in Worker : Claims(c, v) => v = w
  BY Zenon, <1>1, <1>2, ClaimFacts DEF Loading, LoadPC, StopPC
<1>5. \A v \in Worker : Claims(c, v) => ~Alive(v)'
  BY Zenon, <1>3, <1>4, KillFacts
<1>. QED BY Zenon, <1>1, <1>3, <1>5, FinishFacts, KillFacts, KillWorkers, StayInv

\* The analysis request is forwarded.
LEMMA OpForwardInv ==
    ASSUME DaemonInv, NEW c \in Conn, OpForward(c)
    PROVE  DaemonInv' /\ Passes(c)
<1>. TypeInv /\ Handlers /\ Workers /\ MainKept
  BY Zenon DEF DaemonInv, OpForward, MainKept
<1>1. /\ conn[c].pc \in OpPC /\ conn[c].pc \notin Waiting
      /\ main' = main /\ targets' = targets /\ nextId' = nextId
  BY Zenon DEF OpForward, OpPC, Waiting, routerVars
<1>2. conn[c].w \in Worker /\ conn[c].op \in Effects
  BY Zenon, <1>1, AtWorker DEF Handlers, ConnSound
<1>3. WaitAt(conn[c].op) = "op_wait" /\ "idle" \in ConnPC /\ "op_wait" \in OpPC
  BY Zenon, <1>2 DEF WaitAt, Effects, ConnPC, OpPC
<1>4. Forward(c, conn[c].op, "op_wait", "idle")
  BY Zenon DEF OpForward
<1>5. /\ Aside(c) /\ conn' \in [Conn -> Handler] /\ worker' \in [Worker -> Process]
      /\ \/ conn'[c] = IdleConn
         \/ /\ conn'[c].pc = "op_wait" /\ conn'[c].r = conn[c].r
            /\ conn'[c].w = conn[c].w /\ conn'[c].op = conn[c].op
            /\ conn'[c].todo = conn[c].todo
      /\ Workers' /\ Tame
  BY <1>1, <1>2, <1>3, <1>4, ForwardFacts
<1>6. \A v \in Worker : ~Claims(c, v)
  BY Zenon, <1>1, ClaimFacts DEF OpPC, Loading, LoadPC, StopPC
<1>. QED BY Zenon, <1>1, <1>3, <1>5, <1>6, StayInv DEF Stays

\* The analysis request was not answered in time.
LEMMA OpTimeoutInv ==
    ASSUME DaemonInv, NEW c \in Conn, OpTimeout(c)
    PROVE  DaemonInv' /\ Passes(c)
<1>. TypeInv /\ Handlers /\ Workers /\ MainKept
  BY Zenon DEF DaemonInv, OpTimeout, MainKept
<1>1. /\ conn[c].pc \in OpPC /\ main' = main /\ targets' = targets /\ nextId' = nextId
  BY Zenon DEF OpTimeout, OpPC, routerVars
<1>2. Aside(c) /\ conn' \in [Conn -> Handler] /\ conn'[c] = IdleConn
  BY Zenon, FinishFacts DEF OpTimeout
<1>3. worker' \in [Worker -> Process] /\ Tame /\ Workers'
  BY Zenon, <1>1, <1>2, AtWorker, GiveUpFacts DEF OpTimeout
<1>4. \A v \in Worker : ~Claims(c, v)
  BY Zenon, <1>1, ClaimFacts DEF OpPC, Loading, LoadPC, StopPC
<1>. QED BY Zenon, <1>1, <1>2, <1>3, <1>4, StayInv

\* stop_worker asks the worker to exit.
LEMMA StopSendInv ==
    ASSUME DaemonInv, NEW c \in Conn, StopSend(c)
    PROVE  DaemonInv' /\ Passes(c)
<1>. TypeInv /\ Handlers /\ Workers /\ MainKept
  BY Zenon DEF DaemonInv, StopSend, MainKept
<1>1. /\ conn[c].pc \in StopPC /\ conn[c].pc \notin Waiting
      /\ main' = main /\ targets' = targets /\ nextId' = nextId
  BY Zenon DEF StopSend, StopPC, Waiting, routerVars
<1>2. conn[c].w \in Worker
  BY Zenon, <1>1, AtWorker
<1>3. WaitAt("shutdown") = "stop_wait" /\ "stop_exit" \in ConnPC /\ "stop_exit" # "idle"
      /\ {"stop_wait", "stop_exit"} \subseteq StopPC
  BY Zenon DEF WaitAt, ConnPC, StopPC
<1>4. Forward(c, "shutdown", "stop_wait", "stop_exit")
  BY Zenon DEF StopSend
<1>5. /\ Aside(c) /\ conn' \in [Conn -> Handler] /\ worker' \in [Worker -> Process]
      /\ conn'[c].pc \in {"stop_wait", "stop_exit"} /\ conn'[c].r = conn[c].r
      /\ conn'[c].w = conn[c].w /\ conn'[c].op = conn[c].op
      /\ conn'[c].todo = conn[c].todo
      /\ Workers' /\ Tame
  BY <1>1, <1>2, <1>3, <1>4, ForwardFacts
<1>. QED BY Zenon, <1>1, <1>3, <1>5, StayInv DEF Stays

\* The worker did not answer the shutdown in time.
LEMMA StopTimeoutInv ==
    ASSUME DaemonInv, NEW c \in Conn, StopTimeout(c)
    PROVE  DaemonInv' /\ Passes(c)
<1>. TypeInv /\ Handlers /\ Workers /\ MainKept
  BY Zenon DEF DaemonInv, StopTimeout, MainKept
<1>1. /\ conn[c].pc \in StopPC /\ "stop_exit" \in ConnPC /\ "stop_exit" \in StopPC
      /\ main' = main /\ targets' = targets /\ nextId' = nextId
  BY Zenon DEF StopTimeout, StopPC, ConnPC, routerVars
<1>2. /\ Aside(c) /\ conn' \in [Conn -> Handler]
      /\ conn'[c].pc = "stop_exit" /\ conn'[c].r = conn[c].r /\ conn'[c].w = conn[c].w
      /\ conn'[c].op = conn[c].op /\ conn'[c].todo = conn[c].todo
  BY Zenon, <1>1, GotoFacts DEF StopTimeout
<1>3. worker' \in [Worker -> Process] /\ Tame /\ Workers'
  BY Zenon, <1>1, <1>2, AtWorker, GiveUpFacts DEF StopTimeout
<1>4. Stays(c)
  BY Zenon, <1>1, <1>2 DEF Stays
<1>. QED BY Zenon, <1>1, <1>2, <1>3, <1>4, StayInv

\* The worker of a waiting handler is gone.
LEMMA WorkerClosedInv ==
    ASSUME DaemonInv, NEW c \in Conn, WorkerClosed(c)
    PROVE  DaemonInv' /\ Passes(c)
<1>. TypeInv /\ Handlers /\ Workers /\ MainKept
  BY Zenon DEF DaemonInv, WorkerClosed, MainKept
<1>1. /\ main' = main /\ targets' = targets /\ nextId' = nextId /\ worker' = worker
      /\ {"load_kill", "stop_exit"} \subseteq ConnPC
      /\ "load_kill" \in Loading /\ "stop_exit" \in StopPC
      /\ conn[c].pc = "load_wait" => conn[c].pc \in Loading
      /\ conn[c].pc = "op_wait" => conn[c].pc \in OpPC
      /\ conn[c].pc = "stop_wait" => conn[c].pc \in StopPC
  BY Zenon DEF WorkerClosed, StopPC, OpPC, Loading, LoadPC, ConnPC, routerVars
<1>2. conn[c].w \in Worker /\ ~Alive(conn[c].w)
  BY Zenon, <1>1, AtWorker DEF WorkerClosed
<1>3. ASSUME NEW v \in Worker PROVE Absent(c, worker[v].queue)
  <2>1. CASE v = conn[c].w
    BY <1>2, <2>1 DEF Workers, WorkerSound, Absent
  <2>2. CASE v # conn[c].w
    BY Zenon, <2>2, NotQueued DEF Workers
  <2>. QED BY Zenon, <2>1, <2>2
<1>4. CASE conn[c].pc = "load_wait" /\ ConnGoto(c, "load_kill")
  BY Zenon, <1>1, <1>3, <1>4, GotoFacts, WorkersStill, StayInv DEF Stays
<1>5. CASE conn[c].pc = "op_wait" /\ Finish(c)
  <2>1. \A v \in Worker : ~Claims(c, v)
    BY Zenon, <1>5, ClaimFacts DEF Loading, LoadPC, StopPC
  <2>. QED BY <1>1, <1>3, <1>5, <2>1, FinishFacts, WorkersStill, StayInv
<1>6. CASE conn[c].pc = "stop_wait" /\ ConnGoto(c, "stop_exit")
  BY Zenon, <1>1, <1>3, <1>6, GotoFacts, WorkersStill, StayInv DEF Stays
<1>. QED BY Zenon, <1>4, <1>5, <1>6 DEF WorkerClosed

\* A handler begins to stop worker w, with T left to stop.
StopsFirst(c, w, T) ==
    conn' = [conn EXCEPT ![c].pc = "stop_send", ![c].w = w, ![c].todo = T]

\* It then refers to these workers and keeps its request.
LEMMA StopFirst ==
    ASSUME TypeInv, NEW c \in Conn, NEW S \in SUBSET Worker, NEW w \in S,
           StopsFirst(c, w, S \ {w})
    PROVE  /\ Aside(c) /\ conn' \in [Conn -> Handler]
           /\ conn'[c].pc = "stop_send" /\ conn'[c].r = conn[c].r
           /\ conn'[c].w = w /\ conn'[c].todo = S \ {w} /\ Refs(c)' = S
<1>1. Aside(c)
  BY Zenon DEF TypeInv, Aside, StopsFirst
<1>2. conn[c] \in Handler
      /\ conn'[c] = [conn[c] EXCEPT !.pc = "stop_send", !.w = w, !.todo = S \ {w}]
  BY Zenon DEF TypeInv, StopsFirst
<1>3. /\ conn'[c].pc = "stop_send" /\ conn'[c].r = conn[c].r
      /\ conn'[c].w = w /\ conn'[c].todo = S \ {w} /\ conn'[c] \in Handler
  <2>. "stop_send" \in ConnPC
    BY Zenon DEF ConnPC, StopPC
  <2>. QED BY Zenon, <1>2 DEF Handler
<1>4. conn' \in [Conn -> Handler]
  <2>1. conn' = [conn EXCEPT ![c] = conn'[c]]
    BY Zenon, <1>1, <1>2 DEF TypeInv, StopsFirst
  <2>. QED BY Zenon, <1>3, <2>1 DEF TypeInv
<1>5. Refs(c)' = S
  BY Zenon, <1>3, DaemonAssumption DEF Refs
<1>. QED BY Zenon, <1>1, <1>3, <1>4, <1>5

\* The child is gone; the handler takes the next worker or ends.
LEMMA WaitChildInv ==
    ASSUME DaemonInv, NEW c \in Conn, WaitChild(c)
    PROVE  DaemonInv' /\ Passes(c)
<1>. TypeInv /\ Handlers /\ Workers /\ MainKept
  BY Zenon DEF DaemonInv, WaitChild, MainKept
<1>1. /\ conn[c].pc \in StopPC /\ conn[c].pc \notin Waiting /\ conn[c].pc # "idle"
      /\ main' = main /\ targets' = targets /\ nextId' = nextId /\ FewerTargets
  BY Zenon DEF WaitChild, StopPC, Waiting, routerVars, FewerTargets
<1>2. PICK v \in Worker : v = conn[c].w
  BY Zenon, <1>1, AtWorker
<1>3. Kill(v) /\ StopNext(c)
  BY Zenon, <1>2 DEF WaitChild
<1>4. worker' \in [Worker -> Process] /\ Tame /\ ~Alive(v)'
  BY Zenon, <1>3, KillFacts
<1>5. CASE Finish(c) /\ conn[c].todo = {}
  <2>1. \A w \in Worker : Claims(c, w) => ~Alive(w)'
    BY <1>2, <1>4, <1>5, ClaimFacts
  <2>. QED BY ZenonT(40), <1>1, <1>3, <1>4, <1>5, <2>1, FinishFacts, KillWorkers, StayInv
<1>6. PICK S \in SUBSET Worker : S = conn[c].todo
  BY Zenon, HandlerTypes
<1>7. ASSUME NEW w \in S, StopsFirst(c, w, S \ {w})
      PROVE  DaemonInv' /\ Passes(c)
  <2>1. /\ Aside(c) /\ conn' \in [Conn -> Handler]
        /\ conn'[c].pc = "stop_send" /\ conn'[c].r = conn[c].r
        /\ conn'[c].w = w /\ conn'[c].todo = S \ {w} /\ Refs(c)' = S
    BY Zenon, <1>7, StopFirst
  <2>2. S \subseteq Refs(c) /\ w # None
    BY Zenon, <1>6, <1>7, DaemonAssumption DEF Refs
  <2>3. /\ conn'[c].pc \in StopPC /\ conn'[c].pc \notin Loading /\ conn'[c].pc \notin OpPC
        /\ conn'[c].pc \notin ShutdownPC
    BY Zenon, <2>1 DEF StopPC, Loading, LoadPC, OpPC, ShutdownPC
  <2>4. ConnSound(c)'
    BY Zenon, <1>1, <2>1, <2>2, <2>3 DEF ConnSound, Handlers
  <2>5. Workers'
    BY Zenon, <1>1, <1>3, <2>1, KillWorkers
  <2>6. Leads(c)
    BY Zenon, <1>1, <2>1, <2>3 DEF Leads
  <2>7. ASSUME NEW u \in Worker, Alive(u)'
        PROVE  Alive(u) /\ (Claims(c, u) \/ Listed(u) => Claims(c, u)' \/ Listed(u)')
    <3>1. Alive(u) /\ Listed(u)' = Listed(u) /\ u # v
      BY Zenon, <1>1, <1>4, <2>7 DEF Tame, Listed
    <3>2. Claims(c, u) => u \in S
      BY Zenon, <1>1, <1>2, <1>6, <3>1 DEF Claims, LoadPC, StopPC
    <3>3. u \in S => Claims(c, u)'
      BY Zenon, <2>1, <2>3 DEF Claims
    <3>. QED BY Zenon, <3>1, <3>2, <3>3
  <2>8. Hands(c)
    BY Zenon, <2>7 DEF Hands
  <2>. QED BY ZenonT(40), <1>1, <1>4, <2>1, <2>2, <2>3, <2>4, <2>5, <2>6, <2>8, MoveInv DEF TypeInv
<1>8. ASSUME NEW w \in S,
             conn' = [conn EXCEPT ![c].pc = "stop_send", ![c].w = w, ![c].todo = @ \ {w}]
      PROVE  StopsFirst(c, w, S \ {w})
  BY Zenon, <1>6, <1>8 DEF StopsFirst, TypeInv, Handler
<1>. QED BY Zenon, <1>3, <1>5, <1>6, <1>7, <1>8 DEF StopNext

\* The shutdown request stops what was a target when it drained the table.
LEMMA ShutdownInv ==
    ASSUME DaemonInv, NEW c \in Conn, Shutdown(c)
    PROVE  DaemonInv' /\ Passes(c)
<1>. TypeInv /\ Handlers /\ Workers /\ MainKept
  BY Zenon DEF DaemonInv, Shutdown, MainKept
<1>1. /\ ShutdownStep(c) /\ main' = main /\ nextId' = nextId /\ worker' = worker
      /\ conn[c].pc \in ShutdownPC /\ conn[c].pc \notin Waiting /\ conn[c].pc # "idle"
      /\ conn[c].pc \notin Loading \cup StopPC
  BY Zenon DEF Shutdown, ShutdownStep, ShutdownPC, Waiting, Loading, LoadPC, StopPC
<1>2. \A v \in Worker : Absent(c, worker[v].queue)
  BY Zenon, <1>1, NotQueued DEF Workers
<1>3. PICK r \in Router : r = conn[c].r
  BY Zenon, <1>1 DEF Handlers, ConnSound
<1>4. ASSUME NEW label \in ShutdownPC, ConnGoto(c, label), targets' = targets
      PROVE  DaemonInv' /\ Passes(c)
  <2>1. label \in ConnPC
    BY Zenon DEF ConnPC
  <2>. QED BY Zenon, <1>1, <1>2, <1>4, <2>1, GotoFacts, WorkersStill, StayInv DEF Stays
<1>5. CASE \E label \in ShutdownPC : ConnGoto(c, label) /\ targets' = targets
  BY Zenon, <1>4, <1>5
<1>6. CASE conn[c].pc = "drain" /\ targets' = [targets EXCEPT ![conn[c].r] = {}]
  <2>1. /\ targets' \in [Router -> SUBSET Id] /\ FewerTargets
        /\ \A q \in Router \ {r} : targets'[q] = targets[q]
    BY Zenon, <1>3, <1>6 DEF TypeInv, FewerTargets
  <2>. DEFINE S == {<<r, i>> : i \in targets[r]}
  <2>2. S \in SUBSET Worker /\ \A w \in S : RouterOf(w) = r /\ IdOf(w) \in targets[r]
    BY DEF TypeInv, Worker, RouterOf, IdOf
  <2>3. \A w \in S : Listed(w) /\ IdOf(w) < nextId[r] /\ w # None
    BY Zenon, <2>2, DaemonAssumption DEF Listed, Handlers, TargetsSound
  <2>4. \A w \in Worker : Listed(w) => w \in S \/ Listed(w)'
    <3>1. TAKE w \in Worker
    <3>2. RouterOf(w) \in Router /\ w = <<RouterOf(w), IdOf(w)>>
      BY Zenon, WorkerTypes
    <3>. QED BY Zenon, <2>1, <3>2 DEF Listed
  <2>. HIDE DEF S
  <2>5. \A w \in Worker : ~Claims(c, w)
    BY Zenon, <1>1, ClaimFacts
  <2>6. CASE Finish(c) /\ S = {}
    <3>1. Aside(c) /\ conn' \in [Conn -> Handler] /\ conn'[c] = IdleConn
      BY Zenon, <2>6, FinishFacts
    <3>2. Workers' /\ Tame /\ worker' \in [Worker -> Process]
      BY <1>1, <1>2, <3>1, WorkersStill
    <3>3. /\ conn'[c].pc \notin Loading /\ ConnSound(c)' /\ Refs(c)' = {} /\ Leads(c)
      BY Zenon, <3>1, IdleFacts DEF Loading, LoadPC, Leads, ShutdownPC
    <3>4. Hands(c)
      BY Zenon, <2>4, <2>5, <2>6, <3>2 DEF Hands, Tame
    <3>. QED BY Zenon, <1>1, <2>1, <3>1, <3>2, <3>3, <3>4, MoveInv
  <2>7. ASSUME NEW w \in S, StopsFirst(c, w, S \ {w}) PROVE DaemonInv' /\ Passes(c)
    <3>1. /\ Aside(c) /\ conn' \in [Conn -> Handler]
          /\ conn'[c].pc = "stop_send" /\ conn'[c].r = conn[c].r
          /\ conn'[c].w = w /\ conn'[c].todo = S \ {w} /\ Refs(c)' = S
      BY Zenon, <2>2, <2>7, StopFirst
    <3>2. /\ conn'[c].pc \in StopPC /\ conn'[c].pc \notin Loading /\ conn'[c].pc \notin OpPC
          /\ conn'[c].pc \notin ShutdownPC
      BY Zenon, <3>1 DEF StopPC, Loading, LoadPC, OpPC, ShutdownPC
    <3>3. ConnSound(c)'
      BY Zenon, <1>1, <1>3, <2>2, <2>3, <3>1, <3>2 DEF ConnSound, Handlers
    <3>4. Workers' /\ Tame /\ worker' \in [Worker -> Process]
      BY ZenonT(40), <1>1, <1>2, <3>1, WorkersStill
    <3>5. Leads(c)
      BY Zenon, <1>1, <3>1, <3>2 DEF Leads
    <3>6. \A u \in S : Claims(c, u)'
      BY Zenon, <3>1, <3>2 DEF Claims
    <3>7. Hands(c)
      BY Zenon, <2>4, <2>5, <3>4, <3>6 DEF Hands, Tame
    <3>. QED BY ZenonT(40), <1>1, <2>1, <2>3, <3>1, <3>2, <3>3, <3>4, <3>5, <3>7, MoveInv
  <2>8. \/ Finish(c) /\ S = {}
        \/ \E w \in S : StopsFirst(c, w, S \ {w})
    <3>1. S = {<<conn[c].r, i>> : i \in targets[conn[c].r]}
      BY Zenon, <1>3 DEF S
    <3>2. \/ Finish(c) /\ {<<conn[c].r, i>> : i \in targets[conn[c].r]} = {}
          \/ \E w \in {<<conn[c].r, i>> : i \in targets[conn[c].r]} :
               StopsFirst(c, w, {<<conn[c].r, i>> : i \in targets[conn[c].r]} \ {w})
      BY Zenon, <1>1, <1>6, Zenon DEF ShutdownStep, StopsFirst
    <3>. QED BY Zenon, <3>1, <3>2, Zenon
  <2>. QED BY ZenonT(40), <2>6, <2>7, <2>8
<1>. QED BY Zenon, <1>1, <1>5, <1>6 DEF ShutdownStep, ShutdownPC

\* A request begins with the handler record h.
LEMMA BeginFacts ==
    ASSUME TypeInv, NEW c \in Conn, NEW h \in Handler, conn' = [conn EXCEPT ![c] = h]
    PROVE  Aside(c) /\ conn' \in [Conn -> Handler] /\ conn'[c] = h
BY Zenon DEF TypeInv, Aside

\* A request to a router that accepts connections, with no worker yet or for one
\* of the targets.
LEMMA BeginInv ==
    ASSUME DaemonInv, NEW c \in Conn, NEW r \in Router, Accepted(c, r),
           NEW h \in Handler, conn' = [conn EXCEPT ![c] = h], h.r = r, h.todo = {},
           \/ h.w = None /\ h.pc \in {"load_lock"} \cup ShutdownPC
           \/ /\ h.w \in Worker /\ RouterOf(h.w) = r /\ IdOf(h.w) \in targets[r]
              /\ h.pc \in OpPC \cup StopPC /\ (h.pc \in OpPC => h.op \in Effects),
           main' = main, targets' \in [Router -> SUBSET Id], FewerTargets,
           nextId' = nextId, worker' = worker,
           h.pc \in ShutdownPC => h.pc = "notify",
           \A w \in Worker : Listed(w) => Listed(w)' \/ (w = h.w /\ h.pc \in StopPC)
    PROVE  DaemonInv' /\ Passes(c)
<1>. TypeInv /\ Handlers /\ Workers /\ MainKept
  BY ZenonT(40) DEF DaemonInv, MainKept
<1>1. Aside(c) /\ conn' \in [Conn -> Handler] /\ conn'[c] = h
  BY Zenon, BeginFacts
<1>2. conn[c].pc = "idle" /\ main[r] = "serve" /\ conn[c].pc \notin Waiting
  BY Zenon DEF Accepted, Waiting
<1>3. \A v \in Worker : Absent(c, worker[v].queue)
  BY Zenon, <1>2, NotQueued DEF Workers
<1>4. Workers' /\ Tame /\ worker' \in [Worker -> Process]
  BY ZenonT(40), <1>1, <1>3, WorkersStill
<1>5. conn'[c].pc \notin Loading
  BY Zenon, <1>1 DEF Loading, LoadPC, OpPC, StopPC, ShutdownPC
<1>6. \A w \in Refs(c)' : Listed(w) /\ RouterOf(w) = r /\ IdOf(w) < nextId[r]
  BY Zenon, <1>1 DEF Refs, Listed, Handlers, TargetsSound
<1>7. ConnSound(c)'
  <2>1. conn'[c].w # None <=> conn'[c].pc \in Loading \cup OpPC \cup StopPC
    BY Zenon, <1>1, DaemonAssumption DEF Loading, LoadPC, OpPC, StopPC, ShutdownPC
  <2>2. conn'[c].pc \in OpPC => conn'[c].op \in Effects
    BY Zenon, <1>1 DEF OpPC, ShutdownPC
  <2>. QED BY Zenon, <1>1, <1>2, <1>6, <2>1, <2>2 DEF ConnSound
<1>8. Leads(c)
  BY Zenon, <1>1, <1>2 DEF Leads
<1>9. Hands(c)
  <2>1. \A w \in Worker : ~Claims(c, w)
    BY ZenonT(40), <1>2, ClaimFacts DEF Loading, LoadPC, StopPC
  <2>2. \A w \in Worker : w = h.w /\ h.pc \in StopPC => Claims(c, w)'
    BY Zenon, <1>1 DEF Claims
  <2>. QED BY ZenonT(40), <1>4, <2>1, <2>2 DEF Hands, Tame
<1>. QED BY Zenon, <1>1, <1>4, <1>5, <1>6, <1>7, <1>8, <1>9, MoveInv

\* Every request that a router accepts.
LEMMA RequestInv ==
    ASSUME DaemonInv, NEW c \in Conn,
           RequestLoad(c) \/ RequestClose(c) \/ RequestAnalysis(c) \/ RequestShutdown(c)
    PROVE  DaemonInv' /\ Passes(c)
<1>. TypeInv
  BY Zenon DEF DaemonInv
<1>1. CASE RequestLoad(c)
  <2>1. PICK r \in Router, q \in LoadRequest :
          /\ Accepted(c, r)
          /\ conn' = [conn EXCEPT ![c] = [IdleConn EXCEPT !.pc = "load_lock", !.r = r, !.q = q]]
    BY Zenon, <1>1 DEF RequestLoad
  <2>2. PICK h : h = [IdleConn EXCEPT !.pc = "load_lock", !.r = r, !.q = q]
    BY Zenon
  <2>3. h \in Handler /\ h.r = r /\ h.todo = {} /\ h.w = None /\ h.pc = "load_lock"
    BY ZenonT(40), <2>2 DEF IdleConn, Handler, ConnPC, LoadPC
  <2>4. /\ main' = main /\ targets' \in [Router -> SUBSET Id] /\ FewerTargets
        /\ nextId' = nextId /\ worker' = worker /\ targets' = targets
    BY Zenon, <1>1 DEF RequestLoad, routerVars, TypeInv, FewerTargets
  <2>5. h.pc \notin ShutdownPC /\ \A w \in Worker : Listed(w) => Listed(w)'
    BY Zenon, <2>3, <2>4 DEF ShutdownPC, Listed
  <2>. QED BY Zenon, <2>1, <2>2, <2>3, <2>4, <2>5, BeginInv
<1>2. CASE RequestClose(c)
  <2>1. PICK r \in Router : \E i \in Resolve(r) \cap targets[r] :
          /\ Accepted(c, r)
          /\ targets' = [targets EXCEPT ![r] = @ \ {i}]
          /\ conn' = [conn EXCEPT ![c] = [IdleConn EXCEPT !.pc = "stop_send", !.r = r,
                                                           !.w = <<r, i>>]]
    BY Zenon, <1>2 DEF RequestClose
  <2>2. PICK i \in targets[r] :
          /\ Accepted(c, r)
          /\ targets' = [targets EXCEPT ![r] = @ \ {i}]
          /\ conn' = [conn EXCEPT ![c] = [IdleConn EXCEPT !.pc = "stop_send", !.r = r,
                                                           !.w = <<r, i>>]]
    BY Zenon, <2>1
  <2>3. PICK h : h = [IdleConn EXCEPT !.pc = "stop_send", !.r = r, !.w = <<r, i>>]
    BY Zenon
  <2>4. <<r, i>> \in Worker /\ RouterOf(<<r, i>>) = r /\ IdOf(<<r, i>>) = i
    BY Zenon, <2>2 DEF TypeInv, Worker, RouterOf, IdOf
  <2>5. h \in Handler /\ h.r = r /\ h.todo = {} /\ h.w = <<r, i>> /\ h.pc = "stop_send"
    BY Zenon, <2>3, <2>4 DEF IdleConn, Handler, ConnPC, StopPC
  <2>6. h.pc \in OpPC \cup StopPC /\ h.pc \notin OpPC
    BY Zenon, <2>5 DEF StopPC, OpPC
  <2>7. /\ main' = main /\ nextId' = nextId /\ worker' = worker
        /\ targets' \in [Router -> SUBSET Id] /\ FewerTargets
    BY Zenon, <1>2, <2>2 DEF RequestClose, TypeInv, FewerTargets
  <2>8. Accepted(c, r) /\ conn' = [conn EXCEPT ![c] = h]
    BY Zenon, <2>2, <2>3
  <2>9. /\ h.w \in Worker /\ RouterOf(h.w) = r /\ IdOf(h.w) \in targets[r]
        /\ h.pc \in OpPC \cup StopPC /\ (h.pc \in OpPC => h.op \in Effects)
    BY Zenon, <2>4, <2>5, <2>6
  <2>10. h.pc \notin ShutdownPC
    BY Zenon, <2>5 DEF ShutdownPC
  <2>11. ASSUME NEW w \in Worker, Listed(w) PROVE Listed(w)' \/ (w = h.w /\ h.pc \in StopPC)
    <3>1. RouterOf(w) \in Router /\ w = <<RouterOf(w), IdOf(w)>>
      BY Zenon, WorkerTypes
    <3>2. h.pc \in StopPC /\ h.w = <<r, i>>
      BY Zenon, <2>5, <2>6
    <3>. QED BY Zenon, <2>2, <2>11, <3>1, <3>2 DEF Listed, TypeInv
  <2>. QED BY Zenon, <2>5, <2>7, <2>8, <2>9, <2>10, <2>11, BeginInv
<1>3. CASE RequestAnalysis(c)
  <2>1. PICK r \in Router : \E i \in Resolve(r) \cap targets[r], op \in CliOps \ RouterOps :
          /\ Accepted(c, r)
          /\ conn' = [conn EXCEPT ![c] = [IdleConn EXCEPT !.pc = "op_lock", !.r = r,
                                            !.w = <<r, i>>, !.q = worker[<<r, i>>].q,
                                            !.op = Effect(op)]]
    BY Zenon, <1>3 DEF RequestAnalysis
  <2>2. PICK i \in targets[r], op \in CliOps \ RouterOps :
          /\ Accepted(c, r)
          /\ conn' = [conn EXCEPT ![c] = [IdleConn EXCEPT !.pc = "op_lock", !.r = r,
                                            !.w = <<r, i>>, !.q = worker[<<r, i>>].q,
                                            !.op = Effect(op)]]
    BY Zenon, <2>1
  <2>3. PICK h : h = [IdleConn EXCEPT !.pc = "op_lock", !.r = r, !.w = <<r, i>>,
                                      !.q = worker[<<r, i>>].q, !.op = Effect(op)]
    BY Zenon
  <2>4. <<r, i>> \in Worker /\ RouterOf(<<r, i>>) = r /\ IdOf(<<r, i>>) = i
    BY Zenon, <2>2 DEF TypeInv, Worker, RouterOf, IdOf
  <2>5. worker[<<r, i>>].q \in LoadRequest \cup {None}
    BY Zenon, <2>4, WorkerTypes DEF Process
  <2>6. Effect(op) \in Effects
    BY Zenon DEF Effect, Effects
  <2>7. /\ h \in Handler /\ h.r = r /\ h.todo = {} /\ h.w = <<r, i>> /\ h.pc = "op_lock"
        /\ h.op \in Effects
    BY Zenon, <2>3, <2>4, <2>5, <2>6 DEF IdleConn, Handler, ConnPC, OpPC
  <2>8. h.pc \in OpPC
    BY Zenon, <2>7 DEF OpPC
  <2>9. /\ main' = main /\ targets' \in [Router -> SUBSET Id] /\ FewerTargets
        /\ nextId' = nextId /\ worker' = worker /\ targets' = targets
    BY ZenonT(40), <1>3 DEF RequestAnalysis, routerVars, TypeInv, FewerTargets
  <2>10. h.pc \notin ShutdownPC /\ \A w \in Worker : Listed(w) => Listed(w)'
    BY Zenon, <2>7, <2>9 DEF ShutdownPC, Listed
  <2>. QED BY Zenon, <2>2, <2>3, <2>4, <2>7, <2>8, <2>9, <2>10, BeginInv
<1>4. CASE RequestShutdown(c)
  <2>1. PICK r \in Router :
          /\ Accepted(c, r)
          /\ conn' = [conn EXCEPT ![c] = [IdleConn EXCEPT !.pc = "notify", !.r = r]]
    BY Zenon, <1>4 DEF RequestShutdown
  <2>2. PICK h : h = [IdleConn EXCEPT !.pc = "notify", !.r = r]
    BY Zenon
  <2>3. /\ h \in Handler /\ h.r = r /\ h.todo = {} /\ h.w = None
        /\ h.pc \in ShutdownPC /\ h.pc = "notify"
    BY Zenon, <2>2 DEF IdleConn, Handler, ConnPC, ShutdownPC
  <2>4. /\ main' = main /\ targets' \in [Router -> SUBSET Id] /\ FewerTargets
        /\ nextId' = nextId /\ worker' = worker /\ targets' = targets
    BY Zenon, <1>4 DEF RequestShutdown, routerVars, TypeInv, FewerTargets
  <2>5. \A w \in Worker : Listed(w) => Listed(w)'
    BY Zenon, <2>4 DEF Listed
  <2>. QED BY Zenon, <2>1, <2>2, <2>3, <2>4, <2>5, BeginInv
<1>. QED BY Zenon, <1>1, <1>2, <1>3, <1>4

\* The loaded worker becomes a target.
LEMMA LoadInsertInv ==
    ASSUME DaemonInv, NEW c \in Conn, LoadInsert(c)
    PROVE  DaemonInv' /\ Passes(c)
<1>. TypeInv /\ Handlers /\ Workers /\ MainKept
  BY ZenonT(40) DEF DaemonInv, LoadInsert, MainKept
<1>1. /\ conn[c].pc \in Loading /\ conn[c].pc \notin Waiting
      /\ main' = main /\ nextId' = nextId /\ worker' = worker
  BY Zenon DEF LoadInsert, Loading, LoadPC, Waiting
<1>2. PICK r \in Router, n \in Id : /\ r = conn[c].r /\ conn[c].w = <<r, n>>
                                    /\ n = IdOf(conn[c].w) /\ n < nextId[r]
  <2>1. conn[c].r \in Router /\ conn[c].w \in Worker /\ conn[c].w = <<conn[c].r, IdOf(conn[c].w)>>
        /\ IdOf(conn[c].w) < nextId[conn[c].r]
    BY Zenon, <1>1, AtWorker
  <2>2. IdOf(conn[c].w) \in Id
    BY <2>1, WorkerTypes
  <2>. QED BY <2>1, <2>2
<1>3. targets' = [targets EXCEPT ![r] = @ \cup {n}] /\ Finish(c)
  BY Zenon, <1>2 DEF LoadInsert
<1>4. Aside(c) /\ conn' \in [Conn -> Handler] /\ conn'[c] = IdleConn
  BY Zenon, <1>3, FinishFacts
<1>5. \A v \in Worker : Absent(c, worker[v].queue)
  BY Zenon, <1>1, NotQueued DEF Workers
<1>6. Workers' /\ Tame /\ worker' \in [Worker -> Process]
  BY Zenon, <1>1, <1>4, <1>5, WorkersStill
<1>7. TypeInv'
  BY Zenon, <1>1, <1>3, <1>4, <1>6 DEF TypeInv
<1>8. ASSUME NEW d \in Conn PROVE ConnSound(d)' /\ Refs(d)' \subseteq Refs(d)
  <2>1. \A q \in Router : nextId[q] \in Nat /\ nextId'[q] \in Nat /\ nextId[q] <= nextId'[q]
    BY <1>1 DEF TypeInv
  <2>2. CASE d # c
    BY Zenon, <1>1, <1>4, <2>1, <2>2, OthersSound DEF Aside
  <2>3. CASE d = c
    BY Zenon, <1>4, <2>3, IdleFacts
  <2>. QED BY Zenon, <2>2, <2>3
<1>9. SameLoads /\ KnownRefs
  BY Zenon, <1>4, <1>8, IdleFacts DEF SameLoads, KnownRefs, Aside, Loading, LoadPC
<1>10. /\ ~ worker[<<r, n>>].unsaved
       /\ \A d \in Conn \ {c} : conn[d].r = r => conn[d].pc \notin Loading
       /\ \A i \in targets[r] : worker[<<r, i>>].q.db # worker[<<r, n>>].q.db
  BY Zenon, <1>1, <1>2 DEF Handlers, LoadSound
<1>11. ASSUME NEW d \in Conn PROVE LoadSound(d)'
  <2>1. CASE d = c
    BY Zenon, <1>4, <2>1, IdleFacts
  <2>2. CASE d # c /\ conn[d].r = r
    BY Zenon, <1>4, <1>10, <2>2 DEF LoadSound, Aside
  <2>3. CASE d # c /\ conn[d].r # r
    BY Zenon, <1>3, <1>6, <1>9, <2>3, TameFacts, LoadsKept DEF TypeInv
  <2>. QED BY Zenon, <2>1, <2>2, <2>3
<1>12. TargetsSound'
  <2>1. ASSUME NEW q \in Router
        PROVE  /\ \A i \in targets'[q] : i < nextId'[q]
               /\ \A i, j \in targets'[q] :
                    worker'[<<q, i>>].q.db = worker'[<<q, j>>].q.db => i = j
    <3>1. /\ \A i \in targets[q] : i < nextId[q]
          /\ \A i, j \in targets[q] : worker[<<q, i>>].q.db = worker[<<q, j>>].q.db => i = j
      BY Zenon DEF Handlers, TargetsSound
    <3>2. targets'[q] = IF q = r THEN targets[r] \cup {n} ELSE targets[q]
      BY Zenon, <1>3 DEF TypeInv
    <3>. QED BY <1>1, <1>2, <1>10, <3>1, <3>2
  <2>. QED BY Zenon, <2>1 DEF TargetsSound
<1>13. Hands(c)
  <2>1. ASSUME NEW w \in Worker
        PROVE  Claims(c, w) \/ Listed(w) => Listed(w)'
    <3>1. RouterOf(w) \in Router /\ w = <<RouterOf(w), IdOf(w)>>
      BY WorkerTypes
    <3>2. conn[c].pc = "load_insert"
      BY ZenonT(40) DEF LoadInsert
    <3>3. Claims(c, w) => w = <<r, n>>
      BY Zenon, <1>2, <3>2 DEF Claims, StopPC
    <3>4. w = <<r, n>> => RouterOf(w) = r /\ IdOf(w) = n
      BY DEF RouterOf, IdOf
    <3>. QED BY Zenon, <1>3, <3>1, <3>3, <3>4 DEF Listed, TypeInv
  <2>. QED BY Zenon, <1>6, <2>1 DEF Hands, Tame
<1>14. Passes(c)
  BY ZenonT(40), <1>4, <1>13, IdleFacts DEF Passes, Leads, ShutdownPC
<1>. QED BY Zenon, <1>6, <1>7, <1>8, <1>11, <1>12, <1>14 DEF DaemonInv, Handlers

\* A handler begins to load worker w.
Spawns(c, w) == conn' = [conn EXCEPT ![c].pc = "boot", ![c].w = w]

\* It then refers to w and keeps its request.
LEMMA SpawnFacts ==
    ASSUME TypeInv, NEW c \in Conn, NEW w \in Worker, Spawns(c, w)
    PROVE  /\ Aside(c) /\ conn' \in [Conn -> Handler]
           /\ conn'[c].pc = "boot" /\ conn'[c].r = conn[c].r
           /\ conn'[c].w = w /\ conn'[c].todo = conn[c].todo
<1>1. Aside(c)
  BY Zenon DEF TypeInv, Aside, Spawns
<1>2. conn[c] \in Handler /\ conn'[c] = [conn[c] EXCEPT !.pc = "boot", !.w = w]
  BY Zenon DEF TypeInv, Spawns
<1>3. /\ conn'[c].pc = "boot" /\ conn'[c].r = conn[c].r
      /\ conn'[c].w = w /\ conn'[c].todo = conn[c].todo /\ conn'[c] \in Handler
  <2>. "boot" \in ConnPC
    BY Zenon DEF ConnPC, LoadPC
  <2>. QED BY Zenon, <1>2 DEF Handler
<1>4. conn' = [conn EXCEPT ![c] = conn'[c]]
  BY Zenon, <1>1, <1>2 DEF TypeInv, Spawns
<1>5. conn' \in [Conn -> Handler]
  BY Zenon, <1>3, <1>4 DEF TypeInv
<1>. QED BY Zenon, <1>1, <1>3, <1>5

\* A worker is started under the load lock, or the load is refused.
LEMMA LoadSpawnInv ==
    ASSUME DaemonInv, NEW c \in Conn, LoadSpawn(c)
    PROVE  DaemonInv' /\ Passes(c)
<1>. TypeInv /\ Handlers /\ Workers /\ MainKept
  BY Zenon DEF DaemonInv, LoadSpawn, MainKept
<1>1. /\ conn[c].pc = "load_lock" /\ conn[c].pc \notin Waiting /\ conn[c].pc # "idle"
      /\ conn[c].pc \notin Loading \cup OpPC \cup StopPC
      /\ main' = main /\ targets' = targets
  BY Zenon DEF LoadSpawn, Loading, LoadPC, OpPC, StopPC, Waiting
<1>2. PICK r \in Router : r = conn[c].r /\ main[r] # "off"
  BY Zenon, <1>1 DEF Handlers, ConnSound
<1>3. conn[c].w = None /\ conn[c].todo = {} /\ Refs(c) = {}
  BY ZenonT(40), <1>1 DEF Handlers, ConnSound, Refs
<1>4. \A d \in Conn : conn[d].r = r => conn[d].pc \notin Loading
  BY Zenon, <1>2 DEF LoadSpawn, HoldsLoadLock, Loading
<1>5. \A v \in Worker : Absent(c, worker[v].queue)
  BY Zenon, <1>1, NotQueued DEF Workers
<1>6. CASE Finish(c) /\ nextId' = nextId /\ worker' = worker
  <2>1. \A v \in Worker : ~Claims(c, v)
    BY Zenon, <1>1, <1>3, DaemonAssumption DEF Claims
  <2>. QED BY Zenon, <1>1, <1>5, <1>6, <2>1, FinishFacts, WorkersStill, StayInv
<1>7. CASE /\ ~FindLoadConflict(r, conn[c].q) /\ nextId[r] <= MaxTargets
           /\ nextId' = [nextId EXCEPT ![r] = @ + 1]
           /\ worker' = [worker EXCEPT ![<<r, nextId[r]>>] =
                           [NoProcess EXCEPT !.st = "boot", !.q = conn[c].q]]
           /\ Spawns(c, <<r, nextId[r]>>)
  <2>1. PICK n \in Id : n = nextId[r]
    BY <1>7, DaemonAssumption DEF TypeInv, Id
  <2>2. PICK w \in Worker : w = <<r, n>>
    BY ZenonT(40) DEF Worker
  <2>3. RouterOf(w) = r /\ IdOf(w) = n /\ n \in Nat /\ w # None
    BY <2>2, DaemonAssumption DEF RouterOf, IdOf, Id
  <2>4. Spawns(c, w)
    BY Zenon, <1>7, <2>1, <2>2 DEF Spawns
  <2>5. /\ Aside(c) /\ conn' \in [Conn -> Handler]
        /\ conn'[c].pc = "boot" /\ conn'[c].r = r /\ conn'[c].w = w /\ conn'[c].todo = {}
    BY Zenon, <1>2, <1>3, <2>4, SpawnFacts
  <2>6. Refs(c)' = {w}
    BY Zenon, <2>3, <2>5 DEF Refs
  <2>7. /\ nextId' \in [Router -> Nat \ {0}] /\ nextId'[r] = n + 1
        /\ \A q \in Router : nextId[q] \in Nat /\ nextId'[q] \in Nat /\ nextId[q] <= nextId'[q]
    BY <1>7, <2>1 DEF TypeInv
  <2>8. PICK p : p = [NoProcess EXCEPT !.st = "boot", !.q = conn[c].q]
    BY Zenon
  <2>9. /\ p \in Process /\ p.st = "boot" /\ p.q = conn[c].q /\ p.queue = <<>> /\ ~p.unsaved
    <3>1. conn[c].q \in LoadRequest \cup {None} /\ <<>> \in Seq(QueueItem)
      BY HandlerTypes, QueueEmpty
    <3>. QED BY ZenonT(40), <2>8, <3>1 DEF NoProcess, Process
  <2>10. /\ worker' \in [Worker -> Process] /\ worker'[w] = p
         /\ \A v \in Worker \ {w} : worker'[v] = worker[v]
    BY Zenon, <1>7, <2>1, <2>2, <2>8, <2>9 DEF TypeInv
  <2>11. TypeInv'
    BY Zenon, <1>1, <2>5, <2>7, <2>10 DEF TypeInv
  <2>12. Workers'
    <3>1. WorkerSound(w)'
      BY <1>1, <1>2, <2>3, <2>9, <2>10, QueueEmpty DEF WorkerSound, Alive
    <3>. QED BY Zenon, <1>5, <2>5, <2>10, <3>1, WorkersStep
  <2>13. ASSUME NEW d \in Conn \ {c} PROVE ConnSound(d)' /\ Refs(d)' = Refs(d)
    BY Zenon, <1>1, <2>5, <2>7, OthersSound DEF Aside
  <2>14. ConnSound(c)'
    BY <1>1, <1>2, <2>3, <2>5, <2>6, <2>7
    DEF ConnSound, Loading, LoadPC, OpPC, StopPC
  <2>15. \A d \in Conn : w \notin Refs(d)
    BY <2>1, <2>3 DEF Handlers, ConnSound
  <2>16. \A q \in Router : \A i \in targets[q] : i < nextId[q] /\ <<q, i>> \in Worker \ {w}
    <3>1. TAKE q \in Router
    <3>2. TAKE i \in targets[q]
    <3>3. i < nextId[q] /\ i \in Id /\ <<q, i>> \in Worker
      BY Zenon DEF Handlers, TargetsSound, TypeInv, Worker
    <3>4. <<q, i>> # w
      BY <2>1, <2>2, <2>3, <3>3 DEF Id
    <3>. QED BY Zenon, <3>3, <3>4
  <2>17. LoadSound(c)'
    <3>1. \A i \in targets[r] : i # n /\ worker[<<r, i>>].q.db # conn[c].q.db
      BY <1>7, <2>1, <2>3, <2>16 DEF FindLoadConflict
    <3>2. \A i \in targets'[r] : i # IdOf(w) /\ worker'[<<r, i>>].q.db # worker'[w].q.db
      BY Zenon, <1>1, <2>3, <2>9, <2>10, <2>16, <3>1
    <3>3. \A d \in Conn \ {c} : conn'[d].r = r => conn'[d].pc \notin Loading
      BY Zenon, <1>4, <2>5 DEF Aside
    <3>. QED BY Zenon, <2>5, <2>9, <2>10, <2>13, <2>15, <3>2, <3>3 DEF LoadSound
  <2>18. ASSUME NEW d \in Conn \ {c} PROVE LoadSound(d)'
    <3>. SUFFICES ASSUME conn[d].pc \in Loading PROVE LoadSound(d)'
      BY ZenonT(40), <2>5 DEF LoadSound, Aside
    <3>1. conn'[d] = conn[d]
      BY Zenon, <2>5 DEF Aside
    <3>2. conn[d].r # r /\ conn[d].r \in Router /\ conn[d].w \in Worker \ {w}
          /\ conn[d].w \in Refs(d)
      BY Zenon, <1>4, <2>3, AtWorker
    <3>3. /\ ~ worker[conn[d].w].unsaved
          /\ \A e \in Conn \ {d} : conn[d].w \notin Refs(e)
          /\ \A e \in Conn \ {d} : conn[e].r = conn[d].r => conn[e].pc \notin Loading
          /\ \A i \in targets[conn[d].r] :
               /\ i # IdOf(conn[d].w)
               /\ worker[<<conn[d].r, i>>].q.db # worker[conn[d].w].q.db
      BY ZenonT(40) DEF Handlers, LoadSound
    <3>4. ~ worker'[conn[d].w].unsaved
      BY Zenon, <2>10, <3>2, <3>3
    <3>5. \A e \in Conn \ {d} : conn[d].w \notin Refs(e)'
      BY <2>6, <2>13, <3>2, <3>3
    <3>6. \A e \in Conn \ {d} : conn'[e].r = conn[d].r => conn'[e].pc \notin Loading
      BY Zenon, <2>5, <3>2, <3>3 DEF Aside
    <3>7. \A i \in targets'[conn[d].r] :
            /\ i # IdOf(conn[d].w)
            /\ worker'[<<conn[d].r, i>>].q.db # worker'[conn[d].w].q.db
      BY ZenonT(40), <1>1, <2>10, <2>16, <3>2, <3>3
    <3>. QED BY Zenon, <3>1, <3>4, <3>5, <3>6, <3>7 DEF LoadSound
  <2>19. TargetsSound'
    <3>1. ASSUME NEW q \in Router
          PROVE  /\ \A i \in targets'[q] : i < nextId'[q]
                 /\ \A i, j \in targets'[q] :
                      worker'[<<q, i>>].q.db = worker'[<<q, j>>].q.db => i = j
      <4>1. \A i \in targets'[q] : i < nextId'[q]
        <5>1. \A i \in targets[q] : i < nextId[q] /\ i \in Nat
          <6>1. targets[q] \subseteq Nat
            BY DaemonAssumption DEF TypeInv, Id
          <6>. QED BY ZenonT(40), <2>16, <6>1
        <5>2. nextId[q] \in Nat /\ nextId'[q] \in Nat /\ nextId[q] <= nextId'[q]
          BY Zenon, <2>7
        <5>. QED BY <1>1, <5>1, <5>2
      <4>2. \A i \in targets[q] : worker'[<<q, i>>] = worker[<<q, i>>]
        BY <2>10, <2>16
      <4>. QED BY ZenonT(40), <1>1, <4>1, <4>2 DEF Handlers, TargetsSound
    <3>. QED BY Zenon, <3>1 DEF TargetsSound
  <2>20. Leads(c)
    BY Zenon, <1>1, <1>2, <2>5 DEF Leads, ShutdownPC
  <2>21. Hands(c)
    <3>1. Claims(c, w)'
      BY Zenon, <2>5 DEF Claims, LoadPC
    <3>2. \A v \in Worker \ {w} : (Alive(v)' => Alive(v)) /\ (Listed(v) => Listed(v)')
      BY Zenon, <1>1, <2>10 DEF Alive, Listed
    <3>3. \A v \in Worker : ~Claims(c, v)
      BY Zenon, <1>1, <1>3, DaemonAssumption DEF Claims
    <3>. QED BY Zenon, <3>1, <3>2, <3>3 DEF Hands
  <2>. QED BY Zenon, <2>5, <2>11, <2>12, <2>13, <2>14, <2>17, <2>18, <2>19, <2>20, <2>21
       DEF DaemonInv, Handlers, Passes
<1>8. \/ Finish(c) /\ nextId' = nextId /\ worker' = worker
      \/ /\ ~FindLoadConflict(r, conn[c].q) /\ nextId[r] <= MaxTargets
         /\ nextId' = [nextId EXCEPT ![r] = @ + 1]
         /\ worker' = [worker EXCEPT ![<<r, nextId[r]>>] =
                         [NoProcess EXCEPT !.st = "boot", !.q = conn[c].q]]
         /\ Spawns(c, <<r, nextId[r]>>)
  BY Zenon, <1>2, Zenon DEF LoadSpawn, Spawns
<1>. QED BY Zenon, <1>6, <1>7, <1>8

-----------------------------------------------------------------------------
(* The actions of a worker.                                                *)

\* No handler moves.
LEMMA HandlersStill ==
    ASSUME TypeInv, Handlers, MainKept, conn' = conn, targets' = targets, nextId' = nextId,
           SameRequests, ChangesAreAnswers
    PROVE  Handlers'
<1>1. ASSUME NEW d \in Conn PROVE ConnSound(d)' /\ Refs(d)' = Refs(d)
  <2>1. \A r \in Router : nextId[r] \in Nat /\ nextId'[r] \in Nat /\ nextId[r] <= nextId'[r]
    BY DEF TypeInv
  <2>. QED BY Zenon, <2>1, OthersSound DEF MainKept
<1>2. SameLoads /\ KnownRefs /\ FewerTargets
  BY Zenon, <1>1 DEF SameLoads, KnownRefs, FewerTargets
<1>3. \A d \in Conn : LoadSound(d)'
  BY Zenon, <1>2, LoadsKept DEF FewerTargets
<1>4. TargetsSound'
  BY Zenon, <1>2, TargetsKept DEF Handlers
<1>. QED BY Zenon, <1>1, <1>3, <1>4 DEF Handlers

\* One worker changes and no handler moves.
LEMMA WorkerInv ==
    ASSUME DaemonInv, conn' = conn, main' = main, targets' = targets, nextId' = nextId,
           NEW w \in Worker, worker' \in [Worker -> Process], Tame,
           \A v \in Worker \ {w} : worker'[v] = worker[v], WorkerSound(w)'
    PROVE  DaemonInv' /\ NoStart
<1>. TypeInv /\ Handlers /\ Workers /\ MainKept
  BY Zenon DEF DaemonInv, MainKept
<1>1. TypeInv'
  BY Zenon DEF TypeInv
<1>2. Handlers'
  BY Zenon, TameFacts, HandlersStill
<1>3. ASSUME NEW v \in Worker \ {w} PROVE WorkerSound(v)'
  BY Zenon DEF Workers, WorkerSound, Alive
<1>. QED BY Zenon, <1>1, <1>2, <1>3 DEF DaemonInv, Workers, Tame, NoStart

\* run_worker reaches its accept loop.
LEMMA WorkerUpInv ==
    ASSUME DaemonInv, NEW w \in Worker, WorkerUp(w)
    PROVE  DaemonInv' /\ NoStart
<1>. TypeInv /\ Workers
  BY Zenon DEF DaemonInv
<1>1. /\ worker' = [worker EXCEPT ![w].st = "run"] /\ worker[w].st = "boot"
      /\ conn' = conn /\ main' = main /\ targets' = targets /\ nextId' = nextId
  BY Zenon DEF WorkerUp, routerVars
<1>2. worker[w] \in Process /\ worker'[w] = [worker[w] EXCEPT !.st = "run"]
      /\ \A v \in Worker \ {w} : worker'[v] = worker[v]
  BY Zenon, <1>1 DEF TypeInv
<1>3. /\ worker'[w] \in Process /\ worker'[w].queue = worker[w].queue /\ worker'[w].st = "run"
      /\ worker'[w].q = worker[w].q /\ worker'[w].unsaved = worker[w].unsaved
  BY Zenon, <1>2 DEF Process
<1>4. worker' \in [Worker -> Process]
  BY Zenon, <1>1, <1>2, <1>3 DEF TypeInv
<1>5. Tame
  BY Zenon, <1>1, <1>2, <1>3 DEF Tame, Alive
<1>6. WorkerSound(w)'
  BY Zenon, <1>1, <1>3 DEF Workers, WorkerSound, Alive
<1>. QED BY Zenon, <1>1, <1>2, <1>4, <1>5, <1>6, WorkerInv

\* The Exit message joins the queue.
LEMMA PostExitInv ==
    ASSUME DaemonInv, NEW w \in Worker, PostExit(w)
    PROVE  DaemonInv' /\ NoStart
<1>. TypeInv /\ Workers
  BY Zenon DEF DaemonInv
<1>. DEFINE Q == Append(worker[w].queue, Item(None, "exit"))
<1>1. /\ worker' = [worker EXCEPT ![w].exit = "sent", ![w].queue = Append(@, Item(None, "exit"))]
      /\ worker[w].st = "run"
      /\ conn' = conn /\ main' = main /\ targets' = targets /\ nextId' = nextId
  BY Zenon DEF PostExit, routerVars
<1>2. /\ worker[w] \in Process /\ worker[w].queue \in Seq(QueueItem)
      /\ Matches(worker[w].queue, w, conn)
  BY Zenon, WorkerTypes DEF Workers, WorkerSound
<1>3. Matches(Q, w, conn) /\ Q \in Seq(QueueItem)
  <2>1. Item(None, "exit") \in QueueItem /\ Item(None, "exit").c = None
    BY Zenon DEF Item, QueueItem
  <2>. QED BY Zenon, <1>2, <2>1, QueueAppend
<1>4. worker'[w] = [worker[w] EXCEPT !.exit = "sent", !.queue = Q]
      /\ \A v \in Worker \ {w} : worker'[v] = worker[v]
  BY Zenon, <1>1, <1>2 DEF TypeInv, Process
<1>. HIDE DEF Q
<1>5. /\ worker'[w] \in Process /\ worker'[w].queue = Q /\ worker'[w].st = worker[w].st
      /\ worker'[w].q = worker[w].q /\ worker'[w].unsaved = worker[w].unsaved
  BY Zenon, <1>2, <1>3, <1>4 DEF Process
<1>6. worker' = [v \in Worker |-> worker'[v]]
  BY Zenon, <1>1 DEF TypeInv
<1>7. worker' \in [Worker -> Process]
  BY Zenon, <1>4, <1>5, <1>6 DEF TypeInv
<1>8. Tame
  BY Zenon, <1>4, <1>5 DEF Tame, Alive
<1>9. WorkerSound(w)'
  BY Zenon, <1>1, <1>3, <1>5 DEF Workers, WorkerSound, Alive
<1>. QED BY Zenon, <1>1, <1>4, <1>7, <1>8, <1>9, WorkerInv

\* A worker exits or crashes.
LEMMA WorkerEndInv ==
    ASSUME DaemonInv, NEW w \in Worker, WorkerExit(w) \/ WorkerCrash(w)
    PROVE  DaemonInv' /\ NoStart
<1>. TypeInv
  BY Zenon DEF DaemonInv
<1>1. /\ worker' = Ended(w)
      /\ conn' = conn /\ main' = main /\ targets' = targets /\ nextId' = nextId
  BY ZenonT(40) DEF WorkerExit, WorkerCrash, routerVars
<1>2. /\ worker' \in [Worker -> Process] /\ Tame
      /\ \A v \in Worker \ {w} : worker'[v] = worker[v]
      /\ worker'[w].st = "gone" /\ worker'[w].queue = <<>>
  BY Zenon, <1>1, EndedFacts
<1>3. WorkerSound(w)'
  BY Zenon, <1>2, QueueEmpty DEF WorkerSound, Alive
<1>. QED BY Zenon, <1>1, <1>2, <1>3, WorkerInv

\* What answering the head of the queue does to the worker.
LEMMA DispatchWorker ==
    ASSUME TypeInv, Workers, NEW w \in Worker, Dispatch(w)
    PROVE  LET item == Head(worker[w].queue)
           IN /\ worker' \in [Worker -> Process]
              /\ \A v \in Worker \ {w} : worker'[v] = worker[v]
              /\ worker'[w].queue = Tail(worker[w].queue)
              /\ worker'[w].q = worker[w].q /\ worker'[w].st = worker[w].st
              /\ worker'[w].unsaved =>
                   worker[w].unsaved \/ (item.op = "write" /\ item.c # None)
<1>. DEFINE item == Head(worker[w].queue)
            T == Tail(worker[w].queue)
<1>1. worker[w] \in Process /\ T \in Seq(QueueItem)
  BY Zenon, WorkerTypes, QueueTail DEF Workers, WorkerSound, Dispatch
<1>2. PICK next : next = [worker[w] EXCEPT !.queue = T]
  BY Zenon
<1>3. /\ next \in Process /\ next.queue = T /\ next.q = worker[w].q
      /\ next.st = worker[w].st /\ next.unsaved = worker[w].unsaved
  BY Zenon, <1>1, <1>2 DEF Process
<1>4. PICK p : /\ worker' = [worker EXCEPT ![w] = p]
               /\ \/ \E ok \in BOOLEAN : p = [next EXCEPT !.loaded = ok]
                  \/ p = next
                  \/ p = [next EXCEPT !.unsaved = TRUE] /\ item.op = "write" /\ item.c # None
                  \/ p = [next EXCEPT !.exit = "due"]
  <2>1. CASE item.op = "load"
    BY Zenon, <1>2, <2>1, Zenon DEF Dispatch
  <2>2. CASE item.op \in {"read", "write", "unknown"}
    BY Zenon, <1>2, <2>2 DEF Dispatch
  <2>3. CASE item.op = "shutdown"
    BY Zenon, <1>2, <2>3 DEF Dispatch
  <2>. QED BY Zenon, <2>1, <2>2, <2>3 DEF Dispatch
<1>. HIDE DEF item, T
<1>5. /\ p \in Process /\ p.queue = T /\ p.q = worker[w].q /\ p.st = worker[w].st
      /\ p.unsaved => worker[w].unsaved \/ (item.op = "write" /\ item.c # None)
  <2>1. CASE \E ok \in BOOLEAN : p = [next EXCEPT !.loaded = ok]
    BY Zenon, <1>3, <2>1 DEF Process
  <2>2. CASE p = next
    BY <1>3, <2>2
  <2>3. CASE p = [next EXCEPT !.unsaved = TRUE] /\ item.op = "write" /\ item.c # None
    BY ZenonT(40), <1>3, <2>3 DEF Process
  <2>4. CASE p = [next EXCEPT !.exit = "due"]
    BY Zenon, <1>3, <2>4 DEF Process
  <2>. QED BY Zenon, <1>4, <2>1, <2>2, <2>3, <2>4
<1>6. /\ worker' \in [Worker -> Process] /\ worker'[w] = p
      /\ \A v \in Worker \ {w} : worker'[v] = worker[v]
  BY Zenon, <1>4, <1>5 DEF TypeInv
<1>. QED BY Zenon, <1>5, <1>6 DEF item, T

\* What it does to the handler that waits for the answer.
LEMMA DispatchHandler ==
    ASSUME TypeInv, NEW w \in Worker, Dispatch(w), NEW c \in Conn,
           c = Head(worker[w].queue).c,
           conn[c].pc = WaitAt(Head(worker[w].queue).op)
    PROVE  /\ Aside(c) /\ conn' \in [Conn -> Handler]
           /\ Stays(c) \/ (conn'[c] = IdleConn /\ conn[c].pc = "op_wait")
<1>. DEFINE op == Head(worker[w].queue).op
<1>0. c # None
  BY DaemonAssumption
<1>1. CASE op = "load"
  <2>1. ConnGoto(c, "load_insert") \/ ConnGoto(c, "load_kill")
    BY ZenonT(40), <1>0, <1>1, Zenon DEF Dispatch
  <2>2. conn[c].pc = "load_wait"
    BY Zenon, <1>1 DEF WaitAt
  <2>3. /\ {"load_insert", "load_kill"} \subseteq ConnPC
        /\ {"load_insert", "load_kill", "load_wait"} \subseteq Loading
    BY Zenon DEF ConnPC, Loading, LoadPC
  <2>. QED BY Zenon, <2>1, <2>2, <2>3, GotoFacts DEF Stays
<1>2. CASE op \in {"read", "write", "unknown"}
  <2>1. Finish(c)
    BY ZenonT(40), <1>0, <1>2 DEF Dispatch
  <2>2. conn[c].pc = "op_wait"
    BY Zenon, <1>2 DEF WaitAt
  <2>. QED BY <2>1, <2>2, FinishFacts
<1>3. CASE op = "shutdown"
  <2>1. ConnGoto(c, "stop_exit")
    BY ZenonT(40), <1>0, <1>3 DEF Dispatch
  <2>2. conn[c].pc = "stop_wait"
    BY Zenon, <1>3 DEF WaitAt
  <2>3. "stop_exit" \in ConnPC /\ {"stop_wait", "stop_exit"} \subseteq StopPC
    BY Zenon DEF ConnPC, StopPC
  <2>. QED BY Zenon, <2>1, <2>2, <2>3, GotoFacts DEF Stays
<1>. QED BY Zenon, <1>1, <1>2, <1>3 DEF Dispatch

\* The worker answers the head of its queue.
LEMMA DispatchInv ==
    ASSUME DaemonInv, NEW w \in Worker, Dispatch(w)
    PROVE  /\ DaemonInv' /\ NoStart
           /\ conn' = conn \/ \E c \in Conn : Passes(c) /\ conn[c].pc \notin ShutdownPC
<1>. TypeInv /\ Handlers /\ Workers /\ MainKept
  BY Zenon DEF DaemonInv, Dispatch, MainKept
<1>. DEFINE T == Tail(worker[w].queue)
<1>0. PICK item : item = Head(worker[w].queue)
  BY Zenon
<1>1. /\ main' = main /\ targets' = targets /\ nextId' = nextId
      /\ worker[w].st = "run" /\ worker[w].queue # <<>>
  BY ZenonT(40) DEF Dispatch, routerVars
<1>2. /\ worker' \in [Worker -> Process]
      /\ \A v \in Worker \ {w} : worker'[v] = worker[v]
      /\ worker'[w].queue = T /\ worker'[w].q = worker[w].q /\ worker'[w].st = "run"
      /\ worker'[w].unsaved => worker[w].unsaved \/ (item.op = "write" /\ item.c # None)
  BY <1>0, <1>1, DispatchWorker
<1>3. worker[w].queue \in Seq(QueueItem) /\ Matches(worker[w].queue, w, conn)
      /\ main[RouterOf(w)] # "off"
  BY Zenon, <1>1, WorkerTypes DEF Workers, WorkerSound, Alive
<1>4. /\ Matches(T, w, conn) /\ T \in Seq(QueueItem)
      /\ item = worker[w].queue[1] /\ 1 \in DOMAIN worker[w].queue /\ item \in QueueItem
      /\ item.c # None => Absent(item.c, T)
  BY Zenon, <1>0, <1>1, <1>3, QueueTail
<1>. HIDE DEF T
<1>5. SameRequests /\ NoStart
  BY ZenonT(40), <1>1, <1>2 DEF SameRequests, NoStart, Alive
<1>6. CASE item.c = None
  <2>1. conn' = conn
    BY ZenonT(40), <1>0, <1>6 DEF Dispatch
  <2>2. Tame
    BY Zenon, <1>1, <1>2, <1>6 DEF Tame, Alive
  <2>3. WorkerSound(w)'
    BY ZenonT(40), <1>1, <1>2, <1>3, <1>4, <2>1 DEF WorkerSound, Alive
  <2>. QED BY Zenon, <1>1, <1>2, <1>5, <2>1, <2>2, <2>3, WorkerInv
<1>7. CASE item.c # None
  <2>1. PICK c \in Conn : c = item.c
    BY Zenon, <1>4, <1>7 DEF QueueItem
  <2>2. conn[c].w = w /\ conn[c].pc = WaitAt(item.op)
    BY Zenon, <1>3, <1>4, <1>7, <2>1 DEF Matches
  <2>3. /\ Aside(c) /\ conn' \in [Conn -> Handler]
        /\ Stays(c) \/ (conn'[c] = IdleConn /\ conn[c].pc = "op_wait")
    BY ZenonT(40), <1>0, <2>1, <2>2, DispatchHandler
  <2>4. ChangesAreAnswers
    <3>1. item.op = "write" => conn[c].pc = "op_wait"
      BY Zenon, <2>2 DEF WaitAt
    <3>. QED BY Zenon, <1>2, <2>2, <3>1 DEF ChangesAreAnswers
  <2>5. Handlers'
    BY Zenon, <1>1, <1>5, <2>3, <2>4, HandlersStay
  <2>6. Matches(T, w, conn')
    BY Zenon, <1>4, <1>7, <2>1, <2>3, QueueKept DEF Aside
  <2>7. WorkerSound(w)'
    BY ZenonT(40), <1>1, <1>2, <1>3, <2>6 DEF WorkerSound, Alive
  <2>8. \A v \in Worker \ {w} : Absent(c, worker[v].queue)
    BY Zenon, <2>2, NotQueued DEF Workers
  <2>9. Workers'
    BY Zenon, <1>2, <2>3, <2>7, <2>8, WorkersStep
  <2>10. TypeInv'
    BY Zenon, <1>1, <1>2, <2>3 DEF TypeInv
  <2>11. Passes(c) /\ conn[c].pc \notin ShutdownPC
    <3>1. conn[c].pc = "op_wait" => \A v \in Worker : ~Claims(c, v)
      BY Zenon, ClaimFacts DEF Loading, LoadPC, StopPC
    <3>2. conn[c].pc \notin ShutdownPC
      BY Zenon, <2>2 DEF WaitAt, ShutdownPC
    <3>. QED BY ZenonT(40), <1>1, <1>5, <2>3, <3>1, <3>2, StayPasses
  <2>. QED BY Zenon, <1>5, <2>5, <2>9, <2>10, <2>11 DEF DaemonInv
<1>. QED BY Zenon, <1>6, <1>7

-----------------------------------------------------------------------------
(* The actions of a router.                                                *)

\* The steps of run_router that only move main.
QuietRouterStep(r) ==
    \/ RouterStart(r) \/ EnsureSingleInstance(r) \/ RemoveStale(r) \/ SweepWorkerSockets(r)
    \/ BindSocket(r) \/ WriteRegistry(r) \/ AcceptLoopEnds(r)
    \/ main[r] = "clean_socket" /\ RouterCleanup(r)
\* The steps that end the process.
RouterEnds(r) == RouterCrash(r) \/ (main[r] = "clean_registry" /\ RouterCleanup(r))

\* A quiet step leads to a place of run_router and never back to "off".
LEMMA QuietFacts ==
    ASSUME NEW r \in Router, QuietRouterStep(r)
    PROVE  /\ conn' = conn /\ worker' = worker /\ targets' = targets /\ nextId' = nextId
           /\ \E label \in MainPC \ {"off"} : Goto(r, label)
           /\ main[r] # "gone"
<1>. USE DEF MainPC, Starting, Leaving, routerVars
<1>1. CASE \/ RouterStart(r) \/ EnsureSingleInstance(r) \/ SweepWorkerSockets(r)
           \/ BindSocket(r) \/ WriteRegistry(r)
  BY ZenonT(40), <1>1 DEF RouterStart, EnsureSingleInstance, SweepWorkerSockets, BindSocket, WriteRegistry
<1>2. CASE RemoveStale(r)
  BY Zenon, <1>2 DEF RemoveStale
<1>3. CASE AcceptLoopEnds(r) \/ (main[r] = "clean_socket" /\ RouterCleanup(r))
  BY Zenon, <1>3 DEF AcceptLoopEnds, RouterCleanup
<1>. QED BY Zenon, <1>1, <1>2, <1>3 DEF QuietRouterStep

\* Quiet steps keep the invariant.
LEMMA QuietInv ==
    ASSUME DaemonInv, NEW r \in Router, QuietRouterStep(r)
    PROVE  DaemonInv'
<1>. TypeInv /\ Handlers /\ Workers
  BY Zenon DEF DaemonInv
<1>1. PICK label \in MainPC \ {"off"} : Goto(r, label)
  BY Zenon, QuietFacts
<1>2. conn' = conn /\ worker' = worker /\ targets' = targets /\ nextId' = nextId
  BY Zenon, QuietFacts
<1>3. MainKept /\ main' \in [Router -> MainPC]
  BY Zenon, <1>1 DEF Goto, TypeInv, MainKept
<1>4. TypeInv'
  BY Zenon, <1>2, <1>3 DEF TypeInv
<1>5. SameRequests /\ ChangesAreAnswers
  BY Zenon, <1>2 DEF SameRequests, ChangesAreAnswers
<1>6. Handlers'
  BY Zenon, <1>2, <1>3, <1>5, HandlersStill
<1>7. ASSUME NEW v \in Worker PROVE WorkerSound(v)'
  BY Zenon, <1>2, <1>3, WorkerTypes DEF Workers, WorkerSound, Alive, MainKept
<1>. QED BY Zenon, <1>4, <1>6, <1>7 DEF DaemonInv, Workers

\* When a router ends, its handlers end and nobody waits for its workers.
LEMMA RouterGoneFacts ==
    ASSUME TypeInv, Workers, Handlers, NEW r \in Router, RouterGone(r)
    PROVE  /\ main' \in [Router -> MainPC] /\ MainKept /\ main'[r] = "gone"
           /\ \A q \in Router \ {r} : main'[q] = main[q]
           /\ conn' \in [Conn -> Handler] /\ worker' \in [Worker -> Process]
           /\ \A c \in Conn : conn'[c] = IF conn[c].r = r THEN IdleConn ELSE conn[c]
           /\ Tame /\ Workers'
<1>1. /\ main' \in [Router -> MainPC] /\ MainKept /\ main'[r] = "gone"
      /\ \A q \in Router \ {r} : main'[q] = main[q]
  BY ZenonT(40) DEF RouterGone, Goto, TypeInv, MainKept, MainPC
<1>2. IdleConn \in Handler
  BY Zenon DEF IdleConn, Handler, ConnPC
<1>3. /\ conn' \in [Conn -> Handler]
      /\ \A c \in Conn : conn'[c] = IF conn[c].r = r THEN IdleConn ELSE conn[c]
  BY Zenon, <1>2 DEF RouterGone, TypeInv
<1>4. ASSUME NEW w \in Worker
      PROVE  /\ worker'[w] \in Process /\ worker'[w].q = worker[w].q
             /\ worker'[w].st = worker[w].st /\ worker'[w].unsaved = worker[w].unsaved
             /\ WorkerSound(w)'
  <2>1. /\ worker[w] \in Process /\ worker[w].queue \in Seq(QueueItem) /\ RouterOf(w) \in Router
        /\ WorkerSound(w)
    BY Zenon, WorkerTypes DEF Workers
  <2>2. CASE RouterOf(w) = r /\ Alive(w)
    <3>. DEFINE Q == Orphaned(worker[w].queue, Conn)
    <3>1. PICK e \in {"no", "due", "sent"} :
            worker'[w] = [worker[w] EXCEPT !.exit = e, !.queue = Q]
      BY ZenonT(40), <2>1, <2>2 DEF RouterGone, Process
    <3>2. Q \in Seq(QueueItem) /\ \A c \in Conn : Absent(c, Q)
      BY Zenon, <2>1, QueueOrphaned DEF WorkerSound
    <3>. HIDE DEF Q
    <3>3. /\ worker'[w] \in Process /\ worker'[w].q = worker[w].q
          /\ worker'[w].st = worker[w].st /\ worker'[w].unsaved = worker[w].unsaved
          /\ worker'[w].queue = Q
      BY Zenon, <2>1, <3>1, <3>2 DEF Process
    <3>4. \A k \in DOMAIN Q : Q[k].c = None
      <4>1. \A k \in DOMAIN Q : Q[k] \in QueueItem
        BY <3>2
      <4>. QED BY Zenon, <3>2, <4>1 DEF QueueItem, Absent
    <3>5. Matches(Q, w, conn')
      BY Zenon, <3>4 DEF Matches
    <3>6. main'[RouterOf(w)] # "off"
      BY <1>1, <2>2
    <3>. QED BY Zenon, <2>2, <3>3, <3>5, <3>6 DEF WorkerSound, Alive
  <2>3. CASE ~(RouterOf(w) = r /\ Alive(w))
    <3>1. worker'[w] = worker[w]
      BY ZenonT(40), <2>3 DEF RouterGone
    <3>2. CASE ~Alive(w)
      BY Zenon, <2>1, <3>1, <3>2, QueueEmpty DEF WorkerSound, Alive
    <3>3. CASE RouterOf(w) # r /\ Alive(w)
      <4>1. ASSUME NEW k \in DOMAIN worker[w].queue, worker[w].queue[k].c # None
            PROVE  conn'[worker[w].queue[k].c] = conn[worker[w].queue[k].c]
        <5>1. worker[w].queue[k] \in QueueItem
          BY <2>1
        <5>2. PICK c \in Conn : c = worker[w].queue[k].c
          BY Zenon, <4>1, <5>1 DEF QueueItem
        <5>3. conn[c].w = w
          BY ZenonT(40), <2>1, <4>1, <5>2 DEF WorkerSound, Matches
        <5>4. conn[c].r # r
          BY Zenon, <3>3, <5>3, DaemonAssumption DEF Handlers, ConnSound, Refs
        <5>. QED BY <1>3, <5>2, <5>4
      <4>2. Matches(worker[w].queue, w, conn')
        BY Zenon, <2>1, <4>1 DEF WorkerSound, Matches
      <4>3. main'[RouterOf(w)] = main[RouterOf(w)]
        BY Zenon, <1>1, <2>1, <3>3
      <4>. QED BY Zenon, <2>1, <3>1, <4>2, <4>3 DEF WorkerSound, Alive
    <3>. QED BY <2>3, <3>2, <3>3
  <2>. QED BY ZenonT(40), <2>2, <2>3
<1>5. worker' \in [Worker -> Process]
  BY ZenonT(40), <1>4 DEF RouterGone
<1>6. Tame /\ Workers'
  BY Zenon, <1>4 DEF Tame, Workers, Alive
<1>. QED BY Zenon, <1>1, <1>3, <1>5, <1>6

\* A router that ends keeps the invariant.
LEMMA RouterEndsInv ==
    ASSUME DaemonInv, NEW r \in Router, RouterEnds(r)
    PROVE  DaemonInv'
<1>. TypeInv /\ Handlers /\ Workers
  BY Zenon DEF DaemonInv
<1>1. RouterGone(r) /\ targets' = targets /\ nextId' = nextId
  BY Zenon DEF RouterEnds, RouterCrash, RouterCleanup, routerVars
<1>2. /\ main' \in [Router -> MainPC] /\ MainKept
      /\ conn' \in [Conn -> Handler] /\ worker' \in [Worker -> Process]
      /\ \A c \in Conn : conn'[c] = IF conn[c].r = r THEN IdleConn ELSE conn[c]
      /\ Tame /\ Workers'
  BY Zenon, <1>1, RouterGoneFacts
<1>3. TypeInv'
  BY Zenon, <1>1, <1>2 DEF TypeInv
<1>4. ASSUME NEW d \in Conn PROVE ConnSound(d)' /\ Refs(d)' \subseteq Refs(d)
  <2>1. \A q \in Router : nextId[q] \in Nat /\ nextId'[q] \in Nat /\ nextId[q] <= nextId'[q]
    BY <1>1 DEF TypeInv
  <2>2. CASE conn[d].r # r
    BY Zenon, <1>2, <2>1, <2>2, OthersSound DEF MainKept
  <2>3. CASE conn[d].r = r
    BY ZenonT(40), <1>2, <2>3, IdleFacts
  <2>. QED BY Zenon, <2>2, <2>3
<1>5. SameLoads
  BY Zenon, <1>2, IdleFacts DEF SameLoads, Loading, LoadPC
<1>6. KnownRefs /\ FewerTargets
  BY Zenon, <1>1, <1>4 DEF KnownRefs, FewerTargets
<1>7. \A d \in Conn : LoadSound(d)'
  BY Zenon, <1>2, <1>5, <1>6, TameFacts, LoadsKept DEF FewerTargets
<1>8. TargetsSound'
  BY Zenon, <1>1, <1>2, <1>6, TameFacts, TargetsKept DEF Handlers
<1>. QED BY Zenon, <1>2, <1>3, <1>4, <1>7, <1>8 DEF DaemonInv, Handlers

-----------------------------------------------------------------------------
(* The invariant.                                                          *)

\* A step that changes none of this state.
LEMMA SameInv ==
    ASSUME DaemonInv, UNCHANGED <<main, targets, nextId, conn, worker>>
    PROVE  DaemonInv'
BY DEF DaemonInv, TypeInv, Handlers, Workers, ConnSound, LoadSound, TargetsSound, WorkerSound,
       Refs, Alive

\* The initial state is sound.
LEMMA InitInv ==
    ASSUME Init
    PROVE  DaemonInv
<1>1. IdleConn \in Handler /\ NoProcess \in Process
  <2>1. <<>> \in Seq(QueueItem)
    OBVIOUS
  <2>. QED BY Zenon, <2>1 DEF IdleConn, Handler, ConnPC, NoProcess, Process
<1>2. TypeInv
  BY <1>1 DEF Init, TypeInv, MainPC
<1>3. ASSUME NEW c \in Conn PROVE ConnSound(c) /\ LoadSound(c)
  <2>1. conn[c] = IdleConn
    BY Zenon DEF Init
  <2>. QED BY <2>1 DEF IdleConn, ConnSound, LoadSound, Refs, Loading, LoadPC, OpPC, StopPC
<1>4. TargetsSound
  BY Zenon DEF Init, TargetsSound
<1>5. ASSUME NEW w \in Worker PROVE WorkerSound(w)
  <2>1. worker[w] = NoProcess
    BY Zenon DEF Init
  <2>. QED BY <2>1, QueueEmpty DEF NoProcess, WorkerSound, Alive
<1>. QED BY Zenon, <1>2, <1>3, <1>4, <1>5 DEF DaemonInv, Handlers, Workers

\* The steps of the daemon, grouped by what they change.
LEMMA NextCases ==
    ASSUME Next
    PROVE  \/ \E r \in Router : QuietRouterStep(r) \/ RouterEnds(r)
           \/ \E c \in Conn : \/ RequestLoad(c) \/ RequestClose(c) \/ RequestAnalysis(c)
                              \/ RequestShutdown(c) \/ RequestSwitch(c) \/ HandlerStep(c)
           \/ \E w \in Worker : WorkerStep(w) \/ WorkerCrash(w)
<1>1. ASSUME NEW r \in Router, RouterCleanup(r)
      PROVE  main[r] \in {"clean_socket", "clean_registry"}
  BY Zenon, <1>1 DEF RouterCleanup
<1>. QED BY ZenonT(40), <1>1 DEF Next, RouterStep, QuietRouterStep, RouterEnds, Request

\* Every step keeps the invariant.
LEMMA NextInv ==
    ASSUME DaemonInv, [Next]_vars
    PROVE  DaemonInv'
<1>1. CASE UNCHANGED vars
  BY Zenon, <1>1, SameInv DEF vars
<1>2. ASSUME NEW r \in Router, QuietRouterStep(r) \/ RouterEnds(r) PROVE DaemonInv'
  BY Zenon, <1>2, QuietInv, RouterEndsInv
<1>3. ASSUME NEW c \in Conn,
             \/ RequestLoad(c) \/ RequestClose(c) \/ RequestAnalysis(c)
             \/ RequestShutdown(c) \/ RequestSwitch(c)
      PROVE  DaemonInv'
  <2>1. CASE RequestSwitch(c)
    BY Zenon, <2>1, SameInv DEF RequestSwitch
  <2>. QED BY Zenon, <1>3, <2>1, RequestInv
<1>4. ASSUME NEW c \in Conn, HandlerStep(c) PROVE DaemonInv'
  BY Zenon, <1>4, LoadSpawnInv, LoadBootInv, LoadInsertInv, LoadTimeoutInv, LoadKillInv, OpForwardInv,
     OpTimeoutInv, StopSendInv, StopTimeoutInv, WaitChildInv, ShutdownInv, WorkerClosedInv
  DEF HandlerStep
<1>5. ASSUME NEW w \in Worker, WorkerStep(w) \/ WorkerCrash(w) PROVE DaemonInv'
  BY Zenon, <1>5, WorkerUpInv, DispatchInv, PostExitInv, WorkerEndInv DEF WorkerStep
<1>. QED BY Zenon, <1>1, <1>2, <1>3, <1>4, <1>5, NextCases

\* In every state the handlers, the targets and the queues of the workers agree
\* with each other: a worker that is being loaded belongs to one handler, no two
\* targets share a database, and every queued request is either waited for by
\* exactly the handler it names or by nobody.
THEOREM DaemonInvariant == Spec => []DaemonInv
<1>1. Init => DaemonInv
  BY InitInv
<1>2. DaemonInv /\ [Next]_vars => DaemonInv'
  BY NextInv
<1>. QED BY <1>1, <1>2, PTL DEF Spec

-----------------------------------------------------------------------------
(* What a step does to the files, the processes and their owners.          *)

FilesKept == UNCHANGED <<sock, registry, notified, robbed>>

\* A step of handler c, or the answer it waited for.
Serves(c) ==
    /\ Passes(c) /\ main' = main
    /\ Shutdown(c) \/ (FilesKept /\ conn[c].pc \notin ShutdownPC)
\* A step that moves neither a handler nor a router.
Elsewhere ==
    UNCHANGED <<conn, main, targets>> /\ NoStart /\ FilesKept

\* Only a shutdown request touches the public files from a handler.
LEMMA HandlerFrame ==
    ASSUME NEW c \in Conn,
           \/ RequestLoad(c) \/ RequestClose(c) \/ RequestAnalysis(c) \/ RequestShutdown(c)
           \/ HandlerStep(c)
    PROVE  /\ main' = main
           /\ Shutdown(c) \/ (FilesKept /\ conn[c].pc \notin ShutdownPC)
<1>. USE DEF FilesKept, fileVars, ShutdownPC
<1>1. CASE RequestLoad(c) \/ RequestClose(c) \/ RequestAnalysis(c) \/ RequestShutdown(c)
  BY ZenonT(40), <1>1 DEF RequestLoad, RequestClose, RequestAnalysis, RequestShutdown, Accepted
<1>2. CASE LoadSpawn(c) \/ LoadBoot(c) \/ LoadInsert(c) \/ LoadTimeout(c) \/ LoadKill(c)
  BY Zenon, <1>2 DEF LoadSpawn, LoadBoot, LoadInsert, LoadTimeout, LoadKill
<1>3. CASE OpForward(c) \/ OpTimeout(c) \/ WorkerClosed(c)
  BY Zenon, <1>3 DEF OpForward, OpTimeout, WorkerClosed
<1>4. CASE StopSend(c) \/ StopTimeout(c) \/ WaitChild(c)
  BY Zenon, <1>4 DEF StopSend, StopTimeout, WaitChild
<1>5. CASE Shutdown(c)
  BY Zenon, <1>5 DEF Shutdown
<1>. QED BY Zenon, <1>1, <1>2, <1>3, <1>4, <1>5 DEF HandlerStep

\* Every step is one of four kinds.
LEMMA StepKinds ==
    ASSUME DaemonInv, [Next]_vars
    PROVE  \/ Elsewhere
           \/ \E c \in Conn : Serves(c)
           \/ \E r \in Router : QuietRouterStep(r) \/ RouterEnds(r)
<1>1. CASE UNCHANGED vars
  BY Zenon, <1>1 DEF vars, Elsewhere, FilesKept, NoStart, Alive
<1>2. ASSUME NEW c \in Conn,
             \/ RequestLoad(c) \/ RequestClose(c) \/ RequestAnalysis(c) \/ RequestShutdown(c)
             \/ HandlerStep(c)
      PROVE  Serves(c)
  <2>1. Passes(c)
    BY Zenon, <1>2, RequestInv, LoadSpawnInv, LoadBootInv, LoadInsertInv, LoadTimeoutInv, LoadKillInv,
       OpForwardInv, OpTimeoutInv, StopSendInv, StopTimeoutInv, WaitChildInv, ShutdownInv,
       WorkerClosedInv
    DEF HandlerStep
  <2>. QED BY Zenon, <1>2, <2>1, HandlerFrame DEF Serves
<1>3. ASSUME NEW c \in Conn, RequestSwitch(c) PROVE Elsewhere
  BY Zenon, <1>3 DEF RequestSwitch, fileVars, Elsewhere, FilesKept, NoStart, Alive
<1>4. ASSUME NEW w \in Worker, WorkerUp(w) \/ PostExit(w) \/ WorkerExit(w) \/ WorkerCrash(w)
      PROVE  Elsewhere
  <2>1. NoStart
    BY Zenon, <1>4, WorkerUpInv, PostExitInv, WorkerEndInv
  <2>. QED BY Zenon, <1>4, <2>1
       DEF WorkerUp, PostExit, WorkerExit, WorkerCrash, routerVars, fileVars, Elsewhere, FilesKept
<1>5. ASSUME NEW w \in Worker, Dispatch(w)
      PROVE  Elsewhere \/ \E c \in Conn : Serves(c)
  <2>1. main' = main /\ targets' = targets /\ FilesKept
    BY Zenon, <1>5 DEF Dispatch, routerVars, fileVars, FilesKept
  <2>. QED BY Zenon, <1>5, <2>1, DispatchInv DEF Elsewhere, Serves
<1>6. ASSUME Next
      PROVE  \/ Elsewhere
             \/ \E c \in Conn : Serves(c)
             \/ \E r \in Router : QuietRouterStep(r) \/ RouterEnds(r)
  BY Zenon, <1>2, <1>3, <1>4, <1>5, <1>6, NextCases DEF WorkerStep
<1>. QED BY Zenon, <1>1, <1>6

-----------------------------------------------------------------------------
(* Who is responsible for a worker.                                        *)

\* WorkerHasOwner, in terms of claims.
LEMMA OwnerFacts ==
    WorkerHasOwner <=>
      \A w \in Worker : Alive(w) /\ Up(RouterOf(w)) => Listed(w) \/ \E c \in Conn : Claims(c, w)
BY Zenon DEF WorkerHasOwner, BeingStopped, Listed, Claims

\* Every step leaves a live worker of a live router with an owner.
LEMMA OwnersStep ==
    ASSUME DaemonInv, WorkerHasOwner, [Next]_vars
    PROVE  WorkerHasOwner'
<1>. TypeInv /\ Handlers /\ Workers
  BY Zenon DEF DaemonInv
<1>. SUFFICES ASSUME NEW w \in Worker, Alive(w)', Up(RouterOf(w))'
              PROVE  Listed(w)' \/ \E c \in Conn : Claims(c, w)'
  BY Zenon DEF WorkerHasOwner, BeingStopped, Listed, Claims
<1>0. Alive(w) /\ Up(RouterOf(w)) => Listed(w) \/ \E c \in Conn : Claims(c, w)
  BY Zenon, OwnerFacts
<1>1. CASE Elsewhere
  BY Zenon, <1>0, <1>1 DEF Elsewhere, NoStart, Up, Listed, Claims
<1>2. ASSUME NEW c \in Conn, Serves(c)
      PROVE  Listed(w)' \/ \E d \in Conn : Claims(d, w)'
  <2>1. Up(RouterOf(w)) /\ Aside(c)
    BY Zenon, <1>2 DEF Serves, Passes, Up
  <2>2. /\ Alive(w) \/ Claims(c, w)'
        /\ Claims(c, w) \/ Listed(w) => Claims(c, w)' \/ Listed(w)'
    BY Zenon, <1>2 DEF Serves, Passes, Hands
  <2>3. \A d \in Conn \ {c} : Claims(d, w) => Claims(d, w)'
    BY Zenon, <2>1 DEF Aside, Claims
  <2>. QED BY Zenon, <1>0, <2>1, <2>2, <2>3
<1>3. ASSUME NEW r \in Router, QuietRouterStep(r)
      PROVE  Listed(w)' \/ \E d \in Conn : Claims(d, w)'
  <2>1. conn' = conn /\ worker' = worker /\ targets' = targets /\ main[r] # "gone"
    BY Zenon, <1>3, QuietFacts
  <2>2. PICK label \in MainPC \ {"off"} : Goto(r, label)
    BY <1>3, QuietFacts
  <2>3. Alive(w) /\ main[RouterOf(w)] # "off" /\ RouterOf(w) \in Router
    BY ZenonT(40), <2>1, WorkerTypes DEF Workers, WorkerSound, Alive
  <2>4. Up(RouterOf(w))
    BY Zenon, <2>1, <2>2, <2>3 DEF Goto, Up, TypeInv
  <2>. QED BY Zenon, <1>0, <2>1, <2>3, <2>4 DEF Listed, Claims
<1>4. ASSUME NEW r \in Router, RouterEnds(r)
      PROVE  Listed(w)' \/ \E d \in Conn : Claims(d, w)'
  <2>1. RouterGone(r) /\ targets' = targets
    BY Zenon, <1>4 DEF RouterEnds, RouterCrash, RouterCleanup, routerVars
  <2>2. /\ main'[r] = "gone" /\ \A q \in Router \ {r} : main'[q] = main[q]
        /\ \A c \in Conn : conn'[c] = IF conn[c].r = r THEN IdleConn ELSE conn[c]
        /\ Tame
    BY ZenonT(40), <2>1, RouterGoneFacts
  <2>3. RouterOf(w) \in Router /\ RouterOf(w) # r
    BY Zenon, <2>2, WorkerTypes DEF Up
  <2>4. Alive(w) /\ Up(RouterOf(w))
    BY Zenon, <2>2, <2>3 DEF Tame, Up
  <2>5. ASSUME NEW d \in Conn, Claims(d, w) PROVE Claims(d, w)'
    <3>1. w \in Refs(d)
      BY ZenonT(40), <2>5, DaemonAssumption DEF Claims, Refs
    <3>2. conn[d].r = RouterOf(w)
      BY ZenonT(40), <3>1 DEF Handlers, ConnSound
    <3>. QED BY Zenon, <2>2, <2>3, <2>5, <3>2 DEF Claims
  <2>6. Listed(w) => Listed(w)'
    BY Zenon, <2>1 DEF Listed
  <2>. QED BY Zenon, <1>0, <2>4, <2>5, <2>6
<1>. QED BY Zenon, <1>1, <1>2, <1>3, <1>4, StepKinds

\* No failed load, close or shutdown leaks a subprocess: in every state a live
\* worker of a live daemon is a target or a handler is loading or stopping it
\* (worker_load_handshake, stop_worker, shutdown_all_workers).
THEOREM WorkersHaveOwners == Spec => []WorkerHasOwner
<1>1. Init => WorkerHasOwner
  BY DEF Init, WorkerHasOwner, Alive, NoProcess
<1>2. DaemonInv /\ WorkerHasOwner /\ [Next]_vars => WorkerHasOwner'
  BY OwnersStep
<1>. QED BY <1>1, <1>2, DaemonInvariant, PTL DEF Spec

\* Two live workers with one database.
LEMMA OpenTwice ==
    ASSUME DaemonInv, WorkerHasOwner
    PROVE  OpenTwiceOnlyWhileStopping
<1>. TypeInv /\ Handlers
  BY Zenon DEF DaemonInv
<1>. SUFFICES ASSUME NEW v \in Worker, NEW w \in Worker, v # w, RouterOf(v) = RouterOf(w),
                     Up(RouterOf(v)), Alive(v), Alive(w),
                     worker[v].q.db = worker[w].q.db,
                     ~BeingStopped(v), ~BeingStopped(w)
              PROVE  FALSE
  BY Zenon DEF OpenTwiceOnlyWhileStopping
<1>. DEFINE Loads(c, u) == conn[c].w = u /\ conn[c].pc \in Loading
<1>1. ASSUME NEW u \in Worker, u \in {v, w}
      PROVE  Listed(u) \/ \E c \in Conn : Loads(c, u)
  <2>1. Listed(u) \/ \E c \in Conn : conn[c].w = u /\ conn[c].pc \in LoadPC
    BY Zenon, <1>1 DEF WorkerHasOwner, Listed
  <2>2. \A c \in Conn : conn[c].w = u /\ conn[c].pc \in LoadPC => conn[c].pc \in Loading
    BY Zenon, DaemonAssumption DEF Handlers, ConnSound, Loading, OpPC, StopPC
  <2>. QED BY <2>1, <2>2
<1>2. PICK r \in Router : r = RouterOf(v)
  BY Zenon, WorkerTypes
<1>3. v = <<r, IdOf(v)>> /\ w = <<r, IdOf(w)>> /\ IdOf(v) # IdOf(w)
  BY Zenon, <1>2, WorkerTypes
<1>4. ASSUME NEW c \in Conn, NEW u \in Worker, NEW x \in Worker, Loads(c, u), Listed(x),
             RouterOf(u) = r, RouterOf(x) = r
      PROVE  worker[x].q.db # worker[u].q.db
  <2>1. conn[c].r = r
    BY Zenon, <1>4, AtWorker
  <2>2. x = <<r, IdOf(x)>> /\ IdOf(x) \in targets[r]
    BY Zenon, <1>4, WorkerTypes DEF Listed
  <2>. QED BY Zenon, <1>4, <2>1, <2>2 DEF Handlers, LoadSound
<1>5. CASE Listed(v) /\ Listed(w)
  BY Zenon, <1>2, <1>3, <1>5 DEF Handlers, TargetsSound, Listed
<1>6. CASE \E c, d \in Conn : Loads(c, v) /\ Loads(d, w)
  <2>1. PICK c \in Conn, d \in Conn : Loads(c, v) /\ Loads(d, w)
    BY <1>6
  <2>2. conn[c].r = r /\ conn[d].r = r /\ c # d
    BY Zenon, <1>2, <2>1, AtWorker
  <2>. QED BY ZenonT(40), <2>1, <2>2 DEF Handlers, LoadSound
<1>. QED BY <1>1, <1>2, <1>4, <1>5, <1>6

\* Two workers of a daemon have one database open at the same time only while
\* one of them is being stopped (find_load_conflict under the load lock).
THEOREM OpensTwiceWhileStopping == Spec => []OpenTwiceOnlyWhileStopping
<1>1. DaemonInv /\ WorkerHasOwner => OpenTwiceOnlyWhileStopping
  BY OpenTwice
<1>. QED BY <1>1, DaemonInvariant, WorkersHaveOwners, PTL

-----------------------------------------------------------------------------
(* Which changes are thrown away.                                          *)

\* The steps that kill nobody.
Spares == lost' = lost /\ expired \subseteq expired'

\* All steps but those of three handlers.
LEMMA Sparing ==
    ASSUME Next
    PROVE  Spares \/ \E c \in Conn : LoadBoot(c) \/ LoadKill(c) \/ WaitChild(c)
<1>. USE DEF Spares
<1>1. ASSUME NEW r \in Router, QuietRouterStep(r) \/ RouterEnds(r) PROVE Spares
  BY Zenon, <1>1 DEF QuietRouterStep, RouterEnds, RouterStart, EnsureSingleInstance, RemoveStale,
     SweepWorkerSockets, BindSocket, WriteRegistry, AcceptLoopEnds, RouterCleanup, RouterCrash
<1>2. ASSUME NEW c \in Conn,
             \/ RequestLoad(c) \/ RequestClose(c) \/ RequestAnalysis(c)
             \/ RequestShutdown(c) \/ RequestSwitch(c)
      PROVE  Spares
  BY ZenonT(40), <1>2 DEF RequestLoad, RequestClose, RequestAnalysis, RequestShutdown, RequestSwitch
<1>3. ASSUME NEW c \in Conn, HandlerStep(c), ~LoadBoot(c), ~LoadKill(c), ~WaitChild(c)
      PROVE  Spares
  <2>1. CASE LoadSpawn(c) \/ LoadInsert(c) \/ OpForward(c) \/ StopSend(c) \/ WorkerClosed(c)
    BY Zenon, <2>1 DEF LoadSpawn, LoadInsert, OpForward, StopSend, WorkerClosed
  <2>2. CASE LoadTimeout(c) \/ OpTimeout(c) \/ StopTimeout(c)
    BY Zenon, <2>2 DEF LoadTimeout, OpTimeout, StopTimeout, GiveUp
  <2>3. CASE Shutdown(c)
    BY Zenon, <2>3 DEF Shutdown
  <2>. QED BY Zenon, <1>3, <2>1, <2>2, <2>3 DEF HandlerStep
<1>4. ASSUME NEW w \in Worker, WorkerStep(w) \/ WorkerCrash(w) PROVE Spares
  BY ZenonT(40), <1>4 DEF WorkerStep, WorkerUp, Dispatch, PostExit, WorkerExit, WorkerCrash
<1>. QED BY Zenon, <1>1, <1>2, <1>3, <1>4, NextCases

\* A worker that is killed with changes has missed a deadline.
LEMMA LostStep ==
    ASSUME DaemonInv, LostOnlyByDeadline, [Next]_vars
    PROVE  LostOnlyByDeadline'
<1>. USE DEF LostOnlyByDeadline
<1>. TypeInv /\ Handlers
  BY Zenon DEF DaemonInv
<1>1. CASE UNCHANGED vars
  BY Zenon, <1>1 DEF vars
<1>2. CASE Spares
  BY Zenon, <1>2 DEF Spares
<1>3. ASSUME NEW c \in Conn, LoadBoot(c) \/ LoadKill(c) \/ WaitChild(c)
      PROVE  lost' \subseteq expired'
  <2>1. conn[c].pc \in Loading \cup StopPC
    BY Zenon, <1>3 DEF LoadBoot, LoadKill, WaitChild, Loading, LoadPC, StopPC
  <2>2. PICK w \in Worker : w = conn[c].w
    BY Zenon, <2>1, AtWorker
  <2>3. CASE LoadBoot(c)
    BY Zenon, <2>2, <2>3 DEF LoadBoot, Kill
  <2>4. CASE LoadKill(c)
    <3>1. ~ worker[w].unsaved
      BY Zenon, <2>2, <2>4 DEF LoadKill, Loading, LoadPC, Handlers, LoadSound
    <3>. QED BY Zenon, <2>2, <2>4, <3>1 DEF LoadKill, Kill
  <2>5. CASE WaitChild(c)
    BY Zenon, <2>2, <2>5 DEF WaitChild, Kill
  <2>. QED BY Zenon, <1>3, <2>3, <2>4, <2>5
<1>. QED BY Zenon, <1>1, <1>2, <1>3, Sparing

\* The daemon kills a worker that holds acknowledged changes only after one of
\* its deadlines for that worker passed (stop_worker, wait_child): a load that
\* fails kills a worker nobody has changed yet.
THEOREM LosesOnlyByDeadline == Spec => []LostOnlyByDeadline
<1>1. Init => LostOnlyByDeadline
  BY Zenon DEF Init, LostOnlyByDeadline
<1>2. DaemonInv /\ LostOnlyByDeadline /\ [Next]_vars => LostOnlyByDeadline'
  BY LostStep
<1>. QED BY <1>1, <1>2, DaemonInvariant, PTL DEF Spec

-----------------------------------------------------------------------------
(* Which daemon has the public files.                                      *)

\* Where a router may be once it was served a request.
Past == {"serve", "gone"} \cup Leaving

\* The shutdown was notified by a router that serves, or served, and only then
\* the files are removed.
NoticeInv ==
    /\ \A r \in notified : r \in Router /\ main[r] \in Past
    /\ \A c \in Conn : conn[c].pc # "idle" => main[conn[c].r] \in Past
    /\ \A c \in Conn : conn[c].pc \in {"drop_socket", "drop_registry"} => conn[c].r \in notified

\* A router that was bound has the socket, and one that serves the registry.
HasFiles(r) ==
    /\ main[r] \in {"register", "serve"} => sock = r
    /\ main[r] = "serve" => registry = r

\* The inductive invariant behind OneDaemon.
OneInv ==
    /\ NoticeInv
    /\ robbed = {} => \A r \in Router \ notified : HasFiles(r)

\* One daemon at a time follows from it: the socket has one owner.
LEMMA OneInvImplies ==
    ASSUME OneInv
    PROVE  OneDaemon
BY Zenon DEF OneDaemon, OneInv, HasFiles, Serving

\* A file that is removed by another router leaves no other daemon that has it,
\* or the history shows the robbery.
LEMMA RobsFacts ==
    ASSUME NEW r \in Router, NEW q \in Router \ {r}, Up(q), q \notin notified,
           (RemoveSocket(r) /\ sock = q) \/ (RemoveRegistry(r) /\ registry = q)
    PROVE  robbed' # {}
BY Zenon DEF RemoveSocket, RemoveRegistry, Robs

\* The history of robberies only grows.
LEMMA RobbedGrows ==
    ASSUME NEW r, RemoveSocket(r) \/ RemoveRegistry(r)
    PROVE  robbed \subseteq robbed'
BY Zenon DEF RemoveSocket, RemoveRegistry, Robs

\* Routers keep their files when a router that has none of its own to keep
\* removes one.
LEMMA RemovalKeeps ==
    ASSUME NEW r \in Router, RemoveSocket(r) \/ RemoveRegistry(r), robbed' = {},
           NEW q \in Router, q \notin notified, HasFiles(q), main'[q] = main[q],
           q = r => main[q] \notin {"register", "serve"}
    PROVE  HasFiles(q)'
<1>1. CASE main[q] \notin {"register", "serve"}
  BY Zenon, <1>1 DEF HasFiles
<1>2. CASE main[q] \in {"register", "serve"}
  <2>1. q # r /\ Up(q) /\ sock = q
    BY Zenon, <1>2 DEF HasFiles, Up
  <2>2. ~RemoveSocket(r)
    BY Zenon, <2>1, RobsFacts
  <2>3. RemoveRegistry(r) /\ registry # q
    BY Zenon, <2>1, <2>2, RobsFacts
  <2>. QED BY Zenon, <2>1, <2>3 DEF HasFiles, RemoveRegistry
<1>. QED BY Zenon, <1>1, <1>2

\* The part of OneInv about the files.
Owners == robbed = {} => \A r \in Router \ notified : HasFiles(r)

\* A router that does not come to have files leaves the others theirs.
LEMMA OthersKeepFiles ==
    ASSUME Owners, NEW r \in Router, main'[r] \notin {"register", "serve"},
           main[r] \in {"register", "serve"} => FilesKept,
           \A q \in Router \ {r} : main'[q] = main[q],
           FilesKept \/ (notified' = notified /\ (RemoveSocket(r) \/ RemoveRegistry(r)))
    PROVE  Owners'
<1>. SUFFICES ASSUME robbed' = {}, NEW q \in Router, q \notin notified'
              PROVE  HasFiles(q)'
  BY Zenon DEF Owners
<1>1. robbed = {} /\ q \notin notified
  BY Zenon, RobbedGrows DEF FilesKept
<1>2. HasFiles(q)
  BY Zenon, <1>1 DEF Owners
<1>3. CASE q = r
  BY Zenon, <1>3 DEF HasFiles
<1>4. CASE q # r
  BY Zenon, <1>1, <1>2, <1>4, RemovalKeeps DEF FilesKept, HasFiles
<1>. QED BY Zenon, <1>3, <1>4

\* A quiet step of a router keeps OneInv.
LEMMA QuietOne ==
    ASSUME DaemonInv, OneInv, NEW r \in Router, QuietRouterStep(r)
    PROVE  OneInv'
<1>. TypeInv /\ Handlers /\ Owners /\ NoticeInv
  BY Zenon DEF DaemonInv, OneInv, Owners
<1>1. conn' = conn /\ \E label \in MainPC \ {"off"} : Goto(r, label)
  BY Zenon, QuietFacts
<1>2. \A q \in Router \ {r} : main'[q] = main[q]
  BY Zenon, <1>1 DEF Goto, TypeInv
<1>. USE DEF Goto
<1>3. NoticeInv'
  <2>1. notified' = notified
    BY Zenon DEF QuietRouterStep, RouterStart, EnsureSingleInstance, RemoveStale, SweepWorkerSockets,
       BindSocket, WriteRegistry, AcceptLoopEnds, RouterCleanup
  <2>2. main[r] \in Past => main'[r] \in Past
    BY Zenon DEF QuietRouterStep, RouterStart, EnsureSingleInstance, RemoveStale, SweepWorkerSockets,
       BindSocket, WriteRegistry, AcceptLoopEnds, RouterCleanup, Past, Leaving, TypeInv
  <2>3. \A c \in Conn : conn[c].pc # "idle" => conn[c].r \in Router
    BY Zenon DEF Handlers, ConnSound
  <2>. QED BY Zenon, <1>1, <1>2, <2>1, <2>2, <2>3 DEF NoticeInv
<1>4. CASE \/ RouterStart(r) \/ EnsureSingleInstance(r) \/ SweepWorkerSockets(r)
           \/ AcceptLoopEnds(r)
  <2>1. FilesKept /\ main'[r] \notin {"register", "serve"}
    BY Zenon, <1>4 DEF RouterStart, EnsureSingleInstance, SweepWorkerSockets, AcceptLoopEnds, FilesKept,
       fileVars, TypeInv
  <2>. QED BY Zenon, <1>2, <1>3, <2>1, OthersKeepFiles DEF OneInv, Owners
<1>5. CASE RemoveStale(r) \/ (main[r] = "clean_socket" /\ RouterCleanup(r))
  <2>1. /\ notified' = notified /\ (RemoveSocket(r) \/ RemoveRegistry(r))
        /\ main[r] \notin {"register", "serve"} /\ main'[r] \notin {"register", "serve"}
    BY Zenon, <1>5 DEF RemoveStale, RouterCleanup, TypeInv
  <2>. QED BY ZenonT(40), <1>2, <1>3, <2>1, OthersKeepFiles DEF OneInv, Owners
<1>6. CASE BindSocket(r)
  <2>1. CASE FilesKept /\ main'[r] = "gone"
    BY ZenonT(40), <1>2, <1>3, <2>1, OthersKeepFiles DEF OneInv, Owners
  <2>2. CASE sock = None /\ sock' = r /\ main'[r] = "register"
             /\ UNCHANGED <<registry, notified, robbed>>
    <3>1. ASSUME robbed = {}, NEW q \in Router \ notified PROVE HasFiles(q)'
      <4>1. CASE q = r
        BY Zenon, <2>2, <4>1 DEF HasFiles
      <4>2. CASE q # r
        <5>1. main[q] \notin {"register", "serve"}
          BY ZenonT(40), <2>2, <3>1, DaemonAssumption DEF Owners, HasFiles
        <5>. QED BY Zenon, <1>2, <4>2, <5>1 DEF HasFiles
      <4>. QED BY Zenon, <4>1, <4>2
    <3>. QED BY Zenon, <1>3, <2>2, <3>1 DEF OneInv
  <2>. QED BY Zenon, <1>6, <2>1, <2>2 DEF BindSocket, FilesKept, TypeInv
<1>7. CASE WriteRegistry(r)
  <2>1. /\ main[r] = "register" /\ main'[r] = "serve" /\ registry' = r
        /\ UNCHANGED <<sock, notified, robbed>>
    BY Zenon, <1>7 DEF WriteRegistry, TypeInv
  <2>2. r \notin notified
    BY Zenon, <2>1 DEF NoticeInv, Past, Leaving
  <2>3. ASSUME robbed = {}, NEW q \in Router \ notified PROVE HasFiles(q)'
    <3>1. sock = r /\ HasFiles(q)
      BY Zenon, <2>1, <2>2, <2>3 DEF Owners, HasFiles
    <3>. QED BY Zenon, <1>2, <2>1, <3>1 DEF HasFiles
  <2>. QED BY Zenon, <1>3, <2>1, <2>3 DEF OneInv
<1>. QED BY Zenon, <1>4, <1>5, <1>6, <1>7 DEF QuietRouterStep

\* The end of a router keeps OneInv.
LEMMA EndsOne ==
    ASSUME DaemonInv, OneInv, NEW r \in Router, RouterEnds(r)
    PROVE  OneInv'
<1>. TypeInv /\ Handlers /\ Workers /\ Owners /\ NoticeInv
  BY Zenon DEF DaemonInv, OneInv, Owners
<1>1. RouterGone(r) /\ notified' = notified
  BY Zenon DEF RouterEnds, RouterCrash, RouterCleanup
<1>2. /\ main'[r] = "gone" /\ \A q \in Router \ {r} : main'[q] = main[q]
      /\ \A c \in Conn : conn'[c] = IF conn[c].r = r THEN IdleConn ELSE conn[c]
  BY Zenon, <1>1, RouterGoneFacts
<1>3. NoticeInv'
  <2>1. \A q \in Router : main[q] \in Past => main'[q] \in Past
    BY Zenon, <1>2 DEF Past
  <2>2. \A c \in Conn : conn[c].pc # "idle" => conn[c].r \in Router
    BY Zenon DEF Handlers, ConnSound
  <2>3. \A c \in Conn : conn'[c] = conn[c] \/ conn'[c].pc = "idle"
    BY <1>2 DEF IdleConn
  <2>. QED BY Zenon, <1>1, <2>1, <2>2, <2>3 DEF NoticeInv
<1>4. Owners'
  <2>1. \/ FilesKept
        \/ main[r] \notin {"register", "serve"} /\ notified' = notified /\ RemoveRegistry(r)
    BY Zenon DEF RouterEnds, RouterCrash, RouterCleanup, FilesKept, fileVars
  <2>. QED BY Zenon, <1>2, <2>1, OthersKeepFiles
<1>. QED BY Zenon, <1>3, <1>4 DEF OneInv, Owners

\* A handler keeps OneInv.
LEMMA ServesOne ==
    ASSUME DaemonInv, OneInv, NEW c \in Conn, Serves(c)
    PROVE  OneInv'
<1>. TypeInv /\ Handlers /\ Owners /\ NoticeInv
  BY Zenon DEF DaemonInv, OneInv, Owners
<1>1. main' = main /\ Aside(c) /\ Leads(c)
  BY Zenon DEF Serves, Passes
<1>2. \A d \in Conn : conn'[d].pc # "idle" => main'[conn'[d].r] \in Past
  BY Zenon, <1>1 DEF Aside, Leads, NoticeInv, Past
<1>3. CASE FilesKept /\ conn[c].pc \notin ShutdownPC
  <2>1. conn'[c].pc \notin {"drop_socket", "drop_registry"}
    BY Zenon, <1>1, <1>3 DEF Leads, ShutdownPC
  <2>2. NoticeInv'
    BY Zenon, <1>1, <1>2, <1>3, <2>1 DEF NoticeInv, FilesKept, Aside
  <2>. QED BY Zenon, <1>1, <1>3, <2>2 DEF OneInv, FilesKept, HasFiles
<1>4. CASE Shutdown(c)
  <2>1. PICK r \in Router : r = conn[c].r /\ main[r] \in Past
    BY Zenon, <1>4 DEF Shutdown, ShutdownStep, Handlers, ConnSound, NoticeInv
  <2>2. ShutdownStep(c)
    BY Zenon, <1>4 DEF Shutdown
  <2>3. CASE conn[c].pc = "notify"
    <3>1. notified' = notified \cup {r} /\ UNCHANGED <<sock, registry, robbed>>
          /\ ConnGoto(c, "drop_socket")
      BY Zenon, <2>1, <2>2, <2>3 DEF ShutdownStep, fileVars
    <3>2. conn'[c].r = r
      BY Zenon, <2>1, <3>1, GotoFacts DEF ConnPC, ShutdownPC
    <3>3. NoticeInv'
      BY Zenon, <1>1, <1>2, <2>1, <3>1, <3>2 DEF NoticeInv, Aside
    <3>. QED BY Zenon, <1>1, <3>1, <3>3 DEF OneInv, HasFiles
  <2>4. CASE conn[c].pc \in {"drop_socket", "drop_registry"}
    <3>1. /\ notified' = notified /\ (RemoveSocket(r) \/ RemoveRegistry(r))
          /\ ConnGoto(c, "drop_registry") \/ ConnGoto(c, "drain")
      BY Zenon, <2>1, <2>2, <2>4 DEF ShutdownStep
    <3>2. conn'[c].r = r /\ r \in notified
      BY Zenon, <2>1, <2>4, <3>1, GotoFacts DEF NoticeInv, ConnPC, ShutdownPC
    <3>3. NoticeInv'
      BY ZenonT(40), <1>1, <1>2, <2>1, <3>1, <3>2 DEF NoticeInv, Aside
    <3>4. ASSUME robbed' = {}, NEW q \in Router \ notified PROVE HasFiles(q)'
      <4>1. robbed = {} /\ q # r
        BY Zenon, <3>1, <3>2, <3>4, RobbedGrows
      <4>2. HasFiles(q)
        BY Zenon, <4>1 DEF Owners
      <4>. QED BY Zenon, <1>1, <3>1, <3>4, <4>1, <4>2, RemovalKeeps
    <3>. QED BY Zenon, <3>1, <3>3, <3>4 DEF OneInv
  <2>5. CASE conn[c].pc = "drain"
    <3>1. UNCHANGED <<sock, registry, robbed, notified>>
      BY Zenon, <2>2, <2>5 DEF ShutdownStep, fileVars
    <3>2. conn'[c].pc \notin {"drop_socket", "drop_registry"}
      <4>1. Finish(c) \/ \E w, S : StopsFirst(c, w, S)
        BY Zenon, <2>2, <2>5, Zenon DEF ShutdownStep, StopsFirst
      <4>2. ASSUME NEW w, NEW S, StopsFirst(c, w, S) PROVE conn'[c].pc = "stop_send"
        <5>1. /\ conn[c] \in Handler
              /\ conn'[c] = [conn[c] EXCEPT !.pc = "stop_send", !.w = w, !.todo = S]
          BY Zenon, <4>2 DEF TypeInv, StopsFirst
        <5>. QED BY Zenon, <5>1 DEF Handler
      <4>. QED BY ZenonT(40), <4>1, <4>2, FinishFacts, IdleFacts
    <3>3. NoticeInv'
      BY Zenon, <1>1, <1>2, <3>1, <3>2 DEF NoticeInv, Aside
    <3>. QED BY Zenon, <1>1, <3>1, <3>3 DEF OneInv, HasFiles
  <2>. QED BY Zenon, <2>2, <2>3, <2>4, <2>5 DEF ShutdownStep
<1>. QED BY Zenon, <1>3, <1>4 DEF Serves

\* As long as no file of a live daemon was removed by another one, at most one
\* daemon accepts requests and the socket and the registry are its own
\* (ensure_single_instance, the bind before write_registry, the removals at the
\* end of run_router and of a shutdown request).
THEOREM OneDaemonAtATime == Spec => []OneDaemon
<1>1. Init => OneInv
  BY DEF Init, OneInv, NoticeInv, HasFiles, IdleConn
<1>2. ASSUME DaemonInv, OneInv, [Next]_vars PROVE OneInv'
  <2>1. CASE Elsewhere
    BY Zenon, <1>2, <2>1 DEF Elsewhere, FilesKept, OneInv, NoticeInv, HasFiles
  <2>. QED BY <1>2, <2>1, StepKinds, ServesOne, QuietOne, EndsOne
<1>3. OneInv => OneDaemon
  BY OneInvImplies
<1>. QED BY <1>1, <1>2, <1>3, DaemonInvariant, PTL DEF Spec
=============================================================================
