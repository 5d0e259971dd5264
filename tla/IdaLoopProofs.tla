--------------------------- MODULE IdaLoopProofs ---------------------------
(* Proofs about IdaLoop, for every set of clients and databases, every     *)
(* length of the queue and every bound on generations.                     *)
EXTENDS IdaLoop, SequenceTheorems, FiniteSetTheorems, TLAPS

-----------------------------------------------------------------------------
(* The records of the model have their types. *)
LEMMA RequestType ==
  ASSUME NEW k \in Kinds, NEW c \in Client \cup {NoClient}, NEW p \in Path \cup {NoPath},
         NEW g \in Generation, NEW t \in {"none", "live", "cancelled"}
  PROVE  Request(k, c, p, g, t) \in Requests
BY DEF Request, Requests

(* No request is a value of the requests, of no client. *)
LEMMA NoRequestType == NoRequest \in Requests /\ NoRequest.client = NoClient
                       /\ NoRequest.kind = "call" /\ NoRequest.gen = 0
<1>1. 0 \in Generation
  BY LoopAssumption DEF Generation
<1> QED
  BY <1>1 DEF NoRequest, Request, Requests, Kinds

(* What a client asks for is typed, sound and carries its own channel,     *)
(* except for a shutdown, which has none.                                  *)
LEMMA AsksSound ==
  ASSUME TypeOK, NEW c \in Client, NEW r \in Asks(c)
  PROVE  /\ r \in Requests /\ RequestSound(r)
         /\ r.client = IF r.kind = "shutdown" THEN NoClient ELSE c
         /\ r.gen # 0 => r.kind \in {"call", "closeIf"} /\ r.gen = lifetime[c]
<1>1. 0 \in Generation /\ lifetime[c] \in Generation
  BY LoopAssumption DEF Generation, TypeOK
<1>2. CASE \E p \in Path : r = Request("open", c, p, 0, "live")
  BY <1>1, <1>2, LoopAssumption DEF Request, Requests, Kinds, RequestSound
<1>3. CASE r \in {Request("work", c, NoPath, 0, "live"), Request("close", c, NoPath, 0, "none"),
        Request("shutdown", NoClient, NoPath, 0, "none"), Request("call", c, NoPath, 0, "none")}
  BY <1>1, <1>3, LoopAssumption DEF Request, Requests, Kinds, RequestSound
<1>4. CASE \E k \in {"call", "closeIf"} : r = Request(k, c, NoPath, lifetime[c], "none")
  BY <1>1, <1>4, LoopAssumption DEF Request, Requests, Kinds, RequestSound
<1> QED
  BY <1>2, <1>3, <1>4 DEF Asks

(* Cancelling and dropping keep a request's type and what it is about. *)
LEMMA CancelledSound ==
  ASSUME NEW r \in Requests, NEW c \in Client, RequestSound(r)
  PROVE  /\ Cancelled(r, c) \in Requests /\ RequestSound(Cancelled(r, c))
         /\ Cancelled(r, c).client = r.client
<1> DEFINE q == Request(r.kind, c, r.path, r.gen, "cancelled")
<1>1. CASE r.client = c /\ r.token = "live"
  <2>1. q \in Requests
    BY RequestType DEF Requests
  <2>2. q.kind = r.kind /\ q.client = r.client /\ q.path = r.path /\ q.gen = r.gen
        /\ q.token = "cancelled"
    BY <1>1 DEF Request
  <2>3. RequestSound(q)
    BY <2>2 DEF RequestSound
  <2> QED
    BY <1>1, <2>1, <2>2, <2>3 DEF Cancelled
<1>2. CASE ~(r.client = c /\ r.token = "live")
  BY <1>2 DEF Cancelled
<1> QED
  BY <1>1, <1>2

(* A request whose client gives up stays sound: what it asks is left, nobody waits for it. *)
LEMMA DroppedSound ==
  ASSUME NEW r \in Requests, NEW c \in Client, RequestSound(r),
         r.client = c => MayAbandon(r)
  PROVE  /\ Dropped(r, c) \in Requests /\ RequestSound(Dropped(r, c))
         /\ Dropped(r, c).client = IF r.client = c THEN NoClient ELSE r.client
<1> DEFINE q == Request(r.kind, NoClient, r.path, r.gen, r.token)
<1>1. CASE r.client = c
  <2>1. q \in Requests
    BY RequestType DEF Requests
  <2>2. q.kind = r.kind /\ q.client = NoClient /\ q.path = r.path /\ q.gen = r.gen
        /\ q.token = r.token
    BY DEF Request
  <2>3. r.token # "live" /\ r.token \in {"none", "live", "cancelled"}
    BY <1>1 DEF MayAbandon, Requests
  <2>4. RequestSound(q)
    BY <1>1, <2>2, <2>3, LoopAssumption DEF RequestSound
  <2> QED
    BY <1>1, <2>1, <2>2, <2>4 DEF Dropped
<1>2. CASE r.client # c
  BY <1>2 DEF Dropped
<1> QED
  BY <1>1, <1>2

-----------------------------------------------------------------------------
(* Initially nobody waits, nothing is queued and no database is open. *)
LEMMA InitInv == Init => LoopInv
<1> SUFFICES ASSUME Init PROVE LoopInv
  OBVIOUS
<1>1. 0 \in Generation /\ QueueCapacity \in Nat
  BY LoopAssumption DEF Generation
<1>2. TypeOK
  BY <1>1, NoRequestType, LoopAssumption DEF Init, TypeOK, NoAnswer, Answer, Tags
<1> QED
  BY <1>2, NoRequestType, LoopAssumption DEF Init, LoopInv, RequestSound, PendingSound

(* An answer reaches the client of the request, if it still has one. *)
LEMMA ReplyMoves ==
  ASSUME TypeOK, NEW r \in Requests, NEW tag \in Tags, NEW g \in Generation, Reply(r, tag, g)
  PROVE  /\ phase' \in [Client -> {"idle", "retry", "wait", "answered"}]
         /\ answer' \in [Client -> [tag : Tags, gen : Generation]]
         /\ \A c \in Client : phase'[c] = IF c = r.client THEN "answered" ELSE phase[c]
BY DEF Reply, TypeOK, Answer

(* The thread answers its request: the client stops waiting, and no        *)
(* request of it is left.                                                  *)
LEMMA FinishInv ==
  ASSUME LoopInv, NEW tag \in Tags, NEW g \in Generation, Finish(tag, g),
         lib' = lib, queue' = queue,
         idb' \in Path \cup {NoPath}, generation' \in Generation, nextGeneration' \in Generation,
         idb' = NoPath <=> generation' = 0
  PROVE  LoopInv'
<1>1. /\ exec' = NoRequest /\ loop' = "recv"
      /\ pending' = pending /\ lifetime' = lifetime
  BY DEF Finish
<1>2. /\ phase' \in [Client -> {"idle", "retry", "wait", "answered"}]
      /\ answer' \in [Client -> [tag : Tags, gen : Generation]]
      /\ \A c \in Client : phase'[c] = IF c = exec.client THEN "answered" ELSE phase[c]
  <2>1. exec \in Requests /\ TypeOK /\ Reply(exec, tag, g)
    BY DEF Finish, LoopInv, TypeOK
  <2> QED
    BY <2>1, ReplyMoves
<1>3. TypeOK'
  BY <1>1, <1>2, NoRequestType DEF LoopInv, TypeOK
<1>4. RequestSound(exec)'
  BY <1>1, NoRequestType, LoopAssumption DEF RequestSound
<1>5. \A i \in 1..Len(queue') :
        /\ RequestSound(queue[i])'
        /\ queue'[i].client \in Client => queue'[i].client # exec'.client
        /\ \A j \in 1..Len(queue') :
             queue'[i].client \in Client /\ queue'[i].client = queue'[j].client => i = j
  BY <1>1, NoRequestType, LoopAssumption DEF LoopInv, RequestSound
<1>6. \A c \in Client :
        /\ phase'[c] = "wait" <=> exec'.client = c \/ \E i \in 1..Len(queue') : queue'[i].client = c
        /\ PendingSound(c)'
  BY <1>1, <1>2, NoRequestType, LoopAssumption DEF LoopInv, PendingSound
<1> QED
  BY <1>1, <1>3, <1>4, <1>5, <1>6 DEF LoopInv
(* An action of the thread that ends a request. *)
LEMMA AnswerInv ==
  ASSUME LoopInv,
         \/ InitFails \/ RejectMismatch \/ CancelledFirst \/ OpenAgain \/ OpenFails
         \/ OpenSucceeds \/ Close \/ CloseIfGeneration \/ Call
  PROVE  LoopInv'
<1>0. 0 \in Generation /\ generation \in Generation /\ nextGeneration \in Generation
      /\ {"ok", "error", "cancelled", "replaced", "notCurrent"} \subseteq Tags
      /\ idb \in Path \cup {NoPath} /\ (idb = NoPath <=> generation = 0)
  BY LoopAssumption DEF LoopInv, TypeOK, Generation, Tags
<1>1. CASE InitFails \/ RejectMismatch
  BY <1>0, <1>1, FinishInv DEF InitFails, RejectMismatch, RejectTag, dbVars
<1>2. CASE CancelledFirst
  BY <1>0, <1>2, FinishInv DEF CancelledFirst, dbVars
<1>3. CASE OpenAgain
  BY <1>0, <1>3, FinishInv DEF OpenAgain, dbVars
<1>4. CASE OpenFails
  BY <1>0, <1>4, FinishInv DEF OpenFails, dbVars
<1>5. CASE OpenSucceeds
  <2>1. exec.path \in Path
    BY <1>5 DEF OpenSucceeds, Opening, Dispatch, LoopInv, RequestSound
  <2>2. nextGeneration' \in Generation /\ nextGeneration' # 0
    BY <1>0, <1>5, LoopAssumption DEF OpenSucceeds, NumberLifetime, Generation
  <2> QED
    BY <1>0, <1>5, <2>1, <2>2, FinishInv, LoopAssumption DEF OpenSucceeds
<1>6. CASE Close
  BY <1>0, <1>6, FinishInv DEF Close, CloseDatabase
<1>7. CASE CloseIfGeneration
  BY <1>0, <1>7, FinishInv DEF CloseIfGeneration, CloseDatabase, dbVars
<1>8. CASE Call
  BY <1>0, <1>8, FinishInv DEF Call, dbVars
<1> QED
  BY <1>1, <1>2, <1>3, <1>4, <1>5, <1>6, <1>7, <1>8

(* The thread takes the first request: it is the one that is done now. *)
LEMMA RecvInv == ASSUME LoopInv, Recv PROVE LoopInv'
<1> DEFINE h == Head(queue)
<1>1. /\ queue \in Seq(Requests) /\ Len(queue) \in Nat /\ Len(queue) > 0
      /\ h = queue[1] /\ h \in Requests /\ RequestSound(h)
      /\ queue' \in Seq(Requests) /\ Len(queue') = Len(queue) - 1
      /\ \A i \in 1..Len(queue') : i + 1 \in 1..Len(queue) /\ queue'[i] = queue[i + 1]
  BY DEF Recv, LoopInv, TypeOK
<1>2. /\ lib' = lib /\ dbVars' = dbVars /\ pending' = pending /\ lifetime' = lifetime
      /\ exec = NoRequest /\ loop = "recv"
  BY DEF Recv, LoopInv
<1> HIDE DEF h
<1>3. \A c \in Client : (\E i \in 1..Len(queue) : queue[i].client = c)
         <=> (h.client = c \/ \E i \in 1..Len(queue') : queue'[i].client = c)
  <2> SUFFICES ASSUME NEW c \in Client
               PROVE  (\E i \in 1..Len(queue) : queue[i].client = c)
                        <=> (h.client = c \/ \E i \in 1..Len(queue') : queue'[i].client = c)
    OBVIOUS
  <2>1. ASSUME NEW i \in 1..Len(queue), queue[i].client = c
        PROVE  h.client = c \/ \E j \in 1..Len(queue') : queue'[j].client = c
    <3>1. CASE i = 1
      BY <1>1, <2>1, <3>1
    <3>2. CASE i # 1
      <4>1. i - 1 \in 1..Len(queue') /\ queue'[i - 1] = queue[i]
        BY <1>1, <3>2
      <4> QED
        BY <2>1, <4>1
    <3> QED
      BY <3>1, <3>2
  <2>2. ASSUME NEW j \in 1..Len(queue'), queue'[j].client = c
        PROVE  \E i \in 1..Len(queue) : queue[i].client = c
    BY <1>1, <2>2
  <2>3. ASSUME h.client = c
        PROVE  \E i \in 1..Len(queue) : queue[i].client = c
    <3>1. 1 \in 1..Len(queue)
      BY <1>1
    <3> QED
      BY <1>1, <2>3, <3>1
  <2> QED
    BY <2>1, <2>2, <2>3
<1>4. \A i \in 1..Len(queue') :
        /\ RequestSound(queue[i])'
        /\ queue'[i].client \in Client => queue'[i].client # h.client
        /\ \A j \in 1..Len(queue') :
             queue'[i].client \in Client /\ queue'[i].client = queue'[j].client => i = j
  <2>1. \A i \in 1..Len(queue) : RequestSound(queue[i])
    BY DEF LoopInv
  <2>2. \A i, j \in 1..Len(queue) :
          queue[i].client \in Client /\ queue[i].client = queue[j].client => i = j
    BY DEF LoopInv
  <2>3. \A i \in 1..Len(queue') : RequestSound(queue[i])'
    <3>1. \A i \in 1..Len(queue') : RequestSound(queue'[i])
      BY SMTT(30), <1>1, <2>1
    <3>2. lifetime' = lifetime
      BY <1>2
    <3> QED
      BY <3>1, <3>2 DEF RequestSound
  <2>4. \A i \in 1..Len(queue') : queue'[i].client \in Client => queue'[i].client # h.client
    <3>1. 1 \in 1..Len(queue) /\ \A i \in 1..Len(queue') : i + 1 # 1
      BY <1>1
    <3> QED
      BY <1>1, <2>2, <3>1
  <2>5. \A i, j \in 1..Len(queue') :
          queue'[i].client \in Client /\ queue'[i].client = queue'[j].client => i = j
    <3>1. \A i, j \in 1..Len(queue') : i + 1 = j + 1 => i = j
      BY <1>1
    <3> QED
      BY <1>1, <2>2, <3>1
  <2> QED
    BY <2>3, <2>4, <2>5
<1>5. Len(queue') =< QueueCapacity
  BY <1>1, LoopAssumption DEF LoopInv, TypeOK
<1>6. ASSUME NEW c \in Client, phase'[c] = phase[c] \/ phase'[c] = "answered"
      PROVE  PendingSound(c)'
  <2>1. PendingSound(c)
    BY DEF LoopInv
  <2> QED
    BY <1>2, <1>6, <2>1 DEF PendingSound
<1>7. CASE lib = "deferred" /\ h.token = "cancelled"
  <2>0. exec' = NoRequest /\ loop' = "recv" /\ Reply(h, "cancelled", 0)
    BY <1>2, <1>7 DEF h, Recv
  <2>1. /\ phase' \in [Client -> {"idle", "retry", "wait", "answered"}]
        /\ answer' \in [Client -> [tag : Tags, gen : Generation]]
        /\ \A c \in Client : phase'[c] = IF c = h.client THEN "answered" ELSE phase[c]
    <3>1. "cancelled" \in Tags /\ 0 \in Generation /\ TypeOK
      BY LoopAssumption DEF Tags, Generation, LoopInv
    <3> QED
      BY <1>1, <2>0, <3>1, ReplyMoves
  <2>2. TypeOK'
    BY SMTT(30), <1>1, <1>2, <1>5, <2>0, <2>1, NoRequestType DEF LoopInv, TypeOK, dbVars
  <2>3. \A c \in Client :
          phase'[c] = "wait" <=> exec'.client = c \/ \E i \in 1..Len(queue') : queue'[i].client = c
    <3>1. \A c \in Client :
            phase[c] = "wait" <=> exec.client = c \/ \E i \in 1..Len(queue) : queue[i].client = c
      BY DEF LoopInv
    <3>2. \A c \in Client : exec.client # c /\ exec'.client # c
      BY <1>2, <2>0, NoRequestType, LoopAssumption
    <3>3. \A c \in Client : c = h.client => ~\E i \in 1..Len(queue') : queue'[i].client = c
      BY <1>4
    <3> QED
      BY <1>3, <2>1, <3>1, <3>2, <3>3
  <2> QED
    BY SMTT(30), <1>2, <1>4, <1>6, <2>0, <2>1, <2>2, <2>3, NoRequestType, LoopAssumption
       DEF LoopInv, RequestSound, dbVars
<1>8. CASE ~(lib = "deferred" /\ h.token = "cancelled")
  <2>1. /\ exec' = h /\ loop' \in {"init", "dispatch"} /\ phase' = phase /\ answer' = answer
    BY <1>8 DEF h, Recv
  <2>2. TypeOK'
    BY <1>1, <1>2, <1>5, <2>1 DEF LoopInv, TypeOK, dbVars
  <2>3. \A c \in Client :
          phase'[c] = "wait" <=> exec'.client = c \/ \E i \in 1..Len(queue') : queue'[i].client = c
    BY SMTT(30), <1>2, <1>3, <2>1, NoRequestType, LoopAssumption DEF LoopInv
  <2>4. RequestSound(exec)'
    BY <1>1, <1>2, <2>1 DEF RequestSound
  <2> QED
    BY <1>2, <1>4, <1>6, <2>1, <2>2, <2>3, <2>4 DEF LoopInv, dbVars
<1> QED
  BY <1>7, <1>8

(* The deferred initialisation of the library moves only the loop, which has its request. *)
LEMMA InitLibraryInv == ASSUME LoopInv, InitLibrary PROVE LoopInv'
<1>1. TypeOK'
  BY DEF InitLibrary, LoopInv, TypeOK, dbVars, clientVars
<1> QED
  BY SMTT(30), <1>1 DEF InitLibrary, LoopInv, dbVars, clientVars, RequestSound, PendingSound

(* The loop ends and drops its queue: nobody waits any more. *)
LEMMA StopInv == ASSUME LoopInv, Stop PROVE LoopInv'
<1>1. /\ exec' = NoRequest /\ loop' = "stopped" /\ queue' = <<>> /\ lib' = lib
      /\ idb' = NoPath /\ generation' = 0 /\ nextGeneration' = nextGeneration
      /\ pending' = pending /\ lifetime' = lifetime
  BY DEF Stop
<1>2. /\ 0 \in Generation /\ <<>> \in Seq(Requests) /\ Len(<<>>) = 0 /\ QueueCapacity >= 0
      /\ Answer("closed", 0) \in [tag : Tags, gen : Generation]
  BY LoopAssumption DEF Generation, Answer, Tags
<1>3. /\ phase' \in [Client -> {"idle", "retry", "wait", "answered"}]
      /\ answer' \in [Client -> [tag : Tags, gen : Generation]]
  BY <1>2 DEF Stop, LoopInv, TypeOK
<1>4. TypeOK'
  BY <1>1, <1>2, <1>3, NoRequestType DEF LoopInv, TypeOK
<1>5. \A c \in Client : phase'[c] # "wait" /\ PendingSound(c)'
  <2> SUFFICES ASSUME NEW c \in Client PROVE phase'[c] # "wait" /\ PendingSound(c)'
    OBVIOUS
  <2>1. phase'[c] = IF InQueue(c) # {} THEN "answered" ELSE phase[c]
    BY DEF Stop
  <2>2. exec.client # c
    BY SMTT(30), LoopAssumption DEF Stop, LoopInv, RequestSound
  <2>3. InQueue(c) = {} => phase[c] # "wait"
    BY <2>2 DEF LoopInv, InQueue
  <2> QED
    BY <1>1, <2>1, <2>3 DEF LoopInv, PendingSound
<1> QED
  BY SMTT(30), <1>1, <1>2, <1>4, <1>5, NoRequestType, LoopAssumption DEF LoopInv, RequestSound

(* Every step of the loop keeps the invariant. *)
LEMMA LoopStepInv == ASSUME LoopInv, LoopStep PROVE LoopInv'
BY AnswerInv, RecvInv, InitLibraryInv, StopInv DEF LoopStep

-----------------------------------------------------------------------------
(* A request at the end of the queue: its client had none before. *)
LEMMA SentInv ==
  ASSUME LoopInv, NEW c \in Client, NEW r \in Requests, Sent(c, r), HasRoom,
         phase[c] # "wait", RequestSound(r),
         r.client = IF r.kind = "shutdown" THEN NoClient ELSE c,
         libVars' = libVars, dbVars' = dbVars, answer' = answer, lifetime' = lifetime
  PROVE  LoopInv'
<1>1. /\ queue \in Seq(Requests) /\ Len(queue) \in Nat
      /\ queue' \in Seq(Requests) /\ Len(queue') = Len(queue) + 1
      /\ queue'[Len(queue) + 1] = r
      /\ \A i \in 1..Len(queue) : i \in 1..Len(queue') /\ queue'[i] = queue[i]
  BY SMTT(30) DEF Sent, LoopInv, TypeOK
<1>2. /\ lib' = lib /\ loop' = loop /\ exec' = exec /\ loop # "stopped"
      /\ idb' = idb /\ generation' = generation /\ nextGeneration' = nextGeneration
      /\ Len(queue') =< QueueCapacity
  BY <1>1, LoopAssumption DEF libVars, dbVars, HasRoom
<1>3. /\ phase' \in [Client -> {"idle", "retry", "wait", "answered"}]
      /\ pending' \in [Client -> Requests]
      /\ \A d \in Client \ {c} : phase'[d] = phase[d] /\ pending'[d] = pending[d]
      /\ phase'[c] = IF r.kind = "shutdown" THEN "idle" ELSE "wait"
  BY SMTT(30), NoRequestType DEF Sent, LoopInv, TypeOK
<1>4. TypeOK'
  BY SMTT(30), <1>1, <1>2, <1>3 DEF LoopInv, TypeOK
<1>5. exec.client # c /\ \A i \in 1..Len(queue) : queue[i].client # c
  BY DEF LoopInv
<1>6. \A i \in 1..Len(queue') : i \in 1..Len(queue) \/ i = Len(queue) + 1
  BY <1>1
<1>7. \A i \in 1..Len(queue') :
        /\ RequestSound(queue[i])'
        /\ queue'[i].client \in Client => queue'[i].client # exec'.client
        /\ \A j \in 1..Len(queue') :
             queue'[i].client \in Client /\ queue'[i].client = queue'[j].client => i = j
  <2>0. /\ \A i \in 1..Len(queue) :
             RequestSound(queue[i]) /\ (queue[i].client \in Client => queue[i].client # exec.client)
        /\ \A i, j \in 1..Len(queue) :
             queue[i].client \in Client /\ queue[i].client = queue[j].client => i = j
    BY DEF LoopInv
  <2>1. \A i \in 1..Len(queue') : RequestSound(queue[i])'
    BY SMTT(30), <1>1, <1>6, <2>0 DEF RequestSound
  <2>2. \A i \in 1..Len(queue') : queue'[i].client \in Client => queue'[i].client # exec'.client
    <3> SUFFICES ASSUME NEW i \in 1..Len(queue'), queue'[i].client \in Client
                 PROVE  queue'[i].client # exec'.client
      OBVIOUS
    <3>1. CASE i \in 1..Len(queue)
      BY <1>1, <1>2, <2>0, <3>1
    <3>2. CASE i = Len(queue) + 1
      BY <1>1, <1>2, <1>5, <3>2, LoopAssumption
    <3> QED
      BY <1>6, <3>1, <3>2
  <2>3. \A i, j \in 1..Len(queue') :
          queue'[i].client \in Client /\ queue'[i].client = queue'[j].client => i = j
    BY SMTT(30), <1>1, <1>5, <1>6, <2>0, LoopAssumption
  <2> QED
    BY <2>1, <2>2, <2>3
<1>8. \A d \in Client :
        phase'[d] = "wait" <=> exec'.client = d \/ \E i \in 1..Len(queue') : queue'[i].client = d
  <2> SUFFICES ASSUME NEW d \in Client
               PROVE  phase'[d] = "wait"
                        <=> exec'.client = d \/ \E i \in 1..Len(queue') : queue'[i].client = d
    OBVIOUS
  <2>1. (\E i \in 1..Len(queue') : queue'[i].client = d)
          <=> (r.client = d \/ \E i \in 1..Len(queue) : queue[i].client = d)
    <3>1. Len(queue) + 1 \in 1..Len(queue')
      BY <1>1
    <3> QED
      BY <1>1, <1>6, <3>1
  <2>2. phase[d] = "wait" <=> exec.client = d \/ \E i \in 1..Len(queue) : queue[i].client = d
    BY DEF LoopInv
  <2> QED
    BY SMTT(30), <1>2, <1>3, <1>5, <2>1, <2>2, LoopAssumption
<1>9. \A d \in Client : PendingSound(d)'
  BY SMTT(30), <1>3 DEF LoopInv, PendingSound
<1>10. RequestSound(exec)'
  BY <1>2 DEF LoopInv, RequestSound
<1> QED
  BY <1>2, <1>4, <1>7, <1>8, <1>9, <1>10 DEF LoopInv

(* A client moves between phases in which it does not wait; the queue and  *)
(* the thread keep what they have.                                         *)
LEMMA QuietInv ==
  ASSUME LoopInv, NEW c \in Client, TypeOK', UNCHANGED <<libVars, dbVars, queue>>,
         phase[c] # "wait", phase'[c] # "wait",
         \A d \in Client \ {c} :
           phase'[d] = phase[d] /\ pending'[d] = pending[d] /\ lifetime'[d] = lifetime[d],
         PendingSound(c)'
  PROVE  LoopInv'
<1>1. /\ lib' = lib /\ loop' = loop /\ exec' = exec /\ queue' = queue
      /\ idb' = idb /\ generation' = generation
  BY DEF libVars, dbVars
<1>2. exec.client # c /\ \A i \in 1..Len(queue) : queue[i].client # c
  BY SMTT(30) DEF LoopInv
<1>3. RequestSound(exec)'
  BY <1>1, <1>2 DEF LoopInv, RequestSound
<1>4. \A i \in 1..Len(queue) : RequestSound(queue[i])'
  BY SMTT(30), <1>1, <1>2 DEF LoopInv, RequestSound
<1>5. \A d \in Client :
        /\ phase'[d] = "wait" <=> exec'.client = d \/ \E i \in 1..Len(queue') : queue'[i].client = d
        /\ PendingSound(d)'
  <2> SUFFICES ASSUME NEW d \in Client
               PROVE  /\ phase'[d] = "wait"
                           <=> exec'.client = d \/ \E i \in 1..Len(queue') : queue'[i].client = d
                      /\ PendingSound(d)'
    OBVIOUS
  <2>1. phase[d] = "wait" <=> exec.client = d \/ \E i \in 1..Len(queue) : queue[i].client = d
    BY DEF LoopInv
  <2>2. PendingSound(d)
    BY DEF LoopInv
  <2>3. CASE d = c
    BY <1>1, <1>2, <2>1, <2>3
  <2>4. CASE d # c
    BY <1>1, <2>1, <2>2, <2>4 DEF PendingSound
  <2> QED
    BY <2>3, <2>4
<1> QED
  BY <1>1, <1>3, <1>4, <1>5 DEF LoopInv

(* A client sends a request, at once or on a retry: the request is its only one. *)
LEMMA SendsInv ==
  ASSUME LoopInv, NEW c \in Client, Send(c) \/ RetrySend(c)
  PROVE  LoopInv'
<1>1. CASE Send(c)
  <2>1. PICK r \in Asks(c) : Sent(c, r)
    BY <1>1 DEF Send
  <2>2. r \in Requests /\ RequestSound(r) /\ r.client = IF r.kind = "shutdown" THEN NoClient ELSE c
    <3>1. TypeOK
      BY DEF LoopInv
    <3> QED
      BY <3>1, AsksSound
  <2>3. /\ phase[c] # "wait" /\ HasRoom
        /\ libVars' = libVars /\ dbVars' = dbVars /\ answer' = answer /\ lifetime' = lifetime
    BY <1>1 DEF Send
  <2> QED
    BY <2>1, <2>2, <2>3, SentInv
<1>2. CASE RetrySend(c)
  <2>1. /\ phase[c] # "wait" /\ HasRoom /\ Sent(c, pending[c])
        /\ libVars' = libVars /\ dbVars' = dbVars /\ answer' = answer /\ lifetime' = lifetime
    BY <1>2 DEF RetrySend
  <2>2. /\ pending[c] \in Requests /\ pending[c].kind \in Control
        /\ pending[c].gen # 0 => pending[c].kind = "closeIf" /\ pending[c].gen = lifetime[c]
        /\ pending[c].client = IF pending[c].kind = "shutdown" THEN NoClient ELSE c
    BY <1>2 DEF RetrySend, LoopInv, PendingSound, TypeOK
  <2>3. RequestSound(pending[c])
    BY <2>2, LoopAssumption DEF RequestSound, Control
  <2> QED
    BY <2>1, <2>2, <2>3, SentInv
<1> QED
  BY SMTT(30), <1>1, <1>2

(* The steps of a client that neither queue nor drop a request. *)
LEMMA RestsInv ==
  ASSUME LoopInv, NEW c \in Client, SendControl(c) \/ RetryFails(c) \/ Receive(c) \/ Discard(c)
  PROVE  LoopInv'
<1>1. CASE SendControl(c)
  <2>1. PICK r \in Asks(c) : r.kind \in Control /\ pending' = [pending EXCEPT ![c] = r]
    BY ZenonT(30), <1>1 DEF SendControl
  <2>2. /\ r \in Requests /\ r.client = IF r.kind = "shutdown" THEN NoClient ELSE c
        /\ r.gen # 0 => r.kind \in {"call", "closeIf"} /\ r.gen = lifetime[c]
    BY SMTT(30), AsksSound DEF LoopInv
  <2>3. /\ UNCHANGED <<libVars, dbVars, queue>> /\ answer' = answer /\ lifetime' = lifetime
        /\ phase[c] = "idle" /\ phase' = [phase EXCEPT ![c] = "retry"]
    BY <1>1 DEF SendControl
  <2>4. TypeOK'
    BY <2>1, <2>2, <2>3 DEF LoopInv, TypeOK, libVars, dbVars
  <2>5. /\ phase'[c] = "retry" /\ pending'[c] = r
        /\ \A d \in Client \ {c} : phase'[d] = phase[d] /\ pending'[d] = pending[d]
    BY <2>1, <2>3 DEF LoopInv, TypeOK
  <2>6. PendingSound(c)'
    BY <2>1, <2>2, <2>3, <2>5 DEF PendingSound, Control
  <2> QED
    BY <2>3, <2>4, <2>5, <2>6, QuietInv
<1>2. CASE RetryFails(c)
  <2>1. /\ UNCHANGED <<libVars, dbVars, queue>> /\ answer' = answer /\ lifetime' = lifetime
        /\ phase[c] = "retry" /\ phase' = [phase EXCEPT ![c] = "idle"]
        /\ pending' = [pending EXCEPT ![c] = NoRequest]
    BY <1>2 DEF RetryFails
  <2>2. TypeOK'
    BY ZenonT(30), <2>1, NoRequestType DEF LoopInv, TypeOK, libVars, dbVars
  <2>3. /\ phase'[c] = "idle"
        /\ \A d \in Client \ {c} : phase'[d] = phase[d] /\ pending'[d] = pending[d]
    BY ZenonT(30), <2>1 DEF LoopInv, TypeOK
  <2>4. PendingSound(c)'
    BY <2>3 DEF PendingSound
  <2> QED
    BY <2>1, <2>2, <2>3, <2>4, QuietInv
<1>3. CASE Receive(c) \/ Discard(c)
  <2>1. /\ UNCHANGED <<libVars, dbVars, queue>> /\ pending' = pending
        /\ phase[c] = "answered" /\ phase' = [phase EXCEPT ![c] = "idle"]
        /\ answer' = [answer EXCEPT ![c] = NoAnswer]
        /\ lifetime' = lifetime \/ lifetime' = [lifetime EXCEPT ![c] = answer[c].gen]
    BY <1>3 DEF Receive, Discard
  <2>2. NoAnswer \in [tag : Tags, gen : Generation] /\ answer[c].gen \in Generation
    BY SMTT(30), LoopAssumption DEF NoAnswer, Answer, Tags, Generation, LoopInv, TypeOK
  <2>3. TypeOK'
    BY <2>1, <2>2 DEF LoopInv, TypeOK, libVars, dbVars
  <2>4. /\ phase'[c] = "idle"
        /\ \A d \in Client \ {c} : phase'[d] = phase[d] /\ lifetime'[d] = lifetime[d]
    BY <2>1 DEF LoopInv, TypeOK
  <2>5. PendingSound(c)'
    BY SMTT(30), <2>4 DEF PendingSound
  <2> QED
    BY <2>1, <2>3, <2>4, <2>5, QuietInv
<1> QED
  BY SMTT(30), <1>1, <1>2, <1>3

(* A cancellation changes tokens only. *)
LEMMA CancelInv == ASSUME LoopInv, NEW c \in Client, Cancel(c) PROVE LoopInv'
<1>1. /\ lib' = lib /\ loop' = loop /\ dbVars' = dbVars /\ clientVars' = clientVars
      /\ exec' = Cancelled(exec, c)
      /\ queue' = [i \in 1..Len(queue) |-> Cancelled(queue[i], c)]
  BY DEF Cancel
<1>2. /\ queue \in Seq(Requests) /\ Len(queue) \in Nat /\ exec \in Requests /\ RequestSound(exec)
      /\ \A i \in 1..Len(queue) : queue[i] \in Requests /\ RequestSound(queue[i])
  BY DEF LoopInv, TypeOK
<1>3. /\ Cancelled(exec, c) \in Requests /\ RequestSound(Cancelled(exec, c))
      /\ exec'.client = exec.client
  BY <1>1, <1>2, CancelledSound
<1>4. \A i \in 1..Len(queue) :
        /\ Cancelled(queue[i], c) \in Requests /\ RequestSound(Cancelled(queue[i], c))
        /\ Cancelled(queue[i], c).client = queue[i].client
  BY <1>2, CancelledSound
<1>5. /\ queue' \in Seq(Requests) /\ Len(queue') = Len(queue)
      /\ \A i \in 1..Len(queue) : queue'[i] = Cancelled(queue[i], c) /\ queue'[i].client = queue[i].client
  BY <1>1, <1>2, <1>4
<1>6. TypeOK'
  BY <1>1, <1>3, <1>5 DEF LoopInv, TypeOK, dbVars, clientVars
<1>7. lifetime' = lifetime /\ phase' = phase /\ pending' = pending
  BY <1>1 DEF clientVars
<1>8. /\ RequestSound(exec)'
      /\ \A i \in 1..Len(queue) : RequestSound(queue[i])'
  BY ZenonT(30), <1>1, <1>3, <1>4, <1>5, <1>7 DEF RequestSound
<1>9. loop' \in {"recv", "stopped"} => exec' = NoRequest
  BY SMTT(30), <1>1, NoRequestType, LoopAssumption DEF LoopInv, Cancelled
<1>10. \A d \in Client : PendingSound(d)'
  BY <1>7 DEF LoopInv, PendingSound
<1>11. \A i \in 1..Len(queue') :
         /\ queue'[i].client \in Client => queue'[i].client # exec'.client
         /\ \A j \in 1..Len(queue') :
              queue'[i].client \in Client /\ queue'[i].client = queue'[j].client => i = j
  BY <1>3, <1>5 DEF LoopInv
<1>12. \A d \in Client :
         phase'[d] = "wait" <=> exec'.client = d \/ \E i \in 1..Len(queue') : queue'[i].client = d
  BY SMTT(30), <1>3, <1>5, <1>7 DEF LoopInv
<1>13. idb' = NoPath <=> generation' = 0
  BY <1>1 DEF LoopInv, dbVars
<1> QED
  BY <1>5, <1>6, <1>8, <1>9, <1>10, <1>11, <1>12, <1>13 DEF LoopInv

(* A future that gives up takes its channel with it. *)
LEMMA AbandonInv == ASSUME LoopInv, NEW c \in Client, Abandon(c) PROVE LoopInv'
<1>1. /\ lib' = lib /\ loop' = loop /\ dbVars' = dbVars
      /\ pending' = pending /\ answer' = answer /\ lifetime' = lifetime
      /\ exec' = Dropped(exec, c) /\ phase[c] = "wait" /\ phase' = [phase EXCEPT ![c] = "idle"]
      /\ queue' = [i \in 1..Len(queue) |-> Dropped(queue[i], c)]
  BY DEF Abandon
<1>2. /\ queue \in Seq(Requests) /\ Len(queue) \in Nat /\ exec \in Requests /\ RequestSound(exec)
      /\ \A i \in 1..Len(queue) : queue[i] \in Requests /\ RequestSound(queue[i])
  BY DEF LoopInv, TypeOK
<1>3. /\ Dropped(exec, c) \in Requests /\ RequestSound(Dropped(exec, c))
      /\ exec'.client = IF exec.client = c THEN NoClient ELSE exec.client
  BY <1>1, <1>2, DroppedSound DEF Abandon
<1>4. \A i \in 1..Len(queue) :
        /\ Dropped(queue[i], c) \in Requests /\ RequestSound(Dropped(queue[i], c))
        /\ Dropped(queue[i], c).client = IF queue[i].client = c THEN NoClient ELSE queue[i].client
  <2>1. \A i \in 1..Len(queue) : queue[i].client = c => MayAbandon(queue[i])
    BY DEF Abandon, InQueue
  <2> QED
    BY <1>2, <2>1, DroppedSound
<1>5. /\ queue' \in Seq(Requests) /\ Len(queue') = Len(queue)
      /\ \A i \in 1..Len(queue) :
           /\ queue'[i] = Dropped(queue[i], c)
           /\ queue'[i].client = IF queue[i].client = c THEN NoClient ELSE queue[i].client
  BY <1>1, <1>2, <1>4
<1>6. TypeOK'
  BY <1>1, <1>3, <1>5 DEF LoopInv, TypeOK, dbVars
<1>7. \A d \in Client : phase'[d] = IF d = c THEN "idle" ELSE phase[d]
  BY <1>1 DEF LoopInv, TypeOK
<1>8. /\ RequestSound(exec)'
      /\ \A i \in 1..Len(queue) : RequestSound(queue[i])'
  <2>1. RequestSound(exec)'
    BY SMTT(30), <1>1, <1>3 DEF RequestSound
  <2>2. \A i \in 1..Len(queue) : RequestSound(queue[i])'
    <3>1. \A i \in 1..Len(queue) : RequestSound(queue'[i])
      BY <1>4, <1>5
    <3> QED
      BY <1>1, <3>1 DEF RequestSound
  <2> QED
    BY SMTT(30), <2>1, <2>2
<1>9. loop' \in {"recv", "stopped"} => exec' = NoRequest
  <2>1. loop \in {"recv", "stopped"} => exec = NoRequest
    BY DEF LoopInv
  <2>2. NoRequest.client # c
    BY NoRequestType, LoopAssumption
  <2> QED
    BY <1>1, <2>1, <2>2 DEF Dropped
<1>10. \A d \in Client : PendingSound(d)'
  <2>1. \A d \in Client : PendingSound(d)
    BY DEF LoopInv
  <2>2. pending' = pending /\ lifetime' = lifetime
    BY <1>1
  <2> QED
    BY <1>7, <2>1, <2>2 DEF PendingSound
<1>11. \A i \in 1..Len(queue') :
         /\ queue'[i].client \in Client => queue'[i].client # exec'.client
         /\ \A j \in 1..Len(queue') :
              queue'[i].client \in Client /\ queue'[i].client = queue'[j].client => i = j
  <2>1. /\ \A i \in 1..Len(queue) : queue[i].client \in Client => queue[i].client # exec.client
        /\ \A i, j \in 1..Len(queue) :
             queue[i].client \in Client /\ queue[i].client = queue[j].client => i = j
    BY DEF LoopInv
  <2>2. \A i \in 1..Len(queue') :
          queue'[i].client \in Client => i \in 1..Len(queue) /\ queue'[i].client = queue[i].client
    BY <1>5, LoopAssumption
  <2>3. \A d \in Client : exec'.client = d => exec.client = d
    BY <1>3, LoopAssumption
  <2> QED
    BY <2>1, <2>2, <2>3
<1>12. \A d \in Client :
         phase'[d] = "wait" <=> exec'.client = d \/ \E i \in 1..Len(queue') : queue'[i].client = d
  <2> SUFFICES ASSUME NEW d \in Client
               PROVE  phase'[d] = "wait"
                        <=> exec'.client = d \/ \E i \in 1..Len(queue') : queue'[i].client = d
    OBVIOUS
  <2>1. phase[d] = "wait" <=> exec.client = d \/ \E i \in 1..Len(queue) : queue[i].client = d
    BY DEF LoopInv
  <2>2. CASE d = c
    BY <1>3, <1>5, <1>7, <2>2, LoopAssumption
  <2>3. CASE d # c
    BY SMTT(30), <1>3, <1>5, <1>7, <2>1, <2>3, LoopAssumption
  <2> QED
    BY <2>2, <2>3
<1> QED
  BY <1>1, <1>5, <1>6, <1>8, <1>9, <1>10, <1>11, <1>12 DEF LoopInv, dbVars

(* A step that changes nothing keeps the invariant. *)
LEMMA StutterInv == ASSUME LoopInv, UNCHANGED vars PROVE LoopInv'
<1>1. /\ lib' = lib /\ loop' = loop /\ exec' = exec /\ queue' = queue
      /\ idb' = idb /\ generation' = generation /\ nextGeneration' = nextGeneration
      /\ phase' = phase /\ pending' = pending /\ answer' = answer /\ lifetime' = lifetime
  BY DEF vars, libVars, dbVars, clientVars
<1>2. TypeOK'
  BY SMTT(30), <1>1 DEF LoopInv, TypeOK
<1>3. /\ RequestSound(exec)' /\ \A i \in 1..Len(queue) : RequestSound(queue[i])'
      /\ \A c \in Client : PendingSound(c)'
  BY <1>1 DEF LoopInv, RequestSound, PendingSound
<1> QED
  BY <1>1, <1>2, <1>3 DEF LoopInv

(* No step of the loop or of a client breaks the invariant. *)
LEMMA NextInv == LoopInv /\ [Next]_vars => LoopInv'
BY LoopStepInv, SendsInv, RestsInv, CancelInv, AbandonInv, StutterInv DEF Next, ClientStep

-----------------------------------------------------------------------------
(* The queue, the thread and the clients always agree on who waits for     *)
(* what, for every number of clients and every length of the queue         *)
(* (run_ida_loop and the methods of IdaWorker).                            *)
THEOREM LoopInvariant == Spec => []LoopInv
<1>1. Init => LoopInv
  BY InitInv
<1>2. LoopInv /\ [Next]_vars => LoopInv'
  BY NextInv
<1> QED
  BY <1>1, <1>2, PTL DEF Spec

(* Who waits has exactly one request on its way, and who does not has none: *)
(* run_ida_loop neither loses an answer nor gives one to a later request.  *)
THEOREM OneAnswer == Spec => []OneRequestPerWait
<1>1. LoopInv => OneRequestPerWait
  <2> SUFFICES ASSUME LoopInv, NEW c \in Client
               PROVE  Cardinality(InQueue(c)) + (IF exec.client = c THEN 1 ELSE 0)
                        = IF phase[c] = "wait" THEN 1 ELSE 0
    BY DEF OneRequestPerWait
  <2>1. phase[c] = "wait" <=> exec.client = c \/ InQueue(c) # {}
    BY DEF LoopInv, InQueue
  <2>2. Cardinality({}) = 0
    BY FS_EmptySet
  <2>3. CASE InQueue(c) = {}
    BY <2>1, <2>2, <2>3
  <2>4. CASE InQueue(c) # {}
    <3>1. PICK i \in 1..Len(queue) : queue[i].client = c
      BY <2>4 DEF InQueue
    <3>2. exec.client # c /\ InQueue(c) = {i}
      BY <3>1 DEF LoopInv, InQueue
    <3>3. Cardinality({i}) = 1
      BY FS_Singleton
    <3> QED
      BY <2>1, <2>4, <3>2, <3>3
  <2> QED
    BY <2>3, <2>4
<1> QED
  BY <1>1, LoopInvariant, PTL

(* No database is opened for a caller that gave up before its turn, since  *)
(* giving up cancels the token first and the loop looks at it.             *)
THEOREM OpensAreOwned == Spec => NobodyOpensForTheDead
<1>1. LoopInv /\ [Next]_vars => [idb = NoPath /\ idb' # NoPath => exec.client \in Client]_vars
  <2> SUFFICES ASSUME LoopInv, Next, idb = NoPath, idb' # NoPath
               PROVE  exec.client \in Client
    OBVIOUS
  <2>1. OpenSucceeds
    BY ZenonT(30) DEF Next, LoopStep, ClientStep, Recv, InitLibrary, InitFails, RejectMismatch,
           CancelledFirst, OpenAgain, OpenFails, Close, CloseIfGeneration, CloseDatabase,
           Call, Stop, Send, SendControl, RetrySend, RetryFails, Receive, Cancel, Abandon,
           Discard, dbVars
  <2> QED
    BY <2>1 DEF OpenSucceeds, Opening, Dispatch, RefusesCancelled, Cancellable,
                LoopInv, RequestSound
<1> QED
  BY <1>1, LoopInvariant, PTL DEF Spec, NobodyOpensForTheDead

(* The databases of the loop are the lifetimes of DatabaseLifetime: no     *)
(* order of opens, closes and conditional closes brings a generation back. *)
THEOREM Refinement == Spec => ImplementsLifetimes
<1>1. Init => Lifetimes!Init
  BY DEF Init, Lifetimes!Init
<1>2. LoopInv /\ [Next]_vars => [Lifetimes!Next]_(Lifetimes!vars)
  <2> SUFFICES ASSUME LoopInv, [Next]_vars
               PROVE  Lifetimes!Next \/ UNCHANGED <<idb, generation, nextGeneration>>
    BY DEF Lifetimes!vars
  <2>1. CASE OpenSucceeds
    <3>1. exec.path \in Path /\ generation' = nextGeneration' /\ nextGeneration' = nextGeneration + 1
          /\ idb = NoPath /\ idb' = exec.path
      BY ZenonT(30), <2>1 DEF OpenSucceeds, Opening, Dispatch, NumberLifetime, LoopInv, RequestSound
    <3> QED
      BY <3>1 DEF Lifetimes!Next, Lifetimes!Open
  <2>2. CASE CloseDatabase
    BY <2>2 DEF CloseDatabase, LoopInv, Lifetimes!Next, Lifetimes!Close
  <2>3. CASE UNCHANGED dbVars
    BY SMTT(30), <2>3 DEF dbVars
  <2>4. OpenSucceeds \/ CloseDatabase \/ UNCHANGED dbVars
    BY ZenonT(30) DEF Next, LoopStep, ClientStep, Recv, InitLibrary, InitFails, RejectMismatch,
           CancelledFirst, OpenAgain, OpenFails, Close, CloseIfGeneration, CloseDatabase,
           Call, Stop, Send, SendControl, RetrySend, RetryFails, Receive, Cancel, Abandon,
           Discard, dbVars, vars
  <2> QED
    BY <2>1, <2>2, <2>3, <2>4
<1> QED
  BY <1>1, <1>2, LoopInvariant, PTL DEF Spec, ImplementsLifetimes, Lifetimes!Spec

(* A request bound to a lifetime succeeds only during that lifetime, the   *)
(* one its client opened (require_generation, CloseIfGeneration).          *)
THEOREM BoundCalls == Spec => BoundCallOnItsLifetime
<1> DEFINE A == \A c \in Client :
                  exec.client = c /\ exec.gen # 0 /\ answer'[c].tag = "ok" /\ answer[c].tag # "ok"
                    => lifetime[c] = generation /\ idb # NoPath
<1>1. LoopInv /\ [Next]_vars => [A]_vars
  <2> SUFFICES ASSUME LoopInv, Next, NEW c \in Client, exec.client = c, exec.gen # 0,
                      answer'[c].tag = "ok", answer[c].tag # "ok"
               PROVE  lifetime[c] = generation /\ idb # NoPath
    OBVIOUS
  <2>1. exec.gen = lifetime[c] /\ (idb = NoPath <=> generation = 0)
    BY DEF LoopInv, RequestSound
  <2>2. exec.kind \in {"call", "closeIf"} /\ loop \notin {"recv", "stopped"}
    BY ZenonT(30), NoRequestType, LoopAssumption DEF LoopInv, RequestSound
  <2>3. answer \in [Client -> [tag : Tags, gen : Generation]]
    BY DEF LoopInv, TypeOK
  <2>4. CASE \E d \in Client : ClientStep(d)
    <3>1. PICK d \in Client : ClientStep(d)
      BY <2>4
    <3>2. answer' = answer \/ answer' = [answer EXCEPT ![d] = NoAnswer]
      BY <3>1 DEF ClientStep, Send, SendControl, RetrySend, RetryFails, Receive, Cancel,
                  Abandon, Discard, clientVars
    <3> QED
      BY <2>3, <3>2 DEF NoAnswer, Answer
  <2>5. CASE CloseIfGeneration \/ Call
    <3>1. ASSUME NEW tag, Finish(tag, 0) PROVE tag = "ok"
      <4>1. answer' = [answer EXCEPT ![c] = Answer(tag, 0)]
        BY <3>1 DEF Finish, Reply
      <4>2. answer'[c] = Answer(tag, 0)
        BY <2>3, <4>1
      <4> QED
        BY <4>2 DEF Answer
    <3>2. CASE CloseIfGeneration
      BY <2>1, <3>1, <3>2 DEF CloseIfGeneration
    <3>3. CASE Call
      BY <2>1, <3>1, <3>3 DEF Call, RequireGeneration
    <3> QED
      BY <2>5, <3>2, <3>3
  <2>6. CASE InitFails \/ RejectMismatch
    <3>1. Finish("error", 0)
      BY <2>2, <2>6 DEF InitFails, RejectMismatch, RejectTag
    <3> QED
      BY SMTT(30), <2>3, <3>1 DEF Finish, Reply, Answer
  <2>7. CASE Stop \/ CancelledFirst \/ OpenAgain \/ OpenFails \/ OpenSucceeds \/ Close \/ Recv
    BY <2>2, <2>7 DEF Stop, CancelledFirst, Opening, OpenAgain, OpenFails, OpenSucceeds, Close,
                      Recv, Dispatch, Cancellable
  <2>8. CASE InitLibrary
    BY <2>8 DEF InitLibrary, clientVars
  <2> QED
    BY <2>4, <2>5, <2>6, <2>7, <2>8 DEF Next, LoopStep
<1> QED
  BY <1>1, LoopInvariant, PTL DEF Spec, BoundCallOnItsLifetime
=============================================================================
