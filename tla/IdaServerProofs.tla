--------------------------- MODULE IdaServerProofs ---------------------------
(***************************************************************************)
(* Proofs about IdaServer, for any number of sessions, setups and requests *)
(* and any length of the queue: requests and their answers, the close      *)
(* token, the operations, background open_dsc, the tool filter and the     *)
(* forwarding, and the streams of a pooled session.                        *)
(***************************************************************************)
EXTENDS IdaServer, SessionStreamsProofs

-----------------------------------------------------------------------------
(* Types.                                                                  *)

ForegroundPC == {"fg", "late", "drain"}
DirectPC == {"dnext", "dload", "dstat", "dstatus", "dissue"}
WaitPC == ForegroundPC \cup {"closing", "item", "dopen", "dload", "dstatus"}
CallPC == WaitPC \cup DirectPC \cup {"idle", "send", "clear", "next"}
DscPC == {"start", "idat", "settled", "open"}        \* before there is a database
OwningPC == {"next", "load", "stat", "status", "issue", "complete", "undo", "undoing", "clear"}
TaskPC == DscPC \cup OwningPC \cup {"none", "wait", "done"}
MainPC == {"up", "close", "closing", "shut", "stopping", "exited"}

CallKind == BackendKinds \cup {"", "Open"}
RequestKind == BackendKinds \cup {"Open", "Close", "CloseIfGeneration", "Shutdown"}
Path == (UNION {x.paths : x \in Setups}) \cup {"", "dsc", "dsc.i64"}
Owner == Sessions \cup {"runtime", NoOne}

Lease == [owner : Owner, token : Nat, gen : Nat, live : BOOLEAN]
CallState == [pc : CallPC, tool : DOMAIN Tools \cup StepwiseTools \cup {""}, kind : CallKind, left : Nat,
              gen : Nat, seen : Lease, right : {"", "force", "token", "owner"}]
TaskState == [pc : TaskPC, owner : Owner, cancelled : BOOLEAN, gen : Nat,
              why : {"", "cancelled", "failed"},
              status : {"none", "running", "completed", "failed", "cancelled", "cleanup_error"}]
Sent == [from : Callers \cup {Gone}, kind : RequestKind, path : Path, gen : Nat, cancel : BOOLEAN]
Reply == [res : {"none", "ok", "err", "cancelled", "closed", "other"}, gen : Nat]

IdaTypes ==
    /\ db \in [gen : Nat, path : Path] /\ lastGen \in Nat /\ db.gen <= lastGen
    /\ queue \in Seq(Sent) /\ running \in Sent \cup {Idle}
    /\ reply \in [Callers -> Reply]
CallTypes == call \in [Sessions -> CallState]
TaskTypes == task \in [TaskKinds -> TaskState]
MainTypes == main \in [pc : MainPC, late : BOOLEAN]
LeaseTypes == lease \in Lease /\ lastToken \in Nat
Types == setup \in Setups /\ IdaTypes /\ CallTypes /\ TaskTypes /\ MainTypes /\ LeaseTypes

-----------------------------------------------------------------------------
(* Requests and answers.                                                   *)

\* The requests in flight, by place: 0 is the IDA thread.
Place == 0 .. Len(queue)
InPlace(i) == IF i = 0 THEN running ELSE queue[i]
Flying(x) == {i \in Place : InPlace(i).from = x}

\* What a caller's side says about the request it waits for.
View(x) == IF x \in Sessions THEN [pc |-> call[x].pc, kind |-> call[x].kind, gen |-> call[x].gen]
           ELSE IF x \in TaskKinds THEN [pc |-> task[x].pc, kind |-> "", gen |-> task[x].gen]
           ELSE [pc |-> main.pc, kind |-> "", gen |-> 0]
Waits(x, v) ==
    \/ x \in Sessions /\ v.pc \in WaitPC
    \/ x = "dsc" /\ v.pc \in {"open", "load", "status", "undoing"}
    \/ x = "analyze" /\ v.pc = "wait"
    \/ x = "main" /\ v.pc \in {"closing", "stopping", "exited"}
SessionAsks(v, kind) ==
    \/ v.pc \in ForegroundPC \cup {"item"} /\ kind = v.kind
    \/ v.pc = "closing" /\ kind = "Close"
    \/ v.pc = "dopen" /\ kind = "Open"
    \/ v.pc = "dload" /\ kind = "DscLoadImage"
    \/ v.pc = "dstatus" /\ kind = "AnalysisStatus"
DscAsks(v, kind, gen) ==
    \/ v.pc = "open" /\ kind = "Open"
    \/ v.pc = "load" /\ kind = "DscLoadImage"
    \/ v.pc = "status" /\ kind = "AnalysisStatus"
    \/ v.pc = "undoing" /\ kind = "CloseIfGeneration" /\ gen = v.gen
Asks(x, v, kind, gen) ==
    \/ x \in Sessions /\ SessionAsks(v, kind)
    \/ x = "dsc" /\ DscAsks(v, kind, gen)
    \/ x = "analyze" /\ v.pc = "wait" /\ kind = "AnalyzeFuncs"
    \/ x = "main" /\ v.pc = "closing" /\ kind = "Close"
    \/ x = "main" /\ v.pc \in {"stopping", "exited"} /\ kind = "Shutdown"

\* What an answer tells its caller: an open succeeded with a generation, and a
\* close_if_generation leaves another database or none.
Tells(x, v, a) ==
    /\ a.res = "ok" /\ Asks(x, v, "Open", 0) => a.gen \in 1 .. lastGen
    /\ x = "dsc" /\ a.res \in {"closed", "other"} => v.pc = "undoing" /\ db.gen # v.gen

\* A caller has at most one request in flight, the one that it waits for, and
\* then no answer yet.
FlightSound(x) ==
    /\ \A i, j \in Flying(x) : i = j
    /\ \A i \in Flying(x) : /\ reply[x] = NoReply
                            /\ Asks(x, View(x), InPlace(i).kind, InPlace(i).gen)
    /\ reply[x] # NoReply => Waits(x, View(x)) /\ Tells(x, View(x), reply[x])

\* Nobody abandons a close but the main thread, and it never abandons a shutdown.
AbandonedSound ==
    \A i \in Flying(Gone) : /\ InPlace(i).kind \notin {"Shutdown", "CloseIfGeneration"}
                            /\ InPlace(i).kind = "Close" => main.pc # "up"
Flights == (\A x \in Callers : FlightSound(x)) /\ AbandonedSound

-----------------------------------------------------------------------------
(* Handlers, tasks, the close token and the operations.                    *)

ForegroundCalls == {<<"open_idb", "Open">>, <<"analyze_funcs", "AnalyzeFuncs">>, <<"run_script", "RunScript">>}
\* The kinds of requests a tool may send.
KindsOf(tool) == Tools[tool].kinds \cup Tools[tool].then

\* What pc says about a call: which tool it is, what it asks for, whether the
\* filter lets it through, and by what right it closes.
CallSound(s) ==
    LET c == call[s] IN
    /\ c.pc # "idle" => c.tool \in Enabled
    /\ c.pc \in ForegroundPC => <<c.tool, c.kind>> \in ForegroundCalls
    /\ c.pc \in {"item", "next"} => c.tool \in DOMAIN Tools \ StepwiseTools /\ c.kind \in KindsOf(c.tool)
    /\ c.pc \in DirectPC \cup {"dopen"} => c.tool = "open_dsc"
    /\ c.pc \in DirectPC => c.gen \in 1 .. lastGen
    /\ c.pc \in {"send", "closing"} => c.right # "" \/ c.seen = NoLease

\* The handler waits for the drain task only once it has its answer.
Drained(s) == call[s].pc = "drain" => reply[s] # NoReply

\* A task is settled when its future is done.  The database of open_dsc was
\* opened by a generation, and is gone when the task says so.
TaskSound ==
    /\ \A t \in TaskKinds : task[t].status = "running" <=> task[t].pc \notin {"none", "done"}
    /\ task["analyze"].pc \in {"none", "start", "wait", "done"} /\ task["dsc"].pc # "wait"
    /\ task["dsc"].gen <= lastGen
    /\ task["dsc"].pc \in DscPC => task["dsc"].gen = 0
    /\ task["dsc"].pc \in OwningPC => task["dsc"].gen # 0
    /\ task["dsc"].pc \in {"undo", "undoing", "clear"} => task["dsc"].why # ""
    /\ task["dsc"].pc = "clear" => db.gen # task["dsc"].gen
    /\ UnsuccessfulDscLeavesNothingOpen

\* The close token is of the shared HTTP server, and of a database.
LeaseSound ==
    /\ lease # NoLease => Http /\ lease.token # 0
    /\ lease.live => lease.gen # 0
    /\ LeaseHasDatabase

\* idat runs while its task waits for it, and what it completed is not partial.
OutputSound ==
    /\ idat = "running" => task["dsc"].pc = "idat"
    /\ task["dsc"].pc = "settled" => idat \in {"ok", "failed"}
    /\ idat = "ok" /\ task["dsc"].pc \in {"idat", "settled"} => file # "partial"
    /\ PartialIsBeingWritten

OpsSound ==
    /\ ops = [current |-> ops.current, active |-> ops.active, progress |-> ops.progress]
    /\ ActiveOperationRuns

\* The inductive invariant of the server.
ServerInv ==
    /\ Types
    /\ Flights
    /\ \A s \in Sessions : CallSound(s) /\ Drained(s)
    /\ TaskSound /\ LeaseSound /\ OutputSound /\ OpsSound

-----------------------------------------------------------------------------
(* The tables of the tools.                                                *)

PlainRows == ToolRows \ DatabaseTools

\* A tool is one of the rows.
LEMMA ToolIsRow == \A t \in DOMAIN Tools : Tools[t] \in ToolRows /\ Tools[t].tool = t
BY Zenon DEF Tools

\* A tool that IdaServer does not model step by step.
LEMMA PlainTool ==
    ASSUME NEW t \in DOMAIN Tools \ StepwiseTools
    PROVE  Tools[t] \in PlainRows /\ Tools[t].tool = t
BY Zenon, ToolIsRow DEF PlainRows, StepwiseTools

\* The requests of the other tools are forwarded by the backend.
LEMMA RowsForwarded == \A r \in PlainRows : r.kinds \cup r.then \subseteq BackendKinds
BY DEF PlainRows, ToolRows, NoRequest, One, Either, Each, EachOf, Then, CatalogTools,
       FunctionTools, DisasmTools, DecompileTools, StringTools, XrefTools, ByteTools, GraphTools,
       LookupTools, PatternTools, SearchTools, ValueTools, PathTools, ConvertTools, TypeTools,
       EditTools, StackTools, StructTools, InsnTools, NameTools, DscTools, StatusTools, TaskTools,
       BackendKinds, BackendDatabase, BackendListing, BackendTypes, BackendStructs, BackendEdits,
       BackendStrings, BackendSearch, BackendScripts

\* The tool that the pool calls for a request exists and sends that request.
LEMMA PoolTools ==
    \A p \in PoolRows : /\ \E r \in ToolRows : r.tool = p[2]
                        /\ \A r \in ToolRows : r.tool = p[2] => p[1] \in r.kinds
BY DEF PoolRows, PoolDatabase, PoolTypes, PoolStructs, PoolEdits, PoolGraphs, PoolSearch,
       PoolPaths, ToolRows, NoRequest, One, Either, Each, EachOf, Then, CatalogTools,
       FunctionTools, DisasmTools, DecompileTools, StringTools, XrefTools, ByteTools, GraphTools,
       LookupTools, PatternTools, SearchTools, ValueTools, PathTools, ConvertTools, TypeTools,
       EditTools, StackTools, StructTools, InsnTools, NameTools, DscTools, StatusTools, TaskTools,
       DatabaseTools

\* Every request the backend forwards has a tool of the child.
LEMMA PoolComplete == \A k \in BackendKinds : \E p \in PoolRows : p[1] = k
BY DEF PoolRows, PoolDatabase, PoolTypes, PoolStructs, PoolEdits, PoolGraphs, PoolSearch,
       PoolPaths, BackendKinds, BackendDatabase, BackendListing, BackendTypes, BackendStructs,
       BackendEdits, BackendStrings, BackendSearch, BackendScripts

\* A request the backend forwards arrives as itself, in the process or through
\* the child.
LEMMA ArrivesItself ==
    ASSUME NEW k \in BackendKinds
    PROVE  ArrivesAs(k) = k
<1>1. k \in Tools[ChildTool[k]].kinds
  <2>1. PICK p \in PoolRows : p[1] = k /\ ChildTool[k] = p[2]
    BY Zenon, PoolComplete DEF ChildTool
  <2>2. p[2] \in DOMAIN Tools
    BY Zenon, PoolTools DEF Tools
  <2>. QED BY Zenon, <2>1, <2>2, PoolTools, ToolIsRow
<1>. QED BY Zenon, <1>1 DEF ArrivesAs, Delivered

\* The tools that read-only mode leaves change nothing but debug info.
LEMMA ReadOnlyRows ==
    \A r \in PlainRows : r.tool \notin ReadOnlyDenyList =>
        (r.kinds \cup r.then) \cap WriteKinds \subseteq {"LoadDebugInfo"}
BY DEF PlainRows, ToolRows, NoRequest, One, Either, Each, EachOf, Then, CatalogTools,
       FunctionTools, DisasmTools, DecompileTools, StringTools, XrefTools, ByteTools, GraphTools,
       LookupTools, PatternTools, SearchTools, ValueTools, PathTools, ConvertTools, TypeTools,
       EditTools, StackTools, StructTools, InsnTools, NameTools, DscTools, StatusTools, TaskTools,
       ReadOnlyDenyList, WriteKinds, Arms, ArmsDatabase, ArmsListing, ArmsTypes, ArmsStack,
       ArmsStructs, ArmsImports, ArmsEdits, ArmsGraphs, ArmsAnalyze, ArmsSearch, ArmsPaths,
       ArmsScript

\* The requests of the tools with steps of their own.
LEMMA StepwiseKinds ==
    /\ {"DscLoadImage", "AnalysisStatus", "AnalyzeFuncs", "RunScript"} \subseteq BackendKinds
    /\ {"Open", "Close", "CloseIfGeneration", "Shutdown", "idle"} \cap BackendKinds = {}
    /\ {"Open", "Close"} \cap WriteKinds = {}
    /\ {"open_idb", "close_idb", "open_dsc", "analyze_funcs", "run_script"} \subseteq StepwiseTools
    /\ {"analyze_funcs", "run_script"} \subseteq ReadOnlyDenyList
BY DEF BackendKinds, BackendDatabase, BackendListing, BackendTypes, BackendStructs, BackendEdits,
       BackendStrings, BackendSearch, BackendScripts, WriteKinds, Arms, ArmsDatabase, ArmsListing,
       ArmsTypes, ArmsStack, ArmsStructs, ArmsImports, ArmsEdits, ArmsGraphs, ArmsAnalyze,
       ArmsSearch, ArmsPaths, ArmsScript, StepwiseTools, DatabaseTools, One, Either,
       ReadOnlyDenyList

-----------------------------------------------------------------------------
(* The channel between the callers and the IDA thread.                     *)

\* Who waits for answers, and who does not.
LEMMA CallerNames ==
    /\ NoOne \notin Callers /\ Gone \notin Callers /\ NoOne # Gone
    /\ \A s \in Sessions : s \notin {"dsc", "analyze", "main", NoOne, Gone}
    /\ {"dsc", "analyze", "main"} \subseteq Callers /\ Sessions \subseteq Callers
BY Zenon, ServerAssumption DEF Callers, TaskKinds, NoOne, Gone

\* The idle thread works for nobody.
LEMMA IdleRequest == Idle.from = NoOne /\ Idle.kind = "idle"
BY Zenon DEF Idle

\* The requests from x are among those of before, d places further back.
Carries(x, d) ==
    \A i \in Flying(x)' : /\ i + d \in Flying(x)
                          /\ InPlace(i)'.kind = InPlace(i + d).kind
                          /\ InPlace(i)'.gen = InPlace(i + d).gen

\* No generation comes back.
Steady ==
    /\ lastGen' \in Nat /\ lastGen' >= lastGen
    /\ db'.gen = db.gen \/ db'.gen = 0 \/ db'.gen > lastGen

\* x goes on waiting for the same answer, or does not wait.
Stays(x) ==
    \/ View(x)' = View(x)
    \/ ~ Waits(x, View(x))
    \/ /\ x \in Sessions /\ View(x).pc \in ForegroundPC /\ View(x)'.pc \in ForegroundPC
       /\ View(x)'.kind = View(x).kind
    \/ x = "main" /\ {View(x).pc, View(x)'.pc} \subseteq {"stopping", "exited"}

\* Who asks waits.
LEMMA AskersWait ==
    ASSUME NEW x, NEW v, NEW kind, NEW gen, Asks(x, v, kind, gen)
    PROVE  Waits(x, v)
BY Zenon DEF Asks, SessionAsks, DscAsks, Waits, WaitPC, ForegroundPC

\* A caller that does not wait has nothing in flight and no answer.
LEMMA NotWaiting ==
    ASSUME NEW x \in Callers, FlightSound(x), ~ Waits(x, View(x))
    PROVE  Flying(x) = {} /\ reply[x] = NoReply
BY Zenon, AskersWait DEF FlightSound

\* A caller that has its answer has nothing in flight.
LEMMA AnsweredRests ==
    ASSUME NEW x \in Callers, FlightSound(x), reply[x] # NoReply
    PROVE  Flying(x) = {}
BY Zenon DEF FlightSound

\* A caller with nothing in flight and no answer is sound wherever it is.
LEMMA Resting ==
    ASSUME NEW x \in Callers, Flying(x)' = {}, reply'[x] = NoReply
    PROVE  FlightSound(x)'
BY Zenon DEF FlightSound

\* A caller whose requests only move.
LEMMA FlightStays ==
    ASSUME IdaTypes, TaskTypes, TaskSound, Steady, NEW x \in Callers, FlightSound(x), Stays(x),
           NEW d \in {0, 1}, Carries(x, d), reply'[x] = reply[x]
    PROVE  FlightSound(x)'
<1>1. CASE ~ Waits(x, View(x))
  <2>1. Flying(x)' = {} /\ reply'[x] = NoReply
    BY Zenon, <1>1, NotWaiting DEF Carries
  <2>. QED BY Zenon, <2>1, Resting
<1>2. CASE Waits(x, View(x)) /\ Stays(x)
  <2>1. \A kind, gen : Asks(x, View(x), kind, gen) => Asks(x, View(x)', kind, gen)
    BY Zenon, <1>2, CallerNames DEF Stays, Asks, SessionAsks, DscAsks, ForegroundPC
  <2>2. Waits(x, View(x)')
    BY Zenon, <1>2, CallerNames DEF Stays, Waits, WaitPC, ForegroundPC
  <2>3. \A gen : Asks(x, View(x)', "Open", gen) => Asks(x, View(x), "Open", gen)
    BY Zenon, <1>2, CallerNames DEF Stays, Asks, SessionAsks, DscAsks, ForegroundPC
  <2>4. \A i, j \in Flying(x)' : i = j
    <3>1. \A i \in Flying(x)' : i \in Nat
      BY DEF Flying, Place
    <3>. QED BY <3>1 DEF Carries, FlightSound
  <2>5. \A i \in Flying(x)' : /\ reply'[x] = NoReply
                              /\ Asks(x, View(x)', InPlace(i)'.kind, InPlace(i)'.gen)
    BY Zenon, <2>1 DEF Carries, FlightSound
  <2>6. Tells(x, View(x), reply[x]) => Tells(x, View(x), reply[x])'
    <3>1. ASSUME Tells(x, View(x), reply[x]), reply[x].res = "ok", Asks(x, View(x)', "Open", 0)
          PROVE  reply[x].gen \in 1 .. lastGen'
      BY <2>3, <3>1 DEF Tells, Steady, IdaTypes
    <3>2. ASSUME Tells(x, View(x), reply[x]), x = "dsc", reply[x].res \in {"closed", "other"}
          PROVE  View(x)'.pc = "undoing" /\ db'.gen # View(x)'.gen
      <4>1. View(x)' = View(x)
        BY Zenon, <1>2, <3>2, CallerNames DEF Stays
      <4>2. View(x).pc = task["dsc"].pc /\ View(x).gen = task["dsc"].gen
        BY Zenon, <3>2, CallerNames DEF View, TaskKinds
      <4>3. View(x).pc = "undoing" /\ db.gen # View(x).gen
        BY Zenon, <3>2 DEF Tells
      <4>4. View(x).gen \in Nat /\ View(x).gen # 0 /\ View(x).gen <= lastGen
        <5>1. View(x).gen = task["dsc"].gen /\ task["dsc"].pc = "undoing"
          BY <4>2, <4>3
        <5>2. task["dsc"].gen \in Nat
          BY Zenon DEF TaskTypes, TaskState, TaskKinds
        <5>3. task["dsc"].gen # 0 /\ task["dsc"].gen <= lastGen
          BY Zenon, <5>1 DEF TaskSound, OwningPC
        <5>. QED BY Zenon, <5>1, <5>2, <5>3
      <4>. QED BY <4>1, <4>3, <4>4 DEF Steady, IdaTypes
    <3>. QED BY Zenon, <3>1, <3>2 DEF Tells
  <2>. QED BY Zenon, <2>2, <2>4, <2>5, <2>6 DEF FlightSound
<1>. QED BY Zenon, <1>1, <1>2

\* Nobody's requests but those of x change, and nobody else takes another turn.
LEMMA OthersStay ==
    ASSUME IdaTypes, TaskTypes, TaskSound, Steady, Flights, NEW x,
           \A y \in Callers : y # x => /\ Stays(y) /\ reply'[y] = reply[y]
                                       /\ Carries(y, 0) \/ Carries(y, 1),
           x \in Callers => FlightSound(x)',
           AbandonedSound'
    PROVE  Flights'
<1>1. ASSUME NEW y \in Callers, y # x PROVE FlightSound(y)'
  <2>1. FlightSound(y) /\ Stays(y) /\ reply'[y] = reply[y]
    BY Zenon, <1>1 DEF Flights
  <2>2. PICK d \in {0, 1} : Carries(y, d)
    BY Zenon, <1>1
  <2>. QED BY Zenon, <2>1, <2>2, FlightStays
<1>. QED BY Zenon, <1>1 DEF Flights

\* Abandoned requests stay as they are.
LEMMA AbandonedStays ==
    ASSUME AbandonedSound, Carries(Gone, 0) \/ Carries(Gone, 1), main'.pc = "up" => main.pc = "up"
    PROVE  AbandonedSound'
BY Zenon DEF AbandonedSound, Carries

\* The sessions outside X, the tasks outside X and the main thread are where they were.
LEMMA SameView ==
    ASSUME NEW X, \A s \in Sessions \ X : call'[s] = call[s],
           \A t \in TaskKinds \ X : task'[t].pc = task[t].pc /\ task'[t].gen = task[t].gen,
           "main" \notin X => main'.pc = main.pc
    PROVE  \A y \in Callers \ X : Stays(y)
<1>. SUFFICES ASSUME NEW y \in Callers \ X PROVE View(y)' = View(y)
  BY Zenon DEF Stays
<1>1. CASE y \in Sessions
  BY Zenon, <1>1 DEF View
<1>2. CASE y \in TaskKinds
  BY Zenon, <1>2, CallerNames DEF View, TaskKinds
<1>3. CASE y = "main"
  BY Zenon, <1>3, CallerNames DEF View, TaskKinds
<1>. QED BY Zenon, <1>1, <1>2, <1>3 DEF Callers

\* Nothing happens in the channel.
LEMMA Rests ==
    ASSUME IdaTypes, TaskTypes, TaskSound, Flights, UNCHANGED <<db, lastGen, queue, running, reply>>,
           main'.pc = "up" => main.pc = "up",
           \A y \in Callers : Stays(y)
    PROVE  IdaTypes' /\ Flights'
<1>1. IdaTypes' /\ Steady
  BY DEF IdaTypes, Steady
<1>2. \A y : Carries(y, 0)
  <2>1. \A y : Flying(y)' = Flying(y)
    BY Zenon DEF Flying, Place, InPlace
  <2>2. \A i : InPlace(i)' = InPlace(i)
    BY Zenon DEF InPlace
  <2>3. \A y : \A i \in Flying(y) : i + 0 = i
    BY DEF Flying, Place
  <2>. QED BY Zenon, <2>1, <2>2, <2>3 DEF Carries
<1>3. AbandonedSound'
  BY Zenon, <1>2, AbandonedStays DEF Flights
<1>4. \A y \in Callers : y # Gone => /\ Stays(y) /\ reply'[y] = reply[y]
                                     /\ Carries(y, 0) \/ Carries(y, 1)
  BY Zenon, <1>2
<1>. QED BY Zenon, <1>1, <1>3, <1>4, OthersStay, CallerNames

\* A caller takes its answer.
LEMMA Takes ==
    ASSUME IdaTypes, TaskTypes, TaskSound, Flights, NEW x \in Callers, Answered(x), Taken(x),
           main'.pc = "up" => main.pc = "up",
           \A y \in Callers \ {x} : Stays(y)
    PROVE  IdaTypes' /\ Flights'
<1>1. IdaTypes' /\ Steady
  BY DEF IdaTypes, Steady, Taken, NoReply, Reply
<1>2. \A y : Flying(y)' = Flying(y)
  BY Zenon DEF Flying, Place, InPlace, Taken
<1>3. \A y : Carries(y, 0)
  <2>2. \A i : InPlace(i)' = InPlace(i)
    BY Zenon DEF InPlace, Taken
  <2>3. \A y : \A i \in Flying(y) : i + 0 = i
    BY DEF Flying, Place
  <2>. QED BY Zenon, <1>2, <2>2, <2>3 DEF Carries
<1>4. AbandonedSound'
  BY Zenon, <1>3, AbandonedStays DEF Flights
<1>5. \A y \in Callers : y # x => /\ Stays(y) /\ reply'[y] = reply[y]
                                  /\ Carries(y, 0) \/ Carries(y, 1)
  BY Zenon, <1>3 DEF Taken, IdaTypes
<1>6. FlightSound(x)'
  <2>1. Flying(x)' = {} /\ reply'[x] = NoReply
    BY Zenon, <1>2, AnsweredRests DEF Flights, Answered, Taken, IdaTypes
  <2>. QED BY Zenon, <2>1, Resting
<1>. QED BY Zenon, <1>1, <1>4, <1>5, <1>6, OthersStay

\* A caller that did not wait sends a request, and waits for its answer.
LEMMA Sends ==
    ASSUME IdaTypes, TaskTypes, TaskSound, Flights, NEW r \in Sent, NEW x \in Callers, r.from = x,
           TrySend(r), ~ Waits(x, View(x)), Asks(x, View(x)', r.kind, r.gen),
           main'.pc = "up" => main.pc = "up",
           \A y \in Callers \ {x} : Stays(y)
    PROVE  IdaTypes' /\ Flights'
<1>1. Flying(x) = {} /\ reply[x] = NoReply
  BY Zenon, NotWaiting DEF Flights
<1>2. Waits(x, View(x)')
  BY Zenon, AskersWait
<1>3. Steady
  BY DEF Steady, TrySend, IdaTypes
<1>4. CASE CanSend
  <2>1. queue' = Append(queue, r) /\ UNCHANGED <<reply, db, lastGen, running>>
    BY Zenon, <1>4 DEF TrySend
  <2>2. /\ queue' \in Seq(Sent) /\ Len(queue') = Len(queue) + 1 /\ Len(queue) \in Nat
        /\ \A i \in 1 .. Len(queue) : queue'[i] = queue[i]
        /\ queue'[Len(queue) + 1] = r
    BY <2>1 DEF IdaTypes
  <2>3. IdaTypes'
    BY Zenon, <2>1, <2>2 DEF IdaTypes
  <2>4. \A i \in Place' : \/ i \in Place /\ InPlace(i)' = InPlace(i)
                          \/ i = Len(queue) + 1 /\ InPlace(i)' = r
    BY <2>1, <2>2 DEF Place, InPlace
  <2>5. \A y : y # x => Carries(y, 0)
    <3>1. \A i \in Place : i + 0 = i
      BY DEF Place
    <3>. QED BY Zenon, <2>4, <3>1 DEF Carries, Flying
  <2>6. FlightSound(x)'
    <3>1. \A i \in Flying(x)' : i = Len(queue) + 1 /\ InPlace(i)' = r
      BY Zenon, <1>1, <2>4 DEF Flying
    <3>2. reply'[x] = NoReply
      BY Zenon, <1>1, <2>1
    <3>3. \A i \in Flying(x)' : Asks(x, View(x)', InPlace(i)'.kind, InPlace(i)'.gen)
      BY Zenon, <3>1
    <3>. QED BY Zenon, <3>1, <3>2, <3>3 DEF FlightSound
  <2>7. AbandonedSound'
    BY Zenon, <2>5, AbandonedStays, CallerNames DEF Flights
  <2>8. \A y \in Callers : y # x => /\ Stays(y) /\ reply'[y] = reply[y]
                                    /\ Carries(y, 0) \/ Carries(y, 1)
    BY Zenon, <2>1, <2>5
  <2>. QED BY Zenon, <1>3, <2>3, <2>6, <2>7, <2>8, OthersStay
<1>5. CASE ~ CanSend
  <2>1. /\ reply' = [reply EXCEPT ![x] = [res |-> "err", gen |-> 0]]
        /\ UNCHANGED <<queue, db, lastGen, running>>
    BY Zenon, <1>5 DEF TrySend
  <2>2. reply'[x] = [res |-> "err", gen |-> 0] /\ (\A y \in Callers : y # x => reply'[y] = reply[y])
    BY Zenon, <2>1 DEF IdaTypes
  <2>3. IdaTypes'
    BY Zenon, <2>1 DEF IdaTypes, Reply
  <2>4. \A y : Flying(y)' = Flying(y)
    BY Zenon, <2>1 DEF Flying, Place, InPlace
  <2>5. \A y : Carries(y, 0)
    <3>1. \A i : InPlace(i)' = InPlace(i)
      BY Zenon, <2>1 DEF InPlace
    <3>2. \A y : \A i \in Flying(y) : i + 0 = i
      BY DEF Flying, Place
    <3>. QED BY Zenon, <2>4, <3>1, <3>2 DEF Carries
  <2>6. FlightSound(x)'
    <3>1. Flying(x)' = {}
      BY Zenon, <1>1, <2>4
    <3>2. Tells(x, View(x), reply[x])'
      BY <2>2 DEF Tells
    <3>. QED BY Zenon, <1>2, <3>1, <3>2 DEF FlightSound
  <2>7. AbandonedSound'
    BY Zenon, <2>5, AbandonedStays DEF Flights
  <2>8. \A y \in Callers : y # x => /\ Stays(y) /\ reply'[y] = reply[y]
                                    /\ Carries(y, 0) \/ Carries(y, 1)
    BY Zenon, <2>2, <2>5
  <2>. QED BY Zenon, <1>3, <2>3, <2>6, <2>7, <2>8, OthersStay
<1>. QED BY Zenon, <1>4, <1>5

\* A caller abandons its request.
LEMMA Drops ==
    ASSUME IdaTypes, TaskTypes, TaskSound, Flights, NEW x \in Callers, ~ Answered(x),
           AbandonInFlight(x), UNCHANGED <<db, lastGen, reply>>,
           \A kind, gen : Asks(x, View(x), kind, gen) =>
               /\ kind \notin {"Shutdown", "CloseIfGeneration"}
               /\ kind = "Close" => main'.pc # "up",
           main'.pc = "up" => main.pc = "up",
           \A y \in Callers \ {x} : Stays(y)
    PROVE  IdaTypes' /\ Flights'
<1>1. Len(queue) \in Nat /\ DOMAIN queue = 1 .. Len(queue)
  BY DEF IdaTypes
<1>2. DOMAIN queue' = DOMAIN queue /\ Len(queue') = Len(queue)
  BY <1>1 DEF AbandonInFlight
<1>3. \A i \in DOMAIN queue : queue'[i] = IF queue[i].from = x THEN Abandon(queue[i]) ELSE queue[i]
  BY Zenon DEF AbandonInFlight
<1>4. ASSUME NEW q \in Sent
      PROVE  /\ Abandon(q) \in Sent /\ Abandon(q).from = Gone
             /\ Abandon(q).kind = q.kind /\ Abandon(q).gen = q.gen
  BY Zenon DEF Abandon, Sent
<1>5. \A i \in DOMAIN queue : queue[i] \in Sent
  BY DEF IdaTypes
<1>6. running.from = x => running \in Sent
  BY Zenon, IdleRequest, CallerNames DEF IdaTypes
<1>7. IdaTypes'
  <2>1. \A i \in DOMAIN queue' : queue'[i] \in Sent
    BY Zenon, <1>2, <1>3, <1>4, <1>5
  <2>2. queue' \in Seq(Sent)
    <3>1. queue' = [i \in 1 .. Len(queue) |-> queue'[i]]
      BY Zenon, <1>1, <1>2 DEF AbandonInFlight
    <3>. QED BY <1>1, <1>2, <2>1, <3>1
  <2>3. running' \in Sent \cup {Idle}
    BY Zenon, <1>4, <1>6 DEF AbandonInFlight, IdaTypes
  <2>. QED BY Zenon, <2>2, <2>3 DEF IdaTypes
<1>8. Place' = Place /\ (\A i \in Place : i + 0 = i)
  BY <1>2 DEF Place
<1>9. \A i \in Place : /\ InPlace(i)'.kind = InPlace(i).kind /\ InPlace(i)'.gen = InPlace(i).gen
                       /\ InPlace(i)'.from = IF InPlace(i).from = x THEN Gone ELSE InPlace(i).from
  <2>. SUFFICES ASSUME NEW i \in Place
                PROVE  /\ InPlace(i)'.kind = InPlace(i).kind /\ InPlace(i)'.gen = InPlace(i).gen
                       /\ InPlace(i)'.from = IF InPlace(i).from = x THEN Gone ELSE InPlace(i).from
    BY Zenon
  <2>1. CASE i = 0
    BY Zenon, <1>4, <1>6, <2>1 DEF InPlace, AbandonInFlight
  <2>2. CASE i # 0
    <3>1. i \in DOMAIN queue
      BY <1>1, <2>2 DEF Place
    <3>. QED BY <1>3, <1>4, <1>5, <2>2, <3>1 DEF InPlace
  <2>. QED BY Zenon, <2>1, <2>2
<1>10. \A y : y \notin {x, Gone} => Carries(y, 0)
  BY Zenon, <1>8, <1>9 DEF Carries, Flying
<1>11. FlightSound(x)'
  <2>1. Flying(x)' = {}
    BY Zenon, <1>8, <1>9, CallerNames DEF Flying
  <2>2. reply'[x] = NoReply
    BY Zenon DEF Answered
  <2>. QED BY Zenon, <2>1, <2>2, Resting
<1>12. AbandonedSound'
  <2>1. \A i \in Flying(Gone)' : i \in Flying(Gone) \/ i \in Flying(x)
    BY Zenon, <1>8, <1>9 DEF Flying
  <2>2. \A i \in Flying(x) : Asks(x, View(x), InPlace(i).kind, InPlace(i).gen)
    BY Zenon DEF Flights, FlightSound
  <2>3. \A i \in Flying(Gone)' : InPlace(i)'.kind = InPlace(i).kind
    BY Zenon, <1>8, <1>9 DEF Flying
  <2>. QED BY Zenon, <2>1, <2>2, <2>3 DEF Flights, AbandonedSound
<1>13. Steady
  BY DEF Steady, IdaTypes
<1>14. \A y \in Callers : y # x => /\ Stays(y) /\ reply'[y] = reply[y]
                                   /\ Carries(y, 0) \/ Carries(y, 1)
  BY Zenon, <1>10, CallerNames
<1>. QED BY Zenon, <1>7, <1>11, <1>12, <1>13, <1>14, OthersStay

\* Requests are cancelled where they are.
LEMMA Cancels ==
    ASSUME IdaTypes, TaskTypes, TaskSound, Flights, NEW T, T \subseteq Callers,
           queue' = [i \in DOMAIN queue |-> IF queue[i].from \in T THEN Cancelled(queue[i]) ELSE queue[i]],
           running' = IF running.from \in T THEN Cancelled(running) ELSE running,
           UNCHANGED <<db, lastGen, reply>>,
           main'.pc = "up" => main.pc = "up",
           \A y \in Callers : Stays(y)
    PROVE  IdaTypes' /\ Flights'
<1>1. Len(queue) \in Nat /\ DOMAIN queue = 1 .. Len(queue)
  BY DEF IdaTypes
<1>2. DOMAIN queue' = DOMAIN queue /\ Len(queue') = Len(queue)
  BY <1>1
<1>3. \A i \in DOMAIN queue : queue'[i] = IF queue[i].from \in T THEN Cancelled(queue[i]) ELSE queue[i]
  BY Zenon
<1>4. ASSUME NEW q \in Sent
      PROVE  /\ Cancelled(q) \in Sent /\ Cancelled(q).from = q.from
             /\ Cancelled(q).kind = q.kind /\ Cancelled(q).gen = q.gen
  BY Zenon DEF Cancelled, Sent
<1>5. \A i \in DOMAIN queue : queue[i] \in Sent
  BY DEF IdaTypes
<1>6. running.from \in T => running \in Sent
  BY Zenon, IdleRequest, CallerNames DEF IdaTypes
<1>7. IdaTypes'
  <2>1. \A i \in DOMAIN queue' : queue'[i] \in Sent
    BY Zenon, <1>2, <1>3, <1>4, <1>5
  <2>2. queue' \in Seq(Sent)
    <3>1. queue' = [i \in 1 .. Len(queue) |-> queue'[i]]
      BY Zenon, <1>1, <1>2
    <3>. QED BY <1>1, <1>2, <2>1, <3>1
  <2>3. running' \in Sent \cup {Idle}
    BY Zenon, <1>4, <1>6 DEF IdaTypes
  <2>. QED BY Zenon, <2>2, <2>3 DEF IdaTypes
<1>8. Place' = Place /\ (\A i \in Place : i + 0 = i)
  BY <1>2 DEF Place
<1>9. \A i \in Place : /\ InPlace(i)'.kind = InPlace(i).kind /\ InPlace(i)'.gen = InPlace(i).gen
                       /\ InPlace(i)'.from = InPlace(i).from
  <2>. SUFFICES ASSUME NEW i \in Place
                PROVE  /\ InPlace(i)'.kind = InPlace(i).kind /\ InPlace(i)'.gen = InPlace(i).gen
                       /\ InPlace(i)'.from = InPlace(i).from
    BY Zenon
  <2>1. CASE i = 0
    BY Zenon, <1>4, <1>6, <2>1 DEF InPlace
  <2>2. CASE i # 0
    <3>1. i \in DOMAIN queue
      BY <1>1, <2>2 DEF Place
    <3>. QED BY Zenon, <1>3, <1>4, <1>5, <2>2, <3>1 DEF InPlace
  <2>. QED BY Zenon, <2>1, <2>2
<1>10. \A y : Carries(y, 0)
  BY Zenon, <1>8, <1>9 DEF Carries, Flying
<1>11. AbandonedSound'
  BY Zenon, <1>10, AbandonedStays DEF Flights
<1>12. Steady
  BY DEF Steady, IdaTypes
<1>13. \A y \in Callers : y # Gone => /\ Stays(y) /\ reply'[y] = reply[y]
                                      /\ Carries(y, 0) \/ Carries(y, 1)
  BY Zenon, <1>10
<1>. QED BY Zenon, <1>7, <1>11, <1>12, <1>13, OthersStay, CallerNames

\* The callers are where they were.
SameCallers == UNCHANGED <<call, task, main>>

\* A step that moves no caller leaves what each one waits for.
LEMMA CallersStay ==
    ASSUME SameCallers
    PROVE  \A y : View(y)' = View(y) /\ Stays(y)
BY Zenon DEF SameCallers, View, Stays

-----------------------------------------------------------------------------
(* What a step leaves alone.                                               *)

\* A call that does not move.
LEMMA CallStays ==
    ASSUME IdaTypes, Steady, NEW s \in Sessions, CallTypes, CallSound(s), call'[s] = call[s], UNCHANGED setup
    PROVE  CallSound(s)'
<1>1. Enabled' = Enabled
  BY Zenon DEF Enabled
<1>2. call[s].gen \in 1 .. lastGen => call[s].gen \in 1 .. lastGen'
  BY DEF IdaTypes, Steady
<1>. QED BY Zenon, <1>1, <1>2 DEF CallSound

\* Calls that do not move stay sound while the IDA thread works.
LEMMA CallsStay ==
    ASSUME IdaTypes, Steady, CallTypes, \A s \in Sessions : CallSound(s), UNCHANGED <<call, setup>>
    PROVE  CallTypes' /\ \A s \in Sessions : CallSound(s)'
<1>1. ASSUME NEW s \in Sessions PROVE CallSound(s)'
  <2>1. call'[s] = call[s] /\ CallSound(s)
    BY Zenon
  <2>. QED BY Zenon, <2>1, CallStays
<1>. QED BY Zenon, <1>1 DEF CallTypes

\* The tasks do not move; they may be cancelled.
TasksAreWhere ==
    \A t \in TaskKinds : /\ task'[t].pc = task[t].pc /\ task'[t].gen = task[t].gen
                         /\ task'[t].status = task[t].status /\ task'[t].why = task[t].why

\* Tasks that stay where they are stay sound while the IDA thread works.
LEMMA TasksStay ==
    ASSUME IdaTypes, Steady, TaskTypes, TaskSound, TasksAreWhere
    PROVE  TaskSound'
<1>. /\ "dsc" \in TaskKinds /\ "analyze" \in TaskKinds
  BY Zenon DEF TaskKinds
<1>1. \A t \in TaskKinds : task'[t].status = "running" <=> task'[t].pc \notin {"none", "done"}
  BY Zenon DEF TasksAreWhere, TaskSound
<1>2. /\ task'["analyze"].pc \in {"none", "start", "wait", "done"} /\ task'["dsc"].pc # "wait"
      /\ task'["dsc"].pc \in DscPC => task'["dsc"].gen = 0
      /\ task'["dsc"].pc \in OwningPC => task'["dsc"].gen # 0
      /\ task'["dsc"].pc \in {"undo", "undoing", "clear"} => task'["dsc"].why # ""
  BY Zenon DEF TasksAreWhere, TaskSound
<1>3. task["dsc"].gen \in Nat /\ task["dsc"].gen <= lastGen
  BY ZenonT(40) DEF TaskTypes, TaskState, TaskSound
<1>4. task'["dsc"].gen <= lastGen'
  BY <1>3 DEF TasksAreWhere, Steady, IdaTypes
<1>5. task["dsc"].gen # 0 /\ db.gen # task["dsc"].gen => db'.gen # task["dsc"].gen
  BY <1>3 DEF Steady, IdaTypes
<1>6. task'["dsc"].pc = "clear" => db'.gen # task'["dsc"].gen
  BY Zenon, <1>5 DEF TasksAreWhere, TaskSound, OwningPC
<1>7. UnsuccessfulDscLeavesNothingOpen'
  BY ZenonT(40), <1>5 DEF TasksAreWhere, TaskSound, UnsuccessfulDscLeavesNothingOpen
<1>. QED BY Zenon, <1>1, <1>2, <1>4, <1>6, <1>7 DEF TaskSound

\* The output of idat is left, or completed by a save.
LEMMA OutputStays ==
    ASSUME OutputSound, UNCHANGED idat, task'["dsc"].pc = task["dsc"].pc,
           task'["dsc"].status = task["dsc"].status, file' \in {file, "complete"}
    PROVE  OutputSound'
BY Zenon DEF OutputSound, PartialIsBeingWritten

\* No foreground operation starts or ends.
LEMMA OpsStay ==
    ASSUME OpsSound, UNCHANGED ops,
           \A s \in Sessions : call'[s].pc \in ForegroundPC <=> call[s].pc \in ForegroundPC
    PROVE  OpsSound'
<1>1. {s \in Sessions : call'[s].pc \in {"fg", "late", "drain"}}
        = {s \in Sessions : call[s].pc \in {"fg", "late", "drain"}}
  BY Zenon DEF ForegroundPC
<1>. QED BY Zenon, <1>1 DEF OpsSound, ActiveOperationRuns

\* Who is about to clear the token still is.
SessionClears(s) == call[s].pc = "clear" \/ (call[s].pc = "closing" /\ reply[s].res = "ok")
TaskClears == task["dsc"].pc = "clear" \/ (task["dsc"].pc = "undoing" /\ reply["dsc"].res = "closed")

\* A token that stays keeps its database, or the one who closed it goes on to clear the token.
LEMMA LeaseStays ==
    ASSUME LeaseSound, UNCHANGED <<lease, setup>>, main'.pc = "up" => main.pc = "up",
           main'.pc = "up" /\ lease.live => db'.gen = db.gen \/ Clearing \/ Clearing',
           \A s \in Sessions : SessionClears(s) => SessionClears(s)',
           TaskClears => TaskClears'
    PROVE  LeaseSound'
<1>1. Clearing => Clearing'
  BY Zenon DEF Clearing, SessionClears, TaskClears, AnsweredOk
<1>2. LeaseHasDatabase'
  BY Zenon, <1>1 DEF LeaseSound, LeaseHasDatabase
<1>. QED BY Zenon, <1>2 DEF LeaseSound, Http

-----------------------------------------------------------------------------
(* The IDA thread.                                                         *)

\* Only who has a request in flight is answered.
AnswersFlying == \A y \in Callers : reply'[y] = reply[y] \/ Flying(y) # {}

\* The IDA thread keeps the server's invariant.
LEMMA IdaThreadKeeps == ServerInv /\ IdaThread => ServerInv'
\* The IDA thread answers the request it executes.
<1>Finishes.
    ASSUME IdaTypes, TaskTypes, TaskSound, Flights, Steady, SameCallers,
           db' \in [gen : Nat, path : Path], db'.gen <= lastGen',
           running # Idle, running' = Idle, UNCHANGED queue, NEW a \in Reply, a # NoReply,
           reply' = IF running.from = Gone THEN reply ELSE [reply EXCEPT ![running.from] = a],
           a.res = "ok" /\ running.kind = "Open" => a.gen \in 1 .. lastGen',
           a.res \in {"closed", "other"} => /\ running.kind = "CloseIfGeneration"
                                            /\ running.gen # 0 => db'.gen # running.gen
    PROVE  IdaTypes' /\ Flights'
  <2> USE <1>Finishes
  <2>1. running \in Sent /\ running.from \in Callers \cup {Gone}
    BY Zenon DEF IdaTypes, Sent
  <2>2. IdaTypes'
    <3>1. reply' \in [Callers -> Reply]
      BY Zenon, <2>1 DEF IdaTypes
    <3>. QED BY Zenon, <3>1 DEF IdaTypes, Steady
  <2>3. Len(queue) \in Nat /\ Place' = Place /\ 0 \in Place
    BY DEF Place, IdaTypes
  <2>4. \A i \in Place : InPlace(i)' = IF i = 0 THEN Idle ELSE InPlace(i)
    BY Zenon DEF InPlace
  <2>5. \A y : y # NoOne => /\ \A i \in Flying(y)' : i \in Flying(y) /\ i # 0 /\ InPlace(i)' = InPlace(i)
                            /\ Carries(y, 0)
    <3>1. \A i \in Place : i + 0 = i
      BY <2>3 DEF Place
    <3>. QED BY Zenon, <2>3, <2>4, <3>1, IdleRequest DEF Flying, Carries
  <2>6. 0 \in Flying(running.from)
    BY Zenon, <2>3 DEF Flying, InPlace
  <2>7. AbandonedSound'
    BY Zenon, <2>5, AbandonedStays, CallerNames DEF Flights, SameCallers
  <2>8. \A y \in Callers : y # running.from => /\ Stays(y) /\ reply'[y] = reply[y]
                                               /\ Carries(y, 0) \/ Carries(y, 1)
    BY Zenon, <2>1, <2>5, CallersStay, CallerNames DEF IdaTypes
  <2>9. PICK x \in Callers \cup {Gone} : x = running.from
    BY Zenon, <2>1
  <2>10. ASSUME x \in Callers PROVE FlightSound(x)'
    <3>1. Flying(x)' = {}
      BY <2>5, <2>6, <2>9, <2>10, CallerNames DEF Flights, FlightSound
    <3>2. reply'[x] = a
      BY Zenon, <2>9, <2>10, CallerNames DEF IdaTypes
    <3>3. Asks(x, View(x), running.kind, running.gen)
      BY Zenon, <2>6, <2>9, <2>10 DEF Flights, FlightSound, InPlace
    <3>4. View(x)' = View(x) /\ Waits(x, View(x)')
      BY Zenon, <3>3, CallersStay, AskersWait
    <3>5. Asks(x, View(x), "Open", 0) => running.kind = "Open"
      BY Zenon, <3>3, CallerNames DEF Asks, SessionAsks, DscAsks, ForegroundPC
    <3>6. ASSUME x = "dsc", a.res \in {"closed", "other"}
          PROVE  View(x).pc = "undoing" /\ db'.gen # View(x).gen
      <4>1. View(x).pc = "undoing" /\ running.gen = View(x).gen
        BY Zenon, <3>3, <3>6, CallerNames DEF Asks, DscAsks
      <4>2. View(x).gen = task["dsc"].gen /\ View(x).pc = task["dsc"].pc
        BY Zenon, <3>6, CallerNames DEF View, TaskKinds
      <4>3. running.gen # 0
        BY Zenon, <4>1, <4>2 DEF TaskSound, OwningPC
      <4>. QED BY Zenon, <3>6, <4>1, <4>3
    <3>7. Tells(x, View(x), reply[x])'
      BY Zenon, <3>2, <3>4, <3>5, <3>6 DEF Tells
    <3>. QED BY Zenon, <3>1, <3>4, <3>7 DEF FlightSound
  <2>. QED BY Zenon, <2>2, <2>7, <2>8, <2>9, <2>10, OthersStay

\* The channel goes away: the callers whose requests are lost are told.
<1>Emptied.
    ASSUME IdaTypes, TaskTypes, TaskSound, Flights, Steady, SameCallers, IdaTypes',
           \A y \in Callers \cup {Gone} : Flying(y)' = {},
           \A y \in Callers : \/ reply'[y] = reply[y]
                              \/ Flying(y) # {} /\ reply'[y].res \in {"err", "cancelled"}
    PROVE  Flights'
  <2> USE <1>Emptied
  <2>1. AbandonedSound'
    BY Zenon DEF AbandonedSound
  <2>2. ASSUME NEW y \in Callers PROVE FlightSound(y)'
    <3>1. CASE reply'[y] = reply[y]
      <4>1. Carries(y, 0)
        BY Zenon DEF Carries
      <4>2. FlightSound(y) /\ Stays(y)
        BY Zenon, CallersStay DEF Flights
      <4>. QED BY Zenon, <3>1, <4>1, <4>2, FlightStays
    <3>2. CASE Flying(y) # {} /\ reply'[y].res \in {"err", "cancelled"}
      <4>1. Waits(y, View(y)')
        BY <3>2, CallersStay, AskersWait DEF Flights, FlightSound
      <4>2. Tells(y, View(y), reply[y])'
        BY Zenon, <3>2 DEF Tells
      <4>. QED BY Zenon, <4>1, <4>2 DEF FlightSound
    <3>. QED BY <3>1, <3>2
  <2>. QED BY Zenon, <2>1, <2>2 DEF Flights

\* Taking a request, or refusing a cancelled one, leaves every caller with the request it waits for.
<1>TakeRequestFlights.
    ASSUME IdaTypes, TaskTypes, TaskSound, Flights, TakeRequest
    PROVE  IdaTypes' /\ Flights'
  <2> USE <1>TakeRequestFlights
  <2>. PICK r : r = Head(queue)
    BY Zenon
  <2>1. /\ running = Idle /\ queue # <<>> /\ queue' = Tail(queue) /\ UNCHANGED <<db, lastGen>>
        /\ SameCallers
    BY Zenon DEF TakeRequest, SameCallers, callVars, taskVars
  <2>2. /\ Len(queue) \in Nat \ {0} /\ r \in Sent /\ r = queue[1]
        /\ queue' \in Seq(Sent) /\ Len(queue') = Len(queue) - 1
        /\ \A i \in 1 .. Len(queue') : queue'[i] = queue[i + 1]
    BY <2>1 DEF IdaTypes
  <2>3. Steady
    BY <2>1 DEF Steady, IdaTypes
  <2>4. ASSUME \/ running' = r \/ UNCHANGED running, NEW y, y # NoOne PROVE Carries(y, 1)
    <3>. SUFFICES ASSUME NEW i \in Flying(y)' PROVE i + 1 \in Flying(y) /\ InPlace(i)' = InPlace(i + 1)
      BY Zenon DEF Carries
    <3>1. i \in Nat /\ i <= Len(queue') /\ i + 1 \in Place /\ i + 1 # 0
      BY <2>2 DEF Flying, Place
    <3>2. InPlace(i + 1) = queue[i + 1]
      BY Zenon, <3>1 DEF InPlace
    <3>3. CASE i = 0
      <4>1. running' # Idle
        BY Zenon, <2>4, <3>3, IdleRequest DEF Flying, InPlace
      <4>2. InPlace(i)' = r
        BY Zenon, <2>1, <2>4, <3>3, <4>1 DEF InPlace
      <4>. QED BY <2>2, <3>1, <3>2, <3>3, <4>2 DEF Flying
    <3>4. CASE i # 0
      BY <2>2, <3>1, <3>2, <3>4 DEF Flying, InPlace
    <3>. QED BY Zenon, <3>3, <3>4
  <2>5. CASE running' = r /\ UNCHANGED reply
    <3>1. IdaTypes'
      BY Zenon, <2>1, <2>2, <2>5 DEF IdaTypes
    <3>2. AbandonedSound'
      BY Zenon, <2>1, <2>4, <2>5, AbandonedStays, CallerNames DEF Flights, SameCallers
    <3>3. \A y \in Callers : y # Gone => /\ Stays(y) /\ reply'[y] = reply[y]
                                         /\ Carries(y, 0) \/ Carries(y, 1)
      BY Zenon, <2>1, <2>4, <2>5, CallersStay, CallerNames
    <3>. QED BY Zenon, <2>3, <3>1, <3>2, <3>3, OthersStay, CallerNames
  <2>6. CASE Answer(r.from, "cancelled", 0) /\ UNCHANGED running
    <3>1. r.from \in Callers \cup {Gone}
      BY Zenon, <2>2 DEF Sent
    <3>2. PICK x \in Callers \cup {Gone} : x = r.from
      BY Zenon, <3>1
    <3>3. reply' = IF x = Gone THEN reply ELSE [reply EXCEPT ![x] = [res |-> "cancelled", gen |-> 0]]
      BY Zenon, <2>6, <3>2 DEF Answer
    <3>4. IdaTypes'
      <4>1. reply' \in [Callers -> Reply]
        BY Zenon, <3>3 DEF IdaTypes, Reply
      <4>. QED BY Zenon, <2>1, <2>2, <2>6, <4>1 DEF IdaTypes
    <3>5. AbandonedSound'
      BY Zenon, <2>1, <2>4, <2>6, AbandonedStays, CallerNames DEF Flights, SameCallers
    <3>6. \A y \in Callers : y # x => /\ Stays(y) /\ reply'[y] = reply[y]
                                      /\ Carries(y, 0) \/ Carries(y, 1)
      BY Zenon, <2>1, <2>4, <2>6, <3>3, CallersStay, CallerNames DEF IdaTypes
    <3>7. ASSUME x \in Callers PROVE FlightSound(x)'
      <4>1. 1 \in Flying(x) /\ InPlace(1) = r
        BY <2>2, <3>2 DEF Flying, Place, InPlace
      <4>2. \A j \in Flying(x) : j = 1
        BY Zenon, <3>7, <4>1 DEF Flights, FlightSound
      <4>3. Flying(x)' = {}
        <5>. SUFFICES ASSUME NEW i \in Flying(x)' PROVE FALSE
          BY Zenon
        <5>1. i \in Nat /\ i + 1 \in Flying(x)
          BY <2>4, <2>6, <3>7, CallerNames DEF Carries, Flying, Place
        <5>2. i = 0
          BY <4>2, <5>1
        <5>. QED BY Zenon, <2>1, <2>6, <3>7, <5>2, IdleRequest, CallerNames DEF Flying, InPlace
      <4>4. Asks(x, View(x), r.kind, r.gen)
        BY Zenon, <3>7, <4>1 DEF Flights, FlightSound
      <4>5. Waits(x, View(x)')
        BY Zenon, <2>1, <4>4, CallersStay, AskersWait
      <4>6. reply'[x] = [res |-> "cancelled", gen |-> 0]
        BY Zenon, <3>3, <3>7, CallerNames DEF IdaTypes
      <4>7. Tells(x, View(x), reply[x])'
        BY <4>6 DEF Tells
      <4>. QED BY Zenon, <4>3, <4>5, <4>7 DEF FlightSound
    <3>. QED BY Zenon, <2>3, <3>4, <3>5, <3>6, <3>7, OthersStay
  <2>. QED BY Zenon, <2>5, <2>6 DEF TakeRequest

\* Finishing a request answers the caller that waits for it, with a new generation when it opened.
<1>FinishRequestFlights.
    ASSUME IdaTypes, TaskTypes, TaskSound, Flights, FinishRequest
    PROVE  IdaTypes' /\ Flights' /\ Steady
  <2> USE <1>FinishRequestFlights
  <2>1. running # Idle /\ running' = Idle /\ UNCHANGED queue /\ SameCallers
    BY Zenon DEF FinishRequest, SameCallers, callVars
  <2>2. running \in Sent
    BY Zenon, <2>1 DEF IdaTypes
  <2>3. running.path \in Path /\ running.gen \in Nat
    BY Zenon, <2>2 DEF Sent
  <2>4. db.gen \in Nat /\ lastGen \in Nat /\ db.gen <= lastGen /\ db \in [gen : Nat, path : Path]
    BY Zenon DEF IdaTypes
  <2>5. NoDb \in [gen : Nat, path : Path] /\ NoDb.gen = 0
    BY Zenon DEF NoDb, Path
  <2>6. ASSUME NEW res, NEW gen \in Nat, res \in {"ok", "err", "cancelled", "closed", "other"}
        PROVE  [res |-> res, gen |-> gen] \in Reply /\ [res |-> res, gen |-> gen] # NoReply
    BY Zenon, <2>6 DEF Reply, NoReply
  <2>7. ASSUME FinishOpen(running), running.kind = "Open" PROVE IdaTypes' /\ Flights' /\ Steady
    <3>1. CASE /\ db.gen = 0 /\ lastGen' = lastGen + 1
               /\ db' = [gen |-> lastGen', path |-> running.path]
               /\ Answer(running.from, "ok", lastGen')
      <4>1. db' \in [gen : Nat, path : Path] /\ db'.gen <= lastGen' /\ Steady
        BY <2>3, <2>4, <3>1 DEF Steady
      <4>2. PICK a : a = [res |-> "ok", gen |-> lastGen + 1]
        BY Zenon
      <4>3. a \in Reply /\ a # NoReply /\ a.res = "ok" /\ a.gen \in 1 .. lastGen'
        BY <2>4, <2>6, <3>1, <4>2
      <4>4. reply' = IF running.from = Gone THEN reply ELSE [reply EXCEPT ![running.from] = a]
        BY Zenon, <3>1, <4>2 DEF Answer
      <4>. QED BY Zenon, <2>1, <4>1, <4>3, <4>4, <1>Finishes
    <3>2. CASE db.gen # 0 /\ Answer(running.from, "ok", db.gen) /\ UNCHANGED <<db, lastGen>>
      <4>1. db' \in [gen : Nat, path : Path] /\ db'.gen <= lastGen' /\ Steady
        BY <2>4, <3>2 DEF Steady
      <4>2. PICK a : a = [res |-> "ok", gen |-> db.gen]
        BY Zenon
      <4>3. a \in Reply /\ a # NoReply /\ a.res = "ok" /\ a.gen \in 1 .. lastGen'
        BY <2>4, <2>6, <3>2, <4>2
      <4>4. reply' = IF running.from = Gone THEN reply ELSE [reply EXCEPT ![running.from] = a]
        BY Zenon, <3>2, <4>2 DEF Answer
      <4>. QED BY Zenon, <2>1, <4>1, <4>3, <4>4, <1>Finishes
    <3>3. CASE Answer(running.from, "err", 0) /\ UNCHANGED <<db, lastGen>>
      <4>1. db' \in [gen : Nat, path : Path] /\ db'.gen <= lastGen' /\ Steady
        BY <2>4, <3>3 DEF Steady
      <4>2. PICK a : a = [res |-> "err", gen |-> 0]
        BY Zenon
      <4>3. a \in Reply /\ a # NoReply /\ a.res = "err"
        BY Zenon, <2>6, <4>2
      <4>4. reply' = IF running.from = Gone THEN reply ELSE [reply EXCEPT ![running.from] = a]
        BY Zenon, <3>3, <4>2 DEF Answer
      <4>. QED BY Zenon, <2>1, <4>1, <4>3, <4>4, <1>Finishes
    <3>. QED BY Zenon, <2>7, <3>1, <3>2, <3>3 DEF FinishOpen
  <2>8. ASSUME FinishClose(running), running.kind = "Close" PROVE IdaTypes' /\ Flights' /\ Steady
    <3>1. db' \in [gen : Nat, path : Path] /\ db'.gen <= lastGen' /\ Steady
      BY <2>4, <2>5, <2>8 DEF Steady, FinishClose
    <3>2. PICK a : a = [res |-> "ok", gen |-> 0]
      BY Zenon
    <3>3. a \in Reply /\ a # NoReply /\ a.res = "ok"
      BY Zenon, <2>6, <3>2
    <3>4. reply' = IF running.from = Gone THEN reply ELSE [reply EXCEPT ![running.from] = a]
      BY Zenon, <2>8, <3>2 DEF Answer, FinishClose
    <3>. QED BY Zenon, <2>1, <2>8, <3>1, <3>3, <3>4, <1>Finishes
  <2>9. ASSUME FinishCloseIf(running), running.kind = "CloseIfGeneration"
        PROVE  IdaTypes' /\ Flights' /\ Steady
    <3>1. db' \in [gen : Nat, path : Path] /\ db'.gen <= lastGen' /\ Steady
      BY <2>4, <2>5, <2>9 DEF Steady, FinishCloseIf
    <3>2. PICK a : a = [res |-> IF db.gen = running.gen THEN "closed" ELSE "other", gen |-> 0]
      BY Zenon
    <3>3. a \in Reply /\ a # NoReply /\ a.res \in {"closed", "other"}
      BY Zenon, <2>6, <3>2
    <3>4. reply' = IF running.from = Gone THEN reply ELSE [reply EXCEPT ![running.from] = a]
      BY Zenon, <2>9, <3>2 DEF Answer, FinishCloseIf
    <3>5. running.gen # 0 => db'.gen # running.gen
      BY Zenon, <2>5, <2>9 DEF FinishCloseIf
    <3>. QED BY Zenon, <2>1, <2>9, <3>1, <3>3, <3>4, <3>5, <1>Finishes
  <2>10. ASSUME NEW res \in {"ok", "err", "cancelled"}, Answer(running.from, res, 0),
                UNCHANGED <<db, lastGen>>, res = "ok" => running.kind # "Open"
         PROVE  IdaTypes' /\ Flights' /\ Steady
    <3>1. db' \in [gen : Nat, path : Path] /\ db'.gen <= lastGen' /\ Steady
      BY <2>4, <2>10 DEF Steady
    <3>2. PICK a : a = [res |-> res, gen |-> 0]
      BY Zenon
    <3>3. a \in Reply /\ a # NoReply /\ a.res = res
      BY Zenon, <2>6, <3>2
    <3>4. reply' = IF running.from = Gone THEN reply ELSE [reply EXCEPT ![running.from] = a]
      BY Zenon, <2>10, <3>2 DEF Answer
    <3>. QED BY Zenon, <2>1, <2>10, <3>1, <3>3, <3>4, <1>Finishes
  <2>11. ASSUME FinishWork(running), running.kind # "Open" PROVE IdaTypes' /\ Flights' /\ Steady
    BY Zenon, <2>10, <2>11 DEF FinishWork
  <2>12. ASSUME FinishCancelled(running) PROVE IdaTypes' /\ Flights' /\ Steady
    BY Zenon, <2>10, <2>12 DEF FinishCancelled
  <2>13. CASE running.kind = "Open"
    BY Zenon, <2>7, <2>12, <2>13 DEF FinishRequest
  <2>14. CASE running.kind = "Close"
    BY Zenon, <2>8, <2>14 DEF FinishRequest
  <2>15. CASE running.kind = "CloseIfGeneration"
    BY Zenon, <2>9, <2>15 DEF FinishRequest
  <2>16. CASE running.kind \notin {"Open", "Close", "CloseIfGeneration"}
    BY Zenon, <2>11, <2>12, <2>16 DEF FinishRequest
  <2>. QED BY Zenon, <2>13, <2>14, <2>15, <2>16

\* The end of the loop answers or drops what is queued: nobody waits for a request that is gone.
<1>LoopEndsFlights.
    ASSUME IdaTypes, TaskTypes, TaskSound, Flights, LoopEnds
    PROVE  IdaTypes' /\ Flights' /\ Steady
  <2> USE <1>LoopEndsFlights
  <2>1. /\ running = Idle /\ running' = Idle /\ queue' = <<>> /\ db' = NoDb /\ UNCHANGED lastGen
        /\ SameCallers
    BY Zenon DEF LoopEnds, SameCallers, callVars
  <2>2. NoDb \in [gen : Nat, path : Path] /\ NoDb.gen = 0
    BY Zenon DEF NoDb, Path
  <2>3. Steady
    BY <2>1, <2>2 DEF Steady, IdaTypes
  <2>4. IdaTypes'
    <3>1. reply' \in [Callers -> Reply]
      BY Zenon DEF LoopEnds, IdaTypes, Reply
    <3>. QED BY <2>1, <2>2, <3>1 DEF IdaTypes
  <2>5. \A y \in Callers \cup {Gone} : Flying(y)' = {}
    BY <2>1, IdleRequest, CallerNames DEF Flying, Place, InPlace
  <2>6. \A y \in Callers : \/ reply'[y] = reply[y]
                           \/ Flying(y) # {} /\ reply'[y].res \in {"err", "cancelled"}
    <3>1. \A y : \A i \in DOMAIN queue : queue[i].from = y => i \in Flying(y)
      BY DEF Flying, Place, InPlace, IdaTypes
    <3>. QED BY Zenon, <3>1 DEF LoopEnds
  <2>. QED BY Zenon, <2>1, <2>3, <2>4, <2>5, <2>6, <1>Emptied

\* A call that kills the child of the pool takes the queue with it: every waiting caller is told.
<1>CallKillsChildFlights.
    ASSUME IdaTypes, TaskTypes, TaskSound, Flights, CallKillsChild
    PROVE  IdaTypes' /\ Flights' /\ Steady
  <2> USE <1>CallKillsChildFlights
  <2>1. /\ running # Idle /\ running' = Idle /\ queue' = <<>> /\ db' = NoDb /\ UNCHANGED lastGen
        /\ SameCallers
    BY Zenon DEF CallKillsChild, ChildKilled, SameCallers, callVars, taskVars
  <2>2. NoDb \in [gen : Nat, path : Path] /\ NoDb.gen = 0
    BY Zenon DEF NoDb, Path
  <2>3. Steady
    BY <2>1, <2>2 DEF Steady, IdaTypes
  <2>4. IdaTypes'
    <3>1. reply' \in [Callers -> Reply]
      BY Zenon DEF CallKillsChild, ChildKilled, IdaTypes, Reply
    <3>. QED BY <2>1, <2>2, <3>1 DEF IdaTypes
  <2>5. \A y \in Callers \cup {Gone} : Flying(y)' = {}
    BY <2>1, IdleRequest, CallerNames DEF Flying, Place, InPlace
  <2>6. \A y \in Callers : \/ reply'[y] = reply[y]
                           \/ Flying(y) # {} /\ reply'[y].res \in {"err", "cancelled"}
    <3>1. \A y : \A i \in DOMAIN queue : queue[i].from = y => i \in Flying(y)
      BY DEF Flying, Place, InPlace, IdaTypes
    <3>2. 0 \in Flying(running.from)
      BY DEF Flying, Place, InPlace, IdaTypes
    <3>. QED BY Zenon, <3>1, <3>2 DEF CallKillsChild, ChildKilled
  <2>. QED BY Zenon, <2>1, <2>3, <2>4, <2>5, <2>6, <1>Emptied

\* A step of the IDA thread that answers only requests in flight.
<1>ThreadKeeps.
    ASSUME ServerInv, IdaTypes', Flights', Steady, SameCallers, AnswersFlying,
           UNCHANGED <<setup, ops, lease, lastToken, idat>>, file' \in {file, "complete"},
           main.pc = "up" /\ lease.live => db'.gen = db.gen \/ Clearing \/ Clearing'
    PROVE  ServerInv'
  <2> USE <1>ThreadKeeps
  <2>1. CallTypes' /\ \A s \in Sessions : CallSound(s)'
    BY Zenon, CallsStay DEF ServerInv, Types, SameCallers
  <2>2. TaskTypes' /\ TaskSound'
    <3>1. TasksAreWhere
      BY Zenon DEF TasksAreWhere, SameCallers
    <3>2. TaskTypes'
      BY Zenon DEF ServerInv, Types, TaskTypes, SameCallers
    <3>. QED BY Zenon, <3>1, <3>2, TasksStay DEF ServerInv, Types
  <2>3. OutputSound'
    BY Zenon, OutputStays DEF ServerInv, SameCallers
  <2>4. OpsSound'
    BY Zenon, OpsStay DEF ServerInv, SameCallers
  <2>5. LeaseSound'
    <3>1. ASSUME NEW s \in Sessions, SessionClears(s) PROVE SessionClears(s)'
      <4>1. CASE reply'[s] = reply[s]
        BY Zenon, <3>1, <4>1 DEF SessionClears, SameCallers
      <4>2. CASE Flying(s) # {}
        <5>1. reply[s] = NoReply /\ Waits(s, View(s))
          BY <4>2, CallerNames, AskersWait DEF ServerInv, Flights, FlightSound
        <5>. QED BY <3>1, <5>1, CallerNames DEF SessionClears, NoReply, Waits, WaitPC, ForegroundPC, View
      <4>. QED BY Zenon, <4>1, <4>2, CallerNames DEF AnswersFlying
    <3>2. ASSUME TaskClears PROVE TaskClears'
      <4>1. CASE reply'["dsc"] = reply["dsc"]
        BY Zenon, <3>2, <4>1 DEF TaskClears, SameCallers
      <4>2. CASE Flying("dsc") # {}
        <5>1. reply["dsc"] = NoReply /\ Waits("dsc", View("dsc"))
          BY <4>2, CallerNames, AskersWait DEF ServerInv, Flights, FlightSound
        <5>. QED BY <3>2, <5>1, CallerNames DEF TaskClears, NoReply, Waits, View, TaskKinds
      <4>. QED BY Zenon, <4>1, <4>2, CallerNames DEF AnswersFlying
    <3>3. main' = main /\ UNCHANGED <<lease, setup>> /\ LeaseSound
      BY Zenon DEF SameCallers, ServerInv
    <3>. QED BY Zenon, <3>1, <3>2, <3>3, LeaseStays
  <2>6. setup' \in Setups /\ MainTypes' /\ LeaseTypes'
    BY Zenon DEF ServerInv, Types, MainTypes, LeaseTypes, SameCallers
  <2>7. ASSUME NEW s \in Sessions PROVE Drained(s)'
    <3>1. CASE reply'[s] = reply[s]
      BY Zenon, <3>1 DEF Drained, ServerInv, SameCallers
    <3>2. CASE Flying(s) # {}
      <4>1. reply[s] = NoReply
        BY Zenon, <3>2, CallerNames DEF ServerInv, Flights, FlightSound
      <4>. QED BY Zenon, <4>1 DEF Drained, ServerInv, SameCallers
    <3>. QED BY Zenon, <3>1, <3>2, CallerNames DEF AnswersFlying
  <2>. QED BY Zenon, <2>1, <2>2, <2>3, <2>4, <2>5, <2>6, <2>7 DEF ServerInv, Types

\* TakeRequest: the next request, or the refusal of a cancelled one.
<1>TakeRequestKeeps.
    ASSUME ServerInv, TakeRequest
    PROVE  ServerInv'
  <2> USE <1>TakeRequestKeeps
  <2>1. IdaTypes' /\ Flights'
    BY Zenon, <1>TakeRequestFlights DEF ServerInv, Types
  <2>2. /\ SameCallers /\ UNCHANGED <<setup, ops, lease, lastToken, idat, file, db, lastGen>>
    BY Zenon DEF TakeRequest, SameCallers, callVars, taskVars, leaseVars, fixed
  <2>3. Steady
    BY <2>2 DEF Steady, ServerInv, Types, IdaTypes
  <2>4. AnswersFlying
    <3>1. 1 \in Flying(Head(queue).from)
      BY DEF TakeRequest, ServerInv, Types, IdaTypes, Flying, Place, InPlace
    <3>2. \A y \in Callers : y # Head(queue).from => reply'[y] = reply[y]
      BY Zenon DEF TakeRequest, Answer, ServerInv, Types, IdaTypes
    <3>. QED BY Zenon, <3>1, <3>2 DEF AnswersFlying
  <2>. QED BY Zenon, <2>1, <2>2, <2>3, <2>4, <1>ThreadKeeps

\* A Close closes for a session that goes on to clear the token, or for the main thread.
<1>WhoCloses.
    ASSUME ServerInv, running \in Sent
    PROVE  /\ running.kind = "Close" => \/ main.pc # "up"
                                        \/ running.from \in Sessions /\ call[running.from].pc = "closing"
           /\ running.kind = "CloseIfGeneration" =>
                  running.from = "dsc" /\ task["dsc"].pc = "undoing"
  <2> USE <1>WhoCloses
  <2>1. 0 \in Flying(running.from) /\ InPlace(0) = running /\ running.from \in Callers \cup {Gone}
    BY DEF ServerInv, Types, IdaTypes, Sent, Flying, Place, InPlace
  <2>2. CASE running.from = Gone
    BY Zenon, <2>1, <2>2 DEF ServerInv, Flights, AbandonedSound
  <2>3. CASE running.from \in Callers
    <3>1. PICK x \in Callers : x = running.from
      BY Zenon, <2>3
    <3>2. Asks(x, View(x), running.kind, running.gen)
      BY Zenon, <2>1, <3>1 DEF ServerInv, Flights, FlightSound
    <3>3. CASE x \in Sessions
      <4>1. SessionAsks(View(x), running.kind)
        BY Zenon, <3>2, <3>3, CallerNames DEF Asks
      <4>2. View(x).pc = call[x].pc /\ View(x).kind = call[x].kind
        BY Zenon, <3>3 DEF View
      <4>3. call[x].kind \in CallKind
        BY Zenon, <3>3 DEF ServerInv, Types, CallTypes, CallState
      <4>4. {"Close", "CloseIfGeneration"} \cap CallKind = {}
        BY Zenon, StepwiseKinds DEF CallKind
      <4>. QED BY Zenon, <3>1, <3>3, <4>1, <4>2, <4>3, <4>4 DEF SessionAsks
    <3>4. CASE x \in TaskKinds
      BY Zenon, <3>1, <3>2, <3>4, CallerNames DEF Asks, DscAsks, View, TaskKinds
    <3>5. CASE x = "main"
      BY ZenonT(40), <3>1, <3>2, <3>5, CallerNames DEF Asks, View, TaskKinds
    <3>. QED BY Zenon, <3>3, <3>4, <3>5 DEF Callers
  <2>. QED BY Zenon, <2>1, <2>2, <2>3

\* FinishRequest: the database that a live token is of is closed only for who
\* goes on to clear the token.
<1>FinishRequestKeeps.
    ASSUME ServerInv, FinishRequest
    PROVE  ServerInv'
  <2> USE <1>FinishRequestKeeps
  <2>1. IdaTypes' /\ Flights' /\ Steady
    BY Zenon, <1>FinishRequestFlights DEF ServerInv, Types
  <2>2. /\ SameCallers /\ UNCHANGED <<setup, ops, lease, lastToken, idat>>
        /\ running # Idle
    BY Zenon DEF FinishRequest, SameCallers, callVars, leaseVars, fixed
  <2>3. file' \in {file, "complete"}
    BY Zenon DEF FinishRequest, Saved
  <2>4. running \in Sent /\ running.from \in Callers \cup {Gone}
    BY Zenon, <2>2 DEF ServerInv, Types, IdaTypes, Sent
  <2>5. \E res, gen : Answer(running.from, res, gen)
    BY Zenon DEF FinishRequest, FinishOpen, FinishClose, FinishCloseIf, FinishWork, FinishCancelled
  <2>6. AnswersFlying
    <3>1. 0 \in Flying(running.from)
      BY DEF ServerInv, Types, IdaTypes, Flying, Place, InPlace
    <3>2. \A y \in Callers : y # running.from => reply'[y] = reply[y]
      BY Zenon, <2>5 DEF Answer, ServerInv, Types, IdaTypes
    <3>. QED BY Zenon, <3>1, <3>2 DEF AnswersFlying
  <2>7. ASSUME main.pc = "up", lease.live, db'.gen # db.gen
        PROVE  Clearing \/ Clearing'
    <3>1. CASE running.kind = "Open"
      <4>1. db.gen = 0
        BY Zenon, <2>7, <3>1 DEF FinishRequest, FinishOpen, FinishCancelled
      <4>. QED BY Zenon, <2>7, <4>1 DEF ServerInv, LeaseSound, LeaseHasDatabase
    <3>2. CASE running.kind = "Close"
      <4>1. running.from \in Sessions /\ call[running.from].pc = "closing"
        BY ZenonT(40), <2>4, <2>7, <3>2, <1>WhoCloses
      <4>2. reply'[running.from].res = "ok"
        <5>1. reply' = [reply EXCEPT ![running.from] = [res |-> "ok", gen |-> 0]]
          BY Zenon, <3>2, <4>1, CallerNames DEF FinishRequest, FinishClose, Answer
        <5>. QED BY Zenon, <4>1, <5>1, CallerNames DEF ServerInv, Types, IdaTypes
      <4>3. PICK s \in Sessions : s = running.from
        BY Zenon, <4>1
      <4>4. call'[s].pc = "closing" /\ reply'[s].res = "ok"
        BY Zenon, <2>2, <4>1, <4>2, <4>3 DEF SameCallers
      <4>. QED BY Zenon, <4>4 DEF Clearing, AnsweredOk
    <3>3. CASE running.kind = "CloseIfGeneration"
      <4>1. running.from = "dsc" /\ task["dsc"].pc = "undoing"
        BY Zenon, <2>4, <3>3, <1>WhoCloses
      <4>2. reply' = [reply EXCEPT !["dsc"] = [res |-> "closed", gen |-> 0]]
        BY Zenon, <2>7, <3>3, <4>1, CallerNames DEF FinishRequest, FinishCloseIf, Answer
      <4>3. reply'["dsc"].res = "closed"
        BY Zenon, <4>2, CallerNames DEF ServerInv, Types, IdaTypes
      <4>. QED BY Zenon, <2>2, <4>1, <4>3 DEF Clearing, SameCallers
    <3>4. CASE running.kind \notin {"Open", "Close", "CloseIfGeneration"}
      BY Zenon, <2>7, <3>4 DEF FinishRequest, FinishWork, FinishCancelled
    <3>. QED BY Zenon, <3>1, <3>2, <3>3, <3>4
  <2>. QED BY Zenon, <2>1, <2>2, <2>3, <2>6, <2>7, <1>ThreadKeeps

\* LoopEnds: the process is shutting down.
<1>LoopEndsKeeps.
    ASSUME ServerInv, LoopEnds
    PROVE  ServerInv'
  <2> USE <1>LoopEndsKeeps
  <2>1. IdaTypes' /\ Flights' /\ Steady
    BY Zenon, <1>LoopEndsFlights DEF ServerInv, Types
  <2>2. /\ SameCallers /\ UNCHANGED <<setup, ops, lease, lastToken, idat>>
    BY Zenon DEF LoopEnds, SameCallers, callVars, leaseVars, fixed
  <2>3. file' \in {file, "complete"}
    BY Zenon DEF LoopEnds, Saved
  <2>4. AnswersFlying
    <3>1. \A y : \A i \in DOMAIN queue : queue[i].from = y => i \in Flying(y)
      BY DEF Flying, Place, InPlace, ServerInv, Types, IdaTypes
    <3>. QED BY Zenon, <3>1 DEF LoopEnds, AnswersFlying
  <2>5. main.pc # "up"
    <3>1. PICK r : r = Head(queue)
      BY Zenon
    <3>2. r \in Sent /\ r.kind = "Shutdown" /\ 1 \in Place /\ InPlace(1) = r
      BY <3>1 DEF LoopEnds, ServerInv, Types, IdaTypes, Place, InPlace
    <3>3. PICK x \in Callers \cup {Gone} : x = r.from
      BY Zenon, <3>2 DEF Sent
    <3>4. 1 \in Flying(x)
      BY Zenon, <3>2, <3>3 DEF Flying
    <3>5. x # Gone
      BY Zenon, <3>2, <3>4 DEF ServerInv, Flights, AbandonedSound
    <3>6. Asks(x, View(x), "Shutdown", r.gen)
      BY <3>2, <3>4, <3>5 DEF ServerInv, Flights, FlightSound
    <3>7. x \notin Sessions
      <4>1. {"Shutdown"} \cap CallKind = {}
        BY Zenon, StepwiseKinds DEF CallKind
      <4>2. x \in Sessions => call[x].kind \in CallKind
        BY ZenonT(40) DEF ServerInv, Types, CallTypes, CallState
      <4>. QED BY Zenon, <3>6, <4>1, <4>2, CallerNames DEF Asks, SessionAsks, View
    <3>. QED BY Zenon, <3>5, <3>6, <3>7, CallerNames DEF Asks, DscAsks, View, Callers, TaskKinds
  <2>. QED BY Zenon, <2>1, <2>2, <2>3, <2>4, <2>5, <1>ThreadKeeps

\* CallKillsChild: a pool has no token.
<1>CallKillsChildKeeps.
    ASSUME ServerInv, CallKillsChild
    PROVE  ServerInv'
  <2> USE <1>CallKillsChildKeeps
  <2>1. IdaTypes' /\ Flights' /\ Steady
    BY Zenon, <1>CallKillsChildFlights DEF ServerInv, Types
  <2>2. /\ SameCallers /\ UNCHANGED <<setup, ops, lease, lastToken, idat, file>>
    BY Zenon DEF CallKillsChild, SameCallers, callVars, taskVars, leaseVars, fixed
  <2>3. AnswersFlying
    <3>1. \A y : \A i \in DOMAIN queue : queue[i].from = y => i \in Flying(y)
      BY DEF Flying, Place, InPlace, ServerInv, Types, IdaTypes
    <3>2. 0 \in Flying(running.from)
      BY DEF Flying, Place, InPlace, ServerInv, Types, IdaTypes
    <3>. QED BY Zenon, <3>1, <3>2 DEF CallKillsChild, ChildKilled, AnswersFlying
  <2>4. ~ lease.live
    BY DEF CallKillsChild, Pooled, ServerInv, LeaseSound, Http, NoLease
  <2>. QED BY Zenon, <2>1, <2>2, <2>3, <2>4, <1>ThreadKeeps
<1>. QED
  BY Zenon, <1>TakeRequestKeeps, <1>FinishRequestKeeps, <1>LoopEndsKeeps, <1>CallKillsChildKeeps DEF IdaThread

-----------------------------------------------------------------------------
(* The calls.                                                              *)

\* A call goes to the state c.
LEMMA MovesTo ==
    ASSUME CallTypes, NEW s \in Sessions, NEW c \in CallState, call' = [call EXCEPT ![s] = c]
    PROVE  CallTypes' /\ call'[s] = c /\ \A y \in Sessions \ {s} : call'[y] = call[y]
BY Zenon DEF CallTypes

\* No token is a value of the token's type.
LEMMA NoLeaseType == NoLease \in Lease
BY Zenon DEF NoLease, Lease, Owner

\* A session between two calls is in a state of a call.
LEMMA IdleType == IdleCall \in CallState
BY Zenon, NoLeaseType DEF IdleCall, CallState, CallPC, CallKind

\* A step of one session leaves the calls of the others,
LEMMA OtherCalls ==
    ASSUME ServerInv, NEW s \in Sessions, CallSound(s)', UNCHANGED <<setup, db, lastGen>>,
           \A y \in Sessions \ {s} : call'[y] = call[y]
    PROVE  Steady /\ \A y \in Sessions : CallSound(y)'
<1>1. Steady
  BY DEF Steady, ServerInv, Types, IdaTypes
<1>2. ASSUME NEW y \in Sessions, y # s PROVE CallSound(y)'
  BY Zenon, <1>1, <1>2, CallStays DEF ServerInv, Types
<1>. QED BY Zenon, <1>1, <1>2

\* and the tasks when it does not start one,
LEMMA TasksUntouched ==
    ASSUME ServerInv, UNCHANGED <<db, lastGen, task, idat, file>>
    PROVE  TaskTypes' /\ TaskSound' /\ OutputSound'
<1>1. TasksAreWhere /\ Steady
  BY DEF TasksAreWhere, Steady, ServerInv, Types, IdaTypes
<1>2. TaskTypes'
  BY Zenon DEF ServerInv, Types, TaskTypes
<1>. QED BY Zenon, <1>1, <1>2, TasksStay, OutputStays DEF ServerInv, Types

\* and who is about to clear the token still is.
LEMMA OthersClear ==
    ASSUME NEW s \in Sessions, \A y \in Sessions \ {s} : call'[y] = call[y],
           \A y \in Callers \ {s} : reply'[y] = reply[y], UNCHANGED task,
           SessionClears(s) => SessionClears(s)'
    PROVE  /\ \A y \in Sessions : SessionClears(y) => SessionClears(y)'
           /\ TaskClears => TaskClears'
<1>1. ASSUME NEW y \in Sessions, y # s PROVE SessionClears(y) => SessionClears(y)'
  BY Zenon, <1>1, CallerNames DEF SessionClears
<1>2. TaskClears => TaskClears'
  BY Zenon, CallerNames DEF TaskClears
<1>. QED BY Zenon, <1>1, <1>2

\* The other handlers still have their answers.
LEMMA OthersDrained ==
    ASSUME ServerInv, NEW s \in Sessions, \A y \in Sessions \ {s} : call'[y] = call[y],
           \A y \in Callers \ {s} : reply'[y] = reply[y],
           call'[s].pc = "drain" => reply'[s] # NoReply
    PROVE  \A y \in Sessions : Drained(y)'
<1>1. ASSUME NEW y \in Sessions, y # s PROVE Drained(y)'
  BY Zenon, <1>1, CallerNames DEF Drained, ServerInv
<1>. QED BY Zenon, <1>1 DEF Drained

\* A step of one session that leaves the token and the tasks.
LEMMA SessionKeeps ==
    ASSUME ServerInv, NEW s \in Sessions, IdaTypes', Flights', CallTypes',
           \A y \in Sessions \ {s} : call'[y] = call[y],
           UNCHANGED <<setup, db, lastGen, task, main, idat, file, lease, lastToken>>,
           CallSound(s)', OpsSound', call'[s].pc = "drain" => reply'[s] # NoReply,
           \A y \in Callers \ {s} : reply'[y] = reply[y],
           SessionClears(s) => SessionClears(s)'
    PROVE  ServerInv'
<1>1. \A y \in Sessions : CallSound(y)'
  BY Zenon, OtherCalls
<1>2. TaskTypes' /\ TaskSound' /\ OutputSound'
  BY TasksUntouched
<1>3. LeaseSound'
  BY Zenon, OthersClear, LeaseStays DEF ServerInv
<1>4. setup' \in Setups /\ MainTypes' /\ LeaseTypes'
  BY Zenon DEF ServerInv, Types, MainTypes, LeaseTypes
<1>5. \A y \in Sessions : Drained(y)'
  BY Zenon, OthersDrained
<1>. QED BY Zenon, <1>1, <1>2, <1>3, <1>4, <1>5 DEF ServerInv, Types

\* A session at rest has nothing in flight, and sends.
LEMMA SessionSends ==
    ASSUME ServerInv, NEW s \in Sessions, NEW kind \in RequestKind, NEW path \in Path, NEW gen \in Nat,
           call[s].pc \notin WaitPC, TrySend(Request(s, kind, path, gen)),
           SessionAsks([pc |-> call'[s].pc, kind |-> call'[s].kind, gen |-> call'[s].gen], kind),
           \A y \in Sessions \ {s} : call'[y] = call[y], UNCHANGED <<task, main>>
    PROVE  /\ IdaTypes' /\ Flights' /\ UNCHANGED <<db, lastGen>>
           /\ \A y \in Callers \ {s} : reply'[y] = reply[y]
<1>1. PICK r : r = Request(s, kind, path, gen)
  BY Zenon
<1>2. r \in Sent /\ r.from = s /\ r.kind = kind /\ r.gen = gen
  BY Zenon, <1>1, CallerNames DEF Request, Sent
<1>3. TrySend(r)
  BY Zenon, <1>1 DEF TrySend
<1>4. ~ Waits(s, View(s))
  BY Zenon, CallerNames DEF Waits, View
<1>5. Asks(s, View(s)', kind, gen)
  BY Zenon DEF Asks, View
<1>6. \A y \in Callers \ {s} : Stays(y)
  BY Zenon, SameView, CallerNames
<1>7. IdaTypes' /\ Flights'
  BY Zenon, <1>2, <1>3, <1>4, <1>5, <1>6, Sends, CallerNames DEF ServerInv, Types
<1>8. UNCHANGED <<db, lastGen>> /\ \A y \in Callers \ {s} : reply'[y] = reply[y]
  BY ZenonT(40), <1>2, <1>3 DEF TrySend, ServerInv, Types, IdaTypes
<1>. QED BY Zenon, <1>7, <1>8

\* A session goes on without the IDA thread.
LEMMA SessionRests ==
    ASSUME ServerInv, NEW s \in Sessions, UNCHANGED <<db, lastGen, queue, running, reply>>,
           call[s].pc \notin WaitPC \/ ({call[s].pc, call'[s].pc} \subseteq ForegroundPC /\ call'[s].kind = call[s].kind),
           \A y \in Sessions \ {s} : call'[y] = call[y], UNCHANGED <<task, main>>
    PROVE  IdaTypes' /\ Flights'
<1>1. \A y \in Callers \ {s} : Stays(y)
  BY Zenon, SameView, CallerNames
<1>2. Stays(s)
  BY Zenon, CallerNames DEF Stays, Waits, View
<1>. QED BY Zenon, <1>1, <1>2, Rests DEF ServerInv, Types

\* A task starts: nobody waits for it and it owns nothing yet.
LEMMA SpawnIs ==
    ASSUME ServerInv, NEW s \in Sessions, NEW t \in TaskKinds, CanSpawn(t), task' = Spawned(t, s),
           UNCHANGED <<db, lastGen>>
    PROVE  /\ TaskTypes' /\ TaskSound' /\ Stays(t) /\ task[t].pc \in {"none", "done"}
           /\ task'[t].pc = "start" /\ task'[t].status = "running"
           /\ \A u \in TaskKinds \ {t} : task'[u] = task[u]
<1>1. task[t].pc \in {"none", "done"}
  BY Zenon DEF CanSpawn, ServerInv, TaskSound
<1>2. PICK o \in Owner : o = IF Legacy(s) THEN s ELSE "runtime"
  BY Zenon DEF Owner
<1>3. PICK n : n = [NoTask EXCEPT !.pc = "start", !.status = "running", !.owner = o]
  BY Zenon
<1>4. n \in TaskState /\ n.pc = "start" /\ n.status = "running" /\ n.gen = 0
  BY Zenon, <1>3 DEF NoTask, TaskState, TaskPC, DscPC
<1>5. task' = [task EXCEPT ![t] = n]
  BY Zenon, <1>2, <1>3 DEF Spawned
<1>6. TaskTypes' /\ task'[t] = n /\ \A u \in TaskKinds \ {t} : task'[u] = task[u]
  BY Zenon, <1>4, <1>5 DEF ServerInv, Types, TaskTypes
<1>7. TaskSound'
  <2>1. \A u \in TaskKinds : task'[u].status = "running" <=> task'[u].pc \notin {"none", "done"}
    BY Zenon, <1>4, <1>6 DEF ServerInv, TaskSound
  <2>2. CASE t = "dsc"
    <3>1. task'["dsc"] = n /\ task'["analyze"] = task["analyze"]
      BY Zenon, <1>6, <2>2 DEF TaskKinds
    <3>2. task'["dsc"].gen <= lastGen'
      <4>1. lastGen \in Nat
        BY Zenon DEF ServerInv, Types, IdaTypes
      <4>. QED BY <1>4, <3>1, <4>1
    <3>3. task'["analyze"].pc \in {"none", "start", "wait", "done"}
      BY Zenon, <3>1 DEF ServerInv, TaskSound
    <3>. QED BY Zenon, <1>4, <2>1, <3>1, <3>2, <3>3 DEF TaskSound, OwningPC, DscPC,
                 UnsuccessfulDscLeavesNothingOpen
  <2>3. CASE t = "analyze"
    <3>1. task'["analyze"] = n /\ task'["dsc"] = task["dsc"]
      BY Zenon, <1>6, <2>3 DEF TaskKinds
    <3>. QED BY Zenon, <1>4, <2>1, <3>1 DEF ServerInv, TaskSound, UnsuccessfulDscLeavesNothingOpen
  <2>. QED BY Zenon, <2>2, <2>3 DEF TaskKinds
<1>8. Stays(t)
  <2>1. View(t).pc = task[t].pc
    BY Zenon, CallerNames DEF View, TaskKinds
  <2>. QED BY Zenon, <1>1, <2>1, CallerNames DEF Stays, Waits, TaskKinds
<1>. QED BY Zenon, <1>1, <1>4, <1>6, <1>7, <1>8

\* A session calls a tool.
LEMMA CallsKeep == ServerInv /\ (\E s \in Sessions : Calls(s)) => ServerInv'
\* A foreground operation enters the registry when its handler starts.
<1>OpsStart.
    ASSUME OpsSound, NEW s \in Sessions, ops' = [ops EXCEPT !.current = @ \cup {s}, !.active = s],
           call'[s].pc \in ForegroundPC, \A y \in Sessions \ {s} : call'[y] = call[y]
    PROVE  OpsSound'
  <2> USE <1>OpsStart
  <2>1. ops = [current |-> ops.current, active |-> ops.active, progress |-> ops.progress]
    BY Zenon DEF OpsSound
  <2>2. ops' = [current |-> ops.current \cup {s}, active |-> s, progress |-> ops.progress]
    BY ZenonT(40), <2>1
  <2>3. ops'.current = ops.current \cup {s} /\ ops'.active = s /\ ops'.progress = ops.progress
    BY Zenon, <2>2
  <2>4. ops.current = {y \in Sessions : call[y].pc \in ForegroundPC}
    BY Zenon DEF OpsSound, ActiveOperationRuns, ForegroundPC
  <2>5. ops'.current = {y \in Sessions : call'[y].pc \in ForegroundPC}
    BY <2>3, <2>4
  <2>. QED BY Zenon, <2>2, <2>3, <2>5 DEF OpsSound, ActiveOperationRuns, ForegroundPC

\* A tool of the filter is a tool.
<1>CanCallIs.
    ASSUME ServerInv, NEW s \in Sessions, NEW tool, CanCall(s, tool)
    PROVE  call[s].pc = "idle" /\ tool \in Enabled /\ ~ SessionClears(s)
  BY <1>CanCallIs, Zenon DEF CanCall, SessionClears

\* StartForeground: the operation is in the registry and its request on its way.
<1>StartForegroundKeeps.
    ASSUME ServerInv, NEW s \in Sessions, NEW tool, NEW kind, NEW path \in Path,
           <<tool, kind>> \in ForegroundCalls, StartForeground(s, tool, kind, path)
    PROVE  ServerInv'
  <2> USE <1>StartForegroundKeeps
  <2>1. call[s].pc = "idle" /\ tool \in Enabled /\ ~ SessionClears(s)
    BY Zenon, <1>CanCallIs DEF StartForeground
  <2>2. PICK c : c = [IdleCall EXCEPT !.pc = "fg", !.tool = tool, !.kind = kind]
    BY Zenon
  <2>3. kind \in CallKind /\ kind \in RequestKind /\ tool \in StepwiseTools
    BY Zenon, StepwiseKinds DEF ForegroundCalls, CallKind, RequestKind
  <2>4. c \in CallState /\ c.pc = "fg" /\ c.tool = tool /\ c.kind = kind
    BY Zenon, <2>2, <2>3, NoLeaseType DEF IdleCall, CallState, CallPC, WaitPC, ForegroundPC
  <2>5. call' = [call EXCEPT ![s] = c]
    BY Zenon, <2>2 DEF StartForeground, Begin
  <2>6. CallTypes' /\ call'[s] = c /\ \A y \in Sessions \ {s} : call'[y] = call[y]
    BY Zenon, <2>4, <2>5, MovesTo DEF ServerInv, Types
  <2>7. UNCHANGED <<setup, task, main, idat, file, lease, lastToken>>
    BY Zenon DEF StartForeground, WithCall, fixed, taskVars, leaseVars
  <2>8. /\ IdaTypes' /\ Flights' /\ UNCHANGED <<db, lastGen>>
        /\ \A y \in Callers \ {s} : reply'[y] = reply[y]
    <3>1. TrySend(Request(s, kind, path, 0))
      BY Zenon DEF StartForeground
    <3>2. SessionAsks([pc |-> call'[s].pc, kind |-> call'[s].kind, gen |-> call'[s].gen], kind)
      BY Zenon, <2>4, <2>6 DEF SessionAsks, ForegroundPC
    <3>3. call[s].pc \notin WaitPC
      BY Zenon, <2>1 DEF WaitPC, ForegroundPC
    <3>. QED BY Zenon, <2>3, <2>6, <2>7, <3>1, <3>2, <3>3, SessionSends
  <2>9. CallSound(s)'
    <3>1. Enabled' = Enabled
      BY Zenon, <2>7 DEF Enabled
    <3>. QED BY Zenon, <2>1, <2>4, <2>6, <3>1 DEF CallSound, ForegroundPC, DirectPC
  <2>10. OpsSound'
    <3>1. ops' = [ops EXCEPT !.current = @ \cup {s}, !.active = s]
      BY Zenon DEF StartForeground
    <3>. QED BY Zenon, <2>4, <2>6, <3>1, <1>OpsStart DEF ServerInv, ForegroundPC
  <2>. QED BY Zenon, <2>1, <2>4, <2>6, <2>7, <2>8, <2>9, <2>10, SessionKeeps

\* The three foreground operations.
<1>ForegroundCallsKeep.
    ASSUME ServerInv, NEW s \in Sessions, OpenIdb(s) \/ AnalyzeFuncs(s) \/ RunScript(s)
    PROVE  ServerInv'
  <2> USE <1>ForegroundCallsKeep
  <2>1. ASSUME NEW path \in setup.paths, StartForeground(s, "open_idb", "Open", path) PROVE ServerInv'
    <3>1. path \in Path
      BY Zenon DEF Path, ServerInv, Types
    <3>. QED BY Zenon, <2>1, <3>1, <1>StartForegroundKeeps DEF ForegroundCalls
  <2>2. "" \in Path
    BY Zenon DEF Path
  <2>3. ASSUME StartForeground(s, "analyze_funcs", "AnalyzeFuncs", "") PROVE ServerInv'
    BY Zenon, <2>2, <2>3, <1>StartForegroundKeeps DEF ForegroundCalls
  <2>4. ASSUME StartForeground(s, "run_script", "RunScript", "") PROVE ServerInv'
    BY ZenonT(40), <2>2, <2>4, <1>StartForegroundKeeps DEF ForegroundCalls
  <2>. QED BY ZenonT(40), <2>1, <2>3, <2>4 DEF OpenIdb, AnalyzeFuncs, RunScript

\* CloseIdb: who closes was authorised, by a right of its own or because there
\* was no token.
<1>CloseIdbKeeps.
    ASSUME ServerInv, NEW s \in Sessions, CloseIdb(s)
    PROVE  ServerInv'
  <2> USE <1>CloseIdbKeeps
  <2>1. call[s].pc = "idle" /\ "close_idb" \in Enabled /\ ~ SessionClears(s)
    BY Zenon, <1>CanCallIs DEF CloseIdb
  <2>2. PICK token \in Tokens, force \in BOOLEAN :
            /\ Authorized(s, token, force)
            /\ Begin(s, [IdleCall EXCEPT !.pc = "send", !.tool = "close_idb", !.seen = lease,
                             !.right = IF force THEN "force"
                                       ELSE IF token # 0 /\ token = lease.token THEN "token"
                                       ELSE IF Legacy(s) /\ lease.owner = s THEN "owner" ELSE ""])
    BY Zenon DEF CloseIdb
  <2>3. PICK right : right = IF force THEN "force"
                             ELSE IF token # 0 /\ token = lease.token THEN "token"
                             ELSE IF Legacy(s) /\ lease.owner = s THEN "owner" ELSE ""
    BY Zenon
  <2>4. PICK c : c = [IdleCall EXCEPT !.pc = "send", !.tool = "close_idb", !.seen = lease, !.right = right]
    BY Zenon
  <2>5. call' = [call EXCEPT ![s] = c]
    BY Zenon, <2>2, <2>3, <2>4 DEF Begin
  <2>6. right \in {"", "force", "token", "owner"}
    BY Zenon, <2>3
  <2>7. c \in CallState /\ c.pc = "send" /\ c.tool = "close_idb" /\ c.right = right /\ c.seen = lease
    BY Zenon, <2>4, <2>6, StepwiseKinds DEF IdleCall, CallState, CallPC, CallKind, ServerInv, Types, LeaseTypes
  <2>8. CallTypes' /\ call'[s] = c /\ \A y \in Sessions \ {s} : call'[y] = call[y]
    BY Zenon, <2>5, <2>7, MovesTo DEF ServerInv, Types
  <2>9. UNCHANGED <<setup, task, main, idat, file, lease, lastToken, ops, db, lastGen, queue, running, reply>>
    BY Zenon DEF CloseIdb, WithCall, fixed, taskVars, leaseVars, idaVars
  <2>10. right # "" \/ lease = NoLease
    <3>1. lease # NoLease => Http /\ lease.token # 0
      BY Zenon DEF ServerInv, LeaseSound
    <3>. QED BY Zenon, <2>2, <2>3, <3>1 DEF Authorized
  <2>11. CallSound(s)'
    <3>1. Enabled' = Enabled
      BY Zenon, <2>9 DEF Enabled
    <3>. QED BY Zenon, <2>1, <2>7, <2>8, <2>10, <3>1 DEF CallSound, ForegroundPC, DirectPC
  <2>12. IdaTypes' /\ Flights'
    <3>1. call[s].pc \notin WaitPC
      BY Zenon, <2>1 DEF WaitPC, ForegroundPC
    <3>. QED BY Zenon, <2>8, <2>9, <3>1, SessionRests
  <2>13. OpsSound'
    <3>1. \A y \in Sessions : call'[y].pc \in ForegroundPC <=> call[y].pc \in ForegroundPC
      BY Zenon, <2>1, <2>7, <2>8 DEF ForegroundPC
    <3>. QED BY Zenon, <2>9, <3>1, OpsStay DEF ServerInv
  <2>. QED BY Zenon, <2>1, <2>7, <2>8, <2>9, <2>11, <2>12, <2>13, SessionKeeps

\* CallTool: the request arrives as the one that was asked for.
<1>CallToolKeeps.
    ASSUME ServerInv, NEW s \in Sessions, NEW t \in DOMAIN Tools, CallTool(s, t)
    PROVE  ServerInv'
  <2> USE <1>CallToolKeeps
  <2>1. call[s].pc = "idle" /\ t \in Enabled /\ ~ SessionClears(s)
    BY Zenon, <1>CanCallIs DEF CallTool
  <2>2. t \notin StepwiseTools
    BY Zenon DEF CallTool
  <2>3. PICK kind \in Tools[t].kinds :
            /\ Begin(s, [IdleCall EXCEPT !.pc = "item", !.tool = t, !.kind = kind,
                             !.left = IF Tools[t].each THEN SomeItems - 1 ELSE 0])
            /\ TrySend(Request(s, ArrivesAs(kind), "", 0))
    BY Zenon DEF CallTool
  <2>4. kind \in BackendKinds /\ kind \in KindsOf(t)
    BY Zenon, <2>2, PlainTool, RowsForwarded DEF KindsOf
  <2>5. ArrivesAs(kind) = kind
    BY Zenon, <2>4, ArrivesItself
  <2>6. PICK left \in Nat : left = IF Tools[t].each THEN SomeItems - 1 ELSE 0
    BY DEF SomeItems
  <2>7. PICK c : c = [IdleCall EXCEPT !.pc = "item", !.tool = t, !.kind = kind, !.left = left]
    BY Zenon
  <2>8. call' = [call EXCEPT ![s] = c]
    BY Zenon, <2>3, <2>6, <2>7 DEF Begin
  <2>9. c \in CallState /\ c.pc = "item" /\ c.tool = t /\ c.kind = kind
    BY Zenon, <2>4, <2>7, NoLeaseType DEF IdleCall, CallState, CallPC, WaitPC, CallKind
  <2>10. CallTypes' /\ call'[s] = c /\ \A y \in Sessions \ {s} : call'[y] = call[y]
    BY Zenon, <2>8, <2>9, MovesTo DEF ServerInv, Types
  <2>11. UNCHANGED <<setup, task, main, idat, file, lease, lastToken, ops>>
    BY Zenon DEF CallTool, WithCall, fixed, taskVars, leaseVars
  <2>12. /\ IdaTypes' /\ Flights' /\ UNCHANGED <<db, lastGen>>
         /\ \A y \in Callers \ {s} : reply'[y] = reply[y]
    <3>1. TrySend(Request(s, kind, "", 0))
      BY ZenonT(40), <2>3, <2>5
    <3>2. SessionAsks([pc |-> call'[s].pc, kind |-> call'[s].kind, gen |-> call'[s].gen], kind)
      BY Zenon, <2>9, <2>10 DEF SessionAsks
    <3>3. call[s].pc \notin WaitPC
      BY Zenon, <2>1 DEF WaitPC, ForegroundPC
    <3>4. kind \in RequestKind /\ "" \in Path
      BY Zenon, <2>4 DEF RequestKind, Path
    <3>. QED BY Zenon, <2>10, <2>11, <3>1, <3>2, <3>3, <3>4, SessionSends
  <2>13. CallSound(s)'
    <3>1. Enabled' = Enabled
      BY ZenonT(40), <2>11 DEF Enabled
    <3>. QED BY Zenon, <2>1, <2>2, <2>4, <2>9, <2>10, <3>1 DEF CallSound, ForegroundPC, DirectPC
  <2>14. OpsSound'
    <3>1. \A y \in Sessions : call'[y].pc \in ForegroundPC <=> call[y].pc \in ForegroundPC
      BY Zenon, <2>1, <2>9, <2>10 DEF ForegroundPC
    <3>. QED BY Zenon, <2>11, <3>1, OpsStay DEF ServerInv
  <2>. QED BY Zenon, <2>1, <2>9, <2>10, <2>11, <2>12, <2>13, <2>14, SessionKeeps

\* OpenDscDirect: open_dsc opens the .i64 that is there.
<1>OpenDscDirectKeeps.
    ASSUME ServerInv, NEW s \in Sessions, OpenDscDirect(s)
    PROVE  ServerInv'
  <2> USE <1>OpenDscDirectKeeps
  <2>1. call[s].pc = "idle" /\ "open_dsc" \in Enabled /\ ~ SessionClears(s)
    BY Zenon, <1>CanCallIs DEF OpenDscDirect
  <2>2. PICK c : c = [IdleCall EXCEPT !.pc = "dopen", !.tool = "open_dsc"]
    BY Zenon
  <2>3. c \in CallState /\ c.pc = "dopen" /\ c.tool = "open_dsc"
    BY Zenon, <2>2, NoLeaseType, StepwiseKinds DEF IdleCall, CallState, CallPC, WaitPC, CallKind
  <2>4. call' = [call EXCEPT ![s] = c]
    BY Zenon, <2>2 DEF OpenDscDirect, Begin
  <2>5. CallTypes' /\ call'[s] = c /\ \A y \in Sessions \ {s} : call'[y] = call[y]
    BY Zenon, <2>3, <2>4, MovesTo DEF ServerInv, Types
  <2>6. UNCHANGED <<setup, task, main, idat, file, lease, lastToken, ops>>
    BY Zenon DEF OpenDscDirect, WithCall, fixed, taskVars, leaseVars
  <2>7. /\ IdaTypes' /\ Flights' /\ UNCHANGED <<db, lastGen>>
        /\ \A y \in Callers \ {s} : reply'[y] = reply[y]
    <3>1. TrySend(Request(s, "Open", "dsc.i64", 0))
      BY Zenon DEF OpenDscDirect
    <3>2. SessionAsks([pc |-> call'[s].pc, kind |-> call'[s].kind, gen |-> call'[s].gen], "Open")
      BY Zenon, <2>3, <2>5 DEF SessionAsks
    <3>3. call[s].pc \notin WaitPC
      BY Zenon, <2>1 DEF WaitPC, ForegroundPC
    <3>4. "Open" \in RequestKind /\ "dsc.i64" \in Path
      BY Zenon DEF RequestKind, Path
    <3>. QED BY Zenon, <2>5, <2>6, <3>1, <3>2, <3>3, <3>4, SessionSends
  <2>8. CallSound(s)'
    <3>1. Enabled' = Enabled
      BY Zenon, <2>6 DEF Enabled
    <3>. QED BY Zenon, <2>1, <2>3, <2>5, <3>1 DEF CallSound, ForegroundPC, DirectPC
  <2>9. OpsSound'
    <3>1. \A y \in Sessions : call'[y].pc \in ForegroundPC <=> call[y].pc \in ForegroundPC
      BY Zenon, <2>1, <2>3, <2>5 DEF ForegroundPC
    <3>. QED BY ZenonT(40), <2>6, <3>1, OpsStay DEF ServerInv
  <2>. QED BY Zenon, <2>1, <2>3, <2>5, <2>6, <2>7, <2>8, <2>9, SessionKeeps

\* A step that starts a task and leaves the calls and the IDA thread.
<1>SpawnKeeps.
    ASSUME ServerInv, NEW s \in Sessions, NEW t \in TaskKinds, CanSpawn(t), task' = Spawned(t, s),
           UNCHANGED <<setup, db, lastGen, queue, running, reply, call, ops, lease, lastToken, main, file>>,
           IF t = "dsc" THEN idat' = "none" /\ file = "absent" ELSE UNCHANGED idat
    PROVE  ServerInv'
  <2> USE <1>SpawnKeeps
  <2>1. /\ TaskTypes' /\ TaskSound' /\ Stays(t) /\ task[t].pc \in {"none", "done"}
        /\ task'[t].pc = "start" /\ task'[t].status = "running"
        /\ \A u \in TaskKinds \ {t} : task'[u] = task[u]
    BY SpawnIs
  <2>2. \A y \in Callers \ {t} : Stays(y)
    BY Zenon, <2>1, SameView, CallerNames DEF TaskKinds
  <2>3. IdaTypes' /\ Flights'
    BY Zenon, <2>1, <2>2, Rests DEF ServerInv, Types
  <2>4. CallTypes' /\ \A y \in Sessions : CallSound(y)'
    <3>1. Steady
      BY DEF Steady, ServerInv, Types, IdaTypes
    <3>. QED BY Zenon, <3>1, CallsStay DEF ServerInv, Types
  <2>5. OpsSound'
    BY Zenon, OpsStay DEF ServerInv
  <2>6. OutputSound'
    <3>1. CASE t = "dsc"
      BY Zenon, <2>1, <3>1 DEF OutputSound, PartialIsBeingWritten
    <3>2. CASE t # "dsc"
      <4>1. task'["dsc"] = task["dsc"]
        BY Zenon, <2>1, <3>2 DEF TaskKinds
      <4>. QED BY ZenonT(40), <3>2, <4>1, OutputStays DEF ServerInv
    <3>. QED BY Zenon, <3>1, <3>2
  <2>7. LeaseSound'
    <3>1. \A y \in Sessions : SessionClears(y) => SessionClears(y)'
      BY Zenon DEF SessionClears
    <3>2. TaskClears => TaskClears'
      <4>1. CASE t = "dsc"
        BY Zenon, <2>1, <4>1 DEF TaskClears
      <4>2. CASE t # "dsc"
        BY Zenon, <2>1, <4>2 DEF TaskClears, TaskKinds
      <4>. QED BY Zenon, <4>1, <4>2
    <3>. QED BY Zenon, <3>1, <3>2, LeaseStays DEF ServerInv
  <2>8. setup' \in Setups /\ MainTypes' /\ LeaseTypes'
    BY Zenon DEF ServerInv, Types, MainTypes, LeaseTypes
  <2>9. \A y \in Sessions : Drained(y)'
    BY Zenon DEF Drained, ServerInv
  <2>. QED BY ZenonT(40), <2>1, <2>3, <2>4, <2>5, <2>6, <2>7, <2>8, <2>9 DEF ServerInv, Types

\* OpenDscBackground, AnalyzeInBackground.
<1>BackgroundCallsKeep.
    ASSUME ServerInv, NEW s \in Sessions, OpenDscBackground(s) \/ AnalyzeInBackground(s)
    PROVE  ServerInv'
  <2> USE <1>BackgroundCallsKeep
  <2>1. CASE OpenDscBackground(s)
    <3>1. /\ CanSpawn("dsc") /\ task' = Spawned("dsc", s) /\ idat' = "none" /\ file = "absent"
          /\ UNCHANGED <<setup, db, lastGen, queue, running, reply, call, ops, lease, lastToken, main, file>>
      BY Zenon, <2>1 DEF OpenDscBackground, idaVars, leaseVars, fixed
    <3>. QED BY Zenon, <3>1, <1>SpawnKeeps DEF TaskKinds
  <2>2. CASE AnalyzeInBackground(s)
    <3>1. /\ CanSpawn("analyze") /\ task' = Spawned("analyze", s) /\ UNCHANGED idat
          /\ UNCHANGED <<setup, db, lastGen, queue, running, reply, call, ops, lease, lastToken, main, file>>
      BY Zenon, <2>2 DEF AnalyzeInBackground, idaVars, leaseVars, fixed
    <3>. QED BY Zenon, <3>1, <1>SpawnKeeps DEF TaskKinds
  <2>. QED BY Zenon, <2>1, <2>2
<1>. QED
  BY Zenon, <1>ForegroundCallsKeep, <1>CloseIdbKeeps, <1>CallToolKeeps, <1>OpenDscDirectKeeps, <1>BackgroundCallsKeep DEF Calls

\* Issue: the token is of the database that is open, or dead from the start.
LEMMA IssueIs ==
    ASSUME ServerInv, NEW o \in Owner, NEW g \in Nat \ {0}, Issue(o, g), UNCHANGED <<db, setup, main>>,
           \A y \in Sessions : SessionClears(y) => SessionClears(y)', TaskClears => TaskClears'
    PROVE  LeaseTypes' /\ LeaseSound'
<1>1. CASE Http /\ lease = NoLease
  <2>1. lastToken' = lastToken + 1 /\ lease' = [owner |-> o, token |-> lastToken', gen |-> g, live |-> db.gen = g]
    BY Zenon, <1>1 DEF Issue
  <2>2. lastToken \in Nat
    BY Zenon DEF ServerInv, Types, LeaseTypes
  <2>3. LeaseTypes'
    BY <2>1, <2>2 DEF LeaseTypes, Lease
  <2>4. lease'.token # 0 /\ lease'.gen = g /\ (lease'.live => db.gen = g)
    <3>1. CASE db.gen = g
      BY <2>1, <2>2, <3>1
    <3>2. CASE db.gen # g
      <4>1. lease' = [owner |-> o, token |-> lastToken', gen |-> g, live |-> FALSE]
        BY Zenon, <2>1, <3>2
      <4>. QED BY <2>1, <2>2, <4>1
    <3>. QED BY Zenon, <3>1, <3>2
  <2>. QED BY Zenon, <1>1, <2>3, <2>4 DEF LeaseSound, LeaseHasDatabase, Http
<1>2. CASE ~ (Http /\ lease = NoLease)
  <2>1. UNCHANGED <<lease, lastToken>>
    BY Zenon, <1>2 DEF Issue, leaseVars
  <2>2. LeaseSound'
    BY Zenon, <2>1, LeaseStays DEF ServerInv
  <2>. QED BY Zenon, <2>1, <2>2 DEF ServerInv, Types, LeaseTypes
<1>. QED BY Zenon, <1>1, <1>2

\* A token that is cleared is no token.
LEMMA ClearedLease ==
    ASSUME ServerInv, lease' = NoLease, UNCHANGED lastToken
    PROVE  LeaseTypes' /\ LeaseSound'
<1>1. lease'.live = FALSE
  BY Zenon DEF NoLease
<1>. QED BY Zenon, <1>1, NoLeaseType DEF LeaseTypes, LeaseSound, LeaseHasDatabase, ServerInv, Types

\* A session goes on with its call.
LEMMA ContinueKeeps == ServerInv /\ (\E s \in Sessions : Continue(s)) => ServerInv'
\* A call goes on at pc.
<1>GotoIs.
    ASSUME CallTypes, NEW s \in Sessions, NEW pc \in CallPC, call' = [call EXCEPT ![s].pc = pc]
    PROVE  /\ CallTypes' /\ \A y \in Sessions \ {s} : call'[y] = call[y]
           /\ call'[s].pc = pc /\ call'[s].tool = call[s].tool /\ call'[s].kind = call[s].kind
           /\ call'[s].gen = call[s].gen /\ call'[s].seen = call[s].seen
           /\ call'[s].right = call[s].right
  BY <1>GotoIs, Zenon DEF CallTypes, CallState

\* A call returns: its session is idle.
<1>ReturnIs.
    ASSUME CallTypes, NEW s \in Sessions, call' = [call EXCEPT ![s] = IdleCall]
    PROVE  /\ CallTypes' /\ \A y \in Sessions \ {s} : call'[y] = call[y]
           /\ call'[s] = IdleCall /\ call'[s].pc = "idle" /\ CallSound(s)'
  <2> USE <1>ReturnIs
  <2>1. /\ CallTypes' /\ \A y \in Sessions \ {s} : call'[y] = call[y]
        /\ call'[s] = IdleCall
    BY Zenon, MovesTo, IdleType
  <2>2. call'[s].pc = "idle"
    <3>1. IdleCall.pc = "idle"
      BY Zenon DEF IdleCall
    <3>. QED BY <2>1, <3>1
  <2>. QED BY Zenon, <2>1, <2>2 DEF CallSound, ForegroundPC, DirectPC

\* A foreground operation leaves the registry when its handler returns.
<1>OpsEnd.
    ASSUME OpsSound, NEW s \in Sessions, ops' = Finished(s),
           call'[s].pc \notin ForegroundPC, \A y \in Sessions \ {s} : call'[y] = call[y]
    PROVE  OpsSound'
  <2> USE <1>OpsEnd
  <2>1. /\ ops'.current = ops.current \ {s} /\ ops'.progress = ops.progress \ {s}
        /\ ops'.active = IF ops.active = s THEN NoOne ELSE ops.active
        /\ ops' = [current |-> ops'.current, active |-> ops'.active, progress |-> ops'.progress]
    BY Zenon DEF Finished
  <2>2. ops.current = {y \in Sessions : call[y].pc \in ForegroundPC}
    BY Zenon DEF OpsSound, ActiveOperationRuns, ForegroundPC
  <2>3. ops'.current = {y \in Sessions : call'[y].pc \in ForegroundPC}
    BY Zenon, <2>1, <2>2
  <2>. QED BY Zenon, <2>1, <2>3 DEF OpsSound, ActiveOperationRuns, ForegroundPC

\* A session takes its answer and goes on.
<1>SessionTakes.
    ASSUME ServerInv, NEW s \in Sessions, Answered(s), Taken(s),
           \A y \in Sessions \ {s} : call'[y] = call[y], UNCHANGED <<task, main>>
    PROVE  /\ IdaTypes' /\ Flights' /\ UNCHANGED <<db, lastGen>>
           /\ \A y \in Callers \ {s} : reply'[y] = reply[y]
  <2> USE <1>SessionTakes
  <2>1. \A y \in Callers \ {s} : Stays(y)
    BY ZenonT(40), SameView, CallerNames
  <2>2. IdaTypes' /\ Flights'
    BY Zenon, <2>1, Takes, CallerNames DEF ServerInv, Types
  <2>3. UNCHANGED <<db, lastGen>> /\ \A y \in Callers \ {s} : reply'[y] = reply[y]
    BY Zenon DEF Taken, ServerInv, Types, IdaTypes
  <2>. QED BY Zenon, <2>2, <2>3

\* A session gives up its request, which is not a close.
<1>SessionDrops.
    ASSUME ServerInv, NEW s \in Sessions, ~ Answered(s), AbandonInFlight(s), UNCHANGED <<db, lastGen, reply>>,
           call[s].pc # "closing",
           \A y \in Sessions \ {s} : call'[y] = call[y], UNCHANGED <<task, main>>
    PROVE  IdaTypes' /\ Flights'
  <2> USE <1>SessionDrops
  <2>1. \A y \in Callers \ {s} : Stays(y)
    BY Zenon, SameView, CallerNames
  <2>2. \A kind, gen : Asks(s, View(s), kind, gen) => kind \notin {"Shutdown", "CloseIfGeneration", "Close"}
    <3>1. call[s].kind \in CallKind
      BY Zenon DEF ServerInv, Types, CallTypes, CallState
    <3>2. {"Shutdown", "CloseIfGeneration", "Close"} \cap CallKind = {}
      BY ZenonT(40), StepwiseKinds DEF CallKind
    <3>. QED BY Zenon, <3>1, <3>2, CallerNames DEF Asks, SessionAsks, View
  <2>. QED BY Zenon, <2>1, <2>2, Drops, CallerNames DEF ServerInv, Types

\* ForegroundAnswered, ForegroundGivesUp: the handler goes on to wait otherwise.
<1>ForegroundMovesKeep.
    ASSUME ServerInv, NEW s \in Sessions, ForegroundAnswered(s) \/ ForegroundGivesUp(s)
    PROVE  ServerInv'
  <2> USE <1>ForegroundMovesKeep
  <2>1. PICK pc \in {"drain", "late"} : call' = [call EXCEPT ![s].pc = pc]
    BY Zenon DEF ForegroundAnswered, ForegroundGivesUp, Goto
  <2>2. call[s].pc = "fg" /\ UNCHANGED <<setup, task, main, idat, file, lease, lastToken, ops, db, lastGen, reply>>
    BY Zenon DEF ForegroundAnswered, ForegroundGivesUp, WithCall, fixed, taskVars, leaseVars, idaVars
  <2>3. /\ CallTypes' /\ \A y \in Sessions \ {s} : call'[y] = call[y]
        /\ call'[s].pc = pc /\ call'[s].tool = call[s].tool /\ call'[s].kind = call[s].kind
    BY ZenonT(40), <2>1, <1>GotoIs DEF ServerInv, Types, CallPC, WaitPC, ForegroundPC
  <2>4. CallSound(s)'
    <3>1. Enabled' = Enabled
      BY Zenon, <2>2 DEF Enabled
    <3>2. call[s].tool \in Enabled /\ <<call[s].tool, call[s].kind>> \in ForegroundCalls
      BY Zenon, <2>2 DEF ServerInv, CallSound, ForegroundPC
    <3>. QED BY Zenon, <2>3, <3>1, <3>2 DEF CallSound, ForegroundPC, DirectPC
  <2>5. OpsSound'
    <3>1. \A y \in Sessions : call'[y].pc \in ForegroundPC <=> call[y].pc \in ForegroundPC
      BY Zenon, <2>2, <2>3 DEF ForegroundPC
    <3>. QED BY ZenonT(40), <2>2, <3>1, OpsStay DEF ServerInv
  <2>6. IdaTypes' /\ Flights'
    <3>1. CASE ForegroundAnswered(s)
      <4>1. UNCHANGED <<db, lastGen, queue, running, reply>>
        BY Zenon, <3>1 DEF ForegroundAnswered, idaVars
      <4>2. {call[s].pc, call'[s].pc} \subseteq ForegroundPC
        BY Zenon, <2>2, <2>3 DEF ForegroundPC
      <4>. QED BY Zenon, <2>2, <2>3, <4>1, <4>2, SessionRests
    <3>2. CASE ForegroundGivesUp(s)
      <4>1. \A y \in Callers \ {s} : Stays(y)
        BY Zenon, <2>2, <2>3, SameView, CallerNames
      <4>2. Stays(s)
        BY Zenon, <2>2, <2>3, CallerNames DEF Stays, View, ForegroundPC
      <4>3. /\ queue' = [i \in DOMAIN queue |->
                             IF queue[i].from \in {s} THEN Cancelled(queue[i]) ELSE queue[i]]
            /\ running' = IF running.from \in {s} THEN Cancelled(running) ELSE running
        BY Zenon, <3>2 DEF ForegroundGivesUp, CancelInFlight
      <4>4. {s} \subseteq Callers
        BY CallerNames
      <4>5. \A y \in Callers : Stays(y)
        BY <4>1, <4>2
      <4>. QED BY ZenonT(40), <2>2, <4>3, <4>4, <4>5, Cancels DEF ServerInv, Types
    <3>. QED BY Zenon, <3>1, <3>2
  <2>7. ~ SessionClears(s)
    BY Zenon, <2>2 DEF SessionClears
  <2>8. call'[s].pc = "drain" => reply'[s] # NoReply
    <3>1. CASE ForegroundAnswered(s)
      BY Zenon, <2>2, <3>1 DEF ForegroundAnswered, Answered
    <3>2. CASE ForegroundGivesUp(s)
      <4>1. call' = [call EXCEPT ![s].pc = "late"]
        BY Zenon, <3>2 DEF ForegroundGivesUp, Goto
      <4>2. call'[s].pc = "late"
        BY Zenon, <4>1, <1>GotoIs DEF ServerInv, Types, CallPC, WaitPC, ForegroundPC
      <4>. QED BY <4>2
    <3>. QED BY <3>1, <3>2
  <2>. QED BY Zenon, <2>2, <2>3, <2>4, <2>5, <2>6, <2>7, <2>8, SessionKeeps

\* ForegroundSettles: the answer is dropped, or nobody waits for it any more.
<1>ForegroundSettlesKeeps.
    ASSUME ServerInv, NEW s \in Sessions, ForegroundSettles(s)
    PROVE  ServerInv'
  <2> USE <1>ForegroundSettlesKeeps
  <2>1. /\ call[s].pc = "late" /\ UNCHANGED <<setup, task, main, idat, file, lease, lastToken>>
        /\ call' = [call EXCEPT ![s] = IdleCall] /\ ops' = Finished(s)
    BY Zenon DEF ForegroundSettles, Return, WithCall, fixed, taskVars, leaseVars
  <2>2. /\ CallTypes' /\ \A y \in Sessions \ {s} : call'[y] = call[y]
        /\ call'[s].pc = "idle" /\ CallSound(s)'
    BY ZenonT(40), <2>1, <1>ReturnIs DEF ServerInv, Types
  <2>3. OpsSound'
    BY Zenon, <2>1, <2>2, <1>OpsEnd DEF ServerInv, ForegroundPC
  <2>4. /\ IdaTypes' /\ Flights' /\ UNCHANGED <<db, lastGen>>
        /\ \A y \in Callers \ {s} : reply'[y] = reply[y]
    <3>1. CASE Answered(s)
      BY Zenon, <2>1, <2>2, <3>1, <1>SessionTakes DEF ForegroundSettles
    <3>2. CASE ~ Answered(s)
      BY Zenon, <2>1, <2>2, <3>2, <1>SessionDrops DEF ForegroundSettles
    <3>. QED BY Zenon, <3>1, <3>2
  <2>5. ~ SessionClears(s)
    BY Zenon, <2>1 DEF SessionClears
  <2>. QED BY Zenon, <2>1, <2>2, <2>3, <2>4, <2>5, SessionKeeps

\* ForegroundEnds: open_idb issues a token of the database it opened, and may
\* start the background analysis.
<1>ForegroundEndsKeeps.
    ASSUME ServerInv, NEW s \in Sessions, ForegroundEnds(s)
    PROVE  ServerInv'
  <2> USE <1>ForegroundEndsKeeps
  <2>1. /\ call[s].pc = "drain" /\ UNCHANGED <<setup, main, idat, file>>
        /\ call' = [call EXCEPT ![s] = IdleCall] /\ ops' = Finished(s) /\ Taken(s)
    BY ZenonT(40) DEF ForegroundEnds, Return, fixed
  <2>. UNCHANGED <<db, lastGen>> /\ \A y \in Callers \ {s} : reply'[y] = reply[y]
    BY Zenon, <2>1 DEF Taken, ServerInv, Types, IdaTypes
  <2>2. /\ CallTypes' /\ \A y \in Sessions \ {s} : call'[y] = call[y]
        /\ call'[s].pc = "idle" /\ CallSound(s)'
    BY Zenon, <2>1, <1>ReturnIs DEF ServerInv, Types
  <2>3. OpsSound'
    BY Zenon, <2>1, <2>2, <1>OpsEnd DEF ServerInv, ForegroundPC
  <2>4. UNCHANGED task \/ (CanSpawn("analyze") /\ task' = Spawned("analyze", s))
    BY Zenon DEF ForegroundEnds
  <2>5. TaskTypes' /\ TaskSound' /\ Stays("analyze") /\ task'["dsc"] = task["dsc"]
    <3>1. CASE UNCHANGED task
      BY ZenonT(40), <2>1, <3>1, TasksUntouched, CallerNames DEF Stays, View
    <3>2. CASE CanSpawn("analyze") /\ task' = Spawned("analyze", s)
      BY Zenon, <3>2, SpawnIs DEF TaskKinds
    <3>. QED BY Zenon, <2>4, <3>1, <3>2
  <2>6. \A y \in Callers \ {s} : Stays(y)
    <3>1. \A y \in Callers \ {s, "analyze"} : Stays(y)
      BY Zenon, <2>1, <2>2, <2>5, SameView, CallerNames DEF TaskKinds
    <3>. QED BY <2>5, <3>1
  <2>7. OutputSound'
    BY Zenon, <2>1, <2>5, OutputStays DEF ServerInv
  <2>8. \A y \in Sessions : CallSound(y)'
    BY Zenon, <2>1, <2>2, OtherCalls
  <2>9. /\ \A y \in Sessions : SessionClears(y) => SessionClears(y)'
        /\ TaskClears => TaskClears'
    <3>1. ASSUME NEW y \in Sessions, y # s PROVE SessionClears(y) => SessionClears(y)'
      BY Zenon, <2>2, <3>1, CallerNames DEF SessionClears
    <3>2. ~ SessionClears(s)
      BY Zenon, <2>1 DEF SessionClears
    <3>3. TaskClears => TaskClears'
      BY Zenon, <2>5, CallerNames DEF TaskClears
    <3>. QED BY ZenonT(40), <3>1, <3>2, <3>3
  <2>10. Answered(s)
    BY Zenon, <2>1 DEF ServerInv, Drained, Answered
  <2>11. IdaTypes' /\ Flights'
    BY ZenonT(40), <2>1, <2>6, <2>10, Takes, CallerNames DEF ServerInv, Types
  <2>12. LeaseTypes' /\ LeaseSound'
    <3>1. CASE call[s].tool = "open_idb" /\ AnsweredOk(s)
      <4>1. call[s].kind = "Open"
        BY Zenon, <2>1, <3>1 DEF ServerInv, CallSound, ForegroundPC, ForegroundCalls
      <4>2. Asks(s, View(s), "Open", 0)
        BY Zenon, <2>1, <4>1 DEF Asks, SessionAsks, View, ForegroundPC
      <4>3. reply[s].gen \in 1 .. lastGen
        BY Zenon, <2>10, <3>1, <4>2, CallerNames DEF ServerInv, Flights, FlightSound, Tells, Answered, AnsweredOk
      <4>4. PICK g \in Nat \ {0} : g = reply[s].gen
        <5>1. lastGen \in Nat
          BY Zenon DEF ServerInv, Types, IdaTypes
        <5>2. reply[s].gen \in Nat \ {0}
          BY <4>3, <5>1
        <5>. QED BY Zenon, <5>2
      <4>5. Issue(s, g)
        BY Zenon, <3>1, <4>4 DEF ForegroundEnds, Issue
      <4>6. s \in Owner
        BY Zenon DEF Owner
      <4>. QED BY Zenon, <2>1, <2>9, <4>5, <4>6, IssueIs
    <3>2. CASE ~ (call[s].tool = "open_idb" /\ AnsweredOk(s))
      <4>1. UNCHANGED <<lease, lastToken>>
        BY Zenon, <3>2 DEF ForegroundEnds, leaseVars
      <4>2. LeaseSound'
        BY Zenon, <2>1, <2>9, <4>1, LeaseStays DEF ServerInv
      <4>. QED BY Zenon, <4>1, <4>2 DEF ServerInv, Types, LeaseTypes
    <3>. QED BY <3>1, <3>2
  <2>13. setup' \in Setups /\ MainTypes'
    BY Zenon, <2>1 DEF ServerInv, Types, MainTypes
  <2>14. \A y \in Sessions : Drained(y)'
    BY Zenon, <2>2, OthersDrained
  <2>. QED BY Zenon, <2>2, <2>3, <2>5, <2>7, <2>8, <2>11, <2>12, <2>13, <2>14 DEF ServerInv, Types

\* A step of one session outside its foreground operations.
<1>SessionPlain.
    ASSUME ServerInv, NEW s \in Sessions, IdaTypes', Flights', CallTypes',
           \A y \in Sessions \ {s} : call'[y] = call[y],
           UNCHANGED <<setup, db, lastGen, task, main, idat, file, lease, lastToken, ops>>,
           CallSound(s)', call[s].pc \notin ForegroundPC, call'[s].pc \notin ForegroundPC,
           \A y \in Callers \ {s} : reply'[y] = reply[y],
           SessionClears(s) => SessionClears(s)'
    PROVE  ServerInv'
  <2> USE <1>SessionPlain
  <2>1. OpsSound'
    <3>1. \A y \in Sessions : call'[y].pc \in ForegroundPC <=> call[y].pc \in ForegroundPC
      BY ZenonT(40)
    <3>. QED BY Zenon, <3>1, OpsStay DEF ServerInv
  <2>2. call'[s].pc # "drain"
    BY Zenon DEF ForegroundPC
  <2>. QED BY Zenon, <2>1, <2>2, SessionKeeps

\* What goes on with the filter's leave.
<1>StillEnabled.
    ASSUME ServerInv, NEW s \in Sessions, call[s].pc # "idle", UNCHANGED setup
    PROVE  call[s].tool \in Enabled'
  <2> USE <1>StillEnabled
  <2>1. Enabled' = Enabled
    BY Zenon DEF Enabled
  <2>. QED BY Zenon, <2>1 DEF ServerInv, CallSound

\* SendClose: the close is sent with the right it was authorised by.
<1>SendCloseKeeps.
    ASSUME ServerInv, NEW s \in Sessions, SendClose(s)
    PROVE  ServerInv'
  <2> USE <1>SendCloseKeeps
  <2>1. call[s].pc = "send" /\ UNCHANGED <<setup, task, main, idat, file, lease, lastToken, ops>>
    BY ZenonT(40) DEF SendClose, WithCall, fixed, taskVars, leaseVars
  <2>2. call[s].pc \notin ForegroundPC /\ ~ SessionClears(s) /\ call[s].pc \notin WaitPC
    BY Zenon, <2>1 DEF ForegroundPC, SessionClears, WaitPC
  <2>3. CASE call' = [call EXCEPT ![s].pc = "closing"] /\ TrySend(Request(s, "Close", "", 0))
    <3>1. /\ CallTypes' /\ \A y \in Sessions \ {s} : call'[y] = call[y]
          /\ call'[s].pc = "closing" /\ call'[s].tool = call[s].tool /\ call'[s].kind = call[s].kind
          /\ call'[s].seen = call[s].seen /\ call'[s].right = call[s].right
      BY Zenon, <2>3, <1>GotoIs DEF ServerInv, Types, CallPC, WaitPC
    <3>2. /\ IdaTypes' /\ Flights' /\ UNCHANGED <<db, lastGen>>
          /\ \A y \in Callers \ {s} : reply'[y] = reply[y]
      <4>1. "Close" \in RequestKind /\ "" \in Path
        BY Zenon DEF RequestKind, Path
      <4>2. SessionAsks([pc |-> call'[s].pc, kind |-> call'[s].kind, gen |-> call'[s].gen], "Close")
        BY Zenon, <3>1 DEF SessionAsks
      <4>. QED BY Zenon, <2>1, <2>2, <2>3, <3>1, <4>1, <4>2, SessionSends
    <3>3. CallSound(s)'
      <4>1. call[s].tool \in Enabled'
        BY <2>1, <1>StillEnabled
      <4>2. call[s].right # "" \/ call[s].seen = NoLease
        BY ZenonT(40), <2>1 DEF ServerInv, CallSound
      <4>. QED BY ZenonT(40), <3>1, <4>1, <4>2 DEF CallSound, ForegroundPC, DirectPC
    <3>. QED BY Zenon, <2>1, <2>2, <3>1, <3>2, <3>3, <1>SessionPlain DEF ForegroundPC
  <2>4. CASE call' = [call EXCEPT ![s] = IdleCall] /\ UNCHANGED <<db, lastGen, queue, running, reply>>
    <3>1. /\ CallTypes' /\ \A y \in Sessions \ {s} : call'[y] = call[y]
          /\ call'[s].pc = "idle" /\ CallSound(s)'
      BY ZenonT(40), <2>4, <1>ReturnIs DEF ServerInv, Types
    <3>2. IdaTypes' /\ Flights'
      BY Zenon, <2>1, <2>2, <2>4, <3>1, SessionRests
    <3>. QED BY Zenon, <2>1, <2>2, <2>4, <3>1, <3>2, <1>SessionPlain DEF ForegroundPC
  <2>. QED BY Zenon, <2>3, <2>4 DEF SendClose, Goto, Return, idaVars

\* CloseAnswered: a close that succeeded goes on to clear the token.
<1>CloseAnsweredKeeps.
    ASSUME ServerInv, NEW s \in Sessions, CloseAnswered(s)
    PROVE  ServerInv'
  <2> USE <1>CloseAnsweredKeeps
  <2>1. /\ call[s].pc = "closing" /\ UNCHANGED <<setup, task, main, idat, file, lease, lastToken, ops>>
        /\ Answered(s) /\ Taken(s)
    BY Zenon DEF CloseAnswered, WithCall, fixed, taskVars, leaseVars
  <2>2. call[s].pc \notin ForegroundPC
    BY Zenon, <2>1 DEF ForegroundPC
  <2>3. CASE AnsweredOk(s)
    <3>1. call' = [call EXCEPT ![s].pc = "clear"]
      BY Zenon, <2>3 DEF CloseAnswered, Goto
    <3>2. /\ CallTypes' /\ \A y \in Sessions \ {s} : call'[y] = call[y]
          /\ call'[s].pc = "clear" /\ call'[s].tool = call[s].tool
      BY ZenonT(40), <3>1, <1>GotoIs DEF ServerInv, Types, CallPC
    <3>3. /\ IdaTypes' /\ Flights' /\ UNCHANGED <<db, lastGen>>
          /\ \A y \in Callers \ {s} : reply'[y] = reply[y]
      BY Zenon, <2>1, <3>2, <1>SessionTakes
    <3>4. CallSound(s)'
      <4>1. call[s].tool \in Enabled'
        BY Zenon, <2>1, <1>StillEnabled
      <4>. QED BY Zenon, <3>2, <4>1 DEF CallSound, ForegroundPC, DirectPC
    <3>5. SessionClears(s)'
      BY Zenon, <3>2 DEF SessionClears
    <3>. QED BY Zenon, <2>1, <2>2, <3>2, <3>3, <3>4, <3>5, <1>SessionPlain DEF ForegroundPC
  <2>4. CASE ~ AnsweredOk(s)
    <3>1. /\ CallTypes' /\ \A y \in Sessions \ {s} : call'[y] = call[y]
          /\ call'[s].pc = "idle" /\ CallSound(s)'
      BY Zenon, <2>4, <1>ReturnIs DEF CloseAnswered, Return, ServerInv, Types
    <3>2. /\ IdaTypes' /\ Flights' /\ UNCHANGED <<db, lastGen>>
          /\ \A y \in Callers \ {s} : reply'[y] = reply[y]
      BY ZenonT(40), <2>1, <3>1, <1>SessionTakes
    <3>3. ~ SessionClears(s)
      BY Zenon, <2>1, <2>4 DEF SessionClears, AnsweredOk
    <3>. QED BY ZenonT(40), <2>1, <2>2, <3>1, <3>2, <3>3, <1>SessionPlain DEF ForegroundPC
  <2>. QED BY Zenon, <2>3, <2>4

\* ClearToken.
<1>ClearTokenKeeps.
    ASSUME ServerInv, NEW s \in Sessions, ClearToken(s)
    PROVE  ServerInv'
  <2> USE <1>ClearTokenKeeps
  <2>1. /\ call[s].pc = "clear" /\ lease' = NoLease
        /\ UNCHANGED <<setup, task, main, idat, file, lastToken, ops, db, lastGen, queue, running, reply>>
        /\ call' = [call EXCEPT ![s] = IdleCall]
    BY Zenon DEF ClearToken, Return, WithCall, fixed, taskVars, idaVars
  <2>2. /\ CallTypes' /\ \A y \in Sessions \ {s} : call'[y] = call[y]
        /\ call'[s].pc = "idle" /\ CallSound(s)'
    BY ZenonT(40), <2>1, <1>ReturnIs DEF ServerInv, Types
  <2>3. IdaTypes' /\ Flights'
    <3>1. call[s].pc \notin WaitPC
      BY Zenon, <2>1 DEF WaitPC, ForegroundPC
    <3>. QED BY Zenon, <2>1, <2>2, <3>1, SessionRests
  <2>4. \A y \in Sessions : CallSound(y)'
    BY Zenon, <2>1, <2>2, OtherCalls
  <2>5. TaskTypes' /\ TaskSound' /\ OutputSound'
    BY Zenon, <2>1, TasksUntouched
  <2>6. LeaseTypes' /\ LeaseSound'
    BY Zenon, <2>1, ClearedLease
  <2>7. OpsSound'
    <3>1. \A y \in Sessions : call'[y].pc \in ForegroundPC <=> call[y].pc \in ForegroundPC
      BY Zenon, <2>1, <2>2 DEF ForegroundPC
    <3>. QED BY Zenon, <2>1, <3>1, OpsStay DEF ServerInv
  <2>8. \A y \in Sessions : Drained(y)'
    BY Zenon, <2>1, <2>2, OthersDrained
  <2>9. setup' \in Setups /\ MainTypes'
    BY Zenon, <2>1 DEF ServerInv, Types, MainTypes
  <2>. QED BY ZenonT(40), <2>2, <2>3, <2>4, <2>5, <2>6, <2>7, <2>8, <2>9 DEF ServerInv, Types

\* The next item, the request that follows, or the end of the call.
<1>NextItemIs.
    ASSUME ServerInv, NEW s \in Sessions, call[s].pc = "item", UNCHANGED <<setup, lastGen>>,
           NextItem(s, TRUE) \/ NextItem(s, FALSE)
    PROVE  /\ CallTypes' /\ \A y \in Sessions \ {s} : call'[y] = call[y]
           /\ call'[s].pc \in {"next", "idle"} /\ CallSound(s)'
  <2> USE <1>NextItemIs
  <2>. call[s] \in CallState
    BY Zenon DEF ServerInv, Types, CallTypes
  <2>1. /\ call[s].tool \in Enabled' /\ call[s].tool \in DOMAIN Tools \ StepwiseTools
        /\ call[s].kind \in KindsOf(call[s].tool)
    BY Zenon, <1>StillEnabled DEF ServerInv, CallSound
  <2>2. ASSUME NEW c \in CallState, c.pc = "next", c.tool = call[s].tool, c.kind \in KindsOf(call[s].tool),
               call' = [call EXCEPT ![s] = c]
        PROVE  /\ CallTypes' /\ \A y \in Sessions \ {s} : call'[y] = call[y]
               /\ call'[s].pc = "next" /\ CallSound(s)'
    <3>1. CallTypes' /\ call'[s] = c /\ \A y \in Sessions \ {s} : call'[y] = call[y]
      BY ZenonT(40), <2>2, MovesTo DEF ServerInv, Types
    <3>2. CallSound(s)'
      BY Zenon, <2>1, <2>2, <3>1 DEF CallSound, ForegroundPC, DirectPC
    <3>. QED BY ZenonT(40), <2>2, <3>1, <3>2
  <2>3. CASE call[s].left > 0 /\ call' = [call EXCEPT ![s].pc = "next", ![s].left = @ - 1]
    <3>. PICK n \in Nat : n = call[s].left - 1
      <4>1. call[s].left > 0
        BY <2>3
      <4>2. call[s].left \in Nat
        BY Zenon DEF CallState
      <4>. QED BY <4>1, <4>2
    <3>1. PICK c : c = [call[s] EXCEPT !.pc = "next", !.left = n]
      BY Zenon
    <3>2. c \in CallState /\ c.pc = "next" /\ c.tool = call[s].tool /\ c.kind = call[s].kind
      BY Zenon, <3>1 DEF CallState, CallPC
    <3>3. call' = [call EXCEPT ![s] = c]
      BY ZenonT(40), <2>3, <3>1 DEF ServerInv, Types, CallTypes, CallState
    <3>. QED BY Zenon, <2>1, <2>2, <3>2, <3>3
  <2>4. CASE /\ Tools[call[s].tool].then # {}
             /\ call' = [call EXCEPT ![s].pc = "next",
                                     ![s].kind = CHOOSE k \in Tools[call[s].tool].then : TRUE]
    <3>1. PICK k \in Tools[call[s].tool].then : k = CHOOSE x \in Tools[call[s].tool].then : TRUE
      BY <2>4
    <3>2. k \in BackendKinds /\ k \in KindsOf(call[s].tool)
      BY Zenon, <2>1, PlainTool, RowsForwarded DEF KindsOf
    <3>3. PICK c : c = [call[s] EXCEPT !.pc = "next", !.kind = k]
      BY Zenon
    <3>4. c \in CallState /\ c.pc = "next" /\ c.tool = call[s].tool /\ c.kind = k
      BY Zenon, <3>2, <3>3 DEF CallState, CallPC, CallKind
    <3>5. call' = [call EXCEPT ![s].pc = "next", ![s].kind = k]
      BY <2>4, <3>1
    <3>6. call' = [call EXCEPT ![s] = c]
      BY ZenonT(40), <3>3, <3>5 DEF ServerInv, Types, CallTypes, CallState
    <3>. QED BY Zenon, <2>2, <3>2, <3>4, <3>6
  <2>5. CASE call' = [call EXCEPT ![s] = IdleCall]
    BY Zenon, <2>5, <1>ReturnIs DEF ServerInv, Types
  <2>. QED BY Zenon, <2>3, <2>4, <2>5 DEF NextItem, Return

\* ItemAnswered, ItemTimesOut.
<1>ItemEndsKeep.
    ASSUME ServerInv, NEW s \in Sessions, ItemAnswered(s) \/ ItemTimesOut(s)
    PROVE  ServerInv'
  <2> USE <1>ItemEndsKeep
  <2>1. /\ call[s].pc = "item" /\ UNCHANGED <<setup, task, main, idat, file, lease, lastToken, ops, db, lastGen>>
    BY Zenon DEF ItemAnswered, ItemTimesOut, Taken, WithCall, fixed, taskVars, leaseVars
  <2>2. NextItem(s, TRUE) \/ NextItem(s, FALSE)
    BY Zenon DEF ItemAnswered, ItemTimesOut, NextItem
  <2>3. /\ CallTypes' /\ \A y \in Sessions \ {s} : call'[y] = call[y]
        /\ call'[s].pc \in {"next", "idle"} /\ CallSound(s)'
    BY ZenonT(40), <2>1, <2>2, <1>NextItemIs
  <2>4. IdaTypes' /\ Flights' /\ \A y \in Callers \ {s} : reply'[y] = reply[y]
    <3>1. CASE ItemAnswered(s)
      BY Zenon, <2>1, <2>3, <3>1, <1>SessionTakes DEF ItemAnswered
    <3>2. CASE ItemTimesOut(s)
      BY Zenon, <2>1, <2>3, <3>2, <1>SessionDrops DEF ItemTimesOut
    <3>. QED BY <3>1, <3>2
  <2>5. ~ SessionClears(s) /\ call[s].pc \notin ForegroundPC /\ call'[s].pc \notin ForegroundPC
    BY Zenon, <2>1, <2>3 DEF SessionClears, ForegroundPC
  <2>. QED BY Zenon, <2>1, <2>3, <2>4, <2>5, <1>SessionPlain

\* SendItem.
<1>SendItemKeeps.
    ASSUME ServerInv, NEW s \in Sessions, SendItem(s)
    PROVE  ServerInv'
  <2> USE <1>SendItemKeeps
  <2>1. /\ call[s].pc = "next" /\ UNCHANGED <<setup, task, main, idat, file, lease, lastToken, ops>>
        /\ call' = [call EXCEPT ![s].pc = "item"] /\ TrySend(Request(s, ArrivesAs(call[s].kind), "", 0))
    BY Zenon DEF SendItem, Goto, WithCall, fixed, taskVars, leaseVars
  <2>2. /\ CallTypes' /\ \A y \in Sessions \ {s} : call'[y] = call[y]
        /\ call'[s].pc = "item" /\ call'[s].tool = call[s].tool /\ call'[s].kind = call[s].kind
    BY Zenon, <2>1, <1>GotoIs DEF ServerInv, Types, CallPC, WaitPC
  <2>3. /\ call[s].tool \in Enabled' /\ call[s].tool \in DOMAIN Tools \ StepwiseTools
        /\ call[s].kind \in KindsOf(call[s].tool)
    BY Zenon, <2>1, <1>StillEnabled DEF ServerInv, CallSound
  <2>4. PICK k \in BackendKinds : k = call[s].kind
    BY Zenon, <2>3, PlainTool, RowsForwarded DEF KindsOf
  <2>5. TrySend(Request(s, k, "", 0))
    BY Zenon, <2>1, <2>4, ArrivesItself
  <2>6. /\ IdaTypes' /\ Flights' /\ UNCHANGED <<db, lastGen>>
        /\ \A y \in Callers \ {s} : reply'[y] = reply[y]
    <3>1. SessionAsks([pc |-> call'[s].pc, kind |-> call'[s].kind, gen |-> call'[s].gen], k)
      BY Zenon, <2>2, <2>4 DEF SessionAsks
    <3>2. call[s].pc \notin WaitPC
      BY Zenon, <2>1 DEF WaitPC, ForegroundPC
    <3>3. k \in RequestKind /\ "" \in Path
      BY Zenon DEF RequestKind, Path
    <3>. QED BY Zenon, <2>1, <2>2, <2>5, <3>1, <3>2, <3>3, SessionSends
  <2>7. CallSound(s)'
    BY Zenon, <2>2, <2>3 DEF CallSound, ForegroundPC, DirectPC
  <2>8. ~ SessionClears(s) /\ call[s].pc \notin ForegroundPC /\ call'[s].pc \notin ForegroundPC
    BY Zenon, <2>1, <2>2 DEF SessionClears, ForegroundPC
  <2>. QED BY Zenon, <2>1, <2>2, <2>6, <2>7, <2>8, <1>SessionPlain

\* DirectAnswered: open_dsc has the generation of what it opened, and goes on with it.
<1>DirectAnsweredKeeps.
    ASSUME ServerInv, NEW s \in Sessions, DirectAnswered(s)
    PROVE  ServerInv'
  <2> USE <1>DirectAnsweredKeeps
  <2>1. /\ call[s].pc \in {"dopen", "dload", "dstatus"} /\ Answered(s) /\ Taken(s)
        /\ UNCHANGED <<setup, task, main, idat, file, lease, lastToken, ops, db, lastGen>>
    BY Zenon DEF DirectAnswered, Taken, WithCall, fixed, taskVars, leaseVars
  <2>2. call[s].tool \in Enabled' /\ call[s].tool = "open_dsc" /\ call[s].pc \notin ForegroundPC /\ ~ SessionClears(s)
    BY Zenon, <2>1, <1>StillEnabled DEF ServerInv, CallSound, DirectPC, ForegroundPC, SessionClears
  <2>3. /\ CallTypes' /\ \A y \in Sessions \ {s} : call'[y] = call[y]
        /\ call'[s].pc \notin ForegroundPC /\ CallSound(s)'
    <3>1. CASE call' = [call EXCEPT ![s] = IdleCall]
      BY Zenon, <3>1, <1>ReturnIs DEF ServerInv, Types, ForegroundPC
    <3>2. CASE call[s].pc = "dopen" /\ AnsweredOk(s)
               /\ call' = [call EXCEPT ![s].pc = "dnext", ![s].gen = reply[s].gen]
      <4>1. Asks(s, View(s), "Open", 0)
        BY Zenon, <3>2 DEF Asks, SessionAsks, View
      <4>2. reply[s].gen \in 1 .. lastGen /\ lastGen \in Nat
        BY Zenon, <2>1, <3>2, <4>1, CallerNames DEF ServerInv, Types, IdaTypes, Flights, FlightSound, Tells, Answered, AnsweredOk
      <4>3. PICK g \in 1 .. lastGen : g = reply[s].gen
        BY Zenon, <4>2
      <4>4. PICK c : c = [call[s] EXCEPT !.pc = "dnext", !.gen = g]
        BY Zenon
      <4>5. call[s] \in CallState /\ g \in Nat
        BY <4>2 DEF ServerInv, Types, CallTypes
      <4>6. c \in CallState /\ c.pc = "dnext" /\ c.tool = call[s].tool /\ c.gen = g
        BY Zenon, <4>4, <4>5 DEF CallState, CallPC, DirectPC
      <4>7. call' = [call EXCEPT ![s].pc = "dnext", ![s].gen = g]
        BY <3>2, <4>3
      <4>8. call' = [call EXCEPT ![s] = c]
        BY ZenonT(40), <4>4, <4>7 DEF ServerInv, Types, CallTypes, CallState
      <4>9. CallTypes' /\ call'[s] = c /\ \A y \in Sessions \ {s} : call'[y] = call[y]
        BY Zenon, <4>6, <4>8, MovesTo DEF ServerInv, Types
      <4>10. CallSound(s)'
        BY Zenon, <2>1, <2>2, <4>6, <4>9 DEF CallSound, ForegroundPC
      <4>. QED BY Zenon, <4>6, <4>9, <4>10 DEF ForegroundPC
    <3>3. ASSUME NEW pc \in {"dstat", "dissue"}, call[s].pc \in DirectPC, call' = [call EXCEPT ![s].pc = pc]
          PROVE  /\ CallTypes' /\ \A y \in Sessions \ {s} : call'[y] = call[y]
                 /\ call'[s].pc \notin ForegroundPC /\ CallSound(s)'
      <4>1. /\ CallTypes' /\ \A y \in Sessions \ {s} : call'[y] = call[y]
            /\ call'[s].pc = pc /\ call'[s].tool = call[s].tool /\ call'[s].gen = call[s].gen
        BY Zenon, <3>3, <1>GotoIs DEF ServerInv, Types, CallPC, DirectPC
      <4>2. call[s].gen \in 1 .. lastGen
        BY Zenon, <3>3 DEF ServerInv, CallSound
      <4>3. CallSound(s)'
        BY Zenon, <2>1, <2>2, <4>1, <4>2 DEF CallSound, ForegroundPC
      <4>. QED BY Zenon, <4>1, <4>3 DEF ForegroundPC
    <3>4. CASE call[s].pc = "dload" /\ call' = [call EXCEPT ![s].pc = "dstat"]
      BY Zenon, <3>3, <3>4 DEF DirectPC
    <3>5. CASE call[s].pc = "dstatus" /\ call' = [call EXCEPT ![s].pc = "dissue"]
      BY Zenon, <3>3, <3>5 DEF DirectPC
    <3>. QED BY Zenon, <3>1, <3>2, <3>4, <3>5 DEF DirectAnswered, Goto, Return
  <2>4. IdaTypes' /\ Flights' /\ \A y \in Callers \ {s} : reply'[y] = reply[y]
    BY Zenon, <2>1, <2>3, <1>SessionTakes
  <2>. QED BY Zenon, <2>1, <2>2, <2>3, <2>4, <1>SessionPlain

\* DirectSends: the loads are bound to the generation.
<1>DirectSendsKeeps.
    ASSUME ServerInv, NEW s \in Sessions, DirectSends(s)
    PROVE  ServerInv'
  <2> USE <1>DirectSendsKeeps
  <2>1. /\ call[s].pc \in {"dnext", "dstat"}
        /\ UNCHANGED <<setup, task, main, idat, file, lease, lastToken, ops>>
    BY Zenon DEF DirectSends, WithCall, fixed, taskVars, leaseVars
  <2>2. /\ call[s].tool \in Enabled' /\ call[s].tool = "open_dsc" /\ call[s].gen \in 1 .. lastGen
        /\ call[s].pc \notin ForegroundPC /\ ~ SessionClears(s) /\ call[s].pc \notin WaitPC
    BY Zenon, <2>1, <1>StillEnabled DEF ServerInv, CallSound, DirectPC, ForegroundPC, WaitPC, SessionClears
  <2>3. PICK g \in Nat : g = call[s].gen
    BY Zenon DEF ServerInv, Types, CallTypes, CallState
  <2>4. ASSUME NEW pc \in {"dload", "dstatus"}, NEW kind \in BackendKinds, call' = [call EXCEPT ![s].pc = pc],
               TrySend(Request(s, kind, "", g)),
               <<pc, kind>> \in {<<"dload", "DscLoadImage">>, <<"dstatus", "AnalysisStatus">>}
        PROVE  ServerInv'
    <3>1. /\ CallTypes' /\ \A y \in Sessions \ {s} : call'[y] = call[y]
          /\ call'[s].pc = pc /\ call'[s].tool = call[s].tool /\ call'[s].gen = call[s].gen
      BY Zenon, <2>4, <1>GotoIs DEF ServerInv, Types, CallPC, DirectPC
    <3>2. /\ IdaTypes' /\ Flights' /\ UNCHANGED <<db, lastGen>>
          /\ \A y \in Callers \ {s} : reply'[y] = reply[y]
      <4>1. SessionAsks([pc |-> call'[s].pc, kind |-> call'[s].kind, gen |-> call'[s].gen], kind)
        BY Zenon, <2>4, <3>1 DEF SessionAsks
      <4>2. kind \in RequestKind /\ "" \in Path
        BY Zenon DEF RequestKind, Path
      <4>. QED BY Zenon, <2>1, <2>2, <2>4, <3>1, <4>1, <4>2, SessionSends
    <3>3. CallSound(s)'
      BY ZenonT(40), <2>1, <2>2, <3>1, <3>2 DEF CallSound, ForegroundPC
    <3>4. call'[s].pc \notin ForegroundPC
      BY Zenon, <3>1 DEF ForegroundPC
    <3>. QED BY Zenon, <2>1, <2>2, <3>1, <3>2, <3>3, <3>4, <1>SessionPlain
  <2>5. \/ call' = [call EXCEPT ![s].pc = "dload"] /\ TrySend(Request(s, "DscLoadImage", "", g))
        \/ call' = [call EXCEPT ![s].pc = "dstatus"] /\ TrySend(Request(s, "AnalysisStatus", "", g))
    BY ZenonT(40), <2>3 DEF DirectSends, Goto
  <2>. QED BY Zenon, <2>4, <2>5, StepwiseKinds

\* DirectTimesOut.
<1>DirectTimesOutKeeps.
    ASSUME ServerInv, NEW s \in Sessions, DirectTimesOut(s)
    PROVE  ServerInv'
  <2> USE <1>DirectTimesOutKeeps
  <2>1. /\ call[s].pc = "dload" /\ ~ Answered(s) /\ AbandonInFlight(s) /\ call' = [call EXCEPT ![s] = IdleCall]
        /\ UNCHANGED <<setup, task, main, idat, file, lease, lastToken, ops, db, lastGen, reply>>
    BY Zenon DEF DirectTimesOut, Return, WithCall, fixed, taskVars, leaseVars
  <2>2. /\ CallTypes' /\ \A y \in Sessions \ {s} : call'[y] = call[y]
        /\ call'[s].pc = "idle" /\ CallSound(s)'
    BY Zenon, <2>1, <1>ReturnIs DEF ServerInv, Types
  <2>3. IdaTypes' /\ Flights'
    BY <2>1, <2>2, <1>SessionDrops
  <2>4. ~ SessionClears(s) /\ call[s].pc \notin ForegroundPC /\ call'[s].pc \notin ForegroundPC
    BY Zenon, <2>1, <2>2 DEF SessionClears, ForegroundPC
  <2>. QED BY Zenon, <2>1, <2>2, <2>3, <2>4, <1>SessionPlain

\* DirectIssues: the token of what was opened.
<1>DirectIssuesKeeps.
    ASSUME ServerInv, NEW s \in Sessions, DirectIssues(s)
    PROVE  ServerInv'
  <2> USE <1>DirectIssuesKeeps
  <2>1. /\ call[s].pc = "dissue" /\ call' = [call EXCEPT ![s] = IdleCall]
        /\ UNCHANGED <<setup, task, main, idat, file, ops, db, lastGen, queue, running, reply>>
    BY Zenon DEF DirectIssues, Return, WithCall, fixed, taskVars, idaVars
  <2>2. /\ CallTypes' /\ \A y \in Sessions \ {s} : call'[y] = call[y]
        /\ call'[s].pc = "idle" /\ CallSound(s)'
    BY ZenonT(40), <2>1, <1>ReturnIs DEF ServerInv, Types
  <2>3. call[s].pc \notin WaitPC /\ ~ SessionClears(s)
    BY Zenon, <2>1 DEF WaitPC, ForegroundPC, SessionClears
  <2>4. IdaTypes' /\ Flights'
    BY Zenon, <2>1, <2>2, <2>3, SessionRests
  <2>5. \A y \in Sessions : CallSound(y)'
    BY Zenon, <2>1, <2>2, OtherCalls
  <2>6. TaskTypes' /\ TaskSound' /\ OutputSound'
    BY <2>1, TasksUntouched
  <2>7. LeaseTypes' /\ LeaseSound'
    <3>1. call[s].gen \in 1 .. lastGen /\ lastGen \in Nat
      BY ZenonT(40), <2>1 DEF ServerInv, Types, IdaTypes, CallSound, DirectPC
    <3>2. PICK g \in Nat \ {0} : g = call[s].gen
      BY <3>1
    <3>3. Issue(s, g)
      BY Zenon, <3>2 DEF DirectIssues, Issue
    <3>4. s \in Owner
      BY Zenon DEF Owner
    <3>5. /\ \A y \in Sessions : SessionClears(y) => SessionClears(y)'
          /\ TaskClears => TaskClears'
      BY Zenon, <2>1, <2>2, <2>3, OthersClear
    <3>. QED BY Zenon, <2>1, <3>3, <3>4, <3>5, IssueIs
  <2>8. OpsSound'
    <3>1. \A y \in Sessions : call'[y].pc \in ForegroundPC <=> call[y].pc \in ForegroundPC
      BY Zenon, <2>1, <2>2 DEF ForegroundPC
    <3>. QED BY Zenon, <2>1, <3>1, OpsStay DEF ServerInv
  <2>9. \A y \in Sessions : Drained(y)'
    BY Zenon, <2>1, <2>2, OthersDrained
  <2>10. setup' \in Setups /\ MainTypes'
    BY Zenon, <2>1 DEF ServerInv, Types, MainTypes
  <2>. QED BY Zenon, <2>2, <2>4, <2>5, <2>6, <2>7, <2>8, <2>9, <2>10 DEF ServerInv, Types
<1>. QED
  BY Zenon, <1>ForegroundMovesKeep, <1>ForegroundSettlesKeeps, <1>ForegroundEndsKeeps, <1>SendCloseKeeps,
   <1>CloseAnsweredKeeps, <1>ClearTokenKeeps, <1>ItemEndsKeep, <1>SendItemKeeps, <1>DirectAnsweredKeeps,
   <1>DirectSendsKeeps, <1>DirectTimesOutKeeps, <1>DirectIssuesKeeps DEF Continue

-----------------------------------------------------------------------------
(* The tasks.                                                              *)

\* A step of a task leaves the calls,
LEMMA TaskKeepsCalls ==
    ASSUME ServerInv, IdaTypes', Flights', TaskTypes', TaskSound', OutputSound', LeaseTypes', LeaseSound',
           UNCHANGED <<setup, db, lastGen, call, ops, main>>, \A y \in Sessions : reply'[y] = reply[y]
    PROVE  ServerInv'
<1>1. CallTypes' /\ \A y \in Sessions : CallSound(y)'
  <2>1. Steady
    BY DEF Steady, ServerInv, Types, IdaTypes
  <2>. QED BY ZenonT(40), <2>1, CallsStay DEF ServerInv, Types
<1>2. OpsSound'
  BY Zenon, OpsStay DEF ServerInv
<1>3. setup' \in Setups /\ MainTypes'
  BY Zenon DEF ServerInv, Types, MainTypes
<1>4. \A y \in Sessions : Drained(y)'
  BY Zenon DEF Drained, ServerInv
<1>. QED BY Zenon, <1>1, <1>2, <1>3, <1>4 DEF ServerInv, Types

\* and mostly the token.
LEMMA TaskKeeps ==
    ASSUME ServerInv, IdaTypes', Flights', TaskTypes', TaskSound', OutputSound',
           UNCHANGED <<setup, db, lastGen, call, ops, main, lease, lastToken>>,
           \A y \in Sessions : reply'[y] = reply[y], TaskClears => TaskClears'
    PROVE  ServerInv'
<1>1. LeaseTypes' /\ LeaseSound'
  <2>1. \A y \in Sessions : SessionClears(y) => SessionClears(y)'
    BY Zenon DEF SessionClears
  <2>2. LeaseSound'
    BY Zenon, <2>1, LeaseStays DEF ServerInv
  <2>. QED BY Zenon, <2>2 DEF ServerInv, Types, LeaseTypes
<1>. QED BY Zenon, <1>1, TaskKeepsCalls

\* The other callers of a task's step.
LEMMA TaskOthersStay ==
    ASSUME NEW t \in TaskKinds, \A u \in TaskKinds \ {t} : task'[u] = task[u], UNCHANGED <<call, main>>
    PROVE  \A y \in Callers \ {t} : Stays(y)
BY Zenon, SameView, CallerNames DEF TaskKinds

\* A task sends a request, takes its answer, or does neither.
LEMMA TaskSends ==
    ASSUME ServerInv, NEW t \in TaskKinds, NEW r \in Sent, r.from = t, TrySend(r),
           ~ Waits(t, View(t)), Asks(t, View(t)', r.kind, r.gen),
           \A u \in TaskKinds \ {t} : task'[u] = task[u], UNCHANGED <<call, main>>
    PROVE  /\ IdaTypes' /\ Flights' /\ UNCHANGED <<db, lastGen>>
           /\ \A y \in Sessions : reply'[y] = reply[y]
<1>1. \A y \in Callers \ {t} : Stays(y)
  BY Zenon, TaskOthersStay
<1>2. t \in Callers /\ t \notin Sessions
  BY Zenon, CallerNames DEF TaskKinds
<1>3. IdaTypes' /\ Flights'
  BY Zenon, <1>1, <1>2, Sends DEF ServerInv, Types
<1>4. UNCHANGED <<db, lastGen>> /\ \A y \in Callers : y # t => reply'[y] = reply[y]
  BY Zenon DEF TrySend, ServerInv, Types, IdaTypes
<1>. QED BY Zenon, <1>2, <1>3, <1>4, CallerNames

\* A task takes the answer to its request.
LEMMA TaskTakes ==
    ASSUME ServerInv, NEW t \in TaskKinds, Answered(t), Taken(t),
           \A u \in TaskKinds \ {t} : task'[u] = task[u], UNCHANGED <<call, main>>
    PROVE  /\ IdaTypes' /\ Flights' /\ UNCHANGED <<db, lastGen>>
           /\ \A y \in Sessions : reply'[y] = reply[y]
<1>1. \A y \in Callers \ {t} : Stays(y)
  BY ZenonT(40), TaskOthersStay
<1>2. t \in Callers /\ t \notin Sessions
  BY Zenon, CallerNames DEF TaskKinds
<1>3. IdaTypes' /\ Flights'
  BY Zenon, <1>1, <1>2, Takes DEF ServerInv, Types
<1>4. UNCHANGED <<db, lastGen>> /\ \A y \in Callers : y # t => reply'[y] = reply[y]
  BY ZenonT(40) DEF Taken, ServerInv, Types, IdaTypes
<1>. QED BY Zenon, <1>2, <1>3, <1>4, CallerNames

\* The analysis: AnalyzeStarts, AnalyzeSettles.
LEMMA AnalyzeIs ==
    ASSUME ServerInv, NEW n \in TaskState, task' = [task EXCEPT !["analyze"] = n],
           n.pc \in {"wait", "done"}, n.status = "running" <=> n.pc = "wait",
           UNCHANGED <<db, lastGen, idat, file>>
    PROVE  /\ TaskTypes' /\ TaskSound' /\ OutputSound' /\ task'["analyze"] = n
           /\ task'["dsc"] = task["dsc"] /\ \A u \in TaskKinds \ {"analyze"} : task'[u] = task[u]
<1>1. TaskTypes' /\ task'["analyze"] = n /\ task'["dsc"] = task["dsc"]
  BY Zenon DEF ServerInv, Types, TaskTypes, TaskKinds
<1>2. \A u \in TaskKinds \ {"analyze"} : task'[u] = task[u]
  BY Zenon, <1>1 DEF TaskKinds
<1>3. \A u \in TaskKinds : task'[u].status = "running" <=> task'[u].pc \notin {"none", "done"}
  BY Zenon, <1>1, <1>2 DEF ServerInv, TaskSound, TaskKinds
<1>4. TaskSound'
  BY ZenonT(40), <1>1, <1>3 DEF ServerInv, TaskSound, UnsuccessfulDscLeavesNothingOpen
<1>5. OutputSound'
  BY Zenon, <1>1, OutputStays DEF ServerInv
<1>. QED BY Zenon, <1>1, <1>2, <1>4, <1>5

\* AnalyzeTask: the background analysis sends its request, is answered, or gives up.
LEMMA AnalyzeTaskKeeps ==
    ASSUME ServerInv, AnalyzeTask
    PROVE  ServerInv'
<1>. task["analyze"] \in TaskState /\ "analyze" \in TaskKinds
  BY Zenon DEF ServerInv, Types, TaskTypes, TaskKinds
<1>. View("analyze").pc = task["analyze"].pc
  BY Zenon, CallerNames DEF View, TaskKinds
<1>1. CASE AnalyzeStarts
  <2>1. /\ task["analyze"].pc = "start" /\ task["analyze"].status = "running"
        /\ task' = [task EXCEPT !["analyze"].pc = "wait"]
        /\ UNCHANGED <<setup, call, ops, main, lease, lastToken, idat, file>>
    BY Zenon, <1>1 DEF AnalyzeStarts, At, TaskGoto, WithTask, fixed, callVars, leaseVars
  <2>2. PICK n : n = [task["analyze"] EXCEPT !.pc = "wait"]
    BY Zenon
  <2>3. n \in TaskState /\ n.pc = "wait" /\ n.status = "running"
    BY Zenon, <2>1, <2>2 DEF TaskState, TaskPC
  <2>4. task' = [task EXCEPT !["analyze"] = n]
    BY <2>1, <2>2
  <2>5. PICK cancel \in BOOLEAN : cancel = task["analyze"].cancelled
    BY Zenon DEF TaskState
  <2>6. PICK r : r = [Request("analyze", "AnalyzeFuncs", "", 0) EXCEPT !.cancel = cancel]
    BY Zenon
  <2>7. r \in Sent /\ r.from = "analyze" /\ r.kind = "AnalyzeFuncs" /\ r.gen = 0
    BY Zenon, <2>6, CallerNames, StepwiseKinds DEF Request, Sent, RequestKind, Path
  <2>8. TrySend(r)
    BY ZenonT(40), <1>1, <2>5, <2>6 DEF AnalyzeStarts, TrySend
  <2>9. UNCHANGED <<db, lastGen>>
    BY Zenon, <2>8 DEF TrySend
  <2>10. /\ TaskTypes' /\ TaskSound' /\ OutputSound' /\ task'["analyze"] = n
         /\ task'["dsc"] = task["dsc"] /\ \A u \in TaskKinds \ {"analyze"} : task'[u] = task[u]
    BY ZenonT(40), <2>1, <2>3, <2>4, <2>9, AnalyzeIs
  <2>11. ~ Waits("analyze", View("analyze")) /\ Asks("analyze", View("analyze")', r.kind, r.gen)
    BY Zenon, <2>1, <2>3, <2>7, <2>10, CallerNames DEF Waits, Asks, View, TaskKinds
  <2>12. /\ IdaTypes' /\ Flights' /\ \A y \in Sessions : reply'[y] = reply[y]
    BY Zenon, <2>1, <2>7, <2>8, <2>10, <2>11, TaskSends
  <2>13. reply'["dsc"] = reply["dsc"]
    BY Zenon, <2>7, <2>8, CallerNames DEF TrySend, ServerInv, Types, IdaTypes
  <2>14. TaskClears => TaskClears'
    BY Zenon, <2>10, <2>13 DEF TaskClears
  <2>. QED BY Zenon, <2>1, <2>9, <2>10, <2>12, <2>14, TaskKeeps
<1>2. CASE AnalyzeSettles
  <2>1. /\ Answered("analyze") /\ Taken("analyze")
        /\ UNCHANGED <<setup, call, ops, main, lease, lastToken, idat, file, db, lastGen>>
    BY Zenon, <1>2 DEF AnalyzeSettles, Taken, WithTask, fixed, callVars, leaseVars
  <2>2. PICK status \in {"cancelled", "completed"} :
            task' = [task EXCEPT !["analyze"].pc = "done", !["analyze"].status = status]
    BY Zenon, <1>2 DEF AnalyzeSettles, SettleUnlessCancelled, Settle
  <2>3. PICK n : n = [task["analyze"] EXCEPT !.pc = "done", !.status = status]
    BY Zenon
  <2>4. n \in TaskState /\ n.pc = "done" /\ n.status = status
    BY Zenon, <2>3 DEF TaskState, TaskPC
  <2>5. task' = [task EXCEPT !["analyze"] = n]
    BY Zenon, <2>2, <2>3 DEF ServerInv, Types, TaskTypes, TaskState
  <2>6. /\ TaskTypes' /\ TaskSound' /\ OutputSound' /\ task'["analyze"] = n
        /\ task'["dsc"] = task["dsc"] /\ \A u \in TaskKinds \ {"analyze"} : task'[u] = task[u]
    BY ZenonT(40), <2>1, <2>4, <2>5, AnalyzeIs
  <2>7. /\ IdaTypes' /\ Flights' /\ \A y \in Sessions : reply'[y] = reply[y]
    BY Zenon, <2>1, <2>6, TaskTakes
  <2>8. reply'["dsc"] = reply["dsc"]
    BY Zenon, <2>1, CallerNames DEF Taken, ServerInv, Types, IdaTypes
  <2>9. TaskClears => TaskClears'
    BY Zenon, <2>6, <2>8 DEF TaskClears
  <2>. QED BY Zenon, <2>1, <2>6, <2>7, <2>9, TaskKeeps
<1>. QED BY Zenon, <1>1, <1>2 DEF AnalyzeTask

\* Every step of open_dsc's task.
LEMMA DscTaskKeeps == ServerInv /\ (DscTask \/ IdatExits \/ IdatWaitFails) => ServerInv'
\* A task that waits for no request moves and leaves the IDA thread alone.
<1>TaskRests.
    ASSUME ServerInv, NEW t \in TaskKinds, ~ Waits(t, View(t)),
           UNCHANGED <<db, lastGen, queue, running, reply, call, main>>,
           \A u \in TaskKinds \ {t} : task'[u] = task[u]
    PROVE  IdaTypes' /\ Flights'
  <2> USE <1>TaskRests
  <2>1. \A y \in Callers \ {t} : Stays(y)
    BY Zenon, TaskOthersStay
  <2>2. Stays(t)
    BY Zenon DEF Stays
  <2>. QED BY Zenon, <2>1, <2>2, Rests DEF ServerInv, Types

\* A step of open_dsc's task that leaves it in n.
<1>DscIs.
    ASSUME ServerInv, NEW n \in TaskState, task' = [task EXCEPT !["dsc"] = n], UNCHANGED <<db, lastGen>>,
           n.status = "running" <=> n.pc \notin {"none", "done"}, n.pc # "wait", n.gen <= lastGen,
           n.pc \in DscPC => n.gen = 0, n.pc \in OwningPC => n.gen # 0,
           n.pc \in {"undo", "undoing", "clear"} => n.why # "", n.pc = "clear" => db.gen # n.gen,
           n.status \in {"cancelled", "failed"} /\ n.gen # 0 => db.gen # n.gen
    PROVE  /\ TaskTypes' /\ TaskSound' /\ task'["dsc"] = n
           /\ \A u \in TaskKinds \ {"dsc"} : task'[u] = task[u]
  <2> USE <1>DscIs
  <2>1. TaskTypes' /\ task'["dsc"] = n /\ task'["analyze"] = task["analyze"]
    BY Zenon DEF ServerInv, Types, TaskTypes, TaskKinds
  <2>2. \A u \in TaskKinds \ {"dsc"} : task'[u] = task[u]
    BY Zenon, <2>1 DEF TaskKinds
  <2>3. \A u \in TaskKinds : task'[u].status = "running" <=> task'[u].pc \notin {"none", "done"}
    BY Zenon, <2>1, <2>2 DEF ServerInv, TaskSound, TaskKinds
  <2>4. TaskSound'
    BY Zenon, <2>1, <2>3 DEF ServerInv, TaskSound, UnsuccessfulDscLeavesNothingOpen
  <2>. QED BY Zenon, <2>1, <2>2, <2>4

\* It goes on,
<1>DscGoes.
    ASSUME ServerInv, NEW pc \in DscPC \cup OwningPC, task["dsc"].status = "running", TaskGoto("dsc", pc),
           UNCHANGED <<db, lastGen>>, pc \in DscPC => task["dsc"].pc \in DscPC,
           pc \in OwningPC => task["dsc"].pc \in OwningPC,
           pc \in {"undo", "undoing", "clear"} => task["dsc"].pc \in {"undo", "undoing"},
           pc = "clear" => db.gen # task["dsc"].gen
    PROVE  /\ TaskTypes' /\ TaskSound' /\ \A u \in TaskKinds \ {"dsc"} : task'[u] = task[u]
           /\ task'["dsc"].pc = pc /\ task'["dsc"].gen = task["dsc"].gen /\ task'["dsc"].status = "running"
  <2> USE <1>DscGoes
  <2>. task["dsc"] \in TaskState
    BY Zenon DEF ServerInv, Types, TaskTypes, TaskKinds
  <2>1. PICK n : n = [task["dsc"] EXCEPT !.pc = pc]
    BY Zenon
  <2>2. /\ n \in TaskState /\ n.pc = pc /\ n.gen = task["dsc"].gen /\ n.status = "running"
        /\ n.why = task["dsc"].why
    BY Zenon, <2>1 DEF TaskState, TaskPC
  <2>3. task' = [task EXCEPT !["dsc"] = n]
    BY Zenon, <2>1 DEF TaskGoto
  <2>4. pc \notin {"none", "done", "wait"}
    BY Zenon DEF DscPC, OwningPC
  <2>5. /\ n.gen <= lastGen /\ (pc \in DscPC => n.gen = 0) /\ (pc \in OwningPC => n.gen # 0)
        /\ (pc \in {"undo", "undoing", "clear"} => n.why # "")
    BY Zenon, <2>2 DEF ServerInv, TaskSound
  <2>6. /\ TaskTypes' /\ TaskSound' /\ task'["dsc"] = n
        /\ \A u \in TaskKinds \ {"dsc"} : task'[u] = task[u]
    BY ZenonT(40), <2>2, <2>3, <2>4, <2>5, <1>DscIs
  <2>. QED BY ZenonT(40), <2>2, <2>6

\* turns to the cleanup,
<1>DscUndoes.
    ASSUME ServerInv, NEW why \in {"cancelled", "failed"}, task["dsc"].status = "running", Undo(why),
           UNCHANGED <<db, lastGen>>, task["dsc"].pc \in OwningPC
    PROVE  /\ TaskTypes' /\ TaskSound' /\ \A u \in TaskKinds \ {"dsc"} : task'[u] = task[u]
           /\ task'["dsc"].pc = "undo" /\ task'["dsc"].status = "running"
  <2> USE <1>DscUndoes
  <2>. task["dsc"] \in TaskState
    BY Zenon DEF ServerInv, Types, TaskTypes, TaskKinds
  <2>1. PICK n : n = [task["dsc"] EXCEPT !.pc = "undo", !.why = why]
    BY Zenon
  <2>2. /\ n \in TaskState /\ n.pc = "undo" /\ n.gen = task["dsc"].gen /\ n.status = "running"
        /\ n.why = why
    BY Zenon, <2>1 DEF TaskState, TaskPC, OwningPC
  <2>3. task' = [task EXCEPT !["dsc"] = n]
    BY Zenon, <2>1 DEF Undo, ServerInv, Types, TaskTypes, TaskState
  <2>4. n.gen <= lastGen /\ n.gen # 0 /\ "undo" \notin DscPC
    BY Zenon, <2>2 DEF ServerInv, TaskSound, DscPC
  <2>5. /\ TaskTypes' /\ TaskSound' /\ task'["dsc"] = n
        /\ \A u \in TaskKinds \ {"dsc"} : task'[u] = task[u]
    BY Zenon, <2>2, <2>3, <2>4, <1>DscIs
  <2>. QED BY Zenon, <2>2, <2>5

\* or settles.
<1>DscSettles.
    ASSUME ServerInv, NEW status \in {"completed", "failed", "cancelled", "cleanup_error"},
           Settle("dsc", status), UNCHANGED <<db, lastGen>>,
           status \in {"cancelled", "failed"} /\ task["dsc"].gen # 0 => db.gen # task["dsc"].gen
    PROVE  /\ TaskTypes' /\ TaskSound' /\ \A u \in TaskKinds \ {"dsc"} : task'[u] = task[u]
           /\ task'["dsc"].pc = "done" /\ task'["dsc"].status = status
  <2> USE <1>DscSettles
  <2>. task["dsc"] \in TaskState
    BY Zenon DEF ServerInv, Types, TaskTypes, TaskKinds
  <2>1. PICK n : n = [task["dsc"] EXCEPT !.pc = "done", !.status = status]
    BY Zenon
  <2>2. n \in TaskState /\ n.pc = "done" /\ n.gen = task["dsc"].gen /\ n.status = status
    BY Zenon, <2>1 DEF TaskState, TaskPC
  <2>3. task' = [task EXCEPT !["dsc"] = n]
    BY Zenon, <2>1 DEF Settle, ServerInv, Types, TaskTypes, TaskState
  <2>4. n.gen <= lastGen /\ "done" \notin DscPC \cup OwningPC
    BY Zenon, <2>2 DEF ServerInv, TaskSound, DscPC, OwningPC
  <2>5. /\ TaskTypes' /\ TaskSound' /\ task'["dsc"] = n
        /\ \A u \in TaskKinds \ {"dsc"} : task'[u] = task[u]
    BY ZenonT(40), <2>2, <2>3, <2>4, <1>DscIs
  <2>. QED BY ZenonT(40), <2>2, <2>5

\* The output file, away from idat.
<1>DscOutput.
    ASSUME ServerInv, UNCHANGED <<idat, file>>, task["dsc"].status = "running",
           task["dsc"].pc \notin {"idat", "settled"}, task'["dsc"].pc \notin {"idat", "settled"}
    PROVE  OutputSound'
  BY <1>DscOutput, Zenon DEF ServerInv, OutputSound, PartialIsBeingWritten

\* The task's side of a request.
<1>DscView.
    /\ View("dsc").pc = task["dsc"].pc /\ View("dsc").gen = task["dsc"].gen
    /\ View("dsc")'.pc = task'["dsc"].pc /\ View("dsc")'.gen = task'["dsc"].gen
    /\ "dsc" \in TaskKinds /\ "dsc" \in Callers /\ "dsc" \notin Sessions
  BY ZenonT(40), CallerNames DEF View, TaskKinds

\* Where open_dsc's task waits for an answer.
<1>DscWaits.
    Waits("dsc", View("dsc")) <=> task["dsc"].pc \in {"open", "load", "status", "undoing"}
  BY Zenon, <1>DscView, CallerNames DEF Waits

\* What a step of the task leaves alone.
<1>DscLeaves.
    ASSUME UNCHANGED WithTask
    PROVE  UNCHANGED <<setup, call, ops, main>>
  BY <1>DscLeaves, Zenon DEF WithTask, fixed, callVars

\* The open is sent: at the start, or once idat wrote the .i64.
<1>SendDscOpenKeeps.
    ASSUME ServerInv, SendDscOpen, task["dsc"].status = "running", UNCHANGED <<file, idat, leaseVars, WithTask>>,
           task["dsc"].pc \in {"start", "settled"},
           task["dsc"].pc = "settled" => idat = "ok"
    PROVE  ServerInv'
  <2> USE <1>SendDscOpenKeeps
  <2>. task["dsc"] \in TaskState
    BY Zenon DEF ServerInv, Types, TaskTypes, TaskKinds
  <2>1. PICK cancel \in BOOLEAN : cancel = task["dsc"].cancelled
    BY ZenonT(40) DEF TaskState
  <2>2. PICK path \in {"dsc", "dsc.i64"} : path = IF setup.sdk94 THEN "dsc" ELSE "dsc.i64"
    BY Zenon
  <2>3. PICK r : r = [Request("dsc", "Open", path, 0) EXCEPT !.cancel = cancel]
    BY Zenon
  <2>4. r \in Sent /\ r.from = "dsc" /\ r.kind = "Open" /\ r.gen = 0
    BY Zenon, <2>3, <1>DscView DEF Request, Sent, RequestKind, Path
  <2>5. TrySend(r) /\ TaskGoto("dsc", "open")
    BY Zenon, <2>1, <2>2, <2>3 DEF SendDscOpen, TrySend
  <2>6. UNCHANGED <<db, lastGen, setup, call, ops, main, lease, lastToken, file, idat>>
    BY Zenon, <2>5, <1>DscLeaves DEF TrySend, leaseVars
  <2>7. /\ TaskTypes' /\ TaskSound' /\ \A u \in TaskKinds \ {"dsc"} : task'[u] = task[u]
        /\ task'["dsc"].pc = "open" /\ task'["dsc"].status = "running"
    BY Zenon, <2>5, <2>6, <1>DscGoes DEF DscPC, OwningPC
  <2>8. ~ Waits("dsc", View("dsc")) /\ Asks("dsc", View("dsc")', r.kind, r.gen)
    BY Zenon, <2>4, <2>7, <1>DscView, <1>DscWaits DEF Asks, DscAsks
  <2>9. /\ IdaTypes' /\ Flights' /\ \A y \in Sessions : reply'[y] = reply[y]
    BY Zenon, <2>4, <2>5, <2>6, <2>7, <2>8, <1>DscView, TaskSends
  <2>10. OutputSound'
    BY Zenon, <2>6, <2>7 DEF ServerInv, OutputSound, PartialIsBeingWritten
  <2>11. ~ TaskClears
    BY Zenon DEF TaskClears
  <2>. QED BY ZenonT(40), <2>6, <2>7, <2>9, <2>10, <2>11, TaskKeeps

\* A settlement that leaves the IDA thread alone.
<1>DscEndsKeep.
    ASSUME ServerInv, task["dsc"].status = "running", UNCHANGED <<idaVars, leaseVars, WithTask>>,
           NEW status \in {"completed", "failed", "cancelled", "cleanup_error"}, Settle("dsc", status),
           status \in {"cancelled", "failed"} /\ task["dsc"].gen # 0 => db.gen # task["dsc"].gen,
           task["dsc"].pc \in {"start", "idat", "settled", "complete", "undo"},
           task'["dsc"].pc = "done" /\ task'["dsc"].status = status => OutputSound'
    PROVE  ServerInv'
  <2> USE <1>DscEndsKeep
  <2>1. UNCHANGED <<db, lastGen, queue, running, reply, setup, call, ops, main, lease, lastToken>>
    BY Zenon, <1>DscLeaves DEF idaVars, leaseVars
  <2>2. /\ TaskTypes' /\ TaskSound' /\ \A u \in TaskKinds \ {"dsc"} : task'[u] = task[u]
        /\ task'["dsc"].pc = "done" /\ task'["dsc"].status = status
    BY Zenon, <2>1, <1>DscSettles
  <2>3. IdaTypes' /\ Flights'
    BY ZenonT(40), <2>1, <2>2, <1>DscView, <1>DscWaits, <1>TaskRests
  <2>4. ~ TaskClears
    BY Zenon DEF TaskClears
  <2>5. \A y \in Sessions : reply'[y] = reply[y]
    BY ZenonT(40), <2>1
  <2>. QED BY Zenon, <2>1, <2>2, <2>3, <2>4, <2>5, TaskKeeps

\* DscStarts.
<1>DscStartsKeeps.
    ASSUME ServerInv, DscStarts
    PROVE  ServerInv'
  <2> USE <1>DscStartsKeeps
  <2>1. /\ task["dsc"].pc = "start" /\ task["dsc"].status = "running" /\ UNCHANGED <<leaseVars, WithTask>>
        /\ task["dsc"].gen = 0
    BY Zenon DEF DscStarts, At, ServerInv, TaskSound, DscPC
  <2>2. CASE Settle("dsc", "cancelled") /\ UNCHANGED <<idaVars, idat, file>>
    <3>1. task'["dsc"].pc = "done" => OutputSound'
      BY ZenonT(40), <2>1, <2>2, <1>DscOutput
    <3>. QED BY Zenon, <2>1, <2>2, <3>1, <1>DscEndsKeep
  <2>3. CASE SendDscOpen /\ UNCHANGED <<idat, file>>
    BY Zenon, <2>1, <2>3, <1>SendDscOpenKeeps
  <2>4. CASE /\ \/ idat' = "running" /\ file' = "partial" /\ TaskGoto("dsc", "idat")
                \/ idat' = "failed" /\ TaskGoto("dsc", "settled") /\ UNCHANGED file
             /\ UNCHANGED idaVars
    <3>1. UNCHANGED <<db, lastGen, queue, running, reply, setup, call, ops, main, lease, lastToken>>
      BY Zenon, <2>1, <2>4, <1>DscLeaves DEF idaVars, leaseVars
    <3>2. PICK pc \in {"idat", "settled"} :
              /\ TaskGoto("dsc", pc)
              /\ \/ pc = "idat" /\ idat' = "running" /\ file' = "partial"
                 \/ pc = "settled" /\ idat' = "failed" /\ UNCHANGED file
      BY <2>4
    <3>3. /\ TaskTypes' /\ TaskSound' /\ \A u \in TaskKinds \ {"dsc"} : task'[u] = task[u]
          /\ task'["dsc"].pc = pc /\ task'["dsc"].status = "running"
      BY Zenon, <2>1, <3>1, <3>2, <1>DscGoes DEF DscPC, OwningPC
    <3>4. IdaTypes' /\ Flights'
      BY ZenonT(40), <2>1, <3>1, <3>3, <1>DscView, <1>DscWaits, <1>TaskRests
    <3>5. OutputSound'
      BY Zenon, <3>2, <3>3 DEF OutputSound, PartialIsBeingWritten
    <3>6. ~ TaskClears /\ \A y \in Sessions : reply'[y] = reply[y]
      BY Zenon, <2>1, <3>1 DEF TaskClears
    <3>. QED BY Zenon, <3>1, <3>3, <3>4, <3>5, <3>6, TaskKeeps
  <2>. QED BY Zenon, <2>2, <2>3, <2>4 DEF DscStarts

\* IdatKilled and IdatWaitFails: the output goes with the child.
<1>IdatGoneKeeps.
    ASSUME ServerInv, IdatKilled \/ IdatWaitFails
    PROVE  ServerInv'
  <2> USE <1>IdatGoneKeeps
  <2>1. /\ task["dsc"].pc = "idat" /\ task["dsc"].status = "running" /\ UNCHANGED <<idaVars, leaseVars, WithTask>>
        /\ task["dsc"].gen = 0 /\ idat' = "none" /\ file' = "absent"
    BY ZenonT(40) DEF IdatKilled, IdatWaitFails, At, ServerInv, TaskSound, DscPC
  <2>2. PICK status \in {"cancelled", "failed"} : Settle("dsc", status)
    BY Zenon DEF IdatKilled, IdatWaitFails, SettleUnlessCancelled
  <2>3. task'["dsc"].pc = "done" => OutputSound'
    BY Zenon, <2>1 DEF OutputSound, PartialIsBeingWritten
  <2>. QED BY Zenon, <2>1, <2>2, <2>3, <1>DscEndsKeep

\* IdatSettles: the task sees that the child is gone.
<1>IdatSettlesKeeps.
    ASSUME ServerInv, IdatSettles
    PROVE  ServerInv'
  <2> USE <1>IdatSettlesKeeps
  <2>1. /\ task["dsc"].pc = "idat" /\ task["dsc"].status = "running" /\ TaskGoto("dsc", "settled")
        /\ UNCHANGED <<db, lastGen, queue, running, reply, setup, call, ops, main, lease, lastToken, idat, file>>
        /\ idat \in {"ok", "failed"}
    BY Zenon, <1>DscLeaves DEF IdatSettles, At, idaVars, leaseVars
  <2>2. /\ TaskTypes' /\ TaskSound' /\ \A u \in TaskKinds \ {"dsc"} : task'[u] = task[u]
        /\ task'["dsc"].pc = "settled" /\ task'["dsc"].status = "running"
    BY Zenon, <2>1, <1>DscGoes DEF DscPC, OwningPC
  <2>3. IdaTypes' /\ Flights'
    BY Zenon, <2>1, <2>2, <1>DscView, <1>DscWaits, <1>TaskRests
  <2>4. OutputSound'
    BY ZenonT(40), <2>1, <2>2 DEF OutputSound, PartialIsBeingWritten, ServerInv
  <2>5. ~ TaskClears /\ \A y \in Sessions : reply'[y] = reply[y]
    BY Zenon, <2>1 DEF TaskClears
  <2>. QED BY Zenon, <2>1, <2>2, <2>3, <2>4, <2>5, TaskKeeps

\* IdatExits: the child exits by itself, and its output is complete or partial.
<1>IdatExitsKeeps.
    ASSUME ServerInv, IdatExits
    PROVE  ServerInv'
  <2> USE <1>IdatExitsKeeps
  <2>1. /\ UNCHANGED <<db, lastGen, queue, running, reply, setup, call, ops, main, lease, lastToken, task>>
        /\ idat = "running"
        /\ (idat' = "ok" /\ file' = "complete") \/ (idat' = "failed" /\ UNCHANGED file)
    BY Zenon, <1>DscLeaves DEF IdatExits, idaVars, leaseVars
  <2>2. task["dsc"].pc = "idat"
    BY Zenon, <2>1 DEF ServerInv, OutputSound
  <2>3. TaskTypes' /\ TaskSound'
    BY Zenon, <2>1 DEF ServerInv, Types, TaskTypes, TaskSound, UnsuccessfulDscLeavesNothingOpen
  <2>4. IdaTypes' /\ Flights'
    BY ZenonT(40), <2>1, <2>2, <1>DscView, <1>DscWaits, <1>TaskRests
  <2>5. OutputSound'
    BY Zenon, <2>1, <2>2 DEF OutputSound, PartialIsBeingWritten, ServerInv
  <2>6. ~ TaskClears /\ \A y \in Sessions : reply'[y] = reply[y]
    BY Zenon, <2>1, <2>2 DEF TaskClears
  <2>. QED BY Zenon, <2>1, <2>3, <2>4, <2>5, <2>6, TaskKeeps

\* DscAfterIdat.
<1>DscAfterIdatKeeps.
    ASSUME ServerInv, DscAfterIdat
    PROVE  ServerInv'
  <2> USE <1>DscAfterIdatKeeps
  <2>1. /\ task["dsc"].pc = "settled" /\ task["dsc"].status = "running" /\ UNCHANGED <<leaseVars, WithTask, idat>>
        /\ task["dsc"].gen = 0
    BY Zenon DEF DscAfterIdat, At, ServerInv, TaskSound, DscPC
  <2>2. CASE Settle("dsc", "cancelled") /\ UNCHANGED <<idaVars, file>>
    <3>1. task'["dsc"].pc = "done" /\ task'["dsc"].status = "cancelled" => OutputSound'
      BY Zenon, <2>1, <2>2 DEF ServerInv, OutputSound, PartialIsBeingWritten
    <3>. QED BY Zenon, <2>1, <2>2, <3>1, <1>DscEndsKeep
  <2>3. CASE idat = "failed" /\ file' = "absent" /\ Settle("dsc", "failed") /\ UNCHANGED idaVars
    <3>1. task'["dsc"].pc = "done" => OutputSound'
      BY Zenon, <2>1, <2>3 DEF OutputSound, PartialIsBeingWritten
    <3>. QED BY ZenonT(40), <2>1, <2>3, <3>1, <1>DscEndsKeep
  <2>4. CASE idat = "ok" /\ SendDscOpen /\ UNCHANGED file
    BY Zenon, <2>1, <2>4, <1>SendDscOpenKeeps
  <2>. QED BY Zenon, <2>2, <2>3, <2>4 DEF DscAfterIdat

\* The task takes its answer and goes wherever it goes.
<1>DscAnswers.
    ASSUME ServerInv, Answered("dsc"), Taken("dsc"), UNCHANGED <<leaseVars, idat, file, WithTask>>,
           TaskTypes', TaskSound', \A u \in TaskKinds \ {"dsc"} : task'[u] = task[u],
           task["dsc"].status = "running", task["dsc"].pc \notin {"idat", "settled"},
           task'["dsc"].pc \notin {"idat", "settled"}, TaskClears => task'["dsc"].pc = "clear"
    PROVE  ServerInv'
  <2> USE <1>DscAnswers
  <2>1. UNCHANGED <<setup, call, ops, main, lease, lastToken>>
    BY Zenon, <1>DscLeaves DEF leaseVars
  <2>2. /\ IdaTypes' /\ Flights' /\ UNCHANGED <<db, lastGen>>
        /\ \A y \in Sessions : reply'[y] = reply[y]
    BY ZenonT(40), <2>1, <1>DscView, TaskTakes
  <2>3. OutputSound'
    BY <1>DscOutput
  <2>4. TaskClears => TaskClears'
    BY Zenon DEF TaskClears
  <2>. QED BY ZenonT(40), <2>1, <2>2, <2>3, <2>4, TaskKeeps

\* DscOpened: a successful open gives the task its generation.
<1>DscOpenedKeeps.
    ASSUME ServerInv, DscOpened
    PROVE  ServerInv'
  <2> USE <1>DscOpenedKeeps
  <2>. task["dsc"] \in TaskState
    BY Zenon DEF ServerInv, Types, TaskTypes, TaskKinds
  <2>1. /\ task["dsc"].pc = "open" /\ task["dsc"].status = "running" /\ Answered("dsc") /\ Taken("dsc")
        /\ UNCHANGED <<leaseVars, idat, file, WithTask>> /\ task["dsc"].gen = 0 /\ ~ TaskClears
    BY Zenon DEF DscOpened, At, ServerInv, TaskSound, DscPC, TaskClears
  <2>2. UNCHANGED <<db, lastGen>>
    BY Zenon, <2>1 DEF Taken
  <2>3. CASE AnsweredOk("dsc") /\ task' = [task EXCEPT !["dsc"] =
                   IF @.cancelled
                   THEN [@ EXCEPT !.gen = reply["dsc"].gen, !.pc = "undo", !.why = "cancelled"]
                   ELSE [@ EXCEPT !.gen = reply["dsc"].gen,
                                  !.pc = IF setup.sdk94 THEN "next" ELSE "issue"]]
    <3>1. PICK g \in 1 .. lastGen : g = reply["dsc"].gen
      <4>1. Asks("dsc", View("dsc"), "Open", 0)
        BY Zenon, <2>1, <1>DscView DEF Asks, DscAsks
      <4>2. Tells("dsc", View("dsc"), reply["dsc"])
        BY Zenon, <2>1, <1>DscView DEF ServerInv, Flights, FlightSound, Answered
      <4>. QED BY Zenon, <2>3, <4>1, <4>2 DEF Tells, AnsweredOk
    <3>2. PICK pc \in {"undo", "next", "issue"}, why \in {"cancelled", task["dsc"].why} :
              /\ task' = [task EXCEPT !["dsc"] = [task["dsc"] EXCEPT !.gen = g, !.pc = pc, !.why = why]]
              /\ pc = "undo" => why = "cancelled"
      <4>1. CASE task["dsc"].cancelled
        <5>1. task' = [task EXCEPT !["dsc"] = [task["dsc"] EXCEPT !.gen = g, !.pc = "undo", !.why = "cancelled"]]
          BY Zenon, <2>3, <3>1, <4>1 DEF ServerInv, Types, TaskTypes, TaskKinds
        <5>. QED BY Zenon, <5>1
      <4>2. CASE ~ task["dsc"].cancelled
        <5>1. PICK pc \in {"next", "issue"} : pc = IF setup.sdk94 THEN "next" ELSE "issue"
          BY Zenon
        <5>2. task' = [task EXCEPT !["dsc"] = [task["dsc"] EXCEPT !.gen = g, !.pc = pc]]
          BY Zenon, <2>3, <3>1, <4>2, <5>1 DEF ServerInv, Types, TaskTypes, TaskKinds
        <5>3. [task["dsc"] EXCEPT !.gen = g, !.pc = pc, !.why = task["dsc"].why] =
              [task["dsc"] EXCEPT !.gen = g, !.pc = pc]
          BY Zenon DEF TaskState
        <5>. QED BY Zenon, <5>1, <5>2, <5>3
      <4>. QED BY Zenon, <4>1, <4>2
    <3>3. PICK n : n = [task["dsc"] EXCEPT !.gen = g, !.pc = pc, !.why = why]
      BY Zenon
    <3>4. /\ n \in TaskState /\ n.pc = pc /\ n.gen = g /\ n.why = why /\ n.status = "running"
          /\ task' = [task EXCEPT !["dsc"] = n]
      <4>1. g \in Nat
        BY <3>1 DEF ServerInv, Types, IdaTypes
      <4>. QED BY Zenon, <2>1, <3>2, <3>3, <4>1 DEF TaskState, TaskPC, OwningPC
    <3>5. /\ n.gen <= lastGen /\ n.gen # 0 /\ pc \notin DscPC /\ pc \notin {"none", "done", "wait", "clear", "undoing"}
      BY <3>1, <3>2, <3>4 DEF DscPC, ServerInv, Types, IdaTypes
    <3>6. /\ TaskTypes' /\ TaskSound' /\ task'["dsc"] = n
          /\ \A u \in TaskKinds \ {"dsc"} : task'[u] = task[u]
      BY Zenon, <2>2, <3>2, <3>4, <3>5, <1>DscIs
    <3>. QED BY Zenon, <2>1, <3>2, <3>4, <3>6, <1>DscAnswers
  <2>4. CASE SettleUnlessCancelled("dsc", "failed")
    <3>1. PICK status \in {"cancelled", "failed"} : Settle("dsc", status)
      BY Zenon, <2>4 DEF SettleUnlessCancelled
    <3>2. /\ TaskTypes' /\ TaskSound' /\ \A u \in TaskKinds \ {"dsc"} : task'[u] = task[u]
          /\ task'["dsc"].pc = "done"
      BY ZenonT(40), <2>1, <2>2, <3>1, <1>DscSettles
    <3>. QED BY ZenonT(40), <2>1, <3>2, <1>DscAnswers
  <2>. QED BY Zenon, <2>3, <2>4 DEF DscOpened

\* DscLoaded and DscStatus.
<1>DscLoadedKeeps.
    ASSUME ServerInv, DscLoaded \/ DscStatus
    PROVE  ServerInv'
  <2> USE <1>DscLoadedKeeps
  <2>1. /\ task["dsc"].pc \in {"load", "status"} /\ task["dsc"].status = "running"
        /\ Answered("dsc") /\ Taken("dsc")
        /\ UNCHANGED <<leaseVars, idat, file, WithTask>> /\ ~ TaskClears
    BY ZenonT(40) DEF DscLoaded, DscStatus, At, TaskClears
  <2>2. UNCHANGED <<db, lastGen>>
    BY Zenon, <2>1 DEF Taken
  <2>3. \/ Undo("cancelled") \/ Undo("failed") \/ TaskGoto("dsc", "stat") \/ TaskGoto("dsc", "issue")
    BY Zenon DEF DscLoaded, DscStatus
  <2>4. CASE Undo("cancelled") \/ Undo("failed")
    <3>1. PICK why \in {"cancelled", "failed"} : Undo(why)
      BY Zenon, <2>4
    <3>2. /\ TaskTypes' /\ TaskSound' /\ \A u \in TaskKinds \ {"dsc"} : task'[u] = task[u]
          /\ task'["dsc"].pc = "undo"
      BY Zenon, <2>1, <2>2, <3>1, <1>DscUndoes DEF OwningPC
    <3>. QED BY Zenon, <2>1, <3>2, <1>DscAnswers
  <2>5. CASE TaskGoto("dsc", "stat") \/ TaskGoto("dsc", "issue")
    <3>1. PICK pc \in {"stat", "issue"} : TaskGoto("dsc", pc)
      BY <2>5
    <3>2. /\ TaskTypes' /\ TaskSound' /\ \A u \in TaskKinds \ {"dsc"} : task'[u] = task[u]
          /\ task'["dsc"].pc = pc
      BY ZenonT(40), <2>1, <2>2, <3>1, <1>DscGoes DEF OwningPC, DscPC
    <3>. QED BY Zenon, <2>1, <3>2, <1>DscAnswers
  <2>. QED BY Zenon, <2>3, <2>4, <2>5

\* DscUndone: the task settles with the reason it turned to the cleanup.
<1>DscUndoneIs.
    ASSUME ServerInv, task["dsc"].pc \in {"undo", "undoing", "clear"}, DscUndone
    PROVE  \E status \in {"cancelled", "failed"} : Settle("dsc", status)
  <2> USE <1>DscUndoneIs
  <2>1. task["dsc"].why \in {"cancelled", "failed"}
    BY Zenon DEF ServerInv, Types, TaskTypes, TaskState, TaskKinds, TaskSound
  <2>. QED BY Zenon, <2>1 DEF DscUndone, SettleUnlessCancelled

\* DscCloseAnswered: the answer says that the database is gone, or the task
\* reports that it could not clean up.
<1>DscCloseAnsweredKeeps.
    ASSUME ServerInv, DscCloseAnswered
    PROVE  ServerInv'
  <2> USE <1>DscCloseAnsweredKeeps
  <2>1. /\ task["dsc"].pc = "undoing" /\ task["dsc"].status = "running"
        /\ Answered("dsc") /\ Taken("dsc") /\ UNCHANGED <<leaseVars, idat, file, WithTask>>
    BY Zenon DEF DscCloseAnswered, At
  <2>2. UNCHANGED <<db, lastGen>>
    BY Zenon, <2>1 DEF Taken
  <2>3. reply["dsc"].res \in {"closed", "other"} => db.gen # task["dsc"].gen
    <3>1. Tells("dsc", View("dsc"), reply["dsc"])
      BY Zenon, <2>1, <1>DscView DEF ServerInv, Flights, FlightSound, Answered
    <3>. QED BY Zenon, <3>1, <1>DscView DEF Tells
  <2>4. CASE reply["dsc"].res = "closed" /\ TaskGoto("dsc", "clear")
    <3>1. /\ TaskTypes' /\ TaskSound' /\ \A u \in TaskKinds \ {"dsc"} : task'[u] = task[u]
          /\ task'["dsc"].pc = "clear"
      BY Zenon, <2>1, <2>2, <2>3, <2>4, <1>DscGoes DEF OwningPC, DscPC
    <3>. QED BY Zenon, <2>1, <3>1, <1>DscAnswers
  <2>5. CASE reply["dsc"].res = "other" /\ DscUndone
    <3>1. PICK status \in {"cancelled", "failed"} : Settle("dsc", status)
      BY ZenonT(40), <2>1, <2>5, <1>DscUndoneIs
    <3>2. /\ TaskTypes' /\ TaskSound' /\ \A u \in TaskKinds \ {"dsc"} : task'[u] = task[u]
          /\ task'["dsc"].pc = "done"
      BY Zenon, <2>2, <2>3, <2>5, <3>1, <1>DscSettles
    <3>3. ~ TaskClears
      BY Zenon, <2>1, <2>5 DEF TaskClears
    <3>. QED BY Zenon, <2>1, <3>2, <3>3, <1>DscAnswers
  <2>6. CASE reply["dsc"].res # "closed" /\ Settle("dsc", "cleanup_error")
    <3>1. /\ TaskTypes' /\ TaskSound' /\ \A u \in TaskKinds \ {"dsc"} : task'[u] = task[u]
          /\ task'["dsc"].pc = "done"
      BY Zenon, <2>2, <2>6, <1>DscSettles
    <3>2. ~ TaskClears
      BY Zenon, <2>1, <2>6 DEF TaskClears
    <3>. QED BY ZenonT(40), <2>1, <3>1, <3>2, <1>DscAnswers
  <2>. QED BY Zenon, <2>4, <2>5, <2>6 DEF DscCloseAnswered

\* A request of the task once it has its database: a load, the status or the close.
<1>DscAsksKeeps.
    ASSUME ServerInv, NEW pc \in {"load", "status", "undoing"}, NEW kind \in RequestKind, NEW gen, gen = task["dsc"].gen,
           TaskGoto("dsc", pc), TrySend(Request("dsc", kind, "", gen)),
           task["dsc"].status = "running", task["dsc"].pc \in {"next", "stat", "undo"},
           pc = "undoing" => task["dsc"].pc = "undo",
           <<pc, kind>> \in {<<"load", "DscLoadImage">>, <<"status", "AnalysisStatus">>, <<"undoing", "CloseIfGeneration">>},
           UNCHANGED <<leaseVars, idat, file, WithTask>>
    PROVE  ServerInv'
  <2> USE <1>DscAsksKeeps
  <2>. gen \in Nat
    BY Zenon DEF ServerInv, Types, TaskTypes, TaskKinds, TaskState
  <2>1. PICK r : r = Request("dsc", kind, "", gen)
    BY Zenon
  <2>2. r \in Sent /\ r.from = "dsc" /\ r.kind = kind /\ r.gen = gen
    BY Zenon, <2>1, <1>DscView DEF Request, Sent, Path
  <2>3. TrySend(r) /\ UNCHANGED <<db, lastGen, setup, call, ops, main, lease, lastToken, idat, file>>
    BY Zenon, <2>1, <1>DscLeaves DEF TrySend, leaseVars
  <2>4. /\ TaskTypes' /\ TaskSound' /\ \A u \in TaskKinds \ {"dsc"} : task'[u] = task[u]
        /\ task'["dsc"].pc = pc /\ task'["dsc"].gen = gen
    BY Zenon, <2>3, <1>DscGoes DEF OwningPC, DscPC
  <2>5. ~ Waits("dsc", View("dsc")) /\ Asks("dsc", View("dsc")', r.kind, r.gen)
    BY Zenon, <2>2, <2>4, <1>DscView, <1>DscWaits DEF Asks, DscAsks
  <2>6. /\ IdaTypes' /\ Flights' /\ \A y \in Sessions : reply'[y] = reply[y]
    BY Zenon, <2>2, <2>3, <2>4, <2>5, <1>DscView, TaskSends
  <2>7. OutputSound' /\ ~ TaskClears
    BY Zenon, <2>3, <2>4, <1>DscOutput DEF TaskClears
  <2>. QED BY Zenon, <2>3, <2>4, <2>6, <2>7, TaskKeeps

\* DscLoads: the next load or the status is asked for, bound to the generation.
<1>DscLoadsKeeps.
    ASSUME ServerInv, DscLoads
    PROVE  ServerInv'
  <2> USE <1>DscLoadsKeeps
  <2>. "DscLoadImage" \in RequestKind /\ "AnalysisStatus" \in RequestKind
    BY Zenon, StepwiseKinds DEF RequestKind
  <2>1. CASE At("dsc", "next") /\ TaskGoto("dsc", "load") /\ TrySend(Request("dsc", "DscLoadImage", "", task["dsc"].gen))
    BY Zenon, <2>1, <1>DscAsksKeeps DEF DscLoads, At
  <2>2. CASE At("dsc", "stat") /\ TaskGoto("dsc", "status") /\ TrySend(Request("dsc", "AnalysisStatus", "", task["dsc"].gen))
    BY Zenon, <2>2, <1>DscAsksKeeps DEF DscLoads, At
  <2>. QED BY Zenon, <2>1, <2>2 DEF DscLoads

\* DscSendsClose: the cleanup closes only the generation that the task opened.
<1>DscSendsCloseKeeps.
    ASSUME ServerInv, DscSendsClose
    PROVE  ServerInv'
  <2> USE <1>DscSendsCloseKeeps
  <2>. "CloseIfGeneration" \in RequestKind
    BY Zenon DEF RequestKind
  <2>1. task["dsc"].pc = "undo" /\ task["dsc"].status = "running" /\ UNCHANGED <<leaseVars, idat, file, WithTask>>
    BY Zenon DEF DscSendsClose, At
  <2>2. CASE TaskGoto("dsc", "undoing") /\ TrySend(Request("dsc", "CloseIfGeneration", "", task["dsc"].gen))
    BY ZenonT(40), <2>1, <2>2, <1>DscAsksKeeps
  <2>3. CASE Settle("dsc", "cleanup_error") /\ UNCHANGED idaVars
    <3>1. task'["dsc"].pc = "done" => OutputSound'
      BY <2>1, <1>DscOutput
    <3>. QED BY <2>1, <2>3, <3>1, <1>DscEndsKeep
  <2>. QED BY Zenon, <2>2, <2>3 DEF DscSendsClose

\* DscLoadTimesOut: the load is abandoned.
<1>DscLoadTimesOutKeeps.
    ASSUME ServerInv, DscLoadTimesOut
    PROVE  ServerInv'
  <2> USE <1>DscLoadTimesOutKeeps
  <2>1. /\ task["dsc"].pc = "load" /\ task["dsc"].status = "running" /\ ~ Answered("dsc") /\ AbandonInFlight("dsc")
        /\ UNCHANGED <<db, lastGen, reply, setup, call, ops, main, lease, lastToken, idat, file>>
    BY Zenon, <1>DscLeaves DEF DscLoadTimesOut, At, leaseVars
  <2>2. PICK why \in {"cancelled", "failed"} : Undo(why)
    BY Zenon DEF DscLoadTimesOut
  <2>3. /\ TaskTypes' /\ TaskSound' /\ \A u \in TaskKinds \ {"dsc"} : task'[u] = task[u]
        /\ task'["dsc"].pc = "undo"
    BY Zenon, <2>1, <2>2, <1>DscUndoes DEF OwningPC
  <2>4. \A y \in Callers \ {"dsc"} : Stays(y)
    BY <2>1, <2>3, <1>DscView, TaskOthersStay
  <2>5. \A kind, gen : Asks("dsc", View("dsc"), kind, gen) => kind \notin {"Shutdown", "CloseIfGeneration", "Close"}
    BY Zenon, <2>1, <1>DscView, CallerNames DEF Asks, DscAsks
  <2>6. IdaTypes' /\ Flights'
    BY ZenonT(40), <2>1, <2>4, <2>5, <1>DscView, Drops DEF ServerInv, Types
  <2>7. OutputSound' /\ ~ TaskClears /\ \A y \in Sessions : reply'[y] = reply[y]
    BY Zenon, <2>1, <2>3, <1>DscOutput DEF TaskClears
  <2>. QED BY ZenonT(40), <2>1, <2>3, <2>6, <2>7, TaskKeeps

\* DscIssues and DscCompletes.
<1>DscIssuesKeeps.
    ASSUME ServerInv, DscIssues \/ DscCompletes
    PROVE  ServerInv'
  <2> USE <1>DscIssuesKeeps
  <2>1. /\ task["dsc"].pc \in {"issue", "complete"} /\ task["dsc"].status = "running"
        /\ UNCHANGED <<db, lastGen, queue, running, reply, setup, call, ops, main, idat, file>>
        /\ ~ TaskClears
    BY ZenonT(40), <1>DscLeaves DEF DscIssues, DscCompletes, At, idaVars, TaskClears
  <2>2. \A y \in Sessions : reply'[y] = reply[y]
    BY Zenon, <2>1
  <2>3. CASE Undo("cancelled") /\ UNCHANGED leaseVars
    <3>1. /\ TaskTypes' /\ TaskSound' /\ \A u \in TaskKinds \ {"dsc"} : task'[u] = task[u]
          /\ task'["dsc"].pc = "undo"
      BY Zenon, <2>1, <2>3, <1>DscUndoes DEF OwningPC
    <3>2. IdaTypes' /\ Flights'
      BY <2>1, <3>1, <1>DscView, <1>DscWaits, <1>TaskRests
    <3>3. OutputSound'
      BY <2>1, <3>1, <1>DscOutput
    <3>. QED BY ZenonT(40), <2>1, <2>2, <2>3, <3>1, <3>2, <3>3, TaskKeeps DEF leaseVars
  <2>4. CASE TaskGoto("dsc", "complete") /\ Issue(task["dsc"].owner, task["dsc"].gen)
    <3>1. /\ TaskTypes' /\ TaskSound' /\ \A u \in TaskKinds \ {"dsc"} : task'[u] = task[u]
          /\ task'["dsc"].pc = "complete"
      BY Zenon, <2>1, <2>4, <1>DscGoes DEF OwningPC, DscPC
    <3>2. IdaTypes' /\ Flights'
      BY Zenon, <2>1, <3>1, <1>DscView, <1>DscWaits, <1>TaskRests
    <3>3. OutputSound'
      BY ZenonT(40), <2>1, <3>1, <1>DscOutput
    <3>4. LeaseTypes' /\ LeaseSound'
      <4>1. PICK o \in Owner, g \in Nat : o = task["dsc"].owner /\ g = task["dsc"].gen
        BY Zenon DEF ServerInv, Types, TaskTypes, TaskKinds, TaskState
      <4>2. g # 0 /\ Issue(o, g)
        BY Zenon, <2>1, <2>4, <4>1 DEF ServerInv, TaskSound, OwningPC
      <4>3. \A y \in Sessions : SessionClears(y) => SessionClears(y)'
        BY Zenon, <2>1 DEF SessionClears
      <4>. QED BY Zenon, <2>1, <4>2, <4>3, IssueIs
    <3>. QED BY <2>1, <2>2, <3>1, <3>2, <3>3, <3>4, TaskKeepsCalls
  <2>5. CASE DscCompletes /\ Settle("dsc", "completed")
    <3>1. task["dsc"].pc = "complete" /\ UNCHANGED <<idaVars, leaseVars, WithTask>>
      BY Zenon, <2>5 DEF DscCompletes, At
    <3>2. task'["dsc"].pc = "done" => OutputSound'
      BY Zenon, <2>1, <1>DscOutput
    <3>. QED BY Zenon, <2>1, <2>5, <3>1, <3>2, <1>DscEndsKeep
  <2>. QED BY Zenon, <2>3, <2>4, <2>5 DEF DscIssues, DscCompletes

\* DscClears.
<1>DscClearsKeeps.
    ASSUME ServerInv, DscClears
    PROVE  ServerInv'
  <2> USE <1>DscClearsKeeps
  <2>1. /\ task["dsc"].pc = "clear" /\ task["dsc"].status = "running" /\ lease' = NoLease
        /\ UNCHANGED <<db, lastGen, queue, running, reply, setup, call, ops, main, lastToken, idat, file>>
    BY Zenon, <1>DscLeaves DEF DscClears, At, idaVars
  <2>2. PICK status \in {"cancelled", "failed"} : Settle("dsc", status)
    BY Zenon, <2>1, <1>DscUndoneIs DEF DscClears
  <2>3. db.gen # task["dsc"].gen
    BY Zenon, <2>1 DEF ServerInv, TaskSound
  <2>4. /\ TaskTypes' /\ TaskSound' /\ \A u \in TaskKinds \ {"dsc"} : task'[u] = task[u]
        /\ task'["dsc"].pc = "done"
    BY Zenon, <2>1, <2>2, <2>3, <1>DscSettles
  <2>5. IdaTypes' /\ Flights'
    BY Zenon, <2>1, <2>4, <1>DscView, <1>DscWaits, <1>TaskRests
  <2>6. OutputSound' /\ \A y \in Sessions : reply'[y] = reply[y]
    BY ZenonT(40), <2>1, <2>4, <1>DscOutput
  <2>7. LeaseTypes' /\ LeaseSound'
    BY <2>1, ClearedLease
  <2>. QED BY Zenon, <2>1, <2>4, <2>5, <2>6, <2>7, TaskKeepsCalls
<1>. QED
  BY Zenon, <1>IdatExitsKeeps, <1>DscStartsKeeps, <1>IdatGoneKeeps, <1>IdatSettlesKeeps, <1>DscAfterIdatKeeps,
     <1>DscOpenedKeeps, <1>DscLoadsKeeps, <1>DscLoadedKeeps, <1>DscLoadTimesOutKeeps, <1>DscIssuesKeeps,
     <1>DscSendsCloseKeeps, <1>DscCloseAnsweredKeeps, <1>DscClearsKeeps DEF DscTask

-----------------------------------------------------------------------------
(* Progress, cancellation, the shutdown and the streams.                   *)

\* A step outside the handlers in which the tasks stay where they are.
LEMMA MainKeeps ==
    ASSUME ServerInv, IdaTypes', Flights', MainTypes', OpsSound', TaskTypes', TasksAreWhere,
           UNCHANGED <<setup, db, lastGen, call, lease, lastToken, idat, file>>,
           main'.pc = "up" => main.pc = "up", \A y \in Callers \ {"main"} : reply'[y] = reply[y]
    PROVE  ServerInv'
<1>1. Steady
  BY DEF Steady, ServerInv, Types, IdaTypes
<1>2. CallTypes' /\ \A y \in Sessions : CallSound(y)'
  BY Zenon, <1>1, CallsStay DEF ServerInv, Types
<1>3. TaskSound'
  BY Zenon, <1>1, TasksStay DEF ServerInv, Types
<1>4. "dsc" \in TaskKinds /\ "dsc" \in Callers \ {"main"} /\ Sessions \subseteq Callers \ {"main"}
  BY Zenon, CallerNames DEF TaskKinds
<1>5. OutputSound'
  BY Zenon, <1>4, OutputStays DEF ServerInv, TasksAreWhere
<1>6. LeaseTypes' /\ LeaseSound'
  <2>1. \A y \in Sessions : SessionClears(y) => SessionClears(y)'
    BY Zenon, <1>4 DEF SessionClears
  <2>2. TaskClears => TaskClears'
    BY Zenon, <1>4 DEF TaskClears, TasksAreWhere
  <2>3. LeaseSound'
    BY ZenonT(40), <2>1, <2>2, LeaseStays DEF ServerInv
  <2>. QED BY ZenonT(40), <2>3 DEF ServerInv, Types, LeaseTypes
<1>7. \A y \in Sessions : Drained(y)'
  BY Zenon, <1>4 DEF Drained, ServerInv
<1>8. setup' \in Setups
  BY ZenonT(40) DEF ServerInv, Types
<1>. QED BY Zenon, <1>2, <1>3, <1>5, <1>6, <1>7, <1>8 DEF ServerInv, Types

\* A step that leaves the thread, the callers and the tasks alone.
LEMMA AsideKeeps ==
    ASSUME ServerInv, OpsSound',
           UNCHANGED <<setup, db, lastGen, queue, running, reply, call, lease, lastToken, task, idat, file, main>>
    PROVE  ServerInv'
<1>1. MainTypes' /\ TaskTypes' /\ TasksAreWhere
  BY Zenon DEF ServerInv, Types, MainTypes, TaskTypes, TasksAreWhere
<1>2. \A y \in Callers : Stays(y)
  BY Zenon, CallersStay DEF SameCallers
<1>3. IdaTypes' /\ Flights'
  BY Zenon, <1>2, Rests DEF ServerInv, Types
<1>. QED BY Zenon, <1>1, <1>3, MainKeeps

\* Progress, RecordProgress and Wedge.
LEMMA ProgressKeeps ==
    ASSUME ServerInv, \/ Progress \/ Wedge \/ \E s \in Sessions : RecordProgress(s)
    PROVE  ServerInv'
<1>1. UNCHANGED <<setup, db, lastGen, queue, running, reply, call, lease, lastToken, task, idat, file, main>>
  <2>1. CASE Progress
    BY Zenon, <2>1 DEF Progress, fixed, idaVars, leaseVars, taskVars
  <2>2. CASE Wedge
    BY Zenon, <2>2 DEF Wedge, idaVars, leaseVars, taskVars, callVars
  <2>3. CASE \E s \in Sessions : RecordProgress(s)
    BY ZenonT(40), <2>3 DEF RecordProgress, fixed, idaVars, leaseVars, taskVars
  <2>. QED BY Zenon, <2>1, <2>2, <2>3
<1>2. ops = [current |-> ops.current, active |-> ops.active, progress |-> ops.progress] /\ ActiveOperationRuns
  BY Zenon DEF ServerInv, OpsSound
<1>3. PICK a, p : ops' = [current |-> ops.current, active |-> a, progress |-> p] /\ a \in ops.current \cup {ops.active}
  <2>1. CASE Progress
    <3>1. ops' = [ops EXCEPT !.progress = ops.progress \cup {running.from}]
      BY Zenon, <2>1 DEF Progress
    <3>2. ops' = [current |-> ops.current, active |-> ops.active, progress |-> ops.progress \cup {running.from}]
      BY <1>2, <3>1
    <3>. QED BY Zenon, <3>2
  <2>2. CASE Wedge
    <3>1. UNCHANGED ops
      BY Zenon, <2>2 DEF Wedge, callVars
    <3>. QED BY Zenon, <1>2, <3>1
  <2>3. CASE \E s \in Sessions : RecordProgress(s)
    <3>1. PICK s \in Sessions : RecordProgress(s)
      BY Zenon, <2>3
    <3>2. PICK a : a = (IF s \in ops.current THEN s ELSE ops.active)
      BY Zenon
    <3>3. ops' = [ops EXCEPT !.progress = ops.progress \ {s}, !.active = a]
      BY Zenon, <3>1, <3>2 DEF RecordProgress
    <3>4. ops' = [current |-> ops.current, active |-> a, progress |-> ops.progress \ {s}]
      BY ZenonT(40), <1>2, <3>3
    <3>. QED BY Zenon, <3>2, <3>4
  <2>. QED BY Zenon, <2>1, <2>2, <2>3
<1>4. ops'.current = ops.current /\ ops'.active = a /\ ops'.progress = p
  BY Zenon, <1>3
<1>5. OpsSound'
  BY Zenon, <1>1, <1>2, <1>3, <1>4 DEF OpsSound, ActiveOperationRuns
<1>. QED BY Zenon, <1>1, <1>5, AsideKeeps

\* CancelTasks: the tasks and their requests are marked.
LEMMA CancelTasksIs ==
    ASSUME ServerInv, NEW T \in SUBSET TaskKinds, CancelTasks(T), UNCHANGED <<call, setup, lease, lastToken, ops>>,
           MainTypes', main' = main \/ (main.pc = "up" /\ main'.pc # "up")
    PROVE  ServerInv'
<1>1. /\ queue' = [i \in DOMAIN queue |-> IF queue[i].from \in T THEN Cancelled(queue[i]) ELSE queue[i]]
      /\ running' = IF running.from \in T THEN Cancelled(running) ELSE running
      /\ UNCHANGED <<db, lastGen, reply, idat, file>>
  BY Zenon DEF CancelTasks
<1>2. TaskTypes' /\ TasksAreWhere
  <2>1. ASSUME NEW t \in TaskKinds
        PROVE  /\ task'[t] \in TaskState /\ task'[t].pc = task[t].pc /\ task'[t].gen = task[t].gen
               /\ task'[t].status = task[t].status /\ task'[t].why = task[t].why
    <3>1. task[t] \in TaskState
      BY Zenon DEF ServerInv, Types, TaskTypes
    <3>2. task'[t] = task[t] \/ task'[t] = [task[t] EXCEPT !.cancelled = TRUE]
      BY Zenon DEF CancelTasks
    <3>. QED BY ZenonT(40), <3>1, <3>2 DEF TaskState
  <2>2. DOMAIN task' = TaskKinds /\ task' = [t \in TaskKinds |-> task'[t]]
    BY Zenon DEF CancelTasks
  <2>. QED BY Zenon, <2>1, <2>2 DEF TaskTypes, TasksAreWhere
<1>3. \A y \in Callers : Stays(y)
  <2>1. \A y \in Callers \ {"main"} : Stays(y)
    BY Zenon, <1>2, SameView, CallerNames DEF TasksAreWhere
  <2>2. Stays("main")
    <3>1. View("main").pc = main.pc /\ View("main") = [pc |-> main.pc, kind |-> "", gen |-> 0]
          /\ View("main")' = [pc |-> main'.pc, kind |-> "", gen |-> 0]
      BY Zenon, CallerNames DEF View, TaskKinds
    <3>2. main.pc = "up" => ~ Waits("main", View("main"))
      BY ZenonT(40), <3>1, CallerNames DEF Waits
    <3>. QED BY Zenon, <3>1, <3>2 DEF Stays
  <2>. QED BY Zenon, <2>1, <2>2
<1>4. T \subseteq Callers
  BY Zenon DEF Callers
<1>5. main'.pc = "up" => main.pc = "up"
  BY Zenon
<1>6. IdaTypes' /\ Flights'
  BY ZenonT(40), <1>1, <1>3, <1>4, <1>5, Cancels DEF ServerInv, Types
<1>7. OpsSound'
  BY Zenon, OpsStay DEF ServerInv
<1>. QED BY Zenon, <1>1, <1>2, <1>5, <1>6, <1>7, MainKeeps

\* CancelTask, SessionEnds and Signal.
LEMMA CancelsKeep ==
    ASSUME ServerInv, \/ \E t \in TaskKinds : CancelTask(t)
                      \/ \E s \in Sessions : SessionEnds(s)
    PROVE  ServerInv'
<1>1. PICK T \in SUBSET TaskKinds : CancelTasks(T)
  BY ZenonT(40) DEF CancelTask, SessionEnds
<1>2. UNCHANGED <<call, setup, lease, lastToken, ops, main>>
  BY Zenon DEF CancelTask, SessionEnds, WithTask, fixed, leaseVars, callVars
<1>3. MainTypes'
  BY Zenon, <1>2 DEF ServerInv, Types, MainTypes
<1>. QED BY Zenon, <1>1, <1>2, <1>3, CancelTasksIs

\* main is a record of its program counter and whether it gave up waiting.
LEMMA MainMoves ==
    ASSUME ServerInv, NEW pc \in MainPC, MainGoto(pc)
    PROVE  MainTypes' /\ main'.pc = pc
BY Zenon DEF MainGoto, ServerInv, Types, MainTypes

\* Signal: the tasks are cancelled and the main thread goes on to close.
LEMMA SignalKeeps ==
    ASSUME ServerInv, Signal
    PROVE  ServerInv'
<1>1. /\ main.pc = "up" /\ MainTypes' /\ main'.pc = "close"
      /\ UNCHANGED <<call, setup, lease, lastToken, ops>>
  BY ZenonT(40), MainMoves DEF Signal, WithMain, fixed, leaseVars, callVars, MainPC
<1>2. CASE CancelTasks(TaskKinds)
  BY Zenon, <1>1, <1>2, CancelTasksIs
<1>3. CASE UNCHANGED <<idaVars, taskVars>>
  <2>1. UNCHANGED <<db, lastGen, queue, running, reply, task, idat, file>>
    BY Zenon, <1>3 DEF idaVars, taskVars
  <2>2. TaskTypes' /\ TasksAreWhere /\ OpsSound'
    BY Zenon, <1>1, <2>1, OpsStay DEF ServerInv, Types, TaskTypes, TasksAreWhere
  <2>3. \A y \in Callers \ {"main"} : Stays(y)
    BY ZenonT(40), <1>1, <2>1, SameView
  <2>4. Stays("main")
    BY Zenon, <1>1, CallerNames DEF Stays, Waits, View, TaskKinds
  <2>5. IdaTypes' /\ Flights'
    BY Zenon, <1>1, <2>1, <2>3, <2>4, Rests DEF ServerInv, Types
  <2>. QED BY Zenon, <1>1, <2>1, <2>2, <2>5, MainKeeps
<1>. QED BY Zenon, <1>2, <1>3 DEF Signal

\* MainSends, MainClosed, MainTimesOut and MainExits.
LEMMA MainStepKeeps ==
    ASSUME ServerInv, Main
    PROVE  ServerInv'
<1>1. /\ UNCHANGED <<call, setup, lease, lastToken, ops, task, idat, file, db, lastGen>>
      /\ main.pc # "up"
  BY ZenonT(40) DEF Main, MainSends, MainClosed, MainTimesOut, MainExits, taskVars, WithMain, fixed, leaseVars, callVars,
     TrySend, Taken, idaVars
<1>2. TaskTypes' /\ TasksAreWhere /\ OpsSound'
  BY Zenon, <1>1, OpsStay DEF ServerInv, Types, TaskTypes, TasksAreWhere
<1>3. \A y \in Callers \ {"main"} : Stays(y)
  BY ZenonT(40), <1>1, SameView
<1>4. /\ View("main").pc = main.pc /\ View("main")'.pc = main'.pc
      /\ "main" \in Callers /\ "main" \notin Sessions \cup TaskKinds
  BY Zenon, CallerNames DEF View, TaskKinds
<1>5. SUFFICES ASSUME main'.pc # "up"
               PROVE  MainTypes' /\ IdaTypes' /\ Flights' /\ \A y \in Callers \ {"main"} : reply'[y] = reply[y]
  <2>1. main'.pc # "up"
    <3>1. \/ main' = [pc |-> "shut", late |-> TRUE]
          \/ \E pc \in {"closing", "stopping", "exited", "shut"} : MainGoto(pc)
      BY ZenonT(40) DEF Main, MainSends, MainClosed, MainTimesOut, MainExits
    <3>. QED BY <3>1, MainMoves DEF MainPC
  <2>. QED BY Zenon, <1>1, <1>2, <1>5, <2>1, MainKeeps
<1>6. ASSUME NEW pc \in {"closing", "stopping", "exited"}, MainGoto(pc), NEW kind \in {"Close", "Shutdown"},
             main.pc \in {"close", "shut"}, kind = "Close" <=> pc = "closing",
             TrySend(Request("main", kind, "", 0))
      PROVE  MainTypes' /\ IdaTypes' /\ Flights' /\ \A y \in Callers \ {"main"} : reply'[y] = reply[y]
  <2>1. MainTypes' /\ main'.pc = pc
    BY Zenon, <1>6, MainMoves DEF MainPC
  <2>2. PICK r : r = Request("main", kind, "", 0)
    BY Zenon
  <2>3. r \in Sent /\ r.from = "main" /\ r.kind = kind /\ r.gen = 0 /\ TrySend(r)
    BY Zenon, <1>4, <1>6, <2>2 DEF Request, Sent, Path, RequestKind
  <2>4. ~ Waits("main", View("main")) /\ Asks("main", View("main")', r.kind, r.gen)
    BY ZenonT(40), <1>4, <1>6, <2>1, <2>3 DEF Waits, Asks
  <2>5. IdaTypes' /\ Flights'
    BY Zenon, <1>3, <1>4, <1>5, <2>3, <2>4, Sends DEF ServerInv, Types
  <2>6. \A y \in Callers \ {"main"} : reply'[y] = reply[y]
    BY Zenon, <2>3 DEF TrySend, ServerInv, Types, IdaTypes
  <2>. QED BY <2>1, <2>5, <2>6
<1>7. CASE MainSends
  BY ZenonT(40), <1>6, <1>7 DEF MainSends
<1>8. CASE MainClosed
  <2>1. MainTypes'
    BY Zenon, <1>8, MainMoves DEF MainPC, MainClosed
  <2>2. Answered("main") /\ Taken("main")
    BY Zenon, <1>8 DEF MainClosed
  <2>3. IdaTypes' /\ Flights'
    BY Zenon, <1>3, <1>4, <1>5, <2>2, Takes DEF ServerInv, Types
  <2>4. \A y \in Callers \ {"main"} : reply'[y] = reply[y]
    BY Zenon, <2>2 DEF Taken, ServerInv, Types, IdaTypes
  <2>. QED BY Zenon, <2>1, <2>3, <2>4
<1>9. CASE MainTimesOut
  <2>1. \A y \in Callers \ {"main"} : reply'[y] = reply[y]
    BY Zenon, <1>9 DEF MainTimesOut
  <2>2. CASE /\ main.pc \in {"close", "closing"} /\ ~ Answered("main")
             /\ main' = [pc |-> "shut", late |-> TRUE] /\ AbandonInFlight("main")
    <3>1. MainTypes'
      BY Zenon, <2>2 DEF MainTypes, MainPC
    <3>2. \A kind, gen : Asks("main", View("main"), kind, gen) => kind = "Close"
      BY Zenon, <1>4, <2>2 DEF Asks, TaskKinds
    <3>3. UNCHANGED <<db, lastGen, reply>>
      BY Zenon, <1>9 DEF MainTimesOut
    <3>4. IdaTypes' /\ Flights'
      BY Zenon, <1>3, <1>4, <1>5, <2>2, <3>2, <3>3, Drops DEF ServerInv, Types
    <3>. QED BY ZenonT(40), <2>1, <3>1, <3>4
  <2>3. CASE main.pc = "shut" /\ MainGoto("exited") /\ UNCHANGED <<queue, running>>
    <3>1. MainTypes'
      BY Zenon, <2>3, MainMoves DEF MainPC
    <3>2. Stays("main")
      BY Zenon, <1>4, <2>3 DEF Stays, Waits, TaskKinds
    <3>3. UNCHANGED <<db, lastGen, queue, running, reply>>
      BY Zenon, <1>9, <2>3 DEF MainTimesOut
    <3>4. IdaTypes' /\ Flights'
      BY Zenon, <1>3, <1>5, <3>2, <3>3, Rests DEF ServerInv, Types
    <3>. QED BY Zenon, <2>1, <3>1, <3>4
  <2>. QED BY Zenon, <1>9, <2>2, <2>3 DEF MainTimesOut
<1>10. CASE MainExits
  <2>1. MainTypes' /\ main'.pc = "exited" /\ main.pc = "stopping"
    BY Zenon, <1>10, MainMoves DEF MainPC, MainExits
  <2>2. Stays("main")
    BY Zenon, <1>4, <2>1 DEF Stays
  <2>3. UNCHANGED <<db, lastGen, queue, running, reply>>
    BY Zenon, <1>10 DEF MainExits, idaVars
  <2>4. IdaTypes' /\ Flights'
    BY Zenon, <1>3, <1>5, <2>2, <2>3, Rests DEF ServerInv, Types
  <2>. QED BY Zenon, <2>1, <2>3, <2>4
<1>. QED BY Zenon, <1>7, <1>8, <1>9, <1>10 DEF Main

-----------------------------------------------------------------------------
(* The server.                                                             *)

\* The server starts with nothing open and nobody waiting.
LEMMA ServerStarts ==
    ASSUME Init
    PROVE  ServerInv
<1>1. MainTypes /\ LeaseTypes /\ setup \in Setups
  BY Zenon, NoLeaseType DEF Init, MainTypes, MainPC, LeaseTypes
<1>2. TaskTypes /\ TaskSound /\ task["dsc"].pc = "none"
  <2>1. NoTask \in TaskState /\ NoTask.pc = "none" /\ NoTask.status = "none" /\ NoTask.gen = 0
    BY Zenon DEF NoTask, TaskState, TaskPC, Owner, NoOne
  <2>2. TaskTypes /\ \A t \in TaskKinds : task[t] = NoTask
    BY Zenon, <2>1 DEF Init, TaskTypes
  <2>3. task["dsc"] = NoTask /\ task["analyze"] = NoTask /\ lastGen = 0
    BY ZenonT(40), <2>2 DEF TaskKinds, Init
  <2>4. \A t \in TaskKinds : task[t].status = "running" <=> task[t].pc \notin {"none", "done"}
    BY Zenon, <2>1, <2>2
  <2>5. /\ task["dsc"].pc = "none" /\ task["dsc"].status = "none" /\ task["dsc"].gen = 0
        /\ task["analyze"].pc = "none"
    BY Zenon, <2>1, <2>3
  <2>. QED BY <2>2, <2>3, <2>4, <2>5 DEF TaskSound, DscPC, OwningPC, UnsuccessfulDscLeavesNothingOpen
<1>3. CallTypes /\ \A s \in Sessions : CallSound(s) /\ Drained(s) /\ call[s].pc = "idle"
  <2>1. IdleCall \in CallState /\ IdleCall.pc = "idle"
    BY ZenonT(40), IdleType DEF IdleCall
  <2>2. CallTypes /\ \A s \in Sessions : call[s].pc = "idle"
    BY Zenon, <2>1 DEF Init, CallTypes
  <2>. QED BY Zenon, <2>2 DEF CallSound, Drained, ForegroundPC, DirectPC
<1>4. IdaTypes
  <2>1. NoReply \in Reply /\ NoDb \in [gen : Nat, path : Path] /\ NoDb.gen = 0
    BY Zenon DEF NoReply, Reply, NoDb, Path
  <2>. QED BY <2>1 DEF Init, IdaTypes
<1>5. Flights
  <2>1. \A x \in Callers \cup {Gone} : Flying(x) = {}
    <3>1. Place = {0} /\ InPlace(0).from = NoOne
      <4>1. Len(queue) = 0 /\ running.from = NoOne
        BY Zenon DEF Init, Idle
      <4>. QED BY <4>1 DEF Place, InPlace
    <3>2. \A x \in Callers \cup {Gone} : x # NoOne
      BY Zenon, CallerNames DEF Gone, NoOne
    <3>. QED BY Zenon, <3>1, <3>2 DEF Flying
  <2>2. \A x \in Callers : reply[x] = NoReply
    BY Zenon DEF Init
  <2>. QED BY Zenon, <2>1, <2>2 DEF Flights, FlightSound, AbandonedSound
<1>6. LeaseSound
  <2>1. lease = NoLease /\ lease.live = FALSE
    BY Zenon DEF Init, NoLease
  <2>. QED BY Zenon, <2>1 DEF LeaseSound, LeaseHasDatabase
<1>7. OutputSound
  BY Zenon, <1>2 DEF Init, OutputSound, PartialIsBeingWritten
<1>8. OpsSound
  <2>1. ops = [current |-> {}, active |-> NoOne, progress |-> {}]
    BY ZenonT(40) DEF Init
  <2>2. ops.current = {} /\ ops.active = NoOne /\ ops.progress = {}
    BY <2>1
  <2>3. {s \in Sessions : call[s].pc \in {"fg", "late", "drain"}} = {}
    BY <1>3
  <2>. QED BY Zenon, <2>1, <2>2, <2>3 DEF OpsSound, ActiveOperationRuns
<1>. QED BY Zenon, <1>1, <1>2, <1>3, <1>4, <1>5, <1>6, <1>7, <1>8 DEF ServerInv, Types

\* Every step keeps the invariant: the IDA thread, the handlers, the tasks, the
\* thread that shuts down, and the streams of a pooled session, which share
\* nothing with the rest but whether the session is closed.
LEMMA ServerSteps ==
    ASSUME ServerInv, [Next]_vars
    PROVE  ServerInv'
<1>1. CASE IdaThread
  BY Zenon, <1>1, IdaThreadKeeps
<1>2. CASE \/ Progress \/ Wedge \/ \E s \in Sessions : RecordProgress(s)
  BY Zenon, <1>2, ProgressKeeps
<1>3. CASE \E s \in Sessions : Calls(s) \/ Continue(s)
  BY Zenon, <1>3, CallsKeep, ContinueKeeps
<1>4. CASE \/ \E s \in Sessions : SessionEnds(s)
           \/ \E t \in TaskKinds : CancelTask(t)
  BY Zenon, <1>4, CancelsKeep
<1>5. CASE AnalyzeTask \/ DscTask \/ IdatExits \/ IdatWaitFails
  BY Zenon, <1>5, AnalyzeTaskKeeps, DscTaskKeeps
<1>6. CASE Signal \/ Main
  BY Zenon, <1>6, SignalKeeps, MainStepKeeps
<1>7. CASE UNCHANGED serverVars
  <2>1. UNCHANGED <<setup, db, lastGen, queue, running, reply, call, lease, lastToken, task, idat, file, main, ops>>
    BY Zenon, <1>7 DEF serverVars, idaVars, leaseVars, callVars, taskVars
  <2>2. OpsSound'
    BY Zenon, <2>1, OpsStay DEF ServerInv
  <2>. QED BY Zenon, <2>1, <2>2, AsideKeeps
<1>8. CASE UNCHANGED vars
  BY Zenon, <1>7, <1>8 DEF vars
<1>. QED BY Zenon, <1>1, <1>2, <1>3, <1>4, <1>5, <1>6, <1>7, <1>8 DEF Next

\* The server's invariant: every caller waits for at most one request, which is
\* the one its program counter says; the close token, the background tasks, the
\* operations and the output of idat agree with what the handlers do.
THEOREM ServerInvariant == Spec => []ServerInv
BY ServerStarts, ServerSteps, PTL DEF Spec

\* The operations reported as current are exactly the foreground handlers that
\* run (OperationRegistry, run_foreground_operation).
THEOREM OperationsRun == Spec => []ActiveOperationRuns
<1>1. ServerInv => ActiveOperationRuns
  BY Zenon DEF ServerInv, OpsSound
<1>. QED BY <1>1, ServerInvariant, PTL

\* A token issued for an open database does not outlive it (CloseTokenState).
THEOREM TokensHaveDatabases == Spec => []LeaseHasDatabase
<1>1. ServerInv => LeaseHasDatabase
  BY Zenon DEF ServerInv, LeaseSound
<1>. QED BY <1>1, ServerInvariant, PTL

\* A background open_dsc that ends cancelled or failed left no database of its
\* own open (run_dsc_background, close_if_generation).
THEOREM UnsuccessfulDscCleansUp == Spec => []UnsuccessfulDscLeavesNothingOpen
<1>1. ServerInv => UnsuccessfulDscLeavesNothingOpen
  BY ZenonT(40) DEF ServerInv, TaskSound
<1>. QED BY <1>1, ServerInvariant, PTL

\* A partial .i64 has a task that still watches idat, but for the one early
\* return (run_dsc_background, stop_idat).
THEOREM PartialOutputIsWatched == Spec => []PartialIsBeingWritten
<1>1. ServerInv => PartialIsBeingWritten
  BY Zenon DEF ServerInv, OutputSound
<1>. QED BY <1>1, ServerInvariant, PTL

\* A request in flight is in its caller's place.
LEMMA InFlightAsks ==
    ASSUME ServerInv, NEW s \in Sessions, NEW r \in InFlightOf(s)
    PROVE  SessionAsks([pc |-> call[s].pc, kind |-> call[s].kind, gen |-> call[s].gen], r.kind)
<1>1. PICK i \in Place : r = InPlace(i) /\ r.from = s
  <2>1. r.from = s /\ (r = running \/ \E i \in DOMAIN queue : r = queue[i])
    BY Zenon DEF InFlightOf
  <2>2. DOMAIN queue = 1 .. Len(queue) /\ Len(queue) \in Nat
    BY DEF ServerInv, Types, IdaTypes
  <2>. QED BY <2>1, <2>2 DEF Place, InPlace
<1>2. i \in Flying(s)
  BY Zenon, <1>1 DEF Flying
<1>3. s \in Callers /\ s \notin TaskKinds /\ s # "main"
  BY Zenon, CallerNames DEF TaskKinds
<1>4. Asks(s, View(s), r.kind, r.gen)
  BY Zenon, <1>1, <1>2, <1>3 DEF ServerInv, Flights, FlightSound
<1>5. View(s) = [pc |-> call[s].pc, kind |-> call[s].kind, gen |-> call[s].gen]
  BY Zenon DEF View
<1>. QED BY ZenonT(40), <1>3, <1>4, <1>5 DEF Asks, TaskKinds

\* A tool's request reaches the IDA thread as the tool asked for it.
THEOREM RequestsAreWhatWasAsked == Spec => []RequestIsWhatWasAsked
<1>1. ServerInv => RequestIsWhatWasAsked
  <2>. SUFFICES ASSUME ServerInv, NEW s \in Sessions, call[s].pc = "item", NEW r \in InFlightOf(s)
                PROVE  r.kind = call[s].kind
    BY Zenon DEF RequestIsWhatWasAsked
  <2>. QED BY ZenonT(40), InFlightAsks DEF SessionAsks, ForegroundPC
<1>. QED BY <1>1, ServerInvariant, PTL

\* What the filter of --read-only leaves.
LEMMA ReadOnlyFilter ==
    ASSUME setup.filter.readOnly
    PROVE  Enabled \cap ReadOnlyDenyList = {}
BY Zenon DEF Enabled, FromInputs

\* Opening and closing are no requests that change a database's contents.
LEMMA OpeningIsNoWrite == {"Open", "Close"} \cap WriteKinds = {}
BY DEF WriteKinds, Arms, ArmsDatabase, ArmsListing, ArmsTypes, ArmsStack, ArmsStructs, ArmsImports,
       ArmsEdits, ArmsGraphs, ArmsAnalyze, ArmsSearch, ArmsPaths, ArmsScript

\* Under --read-only no handler's request changes the database: the filter takes
\* away every tool whose requests would, whatever --tools lists (FromInputs).
THEOREM ReadOnlyServerNeverWrites == Spec => []ReadOnlyNeverWrites
<1>1. ServerInv => ReadOnlyNeverWrites
  <2>. SUFFICES ASSUME ServerInv, setup.filter.readOnly, NEW s \in Sessions, NEW r \in InFlightOf(s),
                       r.kind \in WriteKinds, call[s].tool # "open_dsc"
                PROVE  r.kind = "LoadDebugInfo"
    BY Zenon DEF ReadOnlyNeverWrites
  <2>1. SessionAsks([pc |-> call[s].pc, kind |-> call[s].kind, gen |-> call[s].gen], r.kind)
    BY ZenonT(40), InFlightAsks
  <2>2. CallSound(s) /\ r.kind \notin {"Open", "Close"}
    BY Zenon, OpeningIsNoWrite DEF ServerInv
  <2>3. call[s].pc \in ForegroundPC \cup {"item"} /\ r.kind = call[s].kind
    BY ZenonT(40), <2>1, <2>2 DEF SessionAsks, CallSound, DirectPC
  <2>4. call[s].tool \notin ReadOnlyDenyList
    <3>1. call[s].tool \in Enabled
      BY Zenon, <2>2, <2>3 DEF CallSound, ForegroundPC
    <3>. QED BY <3>1, ReadOnlyFilter
  <2>5. CASE call[s].pc \in ForegroundPC
    <3>1. <<call[s].tool, call[s].kind>> \in ForegroundCalls
      BY Zenon, <2>2, <2>5 DEF CallSound
    <3>2. call[s].tool = "open_idb" /\ call[s].kind = "Open"
      BY Zenon, <2>4, <3>1 DEF ForegroundCalls, ReadOnlyDenyList
    <3>. QED BY Zenon, <2>2, <2>3, <3>2
  <2>6. CASE call[s].pc = "item"
    <3>1. call[s].tool \in DOMAIN Tools \ StepwiseTools /\ call[s].kind \in KindsOf(call[s].tool)
      BY Zenon, <2>2, <2>6 DEF CallSound
    <3>2. Tools[call[s].tool] \in PlainRows /\ Tools[call[s].tool].tool = call[s].tool
      BY Zenon, <3>1, PlainTool
    <3>. QED BY Zenon, <2>3, <2>4, <3>1, <3>2, ReadOnlyRows DEF KindsOf
  <2>. QED BY <2>3, <2>5, <2>6
<1>. QED BY <1>1, ServerInvariant, PTL

\* A session's close closes a database under another session's token only with a
\* right to, or because the token came after it was authorised (close_idb).
THEOREM OwnedClosesNeedRights == Spec => OwnedCloseNeedsRight
<1>1. ServerInv /\ [Next]_vars =>
        [ running.kind = "Close" /\ running.from \in Sessions /\ db.gen # 0 /\ db'.gen = 0
          /\ lease # NoLease
              => \/ call[running.from].right # ""
                 \/ call[running.from].seen # lease ]_vars
  <2>. SUFFICES ASSUME ServerInv, running.kind = "Close", running.from \in Sessions, lease # NoLease
                PROVE  call[running.from].right # "" \/ call[running.from].seen # lease
    BY Zenon
  <2>1. PICK s \in Sessions : s = running.from
    BY Zenon
  <2>2. running \in InFlightOf(s)
    BY Zenon, <2>1 DEF InFlightOf
  <2>3. SessionAsks([pc |-> call[s].pc, kind |-> call[s].kind, gen |-> call[s].gen], "Close")
    BY Zenon, <2>2, InFlightAsks
  <2>4. call[s].kind # "Close"
    <3>1. call[s].kind \in BackendKinds \cup {"", "Open"}
      BY Zenon DEF ServerInv, Types, CallTypes, CallState, CallKind
    <3>. QED BY Zenon, <3>1, StepwiseKinds
  <2>5. call[s].pc = "closing"
    BY Zenon, <2>3, <2>4 DEF SessionAsks
  <2>. QED BY Zenon, <2>1, <2>5 DEF ServerInv, CallSound
<1>. QED BY <1>1, ServerInvariant, PTL DEF Spec, OwnedCloseNeedsRight

\* The server takes the steps of the pooled session's streams and no others.
LEMMA ServerStreams ==
    ASSUME [Next]_vars
    PROVE  [StreamsNext]_streamVars
<1>1. ASSUME IdaThread \/ Progress \/ Wedge PROVE UNCHANGED streamVars
  BY Zenon, <1>1 DEF IdaThread, TakeRequest, FinishRequest, LoopEnds, CallKillsChild, Progress, Wedge
<1>2. ASSUME NEW s \in Sessions, Calls(s) PROVE UNCHANGED streamVars
  BY Zenon, <1>2 DEF Calls, OpenIdb, AnalyzeFuncs, RunScript, StartForeground, CloseIdb, CallTool, OpenDscDirect,
     OpenDscBackground, AnalyzeInBackground, WithCall
<1>3. ASSUME NEW s \in Sessions, Continue(s) PROVE UNCHANGED streamVars
  BY Zenon, <1>3 DEF Continue, ForegroundAnswered, ForegroundGivesUp, ForegroundSettles, ForegroundSettlesAnswered,
     ForegroundEnds, SendClose, CloseAnswered, ClearToken, ItemAnswered, SendItem, ItemTimesOut,
     DirectAnswered, DirectSends, DirectTimesOut, DirectIssues, WithCall
<1>4. ASSUME NEW s \in Sessions, RecordProgress(s) \/ SessionEnds(s) PROVE UNCHANGED streamVars
  BY Zenon, <1>4 DEF RecordProgress, SessionEnds
<1>5. ASSUME AnalyzeTask \/ IdatExits \/ IdatWaitFails \/ (\E t \in TaskKinds : CancelTask(t))
      PROVE  UNCHANGED streamVars
  BY Zenon, <1>5 DEF AnalyzeTask, AnalyzeStarts, AnalyzeSettles, IdatExits, IdatWaitFails, CancelTask, WithTask
<1>6. ASSUME DscTask PROVE UNCHANGED streamVars
  BY Zenon, <1>6 DEF DscTask, DscStarts, IdatKilled, IdatSettles, DscAfterIdat, DscOpened, DscLoads, DscLoaded,
     DscLoadTimesOut, DscStatus, DscIssues, DscCompletes, DscSendsClose, DscCloseAnswered, DscClears, WithTask
<1>7. ASSUME Signal \/ Main PROVE UNCHANGED streamVars
  BY Zenon, <1>7 DEF Signal, Main, MainSends, MainClosed, MainTimesOut, MainExits, WithMain
<1>8. ASSUME UNCHANGED vars PROVE UNCHANGED streamVars
  BY Zenon, <1>8 DEF vars
<1>. QED BY Zenon, <1>1, <1>2, <1>3, <1>4, <1>5, <1>6, <1>7, <1>8 DEF Next

\* A cleanup task never closes a session whose client came back after the stream
\* the task watches was dropped, in the server as a whole.
THEOREM ServerKeepsReconnected == Spec => ReconnectKeepsSession
<1>1. Init => StreamsInit
  BY Zenon DEF Init
<1>2. [Next]_vars => [StreamsNext]_streamVars
  BY ServerStreams
<1>3. Spec => StreamsSpec
  BY <1>1, <1>2, PTL DEF Spec, StreamsSpec
<1>. QED BY <1>3, ReconnectsKeepSessions, PTL
=============================================================================
