---------------------------- MODULE SessionStreams ----------------------------
(***************************************************************************)
(* PooledSessionManager (src/src/server/http_config.rs): the streams of    *)
(* one pooled HTTP session, the registry that counts them and the cleanup  *)
(* tasks that close a session whose client dropped its standalone stream.  *)
(* Sessions share nothing here, so one is modelled.  The session itself is *)
(* rmcp's LocalSessionManager (external): it is open until closed by an    *)
(* HTTP DELETE, by a cleanup task or by its own keep-alive, and ends the   *)
(* streams that are left.                                                  *)
(***************************************************************************)
EXTENDS Naturals, FiniteSets

CONSTANT MaxStreams    \* the client opens at most this many streams, in order

Streams == 1..MaxStreams

VARIABLES
    session,   \* "open" | "closed": the inner manager's session
    entry,     \* SessionDisconnectState of the session, or NoEntry
    stream,    \* per stream: its state, close_on_drop, and its guard's generation
    closer,    \* the cleanup tasks: [gen, since, pc]
    deleting   \* "no" | "forget": an HTTP DELETE between its two steps
streamVars == <<session, entry, stream, closer, deleting>>

NoGen == 0
NoEntry == [known |-> FALSE, gen |-> 0, active |-> 0, abandoned |-> NoGen]
FreeStream == [st |-> "free", standalone |-> FALSE, gen |-> 0]

StreamsInit ==
    /\ session = "open"
    /\ entry = NoEntry
    /\ stream = [x \in Streams |-> FreeStream]
    /\ closer = {}
    /\ deleting = "no"

\* The inner manager creates the stream: the response of a POST, a standalone
\* stream, or the resumption of either.
CreateStream(x) ==
    /\ stream[x].st = "free" /\ session = "open"
    /\ x > 1 => stream[x - 1].st # "free"
    /\ \E standalone \in BOOLEAN :
           stream' = [stream EXCEPT ![x] = [st |-> "created", standalone |-> standalone,
                                            gen |-> 0]]
    /\ UNCHANGED <<session, entry, closer, deleting>>

\* Mutant: a new stream leaves the mark of an earlier abandonment.
StreamOpenedKeepsMark(x) ==
    /\ stream[x].st = "created"
    /\ entry' = [entry EXCEPT !.known = TRUE, !.gen = @ + 1, !.active = @ + 1]
    /\ stream' = [stream EXCEPT ![x].st = "open", ![x].gen = entry'.gen]
    /\ UNCHANGED <<session, closer, deleting>>
StreamOpened(x) ==
    /\ stream[x].st = "created"
    /\ entry' = [known |-> TRUE, gen |-> entry.gen + 1, active |-> entry.active + 1,
                 abandoned |-> NoGen]
    /\ stream' = [stream EXCEPT ![x].st = "open", ![x].gen = entry'.gen]
    /\ UNCHANGED <<session, closer, deleting>>

\* Mutant: the cleanup task watches the stream that closed last, not the one
\* that was abandoned.
StreamClosedWatchesLast(gen, abandoned) ==
    IF ~entry.known THEN UNCHANGED <<entry, closer>>
    ELSE LET left == IF entry.active = 0 THEN 0 ELSE entry.active - 1
             mark == IF abandoned THEN gen ELSE entry.abandoned
         IN  /\ entry' = [entry EXCEPT !.active = left, !.abandoned = mark]
             /\ closer' = IF left = 0 /\ mark # NoGen
                          THEN closer \cup {[gen |-> gen, since |-> entry.gen, pc |-> "grace"]}
                          ELSE closer
\* stream_closed: the last stream of a session one of whose standalone streams
\* was dropped starts the cleanup task.
StreamClosed(gen, abandoned) ==
    IF ~entry.known THEN UNCHANGED <<entry, closer>>
    ELSE LET left == IF entry.active = 0 THEN 0 ELSE entry.active - 1
             mark == IF abandoned THEN gen ELSE entry.abandoned
         IN  /\ entry' = [entry EXCEPT !.active = left, !.abandoned = mark]
             /\ closer' = IF left = 0 /\ mark # NoGen
                          THEN closer \cup {[gen |-> mark, since |-> entry.gen, pc |-> "grace"]}
                          ELSE closer

\* poll_next returns None: a POST's answer is complete, or the session ended.
StreamEnds(x) ==
    /\ stream[x].st = "open"
    /\ ~stream[x].standalone \/ session = "closed"
    /\ StreamClosed(stream[x].gen, FALSE)
    /\ stream' = [stream EXCEPT ![x].st = "ended"]
    /\ UNCHANGED <<session, deleting>>

\* The client goes away, or the response is done with: Drop finishes a stream
\* that has not ended.
DropStream(x) ==
    /\ stream[x].st \in {"open", "ended"}
    /\ IF stream[x].st = "open" THEN StreamClosed(stream[x].gen, stream[x].standalone)
       ELSE UNCHANGED <<entry, closer>>
    /\ stream' = [stream EXCEPT ![x].st = "dropped"]
    /\ UNCHANGED <<session, deleting>>

\* The cleanup task after its grace period: should_close, the inner
\* close_session (which may fail, the session being gone), session_closed.
ShouldClose(c) == entry.known /\ entry.abandoned = c.gen /\ entry.active = 0
CloserDecides(c) ==
    /\ c.pc = "grace"
    /\ closer' = (closer \ {c}) \cup
                 (IF ShouldClose(c) THEN {[c EXCEPT !.pc = "close"]} ELSE {})
    /\ UNCHANGED <<session, entry, stream, deleting>>
CloserCloses(c) ==
    /\ c.pc = "close"
    /\ session' = "closed"
    /\ closer' = (closer \ {c}) \cup {[c EXCEPT !.pc = "forget"]}
    /\ UNCHANGED <<entry, stream, deleting>>
CloserForgets(c) ==
    /\ c.pc = "forget"
    /\ entry' = NoEntry
    /\ closer' = closer \ {c}
    /\ UNCHANGED <<session, stream, deleting>>
Closer(c) == CloserDecides(c) \/ CloserCloses(c) \/ CloserForgets(c)

\* close_session for an HTTP DELETE; the session may have gone in between.
DeleteSession ==
    \/ /\ deleting = "no" /\ session = "open"
       /\ session' = "closed" /\ deleting' = "forget"
       /\ UNCHANGED <<entry, stream, closer>>
    \/ /\ deleting = "forget"
       /\ entry' = NoEntry /\ deleting' = "no"
       /\ UNCHANGED <<session, stream, closer>>

\* rmcp closes a session that was silent for the keep-alive (external).  The
\* registry is not told.
KeepAliveExpires ==
    /\ session = "open"
    /\ session' = "closed"
    /\ UNCHANGED <<entry, stream, closer, deleting>>

StreamsNext ==
    \/ \E x \in Streams : CreateStream(x) \/ StreamOpened(x) \/ StreamEnds(x) \/ DropStream(x)
    \/ \E c \in closer : Closer(c)
    \/ DeleteSession \/ KeepAliveExpires

\* The streams of a session by themselves, apart from the server around them.
StreamsSpec == StreamsInit /\ [][StreamsNext]_streamVars

-----------------------------------------------------------------------------

\* A cleanup task decides to close a session only if no stream was opened since
\* the task was spawned: a client that reconnects within the grace period keeps
\* its session (should_close compares the abandoned generation).
ReconnectKeepsSession ==
    [][\A c \in closer :
           session = "open" /\ [c EXCEPT !.pc = "close"] \in closer' \ closer
               => entry.gen = c.since]_streamVars

\* A session whose standalone stream was dropped and that has no stream left is
\* closed, unless a new stream is opened first.
Abandoned == session = "open" /\ entry.known /\ entry.active = 0 /\ entry.abandoned # NoGen
AbandonedSessionCloses == Abandoned ~> ~Abandoned
=============================================================================
