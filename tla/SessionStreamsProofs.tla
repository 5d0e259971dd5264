------------------------- MODULE SessionStreamsProofs -------------------------
(***************************************************************************)
(* Proofs about SessionStreams, for any number of streams: a cleanup task  *)
(* never closes a session whose client came back.                          *)
(***************************************************************************)
EXTENDS SessionStreams, TLAPS

Entry == [known : BOOLEAN, gen : Nat, active : Nat, abandoned : Nat]
Stream == [st : {"free", "created", "open", "ended", "dropped"}, standalone : BOOLEAN, gen : Nat]
CloserPC == {"grace", "close", "forget"}
CloserTask == [gen : Nat, since : Nat, pc : CloserPC]

StreamTypes ==
    /\ entry \in Entry
    /\ stream \in [Streams -> Stream]
    /\ closer \subseteq CloserTask

\* The registry forgets a session only after the inner manager closed it.
ForgetsClosed ==
    session = "open" => deleting # "forget" /\ \A c \in closer : c.pc # "forget"

\* The generations of an open session: every stream got its own, and neither
\* the mark of an abandonment nor a cleanup task refers to a stream that is
\* still there.
OpenStreams == {x \in Streams : stream[x].st = "open"}
GenerationsSound ==
    /\ entry.abandoned <= entry.gen
    /\ \A x \in OpenStreams : stream[x].gen \in 1 .. entry.gen /\ stream[x].gen # entry.abandoned
    /\ \A x, y \in OpenStreams : stream[x].gen = stream[y].gen => x = y

\* A cleanup task whose abandonment still stands was spawned after the last
\* stream was opened.
CloserSound(c) ==
    /\ c.gen \in 1 .. entry.gen
    /\ \A x \in OpenStreams : stream[x].gen # c.gen
    /\ entry.abandoned = c.gen => entry.gen = c.since

\* The inductive invariant.
StreamInv ==
    /\ StreamTypes
    /\ ForgetsClosed
    /\ session = "open" => GenerationsSound /\ \A c \in closer : CloserSound(c)

-----------------------------------------------------------------------------

\* A new session has no streams and no cleanup tasks.
LEMMA StreamsStart == StreamsInit => StreamInv
BY DEF StreamsInit, StreamInv, StreamTypes, ForgetsClosed, GenerationsSound, OpenStreams,
       Entry, Stream, NoEntry, FreeStream, NoGen

\* stream_opened takes a new generation and revokes the mark.
LEMMA OpenedInv ==
    ASSUME StreamInv, NEW x \in Streams, StreamOpened(x)
    PROVE  StreamInv'
<1>1. /\ entry' = [known |-> TRUE, gen |-> entry.gen + 1, active |-> entry.active + 1,
                   abandoned |-> 0]
      /\ entry.gen \in Nat /\ entry.active \in Nat
  BY DEF StreamInv, StreamTypes, StreamOpened, Entry, NoGen
<1>2. /\ stream'[x].st = "open" /\ stream'[x].gen = entry.gen + 1
      /\ \A y \in Streams \ {x} : stream'[y] = stream[y]
      /\ stream' \in [Streams -> Stream]
  <2>1. stream \in [Streams -> Stream] /\ stream[x] \in Stream /\ entry'.gen = entry.gen + 1
    BY <1>1 DEF StreamInv, StreamTypes
  <2>2. PICK f : /\ f = [stream EXCEPT ![x] = [stream[x] EXCEPT !.st = "open"]]
                 /\ stream' = [f EXCEPT ![x] = [f[x] EXCEPT !.gen = entry'.gen]]
    BY DEF StreamOpened
  <2>3. f \in [Streams -> Stream] /\ f[x].st = "open" /\ \A y \in Streams \ {x} : f[y] = stream[y]
    BY <2>1, <2>2 DEF Stream
  <2>4. stream' = [f EXCEPT ![x] = [f[x] EXCEPT !.gen = entry.gen + 1]] /\ f[x] \in Stream
    BY <2>1, <2>2, <2>3
  <2>. QED BY <1>1, <2>3, <2>4 DEF Stream
<1>3. StreamTypes'
  BY <1>1, <1>2 DEF StreamInv, StreamTypes, StreamOpened, Entry
<1>4. ForgetsClosed'
  BY DEF StreamInv, ForgetsClosed, StreamOpened
<1>5. ASSUME session = "open" PROVE GenerationsSound'
  BY <1>1, <1>2, <1>5 DEF StreamInv, GenerationsSound, OpenStreams
<1>6. ASSUME session = "open", NEW c \in closer PROVE CloserSound(c)'
  <2>1. CloserSound(c)
    BY <1>6 DEF StreamInv
  <2>2. c.gen \in Nat
    BY <1>6 DEF StreamInv, StreamTypes, CloserTask
  <2>. QED BY <1>1, <1>2, <2>1, <2>2 DEF CloserSound, OpenStreams
<1>. QED BY <1>3, <1>4, <1>5, <1>6 DEF StreamInv, StreamOpened

\* stream_closed of the stream x: the mark moves at most to the generation of
\* x, which no cleanup task and no other stream has.
LEMMA ClosedInv ==
    ASSUME StreamInv, NEW x \in Streams, stream[x].st = "open",
           NEW abandoned \in BOOLEAN, StreamClosed(stream[x].gen, abandoned),
           NEW st \in {"ended", "dropped"}, stream' = [stream EXCEPT ![x].st = st],
           UNCHANGED <<session, deleting>>
    PROVE  StreamInv'
<1> DEFINE mark == IF abandoned THEN stream[x].gen ELSE entry.abandoned
           new == [gen |-> mark, since |-> entry.gen, pc |-> "grace"]
<1>1. /\ entry \in Entry /\ entry.gen \in Nat /\ mark \in Nat
      /\ stream[x].gen \in Nat /\ entry.abandoned \in Nat
  BY DEF StreamInv, StreamTypes, Entry, Stream
<1>2. /\ stream'[x].st # "open" /\ \A y \in Streams \ {x} : stream'[y] = stream[y]
      /\ stream' \in [Streams -> Stream]
  BY DEF StreamInv, StreamTypes, Stream
<1>3. CASE ~entry.known
  <2>1. UNCHANGED <<entry, closer>>
    BY <1>3 DEF StreamClosed
  <2>2. OpenStreams' = OpenStreams \ {x}
    BY <1>2 DEF OpenStreams
  <2>3. StreamTypes' /\ ForgetsClosed'
    BY <1>2, <2>1 DEF StreamInv, StreamTypes, ForgetsClosed
  <2>4. session = "open" => GenerationsSound' /\ \A c \in closer' : CloserSound(c)'
    BY <1>2, <2>1, <2>2 DEF StreamInv, GenerationsSound, CloserSound, OpenStreams
  <2>. QED BY <2>3, <2>4 DEF StreamInv
<1>4. CASE entry.known
  <2>1. /\ entry'.gen = entry.gen /\ entry'.abandoned = mark /\ entry' \in Entry
        /\ closer' = closer \/ (closer' = closer \cup {new} /\ mark # 0)
    <3>1. PICK left \in Nat :
            /\ entry' = [[entry EXCEPT !.active = left] EXCEPT !.abandoned = mark]
            /\ closer' = IF left = 0 /\ mark # NoGen THEN closer \cup {new} ELSE closer
      <4>1. (IF entry.active = 0 THEN 0 ELSE entry.active - 1) \in Nat
        BY <1>1 DEF Entry
      <4>. QED BY <1>4, <4>1 DEF StreamClosed
    <3>. QED BY <1>1, <3>1 DEF Entry, NoGen
  <2>2. OpenStreams' = OpenStreams \ {x}
    BY <1>2 DEF OpenStreams
  <2>3. new \in CloserTask
    BY <1>1 DEF CloserTask, CloserPC
  <2>4. StreamTypes' /\ ForgetsClosed'
    BY <1>2, <2>1, <2>3 DEF StreamInv, StreamTypes, ForgetsClosed
  <2>5. ASSUME session = "open"
        PROVE  /\ GenerationsSound' /\ mark <= entry.gen
               /\ \A y \in OpenStreams' : stream'[y].gen = stream[y].gen /\ stream[y].gen # mark
    BY <1>1, <1>2, <2>1, <2>2, <2>5 DEF StreamInv, GenerationsSound, OpenStreams
  <2>6. ASSUME session = "open", NEW c \in closer PROVE CloserSound(c)'
    <3>1. CloserSound(c) /\ stream[x].gen # c.gen
      BY <2>6 DEF StreamInv, CloserSound, OpenStreams
    <3>. QED BY <2>1, <2>2, <2>5, <2>6, <3>1 DEF CloserSound
  <2>7. ASSUME session = "open", mark # 0 PROVE CloserSound(new)'
    BY <1>1, <2>1, <2>5, <2>7 DEF CloserSound
  <2>. QED BY <2>1, <2>4, <2>5, <2>6, <2>7 DEF StreamInv
<1>. QED BY <1>3, <1>4

\* A cleanup task moves on; what it decides and does leaves the generations of
\* an open session alone.
LEMMA CloserInv ==
    ASSUME StreamInv, NEW c \in closer, Closer(c)
    PROVE  StreamInv'
<1>1. c \in CloserTask /\ c.pc \in CloserPC
  BY DEF StreamInv, StreamTypes, CloserTask
<1>2. CASE CloserDecides(c)
  <2> DEFINE next == [c EXCEPT !.pc = "close"]
  <2>1. /\ next \in CloserTask /\ next.gen = c.gen /\ next.since = c.since /\ next.pc = "close"
        /\ closer' \subseteq closer \cup {next}
        /\ UNCHANGED <<session, entry, stream, deleting>>
    BY <1>1, <1>2 DEF CloserDecides, CloserTask, CloserPC
  <2>2. StreamTypes' /\ ForgetsClosed'
    BY <2>1 DEF StreamInv, StreamTypes, ForgetsClosed
  <2>3. GenerationsSound' <=> GenerationsSound
    BY <2>1 DEF GenerationsSound, OpenStreams
  <2>4. ASSUME session = "open", NEW d \in closer' PROVE CloserSound(d)'
    <3>1. PICK e \in closer : d.gen = e.gen /\ d.since = e.since
      BY <2>1, <2>4
    <3>2. CloserSound(e)
      BY <2>4 DEF StreamInv
    <3>. QED BY <2>1, <3>1, <3>2 DEF CloserSound, OpenStreams
  <2>. QED BY <2>1, <2>2, <2>3, <2>4 DEF StreamInv
<1>3. CASE CloserCloses(c)
  <2>1. /\ [c EXCEPT !.pc = "forget"] \in CloserTask
        /\ closer' \subseteq closer \cup {[c EXCEPT !.pc = "forget"]}
        /\ session' # "open" /\ UNCHANGED <<entry, stream>>
    BY <1>1, <1>3 DEF CloserCloses, CloserTask, CloserPC
  <2>. QED BY <2>1 DEF StreamInv, StreamTypes, ForgetsClosed
<1>4. CASE CloserForgets(c)
  <2>1. session # "open" /\ session' = session /\ entry' \in Entry /\ closer' \subseteq closer
        /\ stream' = stream
    BY <1>4 DEF CloserForgets, StreamInv, ForgetsClosed, NoEntry, Entry, NoGen
  <2>. QED BY <2>1 DEF StreamInv, StreamTypes, ForgetsClosed
<1>. QED BY <1>2, <1>3, <1>4 DEF Closer

\* Every step of a stream, of a cleanup task and of a deletion keeps the invariant.
LEMMA StreamsStep == StreamInv /\ [StreamsNext]_streamVars => StreamInv'
<1>. SUFFICES ASSUME StreamInv, [StreamsNext]_streamVars PROVE StreamInv'
  OBVIOUS
<1>1. ASSUME NEW x \in Streams, CreateStream(x) PROVE StreamInv'
  <2>1. /\ stream' \in [Streams -> Stream] /\ OpenStreams' = OpenStreams
        /\ \A y \in OpenStreams : stream'[y] = stream[y]
        /\ UNCHANGED <<session, entry, closer, deleting>>
    BY <1>1 DEF CreateStream, OpenStreams, StreamInv, StreamTypes, Stream
  <2>2. StreamTypes' /\ ForgetsClosed'
    BY <2>1 DEF StreamInv, StreamTypes, ForgetsClosed
  <2>3. session = "open" => GenerationsSound' /\ \A c \in closer : CloserSound(c)'
    BY <2>1 DEF StreamInv, GenerationsSound, CloserSound
  <2>. QED BY <2>1, <2>2, <2>3 DEF StreamInv
<1>2. ASSUME NEW x \in Streams, StreamOpened(x) PROVE StreamInv'
  BY <1>2, OpenedInv
<1>3. ASSUME NEW x \in Streams, StreamEnds(x) PROVE StreamInv'
  BY <1>3, ClosedInv DEF StreamEnds
<1>4. ASSUME NEW x \in Streams, DropStream(x) PROVE StreamInv'
  <2>1. CASE stream[x].st = "open"
    <3>1. stream[x].standalone \in BOOLEAN
      BY DEF StreamInv, StreamTypes, Stream
    <3>. QED BY <1>4, <2>1, <3>1, ClosedInv DEF DropStream
  <2>2. CASE stream[x].st # "open"
    <3>1. /\ stream' \in [Streams -> Stream] /\ OpenStreams' = OpenStreams
          /\ \A y \in OpenStreams : stream'[y] = stream[y]
          /\ UNCHANGED <<session, entry, closer, deleting>>
      BY <1>4, <2>2 DEF DropStream, OpenStreams, StreamInv, StreamTypes, Stream
    <3>2. StreamTypes' /\ ForgetsClosed'
      BY <3>1 DEF StreamInv, StreamTypes, ForgetsClosed
    <3>3. session = "open" => GenerationsSound' /\ \A c \in closer : CloserSound(c)'
      BY <3>1 DEF StreamInv, GenerationsSound, CloserSound
    <3>. QED BY <3>1, <3>2, <3>3 DEF StreamInv
  <2>. QED BY <2>1, <2>2
<1>5. ASSUME NEW c \in closer, Closer(c) PROVE StreamInv'
  BY <1>5, CloserInv
<1>6. CASE DeleteSession
  <2>1. session' # "open" /\ entry' \in Entry /\ UNCHANGED <<stream, closer>>
    <3>1. NoEntry \in Entry
      BY DEF NoEntry, Entry, NoGen
    <3>. QED BY <1>6, <3>1 DEF DeleteSession, StreamInv, ForgetsClosed, StreamTypes
  <2>. QED BY <2>1 DEF StreamInv, StreamTypes, ForgetsClosed
<1>7. CASE KeepAliveExpires
  BY <1>7 DEF KeepAliveExpires, StreamInv, StreamTypes, ForgetsClosed
<1>8. CASE UNCHANGED streamVars
  <2>1. GenerationsSound' <=> GenerationsSound
    BY <1>8 DEF streamVars, GenerationsSound, OpenStreams
  <2>2. \A c \in closer : CloserSound(c)' <=> CloserSound(c)
    BY <1>8 DEF streamVars, CloserSound, OpenStreams
  <2>. QED BY <1>8, <2>1, <2>2 DEF streamVars, StreamInv, StreamTypes, ForgetsClosed
<1>. QED BY <1>1, <1>2, <1>3, <1>4, <1>5, <1>6, <1>7, <1>8 DEF StreamsNext

\* Every state of a session and its cleanup tasks satisfies the invariant.
THEOREM StreamInvariant == StreamsSpec => []StreamInv
BY StreamsStart, StreamsStep, PTL DEF StreamsSpec

\* A step in which a cleanup task decides to close finds its abandonment, and
\* so no stream was opened since the task was spawned.
LEMMA DecisionStep ==
    ASSUME StreamInv, [StreamsNext]_streamVars, NEW c \in closer, session = "open",
           [c EXCEPT !.pc = "close"] \in closer' \ closer
    PROVE  entry.gen = c.since
<1>1. c \in CloserTask
  BY DEF StreamInv, StreamTypes
<1> DEFINE next == [c EXCEPT !.pc = "close"]
<1>2. next.pc = "close" /\ next.gen = c.gen /\ next.since = c.since
  BY <1>1 DEF CloserTask
<1>3. PICK d \in closer : CloserDecides(d) /\ ShouldClose(d) /\ next = [d EXCEPT !.pc = "close"]
  <2>1. ~ UNCHANGED streamVars
    BY DEF streamVars
  <2>2. ~ \E x \in Streams : CreateStream(x) \/ StreamOpened(x)
    BY DEF CreateStream, StreamOpened
  <2>3. ASSUME NEW gen, NEW abandoned, StreamClosed(gen, abandoned) PROVE FALSE
    BY <1>2, <2>3 DEF StreamClosed
  <2>4. ~ \E x \in Streams : StreamEnds(x) \/ DropStream(x)
    BY <2>3 DEF StreamEnds, DropStream
  <2>5. ~ DeleteSession /\ ~ KeepAliveExpires
    BY DEF DeleteSession, KeepAliveExpires
  <2>6. PICK d \in closer : Closer(d)
    BY <2>1, <2>2, <2>4, <2>5 DEF StreamsNext
  <2>7. d \in CloserTask
    BY DEF StreamInv, StreamTypes
  <2>8. ~ CloserCloses(d) /\ ~ CloserForgets(d)
    BY <1>2, <2>7 DEF CloserCloses, CloserForgets, CloserTask
  <2>9. CloserDecides(d)
    BY <2>6, <2>8 DEF Closer
  <2>. QED BY <2>9 DEF CloserDecides
<1>4. d \in CloserTask
  BY DEF StreamInv, StreamTypes
<1>5. d.gen = c.gen /\ d.since = c.since
  BY <1>2, <1>3, <1>4 DEF CloserTask
<1>6. CloserSound(d)
  BY DEF StreamInv
<1>. QED BY <1>3, <1>5, <1>6 DEF ShouldClose, CloserSound

\* A cleanup task decides to close a session only if no stream was opened since
\* the task was spawned (should_close), for any number of streams and cleanup
\* tasks and whatever else closes the session.
THEOREM ReconnectsKeepSessions == StreamsSpec => ReconnectKeepsSession
<1>1. StreamInv /\ [StreamsNext]_streamVars =>
        [\A c \in closer :
            session = "open" /\ [c EXCEPT !.pc = "close"] \in closer' \ closer
                => entry.gen = c.since]_streamVars
  BY DecisionStep
<1>. QED BY <1>1, StreamInvariant, PTL DEF StreamsSpec, ReconnectKeepsSession
=============================================================================
