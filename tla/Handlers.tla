------------------------------ MODULE Handlers ------------------------------
(***************************************************************************)
(* Read-only algorithms behind the tools (src/src/ida/handlers/).  A       *)
(* behaviour is one request (or, for the paged listings, one client        *)
(* following next_offset); a step is one iteration of the handler's outer  *)
(* loop.  Each result is compared with a definition that says what it      *)
(* should be without saying how.                                           *)
(*                                                                         *)
(* The database is a constant of the behaviour: the handlers run on the    *)
(* IDA thread, which serves one request at a time (module IdaLoop).        *)
(***************************************************************************)
EXTENDS Integers, Sequences, FiniteSets, SequencesExt, FiniteSetsExt

CONSTANTS
    Bytes,        \* the byte values of a segment
    ChunkSize,    \* bytes of a segment searched per read (1 MiB)
    MaxLimit,     \* MAX_XREFS_LIMIT, the largest page (10000)
    Requests      \* the requests explored: [handler, ...arguments...]

ASSUME HandlersAssumption ==
    /\ ChunkSize \in Nat \ {0}
    /\ MaxLimit \in Nat \ {0}

VARIABLES
    req,    \* the request being served
    st      \* the local variables of its handler

vars == <<req, st>>

Smaller(a, b) == IF a <= b THEN a ELSE b
Larger(a, b) == IF a <= b THEN b ELSE a
Take(s, n) == SubSeq(s, 1, Smaller(n, Len(s)))

-----------------------------------------------------------------------------
(* find_bytes.  A segment is [start, bytes]; a pattern is a sequence of    *)
(* sets of bytes: a singleton for a hex byte, Bytes for "??".              *)

MatchesAt(bytes, pat, i) == \A j \in 1..Len(pat) : bytes[i + j] \in pat[j]

\* The 0-based positions of bytes where the pattern matches, ascending.
Scan(bytes, pat) ==
    SetToSortSeq({i \in 0..(Len(bytes) - Len(pat)) : MatchesAt(bytes, pat, i)}, <)

\* db.get_bytes: the whole range is mapped.
GetBytes(seg, offset, len) == SubSeq(seg.bytes, offset + 1, offset + len)

\* Mutant: chunks do not overlap.
ReadLenNoOverlap(remaining, pat) == Smaller(remaining, ChunkSize)

\* Consecutive chunks overlap by all but one byte of the pattern.
ReadLen(remaining, pat) == Smaller(remaining, ChunkSize + Len(pat) - 1)

FindBytesChunk ==
    /\ req.handler = "find_bytes" /\ ~st.done
    /\ LET seg == req.segments[st.seg]
           remaining == Len(seg.bytes) - st.offset
           bytes == GetBytes(seg, st.offset, ReadLen(remaining, req.pattern))
           found == Scan(bytes, req.pattern)
           matches == Take(st.matches \o [k \in DOMAIN found |-> seg.start + st.offset + found[k]],
                           req.max)
           segmentDone == Len(bytes) < Len(req.pattern) \/ remaining <= ChunkSize
           full == Len(matches) >= req.max
       IN  st' = IF ~segmentDone /\ ~full
                   THEN [st EXCEPT !.matches = matches, !.offset = @ + ChunkSize]
                   ELSE [st EXCEPT !.matches = matches, !.offset = 0, !.seg = @ + 1,
                                   !.done = full \/ st.seg = Len(req.segments)]
    /\ UNCHANGED req

-----------------------------------------------------------------------------
(* callgraph: breadth first from the root.  req.callees[f] lists the       *)
(* distinct callees of f in the order handle_callees finds them.           *)

\* Mutant: a callee already known is queued again, at its greater depth.
AddCalleeAgain(s, cur, callee) ==
    LET new == Cardinality(s.nodes) < Larger(1, req.maxNodes)
    IN  [s EXCEPT !.edges = Append(@, <<cur.addr, callee>>),
                  !.nodes = IF new THEN @ \cup {callee} ELSE @,
                  !.queue = IF new THEN Append(@, [addr |-> callee, depth |-> cur.depth + 1])
                                   ELSE @]

\* One callee of the function being expanded.
AddCallee(s, cur, callee) ==
    LET new == callee \notin s.nodes /\ Cardinality(s.nodes) < Larger(1, req.maxNodes)
    IN  [s EXCEPT !.edges = Append(@, <<cur.addr, callee>>),
                  !.nodes = IF new THEN @ \cup {callee} ELSE @,
                  !.queue = IF new THEN Append(@, [addr |-> callee, depth |-> cur.depth + 1])
                                   ELSE @]

CallgraphVisit ==
    /\ req.handler = "callgraph" /\ ~st.done
    /\ IF st.queue = <<>> THEN st' = [st EXCEPT !.done = TRUE]
       ELSE LET cur == Head(st.queue)
                popped == [st EXCEPT !.queue = Tail(@)]
            IN  st' = IF cur.depth >= Larger(1, req.maxDepth) THEN popped
                      ELSE IF Cardinality(st.nodes) >= Larger(1, req.maxNodes)
                      THEN [popped EXCEPT !.done = TRUE]
                      ELSE FoldLeft(LAMBDA s, c : AddCallee(s, cur, c),
                                    popped, req.callees[cur.addr])
    /\ UNCHANGED req

-----------------------------------------------------------------------------
(* Paged listings.  A page is [items, next], next = -1 for None.           *)

\* list_functions, and the listings of strings, structs, types and globals
\* written with the same loop: limit is not raised to 1.
ListPage(offset, limit) ==
    LET scan == FoldLeft(
            LAMBDA a, x :
                IF x \in req.hidden THEN a
                ELSE IF a.total + 1 <= offset \/ Len(a.items) >= limit
                THEN [a EXCEPT !.total = @ + 1]
                ELSE [a EXCEPT !.total = @ + 1, !.items = Append(@, x)],
            [total |-> 0, items |-> <<>>], req.items)
        next == offset + Len(scan.items)
    IN  [items |-> scan.items, next |-> IF next < scan.total THEN next ELSE -1]

\* take_window and collect_window on a chain of cross references.
TakeWindow(offset, limit) ==
    LET walk == FoldLeft(
            LAMBDA a, x :
                IF a.truncated THEN a
                ELSE IF a.skipped < offset THEN [a EXCEPT !.skipped = @ + 1]
                ELSE IF Len(a.items) = limit THEN [a EXCEPT !.truncated = TRUE]
                ELSE [a EXCEPT !.items = Append(@, x)],
            [skipped |-> 0, items |-> <<>>, truncated |-> FALSE], req.items)
    IN  [items |-> walk.items,
         next |-> IF walk.truncated THEN offset + Len(walk.items) ELSE -1]

\* parse_xrefs_paging: limit is clamped to 1..MAX_XREFS_LIMIT.
ClampLimit(limit) == Smaller(Larger(1, limit), MaxLimit)

\* Mutant: the item that showed the page to be truncated is counted as returned.
XrefsPageFull(offset, limit) ==
    LET page == TakeWindow(offset, ClampLimit(limit))
    IN  [page EXCEPT !.next = IF @ = -1 THEN @ ELSE @ + 1]

XrefsPage(offset, limit) == TakeWindow(offset, ClampLimit(limit))

Page == IF req.handler = "xrefs" THEN XrefsPage(st.offset, req.limit)
                                 ELSE ListPage(st.offset, Smaller(req.limit, MaxLimit))

\* A client asks for the page at the next_offset of the previous one.
FetchPage ==
    /\ req.handler \in {"xrefs", "list"} /\ ~st.done
    /\ st' = [st EXCEPT !.got = @ \o Page.items,
                        !.offset = IF Page.next = -1 THEN @ ELSE Page.next,
                        !.done = Page.next = -1]
    /\ UNCHANGED req

-----------------------------------------------------------------------------
Start(r) ==
    CASE r.handler = "find_bytes" -> [seg |-> 1, offset |-> 0, matches |-> <<>>, done |-> FALSE]
      [] r.handler = "callgraph" ->
            [nodes |-> {r.root}, edges |-> <<>>,
             queue |-> <<[addr |-> r.root, depth |-> 0]>>, done |-> FALSE]
      [] r.handler \in {"xrefs", "list"} -> [got |-> <<>>, offset |-> 0, done |-> FALSE]

Init ==
    /\ req \in Requests
    /\ st = Start(req)

Next ==
    \/ FindBytesChunk
    \/ CallgraphVisit
    \/ FetchPage

Spec == Init /\ [][Next]_vars

-----------------------------------------------------------------------------
(* find_bytes returns the first max_results addresses, segment by segment  *)
(* and ascending, where the pattern occurs: none is missed where it spans  *)
(* two chunks and none is reported by both.  A prefix of them has been     *)
(* collected at every point of the loop.                                   *)
AllMatches(r) ==
    FoldLeft(LAMBDA ms, seg :
                 LET scan == Scan(seg.bytes, r.pattern)
                 IN  ms \o [k \in DOMAIN scan |-> seg.start + scan[k]],
             <<>>, r.segments)

FindBytesComplete ==
    req.handler = "find_bytes" =>
        /\ IsPrefix(st.matches, AllMatches(req))
        /\ st.done => st.matches = Take(AllMatches(req), req.max)

(* callgraph returns functions within max_depth calls of the root and no   *)
(* more than max_nodes of them; when the bound on nodes does not bite it   *)
(* returns all of them, and every call made by one nearer than max_depth   *)
(* exactly once.  (The bound on depth is on the SHORTEST chain of calls.)  *)
Within(r, depth) ==
    LET reach[d \in 0..depth] ==
            IF d = 0 THEN {r.root}
            ELSE reach[d - 1] \cup UNION {ToSet(r.callees[f]) : f \in reach[d - 1]}
    IN  reach[depth]

CallgraphIsNeighbourhood ==
    req.handler = "callgraph" /\ st.done =>
        LET depth == Larger(1, req.maxDepth)
            size == Larger(1, req.maxNodes)
            near == Within(req, depth)
        IN  /\ st.nodes \subseteq near
            /\ Cardinality(st.nodes) = Smaller(size, Cardinality(near))
            /\ Cardinality(ToSet(st.edges)) = Len(st.edges)
            /\ Cardinality(near) < size =>
                   ToSet(st.edges) = {<<f, g>> \in near \X near :
                                         f \in Within(req, depth - 1) /\ g \in ToSet(req.callees[f])}

(* A client that follows next_offset receives every item of the listing    *)
(* once, in order, whatever the limit: the pages so far are the first      *)
(* next_offset items, and when next_offset is absent nothing is left.      *)
Listing(r) == SelectSeq(r.items, LAMBDA x : x \notin r.hidden)

PagesPartitionListing ==
    req.handler \in {"xrefs", "list"} =>
        /\ ~st.done => st.got = Take(Listing(req), st.offset)
        /\ st.done => st.got = Listing(req)

=============================================================================
