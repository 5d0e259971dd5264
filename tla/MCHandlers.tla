----------------------------- MODULE MCHandlers -----------------------------
(* Small inputs for the handlers: every segment of four or five bytes over *)
(* two values, every pattern of up to three bytes, every call graph of     *)
(* three functions and every listing of up to four items.                  *)
EXTENDS Handlers

MCBytes == {0, 1}

Ascending(S) == SetToSortSeq(S, <)

\* Two segments; the first spans several chunks, the second fits in one.
FindBytesRequests ==
    [handler : {"find_bytes"},
     segments : {<<[start |-> 16, bytes |-> b], [start |-> 32, bytes |-> <<1, 0, 1>>]>> :
                    b \in [1..4 -> MCBytes] \cup [1..5 -> MCBytes]},
     pattern : UNION {[1..n -> {{0}, {1}, MCBytes}] : n \in 1..3},
     max : {0, 2, 9}]

Functions3 == 1..3

\* A chain that is also reached by a longer way round, so that the order of
\* the search decides at which depth a function is met.
DetourGraph == 1 :> <<2, 3>> @@ 2 :> <<4>> @@ 3 :> <<5>> @@ 4 :> <<>> @@ 5 :> <<4, 6>> @@ 6 :> <<>>

CallgraphRequests ==
    [handler : {"callgraph"}, root : {1},
     callees : {[f \in Functions3 |-> Ascending(g[f])] : g \in [Functions3 -> SUBSET Functions3]}
                   \cup {DetourGraph},
     maxDepth : 0..3, maxNodes : {0, 2, 4, 9}]

PagingRequests ==
    {[handler |-> h, items |-> [i \in 1..n |-> i], hidden |-> hid, limit |-> l] :
        h \in {"xrefs", "list"}, n \in 0..4, hid \in SUBSET (1..3), l \in 0..4}

\* Cross references are not filtered.
ListingRequests == {r \in PagingRequests : r.handler = "xrefs" => r.hidden = {}}

MCRequests ==
    FindBytesRequests \cup CallgraphRequests \cup ListingRequests
=============================================================================
