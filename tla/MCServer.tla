------------------------------- MODULE MCServer -------------------------------
(***************************************************************************)
(* The instance of IdaServer for TLC: the ways the process is started, and *)
(* what its clients do in each, so that every handler meets the others it  *)
(* can race with while the state space stays that of one question at a     *)
(* time.                                                                   *)
(***************************************************************************)
EXTENDS IdaServer

NoFilter == [toolsets |-> {}, tools |-> {}, excludes |-> {}, readOnly |-> FALSE]
ReadOnly == [NoFilter EXCEPT !.readOnly = TRUE]
\* Names a writer and a reader, and forbids writing.
NamedReadOnly == [ReadOnly EXCEPT !.toolsets = {"search"}, !.tools = {"patch", "open_idb"}]

Start(mode, uses1, uses2, events) ==
    [mode |-> mode, uses |-> [s1 |-> uses1, s2 |-> uses2], calls |-> [s1 |-> 1, s2 |-> 1],
     paths |-> {"bin"}, events |-> events, filter |-> NoFilter, sessionless |-> {}, sdk94 |-> FALSE]

\* Two sessions of the shared HTTP server open and close; one may be a single
\* request without a session.
SharedSetups ==
    LET opens == [Start("http", {"open_idb", "close_idb"}, {"open_idb", "close_idb"}, {}) EXCEPT
                      !.calls.s1 = 2]
    IN  {[opens EXCEPT !.paths = {"bin", "other"}], [opens EXCEPT !.sessionless = {"s2"}]}
\* One opens a dyld shared cache in the background, and again; one closes.
DscSetups ==
    {[Start("http", {"open_dsc"}, {"close_idb"}, {"cancel"}) EXCEPT
          !.calls.s1 = 2, !.sdk94 = x] : x \in BOOLEAN}
\* Every tool of the table after, or while, a database is opened.
ToolSetups ==
    {[Start(x[1], {"open_idb"}, DOMAIN Tools \ StepwiseTools, {}) EXCEPT
          !.filter = x[2]] :
         x \in {<<"stdio", NoFilter>>, <<"pooled", NoFilter>>, <<"stdio", ReadOnly>>,
                <<"stdio", NamedReadOnly>>}}
\* Foreground and background work when a signal arrives, with an IDA that may hang.
ShutdownSetups ==
    {Start("stdio", {"open_idb"}, {"analyze_funcs"}, {"signal", "wedge", "large"}),
     Start("http", {"open_idb"}, {"close_idb"}, {"signal", "wedge"})}
\* A script beside an open.
ScriptSetups == {Start("stdio", {"open_idb"}, {"run_script"}, {})}
\* A pooled session whose client disconnects while its child works.
PooledSetups == {Start("pooled", {"analyze_funcs"}, {}, {"session_end", "background"})}
MCSetups ==
    SharedSetups \cup DscSetups \cup ToolSetups \cup ShutdownSetups \cup ScriptSetups
        \cup PooledSetups
=============================================================================
