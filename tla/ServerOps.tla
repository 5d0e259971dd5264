------------------------------ MODULE ServerOps ------------------------------
(***************************************************************************)
(* The tools of the MCP server and the requests they turn into, table by   *)
(* table: the handlers of src/src/server/mod.rs (tool |-> the requests it  *)
(* sends), the senders of src/src/ida/worker.rs (request |-> how long the  *)
(* handler waits), the arms of the IDA thread's loop in                    *)
(* src/src/ida/loop_impl.rs (request |-> what it does to the database),    *)
(* the forwarders of src/src/ida/pool.rs (request |-> the tool called on   *)
(* the pooled child), and the registry, filter and annotations of the      *)
(* tools.  Parameters, paging and formatting are left out; Paging and the  *)
(* other algorithms are in module Handlers.                                *)
(***************************************************************************)
EXTENDS FiniteSets

(***************************************************************************)
(* Tool handlers, a row for each tool.  One: a single request; Each: one   *)
(* request per address, query or pattern of the call, an error of one item *)
(* being recorded in its place; Either: one of the kinds, by the           *)
(* parameters; Then: the second once the first succeeded.                  *)
(***************************************************************************)
Either(tool, ks) == [tool |-> tool, kinds |-> ks, each |-> FALSE, then |-> {}]
One(tool, k) == Either(tool, {k})
EachOf(tool, ks) == [tool |-> tool, kinds |-> ks, each |-> TRUE, then |-> {}]
Each(tool, k) == EachOf(tool, {k})
Then(tool, k, l) == [tool |-> tool, kinds |-> {k}, each |-> FALSE, then |-> {l}]
NoRequest(tool) == Either(tool, {})

CatalogTools == {NoRequest("tool_catalog"), NoRequest("tool_help")}
FunctionTools ==
    {One("list_functions", "ListFunctions"), One("list_funcs", "ListFunctions"),
     One("resolve_function", "ResolveFunction"), One("addr_info", "AddrInfo"),
     One("function_at", "FunctionAt")}
DisasmTools ==
    {Each("disasm", "Disasm"), One("disasm_by_name", "DisasmByName"),
     One("disasm_function_at", "DisasmFunctionAt")}
DecompileTools ==
    {Each("decompile", "Decompile"), Each("pseudocode_at", "PseudocodeAt")}
StringTools ==
    {One("segments", "Segments"), One("strings", "Strings"),
     One("find_string", "FindString"), One("xrefs_to_string", "XrefsToString")}
XrefTools ==
    {Each("xrefs_to", "XRefsTo"), Each("xrefs_from", "XRefsFrom"),
     One("imports", "Imports"), One("exports", "Exports"),
     One("entrypoints", "Entrypoints")}
ByteTools == {Each("get_bytes", "GetBytes")}
GraphTools ==
    {Each("basic_blocks", "BasicBlocks"), Each("callees", "Callees"),
     Each("callers", "Callers")}
LookupTools ==
    {One("idb_meta", "IdbMeta"), One("lookup_funcs", "LookupFunctions"),
     One("list_globals", "ListGlobals"), One("analyze_strings", "AnalyzeStrings")}
PatternTools == {Each("find_bytes", "FindBytes")}
\* A target that is a number is searched as an immediate, any other as text.
SearchTools == {EachOf("search", {"SearchText", "SearchImm"})}
ValueTools ==
    {Each("get_u8", "ReadInt"), Each("get_u16", "ReadInt"),
     Each("get_u32", "ReadInt"), Each("get_u64", "ReadInt"),
     Each("get_string", "GetString"), Each("get_global_value", "GetGlobalValue")}
\* export_funcs looks its queries up when it has some.
PathTools ==
    {One("find_paths", "FindPaths"), Each("callgraph", "CallGraph"),
     One("xref_matrix", "XrefMatrix"),
     Either("export_funcs", {"LookupFunctions", "ExportFuncs"})}
ConvertTools == {NoRequest("int_convert")}
TypeTools ==
    {One("local_types", "LocalTypes"), One("xrefs_to_field", "XRefsToField"),
     One("lumina_lookup", "LuminaLookup"), One("lumina_apply", "LuminaApply")}
EditTools ==
    {One("set_comments", "SetComments"), One("patch_asm", "PatchAsm"),
     One("declare_type", "DeclareType")}
StackTools ==
    {One("stack_frame", "StackFrame"), One("declare_stack", "DeclareStack"),
     One("delete_stack", "DeleteStack")}
StructTools ==
    {One("structs", "Structs"), One("struct_info", "StructInfo"),
     Each("read_struct", "ReadStruct"), One("search_structs", "Structs")}
InsnTools ==
    {One("find_insns", "FindInsns"), One("find_insn_operands", "FindInsnOperands"),
     One("apply_types", "ApplyTypes"), One("infer_types", "InferTypes")}
NameTools == {One("rename", "Rename"), One("patch", "PatchBytes")}
\* The loaders of a dyld shared cache ask for the analysis status afterwards.
DscTools ==
    {Then("dsc_add_dylib", "DscLoadImage", "AnalysisStatus"),
     Then("dsc_add_region", "DscLoadRegion", "AnalysisStatus")}
StatusTools ==
    {One("load_debug_info", "LoadDebugInfo"), One("analysis_status", "AnalysisStatus")}
TaskTools == {NoRequest("task_status"), NoRequest("recent_operations")}
\* The handlers IdaServer models step by step.
DatabaseTools ==
    {One("open_idb", "Open"), One("close_idb", "Close"),
     Either("open_dsc", {"Open", "DscLoadImage", "AnalysisStatus", "CloseIfGeneration"}),
     One("analyze_funcs", "AnalyzeFuncs"), One("run_script", "RunScript")}
StepwiseTools == {r.tool : r \in DatabaseTools}

ToolRows ==
    CatalogTools \cup FunctionTools \cup DisasmTools \cup DecompileTools \cup StringTools
    \cup XrefTools \cup ByteTools \cup GraphTools \cup LookupTools \cup PatternTools \cup SearchTools
    \cup ValueTools \cup PathTools \cup ConvertTools \cup TypeTools \cup EditTools \cup StackTools
    \cup StructTools \cup InsnTools \cup NameTools \cup DscTools \cup StatusTools \cup TaskTools
    \cup DatabaseTools
Tools == [t \in {r.tool : r \in ToolRows} |-> CHOOSE r \in ToolRows : r.tool = t]

(***************************************************************************)
(* The senders of IdaWorker: recv_with_timeout (timed) or recv (answer).   *)
(***************************************************************************)
SendDatabase ==
    [timed  |-> {"DscLoadImage", "DscLoadRegion"},
     answer |-> {"LoadDebugInfo", "AnalysisStatus"}]
SendListing ==
    [timed  |-> {"ListFunctions", "Strings", "LocalTypes"},
     answer |-> {"ResolveFunction", "DisasmByName", "Disasm", "Decompile", "Segments"}]
SendTypes ==
    [timed |-> {}, answer |-> {"DeclareType", "ApplyTypes", "InferTypes", "AddrInfo"}]
SendStack ==
    [timed  |-> {},
     answer |-> {"FunctionAt", "DisasmFunctionAt", "DeclareStack", "DeleteStack",
                 "StackFrame"}]
SendStruct ==
    [timed  |-> {"Structs", "XRefsTo", "XRefsFrom"},
     answer |-> {"StructInfo", "ReadStruct", "XRefsToField"}]
SendImports ==
    [timed  |-> {"LuminaLookup"},
     answer |-> {"Imports", "Exports", "Entrypoints", "LuminaApply", "GetBytes",
                 "SetComments"}]
SendEdits ==
    [timed  |-> {"ListGlobals"},
     answer |-> {"Rename", "PatchBytes", "PatchAsm", "BasicBlocks", "Callees", "Callers",
                 "IdbMeta", "LookupFunctions"}]
\* The observed analysis and script wait without a limit and carry a cancel token.
SendStrings ==
    [timed |-> {"AnalyzeStrings", "FindString", "XrefsToString"},
     answer |-> {"AnalyzeFuncs"}]
SendSearch ==
    [timed  |-> {"FindBytes", "SearchText", "SearchImm", "FindInsns",
                 "FindInsnOperands"},
     answer |-> {"ReadInt", "GetString", "GetGlobalValue"}]
SendGraph ==
    [timed  |-> {},
     answer |-> {"FindPaths", "CallGraph", "XrefMatrix", "ExportFuncs", "RunScript",
                 "PseudocodeAt"}]

Senders ==
    {SendDatabase, SendListing, SendTypes, SendStack, SendStruct, SendImports, SendEdits,
     SendStrings, SendSearch, SendGraph}
TimedKinds == UNION {x.timed : x \in Senders}
AnswerKinds == UNION {x.answer : x \in Senders}

(***************************************************************************)
(* WorkerBackend: every sender again, to the IDA thread of this process    *)
(* (Local) or to the session's leased child (Pooled).                      *)
(***************************************************************************)
BackendDatabase == {"LoadDebugInfo", "AnalysisStatus", "DscLoadImage", "DscLoadRegion"}
BackendListing ==
    {"ListFunctions", "ResolveFunction", "DisasmByName", "Disasm", "Decompile",
     "Segments", "Strings", "LocalTypes"}
BackendTypes ==
    {"DeclareType", "ApplyTypes", "InferTypes", "AddrInfo", "FunctionAt",
     "DisasmFunctionAt", "DeclareStack", "DeleteStack"}
BackendStructs ==
    {"StackFrame", "Structs", "StructInfo", "ReadStruct", "XRefsTo", "XRefsFrom",
     "XRefsToField", "Imports", "Exports", "Entrypoints"}
BackendEdits ==
    {"LuminaLookup", "LuminaApply", "GetBytes", "SetComments", "Rename", "PatchBytes",
     "PatchAsm", "BasicBlocks", "Callees", "Callers", "IdbMeta"}
BackendStrings ==
    {"LookupFunctions", "ListGlobals", "AnalyzeStrings", "FindString", "XrefsToString",
     "AnalyzeFuncs"}
BackendSearch ==
    {"FindBytes", "SearchText", "SearchImm", "FindInsns", "FindInsnOperands", "ReadInt",
     "GetString", "GetGlobalValue", "FindPaths", "CallGraph"}
BackendScripts == {"XrefMatrix", "ExportFuncs", "RunScript", "PseudocodeAt"}
BackendKinds ==
    UNION {BackendDatabase, BackendListing, BackendTypes, BackendStructs, BackendEdits,
           BackendStrings, BackendSearch, BackendScripts}

(***************************************************************************)
(* PooledSessionState: the tool of the child that stands for a request,    *)
(* with one item even where the tool takes several.                        *)
(***************************************************************************)
PoolDatabase ==
    {<<"LoadDebugInfo", "load_debug_info">>, <<"AnalysisStatus", "analysis_status">>,
     <<"DscLoadImage", "dsc_add_dylib">>, <<"DscLoadRegion", "dsc_add_region">>,
     <<"ListFunctions", "list_functions">>, <<"ResolveFunction", "resolve_function">>,
     <<"DisasmByName", "disasm_by_name">>, <<"Disasm", "disasm">>,
     <<"Decompile", "decompile">>, <<"Segments", "segments">>}
PoolTypes ==
    {<<"Strings", "strings">>, <<"LocalTypes", "local_types">>,
     <<"DeclareType", "declare_type">>, <<"ApplyTypes", "apply_types">>,
     <<"InferTypes", "infer_types">>, <<"AddrInfo", "addr_info">>,
     <<"FunctionAt", "function_at">>, <<"DisasmFunctionAt", "disasm_function_at">>}
PoolStructs ==
    {<<"DeclareStack", "declare_stack">>, <<"DeleteStack", "delete_stack">>,
     <<"StackFrame", "stack_frame">>, <<"Structs", "structs">>,
     <<"StructInfo", "struct_info">>, <<"ReadStruct", "read_struct">>,
     <<"XRefsTo", "xrefs_to">>, <<"XRefsFrom", "xrefs_from">>,
     <<"XRefsToField", "xrefs_to_field">>}
PoolEdits ==
    {<<"Imports", "imports">>, <<"Exports", "exports">>, <<"Entrypoints", "entrypoints">>,
     <<"LuminaLookup", "lumina_lookup">>, <<"LuminaApply", "lumina_apply">>,
     <<"GetBytes", "get_bytes">>, <<"SetComments", "set_comments">>,
     <<"Rename", "rename">>, <<"PatchBytes", "patch">>, <<"PatchAsm", "patch_asm">>}
PoolGraphs ==
    {<<"BasicBlocks", "basic_blocks">>, <<"Callees", "callees">>, <<"Callers", "callers">>,
     <<"IdbMeta", "idb_meta">>, <<"LookupFunctions", "lookup_funcs">>,
     <<"ListGlobals", "list_globals">>, <<"AnalyzeStrings", "analyze_strings">>,
     <<"FindString", "find_string">>, <<"XrefsToString", "xrefs_to_string">>,
     <<"AnalyzeFuncs", "analyze_funcs">>}
\* Mutant: search_imm calls find_bytes on the child, not search.
PoolSearchSwapped ==
    {<<"FindBytes", "find_bytes">>, <<"SearchText", "search">>, <<"SearchImm", "find_bytes">>,
     <<"FindInsns", "find_insns">>, <<"FindInsnOperands", "find_insn_operands">>,
     <<"ReadInt", "get_u32">>, <<"GetString", "get_string">>,
     <<"GetGlobalValue", "get_global_value">>}
\* read_int picks the tool by the size; one stands for the four.
PoolSearch ==
    {<<"FindBytes", "find_bytes">>, <<"SearchText", "search">>, <<"SearchImm", "search">>,
     <<"FindInsns", "find_insns">>, <<"FindInsnOperands", "find_insn_operands">>,
     <<"ReadInt", "get_u32">>, <<"GetString", "get_string">>,
     <<"GetGlobalValue", "get_global_value">>}
PoolPaths ==
    {<<"FindPaths", "find_paths">>, <<"CallGraph", "callgraph">>,
     <<"XrefMatrix", "xref_matrix">>, <<"ExportFuncs", "export_funcs">>,
     <<"RunScript", "run_script">>, <<"PseudocodeAt", "pseudocode_at">>}

PoolRows ==
    PoolDatabase \cup PoolTypes \cup PoolStructs \cup PoolEdits \cup PoolGraphs \cup PoolSearch
    \cup PoolPaths
ChildTool == [k \in {p[1] : p \in PoolRows} |-> (CHOOSE p \in PoolRows : p[1] = k)[2]]

\* The requests the IDA thread that holds the database gets for one request of a
\* handler: the request itself, or what the tool called on the child sends; none if
\* the backend does not forward it.
Delivered(kind, pooled) ==
    IF kind \notin BackendKinds THEN {}
    ELSE IF pooled THEN Tools[ChildTool[kind]].kinds ELSE {kind}

(***************************************************************************)
(* The arms of the IDA thread's loop that work on the open database.       *)
(***************************************************************************)
ArmsDatabase ==
    [read |-> {"AnalysisStatus"}, write |-> {"LoadDebugInfo", "DscLoadImage", "DscLoadRegion"}]
ArmsListing ==
    [read  |-> {"ListFunctions", "ResolveFunction", "DisasmByName", "Disasm", "Decompile",
                "Segments", "Strings", "LocalTypes"},
     write |-> {}]
ArmsTypes ==
    [read |-> {"InferTypes", "AddrInfo", "FunctionAt"}, write |-> {"DeclareType", "ApplyTypes"}]
ArmsStack ==
    [read |-> {"DisasmFunctionAt"}, write |-> {"DeclareStack", "DeleteStack"}]
ArmsStructs ==
    [read  |-> {"StackFrame", "Structs", "StructInfo", "ReadStruct", "XRefsTo", "XRefsFrom",
                "XRefsToField"},
     write |-> {}]
ArmsImports ==
    [read  |-> {"Imports", "Exports", "Entrypoints", "LuminaLookup", "GetBytes"},
     write |-> {"LuminaApply"}]
ArmsEdits ==
    [read |-> {}, write |-> {"SetComments", "Rename", "PatchBytes", "PatchAsm"}]
ArmsGraphs ==
    [read  |-> {"BasicBlocks", "Callees", "Callers", "IdbMeta", "LookupFunctions",
                "ListGlobals", "AnalyzeStrings", "FindString", "XrefsToString"},
     write |-> {}]
ArmsAnalyze == [read |-> {}, write |-> {"AnalyzeFuncs"}]
ArmsSearch ==
    [read  |-> {"FindBytes", "SearchText", "SearchImm", "FindInsns", "FindInsnOperands",
                "ReadInt", "GetString"},
     write |-> {}]
ArmsPaths ==
    [read  |-> {"GetGlobalValue", "FindPaths", "CallGraph", "XrefMatrix", "ExportFuncs",
                "PseudocodeAt"},
     write |-> {}]
ArmsScript == [read |-> {}, write |-> {"RunScript"}]
Arms ==
    {ArmsDatabase, ArmsListing, ArmsTypes, ArmsStack, ArmsStructs, ArmsImports, ArmsEdits,
     ArmsGraphs, ArmsAnalyze, ArmsSearch, ArmsPaths, ArmsScript}
ReadKinds == UNION {x.read : x \in Arms}
WriteKinds == UNION {x.write : x \in Arms}

(***************************************************************************)
(* TOOL_REGISTRY, by category.                                             *)
(***************************************************************************)
RegistryCore ==
    {"open_idb", "open_dsc", "dsc_add_dylib", "dsc_add_region", "load_debug_info",
     "analysis_status"}
RegistryTasks ==
    {"close_idb", "tool_catalog", "tool_help", "recent_operations", "task_status",
     "idb_meta"}
RegistryFunctions ==
    {"list_functions", "list_funcs", "resolve_function", "function_at", "lookup_funcs",
     "analyze_funcs"}
RegistryCode ==
    [disassembly |-> {"disasm", "disasm_by_name", "disasm_function_at"},
     decompile   |-> {"decompile", "pseudocode_at"}]
RegistryXrefs ==
    [xrefs        |-> {"xrefs_to", "xrefs_from", "xrefs_to_string", "xref_matrix"},
     control_flow |-> {"basic_blocks", "callers", "callees", "callgraph", "find_paths"}]
RegistryMemory ==
    {"get_bytes", "get_string", "get_u8", "get_u16", "get_u32", "get_u64",
     "get_global_value", "int_convert"}
RegistrySearch ==
    {"find_bytes", "search", "strings", "find_string", "analyze_strings", "find_insns",
     "find_insn_operands"}
RegistryMetadata ==
    {"segments", "addr_info", "imports", "exports", "export_funcs", "entrypoints",
     "lumina_lookup", "list_globals"}
RegistryTypes ==
    [xrefs |-> {"xrefs_to_field"},
     types |-> {"local_types", "declare_type", "apply_types", "infer_types", "stack_frame",
                "declare_stack", "delete_stack", "structs", "struct_info", "read_struct",
                "search_structs"}]
RegistryEditing ==
    [editing   |-> {"lumina_apply", "set_comments", "patch_asm", "patch", "rename"},
     scripting |-> {"run_script"}]
Categories ==
    [core |-> RegistryCore \cup RegistryTasks, functions |-> RegistryFunctions,
     disassembly |-> RegistryCode.disassembly, decompile |-> RegistryCode.decompile,
     xrefs |-> RegistryXrefs.xrefs \cup RegistryTypes.xrefs,
     control_flow |-> RegistryXrefs.control_flow, memory |-> RegistryMemory,
     search |-> RegistrySearch, metadata |-> RegistryMetadata,
     types |-> RegistryTypes.types, editing |-> RegistryEditing.editing,
     scripting |-> RegistryEditing.scripting, debug |-> {}, ui |-> {}]
AllTools == UNION {Categories[c] : c \in DOMAIN Categories}

(***************************************************************************)
(* ToolFilter: inputs is [toolsets, tools, excludes, readOnly].            *)
(***************************************************************************)
ReadOnlyDenyList ==
    {"run_script", "patch", "patch_asm", "rename", "set_comments", "lumina_apply",
     "declare_type", "apply_types", "infer_types", "declare_stack", "delete_stack",
     "dsc_add_dylib", "dsc_add_region", "analyze_funcs"}
\* Mutant: the deny list is taken off the base, before --tools adds its names.
FromInputsDenyFirst(i) ==
    LET base == IF i.toolsets = {} /\ i.tools = {} THEN AllTools
                ELSE UNION {Categories[c] : c \in i.toolsets}
    IN  ((base \ i.excludes) \ (IF i.readOnly THEN ReadOnlyDenyList ELSE {})) \cup i.tools
FromInputs(i) ==
    LET base == IF i.toolsets = {} /\ i.tools = {} THEN AllTools
                ELSE UNION {Categories[c] : c \in i.toolsets} \cup i.tools
    IN  (base \ i.excludes) \ (IF i.readOnly THEN ReadOnlyDenyList ELSE {})
=============================================================================
