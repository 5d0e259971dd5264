------------------------------ MODULE DaemonOps ------------------------------
(***************************************************************************)
(* The operations of the daemon's JSON-line protocol: which request a      *)
(* command of the command line sends (src/src/cli.rs), which ones the      *)
(* router answers itself (src/src/daemon/router.rs) and what the arms of   *)
(* the worker's dispatch do to its database                                *)
(* (src/src/daemon/worker.rs).  Parameters are left out.                   *)
(***************************************************************************)

\* Arms of dispatch_analysis that take the database immutably and read it.
InfoArms == {"info", "meta", "analysis_status"}
FunctionArms ==
    {"functions", "list_functions", "resolve_function", "function_at", "lookup_funcs"}
CodeArms == {"disasm", "disasm_function_at", "decompile", "pseudocode_at"}
StringArms ==
    {"strings", "find_string", "get_string", "analyze_strings", "xrefs_to_string"}
ListingArms ==
    {"segments", "imports", "exports", "export_funcs", "entrypoints", "globals",
     "list_globals", "get_global_value"}
GraphArms ==
    {"xrefs_to", "xrefs_from", "xref_matrix", "basic_blocks", "callers", "callees",
     "callgraph", "find_paths"}
MemoryArms ==
    {"get_bytes", "read_int", "find_bytes", "search_text", "search_imm", "find_insns",
     "find_insn_operands", "addr_info"}
StructArms == {"structs", "struct_info", "read_struct", "xrefs_to_field"}
\* Arms that change the database, and the readers that stand among them.
AnalyzeArms == {"analyze_funcs"}
TypeArms ==
    [read  |-> {"local_types", "infer_types", "stack_frame"},
     write |-> {"declare_type", "apply_types", "declare_stack", "delete_stack"}]
AnnotationArms ==
    {"set_comment", "rename", "patch_bytes", "patch_asm", "run_script",
     "load_debug_info"}

ReadArms ==
    UNION {InfoArms, FunctionArms, CodeArms, StringArms, ListingArms, GraphArms,
           MemoryArms, StructArms, TypeArms.read}
WriteArms == AnalyzeArms \cup TypeArms.write \cup AnnotationArms

\* What the worker's main thread does with an analysis request.
Effect(op) ==
    IF op \in WriteArms THEN "write" ELSE IF op \in ReadArms THEN "read" ELSE "unknown"

\* The operations route_inner answers without a worker.
RouterOps ==
    {"ping", "shutdown", "int_convert", "target.load", "target.list", "target.switch",
     "target.close"}

\* The operation each command of the command line asks for, by the order of
\* cli_command_to_request: listings and code first, then graphs, memory and
\* types, then the commands that annotate.
CliListingCommands ==
    {"info", "meta", "analysis_status", "functions", "resolve_function", "function_at",
     "lookup_funcs", "analyze_funcs", "disasm", "disasm_function_at", "decompile",
     "pseudocode_at", "strings", "find_string", "get_string", "analyze_strings",
     "xrefs_to_string", "segments", "imports", "exports", "entrypoints", "globals",
     "get_global_value"}
CliQueryCommands ==
    {"xrefs_to", "xrefs_from", "xref_matrix", "basic_blocks", "callers", "callees",
     "callgraph", "find_paths", "get_bytes", "read_int", "find_bytes", "search_text",
     "search_imm", "find_insns", "find_insn_operands", "addr_info", "local_types",
     "stack_frame", "infer_types", "structs", "struct_info", "read_struct",
     "xrefs_to_field"}
CliChangeCommands ==
    {"declare_type", "apply_types", "declare_stack", "delete_stack", "set_comment",
     "rename", "patch_bytes", "patch_asm", "run_script", "load_debug_info",
     "int_convert"}
\* run_via_daemon: what is neither a daemon nor a target command.
CliOps == CliListingCommands \cup CliQueryCommands \cup CliChangeCommands
=============================================================================
