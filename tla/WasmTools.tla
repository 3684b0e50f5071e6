------------------------------ MODULE WasmTools ------------------------------
(***************************************************************************)
(* A WASM tool: what it is loaded from and listed as, what a module may do *)
(* in its sandbox, and what becomes of its output                          *)
(* (crates/anyclaw-tools/src/wasm_tool.rs and wasm_runner.rs,              *)
(* crates/anyclaw-sdk-tool/src/server.rs).                                 *)
(*                                                                         *)
(* A module is the sequence of what it asks of its host: memory or a table *)
(* of a size, a change in a directory or a look into it, output.  Every    *)
(* instruction costs one unit of fuel.                                     *)
(***************************************************************************)
EXTENDS Integers, Sequences, SequencesExt

MaxTable == 10000

\* WasmTool::new: {} without a module path or a file to read.
WasmToolNew(config, files) == {c \in {config} : c.module \cap files # {}}

\* input_schema: what is no JSON, or missing, is the schema of any object.
InputSchema(config) ==
    IF config.input_schema \subseteq {"no json"} THEN "object" ELSE CHOOSE s \in config.input_schema : TRUE

\* ToolServer::new: of two tools with one name the later one is registered.
ToolServerNew(tools) ==
    [n \in {t.name : t \in ToSet(tools)} |-> LET own == SelectSeq(tools, LAMBDA t : t.name = n) IN own[Len(own)]]

\* build_tool_list: a schema that is no object is listed as an empty one.
BuildToolList(server) ==
    {[name |-> n, schema |-> IF InputSchema(server[n]) = "array" THEN "empty" ELSE InputSchema(server[n])] :
        n \in DOMAIN server}

MemoryGrowing(limit, desired) == desired <= limit
TableGrowing(desired) == desired <= MaxTable

\* build_wasi_ctx: {} if a directory is missing on the host, otherwise the
\* directories the module sees and whether it may change them.
BuildWasiCtx(dirs, hosts) ==
    IF \E i \in DOMAIN dirs : dirs[i].host \notin hosts THEN {}
    ELSE {{[guest |-> dirs[i].guest, host |-> dirs[i].host, write |-> ~dirs[i].readonly] : i \in DOMAIN dirs}}

\* external: wasmtime and WASI.  What is refused fails in the module, which may
\* go on; without fuel it is trapped.
Instruct(ctx, limit, s, i) ==
    LET at == {d \in ctx : d.guest = i.dir}
        spent == [s EXCEPT !.fuel = @ - 1]
    IN  IF s.result = "error" \/ s.fuel = 0 \/ i.op = "trap" THEN [s EXCEPT !.result = "error"]
        ELSE CASE i.op = "memory" -> IF MemoryGrowing(limit, i.n) THEN [spent EXCEPT !.memory = i.n] ELSE spent
               [] i.op = "table"  -> IF TableGrowing(i.n) THEN [spent EXCEPT !.table = i.n] ELSE spent
               [] i.op = "look"   -> [spent EXCEPT !.seen = @ \cup {d.host : d \in at}]
               [] i.op = "change" -> [spent EXCEPT !.changed = @ \cup {d.host : d \in {d \in at : d.write}}]
               [] i.op = "print"  -> [spent EXCEPT !.output = Append(@, i.dir)]

Fresh(fuel) == [fuel |-> fuel, memory |-> 0, table |-> 0, seen |-> {}, changed |-> {}, output |-> <<>>, result |-> "ok"]

\* execute and execute_sync: a store of its own for every call; output counts
\* only when the module comes to its end.
ExecuteSync(sandbox, module, hosts) ==
    LET ctx == BuildWasiCtx(sandbox.preopened_dirs, hosts)
        run[n \in 0..Len(module)] ==
            IF n = 0 THEN Fresh(sandbox.fuel_limit)
            ELSE Instruct(CHOOSE c \in ctx : TRUE, sandbox.memory_limit_bytes, run[n - 1], module[n])
    IN  IF ctx = {} THEN [Fresh(0) EXCEPT !.result = "error"] ELSE run[Len(module)]

\* str::trim, for blanks.
Trim(s) ==
    LET solid == {i \in DOMAIN s : s[i] # " "}
    IN  IF solid = {} THEN <<>> ELSE SubSeq(s, Min(solid), Max(solid))

\* execute_sync trims the output.  WasmTool::execute parses it, which is what it says when it is no
\* JSON; dispatch_tool writes the value again, a string without its quotes.
Execute(text) == IF text.json = "no" THEN [value |-> "string", s |-> Trim(text.s)] ELSE [value |-> text.json, s |-> text.s]
ResultText(v) == IF v.value = "string" THEN [json |-> "no", s |-> v.s] ELSE [json |-> v.value, s |-> v.s]
=============================================================================
