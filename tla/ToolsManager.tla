---------------------------- MODULE ToolsManager ----------------------------
(***************************************************************************)
(* The tools manager (crates/anyclaw-tools): its start, its command loop,  *)
(* and the aggregated MCP server, which runs the tool calls of the agents  *)
(* beside the loop.  A tool is a WASM module run in this process or is     *)
(* offered by an external MCP server, a child process.                     *)
(*                                                                         *)
(* The supervisor hands over no native tools, so the host holds the WASM   *)
(* tools alone.  A call that has been sent to a server stays there when    *)
(* the manager gives up on it.                                             *)
(***************************************************************************)
EXTENDS Integers, Sequences, FiniteSets, SequencesExt

CONSTANTS
    Tools,         \* names a call may carry
    Wasm,          \* enabled tools of type wasm
    Servers,       \* enabled tools of type mcp
    Timed,         \* servers whose config has call_timeout_secs
    EpochTimeout,  \* sandbox.epoch_timeout_secs, in ticks
    Hangs,         \* a server may stop answering tools/list
    Calls,         \* bound: tool calls
    MaxDeaths,     \* bound: servers that die or hang
    MaxAsks        \* bound: commands from the agents manager

ASSUME ToolsAssumption ==
    /\ Wasm \subseteq Tools /\ Timed \subseteq Servers /\ IsFiniteSet(Servers)
    /\ EpochTimeout \in Nat \ {0} /\ Hangs \in BOOLEAN
    /\ {MaxDeaths, MaxAsks} \subseteq Nat

VARIABLES
    phase,      \* "new", "spawning", "running", "failed", "stopped"
    toSpawn,    \* enabled mcp configs not spawned yet, in the map's order
    loaded,     \* tools of native_host
    external,   \* external_servers
    health,     \* of each server: "none", "up", "hung", "dead"
    offers,     \* the tools each server lists
    endpoint,   \* the aggregated server: "none", "open", "closed"
    urls,       \* server_urls: the names advertised with its URL
    cmd,        \* the command the agents manager waits for
    describing, \* collect_tool_descriptions: next server, 0 when not running
    found,      \* the names it has collected
    answer,     \* the last reply to a command
    cancelled,  \* the supervisor cancelled the manager
    call,       \* of each call: its tool, where it is, its result
    inbox,      \* <<server, call>>: sent and not run yet
    replies,    \* <<server, call>>: run and not answered yet
    deaths, asks,
    ran         \* observer: who ran each call

loopVars == <<cmd, describing, found, answer, cancelled, asks>>
callVars == <<call, inbox, replies, ran>>
bootVars == <<toSpawn, loaded, external, offers, endpoint, urls>>
vars == <<phase, bootVars, health, loopVars, callVars, deaths>>

NoCommand == [kind |-> "none", names |-> {}]

\* tool_names is None for an agent without tools in its config, otherwise the
\* keys of tool configs.
AllNames == Tools \cup Servers
ToolNames == {AllNames} \cup {{key} : key \in Wasm \cup Servers}

Init ==
    /\ phase = "new" /\ toSpawn = <<>> /\ loaded = {} /\ external = <<>>
    /\ health = [s \in Servers |-> "none"] /\ offers = [s \in Servers |-> {}]
    /\ endpoint = "none" /\ urls = {}
    /\ cmd = NoCommand /\ describing = 0 /\ found = {} /\ answer = {} /\ cancelled = FALSE
    /\ call = [c \in Calls |-> [tool |-> CHOOSE t \in Tools : TRUE, at |-> "idle", next |-> 0, left |-> 0, result |-> "none"]]
    /\ inbox = {} /\ replies = {} /\ deaths = 0 /\ asks = 0
    /\ ran = [c \in Calls |-> <<>>]

(***************************************************************************)
(* start                                                                   *)
(***************************************************************************)
\* enabled_tool_configs and load_all_tools: a module without a path or a
\* readable file is skipped.
LoadAllTools ==
    /\ phase = "new" /\ phase' = "spawning"
    /\ loaded' \in SUBSET Wasm
    /\ toSpawn' \in SetToSeqs(Servers)
    /\ UNCHANGED <<external, offers, endpoint, urls, health, loopVars, callVars, deaths>>

\* ExternalMcpServer::spawn: the server starts and shakes hands, or there is no
\* binary, no process, or a handshake that fails.
Spawn(s) ==
    \/ /\ external' = Append(external, s)
       /\ health' = [health EXCEPT ![s] = "up"]
       /\ \E tools \in SUBSET Tools : offers' = [offers EXCEPT ![s] = tools]
    \/ UNCHANGED <<external, health, offers>>

\* spawn_external_servers: one after the other; one that fails is skipped.
SpawnServer ==
    /\ phase = "spawning" /\ toSpawn # <<>>
    /\ Spawn(Head(toSpawn)) /\ toSpawn' = Tail(toSpawn)
    /\ UNCHANGED <<phase, loaded, endpoint, urls, loopVars, callVars, deaths>>

\* spawn_aggregated_server: no port to bind fails the start of the manager.
SpawnAggregatedServer ==
    \/ endpoint' = "open" /\ phase' = "running"
    \/ endpoint' = endpoint /\ phase' = "failed"

\* start_aggregated_server_if_needed: one endpoint for all tools, advertised
\* under the name of every mcp config, the skipped ones too.
StartAggregatedServer ==
    /\ phase = "spawning" /\ toSpawn = <<>>
    /\ \/ loaded = {} /\ external = <<>> /\ phase' = "running" /\ UNCHANGED <<endpoint, urls>>
       \/ /\ loaded # {} \/ external # <<>>
          /\ SpawnAggregatedServer
          /\ urls' = IF phase' = "running" THEN Servers ELSE urls
    /\ UNCHANGED <<toSpawn, loaded, external, offers, health, loopVars, callVars, deaths>>

(***************************************************************************)
(* run: one command at a time                                              *)
(***************************************************************************)
\* external: the agents manager sends a command and waits for the reply.
Ask ==
    /\ phase \notin {"failed", "stopped"} /\ cmd = NoCommand /\ asks < MaxAsks
    /\ cmd' \in [kind : {"urls", "descriptions"}, names : ToolNames]
    /\ asks' = asks + 1
    /\ UNCHANGED <<phase, bootVars, health, describing, found, answer, cancelled, callVars, deaths>>

\* external: the supervisor cancels the manager's token.
Cancel ==
    /\ ~cancelled /\ cancelled' = TRUE
    /\ UNCHANGED <<phase, bootVars, health, cmd, describing, found, answer, asks, callVars, deaths>>

AtSelect == phase = "running" /\ describing = 0

GetMcpUrls ==
    /\ AtSelect /\ cmd.kind = "urls"
    /\ answer' = urls \cap cmd.names /\ cmd' = NoCommand
    /\ UNCHANGED <<phase, bootVars, health, describing, found, cancelled, asks, callVars, deaths>>

\* GetToolDescriptions: the loop does nothing else until all servers answered.
GetToolDescriptions ==
    /\ AtSelect /\ cmd.kind = "descriptions"
    /\ describing' = 1 /\ found' = loaded
    /\ UNCHANGED <<phase, bootVars, health, cmd, answer, cancelled, asks, callVars, deaths>>

\* list_tools of a server that answers or is gone.
Listed(s) == IF health[s] = "up" THEN offers[s] ELSE {}

DescribeServer ==
    /\ describing \in 1 .. Len(external) /\ health[external[describing]] # "hung"
    /\ found' = found \cup Listed(external[describing])
    /\ describing' = describing + 1
    /\ UNCHANGED <<phase, bootVars, health, cmd, answer, cancelled, asks, callVars, deaths>>

\* The filter compares the keys of configs with names of tools.
Described ==
    /\ describing = Len(external) + 1
    /\ describing' = 0 /\ cmd' = NoCommand /\ found' = {} /\ answer' = found \cap cmd.names
    /\ UNCHANGED <<phase, bootVars, health, cancelled, asks, callVars, deaths>>

\* The loop ends: the task that accepts connections is aborted; calls that
\* are under way go on.  A command in the queue loses its reply channel.
Stop ==
    /\ \/ AtSelect /\ cancelled /\ phase' = "stopped"
       \/ phase = "failed" /\ cmd # NoCommand /\ phase' = phase
    /\ endpoint' = IF endpoint = "open" THEN "closed" ELSE endpoint
    /\ cmd' = NoCommand
    /\ UNCHANGED <<toSpawn, loaded, external, offers, urls, health, describing, found, answer, cancelled, asks, callVars, deaths>>

(***************************************************************************)
(* Tool calls                                                              *)
(***************************************************************************)
Ended(c, result) == [call EXCEPT ![c].at = "done", ![c].result = result]

\* ToolServer::dispatch_tool of the host: only a name it does not have is an
\* Err, after which the servers are asked.
HostDispatch(t) == IF t \in loaded THEN "wasm" ELSE "listing"

\* call_tool of the aggregated server: the host comes first, whatever the
\* servers offer.
CallTool(c, t) ==
    /\ endpoint = "open" /\ call[c].at = "idle"
    /\ call' = [call EXCEPT ![c].tool = t, ![c].at = HostDispatch(t), ![c].next = 1, ![c].left = EpochTimeout]
    /\ ran' = [ran EXCEPT ![c] = IF HostDispatch(t) = "wasm" THEN Append(@, "host") ELSE @]
    /\ UNCHANGED <<phase, bootVars, health, loopVars, inbox, replies, deaths>>

\* list_tools of the aggregated server: the tools of all servers, one server
\* after the other.
AskForTools(c) ==
    /\ endpoint = "open" /\ call[c].at = "idle"
    /\ call' = [call EXCEPT ![c].at = "aggregating", ![c].next = 1]
    /\ UNCHANGED <<phase, bootVars, health, loopVars, inbox, replies, ran, deaths>>

AggregateToolList(c) ==
    /\ call[c].at = "aggregating"
    /\ \/ /\ call[c].next <= Len(external) /\ health[external[call[c].next]] # "hung"
          /\ call' = [call EXCEPT ![c].next = @ + 1]
       \/ call[c].next > Len(external) /\ call' = Ended(c, "list")
    /\ UNCHANGED <<phase, bootVars, health, loopVars, inbox, replies, ran, deaths>>

\* execute_sync: the module returns, or traps, runs out of fuel, does not
\* compile, writes no text: an error result either way, never an Err.
WasmReturns(c) ==
    /\ call[c].at = "wasm"
    /\ \E result \in {"ok", "error"} : call' = Ended(c, result)
    /\ UNCHANGED <<phase, bootVars, health, loopVars, inbox, replies, ran, deaths>>

\* The task of WasmToolRunner::new: one epoch for all modules that run.
EpochTick ==
    /\ \E c \in Calls : call[c].at = "wasm" /\ call[c].left > 0
    /\ call' = [c \in Calls |-> IF call[c].at = "wasm" /\ call[c].left > 0
                                THEN [call[c] EXCEPT !.left = @ - 1] ELSE call[c]]
    /\ UNCHANGED <<phase, bootVars, health, loopVars, inbox, replies, ran, deaths>>

\* epoch_deadline_trap: the deadline set_epoch_deadline gave the store.
WasmInterrupted(c) ==
    /\ call[c].at = "wasm" /\ call[c].left = 0
    /\ call' = Ended(c, "error")
    /\ UNCHANGED <<phase, bootVars, health, loopVars, inbox, replies, ran, deaths>>

Owner(c) == external[call[c].next]

\* Mutant of ListTools: the loop ends with the first server that fails to list.
ListToolsFails(c) ==
    /\ call[c].at = "listing" /\ call[c].next <= Len(external) /\ health[Owner(c)] # "hung"
    /\ \/ /\ call[c].tool \in Listed(Owner(c))
          /\ call' = [call EXCEPT ![c].at = "calling"]
          /\ inbox' = inbox \cup {<<Owner(c), c>>}
       \/ /\ call[c].tool \notin Listed(Owner(c))
          /\ call' = [call EXCEPT ![c].next = IF health[Owner(c)] = "dead" THEN Len(external) + 1 ELSE @ + 1]
          /\ UNCHANGED inbox
    /\ UNCHANGED <<phase, bootVars, health, loopVars, replies, ran, deaths>>

\* dispatch_tool_inner: the first server that lists the tool is called, one
\* that fails to list is passed over.
ListTools(c) ==
    /\ call[c].at = "listing" /\ call[c].next <= Len(external) /\ health[Owner(c)] # "hung"
    /\ \/ /\ call[c].tool \in Listed(Owner(c))
          /\ call' = [call EXCEPT ![c].at = "calling"]
          /\ inbox' = inbox \cup {<<Owner(c), c>>}
       \/ /\ call[c].tool \notin Listed(Owner(c))
          /\ call' = [call EXCEPT ![c].next = @ + 1]
          /\ UNCHANGED inbox
    /\ UNCHANGED <<phase, bootVars, health, loopVars, replies, ran, deaths>>

UnknownTool(c) ==
    /\ call[c].at = "listing" /\ call[c].next > Len(external)
    /\ call' = Ended(c, "unknown")
    /\ UNCHANGED <<phase, bootVars, health, loopVars, inbox, replies, ran, deaths>>

\* Mutants of CallTimesOut: the next server that has the tool is tried; no
\* timeout around the call.
CallTimesOutRetried(c) ==
    /\ call[c].at = "calling" /\ Owner(c) \in Timed
    /\ call' = [call EXCEPT ![c].at = "listing", ![c].next = @ + 1]
    /\ UNCHANGED <<phase, bootVars, health, loopVars, inbox, replies, ran, deaths>>
CallTimesOutNever(c) ==
    /\ call[c].at = "calling" /\ Owner(c) \in Timed /\ health[Owner(c)] = "dead"
    /\ call' = Ended(c, "error")
    /\ UNCHANGED <<phase, bootVars, health, loopVars, inbox, replies, ran, deaths>>

\* The timeout around call_tool; the server is not told.
CallTimesOut(c) ==
    /\ call[c].at = "calling" /\ Owner(c) \in Timed
    /\ call' = Ended(c, "error")
    /\ UNCHANGED <<phase, bootVars, health, loopVars, inbox, replies, ran, deaths>>

\* call_tool fails: the server is gone.
CallFails(c) ==
    /\ call[c].at = "calling" /\ health[Owner(c)] = "dead"
    /\ call' = Ended(c, "error")
    /\ UNCHANGED <<phase, bootVars, health, loopVars, inbox, replies, ran, deaths>>

(***************************************************************************)
(* external: the servers.  The tools of one that is up may take forever.   *)
(***************************************************************************)
ServerRuns(s, c) ==
    /\ <<s, c>> \in inbox /\ health[s] = "up"
    /\ inbox' = inbox \ {<<s, c>>} /\ replies' = replies \cup {<<s, c>>}
    /\ ran' = [ran EXCEPT ![c] = Append(@, s)]
    /\ UNCHANGED <<phase, bootVars, health, loopVars, call, deaths>>

\* ... and the call, if it still waits for this server, has its result.
ServerReplies(s, c) ==
    /\ <<s, c>> \in replies /\ health[s] = "up"
    /\ replies' = replies \ {<<s, c>>}
    /\ call' = IF call[c].at = "calling" /\ Owner(c) = s THEN Ended(c, "ok") ELSE call
    /\ UNCHANGED <<phase, bootVars, health, loopVars, inbox, ran, deaths>>

\* Nothing starts a server again.
ServerFails(s) ==
    /\ health[s] = "up" /\ deaths < MaxDeaths /\ deaths' = deaths + 1
    /\ \E h \in IF Hangs THEN {"dead", "hung"} ELSE {"dead"} : health' = [health EXCEPT ![s] = h]
    /\ inbox' = {m \in inbox : m[1] # s} /\ replies' = {m \in replies : m[1] # s}
    /\ UNCHANGED <<phase, bootVars, loopVars, call, ran>>

Boot == LoadAllTools \/ SpawnServer \/ StartAggregatedServer
Loop == GetMcpUrls \/ GetToolDescriptions \/ DescribeServer \/ Described \/ Stop
Dispatch(c) == AggregateToolList(c) \/ ListTools(c) \/ UnknownTool(c) \/ CallTimesOut(c) \/ CallFails(c) \/ WasmInterrupted(c)

Next ==
    \/ Boot \/ Loop \/ Ask \/ Cancel \/ EpochTick
    \/ \E c \in Calls : Dispatch(c) \/ WasmReturns(c) \/ AskForTools(c) \/ \E t \in Tools : CallTool(c, t)
    \/ \E s \in Servers : ServerFails(s) \/ \E c \in Calls : ServerRuns(s, c) \/ ServerReplies(s, c)

Spec == Init /\ [][Next]_vars

\* The manager's task, the ticker and the tasks of the calls are scheduled; a
\* server that is up answers tools/list.  Nothing is assumed of the tools.
FairSpec ==
    /\ Spec /\ WF_vars(Boot) /\ WF_vars(Loop) /\ WF_vars(EpochTick)
    /\ \A c \in Calls : WF_vars(Dispatch(c))

(***************************************************************************)
(* Properties                                                              *)
(***************************************************************************)
\* A call is run at most once, also when it times out or its server dies while
\* a second server offers the same tool, and one that is answered with success
\* was run: dispatch_tool_inner returns whatever the first owner comes to.
RunAtMostOnce ==
    \A c \in Calls :
        /\ Len(ran[c]) <= 1
        /\ call[c].result = "ok" => Len(ran[c]) = 1
        /\ call[c].result = "unknown" => ran[c] = <<>>

\* "unknown tool" is said only of a tool that the host does not have and whose
\* servers are all gone: a server that fails hides none of the others, and no
\* order of the configuration map does.
UnknownIsGone ==
    \A c \in Calls : call[c].result = "unknown" =>
        /\ call[c].tool \notin loaded
        /\ \A s \in ToSet(external) : call[c].tool \in offers[s] => health[s] = "dead"

\* However long a tool takes, a call ends if it runs in the sandbox or on a
\* server with a timeout, and the commands of the agents manager are answered
\* meanwhile: the calls do not run in the manager's loop.
Untimed(c) == call[c].at = "calling" /\ Owner(c) \notin Timed
ToolsAnswer ==
    /\ \A c \in Calls : call[c].at \in {"wasm", "listing", "calling", "aggregating"} ~> call[c].at = "done" \/ Untimed(c)
    /\ cmd # NoCommand ~> cmd = NoCommand
=============================================================================
