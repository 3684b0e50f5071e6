------------------------------ MODULE ConfigLoad ------------------------------
(***************************************************************************)
(* From anyclaw.yaml to the configuration the managers get                 *)
(* (crates/anyclaw-config): the !env tags of the file, the two layers of   *)
(* defaults, the built-in paths, the limits of a container, and what       *)
(* `anyclaw validate` and `anyclaw run` do with the result.  All of it is  *)
(* functions of the file, of the environment and of the disk.              *)
(*                                                                         *)
(* A mapping of the file is a function whose domain holds the keys that    *)
(* are present.  A value is a record: t its YAML type, s its text or, for  *)
(* a number, the text it is printed with.                                  *)
(***************************************************************************)
EXTENDS Integers, Sequences, FiniteSets, TLC, SequencesExt

-----------------------------------------------------------------------------
(* env_yaml.rs *)

Str(s) == [t |-> "str", s |-> s]
Num(s) == [t |-> "num", s |-> s]
Bool(s) == [t |-> "bool", s |-> s]
Failed == [t |-> "error", s |-> ""]

\* The texts of environment variables; those that parse as i64, or else as f64,
\* with the form the number is printed in again.
PrintedAs == "7" :> "7" @@ "007" :> "7" @@ "1.5" :> "1.5" @@ "1e3" :> "1000.0"
IsNumber(s) == s \in DOMAIN PrintedAs
Texts == {"true", "false", "", "7", "007", "1.5", "1e3", "word"}

CoerceValue(s) ==
    CASE s \in {"true", "false"} -> Bool(s)
      [] s = ""                  -> Str(s)
      [] IsNumber(s)             -> Num(PrintedAs[s])
      [] OTHER                   -> Str(s)

\* VAR or VAR:default; an unset variable without a default is an error.
ResolveEnvSpec(spec, env) ==
    IF spec.var \in DOMAIN env THEN {env[spec.var]} ELSE spec.default

ResolveEnvTag(v, env) ==
    IF v.t # "env" THEN v
    ELSE IF ResolveEnvSpec(v.spec, env) = {} THEN Failed
    ELSE CoerceValue(CHOOSE s \in ResolveEnvSpec(v.spec, env) : TRUE)

\* The walk over a mapping stops at the first value that fails; the caller
\* only learns that one did.
ResolveEnvTags(map, env) == [k \in DOMAIN map |-> ResolveEnvTag(map[k], env)]
EnvFailed(map) == \E k \in DOMAIN map : map[k].t = "error"

\* The env map of a workspace takes every scalar back to a string.
DeserializeStringMap(map) == [k \in DOMAIN map |-> map[k].s]

-----------------------------------------------------------------------------
(* types.rs: a field that is missing has its default.  An optional field is *)
(* a set with at most one element, in the file and in the configuration.    *)
(* Arguments, options, descriptions and input schemas, which are handed on  *)
(* unread, are left out.                                                    *)

Get(map, k, default) == IF k \in DOMAIN map THEN map[k] ELSE default

\* A command is a string or an array of strings; written back, an array of one
\* element becomes a string.
StringOrArray(y) == y.items
SerializeStringOrArray(items) == [array |-> Len(items) # 1, items |-> items]

\* 127.0.0.1, in the form hosts have here: an IP address or a list of labels.
Localhost == [ip |-> TRUE, labels |-> <<>>]

\* The functions the serde attributes name (default_log_level and so on).
Default ==
    [log_level |-> "info,hyper=warn,reqwest=warn,h2=warn,hyper_util=warn,tower=warn",
     extensions_dir |-> "/usr/local/bin", enabled |-> TRUE, readonly |-> TRUE, agent |-> "default",
     tools_server_host |-> Localhost, fuel_limit |-> 1000000, epoch_timeout |-> 30,
     memory_limit |-> 67108864, shutdown_timeout |-> 30, health_interval |-> 5, max_restarts |-> 5,
     restart_window |-> 60, admin_port |-> 3000, acp_timeout_secs |-> 30,
     prompt_idle_timeout_secs |-> 120, keepalive_interval_secs |-> 300, init_timeout_secs |-> 10,
     exit_timeout_secs |-> 5, shutdown_grace_ms |-> 100, backoff_base_ms |-> 100,
     backoff_max_secs |-> 30, crash_max |-> 5, crash_window_secs |-> 60, ttl_days |-> 7]

SqliteStoreConfig(m) == [path |-> Get(m, "path", {}), ttl_days |-> Get(m, "ttl_days", Default.ttl_days)]

SessionStoreConfig(m) ==
    IF Get(m, "type", "none") = "sqlite" THEN SqliteStoreConfig(m) @@ [type |-> "sqlite"]
    ELSE [type |-> "none"]

BackoffConfig(m) ==
    [base_delay_ms |-> Get(m, "base_delay_ms", Default.backoff_base_ms), max_delay_secs |-> Get(m, "max_delay_secs", Default.backoff_max_secs)]

CrashTrackerConfig(m) ==
    [max_crashes |-> Get(m, "max_crashes", Default.crash_max), window_secs |-> Get(m, "window_secs", Default.crash_window_secs)]

\* The strings the deserializer of PullPolicy takes; a missing key is "".
PullPolicy(s) ==
    CASE s \in {"", "if_not_present"} -> "IfNotPresent"
      [] s = "always"                 -> "Always"
      [] s = "never"                  -> "Never"
      [] OTHER                        -> "error"

LocalWorkspaceConfig(m) ==
    [type |-> "local", binary |-> StringOrArray(m.binary), working_dir |-> Get(m, "working_dir", {}),
     env |-> DeserializeStringMap(Get(m, "env", <<>>))]

DockerWorkspaceConfig(m) ==
    [type |-> "docker", image |-> m.image, pull_policy |-> PullPolicy(Get(m, "pull_policy", "")),
     entrypoint |-> {StringOrArray(e) : e \in Get(m, "entrypoint", {})},
     memory_limit |-> Get(m, "memory_limit", {}), cpu_limit |-> Get(m, "cpu_limit", {}),
     docker_host |-> Get(m, "docker_host", {}), network |-> Get(m, "network", {}),
     working_dir |-> Get(m, "working_dir", {}), env |-> DeserializeStringMap(Get(m, "env", <<>>)),
     volumes |-> Get(m, "volumes", {}), extra_hosts |-> Get(m, "extra_hosts", {})]

WorkspaceConfig(m) ==
    IF m.type = "local" THEN LocalWorkspaceConfig(m) ELSE DockerWorkspaceConfig(m)

AgentConfig(m) ==
    [workspace |-> WorkspaceConfig(m.workspace), enabled |-> Get(m, "enabled", Default.enabled),
     tools |-> Get(m, "tools", {}), acp_timeout_secs |-> Get(m, "acp_timeout_secs", {}),
     backoff |-> {BackoffConfig(b) : b \in Get(m, "backoff", {})},
     crash_tracker |-> {CrashTrackerConfig(c) : c \in Get(m, "crash_tracker", {})}]

ChannelConfig(m) ==
    [binary |-> m.binary, enabled |-> Get(m, "enabled", Default.enabled), agent |-> Get(m, "agent", Default.agent),
     init_timeout_secs |-> Get(m, "init_timeout_secs", {}),
     exit_timeout_secs |-> Get(m, "exit_timeout_secs", {}),
     backoff |-> {BackoffConfig(b) : b \in Get(m, "backoff", {})},
     crash_tracker |-> {CrashTrackerConfig(c) : c \in Get(m, "crash_tracker", {})}]

WasmSandboxConfig(m) ==
    [fuel_limit |-> Get(m, "fuel_limit", Default.fuel_limit), epoch_timeout_secs |-> Get(m, "epoch_timeout_secs", Default.epoch_timeout),
     memory_limit_bytes |-> Get(m, "memory_limit_bytes", Default.memory_limit),
     preopened_dirs |-> {[host |-> d.host, guest |-> d.guest, readonly |-> Get(d, "readonly", Default.readonly)] :
                             d \in Get(m, "preopened_dirs", {})}]

ToolConfig(m) ==
    [tool_type |-> Get(m, "tool_type", "mcp"), binary |-> Get(m, "binary", {}),
     module |-> Get(m, "module", {}), enabled |-> Get(m, "enabled", Default.enabled),
     sandbox |-> WasmSandboxConfig(Get(m, "sandbox", <<>>)),
     call_timeout_secs |-> Get(m, "call_timeout_secs", {})]

AgentsManagerConfig(m) ==
    [acp_timeout_secs |-> Get(m, "acp_timeout_secs", Default.acp_timeout_secs),
     prompt_idle_timeout_secs |-> Get(m, "prompt_idle_timeout_secs", Default.prompt_idle_timeout_secs),
     keepalive_interval_secs |-> Get(m, "keepalive_interval_secs", Default.keepalive_interval_secs),
     shutdown_grace_ms |-> Get(m, "shutdown_grace_ms", Default.shutdown_grace_ms),
     agents |-> [a \in DOMAIN Get(m, "agents", <<>>) |-> AgentConfig(m.agents[a])]]

ChannelsManagerConfig(m) ==
    [init_timeout_secs |-> Get(m, "init_timeout_secs", Default.init_timeout_secs),
     exit_timeout_secs |-> Get(m, "exit_timeout_secs", Default.exit_timeout_secs),
     channels |-> [c \in DOMAIN Get(m, "channels", <<>>) |-> ChannelConfig(m.channels[c])]]

ToolsManagerConfig(m) ==
    [tools_server_host |-> Get(m, "tools_server_host", Default.tools_server_host),
     tools |-> [t \in DOMAIN Get(m, "tools", <<>>) |-> ToolConfig(m.tools[t])]]

SupervisorConfig(m) ==
    [shutdown_timeout_secs |-> Get(m, "shutdown_timeout_secs", Default.shutdown_timeout),
     health_check_interval_secs |-> Get(m, "health_check_interval_secs", Default.health_interval),
     max_restarts |-> Get(m, "max_restarts", Default.max_restarts),
     restart_window_secs |-> Get(m, "restart_window_secs", Default.restart_window),
     admin_port |-> Get(m, "admin_port", Default.admin_port),
     permission_timeout_secs |-> Get(m, "permission_timeout_secs", {})]

AnyclawConfig(m) ==
    [log_level |-> Get(m, "log_level", Default.log_level),
     log_format |-> Get(m, "log_format", "pretty"),
     extensions_dir |-> Get(m, "extensions_dir", Default.extensions_dir),
     agents_manager |-> AgentsManagerConfig(Get(m, "agents_manager", <<>>)),
     channels_manager |-> ChannelsManagerConfig(Get(m, "channels_manager", <<>>)),
     tools_manager |-> ToolsManagerConfig(Get(m, "tools_manager", <<>>)),
     supervisor |-> SupervisorConfig(Get(m, "supervisor", <<>>)),
     session_store |-> SessionStoreConfig(Get(m, "session_store", <<>>))]

\* The derived Serialize of the structs: every field is written.  A unit variant
\* of PullPolicy is written under its Rust name.
SerializeWorkspace(w) ==
    LET env == [k \in DOMAIN w.env |-> Str(w.env[k])]
    IN  IF w.type = "local" THEN [w EXCEPT !.binary = SerializeStringOrArray(@), !.env = env]
        ELSE [w EXCEPT !.entrypoint = {SerializeStringOrArray(e) : e \in @}, !.env = env]
Serialize(c) ==
    [c EXCEPT !.agents_manager.agents = [a \in DOMAIN @ |-> [@[a] EXCEPT !.workspace = SerializeWorkspace(@)]]]

\* The name find gives is that of any enabled agent: the map has no order.
DefaultAgentNames(c) ==
    {a \in DOMAIN c.agents_manager.agents : c.agents_manager.agents[a].enabled}

-----------------------------------------------------------------------------
(* lib.rs: the embedded defaults under the file, merged key by key. *)

DEFAULTS_YAML ==
    [log_level |-> "info,hyper=warn,reqwest=warn,h2=warn,hyper_util=warn,tower=warn",
     log_format |-> "pretty",
     extensions_dir |-> "/usr/local/bin",
     agents_manager |-> [acp_timeout_secs |-> 30, prompt_idle_timeout_secs |-> 120,
                         keepalive_interval_secs |-> 300, shutdown_grace_ms |-> 100],
     channels_manager |-> [init_timeout_secs |-> 10, exit_timeout_secs |-> 5],
     tools_manager |-> [tools_server_host |-> Localhost],
     supervisor |-> [shutdown_timeout_secs |-> 30, health_check_interval_secs |-> 5,
                     max_restarts |-> 5, restart_window_secs |-> 60, admin_port |-> 3000],
     session_store |-> [type |-> "none"]]

Sections == {"agents_manager", "channels_manager", "tools_manager", "supervisor", "session_store"}

Merge(base, file) ==
    [k \in DOMAIN base \cup DOMAIN file |->
        IF k \in Sections THEN Get(file, k, <<>>) @@ Get(base, k, <<>>)
        ELSE Get(file, k, Get(base, k, <<>>))]

PullPoliciesKnown(c) ==
    \A a \in DOMAIN c.agents_manager.agents :
        LET w == c.agents_manager.agents[a].workspace
        IN  w.type = "docker" => w.pull_policy # "error"

\* The tags of a file: those of the variables the workspaces hand to their agents
\* stand for all of them.
Agents(file) == Get(Get(file, "agents_manager", <<>>), "agents", <<>>)
Vars(agent) == Get(agent.workspace, "env", <<>>)
ResolveAgent(agent, env) ==
    IF "env" \notin DOMAIN agent.workspace THEN agent
    ELSE [agent EXCEPT !.workspace.env = ResolveEnvTags(@, env)]
ResolveFile(file, env) ==
    IF Agents(file) = <<>> THEN file
    ELSE [file EXCEPT !.agents_manager.agents = [a \in DOMAIN @ |-> ResolveAgent(@[a], env)]]

\* AnyclawConfig::load: {} when an !env variable is unset or a pull policy has
\* another name, otherwise the configuration.
Load(file, env) ==
    LET resolved == ResolveFile(file, env)
    IN  IF \E a \in DOMAIN Agents(resolved) : EnvFailed(Vars(Agents(resolved)[a])) THEN {}
        ELSE {c \in {AnyclawConfig(Merge(DEFAULTS_YAML, resolved))} : PullPoliciesKnown(c)}
=============================================================================
