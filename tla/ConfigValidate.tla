---------------------------- MODULE ConfigValidate ----------------------------
(***************************************************************************)
(* What is made of a loaded configuration before anything runs             *)
(* (crates/anyclaw-config/src/resolve.rs, parse.rs, validate.rs and        *)
(* crates/anyclaw/src/main.rs): the paths of built-in binaries, the limits *)
(* of containers, and the checks of `anyclaw validate`, which              *)
(* `anyclaw run` does not make.                                            *)
(*                                                                         *)
(* A binary is a record: at is "built-in" for a path that starts with      *)
(* @built-in/, "ext" for one under the extensions directory, "abs" for     *)
(* another absolute path and "rel" for a name that is looked up on PATH.   *)
(***************************************************************************)
EXTENDS ConfigLoad

-----------------------------------------------------------------------------
(* resolve.rs *)

LEGACY_ALIASES ==
    "mock-agent" :> "agents/mock-agent" @@ "telegram-channel" :> "channels/telegram" @@
    "debug-http" :> "channels/debug-http" @@ "system-info" :> "tools/system-info" @@
    "opencode" :> "agents/opencode" @@ "agents/opencode" :> "agents/acp-bridge" @@
    "agents/opencode-wrapper" :> "agents/acp-bridge" @@ "acp" :> "agents/acp-bridge"

\* The table is read once: an alias of an alias is not followed.
ResolveBinaryPath(b) ==
    IF b.at # "built-in" THEN b
    ELSE [at |-> "ext", name |-> Get(LEGACY_ALIASES, b.name, b.name)]

\* Only the first word of a command is a path.  The index of an empty array
\* panics: Panics(c).
ResolveCommand(words) == [words EXCEPT ![1] = ResolveBinaryPath(@)]

ResolveWorkspace(w) ==
    IF w.type = "local" THEN [w EXCEPT !.binary = ResolveCommand(@)]
    ELSE [w EXCEPT !.entrypoint = {ResolveCommand(e) : e \in @}]

Panics(c) ==
    \E a \in DOMAIN c.agents_manager.agents :
        LET w == c.agents_manager.agents[a].workspace
        IN  IF w.type = "local" THEN w.binary = <<>> ELSE <<>> \in w.entrypoint

ResolveAllBinaryPaths(c) ==
    [c EXCEPT
        !.agents_manager.agents = [a \in DOMAIN @ |-> [@[a] EXCEPT !.workspace = ResolveWorkspace(@)]],
        !.channels_manager.channels = [h \in DOMAIN @ |-> [@[h] EXCEPT !.binary = ResolveBinaryPath(@)]],
        !.tools_manager.tools =
            [t \in DOMAIN @ |-> [@[t] EXCEPT !.binary = {ResolveBinaryPath(b) : b \in @}]]]

-----------------------------------------------------------------------------
(* parse.rs.  A limit is a number and a unit.  The number is f64: "bad" does *)
(* not parse, "nan" and "inf" do, "tiny" is positive but below one unit of   *)
(* the result, and "num" is n / 2048.  The cast to i64 truncates, saturates  *)
(* at MaxI64 and makes 0 of NaN; an empty or negative limit is refused.  The  *)
(* unit "wide" is a last character of several bytes: split_at panics on it.  *)

Refused == -1
MaxI64 == 2147483647        \* stands for 2^63 - 1

CastI64(num, scaled) ==
    CASE num.f \in {"nan", "tiny"} -> 0
      [] num.f = "inf"             -> MaxI64
      [] OTHER                     -> scaled

NotPositive(num) == num.f = "num" /\ num.n <= 0

\* 2048 in the divisor of n / 2048 cancels against 1024, 1024^2 and 1024^3.
ParseMemoryLimit(limit) ==
    IF limit.unit \notin {"k", "m", "g"} \/ limit.num.f = "bad" \/ NotPositive(limit.num) THEN Refused
    ELSE CastI64(limit.num, CASE limit.unit = "k" -> limit.num.n \div 2
                              [] limit.unit = "m" -> limit.num.n * 512
                              [] limit.unit = "g" -> limit.num.n * 512 * 1024)

\* The suffix m counts millicores of 10^6 nanocpus, no suffix cores of 10^9; the
\* result is in thousands of nanocpus here.
ParseCpuLimit(limit) ==
    IF limit.unit \notin {"m", ""} \/ limit.num.f = "bad" \/ NotPositive(limit.num) THEN Refused
    ELSE CastI64(limit.num, IF limit.unit = "m" THEN (limit.num.n * 125) \div 256
                            ELSE (limit.num.n * 15625) \div 32)

-----------------------------------------------------------------------------
(* validate.rs.  disk is the set of binaries and directories that exist.     *)

BinaryExists(b, disk) == b \in disk

\* An IP address, or at most 253 characters in labels of 1 to 63 letters, digits
\* and inner hyphens.  The empty host is one empty label.
HostLength(host) == FoldLeft(LAMBDA n, l : n + l.len + 1, -1, host.labels)
IsValidHost(host) ==
    \/ host.ip
    \/ /\ HostLength(host) <= 253
       /\ \A l \in ToSet(host.labels) : l.len \in 1..63 /\ l.alphanumeric /\ ~l.edgeHyphen

ValidateToolsServerHost(c) ==
    IF IsValidHost(c.tools_manager.tools_server_host) THEN {} ELSE {<<"tools_server_host">>}

\* Mutant of ValidateLocalAgent: the working directory is not looked up.
ValidateLocalAgentBinary(name, w, disk) ==
    {<<"binary", name>> : b \in {b \in {w.binary[1]} : ~BinaryExists(b, disk)}}

ValidateLocalAgent(name, w, disk) ==
         {<<"binary", name>> : b \in {b \in {w.binary[1]} : ~BinaryExists(b, disk)}}
    \cup {<<"working_dir", d>> : d \in {d \in w.working_dir : d \notin disk}}

LimitPanics(c) ==
    \E a \in DOMAIN c.agents_manager.agents :
        LET w == c.agents_manager.agents[a].workspace
        IN  w.type = "docker" /\ \E l \in w.memory_limit : l.unit = "wide"

\* docker_host needs the scheme unix:// or tcp://; a volume and an extra host a colon.
ValidateDockerAgent(name, w) ==
         {<<"memory_limit", name>> : l \in {l \in w.memory_limit : ParseMemoryLimit(l) = Refused}}
    \cup {<<"cpu_limit", name>> : l \in {l \in w.cpu_limit : ParseCpuLimit(l) = Refused}}
    \cup {<<"docker_host", name>> : h \in {h \in w.docker_host : h.scheme \notin {"unix", "tcp"}}}
    \cup {<<"volumes", name, v>> : v \in {v \in w.volumes : ~v.colon}}
    \cup {<<"extra_hosts", name, e>> : e \in {e \in w.extra_hosts : ~e.colon}}

\* Disabled agents, channels and tools are checked too.
ValidateAgents(c, disk) ==
    UNION {LET w == c.agents_manager.agents[a].workspace
           IN  IF w.type = "local" THEN ValidateLocalAgent(a, w, disk) ELSE ValidateDockerAgent(a, w) :
              a \in DOMAIN c.agents_manager.agents}

ValidateChannelBinaries(c, disk) ==
    {<<"channel", h>> : h \in {h \in DOMAIN c.channels_manager.channels :
                                   ~BinaryExists(c.channels_manager.channels[h].binary, disk)}}

ValidateToolBinaries(c, disk) ==
    {<<"tool", t>> : t \in {t \in DOMAIN c.tools_manager.tools :
                                \E b \in c.tools_manager.tools[t].binary : ~BinaryExists(b, disk)}}

ValidateConfig(c, disk) ==
    ValidateToolsServerHost(c) \cup ValidateAgents(c, disk)
    \cup ValidateChannelBinaries(c, disk) \cup ValidateToolBinaries(c, disk)

KnownKeys == Sections \cup {"log_level", "log_format", "extensions_dir"}

\* Only the top level is compared with the schema.
CheckUnknownKeys(file) == DOMAIN file \ KnownKeys

\* The part of the JSON schema that the loader does not also enforce: the enum
\* of pull_policy has no place for the empty string.
ValidateSchema(file) ==
    {a \in DOMAIN Agents(file) :
        /\ Agents(file)[a].workspace.type = "docker"
        /\ Get(Agents(file)[a].workspace, "pull_policy", "if_not_present")
               \notin {"always", "never", "if_not_present"}}

-----------------------------------------------------------------------------
(* main.rs: the outcome of the two commands *)

\* anyclaw validate: schema, unknown keys, load, resolve, validate_config.
ValidateCommand(file, strict, disk, env) ==
    IF ValidateSchema(file) # {} THEN "schema errors"
    ELSE IF strict /\ CheckUnknownKeys(file) # {} THEN "unknown keys"
    ELSE IF Load(file, env) = {} THEN "not loaded"
    ELSE IF \E c \in Load(file, env) : Panics(c) \/ LimitPanics(c) THEN "panic"
    ELSE IF \E c \in Load(file, env) : ValidateConfig(ResolveAllBinaryPaths(c), disk) # {} THEN "errors"
    ELSE "valid"

\* anyclaw run: load, and Supervisor::new, which resolves the paths and boots
\* what is left of the configuration whether it is valid or not.
RunCommand(file, env) ==
    IF Load(file, env) = {} THEN "not loaded"
    ELSE IF \E c \in Load(file, env) : Panics(c) THEN "panic"
    ELSE "boots"
BootedConfig(file, env) == ResolveAllBinaryPaths(CHOOSE c \in Load(file, env) : TRUE)

\* The spawns that fail when the managers start what is enabled.
SpawnFailures(c, disk) ==
         {a \in DOMAIN c.agents_manager.agents :
            LET g == c.agents_manager.agents[a]
            IN  /\ g.enabled
                /\ IF g.workspace.type = "local"
                   THEN g.workspace.binary[1] \notin disk \/ ~(g.workspace.working_dir \subseteq disk)
                   ELSE \/ \E l \in g.workspace.memory_limit : ParseMemoryLimit(l) = Refused
                        \/ \E l \in g.workspace.cpu_limit : ParseCpuLimit(l) = Refused}
    \cup {h \in DOMAIN c.channels_manager.channels :
            /\ c.channels_manager.channels[h].enabled
            /\ c.channels_manager.channels[h].binary \notin disk}
    \cup {t \in DOMAIN c.tools_manager.tools :
            /\ c.tools_manager.tools[t].enabled
            /\ c.tools_manager.tools[t].tool_type = "mcp"
            /\ \E b \in c.tools_manager.tools[t].binary : b \notin disk}
=============================================================================
