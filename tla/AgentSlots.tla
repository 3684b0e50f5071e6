----------------------------- MODULE AgentSlots -----------------------------
(***************************************************************************)
(* What the agents manager answers, and what it sends, from the state of   *)
(* its slots: the commands that neither prompt nor create (commands.rs),   *)
(* the keepalive and the health check (manager.rs); and what the admin       *)
(* server and `anyclaw status` say of it.  A command that fails is {}; a   *)
(* notice is <<slot, session id>>.                                         *)
(***************************************************************************)
EXTENDS ContentParts, FiniteSets

\* AgentSlot::new, with the connection and sessions that were made since.
NewSlot(name, config) ==
    [name |-> name, config |-> config, disabled |-> ~config.enabled, connection |-> FALSE,
     capabilities |-> {}, session_map |-> <<>>, reverse_map |-> <<>>]

FindSlotByName(slots, name) ==
    LET found == {i \in DOMAIN slots : slots[i].name = name}
    IN  IF found = {} THEN {} ELSE {CHOOSE i \in found : \A j \in found : i <= j}

\* No capability before initialize has been answered.
HasSessionCapability(slot, c) == \E caps \in slot.capabilities : c \in caps

AcpTimeoutFor(config, managerDefault) ==
    IF config.acp_timeout_secs = {} THEN managerDefault ELSE CHOOSE s \in config.acp_timeout_secs : TRUE

\* A request that the manager waits for: the answer, within the timeout, if
\* the connection lives.  reply is {} or {[after |-> seconds, id |-> session id]}.
Awaited(slot, reply, managerDefault) ==
    {r \in reply : slot.connection /\ r.after < AcpTimeoutFor(slot.config, managerDefault)}

ForkKey(key, id) == NewSessionKey(ChannelName(key), <<"fork">>, id)

\* The slots after session/fork, {} when it failed.
ForkSession(slots, name, key, reply, managerDefault) ==
    UNION {
        {[slots EXCEPT ![i].session_map = Replaced(@, ForkKey(key, r.id), r.id),
                       ![i].reverse_map = Replaced(@, r.id, ForkKey(key, r.id))] :
            r \in Awaited(slots[i], reply, managerDefault)} :
        i \in {i \in FindSlotByName(slots, name) :
                  HasSessionCapability(slots[i], "fork") /\ key \in DOMAIN slots[i].session_map}}

ListSessions(slots, name, reply, managerDefault) ==
    UNION {Awaited(slots[i], reply, managerDefault) :
              i \in {i \in FindSlotByName(slots, name) : HasSessionCapability(slots[i], "list")}}

\* The session/cancel notice for a session of a slot.
CancelNotice(slots, i, key) ==
    IF key \in DOMAIN slots[i].session_map /\ slots[i].connection
    THEN {<<i, slots[i].session_map[key]>>} ELSE {}

CancelSession(slots, name, key) == UNION {CancelNotice(slots, i, key) : i \in FindSlotByName(slots, name)}

\* The first slot that has the session, also if another one is connected.
CancelSessionByKey(slots, key) ==
    LET having == {i \in DOMAIN slots : key \in DOMAIN slots[i].session_map}
    IN  IF having = {} THEN {} ELSE CancelNotice(slots, CHOOSE i \in having : \A j \in having : i <= j, key)

CancelOperation(slots) ==
    UNION {UNION {CancelNotice(slots, i, key) : key \in DOMAIN slots[i].session_map} : i \in DOMAIN slots}

GetStatus(slots) ==
    [i \in DOMAIN slots |-> [name |-> slots[i].name, connected |-> slots[i].connection,
                             session_count |-> Cardinality(DOMAIN slots[i].session_map)]]

\* The slots that send_keepalive writes to.
Keepalives(slots) ==
    {i \in DOMAIN slots : ~slots[i].disabled /\ slots[i].config.docker /\ slots[i].connection}

\* A configured agent that is not enabled has no slot.
HealthCheck(configs, slots) ==
    LET enabled == {i \in DOMAIN slots : ~slots[i].disabled}
    IN  IF enabled = {} THEN \A c \in configs : ~c.enabled
        ELSE \A i \in enabled : slots[i].connection

-----------------------------------------------------------------------------
(* What the supervisor and the command line tell of the agents.            *)

\* up is the set of managers that have a task; the agents manager is not asked.
RefreshHealthSnapshot(up, agentNames, channelNames, tools) ==
    LET health == [name : agentNames, connected : {"agents" \in up}, session_count : {0}]
    IN  [status      |-> IF \E a \in health : ~a.connected THEN "degraded" ELSE "healthy",
         agents      |-> health,
         channels    |-> IF "channels" \in up THEN channelNames ELSE {},
         mcp_servers |-> {t.name : t \in {t \in tools : t.enabled /\ t.tool_type = "mcp"}}]

HealthHandler(snapshot) == IF snapshot.status = "healthy" THEN 200 ELSE 503

\* The lines of each section; an empty section is printed as (none).  The
\* count is printed of connected agents only.
FormatStatusOutput(snapshot) ==
    [agents      |-> {[name |-> a.name, status |-> IF a.connected THEN "connected" ELSE "disconnected",
                       sessions |-> IF a.connected THEN {a.session_count} ELSE {}] : a \in snapshot.agents},
     channels    |-> snapshot.channels,
     mcp_servers |-> snapshot.mcp_servers]
=============================================================================
