# TLA+ verification of anyclaw

anyclaw runs AI agents as subprocesses and connects them to chat channels. A
supervisor starts three managers (tools, agents, channels); each is a task with
a command queue, and each owns the subprocesses it talks to over newline-delimited
JSON-RPC. This directory holds TLA+ models of that system, the TLC
configurations that check them on small instances, and TLAPS proofs of theorems
that hold for every value of the constants.

    tlc -config agents_crash.cfg AgentsManager     # one run
    tlapm AgentsManagerProofs.tla                  # one module's proofs

`PROJECT.json` lists components, runs, hazards, theorems, the lines every
definition models, and one mutant per checked property: a plausible bug, written
next to the definition it would replace, under which the run fails.

## Inventory

| Component | State | Operations | What is hard about it |
|---|---|---|---|
| Session queue (`anyclaw-agents/session_queue.rs`) | queue per session, set of active sessions | push, push_only, flush_pending, mark_idle, drain_queued | the callers combine the calls; a message left behind for an idle session is never looked at again |
| Agents manager (`manager.rs`, `commands.rs`, `incoming.rs`, `session_recovery.rs`) | slots with a connection, session_map, reverse_map, stale_sessions, awaiting_first_prompt, active_prompts, pending_permissions; streaming_completed | commands of the channels manager, incoming messages of the agent, prompt completions, exit of the agent, keepalive | four event sources in one `select!`; the agent may die, time out, answer late, or return a new id at every step |
| Agent connection (`connection.rs`, backends) | pending requests, reader, writer and stderr tasks | send_request, send_notification, reader loop, kill | responses bypass the queue that updates go through; the reader blocks on a full queue |
| Prompt task (`prompt_session`) | response receiver, idle deadline | response, error, connection lost, idle timeout | outlives the connection and the prompt it was spawned for |
| Channels manager (`anyclaw-channels/manager.rs`) | channel slots, routing table, acked sessions, group context | sendMessage, deliver, ack, permission, crash of a channel | waits for replies of the agents manager, which sends it events through a bounded queue |
| Channel connection (`connection.rs`) | pending requests, reader | as above | stops at the first malformed frame |
| Access control (`access_control.rs`) | configuration | decide | order of rules |
| Backoff, crash tracker, slot lifecycle (`anyclaw-core`) | delay, time stamps, disabled | next_delay, record_crash, is_crash_loop, reset | two sliding windows, edges of a window |
| Session and context stores | SQLite tables | upsert, load_open, mark_closed, delete_expired, store and take context | what a restart of the program finds |
| Supervisor (`anyclaw-supervisor`) | manager slots, channel ends handed out at boot | boot, health check and restart, ordered shutdown | a restart rewires only part of what boot wired; cancellation reaches everybody at once |
| Tools manager, MCP host (`anyclaw-tools`) | loaded tools, external servers, running calls | start, get_mcp_urls, get_tool_descriptions, list and call of a tool, stop | calls run beside the command loop; servers fail, hang, answer late, offer the same tool |
| WASM runner, tool SDK | modules, fuel, memory, directories | load, list, execute | limits, and what a directory entry allows |
| Permission flow (both managers, channel SDK) | pending_permissions, pending requests, broker | request, answer, timeout, auto-approval | late answers, restarts in between, ids that several agents use |
| JSON-RPC codec | buffer | decode, encode | an undecodable line ends the stream |
| Channel SDK, debug-http | harness loop, broker, pending prompts | initialize, deliver, permission, end of stdin | the loop must not wait for the user |
| Telegram channel | turn per chat, tasks, prompts, sessions | updates of the agent, messages and taps of the user | debounces, timers and handlers share a turn and call a slow API |
| Configuration, command line | - | load, resolve, validate, run | two layers of defaults, paths and limits that are resolved late |
| SDK types, wire | - | serde, normalisation of updates, content in two forms | what is lost between two processes |
| File system sandbox | - | two path checks | links |
| Admin server, status | health snapshot | refresh, serve, print | the snapshot is made without asking the agents manager |

### Interaction

    channel process --sendMessage--> ChannelsManager --CreateSession, EnqueueMessage--> AgentsManager
    AgentsManager --session/prompt--> agent process --session/update, response--> reader task
    reader task --updates, exit notice--> incoming queue --> AgentsManager
    reader task --response--> prompt task --completion queue--> AgentsManager
    AgentsManager --DeliverMessage, SessionComplete, DispatchStarted--> ChannelsManager --> channel process
    agent process --tools/list, tools/call--> aggregated MCP server (ToolsManager) --> WASM tool or external server
    agent process --session/request_permission--> both managers --> channel process --> user, and back
    Supervisor --start, run, cancel--> managers

The manager task handles one event at a time. Everything that runs concurrently
with it (reader, prompt tasks, agent process) touches only the queues it reads,
which is why a handler is one step of the model. The exception is
`handle_prompt_completion`: its drain loop reads the incoming queue while the
reader writes it, so it is several steps (`TakeCompletion`, then `ForwardUpdate`
or a crash action while `current` is set, then one of the `Finish` actions).

## Modules

Operators without state stand in modules of their own; `Computations` is the one
specification that evaluates them.

| Module | Models | Uses |
|---|---|---|
| `SessionQueue` | `session_queue.rs` as a value (queues, active set) and one operator per method | - |
| `SessionMailbox` | abstract specification: a session accepts messages and hands them over in batches, one batch at a time, each batch completing | - |
| `AgentsManager` | one agent slot with its manager task, reader task, prompt tasks, agent process and channel | `SessionQueue`, `SessionMailbox` |
| `SlotLifecycle` | `backoff.rs`, `slot_lifecycle.rs` as operators | - |
| `SlotRecovery` | the life of one slot: exits, backoff, respawn, disabled | `SlotLifecycle` |
| `Supervisor` | boot, health checks, restarts, shutdown of the three managers, the channel ends they hold | `SlotLifecycle` |
| `ChannelsManager`, `MCChannelsManager` | channel processes, the channels manager, and the agents manager as seen through its queues; which channel a conversation belongs to | - |
| `ChannelHarness` | one channel process: the loop of the SDK, the broker, debug-http | - |
| `Permissions` | a permission request from an agent to a user and back | `ChannelHarness` |
| `AgentConnection` | the connections of one slot: backend, writer, reader, codec, pending requests | - |
| `TelegramTurn` | the updates of a session on the screen of one chat | - |
| `TelegramInbound` | the user of Telegram to the supervisor | - |
| `ToolsManager` | the tools manager with the aggregated MCP server and the servers behind it | - |
| `AccessControl` | options of a channel, and who may talk to the bot | - |
| `ConfigLoad`, `ConfigValidate` | from the file to the configuration; paths, limits, `validate` and `run` | - |
| `TelegramText` | markdown to HTML, cutting of messages, button data, UTF-16 slices | - |
| `ContentParts`, `AcpWire` | session keys, content, the structs on the wire, updates and pushes of an agent, platform commands, prompts | - |
| `MockAgent` | the agent of the integration tests | `AcpWire` |
| `AgentSlots` | commands, keepalive and health of several slots; health snapshot and `anyclaw status` | `ContentParts` |
| `FsSandbox`, `WasmTools` | path checks; WASM sandbox and listing | - |
| `SessionStore` | the stored sessions through restarts | `ContentParts` |
| `Computations` | inputs of all of the above, one per behaviour | the eleven above |
| `AgentsManagerProofs`, `ChannelsManagerProofs`, `PermissionsProofs`, `ToolsManagerProofs`, `TelegramTurnProofs`, `TelegramInboundProofs`, `ComputationsProofs` | theorems | the module they are about; `AgentsManagerProofs` is about `SessionQueue`, `ComputationsProofs` about the modules `Computations` uses too |
| `LifecycleProofs` | theorems about slots and managers that crash and restart | `Supervisor`, `SlotRecovery` |

### AgentsManager

State. `sq` is the queue. `conn`, `alive`, `eof`, `crashes` are the connection:
`conn` numbers its incarnations, `eof` is a reader that has seen the end of the
stream and still has to queue its exit notice (which may have to wait for room).
`sessionMap`, `reverseMap`, `stale`, `awaiting`, `activePrompts` are the fields
of the slot; `known` and `running` are what the agent process knows and works
on; `tasks`, `completions`, `incoming`, `current` are the prompt tasks, the two
queues of the manager, and the completion whose handler is draining. Messages
and ACP session ids are numbers given out in order. The variables after "observers" are history: no guard
reads them.

| Action | Code |
|---|---|
| `CreateSession`, `Heal*`, `SessionCreated` | `CreateSession` command, `heal_session`, `create_session` |
| `EnqueueBehind`, `EnqueueDispatch`, `PromptMapped`, `PromptHealed` | `EnqueueMessage`, `flush_and_dispatch`, `prompt_session` |
| `NewCommand`, `CancelCommand` | `handle_platform_command` |
| `AgentUpdates`, `AgentResponds`, `AgentDies`, `ReaderEof` | agent process and reader task |
| `TaskLost`, `TaskTimesOut` | the task that `prompt_session` spawns |
| `ForwardUpdate` | `forward_session_update` |
| `ExitReceived`, `CrashDisables`, `CrashRestarts`, `RespawnFails`, `InitializeFails`, `RestartSessionFails`, `RestoreSessions`, `StartFreshSession` | exit notice, `handle_crash` and what it calls |
| `TakeCompletion`, `FinishIdle`, `FinishNext`, `FinishUnmapped` | `handle_prompt_completion` |

The agent may refuse a request, die at any time, restore a session under another
id (`KeepsId = FALSE`), stream late and answer never. What is assumed of it: it
never gives out an id twice.

### SlotLifecycle, SlotRecovery

A life cycle is the pruned set of time stamps, the number of crashes, the
current delay and the disabled flag. `SlotRecovery` keeps the complete history
beside it, which the properties compare with the pruned one. `Window` and
`LongWindow`, `MaxCrashes` and `LongMax` are the two crash loop conditions. With
`ExitIsNoticed = FALSE` a slot without a process is never looked at again, as in
the channels manager; with `TRUE` a failed respawn counts as a further exit.

### Supervisor

State: per manager its life cycle, its task (running, failed, stopped, or no
handle), its token, the incarnation number, and the ends of the event channel
and the command senders it was created with; the phase of the main loop and the
index of the slot it is at; the health snapshot. Each step of the loops of
`boot_managers`, `check_and_restart_managers` and `shutdown_ordered` is an
action, because tasks end and signals arrive in between.

### ChannelsManager

State: per slot its process (`status`), what it has written and is not read yet
(`inbox`), its crashes, the sessions the process was told of (`known`); the keys
of `routing_table`, `acked_sessions`, the context store; `task`, what the
manager's task is in the middle of: nothing, the wait for a reply
(`create`, `enqueue`), the backoff of a slot (`sleep`); the bounded event queue.
`ProcessExits` is the end of the output of a process: it has exited, or its reader
has met a line it cannot decode, after which it reads nothing more, whether the
process lives or not. The agents manager is reduced to what is visible here: a handler sends its
events one by one, waiting for room, and then replies. Its session queue has
four states per key; `stuck` is the session that `prompt_session` failed for,
which stays active (`AgentsManager` has the details).

### ChannelHarness, Permissions

`ChannelHarness` has the process: its two pipes, the requests it has answered
nothing to (`hpending`), the broker, the prompts the user sees, and the channel
through which `FlushPermission` sends answers. One step is one branch of the
`select!` of `run`: `ReadPermission`, `ReadDeliver`, `FlushPermission`,
`StdinEof` with `DrainEnds`. `Permissions` adds the agents (`AgentAsks`,
`AgentDies`), the agents manager (`RouteRequest`, `AutoApprove`,
`RespondPermission`, `HandleExit`), the channels manager (`RouteToChannel`,
`RouteDropped`, `DeliverToChannel`, respawn and shutdown), the task that
`route_permission_event` spawns (`TaskAnswers`, `TaskTimesOut`) and the reader of
the connection. A request is its ticket; `ridOf` is the id the code sends, which
is the JSON-RPC id of the agent and so not unique across agents or restarts.

### AgentConnection

`conn` numbers the connections; each has a reader, two pipes and an incoming
queue that all of them share. The manager's task is at one place (`mgr`): idle,
starting a backend, waiting for room, waiting for an answer, sleeping. The
Docker backend is its steps that may fail (`PullImage`, `CreateContainer`,
`AttachContainer`, `Kill`); `leaked` counts containers nobody owns, which
`CleanupStaleContainers` removes when the program starts. The reader is one
action per branch of its loop.

### TelegramTurn

`handler` is where `deliver_to_chat` is in the update it handles, `turn` the
`ChatTurn`, `tasks` the debounces and timers, `screen` the messages that are
visible. A step runs to the next call of the API or the next sleep, because the
lock of the turn is dropped there and a task may run; the debounce of a response
reads the text under one lock (`DebounceFires`) and claims the response under
another (`DebounceClaims`). A call of the API lands or
fails for good after its retries; an aborted call has landed or never lands.

### TelegramInbound

The harness loop (`OnInitialize`, `HandleAckMessage`, `ShowPermissionPrompt`,
`RememberPrompt`, `RegisterPrompt`) beside the dispatcher, which handles one
update of a chat at a time (`HandleText`, `HandleMedia`, `ResolvePhotoUrl`,
`ProcessMessage`, `TakeTap`, `ClearKeyboard`, `ProcessCallback`).

### ToolsManager

Boot (`LoadAllTools`, `SpawnServer`, `StartAggregatedServer`), the command loop
(`GetMcpUrls`, `GetToolDescriptions` with one `DescribeServer` per server,
`Stop`), the calls of the agents, which run beside it (`CallTool`, `ListTools`,
`CallTimesOut`, `CallFails`, `UnknownTool`, `AggregateToolList`), the epoch of the
WASM engine, and the servers. After `Stop` the accept task is gone and calls that
are under way go on. The supervisor hands over no native tools, so there are none.

### Computations

A behaviour is one input, chosen by `Init`; `fn` names what it is for. The
properties compare a result with what it is for (an access decision with the
entries that name the sender), or the results of two functions that have to
agree (a session key with what is parsed out of it, `validate` with `run`). The
store, the mock agent and the WASM module take sequences of operations.

## Runs

| Run | Properties | What it shows |
|---|---|---|
| `agents_crash` | `Isolation`, `ExitNoticeFresh`, `InOrder`, `ActiveIsServed`, `NoUpdateAfterComplete` | two sessions, one from an earlier run of the program, stream and complete in every order through two deaths of the agent and every failure of recovery |
| `agents_commands` | `NoIdleBacklog`, `CrashedPromptCompletes` | `/new` and `/cancel` against prompts, queued messages and a death; the channel hears of every prompt lost with its process, although there is no idle timeout |
| `agents_mailbox` | `ImplementsMailbox` | refinement of `SessionMailbox`, liveness included, even if the agent never answers |
| `slot_recovery` | `DisabledIffLoop`, `BackoffFollowsFailures` | pruned and complete history agree |
| `supervisor` | `DisabledStaysDown`, `OneIncarnation`, `ShutdownCompletes`, `CrashIsHandled` | failures, hangs and a signal at any point of the loops; shutdown ends although managers hang |
| `channels` | `NothingDiscarded`, `InConversationOrder`, `RoutedFirst`, `UpdatesRouteBack`, `MessagesAreRead` | a process ends and is respawned, a group and a direct conversation share it; through a full event queue of two places everything is handled, as long as the two managers do not wait for each other |
| `permissions` | `AnsweredOnce`, `OwnAnswer`, `RequestSettles`, `DeliveriesFlow` | late and repeated answers, timeouts, deaths on either side, a shutdown; updates pass prompts that nobody answers |
| `connection` | `ManagerGetsFree`, `LostRequestEnds`, `OutputIsRead` | deaths, floods, malformed lines, answers that never come, failures of the container daemon, with every queue and pipe full at one line |
| `telegram` | `SentOnce`, `SettledStays`, `TurnEnds` | late text, stale results, failing API calls, debounces and timers at any time |
| `telegram_inbound` | `AckNotEarlier`, `UserIsHeard` | taps before their prompt is remembered, and twice; photos that cannot be fetched |
| `tools` | `RunAtMostOnce`, `UnknownIsGone`, `ToolsAnswer` | two servers that may offer the same tool, die, or never finish a call |
| `computations` | `StrangersKeptOut`, `ValidatedStarts`, `RepliesPresentable`, `RoundTrips`, `RestoredIsLatest`, `OutsideOnlyByLink` | the functions on all inputs of small sets |

The type invariants are not among the runs: they are theorems (of
`AgentsManager`, `SlotRecovery`, `Supervisor`, `ChannelsManager`, `Permissions`
and `TelegramTurn`) or parts of the inductive invariants behind one.

### Bounds

- `AgentsManager`: `MaxMsgs` 3 or 4 messages (three are needed for a message in a
  prompt, one first and one further in the batch behind it), `MaxIds` session
  ids, `MaxUpdates` 1 update per prompt besides its result, `MaxCommands` 1,
  `MaxDeaths` 2 with `CrashLimit` 2 or 1 with 3, so that a slot both recovers and
  is disabled; `IncomingCap` 1 or 2, so that the reader has to wait (64 in the
  code).
- `SlotRecovery`: 12 ticks, 6 crashes, windows of 3 and 7 ticks: crashes fit
  both windows, either one, or none, and fall on their edges.
- `Supervisor`: 3 crashes in all, one tick, thresholds of 2 and 3: one
  manager can loop, or two can crash in turn.
- `ChannelsManager`: one process with two conversations, 2 messages, one update
  nobody asked for, one exit, a context of one entry, so that it is trimmed. The
  event queue has 2 places (64 in the code), fewer than the events of a behaviour, so it fills,
  the agents manager waits for room, and the two managers can wait for each other:
  `MutualWait`, which `UpdatesRouteBack` and `MessagesAreRead` except and
  `NeverStuck` shows (below).
- `Permissions`: two requests and a permission queue of one, so that an answer
  waits for room; one fault; one update behind the prompts.
- `AgentConnection`: every queue and pipe holds one line, two connections (one
  respawn; an exit after the last disables the slot), three requests,
  `initialize` among them, two lines that are no responses.
- `TelegramTurn`: two turns and four updates (text, thought or tool, result, and
  one that is late or belongs to the next turn), four tasks. What late text does
  to the thoughts of a later turn takes seven updates and three turns:
  `SettledStays` leaves it out by `LateText`, `CollapsedStays` below shows it.
- `TelegramInbound`: one group, two messages, one prompt tapped twice.
- `ToolsManager`: two servers, one with a timeout, one WASM tool with an epoch of
  two ticks, one call, one death, one command. Calls share nothing but the
  servers.
- `Computations`: texts of up to five or six symbols to split, and marked up texts
  of up to seven over nine alphabets of three or four symbols, each of markers that
  can meet; button data of six bytes, so that ids are cut and options may be longer
  than all of it; two entries of a list, two
  slots, three lines to the mock agent, four operations on the store, three
  instructions of a module: enough for what is first, last, doubled and left over.
  A walk follows at most `MaxLinks` = 4 links (40 in Linux), whose targets have at
  most `MaxTarget` = 4 names.

Deadlock is checked in the agents runs (`Quiescent` is the stutter of a system
that has nothing left to do) and in `computations`, which only stutters; in the
others the bounds end the behaviours.

### Fairness

Weak fairness of the steps of tasks that tokio schedules. Where `select!` may
choose another branch again and again the fairness is strong, because it polls
branches in random order. Bounded waits end: `initialize` has a timeout, the idle
timeout of a prompt passes, a debounce or timer fires. Nothing is assumed of
users, signals, or of managers as the supervisor sees them. `FairSpec` of each
module says which action has which:

- `AgentsManager`, `ChannelsManager`, `Supervisor`: managers, reader, prompt tasks.
- `Permissions`: both managers, the reader, the task of a request, with its
  timeout, and the harness reading its input. Neither agents nor users answer.
- `AgentConnection`: manager, writer, reader. The agent reads its input while it
  lives, and a line it has begun to write is written when there is room
  (`ReadsWhileWriting = FALSE` drops the first for an agent whose output is full);
  it need not answer.
- `TelegramTurn`: the handler and each task. The API answers or fails.
- `TelegramInbound`: the harness loop, and the dispatcher per chat.
- `ToolsManager`: boot, the command loop, the epoch ticker, each call. Tools need
  not finish. A server that is up answers `tools/list` (`Hangs = FALSE`).

## Proofs

Every theorem holds for all values of the constants that satisfy the `ASSUME` of
its module.

### AgentsManagerProofs

- `QueueClosed`, `CompletionBatch`, `DispatchBatch`, `BacklogPreserved`: the
  calls that handlers combine (mark_idle then drain_queued; push_only then
  flush_pending) take exactly the waiting messages in order, and keep the
  representation invariant of the queue.
- `TypeCorrect`; the proof goes through every action and, inside, every part of
  `TypeOK` that the action disturbs.
- `NoIdleBacklogHolds` is inductive with the type invariant and
  `BacklogPreserved`.
- `InOrderHolds` needs `InOrderInv`: queued messages are also smaller than the
  next one to be given out, otherwise a new message could be older than the
  queue it joins.
- `ExitNoticeFreshHolds` uses `ExitFacts`, the same statement over sequences, and
  lemmas on what `Append` and `Tail` do to the positions of notices: there is at
  most one notice, counting the reader that still has to queue one, and none
  while the process is alive.
- `IsolationHolds` needs `IsolationInv`: stale entries and the reverse map agree
  with `owner` as well, and ids not given out yet have no owner, because recovery
  moves entries between the maps.
- `ActiveIsServedHolds`. `ServedInv` says the same of the four places where an
  active session can be served (a task, a queued completion, the completion in
  hand, an excuse), and every action moves a session between them in one of five
  ways.
- `NoUpdateAfterCompleteHolds`. A prompt is known by its ticket, the message
  it was made of. `TicketInv` says that a ticket waits, is worked on or is
  answered, never two of these, and that an update of an answered ticket is in
  the queue only as long as its completion is. `TurnInv` adds, for sessions
  nobody interrupted and whose prompts nobody gave up, that what the agent works
  on has its prompt task and a streamed result an active session; and that a
  dead agent works on nothing.
- `MailboxImplemented`: under `Calm` (no deaths, no commands, an agent that loses
  no session) every step of `Spec` is a step of `SessionMailbox` or a stutter,
  under the mapping that the run `agents_mailbox` uses. `CalmInv` says that a
  routed session is mapped to an id the agent knows and that no completion is
  expired, so there is always an agent for the next batch. It is the safety
  half of `ImplementsMailbox`; the liveness half stays with TLC.

### LifecycleProofs

Of `Supervisor`: `TypeCorrect`; `DisabledStaysDownHolds` and `OneIncarnationHolds`
by `LoopInv`, which says what is known of a slot while the loop is between its
check and its restart.

Of `SlotRecovery`:

- `DisabledIffLoopHolds`, under `Window <= LongWindow` (`WholeWindowCounted` of
  `slot_counterexamples.cfg` shows what happens without it). `RecoveryInv` adds
  that every pruned crash is out of both windows for ever, and that crashes are
  numbered, so that counting pruned and complete histories is the same.
- `SlotTypeCorrect`; `BackoffFollowsFailuresHolds` by `DelayInv`: the stored delay
  is the doubled one for the number of failures, which `PowersOfTwo` and
  `DelayGrows` relate to the closed form in the property.

### ChannelsManagerProofs

- `TypeCorrect` and `NothingDiscardedHolds` together (a message is numbered by
  what its process has written).
- `RoutedFirstHolds` by `RouteInv`: the sessions of the agents manager are
  exactly the routed ones and the one whose `CreateSession` succeeded and whose
  reply is not handled yet; since the manager handles no event while it waits,
  every event it handles is of a routed session.
- `InConversationOrderHolds` by `OrderInv`: what a conversation has written is a
  chain of increasing numbers, handed over, in the batch in hand, in the stored
  context and in the pipe, in this order, whichever of the places are empty.

### PermissionsProofs

`TypeCorrect`, `AnsweredOnceHolds` and `OwnAnswerHolds` from one invariant,
`PermInv`, which follows a `request_id` along both ways. `AgentsSide`: requests
the agents wait on, the tables of the slots, the events. `ChannelSide`: the map
of the connection, the pipes, the broker of the process, its waiting answers.
`Replies`: what the tasks and the commands carry back was answered by the user
to this request, or is a timeout. The id names one request only among requests
that share it with no other, which is the premise both properties state.

### ToolsManagerProofs

`RunAtMostOnceHolds` and `UnknownIsGoneHolds` by `ToolsInv`: `CallsInv` says for
each state of a call where it has run, `SearchesInv` that a search that goes on
has passed over a server only if it is gone, and a server that is gone does not
come back. The set of servers is finite, as the order of `CallTool` needs.

### TelegramTurnProofs

`TypeCorrect`; `SentOnceHolds` by `ClaimInv`: who is about to post the response
of a turn holds the claim of that very turn object, and a response on the screen
belongs to a turn that is claimed. Every step but four leaves the claims alone
(lemmas `...Moves`); these four are proved by themselves.

`SettledStaysHolds`, an action property, by three invariants. `PlacesInv`: the
id kept for a response is that of a response and the id kept for the tools that
of the tools message, whose text is not ahead of the ended calls of the turn, so
no edit of one overwrites the other and `is_terminal` keeps ended calls ended.
`UpdateInv`: the place the handler is at goes with the kind of its update.
`ThoughtInv`, which holds as long as no text came late: every timer is the one
of the turn and only a turn whose result has come has one; every debounce of a
thought is the one of the turn, which is not being finalized, and edits the
thought that is open. Without `LateText` it is false, as `CollapsedStays` shows.

### TelegramInboundProofs

`AckNotEarlierHolds` by `AckInv`, per chat: what waits with the dispatcher, what
it works on, what it has handed over and what the supervisor has taken are
increasing message numbers, and the last id stored for reactions is not older
than the last message handed over. `OneChat` reduces a step to the chat it is in.

### ComputationsProofs

A property of `Computations` speaks of one input. Each theorem takes any input of
its shape, of any size, and not only the ones TLC enumerates; the last one,
`ComputationsHold`, states the five for `Spec` (`InputsByName` and the lemmas
`...InputsAny` say that the inputs of the run have those shapes).

- `StrangersKeptOutHolds`: any options, sender and place, the text of both written
  over any symbols; the only premise is that the keys of `groups` differ, as those
  of a JSON object do. `ParsedMeant` says that parsing an allowlist adds nobody;
  `GroupDecision` restates `evaluate_group_access` in terms of the options.
- `ValidatedStartsHolds`: no premise at all. `AgentsChecked`,
  `ValidSpawns`: what `validate_config` has no objection to is all that the spawn
  looks at again.
- `RestoredIsLatestHolds`: any conversations, agents, age limit and sequence of
  operations. `Histories` is the inductive invariant: the rows of the file are what was
  written last, less some that are too old (`Fits`). `StepFits` has a case per
  operation; `StaleRead` is what the restart at the end reads.
- `OutsideOnlyByLinkHolds`: any path and working directory, any number of
  instructions, units of fuel, and directories. What is read lies inside. What is
  accepted for writing lies in a directory inside, and the file that the write
  then opens is that very one, unless there is a link of that name; that such a
  link leads outside is `WritesStayInside` below. `WalkStepStays` says that a name
  of a walk leads from a path without links to such a path or nowhere,
  `StraightWalk` that a path without links is walked to itself, or to its first
  missing name; `ReadInside`, `StraightWritten` and `WrittenInside` follow on any disk. `InstructConfined` is the
  same for an instruction of a WASM module: each costs a unit of fuel, and
  changes a directory only if an entry for it is writable.
- `NamesReturnHolds`: `NamesReturn` is eight of the parts of `RoundTrips`. Session
  keys, button data, content, structs, commands, reply tags, slots and status: what
  one function puts together another finds, for texts of any length over any set of
  symbols that has `:` and the word `fork`. Of a button the option comes back always,
  and the id whole where both fit, else a beginning of it (`ButtonTaken`, `ButtonCut`). Two premises are facts of the callers:
  the name of a channel has no colon, nor has the option of a button. For slots the
  premise is that the two maps of a slot are inverses, which `Isolation` is about.

Three of the functions are loops (histories, modules, walks), written as recursive
functions over `0..n`. `RecursionExists` shows that such a function exists and
takes its steps, by induction over the set of numbers for which it does
(`NatSets`, from the well-foundedness of `<`), so no induction over data is needed
for them.

### What is only model-checked

- Liveness, as the prover has no rule for fairness and `ENABLED`:
  `CrashedPromptCompletes`, `ShutdownCompletes`, `CrashIsHandled`,
  `UpdatesRouteBack`, `MessagesAreRead`, `RequestSettles`, `DeliveriesFlow`,
  `TurnEnds`, `UserIsHeard`, `ToolsAnswer`, the whole of `AgentConnection`
  (which has no other properties), and the liveness half of `ImplementsMailbox`.
- Of `Computations`, `RepliesPresentable` and the parts of `RoundTrips` that are not
  in `NamesReturn`: `SlicesAgree`, `ConfigReturns`, `UpdatesAreShown`,
  `PushesAreShown`, `ToolsAreListed`, `MockAnswers`. What they compare is computed by
  folds over a text or a list, whose value for every input needs induction over
  data with an operator as parameter, or are records joined with `@@` of TLC,
  which the provers cannot expand.

## Further counterexamples

While modelling, sentences of the repository turned out not to hold of its code.
Each is a property of the module, violated under the `*_counterexamples.cfg` of
its component; they are kept for whoever works on the code in question and are
not among the runs. TLC stops at the first violation: keep one of the lines.

| Configuration | Property | What happens | Against |
|---|---|---|---|
| `agents` | `RetriesUntilLoop` | a failed respawn of an agent is not tried again | "Only a crash loop stops retries", `docs/design-principles.md` |
| | `RoutesBack` | a session restored under a new id has no reverse entry, its updates find no channel | "reverse_map must contain the new session ID", `manager.rs:881` |
| | `SkippedAreNotified` | an idle session that was prompted before hears nothing of a crash | "Sessions with an active prompt will be notified", `session_recovery.rs:71` |
| | `ReplaySuppressed` | history replayed by `session/load` reaches the channel when a prompt healed the session | "Replay events from session/load are suppressed", `slot.rs:41` |
| | `ExpiredSessionHeals` | a session that expires with messages waiting stays active for ever | "so the next inbound prompt triggers heal_session()", `incoming.rs:392` |
| | `LateResponseIsNoOp` | the late response of a cancelled prompt ends its successor | "mark_idle on an idle session is a no-op", `commands.rs:531` |
| | `QueuedSurviveRecovery` | messages behind a prompt are lost when the session cannot be restored | "Messages queued during recovery", `docs/design-principles.md` |
| `channels` | `CrashIsTemporary` | a respawned process is not told of the routed sessions; Telegram fails to deliver (`deliver.rs:286`), which ends its harness (`harness.rs:175`), until the channel is disabled | "Channel temporarily unavailable", `docs/design-principles.md:53` |
| | `NeverStuck` | with a full event queue the managers wait for each other (`manager.rs:898`, `:964`, agents `incoming.rs:371`; 64 entries in the code, and one handler may forward as many) | "Outbound agent updates route back to the originating channel", channels `manager.rs:75` |
| `connection` | `NothingLeaked` | a start, attach or initialize that fails leaves the container behind until the next run | "Manages the full container lifecycle", `docker_backend.rs:24` |
| | `MalformedIsSkipped` | a codec error ends the stream | "skipping malformed line", `connection.rs:188` |
| | `ManagerGetsFree` | an agent that does not read while its output is full blocks the manager in `send_request` (`connection.rs:350`) | "run on separate tokio tasks to prevent deadlock", `connection.rs:224` |
| `permissions` | `AnswerIsCorrelated` | the answer goes to another agent that used the same JSON-RPC id (`commands.rs:69`) | "Unique identifier for correlating the response", `permission.rs:21` |
| `slot` | `DelayNeverExceedsMax` | a base delay above the maximum is not capped | "the backoff will never exceed this", `anyclaw-config/src/types.rs:205` |
| | `OnlyLoopStopsRetries` | a failed respawn of a channel is not tried again (`manager.rs:271`) | `docs/design-principles.md:7` |
| | `WholeWindowCounted` | a window longer than the constant long window is cut (`backoff.rs:86`) | "Rolling window in seconds over which crashes are counted", `types.rs:232` |
| `supervisor` | `TimedOutIsAborted` | a manager that outlives its timeout is not aborted | "shutdown timed out, aborting", `shutdown.rs:42` |
| | `OnlyLoopStopsRestarts` | a failed `start()` during a restart is not tried again | `docs/design-principles.md:7` |
| | `RestartedIsWired` | a restarted manager is cut off from the others | "each can crash and recover independently", `docs/design-principles.md` |
| | `StopsInReverse` | managers are cancelled all at once | `docs/architecture.md:93` |
| `telegram` | `AllShown` | a text that arrives while the timer sends is dropped (`deliver.rs:665`) | "preventing the final agent response from being dropped", `CHANGELOG.md:58` |
| | `NoDuplicate` | a text is sent twice (`deliver.rs:126`) | no duplicates, `turn.rs:139` |
| | `CollapsedStays` | the timer of a late text outlives its turn and ends the next one, without `cleanup` (`deliver.rs:580`); the debounce left behind edits a collapsed thought open again | `collapse_thought` is meant to stop it, `turn.rs:309` |
| | `NothingOverwritten` | an edit of a later text replaces an earlier one (`deliver.rs:691`) | - |
| `tools` | `ToolsAnswer` | a server that hangs in `tools/list` blocks the command loop | - |
| `computations` | `InvalidRefused` | `run` boots from what `validate` refuses | "Boot aborted", `docs/design-principles.md:57` |
| | `CodeBlocksWhole` | a code block is cut | "Never split inside a <pre> block", `deliver.rs` |
| | `TagsNest` | the passes of the formatter work on each other's output: `******` becomes `<b><i></b></i>`, and bold that overlaps strike-through or a link does not nest (`formatting.rs:94-103`) | "Convert markdown-ish agent output to Telegram-safe HTML", `formatting.rs:40` |
| | `WritesStayInside` | the parent of a path to write is resolved, its last name is not, and the write follows a link of that name out of the working directory (`fs_sandbox.rs:73`, `:232`) | "Uses canonicalize() so symlinks cannot escape the sandbox", `fs_sandbox.rs:24` |
| | `UsedIsRestored` | a session in use expires: `update_last_active` has no caller | "timestamp of the last observed activity", `session_store.rs` |
| | `AcpMediaShown` | the typed check of updates refuses the media blocks of ACP that `channel.rs` would read | `channel.rs` |
| | `ShownAsConnected` | every agent is connected, with no sessions, while the agents manager runs | "Whether the agent subprocess is currently connected", core `health.rs:19` |

## Assumptions and what is left out

- A handler of a manager is one step unless something it awaits lets others
  change what it uses afterwards; where that happens it is split (the drain
  loop, the waits of the channels manager, the loops of the supervisor, the API
  calls of Telegram).
- Agents never reuse a session id.
- `ChannelsManager` sees the sessions that `CreateSession` made. A session of an
  earlier run of the program that crash recovery restores before anybody wrote
  to it has no routing entry either, and what the agent says in it is dropped
  with a warning; `AgentsManager` models that recovery.
- A write to a subprocess that is about to exit succeeds or is ignored; the code
  treats both alike.
- `session_queue.rs` has no limit on waiting messages; `MaxMsgs` is a bound of
  the models only.
- Telegram: an API call that failed for good has not landed. A retry after a
  network error whose first attempt did land would show a text twice. teloxide
  handles the updates of one chat one after the other.
- WASM: host calls that block inside WASI, the 4096 bytes of the output pipe, and
  how the path of a module is found are left out; output is trimmed as in the code; wasmtime itself is external.
- Configuration: whether the YAML library lets `!env` tags through the schema
  check is not modelled. The operators keep what the parsers do with odd input:
  `memory_limit: tiny` and NaN become 0, a unit that is not ASCII panics, `!env`
  of `007` arrives as `7`, an empty `binary: []` panics, a `PullPolicy` is
  written under a name that is refused when it is read.
- Texts: the formatter has all its passes, one after the other, but for quoted
  lines (lines 19-20 and 72-88), escaping, and the language of a code block;
  addresses of links hold no markers. `RepliesPresentable` asks of every text that
  the tags of each name are paired, and that all tags nest only where the text has
  one kind of markup besides code, with its stars all single or all double
  (`Unmixed`); of the others `TagsNest` shows that they need not. User names
  outside ASCII never match an entry.
- A request id that is cut to fit a button comes back cut, and the broker of the
  channel finds no request of that id: the tap is lost. `permissions.rs:14-16`
  compares bytes and cuts characters; the symbols of the model are of one byte.
- Paths: a file in the middle of a walk is taken for an empty directory. Nothing
  changes the disk between the check of a path and its use.
- `ValidatedStarts` compares binaries, working directories and limits; the
  path of a WASM module, `docker_host` and whether volumes exist when a container
  is spawned are not among the failures.
- `Supervisor`: `start()` returns, with or without an error. In the code it waits
  without a timeout for the handshake of each external MCP server.
- An image inside its URL is delivered with an empty URL (excluded in
  `RoundTrips`). `/cancel` of debug-http is the text `__cancel__`.
- Mock agent: a line of any kind counts as the answer it waits for.

Not modelled, as the notes in `PROJECT.json` say: the agent SDK (hooks around
each message; the program uses the adapter that changes nothing), test helpers and property-test
generators, the JSON schema and its overlays, `/metrics` and the HTTP servers,
`anyclaw init` and the banner, notifications `channel/respondPermission`, bytes
below a line of JSON, the Docker API, third-party execution. They are pure I/O or
change no state that a property could be about.

## Plan

1. Prompts of several slots beside each other in `AgentsManager`, and
   `shutdown_all`.
2. Failing statements of the context store.
