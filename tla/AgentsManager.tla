---------------------------- MODULE AgentsManager ----------------------------
(***************************************************************************)
(* The agents manager of crates/anyclaw-agents with one agent slot: the    *)
(* manager task (run loop of manager.rs, handlers of commands.rs,          *)
(* incoming.rs and session_recovery.rs), the reader task of the agent's    *)
(* stdout (connection.rs), one spawned task per prompt (prompt_session)    *)
(* and the agent process itself (external, modelled from how it is used).  *)
(*                                                                         *)
(* The manager task handles one event at a time and the other tasks only   *)
(* append to the queues it reads (incoming, completions), so a handler is  *)
(* one step; handle_prompt_completion, whose drain loop reads the incoming *)
(* queue while the reader keeps writing it, is several.                    *)
(*                                                                         *)
(* A message is its number in order of arrival; a prompt is identified by  *)
(* its ticket, the last message of the batch it carries.                   *)
(***************************************************************************)
EXTENDS SessionQueue, FiniteSets

CONSTANTS
    DefaultKey,    \* key of the session every agent process is started with
    None,          \* absent map entry
    Resume,        \* the agent advertises session/resume
    Load,          \* the agent advertises session/load
    KeepsId,       \* a restored session keeps its ACP session id
    Faulty,        \* spawning the agent and its answers may fail or time out
    IdleTimeout,   \* prompt_idle_timeout_secs > 0
    BootStale,     \* the keys that start() finds in the session store
    FirstFree,     \* the first ACP session id that neither the store nor the
                   \* default session uses
    MaxMsgs,       \* bound: messages sent by the channels
    MaxIds,        \* bound: ACP session ids the agent hands out
    MaxUpdates,    \* bound: streamed updates of one prompt
    MaxCommands,   \* bound: platform commands (/new, /cancel)
    MaxDeaths,     \* bound: deaths of the agent process
    CrashLimit,    \* crashes that make a crash loop
    IncomingCap    \* capacity of the incoming channel

AllKeys == Keys \cup {DefaultKey}
Ids     == 1 .. MaxIds
Msgs    == 1 .. MaxMsgs

ASSUME AgentsAssumption ==
    /\ DefaultKey \notin Keys
    /\ None \notin AllKeys /\ None \notin Nat
    /\ {Resume, Load, KeepsId, Faulty, IdleTimeout} \subseteq BOOLEAN
    /\ BootStale \subseteq Keys
    /\ FirstFree \in Nat /\ 2 <= FirstFree /\ FirstFree <= MaxIds
    /\ {MaxMsgs, MaxIds, MaxUpdates, MaxCommands, MaxDeaths} \subseteq Nat
    /\ {CrashLimit, IncomingCap} \subseteq Nat \ {0}

VARIABLES
    sq,                  \* the SessionQueue
    \* the slot's connection and its reader task
    conn,                \* incarnation of slot.connection, 0 when it is None
    alive,               \* that incarnation's process is running
    eof,                 \* a reader saw EOF and has not queued its exit notice
    crashes,             \* crashes recorded by the slot's CrashTracker
    \* the slot's session maps
    sessionMap, reverseMap, stale, awaiting, activePrompts,
    \* the agent process: the sessions it knows, the prompts it works on
    known, running,
    \* prompt tasks and the queues the manager task reads
    tasks, completions, current, incoming, streamingCompleted,
    \* the channels manager's routing table
    routed,
    \* counters behind the bounds
    nextMsg, nextId, commands,
    \* observers: they record what happened and guard nothing
    lastSent,            \* newest message of each key that reached a prompt
    owner,               \* the key an ACP session id was created for
    failed,              \* keys that were made active by a prompt not sent
    interrupted,         \* keys marked idle by a platform command
    abandoned,           \* keys with a prompt given up by the idle timeout
    dropped,             \* messages answered Ok and then discarded
    answered,            \* tickets completed by the agent's own response
    resultSeen,          \* keys that got a result since DispatchStarted
    mute,                \* keys that got SessionComplete without a result
    replayed,            \* session/load history reached a channel
    unnotified           \* idle keys that heard nothing of a crash

connVars  == <<conn, alive, eof, crashes>>
mapVars   == <<sessionMap, reverseMap, stale>>
flagVars  == <<awaiting, activePrompts>>
agentVars == <<known, running>>
taskVars  == <<tasks, completions, current>>
idVars    == <<nextId, owner>>
loseVars  == <<failed, dropped>>
seenVars  == <<resultSeen, mute, replayed, unnotified>>
vars == <<sq, connVars, mapVars, flagVars, agentVars, taskVars, incoming,
          streamingCompleted, routed, nextMsg, commands, idVars, lastSent,
          loseVars, interrupted, abandoned, answered, seenVars>>

ExitNotice == [type |-> "exit", id |-> 0, tkt |-> 0]
Update(type, id, tkt) == [type |-> type, id |-> id, tkt |-> tkt]

(* The prompt of k whose completion the manager has not finished handling. *)
OutstandingTasks(k)       == {t \in tasks : t.key = k}
OutstandingCompletions(k) == {i \in DOMAIN completions : completions[i].key = k}
Outstanding(k) ==
    \/ OutstandingTasks(k) # {}
    \/ OutstandingCompletions(k) # {}
    \/ current # None /\ current.key = k

Elements(s) == {s[i] : i \in DOMAIN s}
Newest(s)   == s[Len(s)]

-----------------------------------------------------------------------------
(* AgentsManager::start: the slot is spawned, initialized and given its    *)
(* default session; the open sessions of the store become stale sessions.  *)
(* The default session has id 1, the stored ones have ids below FirstFree. *)

Init ==
    /\ sq = NewQueue
    /\ conn = 1 /\ alive = TRUE /\ eof = FALSE /\ crashes = 0
    /\ \E stored \in [BootStale -> 2 .. FirstFree - 1] :
          /\ \A j, k \in BootStale : stored[j] = stored[k] => j = k
          /\ stale = [k \in AllKeys |-> IF k \in BootStale THEN stored[k] ELSE None]
          /\ owner = [i \in Ids |->
                        IF i = 1 THEN DefaultKey
                        ELSE IF \E k \in BootStale : stored[k] = i
                        THEN CHOOSE k \in BootStale : stored[k] = i
                        ELSE None]
    /\ sessionMap = [k \in AllKeys |-> IF k = DefaultKey THEN 1 ELSE None]
    /\ reverseMap = [i \in Ids |-> IF i = 1 THEN DefaultKey ELSE None]
    /\ awaiting = {} /\ activePrompts = {}
    /\ known = {1} /\ running = {}
    /\ tasks = {} /\ completions = <<>> /\ current = None
    /\ incoming = <<>> /\ streamingCompleted = {} /\ routed = {}
    /\ nextMsg = 1 /\ nextId = FirstFree /\ commands = 0
    /\ lastSent = [k \in Keys |-> 0]
    /\ failed = {} /\ interrupted = {} /\ abandoned = {} /\ dropped = {}
    /\ answered = {} /\ resultSeen = {} /\ mute = {}
    /\ replayed = FALSE /\ unnotified = {}

-----------------------------------------------------------------------------
(* Sessions: session/new, session/resume and session/load.                 *)

(* The agent answers a request only while its process runs.                *)
CanAnswer == conn # 0 /\ alive
MayRefuse == ~CanAnswer \/ Faulty

(* create_session when the key has no mapping yet: session/new succeeds.   *)
SessionCreated(k) ==
    /\ CanAnswer /\ nextId \in Ids
    /\ sessionMap' = [sessionMap EXCEPT ![k] = nextId]
    /\ reverseMap' = [reverseMap EXCEPT ![nextId] = k]
    /\ owner' = [owner EXCEPT ![nextId] = k]
    /\ known' = known \cup {nextId}
    /\ nextId' = nextId + 1

(* The ids with which the agent may answer a resume or load of old.        *)
RestoredIds(old) == IF KeepsId THEN {old} ELSE {old} \cup ({nextId} \cap Ids)

(* Booked for k is the id that restoring its session gave.                 *)
Booked(k, id) ==
    /\ owner' = [owner EXCEPT ![id] = k]
    /\ known' = known \cup {id}
    /\ nextId' = IF id = nextId THEN nextId + 1 ELSE nextId

(* session/load streams the conversation so far before its response.       *)
Replay(id) ==
    incoming' = IF ~Resume /\ Len(incoming) < IncomingCap
                THEN Append(incoming, Update("replay", id, 0))
                ELSE incoming

Restorable(k) == stale[k] # None /\ (Resume \/ Load)

(* heal_session, first half: the stale session is resumed or loaded.       *)
HealRestored(k) ==
    /\ Restorable(k) /\ CanAnswer
    /\ \E id \in RestoredIds(stale[k]) :
          /\ sessionMap' = [sessionMap EXCEPT ![k] = id]
          /\ reverseMap' = [reverseMap EXCEPT ![id] = k]
          /\ Booked(k, id)
          /\ Replay(id)
    /\ stale' = [stale EXCEPT ![k] = None]

(* heal_session, second half: a fresh session instead.                     *)
HealCreated(k) ==
    /\ Restorable(k) => Faulty
    /\ stale' = [stale EXCEPT ![k] = None]
    /\ SessionCreated(k)
    /\ UNCHANGED incoming

(* heal_session returns Err; only the path that found no connection before *)
(* it sent the resume or load keeps the stale id.                          *)
HealFailed(k) ==
    /\ MayRefuse
    /\ stale' = IF Restorable(k) /\ conn = 0 THEN stale
                ELSE [stale EXCEPT ![k] = None]
    /\ UNCHANGED <<sessionMap, reverseMap, idVars, known, incoming>>

(* AgentsCommand::CreateSession, which the channels manager sends until it *)
(* has a routing entry for the key (ensure_session_created).               *)
CreateSession(k) ==
    /\ current = None
    /\ k \notin routed
    /\ \/ /\ stale[k] # None
          /\ HealRestored(k)
          /\ awaiting' = IF Resume THEN awaiting ELSE awaiting \cup {sessionMap'[k]}
          /\ routed' = routed \cup {k}
       \/ /\ stale[k] # None
          /\ HealCreated(k)
          /\ routed' = routed \cup {k}
          /\ UNCHANGED awaiting
       \/ /\ stale[k] # None
          /\ HealFailed(k)
          /\ UNCHANGED <<routed, awaiting>>
       \/ /\ stale[k] = None /\ sessionMap[k] # None
          /\ routed' = routed \cup {k}
          /\ UNCHANGED <<mapVars, idVars, known, incoming, awaiting>>
       \/ /\ stale[k] = None /\ sessionMap[k] = None
          /\ SessionCreated(k)
          /\ routed' = routed \cup {k}
          /\ UNCHANGED <<stale, incoming, awaiting>>
    /\ UNCHANGED <<sq, connVars, activePrompts, running, taskVars,
                   streamingCompleted, nextMsg, commands, lastSent, loseVars,
                   interrupted, abandoned, answered, seenVars>>

-----------------------------------------------------------------------------
(* Prompts.                                                                *)

(* The end of prompt_session: session/prompt is written to the agent and a *)
(* task is spawned to wait for the response.  A request written to a dead  *)
(* process is never answered.                                              *)
PromptSent(k, id, batch) ==
    LET tkt == Newest(batch) IN
    /\ conn # 0
    /\ tasks' = tasks \cup {[key |-> k, inc |-> conn, tkt |-> tkt]}
    /\ running' = IF alive
                  THEN running \cup {[id |-> id, tkt |-> tkt, left |-> MaxUpdates]}
                  ELSE running
    /\ activePrompts' = activePrompts \cup {id}
    /\ awaiting' = awaiting \ {id}
    /\ lastSent' = [lastSent EXCEPT ![k] = tkt]

(* prompt_session for a key that has a mapping.                            *)
PromptMapped(k, batch) ==
    /\ sessionMap[k] # None
    /\ UNCHANGED <<mapVars, idVars, known, incoming>>
    /\ \/ /\ PromptSent(k, sessionMap[k], batch)
          /\ UNCHANGED failed
       \/ /\ ~CanAnswer       \* no connection, or its stdin is closed
          /\ failed' = failed \cup {k}
          /\ awaiting' = awaiting \ {sessionMap[k]}
          /\ UNCHANGED <<tasks, running, activePrompts, lastSent>>

(* prompt_session for a key that has none: heal_session comes first.       *)
PromptHealed(k, batch) ==
    /\ sessionMap[k] = None
    /\ \/ /\ HealRestored(k) \/ HealCreated(k)
          /\ PromptSent(k, sessionMap'[k], batch)
          /\ UNCHANGED failed
       \/ /\ HealFailed(k)
          /\ failed' = failed \cup {k}
          /\ UNCHANGED <<flagVars, running, tasks, lastSent>>

(* AgentsCommand::EnqueueMessage with an ordinary message for a session    *)
(* that is being prompted: it waits.                                       *)
EnqueueBehind(k) ==
    /\ current = None
    /\ k \in routed /\ nextMsg \in Msgs
    /\ IsActive(sq, k)
    /\ sq' = Push(sq, k, nextMsg)
    /\ nextMsg' = nextMsg + 1
    /\ UNCHANGED <<connVars, mapVars, flagVars, agentVars, taskVars, incoming,
                   streamingCompleted, routed, commands, idVars, lastSent,
                   loseVars, interrupted, abandoned, answered, seenVars>>

(* The same for an idle session: push_only, then flush_and_dispatch.  The  *)
(* error of a prompt that cannot be sent is the reply.                     *)
EnqueueDispatch(k) ==
    LET pushed == PushOnly(sq, k, nextMsg)
        batch  == FlushPendingReturns(pushed, k)
    IN
    /\ current = None
    /\ k \in routed /\ nextMsg \in Msgs
    /\ ~IsActive(sq, k)
    /\ sq' = FlushPending(pushed, k)
    /\ nextMsg' = nextMsg + 1
    /\ resultSeen' = resultSeen \ {k}              \* DispatchStarted
    /\ PromptMapped(k, batch) \/ PromptHealed(k, batch)
    /\ UNCHANGED <<connVars, completions, current, streamingCompleted, routed,
                   commands, dropped, interrupted, abandoned, answered, mute,
                   replayed, unnotified>>

-----------------------------------------------------------------------------
(* Platform commands bypass the queue (handle_platform_command).           *)

(* The queue is marked idle and what mark_idle returns is thrown away.     *)
MarkIdleDiscarding(k) ==
    /\ sq' = MarkIdle(sq, k)
    /\ dropped' = dropped \cup Elements(MarkIdleReturns(sq, k))
    /\ interrupted' = interrupted \cup {k}

(* /new: the old mapping goes, session/new gives another.  When that fails *)
(* the command returns early and the queue stays as it is.                 *)
NewCommand(k) ==
    LET cleared == [i \in Ids |-> IF reverseMap[i] = k THEN None ELSE reverseMap[i]]
    IN
    /\ current = None
    /\ k \in routed /\ commands < MaxCommands
    /\ commands' = commands + 1
    /\ \/ /\ CanAnswer /\ nextId \in Ids
          /\ sessionMap' = [sessionMap EXCEPT ![k] = nextId]
          /\ reverseMap' = [cleared EXCEPT ![nextId] = k]
          /\ owner' = [owner EXCEPT ![nextId] = k]
          /\ known' = known \cup {nextId}
          /\ nextId' = nextId + 1
          /\ resultSeen' = resultSeen \ {k}        \* DispatchStarted
          /\ MarkIdleDiscarding(k)
       \/ /\ MayRefuse
          /\ sessionMap' = [sessionMap EXCEPT ![k] = None]
          /\ reverseMap' = cleared
          /\ UNCHANGED <<idVars, known, resultSeen, sq, dropped, interrupted>>
    /\ UNCHANGED <<connVars, stale, flagVars, running, taskVars, incoming,
                   streamingCompleted, routed, nextMsg, lastSent, failed,
                   abandoned, answered, mute, replayed, unnotified>>

(* /cancel: with a mapping and a connection session/cancel is sent and the *)
(* queue is marked idle; otherwise the channel gets a complete synthetic   *)
(* turn and the queue is left alone.                                       *)
CancelCommand(k) ==
    /\ current = None
    /\ k \in routed /\ commands < MaxCommands
    /\ commands' = commands + 1
    /\ \/ /\ sessionMap[k] # None /\ conn # 0
          /\ resultSeen' = resultSeen \ {k}
          /\ MarkIdleDiscarding(k)
       \/ /\ sessionMap[k] = None \/ ~CanAnswer
          /\ resultSeen' = resultSeen \cup {k}
          /\ UNCHANGED <<sq, dropped, interrupted>>
    /\ UNCHANGED <<connVars, mapVars, flagVars, agentVars, taskVars, incoming,
                   streamingCompleted, routed, nextMsg, idVars, lastSent, failed,
                   abandoned, answered, mute, replayed, unnotified>>

-----------------------------------------------------------------------------
(* The agent process and the reader of its stdout.  The reader hands over  *)
(* what the process writes in order: updates through the bounded incoming  *)
(* queue, a response straight to the task that waits for it.               *)

(* A streamed update of a prompt; after its result there are no more.      *)
AgentUpdates(p, type) ==
    /\ p.left > 0
    /\ Len(incoming) < IncomingCap
    /\ incoming' = Append(incoming, Update(type, p.id, p.tkt))
    /\ running' = (running \ {p})
                    \cup {[p EXCEPT !.left = IF type = "result" THEN 0 ELSE @ - 1]}
    /\ UNCHANGED <<sq, connVars, mapVars, flagVars, known, taskVars,
                   streamingCompleted, routed, nextMsg, commands, idVars,
                   lastSent, loseVars, interrupted, abandoned, answered, seenVars>>

(* A task's outcome goes to the completion queue and the task ends.        *)
TaskEnds(t, kind) ==
    /\ tasks' = tasks \ {t}
    /\ completions' = Append(completions, [key |-> t.key, kind |-> kind, tkt |-> t.tkt])

(* The response to a prompt: "session not found" for a session this        *)
(* process does not know, otherwise a stop reason or an error.  Nobody     *)
(* waits for it once the task has given up.                                *)
AgentResponds(p) ==
    /\ running' = running \ {p}
    /\ \/ \E t \in tasks :
             /\ t.tkt = p.tkt
             /\ \E kind \in IF p.id \in known THEN {"ok", "error"} ELSE {"expired"} :
                   TaskEnds(t, kind)
             /\ answered' = answered \cup {p.tkt}
       \/ /\ \A t \in tasks : t.tkt # p.tkt
          /\ UNCHANGED <<tasks, completions, answered>>
    /\ UNCHANGED <<sq, connVars, mapVars, flagVars, known, current, incoming,
                   streamingCompleted, routed, nextMsg, commands, idVars,
                   lastSent, loseVars, interrupted, abandoned, seenVars>>

(* The process exits, and with it what it knew and worked on.  (A stdout   *)
(* that is closed or overruns the codec's line limit looks the same to the *)
(* manager, which then kills the process.)                                 *)
AgentDies ==
    /\ alive /\ crashes < MaxDeaths
    /\ alive' = FALSE /\ eof' = TRUE
    /\ known' = {} /\ running' = {}
    /\ UNCHANGED <<sq, conn, crashes, mapVars, flagVars, taskVars, incoming,
                   streamingCompleted, routed, nextMsg, commands, idVars,
                   lastSent, loseVars, interrupted, abandoned, answered, seenVars>>

(* Mutant of ReaderEof: the reader does not stop after its exit notice.    *)
ReaderEofRepeats ==
    /\ eof /\ Len(incoming) < IncomingCap
    /\ incoming' = Append(incoming, ExitNotice)
    /\ UNCHANGED <<sq, connVars, mapVars, flagVars, agentVars, taskVars,
                   streamingCompleted, routed, nextMsg, commands, idVars,
                   lastSent, loseVars, interrupted, abandoned, answered,
                   seenVars>>

(* The reader reaches EOF: one exit notice, behind everything it read.     *)
ReaderEof ==
    /\ eof /\ Len(incoming) < IncomingCap
    /\ incoming' = Append(incoming, ExitNotice)
    /\ eof' = FALSE
    /\ UNCHANGED <<sq, conn, alive, crashes, mapVars, flagVars, agentVars,
                   taskVars, streamingCompleted, routed, nextMsg, commands,
                   idVars, lastSent, loseVars, interrupted, abandoned, answered,
                   seenVars>>

-----------------------------------------------------------------------------
(* The prompt tasks.                                                       *)

(* The connection the prompt was sent on has been dropped, and with it the *)
(* sender of the response.                                                 *)
TaskLost(t) ==
    /\ t.inc # conn
    /\ TaskEnds(t, "lost")
    /\ UNCHANGED <<sq, connVars, mapVars, flagVars, agentVars, current, incoming,
                   streamingCompleted, routed, nextMsg, commands, idVars,
                   lastSent, loseVars, interrupted, abandoned, answered, seenVars>>

(* No activity for the idle timeout.                                       *)
TaskTimesOut(t) ==
    /\ IdleTimeout
    /\ TaskEnds(t, "timeout")
    /\ abandoned' = abandoned \cup {t.key}
    /\ UNCHANGED <<sq, connVars, mapVars, flagVars, agentVars, current, incoming,
                   streamingCompleted, routed, nextMsg, commands, idVars,
                   lastSent, loseVars, interrupted, answered, seenVars>>

-----------------------------------------------------------------------------
(* handle_incoming for session/update (forward_session_update).            *)
ForwardUpdate ==
    /\ incoming # <<>> /\ Head(incoming) # ExitNotice
    /\ LET u == Head(incoming)
           k == reverseMap[u.id]
           delivered == u.id \notin awaiting /\ k # None
       IN
       /\ resultSeen' = IF delivered /\ u.type = "result"
                        THEN resultSeen \cup {k} ELSE resultSeen
       /\ streamingCompleted' = IF delivered /\ u.type = "result"
                                THEN streamingCompleted \cup {k}
                                ELSE streamingCompleted
       /\ replayed' = (replayed \/ (delivered /\ u.type = "replay"))
    /\ incoming' = Tail(incoming)
    /\ UNCHANGED <<sq, connVars, mapVars, flagVars, agentVars, taskVars, routed,
                   nextMsg, commands, idVars, lastSent, loseVars, interrupted,
                   abandoned, answered, mute, unnotified>>

-----------------------------------------------------------------------------
(* handle_crash: the exit notice is the next incoming message.             *)

Disabled == crashes >= CrashLimit

ExitReceived ==
    /\ incoming # <<>> /\ Head(incoming) = ExitNotice
    /\ current = None => ~Disabled    \* the drain loop has no such check
    /\ crashes' = crashes + 1

(* prepare_restart: the crash tracker reports a loop, the slot is disabled.*)
CrashDisables ==
    /\ ExitReceived
    /\ crashes' >= CrashLimit
    /\ incoming' = Tail(incoming)
    /\ conn' = 0 /\ alive' = FALSE
    /\ UNCHANGED <<sq, eof, mapVars, flagVars, agentVars, taskVars,
                   streamingCompleted, routed, nextMsg, commands, idVars,
                   lastSent, loseVars, interrupted, abandoned, answered, seenVars>>

(* notify_crash_to_channels: an error result for every mapped session      *)
(* whose ACP session id has no entry in active_prompts.                    *)
NotifyCrash ==
    LET mapped  == {k \in AllKeys : sessionMap[k] # None}
        skipped == {k \in mapped : sessionMap[k] \in activePrompts}
    IN
    /\ resultSeen' = resultSeen \cup ((mapped \ skipped) \cap Keys)
    /\ unnotified' = unnotified \cup {k \in skipped \cap Keys : ~Outstanding(k)}
    /\ activePrompts' = {}

CrashRestarts ==
    /\ ExitReceived
    /\ crashes' < CrashLimit
    /\ NotifyCrash
    /\ UNCHANGED <<sq, taskVars, streamingCompleted, routed, nextMsg, commands,
                   lastSent, loseVars, interrupted, abandoned, answered, mute,
                   replayed>>

(* The sessions that survive the crash boundary.                           *)
Survivors == [k \in AllKeys |-> IF sessionMap[k] # None THEN sessionMap[k] ELSE stale[k]]

(* Mutant of RespawnFails: the dead connection stays in the slot.          *)
RespawnFailsKeepsConn ==
    /\ CrashRestarts /\ Faulty
    /\ incoming' = Tail(incoming)
    /\ UNCHANGED <<conn, alive, eof, mapVars, awaiting, agentVars, idVars>>

(* respawn_and_initialize: the spawn fails, and there is nothing whose end *)
(* would be noticed.                                                       *)
RespawnFails ==
    /\ CrashRestarts /\ Faulty
    /\ incoming' = Tail(incoming)
    /\ conn' = 0 /\ alive' = FALSE
    /\ UNCHANGED <<eof, mapVars, awaiting, agentVars, idVars>>

(* respawn_and_initialize: the handshake fails; dropping the connection    *)
(* kills the new process, whose reader then sees EOF.                      *)
InitializeFails ==
    /\ CrashRestarts /\ Faulty
    /\ incoming' = Tail(incoming)
    /\ conn' = 0 /\ alive' = FALSE /\ eof' = TRUE
    /\ UNCHANGED <<mapVars, awaiting, agentVars, idVars>>

(* restore_or_start_session: neither restored nor started; the connection  *)
(* is dropped as above.                                                    *)
RestartSessionFails ==
    /\ CrashRestarts /\ Faulty
    /\ incoming' = Tail(incoming)
    /\ conn' = 0 /\ alive' = FALSE /\ eof' = TRUE
    /\ sessionMap' = [k \in AllKeys |-> None]
    /\ stale' = Survivors
    /\ awaiting' = {}
    /\ UNCHANGED <<reverseMap, agentVars, idVars>>

NewIncarnation == conn' = crashes' + 1 /\ alive' = TRUE /\ UNCHANGED eof

(* Mutant of RestoredMap: the id that was returned goes to every session.  *)
RestoredMapToAll(k0, id) ==
    [k \in AllKeys |-> IF Survivors[k] # None THEN id ELSE None]

(* try_restore_session: one stale session, whichever the map yields first, *)
(* is resumed or loaded; all of them become mappings again.  reverse_map   *)
(* is left as it was.                                                      *)
RestoredMap(k0, id) == [Survivors EXCEPT ![k0] = id]

RestoreSessions ==
    /\ CrashRestarts
    /\ Resume \/ Load
    /\ NewIncarnation
    /\ \E k0 \in {k \in AllKeys : Survivors[k] # None} :
       \E id \in RestoredIds(Survivors[k0]) :
          /\ sessionMap' = RestoredMap(k0, id)
          /\ owner' = [owner EXCEPT ![id] = k0]
          /\ known' = {id}
          /\ nextId' = IF id = nextId THEN nextId + 1 ELSE nextId
          /\ awaiting' = IF Resume THEN {}
                         ELSE {sessionMap'[k] : k \in AllKeys} \ {None}
          /\ incoming' = IF Resume THEN Tail(incoming)
                         ELSE Append(Tail(incoming), Update("replay", id, 0))
    /\ stale' = [k \in AllKeys |-> None]
    /\ running' = {}
    /\ UNCHANGED reverseMap

(* restore_or_start_session: a fresh default session; every other session  *)
(* stays stale until its next prompt heals it.                             *)
StartFreshSession ==
    /\ CrashRestarts
    /\ (Resume \/ Load) => Faulty \/ \A k \in AllKeys : Survivors[k] = None
    /\ nextId \in Ids
    /\ NewIncarnation
    /\ incoming' = Tail(incoming)
    /\ sessionMap' = [k \in AllKeys |-> IF k = DefaultKey THEN nextId ELSE None]
    /\ reverseMap' = [i \in Ids |-> IF i = nextId THEN DefaultKey ELSE None]
    /\ stale' = Survivors
    /\ owner' = [owner EXCEPT ![nextId] = DefaultKey]
    /\ known' = {nextId} /\ running' = {}
    /\ nextId' = nextId + 1
    /\ awaiting' = {}

HandleCrash ==
    \/ CrashDisables
    \/ RespawnFails
    \/ InitializeFails
    \/ RestartSessionFails
    \/ RestoreSessions
    \/ StartFreshSession

-----------------------------------------------------------------------------
(* handle_prompt_completion.                                               *)

TakeCompletion ==
    /\ current = None /\ completions # <<>>
    /\ current' = Head(completions)
    /\ completions' = Tail(completions)
    /\ UNCHANGED <<sq, connVars, mapVars, flagVars, agentVars, tasks, incoming,
                   streamingCompleted, routed, nextMsg, commands, idVars,
                   lastSent, loseVars, interrupted, abandoned, answered, seenVars>>

(* Mutant of Drained: the queued updates are not waited for.               *)
DrainSkipped == TRUE

(* The drain loop found the incoming queue empty.                          *)
Drained == incoming = <<>>

(* A session the agent did not find: its mapping becomes a stale session.  *)
ExpireSession(k) ==
    IF current.kind = "expired" /\ sessionMap[k] # None
    THEN /\ sessionMap' = [sessionMap EXCEPT ![k] = None]
         /\ stale' = [stale EXCEPT ![k] = sessionMap[k]]
         /\ reverseMap' = [reverseMap EXCEPT ![sessionMap[k]] = None]
    ELSE UNCHANGED mapVars

(* A result unless one was streamed, then SessionComplete.                 *)
ReportsResult(k) == k \notin streamingCompleted

CompleteSession(k) ==
    /\ streamingCompleted' = streamingCompleted \ {k}
    /\ mute' = IF k \in resultSeen \/ ReportsResult(k) THEN mute ELSE mute \cup {k}
    /\ current' = None

(* Nothing is waiting: the session is idle.                                *)
FinishIdle ==
    /\ current # None /\ Drained
    /\ LET k == current.key IN
       /\ sq.queues[k] = <<>>
       /\ CompleteSession(k)
       /\ ExpireSession(k)
       /\ sq' = MarkIdle(sq, k)
       /\ resultSeen' = resultSeen \cup {k}
    /\ UNCHANGED <<connVars, flagVars, agentVars, tasks, completions, incoming,
                   routed, nextMsg, commands, idVars, lastSent, loseVars,
                   interrupted, abandoned, answered, replayed, unnotified>>

(* Everything that waits becomes the next prompt.                          *)
FinishNext ==
    /\ current # None /\ Drained
    /\ LET k == current.key
           batch == MarkIdleReturns(sq, k) \o DrainQueuedReturns(MarkIdle(sq, k), k)
       IN
       /\ sq.queues[k] # <<>>
       /\ current.kind # "expired"
       /\ CompleteSession(k)
       /\ sq' = DrainQueued(MarkIdle(sq, k), k)
       /\ resultSeen' = resultSeen \ {k}           \* DispatchStarted
       /\ PromptMapped(k, batch)
       /\ dropped' = IF failed' = failed THEN dropped ELSE dropped \cup Elements(batch)
    /\ UNCHANGED <<connVars, completions, routed, nextMsg, commands, interrupted,
                   abandoned, answered, replayed, unnotified>>

(* Messages wait but no slot has a mapping for the key any more: the batch *)
(* is taken out of the queue and goes nowhere.                             *)
FinishUnmapped ==
    /\ current # None /\ Drained
    /\ LET k == current.key
           batch == MarkIdleReturns(sq, k) \o DrainQueuedReturns(MarkIdle(sq, k), k)
       IN
       /\ sq.queues[k] # <<>>
       /\ current.kind = "expired" \/ sessionMap[k] = None
       /\ CompleteSession(k)
       /\ ExpireSession(k)
       /\ sq' = DrainQueued(MarkIdle(sq, k), k)
       /\ resultSeen' = resultSeen \cup {k}
       /\ failed' = failed \cup {k}
       /\ dropped' = dropped \cup Elements(batch)
    /\ UNCHANGED <<connVars, flagVars, agentVars, tasks, completions, incoming,
                   routed, nextMsg, commands, idVars, lastSent, interrupted,
                   abandoned, answered, replayed, unnotified>>

FinishCompletion == FinishIdle \/ FinishNext \/ FinishUnmapped

-----------------------------------------------------------------------------
(* The manager waits for its next event: nothing is under way anywhere.    *)
Quiescent ==
    /\ tasks = {} /\ completions = <<>> /\ current = None
    /\ incoming = <<>> /\ ~eof
    /\ UNCHANGED vars

Next ==
    \/ \E k \in Keys : CreateSession(k)
    \/ \E k \in Keys : EnqueueBehind(k)
    \/ \E k \in Keys : EnqueueDispatch(k)
    \/ \E k \in Keys : NewCommand(k)
    \/ \E k \in Keys : CancelCommand(k)
    \/ \E p \in running : \E type \in {"chunk", "result"} : AgentUpdates(p, type)
    \/ \E p \in running : AgentResponds(p)
    \/ AgentDies
    \/ ReaderEof
    \/ \E t \in tasks : TaskLost(t)
    \/ \E t \in tasks : TaskTimesOut(t)
    \/ ForwardUpdate
    \/ CrashDisables
    \/ RespawnFails
    \/ InitializeFails
    \/ RestartSessionFails
    \/ RestoreSessions
    \/ StartFreshSession
    \/ TakeCompletion
    \/ FinishIdle
    \/ FinishNext
    \/ FinishUnmapped
    \/ Quiescent

Spec == Init /\ [][Next]_vars

-----------------------------------------------------------------------------
(* Properties                                                              *)

Tickets     == 0 .. MaxMsgs
Kinds       == {"ok", "error", "expired", "lost", "timeout"}
Completions == [key : Keys, kind : Kinds, tkt : Tickets]
Prompts     == [id : Ids, tkt : Tickets, left : 0 .. MaxUpdates]
PromptTasks == [key : Keys, inc : Nat, tkt : Tickets]
Updates     == [type : {"chunk", "result", "replay"}, id : Ids, tkt : Tickets]

ASSUME NoneAssumption == None \notin Completions

QueueType ==
    /\ sq \in [queues : [Keys -> Seq(Msgs)], active : SUBSET Keys]
    /\ nextMsg \in 1 .. MaxMsgs + 1
    /\ lastSent \in [Keys -> Tickets]

ConnType ==
    /\ conn \in Nat /\ crashes \in Nat
    /\ incoming \in Seq(Updates \cup {ExitNotice})

MapType ==
    /\ sessionMap \in [AllKeys -> Ids \cup {None}]
    /\ reverseMap \in [Ids -> AllKeys \cup {None}]
    /\ stale \in [AllKeys -> Ids \cup {None}]
    /\ owner \in [Ids -> AllKeys \cup {None}]
    /\ awaiting \subseteq Ids /\ activePrompts \subseteq Ids /\ known \subseteq Ids
    /\ nextId \in 1 .. MaxIds + 1

TaskType ==
    /\ running \subseteq Prompts /\ tasks \subseteq PromptTasks
    /\ completions \in Seq(Completions)
    /\ current \in Completions \cup {None}

ObserverType ==
    /\ streamingCompleted \subseteq AllKeys /\ resultSeen \subseteq AllKeys
    /\ routed \subseteq Keys /\ failed \subseteq Keys /\ interrupted \subseteq Keys
    /\ abandoned \subseteq Keys /\ mute \subseteq Keys /\ unnotified \subseteq Keys
    /\ dropped \subseteq Msgs /\ answered \subseteq Tickets
    /\ commands \in 0 .. MaxCommands

FlagType == alive \in BOOLEAN /\ eof \in BOOLEAN /\ replayed \in BOOLEAN

(* Every variable keeps the shape that the queues, maps and tasks of the   *)
(* manager have: above all, a map entry made by session/new, a restore or  *)
(* a heal pairs a session key with an ACP session id, and an update in the *)
(* incoming queue always names one.                                        *)
TypeOK ==
    QueueType /\ ConnType /\ MapType /\ TaskType /\ ObserverType /\ FlagType

(* Messages reach the agent in the order in which they arrived: what waits *)
(* in a session's queue is strictly increasing and newer than everything   *)
(* already prompted, whatever push, mark_idle, flush_pending, drain_queued,*)
(* crashes and platform commands did to the queue.                         *)
InOrder ==
    \A k \in Keys :
        LET q == sq.queues[k] IN
        /\ \A i \in 1 .. Len(q) : lastSent[k] < q[i] /\ q[i] < nextMsg
        /\ \A i, j \in 1 .. Len(q) : i < j => q[i] < q[j]

(* An idle session has no backlog: a waiting message always has a running  *)
(* prompt whose completion will look at the queue.                         *)
NoIdleBacklog ==
    \A k \in Keys : sq.queues[k] # <<>> => IsActive(sq, k)

(* As long as no platform command marked it idle, a session has at most    *)
(* one prompt outstanding, and none while it is idle.                      *)
SerialPrompts ==
    \A k \in Keys \ interrupted :
        /\ Outstanding(k) => IsActive(sq, k)
        /\ \A t, u \in OutstandingTasks(k) : t = u
        /\ \A i, j \in OutstandingCompletions(k) : i = j
        /\ ~ (OutstandingTasks(k) # {} /\ OutstandingCompletions(k) # {})
        /\ current # None /\ current.key = k =>
              OutstandingTasks(k) = {} /\ OutstandingCompletions(k) = {}

(* A session is kept active only by a prompt whose completion is still to  *)
(* be handled, unless prompt_session failed for it, and by one at a time:  *)
(* is_active, push and flush_pending never let a second prompt go beside   *)
(* the first, through crashes and recoveries.                              *)
ActiveIsServed ==
    /\ \A k \in Keys : IsActive(sq, k) => Outstanding(k) \/ k \in failed
    /\ SerialPrompts

(* The channel is never told that a session is complete without a result   *)
(* in between, unless an earlier prompt of the session was abandoned to    *)
(* the idle timeout or to a platform command.                              *)
ResultBeforeComplete == mute \subseteq interrupted \cup abandoned

(* The end of a prompt is told in order, whichever branch select! takes    *)
(* first: an update that the agent streamed before its response is never   *)
(* left in the incoming queue after SessionComplete was sent for the       *)
(* prompt, and SessionComplete follows a result.                           *)
NoUpdateAfterComplete ==
    /\ ResultBeforeComplete
    /\ \A i \in DOMAIN incoming :
          incoming[i].tkt \in answered =>
             \/ \E j \in DOMAIN completions : completions[j].tkt = incoming[i].tkt
             \/ current # None /\ current.tkt = incoming[i].tkt

(* Conversations do not mix: an ACP session id is only ever mapped to,     *)
(* kept for, or routed to the session key it was created for, through      *)
(* crashes, restores, expiry and /new.                                     *)
Isolation ==
    /\ \A k \in AllKeys : sessionMap[k] # None => owner[sessionMap[k]] = k
    /\ \A k \in AllKeys : stale[k] # None => owner[stale[k]] = k
    /\ \A i \in Ids : reverseMap[i] # None => owner[i] = reverseMap[i]

(* An exit notice is about the process the slot last had: there is at most *)
(* one under way, and none while that process runs, so handle_crash never  *)
(* kills a healthy agent.                                                  *)
ExitPositions == {i \in DOMAIN incoming : incoming[i] = ExitNotice}
ExitNoticeFresh ==
    /\ alive => ~eof /\ ExitPositions = {}
    /\ eof => ExitPositions = {}
    /\ \A i, j \in ExitPositions : i = j

-----------------------------------------------------------------------------
(* Fairness: the manager task, the reader task and the prompt tasks are    *)
(* scheduled; select! polls its branches in random order, so no branch is  *)
(* starved.  Nothing is assumed of the channels or of the agent process,   *)
(* except that a prompt streams finitely many updates (MaxUpdates): an     *)
(* agent that streams for ever postpones its idle timeout for ever.        *)
Fairness ==
    /\ WF_vars(ForwardUpdate)
    /\ WF_vars(HandleCrash)
    /\ WF_vars(TakeCompletion)
    /\ WF_vars(FinishCompletion)
    /\ WF_vars(ReaderEof)
    /\ \A k \in Keys : WF_vars(\E t \in OutstandingTasks(k) : TaskLost(t))
    /\ \A k \in Keys : WF_vars(\E t \in OutstandingTasks(k) : TaskTimesOut(t))

FairSpec == Spec /\ Fairness

(* Without deaths, refusals and platform commands the manager implements   *)
(* the mailbox: safety and the completion of every batch, even when the    *)
(* agent never answers, because the idle timeout ends the prompt.          *)
Mailbox == INSTANCE SessionMailbox WITH
    waiting <- sq.queues, busy <- sq.active, newest <- lastSent, next <- nextMsg

ImplementsMailbox == Mailbox!Spec

(* A prompt whose agent process died is reported: its completion is        *)
(* handled and SessionComplete sent, whatever the recovery comes to, and   *)
(* without help from the idle timeout.                                     *)
OutstandingTicket(m) ==
    \/ \E t \in tasks : t.tkt = m
    \/ \E i \in DOMAIN completions : completions[i].tkt = m
    \/ current # None /\ current.tkt = m

CrashedPromptCompletes ==
    \A m \in Msgs :
        (\E t \in tasks : t.tkt = m /\ (t.inc # conn \/ ~alive))
            ~> ~OutstandingTicket(m)

-----------------------------------------------------------------------------
(* What comments, documents and tests of the repository say of this code   *)
(* and the code does not do (agents_counterexamples.cfg).                  *)

(* docs/design-principles.md:51, agent process exits: "Messages queued     *)
(* during recovery".  The completion of a prompt lost with its process     *)
(* does not throw away the messages that waited behind it.                 *)
QueuedSurviveRecovery ==
    [][current # None /\ current.kind = "lost" /\ current' = None
         => dropped' = dropped]_vars

(* incoming.rs:392-394, session not found: "invalidate the stale mapping   *)
(* so the next inbound prompt triggers heal_session()".  For there to be a *)
(* next prompt the session must not be left active without one.            *)
ExpiredSessionHeals ==
    [][current # None /\ current.kind = "expired" /\ current' = None
         => (current.key \in sq'.active => Outstanding(current.key)')]_vars

(* commands.rs:531, /cancel: "If the agent also responds, mark_idle on an  *)
(* idle session is a no-op".  The completion of a prompt that is no longer *)
(* the session's newest leaves the queue as it is.                         *)
LateResponseIsNoOp ==
    [][current # None /\ current' = None /\ current.tkt < lastSent[current.key]
         => sq' = sq]_vars

(* docs/design-principles.md:7: "Only a crash loop stops retries".  A slot *)
(* without a running process is disabled or has an exit notice coming.     *)
RetriesUntilLoop == alive \/ Disabled \/ eof \/ ExitPositions # {}

(* session_recovery.rs:71-72: "Sessions with an active prompt will be      *)
(* notified via the spawned task's error path".  A session that            *)
(* notify_crash_to_channels skips has such a task.                         *)
SkippedAreNotified == unnotified = {}

(* slot.rs:41: "Replay events from session/load are suppressed".  History  *)
(* that session/load streams does not reach a channel.                     *)
ReplaySuppressed == ~replayed

(* manager.rs:881, after a crash: "reverse_map must contain the new        *)
(* session ID".  What the agent says in a mapped session has a route back. *)
RoutesBack ==
    \A k \in AllKeys : sessionMap[k] # None => reverseMap[sessionMap[k]] = k
=============================================================================
