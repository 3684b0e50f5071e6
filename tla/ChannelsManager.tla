--------------------------- MODULE ChannelsManager ---------------------------
(***************************************************************************)
(* The channels manager of crates/anyclaw-channels between the channel     *)
(* processes and the agents manager.                                       *)
(*                                                                         *)
(* The manager's task handles one thing at a time: a message of a channel, *)
(* an event of the agents manager, the end of a channel process.  Three of *)
(* its handlers wait in the middle, for the reply to CreateSession, for    *)
(* the reply to EnqueueMessage, and for the backoff before a respawn; the  *)
(* variable task says which.  Nothing else is handled meanwhile.           *)
(*                                                                         *)
(* The agents manager is here what its handlers look like from outside: a  *)
(* handler sends events into a bounded queue, waiting for room, and then   *)
(* replies to the command it handles, if it handles one.  A notification   *)
(* to a channel is seen by its process at once.  Its sessions are those    *)
(* that CreateSession made: sessions of an earlier run of the program are  *)
(* stale until then, and their recovery belongs to AgentsManager.          *)
(***************************************************************************)
EXTENDS Naturals, Sequences, FiniteSets

CONSTANTS
    Slots, Keys,
    Home,           \* the slot whose peers have this session key
    Groups,         \* keys of groups where the bot wants to be mentioned
    Strict,         \* a process ends when it is asked to deliver for a
                    \* session it was not told of, as the Telegram channel does
    AgentsFail,     \* the agents manager may reject a command
    ContextLimit,   \* context_history_limit
    CrashLimit,     \* crashes until the crash tracker disables a slot
    EventCap,       \* EVENT_CHANNEL_CAPACITY
    MaxMsgs,        \* bound: messages of one channel
    MaxUpdates,     \* bound: events of agents that nobody asked for
    MaxExits        \* bound: ends of processes for reasons of their own

ASSUME ChannelsAssumption ==
    /\ Home \in [Keys -> Slots] /\ Groups \subseteq Keys
    /\ Strict \in BOOLEAN /\ AgentsFail \in BOOLEAN
    /\ {ContextLimit, CrashLimit, EventCap, MaxMsgs, MaxUpdates, MaxExits} \subseteq Nat

VARIABLES
    \* per slot
    status,         \* up; exited: the process is gone, the connection is
                    \* not; gone: connection is None
    inbox,          \* messages the process has sent
    crashes,        \* crash tracker
    known,          \* sessions the process was told of
    \* the manager
    routing,        \* keys of routing_table
    acked,          \* acked_sessions
    context,        \* the context store: messages per group, oldest first
    task,           \* what the manager is doing
    reply,          \* of the agents manager: none, ok or error
    events,         \* channel_events_rx
    \* the agents manager
    sending,        \* events the handler under way has yet to send
    serving,        \* no, or the reply that this handler will give
    sessions,       \* keys with a session of the agent
    queue,          \* per key: idle; running a prompt; more is waiting behind
                    \* it; stuck: active, and no prompt will complete
    updates,        \* how many updates there were
    \* observers
    written,        \* per slot: messages its processes sent
    handled,        \* per slot: messages read from inbox
    exits,          \* per slot: exits of its own accord
    sent, taken,    \* events put into and taken from the queue
    got             \* per key: the messages handed to the agents manager

slotVars   == <<status, inbox, crashes, known>>
agentsVars == <<sending, serving, sessions, queue, updates>>
obsVars    == <<written, handled, exits, sent, taken, got>>
vars == <<slotVars, routing, acked, context, task, reply, events, agentsVars, obsVars>>

Idle == [op |-> "idle"]

Init ==
    /\ status \in [Slots -> {"up", "gone"}]
    /\ inbox = [s \in Slots |-> <<>>]
    /\ crashes = [s \in Slots |-> 0]
    /\ known = [s \in Slots |-> {}]
    /\ routing = {} /\ acked = {} /\ context = [k \in Keys |-> <<>>]
    /\ task = Idle /\ reply = "none" /\ events = <<>>
    /\ sending = <<>> /\ serving = "no"
    /\ sessions = {} /\ queue = [k \in Keys |-> "idle"] /\ updates = 0
    /\ sent = 0 /\ taken = 0 /\ written = [s \in Slots |-> 0]
    /\ handled = [s \in Slots |-> 0] /\ exits = [s \in Slots |-> 0]
    /\ got = [k \in Keys |-> <<>>]

-----------------------------------------------------------------------------
(* The channel process.                                                    *)

(* What evaluate_access makes of a message: it is denied; in a group, it   *)
(* does or does not mention the bot; elsewhere it is direct.               *)
Kinds(k) == {"denied"} \cup (IF k \in Groups THEN {"ambient", "mention"} ELSE {"direct"})

ProcessSends(s) ==
    /\ status[s] = "up" /\ written[s] < MaxMsgs
    /\ \E k \in Keys : \E kind \in Kinds(k) :
         /\ Home[k] = s
         /\ inbox' = [inbox EXCEPT ![s] =
                        Append(@, [id |-> written[s] + 1, key |-> k, kind |-> kind])]
    /\ written' = [written EXCEPT ![s] = @ + 1]
    /\ UNCHANGED <<status, crashes, known, routing, acked, context, task, reply, events,
                   agentsVars, handled, exits, sent, taken, got>>

(* The output of the process ends for the reader: it exits, or it writes a  *)
(* line that cannot be decoded and is not listened to from then on.        *)
ProcessExits(s) ==
    /\ status[s] = "up" /\ exits[s] < MaxExits
    /\ status' = [status EXCEPT ![s] = "exited"]
    /\ exits' = [exits EXCEPT ![s] = @ + 1]
    /\ UNCHANGED <<inbox, crashes, known, routing, acked, context, task, reply, events,
                   agentsVars, written, handled, sent, taken, got>>

(* channel/deliverMessage reaches the process of slot s.  The error that   *)
(* deliver_to_chat returns for an unknown session ends the harness, and    *)
(* with it the process.                                                    *)
Deliver(s, toKnown) ==
    status' = [status EXCEPT ![s] = IF @ = "up" /\ Strict /\ ~toKnown THEN "exited" ELSE @]

-----------------------------------------------------------------------------
(* Messages of the channels: collect_channel_message.                      *)

(* store_context keeps the newest ContextLimit messages of the group.      *)
StoreContext(ctx, id) ==
    LET all  == Append(ctx, id)
        drop == IF Len(all) > ContextLimit THEN Len(all) - ContextLimit ELSE 0
    IN  SubSeq(all, drop + 1, Len(all))

(* A message of slot s is read.                                            *)
Reads(s) ==
    /\ task = Idle /\ inbox[s] # <<>>
    /\ inbox' = [inbox EXCEPT ![s] = Tail(@)]
    /\ handled' = [handled EXCEPT ![s] = @ + 1]

(* Denied, or stored as context of the group.                              *)
CollectDropped(s) ==
    /\ Reads(s)
    /\ LET m == Head(inbox[s])
       IN  \/ m.kind = "denied" /\ UNCHANGED context
           \/ /\ m.kind = "ambient"
              /\ context' = [context EXCEPT ![m.key] = StoreContext(@, m.id)]
    /\ UNCHANGED <<status, crashes, known, routing, acked, task, reply, events, agentsVars,
                   written, exits, sent, taken, got>>

TakeContext(k) == [context EXCEPT ![k] = <<>>]

(* Mutant of CollectSend: the mention is put in front of its context.      *)
CollectSendMentionFirst(s) ==
    /\ Reads(s)
    /\ LET m == Head(inbox[s])
           batch == IF m.kind = "mention" THEN <<m.id>> \o context[m.key] ELSE <<m.id>>
       IN  /\ m.kind \in {"mention", "direct"}
           /\ context' = IF m.kind = "mention" THEN TakeContext(m.key) ELSE context
           /\ task' = [op    |-> IF m.key \in routing THEN "enqueue" ELSE "create",
                       slot  |-> s, key |-> m.key, batch |-> batch]
    /\ UNCHANGED <<status, crashes, known, routing, acked, reply, events, agentsVars,
                   written, exits, sent, taken, got>>

(* The session is created first if there is no routing entry for it.       *)
CollectSend(s) ==
    /\ Reads(s)
    /\ LET m == Head(inbox[s])
           batch == IF m.kind = "mention" THEN Append(context[m.key], m.id) ELSE <<m.id>>
       IN  /\ m.kind \in {"mention", "direct"}
           /\ context' = IF m.kind = "mention" THEN TakeContext(m.key) ELSE context
           /\ task' = [op    |-> IF m.key \in routing THEN "enqueue" ELSE "create",
                       slot  |-> s, key |-> m.key, batch |-> batch]
    /\ UNCHANGED <<status, crashes, known, routing, acked, reply, events, agentsVars,
                   written, exits, sent, taken, got>>

(* ensure_session_created: the session is there.  The process, if it still *)
(* lives, is told, and EnqueueMessage is sent.                             *)
SessionCreated ==
    /\ task.op = "create" /\ reply = "ok"
    /\ routing' = routing \cup {task.key}
    /\ known' = [known EXCEPT ![task.slot] =
                   IF status[task.slot] = "up" THEN @ \cup {task.key} ELSE @]
    /\ task' = [task EXCEPT !.op = "enqueue"]
    /\ reply' = "none"
    /\ UNCHANGED <<status, inbox, crashes, acked, context, events, agentsVars, obsVars>>

(* The error goes to the channel under the session id "".                  *)
SessionRefused ==
    /\ task.op = "create" /\ reply = "error"
    /\ Deliver(task.slot, FALSE)
    /\ task' = Idle /\ reply' = "none"
    /\ UNCHANGED <<inbox, crashes, known, routing, acked, context, events, agentsVars, obsVars>>

(* enqueue_to_agent: accepted, or refused with an error for the channel.   *)
Enqueued ==
    /\ task.op = "enqueue" /\ reply = "ok"
    /\ task' = Idle /\ reply' = "none"
    /\ UNCHANGED <<slotVars, routing, acked, context, events, agentsVars, obsVars>>

(* Mutant of EnqueueRefused: the handler does not return.                  *)
EnqueueRefusedWaits ==
    /\ task.op = "enqueue" /\ reply = "error"
    /\ Deliver(Home[task.key], task.key \in known[Home[task.key]])
    /\ UNCHANGED <<inbox, crashes, known, routing, acked, context, task, reply, events,
                   agentsVars, obsVars>>

EnqueueRefused ==
    /\ task.op = "enqueue" /\ reply = "error"
    /\ Deliver(Home[task.key], task.key \in known[Home[task.key]])
    /\ task' = Idle /\ reply' = "none"
    /\ UNCHANGED <<inbox, crashes, known, routing, acked, context, events, agentsVars, obsVars>>

-----------------------------------------------------------------------------
(* Events of the agents manager: handle_channel_event.                     *)

(* Content, a completion or the start of a dispatch for key k.             *)
Handle(type, k) ==
    /\ IF k \in routing /\ type = "deliver"
       THEN Deliver(Home[k], k \in known[Home[k]]) /\ acked' = acked \cup {k}
       ELSE acked' = acked \ (IF type = "dispatch" THEN {k} ELSE {}) /\ UNCHANGED status

(* Mutant of TakeEvent: events are handled while a reply is awaited.       *)
TakeEventAnytime ==
    /\ task.op # "sleep" /\ events # <<>>
    /\ Handle(Head(events).type, Head(events).key)
    /\ events' = Tail(events)
    /\ taken' = taken + 1
    /\ UNCHANGED <<inbox, crashes, known, routing, context, task, reply, agentsVars,
                   written, handled, exits, sent, got>>

TakeEvent ==
    /\ task = Idle /\ events # <<>>
    /\ Handle(Head(events).type, Head(events).key)
    /\ events' = Tail(events)
    /\ taken' = taken + 1
    /\ UNCHANGED <<inbox, crashes, known, routing, context, task, reply, agentsVars,
                   written, handled, exits, sent, got>>

-----------------------------------------------------------------------------
(* The end of a process: handle_channel_crash.                             *)

(* Mutant of HandleCrash: the end is noticed ahead of what was sent.       *)
HandleCrashEarly(s) ==
    /\ task = Idle /\ status[s] = "exited"
    /\ inbox' = [inbox EXCEPT ![s] = <<>>]
    /\ crashes' = [crashes EXCEPT ![s] = @ + 1]
    /\ IF crashes'[s] >= CrashLimit
       THEN status' = [status EXCEPT ![s] = "gone"] /\ UNCHANGED task
       ELSE task' = [op |-> "sleep", slot |-> s] /\ UNCHANGED status
    /\ UNCHANGED <<known, routing, acked, context, reply, events, agentsVars, obsVars>>

(* The stream of the slot ends after the last message.  The slot is        *)
(* disabled, or the manager sleeps and respawns.                           *)
HandleCrash(s) ==
    /\ task = Idle /\ status[s] = "exited" /\ inbox[s] = <<>>
    /\ crashes' = [crashes EXCEPT ![s] = @ + 1]
    /\ IF crashes'[s] >= CrashLimit
       THEN status' = [status EXCEPT ![s] = "gone"] /\ UNCHANGED task
       ELSE task' = [op |-> "sleep", slot |-> s] /\ UNCHANGED status
    /\ UNCHANGED <<inbox, known, routing, acked, context, reply, events, agentsVars, obsVars>>

(* A new process; nobody tells it of the sessions in the routing table.    *)
Respawned ==
    /\ task.op = "sleep"
    /\ status' = [status EXCEPT ![task.slot] = "up"]
    /\ known' = [known EXCEPT ![task.slot] = {}]
    /\ task' = Idle
    /\ UNCHANGED <<inbox, crashes, routing, acked, context, reply, events, agentsVars, obsVars>>

(* Mutant of RespawnFails: initialize without a timeout.                   *)
RespawnHangs == FALSE /\ UNCHANGED vars

(* It cannot be spawned, or initialize fails or takes too long.            *)
RespawnFails ==
    /\ task.op = "sleep"
    /\ status' = [status EXCEPT ![task.slot] = "gone"]
    /\ task' = Idle
    /\ UNCHANGED <<inbox, crashes, known, routing, acked, context, reply, events,
                   agentsVars, obsVars>>

-----------------------------------------------------------------------------
(* The agents manager.                                                     *)

Free == sending = <<>> /\ serving = "no"
Event(type, k) == [type |-> type, key |-> k]
Verdicts == IF AgentsFail THEN {"ok", "error"} ELSE {"ok"}

(* What becomes of a session when prompt_session was called for it.        *)
Prompted(verdict) == IF verdict = "ok" THEN "running" ELSE "stuck"

(* CreateSession.                                                          *)
AgentsCreate ==
    /\ Free /\ task.op = "create" /\ reply = "none"
    /\ serving' \in Verdicts
    /\ sessions' = IF serving' = "ok" THEN sessions \cup {task.key} ELSE sessions
    /\ UNCHANGED <<slotVars, routing, acked, context, task, reply, events, sending, queue,
                   updates, obsVars>>

(* EnqueueMessage: dispatched at once, or queued while the session is      *)
(* active.                                                                 *)
AgentsEnqueue ==
    /\ Free /\ task.op = "enqueue" /\ reply = "none"
    /\ got' = [got EXCEPT ![task.key] = @ \o task.batch]
    /\ IF queue[task.key] = "idle"
       THEN /\ sending' = <<Event("dispatch", task.key)>>
            /\ serving' \in Verdicts
            /\ queue' = [queue EXCEPT ![task.key] = Prompted(serving')]
       ELSE /\ serving' = "ok"
            /\ queue' = [queue EXCEPT ![task.key] = IF @ = "running" THEN "more" ELSE @]
            /\ UNCHANGED sending
    /\ UNCHANGED <<slotVars, routing, acked, context, task, reply, events, sessions, updates,
                   written, handled, exits, sent, taken>>

(* An update of the agent, which may come before the first prompt.         *)
AgentsUpdate(k) ==
    /\ Free /\ k \in sessions /\ updates < MaxUpdates
    /\ updates' = updates + 1
    /\ sending' = <<Event("deliver", k)>>
    /\ UNCHANGED <<slotVars, routing, acked, context, task, reply, events, serving, sessions,
                   queue, obsVars>>

(* The end of a prompt: a result unless there was one, the completion, and *)
(* the dispatch of what waits behind it.                                   *)
AgentsComplete(k) ==
    /\ Free /\ queue[k] \in {"running", "more"}
    /\ \E result \in {<<>>, <<Event("deliver", k)>>} :
         sending' = result \o <<Event("complete", k)>>
                      \o (IF queue[k] = "more" THEN <<Event("dispatch", k)>> ELSE <<>>)
    /\ \/ queue[k] = "running" /\ queue' = [queue EXCEPT ![k] = "idle"]
       \/ /\ queue[k] = "more"
          /\ \E verdict \in Verdicts : queue' = [queue EXCEPT ![k] = Prompted(verdict)]
    /\ UNCHANGED <<slotVars, routing, acked, context, task, reply, events, serving, sessions,
                   updates, obsVars>>

(* The event is sent when there is room for it.                            *)
AgentsSend ==
    /\ sending # <<>> /\ Len(events) < EventCap
    /\ events' = Append(events, Head(sending))
    /\ sending' = Tail(sending)
    /\ sent' = sent + 1
    /\ UNCHANGED <<slotVars, routing, acked, context, task, reply, serving, sessions, queue,
                   updates, written, handled, exits, taken, got>>

AgentsReply ==
    /\ sending = <<>> /\ serving # "no"
    /\ reply' = serving /\ serving' = "no"
    /\ UNCHANGED <<slotVars, routing, acked, context, task, events, sending, sessions, queue,
                   updates, obsVars>>

-----------------------------------------------------------------------------
Replied == SessionCreated \/ SessionRefused \/ Enqueued \/ EnqueueRefused
Collect(s) == CollectDropped(s) \/ CollectSend(s)

Next ==
    \/ \E s \in Slots : \/ ProcessSends(s) \/ ProcessExits(s)
                        \/ Collect(s) \/ HandleCrash(s)
    \/ Replied \/ TakeEvent \/ Respawned \/ RespawnFails
    \/ AgentsCreate \/ AgentsEnqueue \/ AgentsSend \/ AgentsReply
    \/ \E k \in Keys : AgentsUpdate(k) \/ AgentsComplete(k)

Spec == Init /\ [][Next]_vars

(* run() takes whatever is ready, at random among the branches of select!  *)
(* (strong fairness of each); its waits end: the reply, or the timeout of  *)
(* initialize.  The agents manager handles commands and goes on sending    *)
(* when there is room.  Processes, agents and their prompts owe nothing.   *)
Fairness ==
    /\ \A s \in Slots : SF_vars(Collect(s)) /\ SF_vars(HandleCrash(s))
    /\ SF_vars(TakeEvent) /\ WF_vars(Replied) /\ WF_vars(RespawnFails)
    /\ SF_vars(AgentsCreate) /\ SF_vars(AgentsEnqueue)
    /\ WF_vars(AgentsSend) /\ WF_vars(AgentsReply)

FairSpec == Spec /\ Fairness

-----------------------------------------------------------------------------
(* Properties                                                              *)

Messages == [id : 1 .. MaxMsgs, key : Keys, kind : UNION {Kinds(k) : k \in Keys}]
Waits == {"create", "enqueue"}

(* The manager's fields have their types; the context of a group never     *)
(* exceeds the limit that store_context trims it to.                       *)
TypeOK ==
    /\ status \in [Slots -> {"up", "exited", "gone"}]
    /\ inbox \in [Slots -> Seq(Messages)]
    /\ crashes \in [Slots -> Nat] /\ known \in [Slots -> SUBSET Keys]
    /\ routing \subseteq Keys /\ acked \subseteq Keys
    /\ context \in [Keys -> Seq(1 .. MaxMsgs)]
    /\ \A k \in Keys : Len(context[k]) <= ContextLimit
    /\ \/ task = Idle
       \/ task \in [op : {"sleep"}, slot : Slots]
       \/ task \in [op : Waits, slot : Slots, key : Keys, batch : Seq(1 .. MaxMsgs)]
    /\ reply \in {"none", "ok", "error"} /\ serving \in {"no", "ok", "error"}
    /\ events \in Seq([type : {"deliver", "complete", "dispatch"}, key : Keys])
    /\ Len(events) <= EventCap

(* The agents manager may speak of a session as soon as it has made it,    *)
(* before the channels manager has its reply: still no event is ever       *)
(* handled without a routing entry for its session.                        *)
RoutedFirst == [][taken' # taken => Head(events).key \in routing]_vars

(* What a process sent before its output ended is read before its end is   *)
(* handled: nothing of it is discarded with the old connection.            *)
NothingDiscarded == \A s \in Slots : written[s] = handled[s] + Len(inbox[s])

Increasing(seq) == \A i, j \in DOMAIN seq : i < j => seq[i] < seq[j]

(* The agent gets the messages of a conversation, and the group talk that  *)
(* precedes a mention, in the order they were written and once each.       *)
InConversationOrder == \A k \in Keys : Increasing(got[k])

(* Each manager waits for the other: the channels manager for a reply, the *)
(* agents manager, before it replies, for room in the queue that the       *)
(* channels manager would empty.  Neither wait has a timeout.              *)
MutualWait ==
    /\ task.op \in Waits /\ reply = "none"
    /\ sending # <<>> /\ Len(events) >= EventCap

(* "Outbound agent updates route back to the originating channel"          *)
(* (manager.rs): every event the agents manager sends is handled, through  *)
(* full queues, the backoff of a channel and refused commands, and short   *)
(* of the mutual wait nothing keeps one from it.                           *)
UpdatesRouteBack ==
    taken < sent ~> taken = sent \/ MutualWait

(* Every message that a channel sent is read, whatever happens to the other *)
(* processes and commands, again short of the mutual wait.                 *)
MessagesAreRead ==
    \A s \in Slots : inbox[s] # <<>> ~> inbox[s] = <<>> \/ MutualWait

(* The same sentence without the exception: no event is held up for ever.  *)
NeverStuck == ~MutualWait

(* docs/design-principles.md: "Channel subprocess exits" makes the channel *)
(* "temporarily unavailable".  A slot is disabled only after CrashLimit    *)
(* exits that its process made of its own accord.                          *)
CrashIsTemporary == \A s \in Slots : crashes[s] >= CrashLimit => exits[s] >= CrashLimit
=============================================================================
