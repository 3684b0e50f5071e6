---------------------------- MODULE Permissions ----------------------------
(***************************************************************************)
(* The way of a permission request from an agent to a user and back: agent *)
(* process, agents manager (handle_permission_request, RespondPermission), *)
(* channels manager (route_permission_event and the task it spawns), the   *)
(* channel's connection (pending requests, reader and writer tasks) and    *)
(* the channel process of ChannelHarness.  Agents and the channel process  *)
(* may die at any time and be started again.                               *)
(***************************************************************************)
EXTENDS ChannelHarness

CONSTANTS
    NumAgents,   \* agent slots; RespondPermission searches them in order
    TimeoutSet,  \* permission_timeout_secs is Some
    MaxFaults,   \* bound: deaths of agents and exits of the channel process
    MaxDelivers  \* bound: agent updates delivered to the channel

Agents == 1 .. NumAgents

ASSUME PermissionsAssumption ==
    /\ NumAgents \in Nat \ {0}
    /\ TimeoutSet \in BOOLEAN
    /\ {MaxFaults, MaxDelivers} \subseteq Nat

NoTask  == -2   \* no task waits for the channel's response
Waiting == -1   \* a task waits
Denied  == 0    \* the task lost its connection or its time: "denied"

VARIABLES
    agent,        \* "up", "dead" (exit not handled yet), "none" (no connection)
    asked,        \* requests the running process waits for
    used,         \* JSON-RPC ids the running process has used
    incoming,     \* the agents manager's incoming queue
    slotPending,  \* slot.pending_permissions: request_id -> ticket, 0 absent
    events,       \* RoutePermission and DeliverMessage events
    commands,     \* RespondPermission commands
    conn,         \* the channel's connection: "open", "closing", "none"
    writer,       \* its writer task runs
    pendingReqs,  \* its pending requests: JSON-RPC id -> ticket, 0 removed
    waiter,       \* the task spawned for a ticket, or what it has received
    \* counters behind the bounds
    nextAsk, faults, delivers,
    \* observers
    asker,        \* the agent that asked, and whether that process has died
    settled,      \* tickets whose own response command was handled
    lost,         \* tickets that no task waits for and nobody answers
    answers,      \* <<ticket, answer>> pairs that reached an agent
    stray         \* tickets answered to a process that waits for no such id

agentVars == <<agent, asked, used, incoming, asker>>
chanVars  == <<conn, writer, pendingReqs, waiter>>
observers == <<settled, lost, answers, stray>>
vars == <<harnessVars, agentVars, slotPending, events, commands, chanVars,
          nextAsk, faults, delivers, observers>>

Init ==
    /\ HarnessInit
    /\ agent = [a \in Agents |-> "up"]
    /\ asked = [a \in Agents |-> {}] /\ used = [a \in Agents |-> 0]
    /\ incoming = <<>>
    /\ slotPending = [a \in Agents |-> None]
    /\ events = <<>> /\ commands = <<>>
    /\ conn = "open" /\ writer = TRUE /\ pendingReqs = <<>>
    /\ waiter = [t \in Tickets |-> NoTask]
    /\ nextAsk = 1 /\ faults = 0 /\ delivers = 0
    /\ asker = [t \in Tickets |-> [slot |-> 0, gone |-> FALSE]]
    /\ settled = {} /\ lost = {} /\ answers = {} /\ stray = {}

-----------------------------------------------------------------------------
(* Agent processes.  A process numbers its requests from one, and many     *)
(* agents send no requestId: the request_id is then the JSON-RPC id.       *)

AgentAsks(a) ==
    /\ agent[a] = "up" /\ nextAsk \in Tickets
    /\ used' = [used EXCEPT ![a] = @ + 1]
    /\ ridOf' = [ridOf EXCEPT ![nextAsk] = used[a] + 1]
    /\ asked' = [asked EXCEPT ![a] = @ \cup {nextAsk}]
    /\ asker' = [asker EXCEPT ![nextAsk] = [slot |-> a, gone |-> FALSE]]
    /\ incoming' = Append(incoming, [slot |-> a, tkt |-> nextAsk])
    /\ nextAsk' = nextAsk + 1
    /\ UNCHANGED <<procVars, stdin, stdinOpen, stdout, agent, slotPending,
                   events, commands, chanVars, faults, delivers,
                   observers>>

AgentDies(a) ==
    /\ agent[a] = "up" /\ faults < MaxFaults
    /\ faults' = faults + 1
    /\ agent' = [agent EXCEPT ![a] = "dead"]
    /\ asker' = [t \in Tickets |-> IF t \in asked[a]
                                   THEN [asker[t] EXCEPT !.gone = TRUE] ELSE asker[t]]
    /\ asked' = [asked EXCEPT ![a] = {}] /\ used' = [used EXCEPT ![a] = 0]
    /\ incoming' = Append(incoming, [slot |-> a, tkt |-> 0])     \* exit notice
    /\ UNCHANGED <<harnessVars, slotPending, events, commands, chanVars, nextAsk, delivers, observers>>

(* What the agents manager writes reaches the process of the slot, which   *)
(* matches it with its own request of that id.                             *)
AgentGets(a, id, answer) ==
    LET mine == {t \in asked[a] : ridOf[t] = id} IN
    /\ asked' = [asked EXCEPT ![a] = @ \ mine]
    /\ answers' = answers \cup {<<t, answer>> : t \in mine}

-----------------------------------------------------------------------------
(* Agents manager.                                                         *)

(* The exit notice: the slot is respawned or loses its connection.  The    *)
(* pending permissions of the slot stay.                                   *)
HandleExit ==
    /\ incoming # <<>> /\ Head(incoming).tkt = 0
    /\ incoming' = Tail(incoming)
    /\ \E next \in {"up", "none"} : agent' = [agent EXCEPT ![Head(incoming).slot] = next]
    /\ UNCHANGED <<harnessVars, asked, used, asker, slotPending, events, commands,
                   chanVars, nextAsk, faults, delivers, observers>>

(* Mutant of RouteRequest: the request is routed and approved as well.     *)
RouteRequestApproved ==
    /\ incoming # <<>> /\ Head(incoming).tkt # 0
    /\ LET t == Head(incoming).tkt  a == Head(incoming).slot IN
       /\ events' = Append(events, t)
       /\ slotPending' = [slotPending EXCEPT ![a][ridOf[t]] = t]
       /\ AgentGets(a, ridOf[t], t)
    /\ incoming' = Tail(incoming)
    /\ UNCHANGED <<harnessVars, agent, used, asker, commands, chanVars, nextAsk,
                   faults, delivers, settled, lost, stray>>

(* handle_permission_request for a session with a reverse entry.           *)
RouteRequest ==
    /\ incoming # <<>> /\ Head(incoming).tkt # 0
    /\ LET t == Head(incoming).tkt  a == Head(incoming).slot IN
       /\ events' = Append(events, t)
       /\ slotPending' = [slotPending EXCEPT ![a][ridOf[t]] = t]
    /\ incoming' = Tail(incoming)
    /\ UNCHANGED <<harnessVars, agent, asked, used, asker, commands, chanVars,
                   nextAsk, faults, delivers, observers>>

(* The same for a session without one (see RoutesBack in AgentsManager):   *)
(* the first option is chosen at once.                                     *)
AutoApprove ==
    /\ incoming # <<>> /\ Head(incoming).tkt # 0
    /\ LET t == Head(incoming).tkt  a == Head(incoming).slot IN
       /\ IF agent[a] = "none" THEN UNCHANGED <<asked, answers>>
          ELSE AgentGets(a, ridOf[t], t)
       /\ settled' = settled \cup {t}
    /\ incoming' = Tail(incoming)
    /\ UNCHANGED <<harnessVars, agent, used, asker, slotPending, events, commands,
                   chanVars, nextAsk, faults, delivers, lost, stray>>

(* An update of the agent on its way to the channel.                       *)
ForwardUpdate ==
    /\ delivers < MaxDelivers
    /\ delivers' = delivers + 1
    /\ events' = Append(events, 0)
    /\ UNCHANGED <<harnessVars, agentVars, slotPending, commands, chanVars,
                   nextAsk, faults, observers>>

(* The slots that hold a pending permission of that request_id.            *)
Holders(r) == {a \in Agents : slotPending[a][r] # 0}
First(S)   == CHOOSE a \in S : \A b \in S : a <= b

(* RespondPermission: the first slot that holds the request_id answers its *)
(* agent; a command for an id that no slot holds does nothing.             *)
RespondPermission ==
    /\ commands # <<>>
    /\ commands' = Tail(commands)
    /\ LET c == Head(commands)  S == Holders(c.rid)  a == First(S) IN
       /\ settled' = settled \cup {c.task}
       /\ IF S = {}
          THEN UNCHANGED <<slotPending, asked, answers, stray>>
          ELSE /\ slotPending' = [slotPending EXCEPT ![a][c.rid] = 0]
               /\ IF agent[a] = "none" THEN UNCHANGED <<asked, answers, stray>>
                  ELSE /\ AgentGets(a, c.rid, c.answer)
                       /\ stray' = IF asked' = asked
                                   THEN stray \cup {slotPending[a][c.rid]} ELSE stray
    /\ UNCHANGED <<harnessVars, agent, used, asker, incoming, events, chanVars,
                   nextAsk, faults, delivers, lost>>

-----------------------------------------------------------------------------
(* Channels manager and the channel's connection.                          *)

(* send_request and send_notification succeed while the writer task runs;  *)
(* the write itself fails when the process has ended, and ends the task.   *)
Writes(line) ==
    IF proc = "down"
    THEN writer' = FALSE /\ stdinOpen' = FALSE /\ UNCHANGED stdin
    ELSE stdin' = Append(stdin, line) /\ UNCHANGED <<writer, stdinOpen>>

(* send_request: the request gets the next JSON-RPC id of the connection.  *)
SendRequest(t) ==
    /\ pendingReqs' = Append(pendingReqs, t)
    /\ Writes(PermissionLine(Len(pendingReqs) + 1, t))

(* route_permission_event, and the same in the command RoutePermission: a  *)
(* task is spawned to wait for the response.                               *)
RouteToChannel ==
    /\ events # <<>> /\ Head(events) # 0
    /\ conn = "open" /\ writer
    /\ LET t == Head(events) IN
       /\ SendRequest(t)
       /\ waiter' = [waiter EXCEPT ![t] = Waiting]
    /\ events' = Tail(events)
    /\ UNCHANGED <<ridOf, procVars, stdout, agentVars, slotPending, commands,
                   conn, nextAsk, faults, delivers, observers>>

(* No routing entry, no connection or no writer: a log entry, nothing else.*)
RouteDropped ==
    /\ events # <<>> /\ Head(events) # 0 /\ conn # "closing"
    /\ conn = "none" \/ ~writer
    /\ lost' = lost \cup {Head(events)}
    /\ events' = Tail(events)
    /\ UNCHANGED <<harnessVars, agentVars, slotPending, commands, chanVars,
                   nextAsk, faults, delivers, settled, answers, stray>>

(* handle_deliver_message, and the same in the command DeliverToChannel.   *)
DeliverToChannel ==
    /\ events # <<>> /\ Head(events) = 0 /\ conn # "closing"
    /\ IF conn = "open" /\ writer
       THEN Writes(DeliverLine) ELSE UNCHANGED <<stdin, stdinOpen, writer>>
    /\ events' = Tail(events)
    /\ UNCHANGED <<ridOf, procVars, stdout, agentVars, slotPending, commands,
                   conn, pendingReqs, waiter, nextAsk, faults, delivers,
                   observers>>

(* The reader task: a response goes to the task that waits for it, if it   *)
(* still does.                                                             *)
ReaderReads ==
    /\ conn # "none" /\ stdout # <<>>
    /\ stdout' = Tail(stdout)
    /\ LET line == Head(stdout) IN
       LET t == pendingReqs[line.id] IN
       /\ pendingReqs' = [pendingReqs EXCEPT ![line.id] = 0]
       /\ waiter' = IF t # 0 /\ waiter[t] = Waiting
                    THEN [waiter EXCEPT ![t] = line.tkt] ELSE waiter
    /\ UNCHANGED <<ridOf, procVars, stdin, stdinOpen, agentVars, slotPending,
                   events, commands, conn, writer, nextAsk, faults,
                   delivers, observers>>

(* The task hands over what it received.  The option of a response that    *)
(* came because the connection went away or the time was up is "denied".   *)
TaskAnswers(t) ==
    /\ waiter[t] > Waiting
    /\ commands' = Append(commands, [rid |-> ridOf[t], answer |-> waiter[t], task |-> t])
    /\ waiter' = [waiter EXCEPT ![t] = NoTask]
    /\ UNCHANGED <<harnessVars, agentVars, slotPending, events, conn, writer,
                   pendingReqs, nextAsk, faults, delivers, observers>>

(* Mutant of TaskTimesOut: the timeout is logged, the agent hears nothing. *)
TaskTimesOutSilently(t) ==
    /\ TimeoutSet /\ waiter[t] = Waiting
    /\ waiter' = [waiter EXCEPT ![t] = NoTask]
    /\ UNCHANGED <<harnessVars, agentVars, slotPending, events, commands, conn,
                   writer, pendingReqs, nextAsk, faults, delivers, observers>>

TaskTimesOut(t) ==
    /\ TimeoutSet /\ waiter[t] = Waiting
    /\ commands' = Append(commands, [rid |-> ridOf[t], answer |-> Denied, task |-> t])
    /\ waiter' = [waiter EXCEPT ![t] = NoTask]
    /\ UNCHANGED <<harnessVars, agentVars, slotPending, events, conn, writer,
                   pendingReqs, nextAsk, faults, delivers, observers>>

(* Dropping the connection drops its pending requests: their tasks end.    *)
DropPending ==
    waiter' = [t \in Tickets |-> IF waiter[t] = Waiting THEN Denied ELSE waiter[t]]

(* handle_channel_crash, once the reader has read everything: a new        *)
(* process, or no connection from now on.                                  *)
ChannelRespawned ==
    /\ proc = "down" /\ conn = "open" /\ stdout = <<>>
    /\ DropPending /\ pendingReqs' = <<>> /\ writer' = TRUE
    /\ FreshProcess
    /\ UNCHANGED <<ridOf, agentVars, slotPending, events, commands,
                   conn, nextAsk, faults, delivers, observers>>

ChannelGivenUp ==
    /\ proc = "down" /\ conn = "open" /\ stdout = <<>>
    /\ DropPending /\ pendingReqs' = <<>> /\ writer' = FALSE /\ conn' = "none"
    /\ stdin' = <<>> /\ stdinOpen' = FALSE
    /\ UNCHANGED <<ridOf, procVars, stdout, agentVars, slotPending, events,
                   commands, nextAsk, faults, delivers, observers>>

ChannelExits ==
    /\ faults < MaxFaults /\ ProcessDies
    /\ faults' = faults + 1
    /\ UNCHANGED <<agentVars, slotPending, events, commands, chanVars, nextAsk,
                   delivers, observers>>

(* shutdown_all: aborting the writer task closes stdin; the process may    *)
(* finish in time, otherwise it is killed.                                 *)
ShutdownBegins ==
    /\ conn = "open"
    /\ conn' = "closing" /\ writer' = FALSE /\ stdinOpen' = FALSE
    /\ UNCHANGED <<ridOf, procVars, stdin, stdout, agentVars, slotPending,
                   events, commands, pendingReqs, waiter, nextAsk, faults,
                   delivers, observers>>

ShutdownEnds ==
    /\ conn = "closing"
    /\ conn' = "none" /\ Ends
    /\ stdin' = <<>> /\ stdout' = <<>> /\ pendingReqs' = <<>>
    /\ DropPending
    /\ UNCHANGED <<ridOf, stdinOpen, agentVars, slotPending, events, commands,
                   writer, nextAsk, faults, delivers, observers>>

-----------------------------------------------------------------------------
InProcess(A) ==
    /\ A
    /\ UNCHANGED <<agentVars, slotPending, events, commands, chanVars, nextAsk,
                   faults, delivers, observers>>

Next ==
    \/ \E a \in Agents : AgentAsks(a) \/ AgentDies(a)
    \/ HandleExit \/ RouteRequest \/ AutoApprove \/ ForwardUpdate
    \/ RespondPermission
    \/ RouteToChannel \/ RouteDropped \/ DeliverToChannel \/ ReaderReads
    \/ \E t \in Tickets : TaskAnswers(t) \/ TaskTimesOut(t)
    \/ ChannelRespawned \/ ChannelGivenUp \/ ChannelExits
    \/ ShutdownBegins \/ ShutdownEnds
    \/ InProcess(ReadPermission) \/ InProcess(ReadDeliver)
    \/ InProcess(FlushPermission) \/ InProcess(StdinEof)
    \/ InProcess(DrainEnds)
    \/ \E t \in Tickets : InProcess(PermissionRespond(t))

Spec == Init /\ [][Next]_vars

(* The tasks of the two managers and of the connection are scheduled; the  *)
(* select! of the harness polls its branches in random order, so neither   *)
(* starves; the permission timeout passes; a shutdown is bounded.  Nothing *)
(* is assumed of users, agents, or of a process that lives.                *)
Fairness ==
    /\ WF_vars(HandleExit \/ RouteRequest \/ AutoApprove \/ RespondPermission)
    /\ WF_vars(\/ RouteToChannel \/ RouteDropped \/ DeliverToChannel
               \/ ChannelRespawned \/ ChannelGivenUp \/ ShutdownEnds)
    /\ WF_vars(ReaderReads)
    /\ WF_vars(\E t \in Tickets : TaskAnswers(t) \/ TaskTimesOut(t))
    /\ WF_vars(InProcess(ReadPermission \/ ReadDeliver))

FairSpec == Spec /\ Fairness

-----------------------------------------------------------------------------
(* Properties                                                              *)

(* Every variable keeps its shape; above all a response line always names  *)
(* a JSON-RPC id of the connection it is read from.                        *)
TypeOK ==
    /\ HarnessType
    /\ agent \in [Agents -> {"up", "dead", "none"}]
    /\ asked \in [Agents -> SUBSET Tickets]
    /\ slotPending \in [Agents -> [Rids -> 0 .. MaxAsks]]
    /\ conn \in {"open", "closing", "none"} /\ writer \in BOOLEAN
    /\ waiter \in [Tickets -> NoTask .. MaxAsks]
    /\ \A i \in DOMAIN stdout : stdout[i].id \in DOMAIN pendingReqs
    /\ lost \subseteq Tickets /\ settled \subseteq Tickets /\ stray \subseteq Tickets

(* No other request has the request_id of t.                              *)
Unique(t) == \A u \in Tickets : ridOf[u] = ridOf[t] => u = t

(* An agent gets at most one answer to a request: repeated clicks, answers *)
(* that come after the timeout, and a channel that restarts in between     *)
(* never make the manager answer twice.  A response that the process has   *)
(* no use for is a leftover of a process that died, or of another request  *)
(* with the same request_id.                                               *)
AnsweredOnce ==
    \A t \in stray : asker[t].gone \/ ~Unique(t)

(* The user's answer to one prompt is never taken for the answer to        *)
(* another, as long as no other request has the same request_id.           *)
OwnAnswer ==
    \A x \in answers : Unique(x[1]) => x[2] \in {x[1], Denied}

(* With a timeout, every request that the agents manager routed comes to   *)
(* an end, whatever the user, the channel process and the agent do, unless *)
(* the channels manager had no connection for it or was stopped.           *)
RequestSettles ==
    \A t \in Tickets :
        (\E i \in DOMAIN events : events[i] = t)
            ~> (t \in settled \/ t \in lost \/ conn # "open")

(* Agent updates are shown while the user thinks about a permission        *)
(* (trait_def.rs: a prompt must not stall delivery).                       *)
DeliveriesFlow ==
    (\E i \in DOMAIN stdin : stdin[i] = DeliverLine)
        ~> (~ \E i \in DOMAIN stdin : stdin[i] = DeliverLine)

-----------------------------------------------------------------------------
(* What the repository says and the code does not do.                      *)

(* sdk-types/permission.rs:21: the request_id is a "unique identifier for  *)
(* correlating the response".  An answer always belongs to the request it  *)
(* is handed to.                                                           *)
AnswerIsCorrelated ==
    \A x \in answers : x[2] \in {x[1], Denied}
=============================================================================
