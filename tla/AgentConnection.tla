--------------------------- MODULE AgentConnection ---------------------------
(***************************************************************************)
(* The connections of one agent slot, one after the other: the backend     *)
(* that starts a process or a container, the writer and the reader task,   *)
(* the NDJSON codec, the pending requests, and the task of the agents      *)
(* manager that sends requests and empties the incoming queue.             *)
(*                                                                         *)
(* Everything between the manager and the agent is bounded: the queue of   *)
(* the writer, the two pipes, and the incoming queue.                      *)
(***************************************************************************)
EXTENDS Integers, Sequences, FiniteSets

CONSTANTS
    Workspaces,    \* the kinds of workspace: "local", "docker"
    PullPolicy,    \* "Never", "IfNotPresent" or "Always"
    StdinCap,      \* capacity of the queue of the writer task
    PipeCap,       \* lines that fit into a pipe
    IncomingCap,   \* capacity of the incoming queue of the manager
    ReadsWhileWriting, \* the agent reads stdin also while its stdout is full
    MaxConns,      \* bound: connections; an exit after the last disables the slot
    MaxRequests,   \* bound: requests of the manager, "initialize" included
    MaxLines       \* bound: lines the agent writes besides its responses

Conns    == 1 .. MaxConns
Requests == 1 .. MaxRequests

ASSUME ConnectionAssumption ==
    /\ Workspaces \subseteq {"local", "docker"} /\ ReadsWhileWriting \in BOOLEAN
    /\ PullPolicy \in {"Never", "IfNotPresent", "Always"}
    /\ {StdinCap, PipeCap, IncomingCap, MaxConns, MaxRequests} \subseteq Nat \ {0}
    /\ MaxLines \in Nat

VARIABLES
    workspace,  \* the workspace of the agent, from the configuration
    conn,       \* number of the current connection
    open,       \* slot.connection is Some
    disabled,   \* the slot was disabled
    image,      \* the image is present
    alive,      \* connections whose process or container runs
    leaked,     \* containers that exist and that nobody will remove
    stdinQ,     \* queue of the writer task of the current connection
    stdinPipe,  \* request ids written to the current process
    writer,     \* the writer task of the current connection runs
    todo,       \* per connection: lines the process is about to write
    stdoutPipe, \* per connection: lines written and not read
    reader,     \* per connection: "running", "ending" (notice to be queued), "done"
    pending,    \* per connection: JSON-RPC id -> request, 0 when removed
    result,     \* per request: "none", "open", "response", "error", "gone"
    incoming,   \* the incoming queue: <<connection, "message" | "exit">>
    mgr,        \* what the manager's task does
    requests,   \* requests made so far
    lines       \* lines besides responses so far

procVars == <<alive, leaked, image, todo, lines>>
linkVars == <<stdinQ, stdinPipe, writer, stdoutPipe, reader, pending>>
vars == <<workspace, conn, open, disabled, procVars, linkVars, result, incoming, mgr, requests>>

Docker   == workspace = "docker"
Idle     == [at |-> "idle", req |-> 0, kind |-> ""]
Spawning == [at |-> "spawn", req |-> 0, kind |-> ""]
Starting == [at |-> "start", req |-> 0, kind |-> ""]

(* An agent's line: a request or notification, a response with the id of   *)
(* one of our requests or with another one (id 0: a string, or no id), a   *)
(* line that is no JSON-RPC, and a line above MAX_LINE_SIZE.               *)
Message      == [kind |-> "message", id |-> 0]
Response(id) == [kind |-> "response", id |-> id]
Noise        == [kind |-> "noise", id |-> 0]
TooLong      == [kind |-> "too long", id |-> 0]
Lines        == {Message, Response(0), Noise, TooLong}

Init ==
    /\ workspace \in Workspaces
    /\ conn = 0 /\ open = FALSE /\ disabled = FALSE
    /\ image \in (IF Docker THEN BOOLEAN ELSE {TRUE})
    /\ alive = {} /\ leaked \in (IF Docker THEN 0 .. 1 ELSE {0})
    /\ stdinQ = <<>> /\ stdinPipe = <<>> /\ writer = FALSE
    /\ todo = [c \in Conns |-> <<>>] /\ stdoutPipe = [c \in Conns |-> <<>>]
    /\ reader = [c \in Conns |-> "done"] /\ pending = [c \in Conns |-> <<>>]
    /\ result = [r \in Requests |-> "none"]
    /\ incoming = <<>> /\ mgr = Starting /\ requests = 0 /\ lines = 0

-----------------------------------------------------------------------------
(* start: cleanup_stale_containers removes what an earlier run has left.   *)
(* What the daemon refuses to remove stays, and the start goes on.         *)
CleanupStaleContainers ==
    /\ mgr = Starting
    /\ leaked' \in 0 .. leaked
    /\ mgr' = Spawning
    /\ UNCHANGED <<workspace, conn, open, disabled, alive, image, todo, lines, linkVars, result,
                   incoming, requests>>

-----------------------------------------------------------------------------
(* Backends: build_backend, called with the manager waiting.               *)

CanSpawn == mgr.at = "spawn" /\ conn < MaxConns

SpawnFailed ==
    /\ mgr' = Idle
    /\ UNCHANGED <<workspace, conn, open, disabled, linkVars, result, incoming, requests>>

(* spawn_inner: fresh queues, pending requests and tasks; then the request *)
(* "initialize" is on its way.                                             *)
Connected ==
    LET c == conn + 1 IN
    /\ conn' = c /\ open' = TRUE /\ alive' = alive \cup {c}
    /\ stdinQ' = <<>> /\ stdinPipe' = <<>> /\ writer' = TRUE
    /\ reader' = [reader EXCEPT ![c] = "running"]
    /\ requests < MaxRequests /\ requests' = requests + 1
    /\ result' = [result EXCEPT ![requests + 1] = "open"]
    /\ pending' = [pending EXCEPT ![c] = <<requests + 1>>]
    /\ mgr' = [at |-> "send", req |-> requests + 1, kind |-> "initialize"]
    /\ UNCHANGED <<workspace, disabled, image, todo, lines, stdoutPipe, incoming>>

SpawnLocal ==
    /\ CanSpawn /\ ~Docker
    /\ \/ Connected /\ UNCHANGED leaked
       \/ SpawnFailed /\ UNCHANGED procVars

(* pull_image_if_needed; a failed pull fails the spawn.                    *)
NeedsPull == PullPolicy = "Always" \/ (PullPolicy = "IfNotPresent" /\ ~image)

PullImage ==
    /\ CanSpawn /\ Docker /\ NeedsPull
    /\ \/ /\ image' = TRUE /\ mgr' = [Spawning EXCEPT !.at = "create"]
          /\ UNCHANGED <<workspace, conn, open, disabled, alive, leaked, todo, lines,
                         linkVars, result, incoming, requests>>
       \/ SpawnFailed /\ UNCHANGED procVars

SkipPull ==
    /\ CanSpawn /\ Docker /\ ~NeedsPull
    /\ mgr' = [Spawning EXCEPT !.at = "create"]
    /\ UNCHANGED <<workspace, conn, open, disabled, procVars, linkVars, result, incoming,
                   requests>>

(* build_host_config refuses a limit it cannot parse.                      *)
ConfigRefused ==
    /\ mgr.at = "create"
    /\ SpawnFailed /\ UNCHANGED procVars

(* create_and_start_container: the container is created, then started; a   *)
(* container that does not start stays.                                    *)
CreateContainer ==
    /\ mgr.at = "create" /\ image
    /\ \/ /\ mgr' = [Spawning EXCEPT !.at = "attach"]
          /\ UNCHANGED <<workspace, conn, open, disabled, procVars, linkVars, result,
                         incoming, requests>>
       \/ /\ leaked' = leaked + 1
          /\ SpawnFailed
          /\ UNCHANGED <<alive, image, todo, lines>>

(* attach_container_streams: the container runs whether or not it works.   *)
AttachContainer ==
    /\ mgr.at = "attach"
    /\ \/ Connected /\ UNCHANGED leaked
       \/ /\ SpawnFailed
          /\ leaked' = leaked + 1 /\ UNCHANGED <<alive, image, todo, lines>>

-----------------------------------------------------------------------------
(* The manager's task.                                                     *)

(* Mutant of Abandon: the receivers are not told.                          *)
AbandonSilently(c) == UNCHANGED result

(* Whoever waits for a response of connection c hears that it is gone.     *)
Abandon(c) ==
    result' = [r \in Requests |->
                 IF result[r] = "open" /\ \E i \in DOMAIN pending[c] : pending[c][i] = r
                 THEN "gone" ELSE result[r]]

(* send_request, first half: the id is taken and the sender registered.    *)
(* With wait, the manager will wait for the response itself (session/new,  *)
(* session/load); otherwise a prompt task does.                            *)
StartRequest(kind) ==
    /\ mgr = Idle /\ open /\ requests < MaxRequests
    /\ requests' = requests + 1
    /\ result' = [result EXCEPT ![requests + 1] = "open"]
    /\ pending' = [pending EXCEPT ![conn] = Append(@, requests + 1)]
    /\ mgr' = [at |-> "send", req |-> requests + 1, kind |-> kind]
    /\ UNCHANGED <<workspace, conn, open, disabled, procVars, stdinQ, stdinPipe, writer,
                   stdoutPipe, reader, incoming>>

(* send_notification and send_raw: a message that has no response.         *)
StartNotice ==
    /\ mgr = Idle /\ open /\ requests < MaxRequests
    /\ requests' = requests + 1
    /\ mgr' = [at |-> "send", req |-> requests + 1, kind |-> "notice"]
    /\ UNCHANGED <<workspace, conn, open, disabled, procVars, linkVars, result, incoming>>

(* Second half: wait for room in the queue of the writer task.             *)
Enqueue ==
    /\ mgr.at = "send" /\ writer /\ Len(stdinQ) < StdinCap
    /\ stdinQ' = Append(stdinQ, IF mgr.kind = "notice" THEN 0 ELSE Len(pending[conn]))
    /\ mgr' = IF mgr.kind \in {"prompt", "notice"} THEN Idle ELSE [mgr EXCEPT !.at = "wait"]
    /\ UNCHANGED <<workspace, conn, open, disabled, procVars, stdinPipe, writer, stdoutPipe,
                   reader, pending, result, incoming, requests>>

(* slot.connection = None: the tasks go on, the process of a local backend *)
(* is killed; a container is neither stopped nor removed.                  *)
DropConnection ==
    /\ open' = FALSE
    /\ alive' = IF Docker THEN alive ELSE alive \ {conn}
    /\ leaked' = IF Docker THEN leaked + 1 ELSE leaked
    /\ stdinQ' = <<>> /\ writer' = FALSE

(* A request of the manager that ends without a response: ConnectionClosed *)
(* from the queue or the receiver, or acp_timeout.  A failed initialize    *)
(* drops the connection.  The entry of the pending request stays.          *)
RequestFails ==
    /\ IF mgr.kind = "initialize" THEN DropConnection
       ELSE UNCHANGED <<open, alive, leaked, stdinQ, writer>>
    /\ mgr' = Idle
    /\ UNCHANGED <<workspace, conn, disabled, image, todo, lines, stdinPipe,
                   stdoutPipe, reader, pending, incoming, requests>>

SendFails ==
    /\ mgr.at = "send" /\ ~writer
    /\ result' = [result EXCEPT ![mgr.req] = IF @ = "open" THEN "error" ELSE @]
    /\ RequestFails

TimesOut ==
    /\ mgr.at = "wait" /\ result[mgr.req] = "open"
    /\ result' = [result EXCEPT ![mgr.req] = "error"]
    /\ RequestFails

Answered ==
    /\ mgr.at = "wait" /\ result[mgr.req] = "response"
    /\ mgr' = Idle
    /\ UNCHANGED <<workspace, conn, open, disabled, procVars, linkVars, result, incoming,
                   requests>>

(* handle_incoming of a message, at whatever length.                       *)
TakeMessage ==
    /\ mgr = Idle /\ incoming # <<>> /\ Head(incoming)[2] = "message"
    /\ incoming' = Tail(incoming)
    /\ UNCHANGED <<workspace, conn, open, disabled, procVars, linkVars, result, mgr, requests>>

(* kill: the process ends, a container is removed, the tasks are aborted.  *)
Kill ==
    /\ alive' = alive \ {conn}
    /\ reader' = [reader EXCEPT ![conn] = "done"]
    /\ UNCHANGED leaked

(* When the daemon fails, kill returns before it has aborted anything.     *)
KillFails ==
    /\ Docker
    /\ leaked' = leaked + 1 /\ UNCHANGED <<alive, reader>>

(* handle_crash up to the respawn, or to the disabled slot.                *)
TakeExit ==
    /\ mgr = Idle /\ incoming # <<>> /\ Head(incoming)[2] = "exit"
    /\ incoming' = Tail(incoming)
    /\ IF disabled
       THEN UNCHANGED <<open, disabled, alive, leaked, stdinQ, writer, reader,
                        result, mgr>>
       ELSE /\ IF open THEN Kill \/ KillFails ELSE UNCHANGED <<alive, leaked, reader>>
            /\ open' = FALSE /\ stdinQ' = <<>> /\ writer' = FALSE
            /\ Abandon(conn)
            /\ disabled' = (conn = MaxConns)
            /\ mgr' = IF disabled' THEN Idle ELSE Spawning
    /\ UNCHANGED <<workspace, conn, image, todo, lines, stdinPipe, stdoutPipe, pending,
                   requests>>

Manager ==
    \/ CleanupStaleContainers
    \/ SpawnLocal \/ PullImage \/ SkipPull \/ ConfigRefused \/ CreateContainer
    \/ AttachContainer
    \/ Enqueue \/ SendFails \/ TimesOut \/ Answered \/ TakeMessage \/ TakeExit

-----------------------------------------------------------------------------
(* The writer task, with the bridge that feeds a container's stdin.        *)

WriterWrites ==
    /\ writer /\ stdinQ # <<>> /\ conn \in alive /\ Len(stdinPipe) < PipeCap
    /\ stdinPipe' = Append(stdinPipe, Head(stdinQ)) /\ stdinQ' = Tail(stdinQ)
    /\ UNCHANGED <<workspace, conn, open, disabled, procVars, writer, stdoutPipe, reader,
                   pending, result, incoming, mgr, requests>>

(* Mutant of WriterEnds: a failed write is ignored.                        *)
WriterRetries == FALSE /\ UNCHANGED vars

WriterEnds ==
    /\ writer /\ stdinQ # <<>> /\ conn \notin alive
    /\ writer' = FALSE /\ stdinQ' = <<>>
    /\ UNCHANGED <<workspace, conn, open, disabled, procVars, stdinPipe, stdoutPipe, reader,
                   pending, result, incoming, mgr, requests>>

-----------------------------------------------------------------------------
(* The reader task.                                                        *)

(* The next line for reader c, and what NdJsonCodec makes of it.           *)
Next1(c)     == Head(stdoutPipe[c])
Reads(c, ks) == reader[c] = "running" /\ stdoutPipe[c] # <<>> /\ Next1(c).kind \in ks
Consume(c)   == stdoutPipe' = [stdoutPipe EXCEPT ![c] = Tail(@)]

(* Mutant of ReaderSkips: the codec waits for more when a line does not    *)
(* parse.                                                                  *)
ReaderSkipsNever(c) == FALSE /\ UNCHANGED vars

(* Lines that are no JSON-RPC are skipped.                                 *)
ReaderSkips(c) ==
    /\ Reads(c, {"noise"})
    /\ Consume(c)
    /\ UNCHANGED <<workspace, conn, open, disabled, procVars, stdinQ, stdinPipe, writer,
                   reader, pending, result, incoming, mgr, requests>>

(* handle_pending_response: an id that is not pending is ignored; an entry *)
(* is used once; its receiver may be gone.                                 *)
ReaderResponse(c) ==
    /\ Reads(c, {"response"})
    /\ Consume(c)
    /\ LET id == Next1(c).id IN
       IF id \in DOMAIN pending[c] /\ pending[c][id] # 0
       THEN /\ pending' = [pending EXCEPT ![c][id] = 0]
            /\ result' = [result EXCEPT ![pending[c][id]] =
                            IF @ = "open" THEN "response" ELSE @]
       ELSE UNCHANGED <<pending, result>>
    /\ UNCHANGED <<workspace, conn, open, disabled, procVars, stdinQ, stdinPipe, writer,
                   reader, incoming, mgr, requests>>

(* route_incoming_message waits for room in the incoming queue, and all    *)
(* lines behind it wait too.                                               *)
ReaderMessage(c) ==
    /\ Reads(c, {"message"}) /\ Len(incoming) < IncomingCap
    /\ Consume(c)
    /\ incoming' = Append(incoming, <<c, "message">>)
    /\ UNCHANGED <<workspace, conn, open, disabled, procVars, stdinQ, stdinPipe, writer,
                   reader, pending, result, mgr, requests>>

(* The end of the stream; a codec error is one too, because FramedRead     *)
(* yields nothing after an error.                                          *)
ReaderStops(c) ==
    /\ \/ Reads(c, {"too long"})
       \/ reader[c] = "running" /\ stdoutPipe[c] = <<>> /\ c \notin alive
    /\ reader' = [reader EXCEPT ![c] = "ending"]
    /\ UNCHANGED <<workspace, conn, open, disabled, procVars, stdinQ, stdinPipe, writer,
                   stdoutPipe, pending, result, incoming, mgr, requests>>

(* The exit notice waits for room as well.  Its end drops the last sender  *)
(* of the pending requests only with the connection.                       *)
ReaderNotice(c) ==
    /\ reader[c] = "ending" /\ Len(incoming) < IncomingCap
    /\ incoming' = Append(incoming, <<c, "exit">>)
    /\ reader' = [reader EXCEPT ![c] = "done"]
    /\ UNCHANGED <<workspace, conn, open, disabled, procVars, stdinQ, stdinPipe, writer,
                   stdoutPipe, pending, result, mgr, requests>>

Reader(c) ==
    ReaderSkips(c) \/ ReaderResponse(c) \/ ReaderMessage(c) \/ ReaderStops(c)
        \/ ReaderNotice(c)

-----------------------------------------------------------------------------
(* The agent process.                                                      *)

(* It answers a request, after further lines, or never.                    *)
AgentReads ==
    /\ conn \in alive /\ stdinPipe # <<>>
    /\ todo[conn] = <<>> \/ ReadsWhileWriting
    /\ stdinPipe' = Tail(stdinPipe)
    /\ \/ /\ Head(stdinPipe) # 0
          /\ todo' = [todo EXCEPT ![conn] = Append(@, Response(Head(stdinPipe)))]
       \/ UNCHANGED todo
    /\ UNCHANGED <<workspace, conn, open, disabled, alive, leaked, image, lines, stdinQ, writer,
                   stdoutPipe, reader, pending, result, incoming, mgr, requests>>

AgentTalks(c) ==
    /\ c \in alive /\ c <= conn /\ lines < MaxLines
    /\ lines' = lines + 1
    /\ \E l \in Lines : todo' = [todo EXCEPT ![c] = Append(@, l)]
    /\ UNCHANGED <<workspace, conn, open, disabled, alive, leaked, image, linkVars, result,
                   incoming, mgr, requests>>

AgentWrites(c) ==
    /\ c \in alive /\ todo[c] # <<>> /\ Len(stdoutPipe[c]) < PipeCap
    /\ stdoutPipe' = [stdoutPipe EXCEPT ![c] = Append(@, Head(todo[c]))]
    /\ todo' = [todo EXCEPT ![c] = Tail(@)]
    /\ UNCHANGED <<workspace, conn, open, disabled, alive, leaked, image, lines, stdinQ,
                   stdinPipe, writer, reader, pending, result, incoming, mgr, requests>>

AgentDies(c) ==
    /\ c \in alive /\ c <= conn
    /\ alive' = alive \ {c} /\ todo' = [todo EXCEPT ![c] = <<>>]
    /\ UNCHANGED <<workspace, conn, open, disabled, leaked, image, lines, linkVars, result,
                   incoming, mgr, requests>>

-----------------------------------------------------------------------------
Next ==
    \/ Manager
    \/ \E k \in {"session", "prompt"} : StartRequest(k)
    \/ StartNotice
    \/ WriterWrites \/ WriterEnds \/ AgentReads
    \/ \E c \in Conns : Reader(c) \/ AgentTalks(c) \/ AgentWrites(c) \/ AgentDies(c)

Spec == Init /\ [][Next]_vars

(* tokio schedules the tasks; acp_timeout passes; an agent that lives      *)
(* reads its input and writes its output.                                  *)
Fairness ==
    /\ WF_vars(Manager) /\ WF_vars(WriterWrites \/ WriterEnds)
    /\ WF_vars(AgentReads)
    /\ \A c \in Conns : WF_vars(Reader(c)) /\ WF_vars(AgentWrites(c))

FairSpec == Spec /\ Fairness

-----------------------------------------------------------------------------
(* Properties                                                              *)

(* The manager's task is never held up for ever: not by a full queue, not  *)
(* by an agent that does not answer, dies, or talks without end.           *)
ManagerGetsFree == (mgr # Idle) ~> (mgr = Idle)

(* A request to a process that has died comes to an end, also when the     *)
(* process cannot be started again.                                        *)
LostRequestEnds ==
    \A r \in Requests :
        (result[r] = "open" /\ conn \notin alive) ~> (result[r] # "open")

(* What the agent wrote is read, whatever it wrote, as long as its reader  *)
(* lives.                                                                  *)
OutputIsRead ==
    \A c \in Conns :
        (stdoutPipe[c] # <<>>) ~> (stdoutPipe[c] = <<>> \/ reader[c] = "done")

-----------------------------------------------------------------------------
(* What the repository says and the code does not do.                      *)

(* connection.rs:188: a line that cannot be decoded is skipped.            *)
MalformedIsSkipped ==
    \A c \in alive : reader[c] # "ending"

(* docker_backend.rs:24: the backend manages the full life of a container, *)
(* to its removal.                                                         *)
NothingLeaked == [][leaked' <= leaked]_leaked
=============================================================================
