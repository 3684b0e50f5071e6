------------------------------ MODULE MockAgent ------------------------------
(***************************************************************************)
(* The agent of the integration tests (ext/agents/mock-agent): a program    *)
(* that reads JSON-RPC lines and answers each of them before it reads the  *)
(* next.  Its state is a record, its output the sequence of lines it wrote. *)
(***************************************************************************)
EXTENDS AcpWire

(* A line of the host: a request, a notification (id 0), an answer of the    *)
(* host (no method), or no JSON.                                             *)
Line(method, id, params) == [method |-> method, id |-> id, params |-> params]
NoJson == Line("no json", 0, <<>>)

\* What it writes: answers with the id of the request, updates, and requests.
Result(id, r) == [line |-> "result", id |-> id, session |-> "", body |-> r]
Error(id, code) == [line |-> "error", id |-> id, session |-> "", body |-> [code |-> code]]
UpdateLine(session, u) == [line |-> "update", id |-> 0, session |-> session, body |-> u]
PermissionLine(session) == [line |-> "permission", id |-> 9000, session |-> session, body |-> <<>>]

(* from_initialize_params: the options of the configuration, an absent one   *)
(* has its default.  exit_after is 0 when it is not set, new_id "".           *)
DefaultOptions ==
    [exit_after |-> 0, request_permission |-> FALSE, reject_load |-> FALSE, reject_resume |-> FALSE,
     support_resume |-> FALSE, new_id |-> "", thinking |-> TRUE, echo_mcp_count |-> FALSE]
FromInitializeParams(params) ==
    IF FieldOf(params, {"options"}) = {} THEN DefaultOptions
    ELSE (CHOOSE o \in params.options : TRUE) @@ DefaultOptions

(* The session id of session/new, session/load and session/resume is new.    *)
(* options is {} before initialize; waiting is the prompt whose permission    *)
(* has been asked for.                                                        *)
Started ==
    [session |-> {}, prompts |-> 0, think |-> TRUE, options |-> {}, mcp |-> 0, fresh |-> 1,
     waiting |-> {}, out |-> <<>>, alive |-> TRUE]

\* opts(): a program that has not been initialized panics.
Panic(a) == [a EXCEPT !.alive = FALSE]
Opts(a) == CHOOSE o \in a.options : TRUE
Write(a, lines) == [a EXCEPT !.out = @ \o lines]
SessionId(a) == IF a.session = {} THEN "unknown" ELSE CHOOSE s \in a.session : TRUE
NewId(a) == <<"s1", "s2", "s3", "s4", "s5", "s6">>[a.fresh]

AvailableCommands == [sessionUpdate |-> "available_commands_update", commands |-> {"help", "status"}]

\* defaults.yaml.
AgentDefaults == [f \in DOMAIN DefaultOptions \ {"exit_after", "new_id"} |-> DefaultOptions[f]]

\* Only the first initialize sets the options, every one sets whether it thinks.
HandleInitialize(a, id, params) ==
    LET o == FromInitializeParams(params)
        b == [a EXCEPT !.options = IF @ = {} THEN {o} ELSE @, !.think = o.thinking]
        caps == IF Opts(b).support_resume THEN {"resume"} ELSE {}
    IN  Write(b, <<Result(id, [protocolVersion |-> {2}, agentCapabilities |-> {caps}, defaults |-> {AgentDefaults}]),
                   UpdateLine("__global__", AvailableCommands)>>)

\* After a refusal the session id is empty, not absent.
HandleSessionNew(a, id, params) ==
    IF {"cwd", "mcpServers"} \subseteq DOMAIN params
    THEN [Write(a, <<Result(id, [sessionId |-> {NewId(a)}])>>)
            EXCEPT !.session = {NewId(a)}, !.fresh = @ + 1, !.mcp = Len(CHOOSE s \in params.mcpServers : TRUE)]
    ELSE [Write(a, <<Error(id, -32602)>>) EXCEPT !.session = {""}]

\* The echo of a block of the prompt.
Echo(b) ==
    CASE b.type = "text"  -> [type |-> "text", text |-> <<"Echo", b.text>>]
      [] b.type = "image" -> [type |-> "image", data |-> NoUrl,
                              mimeType |-> IF "mimeType" \in DOMAIN b THEN b.mimeType ELSE "image/png",
                              uri |-> IF FieldOf(b, {"uri"}) # {} THEN b.uri ELSE IF FieldOf(b, {"url"}) # {} THEN b.url ELSE NoUrl]
      [] b.type \in {"resource", "resource_link"} -> [type |-> "text", text |-> <<"Echo", "resource">>]
      [] b.type = "audio" -> [type |-> "audio", data |-> b.data, mimeType |-> b.mimeType]
      [] OTHER -> [type |-> "text", text |-> <<"Echo", "unknown">>]

Summary(blocks) ==
    IF Len(blocks) = 1 /\ blocks[1].type = "text" THEN <<"Echo", blocks[1].text>> ELSE <<"Echoed", Len(blocks)>>

Thoughts == <<"analyzing", "formulating">>
Chunk(tag, content) == [sessionUpdate |-> tag, content |-> content]

\* handle_session_prompt from where no permission is awaited (any more), and
\* the count of prompts after it, at which the program may exit.
AnswerPrompt(a, id, blocks) ==
    LET s == SessionId(a)
        thoughts == IF ~a.think THEN <<>>
                    ELSE [i \in 1..2 |-> UpdateLine(s, Chunk("agent_thought_chunk", [type |-> "text", text |-> Thoughts[i]]))]
        echoes == [i \in DOMAIN blocks |-> UpdateLine(s, Chunk("agent_message_chunk", Echo(blocks[i])))]
        counted == IF Opts(a).echo_mcp_count THEN <<a.mcp>> ELSE <<>>
        result == UpdateLine(s, Chunk("result", StringJson(Summary(blocks) \o counted)))
        done == Write(a, thoughts \o echoes \o <<result, Result(id, [stopReason |-> {"end_turn"}])>>)
    IN  [done EXCEPT !.prompts = @ + 1, !.waiting = {},
                     !.alive = ~(Opts(a).exit_after # 0 /\ a.prompts + 1 >= Opts(a).exit_after)]

\* No prompt, or an empty one, is an error.
ExtractPromptParts(params) == IF FieldOf(params, {"prompt"}) = {} THEN <<>> ELSE CHOOSE b \in params.prompt : TRUE

HandleSessionPrompt(a, id, params) ==
    LET blocks == ExtractPromptParts(params) IN
    IF blocks = <<>> THEN Write(a, <<Error(id, -32602)>>)
    ELSE IF a.options = {} THEN Panic(a)
    ELSE IF Opts(a).request_permission /\ a.prompts = 0
    THEN [Write(a, <<PermissionLine(SessionId(a))>>) EXCEPT !.waiting = {<<id, blocks>>}]
    ELSE AnswerPrompt(a, id, blocks)

HandleSessionCancel(a, id) == Write(a, <<Result(id, <<>>)>>)

\* The id of the options, or the session it has, or a new one; not the one it
\* was sent.
Reattach(a, id, reject) ==
    LET s == IF Opts(a).new_id # "" THEN Opts(a).new_id ELSE IF a.session # {} THEN SessionId(a) ELSE NewId(a)
    IN  IF reject THEN Write(a, <<Error(id, -32000)>>)
        ELSE [Write(a, <<Result(id, [sessionId |-> {s}])>>) EXCEPT !.session = {s}, !.fresh = @ + 1]

HandleSessionLoad(a, id) == IF a.options = {} THEN Panic(a) ELSE Reattach(a, id, Opts(a).reject_load)
HandleSessionResume(a, id) == IF a.options = {} THEN Panic(a) ELSE Reattach(a, id, Opts(a).reject_resume)

\* One line of input.  A line that is read while a permission is awaited is the
\* answer, whatever it says.
ReadLine(a, l) ==
    IF ~a.alive THEN a
    ELSE IF a.waiting # {} THEN LET w == CHOOSE w \in a.waiting : TRUE IN AnswerPrompt(a, w[1], w[2])
    ELSE IF l = NoJson THEN a
    ELSE CASE l.method = "initialize"  -> HandleInitialize(a, l.id, l.params)
           [] l.method = "session/new" -> HandleSessionNew(a, l.id, l.params)
           [] l.method = "session/cancel" -> HandleSessionCancel(a, l.id)
           [] l.method = "session/prompt" -> HandleSessionPrompt(a, l.id, l.params)
           [] l.method = "session/load"   -> HandleSessionLoad(a, l.id)
           [] l.method = "session/resume" -> HandleSessionResume(a, l.id)
           [] OTHER -> Write(a, <<Error(l.id, -32601)>>)

RunAgent(lines) == FoldLeft(ReadLine, Started, lines)
=============================================================================
