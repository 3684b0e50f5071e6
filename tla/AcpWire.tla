------------------------------- MODULE AcpWire -------------------------------
(***************************************************************************)
(* The messages between the managers, the agents and the channels as the   *)
(* JSON objects they are on the wire (anyclaw-sdk-types), and what happens *)
(* to an update of an agent between the agent and the channel.             *)
(*                                                                         *)
(* A JSON object is a function from field names to values.  In a struct    *)
(* and in its object an optional value is a set with at most one element;  *)
(* {} is None in the one and null in the other.                            *)
(***************************************************************************)
EXTENDS ContentParts, FiniteSets, TLC

(* What serde does with a field: "required"; "skip" and "null" are options *)
(* that are left out and written as null when they are None; "default" is  *)
(* always written and filled in when it is missing.                        *)
Required(names) == [n \in names |-> "required"]
Skip(names) == [n \in names |-> "skip"]
Defaulted(names) == [n \in names |-> "default"]

ToJson(type, v) == [f \in {f \in DOMAIN type : type[f] = "skip" => v[f] # {}} |-> v[f]]

\* {} is the error.  Fields that are not known are ignored.
FromJson(type, w) ==
    IF \E f \in DOMAIN type :
          \/ type[f] = "required" /\ f \notin DOMAIN w
          \/ type[f] \in {"required", "default"} /\ f \in DOMAIN w /\ w[f] = {}
    THEN {}
    ELSE {[f \in DOMAIN type |-> IF f \in DOMAIN w THEN w[f]
                                 ELSE IF type[f] = "default" THEN {"default"} ELSE {}]}

-----------------------------------------------------------------------------
(* Messages between the agents manager and an agent *)

ClientCapabilities == Skip({"experimental"})
InitializeParams == Required({"protocolVersion", "capabilities"}) @@ Skip({"options", "_meta"})
InitializeResult == Required({"protocolVersion"}) @@ Skip({"agentCapabilities", "defaults", "_meta"})
McpServerInfo == Required({"name", "type", "url"}) @@ Defaulted({"command", "args", "env", "headers"})
SessionNewParams == Required({"cwd"}) @@ Defaulted({"mcpServers"}) @@ Skip({"sessionId", "_meta"})
SessionNewResult == Required({"sessionId"}) @@ Skip({"_meta"})
SessionPromptParams == Required({"sessionId", "prompt"}) @@ Skip({"_meta"})
SessionCancelParams == Required({"sessionId"})
SessionPushParams == Required({"sessionId", "content"}) @@ Skip({"_meta"})
SessionForkParams == Required({"sessionId"})
SessionForkResult == Required({"sessionId"})
SessionListResult == Required({"sessions"})
SessionInfo == Required({"sessionId"}) @@ Defaulted({"metadata"})
SessionLoadParams == Required({"sessionId"}) @@ Skip({"cwd", "mcpServers"})
SessionUpdateEvent == Required({"sessionId", "update"})
PromptResponse == Defaulted({"stopReason"})

(* Messages between the channels manager and a channel *)

ChannelCapabilities == Required({"streaming", "richText"}) @@ Defaulted({"media"})
ChannelAckConfig == Required({"reaction", "typing", "reactionEmoji", "reactionLifecycle"})
ChannelInitializeParams ==
    Required({"protocolVersion", "channelId"}) @@ [ack |-> "null"] @@ Defaulted({"options"})
ChannelInitializeResult == Required({"protocolVersion", "capabilities"}) @@ Skip({"defaults"})
DeliverMessage == Required({"sessionId", "content"}) @@ Skip({"_meta"})
PeerInfo == Required({"channelName", "peerId", "kind"})
SenderInfo == Skip({"senderId", "senderName"})
MessageMetadata ==
    Skip({"replyToMessageId", "replyToText", "replyToSender", "replyToSenderId", "replyToIsQuote",
          "replyToMediaType", "threadId"})
ChannelSendMessage ==
    Required({"peerInfo", "content"}) @@ Skip({"metadata", "_meta", "senderInfo", "wasMentioned"})
ThoughtContent == Required({"sessionId", "type", "content"})
AckNotification == Required({"sessionId", "channelName", "peerId"}) @@ [messageId |-> "null"]
AckLifecycleNotification == Required({"sessionId", "action"}) @@ Skip({"stopReason"})
ChannelRespondPermission == Required({"requestId", "optionId"})
SessionCreated == Required({"sessionId", "peerInfo"})

Structs ==
    {ClientCapabilities, InitializeParams, InitializeResult, McpServerInfo, SessionNewParams,
     SessionNewResult, SessionPromptParams, SessionCancelParams, SessionPushParams, SessionForkParams,
     SessionForkResult, SessionListResult, SessionInfo, SessionLoadParams, SessionUpdateEvent,
     PromptResponse, ChannelCapabilities, ChannelAckConfig, ChannelInitializeParams,
     ChannelInitializeResult, DeliverMessage, PeerInfo, SenderInfo, MessageMetadata,
     ChannelSendMessage, ThoughtContent, AckNotification, AckLifecycleNotification,
     ChannelRespondPermission, SessionCreated}

\* What a program can hold in a struct: only options may be None.
ValuesOf(type) ==
    {v \in [DOMAIN type -> {{}, {"value"}}] :
        \A f \in DOMAIN type : v[f] = {} => type[f] \in {"skip", "null"}}

-----------------------------------------------------------------------------
(* What the agents manager sends.  tools is what the tools manager said:     *)
(* whether it took the question, and its answer, if it gave one.             *)

InitializeRequest(options) ==
    ToJson(InitializeParams, [protocolVersion |-> {2}, capabilities |-> {"none"}, options |-> options, _meta |-> {}])

\* What the operator set stays.
ApplyAgentDefaults(options, defaults) == options @@ defaults

\* The options after the handshake, {} when the answer is refused.
Initialized(options, response) ==
    {IF r.defaults = {} THEN options ELSE ApplyAgentDefaults(options, CHOOSE d \in r.defaults : TRUE) :
        r \in {r \in FromJson(InitializeResult, response) : r.protocolVersion \in {{1}, {2}}}}

McpServer(u) ==
    ToJson(McpServerInfo, [name |-> {u}, type |-> {"http"}, url |-> {u}, command |-> {""}, args |-> {<<>>},
                           env |-> {<<>>}, headers |-> {<<>>}])
ServersOf(tools) == IF tools.answer = {} THEN <<>> ELSE LET u == CHOOSE u \in tools.answer : TRUE
                                                        IN  [i \in DOMAIN u |-> McpServer(u[i])]

\* start_session: without a tools manager no session is started.
StartSessionRequest(tools, cwd) ==
    IF ~tools.sent THEN {}
    ELSE {ToJson(SessionNewParams, [sessionId |-> {}, cwd |-> {cwd}, mcpServers |-> {ServersOf(tools)}, _meta |-> {}])}

\* session/load goes without tools then.
FetchMcpServers(tools) == IF tools.sent THEN ServersOf(tools) ELSE <<>>
LoadRequest(id, tools, cwd) ==
    ToJson(SessionLoadParams, [sessionId |-> {id}, cwd |-> {cwd}, mcpServers |-> {FetchMcpServers(tools)}])

\* The part of a first prompt that names the tools.
FetchToolContext(tools) ==
    IF tools.sent /\ \E d \in tools.answer : d # <<>> THEN {TextPart("tools")} ELSE {}

-----------------------------------------------------------------------------
(* Pieces of content as JSON: of the channels (ContentPart) and of ACP.      *)

Fields(pairs) == [n \in {p[1] : p \in pairs} |-> (CHOOSE p \in pairs : p[1] = n)[2]]
Given(name, opt) == {<<name, x>> : x \in opt}

PartJson(p) ==
    Fields({<<"type", p.type>>} \cup
           (IF p.type = "text" THEN {<<"text", p.text>>}
            ELSE {<<"url", p.url>>} \cup Given("filename", p.filename) \cup Given("mimeType", p.mime)))

BlockJson(b) ==
    Fields({<<"type", b.type>>} \cup Given("mimeType", b.mime) \cup Given("uri", b.uri) \cup
           (CASE b.type = "text" -> {<<"text", b.text>>}
              [] b.type = "resource_link" -> {<<"name", b.name>>}
              [] b.type \in {"image", "audio"} -> {<<"data", b.data>>}
              [] OTHER -> {}))

\* serde: the internally tagged enum ContentPart.
IsContentPart(json) ==
    "type" \in DOMAIN json /\
    \/ json.type = "text" /\ "text" \in DOMAIN json
    \/ json.type \in {"image", "file", "audio"} /\ "url" \in DOMAIN json

-----------------------------------------------------------------------------
(* From the message of a user to the prompt.  A text is a string, or, where  *)
(* it may be a command, a sequence of symbols.                               *)

PlatformCommands == {"new", "cancel"}

ExtractCommandText(parts) == IF Len(parts) = 1 /\ parts[1].type = "text" THEN {parts[1].text} ELSE {}

\* What stands before the first @ must be a slash and a name.
MatchPlatformCommand(text) ==
    LET ats == {i \in DOMAIN text : text[i] = "@"}
        command == IF ats = {} THEN text
                   ELSE SubSeq(text, 1, (CHOOSE i \in ats : \A j \in ats : i <= j) - 1)
    IN  {c \in PlatformCommands : command = <<"/", c>>}

(* build_reply_context: the lines that tell the agent what a message answers. *)
ReplyContext(meta) ==
    LET hasReply == UNION {meta.replyToMessageId, meta.replyToText, meta.replyToMediaType} # {}
        quote == meta.replyToIsQuote = {"quote"}
        thread == IF meta.threadId = {} THEN <<>> ELSE <<"thread">>
        body == IF meta.replyToText # {} THEN <<"text">> ELSE IF meta.replyToMediaType # {} THEN <<"media">> ELSE <<>>
        reply == IF hasReply THEN <<IF quote THEN "quoting" ELSE "replying">> \o body
                                  \o <<IF quote THEN "/quoting" ELSE "/replying">> ELSE <<>>
    IN  IF thread \o reply = <<>> THEN {} ELSE {thread \o reply}

\* The parts of the prompt: the tools once per session, the context, the message.
PromptParts(toolContext, meta, content) ==
    LET optional(s) == IF s = {} THEN <<>> ELSE <<CHOOSE x \in s : TRUE>>
    IN  optional(toolContext) \o (IF ReplyContext(meta) = {} THEN <<>> ELSE <<TextPart("context")>>) \o content

ContentPartsToBlocks(parts) == [i \in DOMAIN parts |-> ContentPartToBlock(parts[i])]

PromptRequest(session, parts) ==
    LET blocks == ContentPartsToBlocks(parts)
    IN  ToJson(SessionPromptParams,
               [sessionId |-> {session}, _meta |-> {}, prompt |-> {[i \in DOMAIN blocks |-> BlockJson(blocks[i])]}])

-----------------------------------------------------------------------------
(* An update of an agent: an object with the tag sessionUpdate.  Content     *)
(* that is a string is the object with the only field "string".              *)

Tags == {"agent_message_chunk", "agent_thought_chunk", "user_message_chunk", "plan", "result", "tool_call",
         "tool_call_update", "usage_update", "available_commands_update", "current_mode_update",
         "config_option_update", "session_info_update"}
StringJson(s) == [string |-> s]
FieldOf(o, names) == IF names \cap DOMAIN o = {} THEN {} ELSE {o[CHOOSE n \in names : n \in DOMAIN o]}

\* from_value::<SessionUpdateEvent>, whose tag decides what content must be.
IsSessionUpdate(u) ==
    /\ u.sessionUpdate \in Tags
    /\ u.sessionUpdate \in {"agent_message_chunk", "agent_thought_chunk", "user_message_chunk", "plan"} =>
          \A c \in FieldOf(u, {"content"}) : IsContentPart(c)
    /\ u.sessionUpdate = "result" => \A c \in FieldOf(u, {"content"}) : DOMAIN c = {"string"}
    /\ u.sessionUpdate \in {"tool_call", "tool_call_update"} => "not an object" \notin FieldOf(u, {"input"})
    /\ u.sessionUpdate = "tool_call_update" =>
          /\ "toolCallId" \in DOMAIN u
          /\ FieldOf(u, {"status"}) \subseteq {"pending", "in_progress", "completed", "failed"}

SessionUpdateTypeName(u) ==
    CASE u.sessionUpdate = "current_mode_update"  -> "extension:current_mode"
      [] u.sessionUpdate = "config_option_update" -> "extension:config_option"
      [] u.sessionUpdate = "session_info_update"  -> "extension:session_info"
      [] OTHER -> u.sessionUpdate

Named(u, name, values) == IF name \in DOMAIN u \/ values = {} THEN u ELSE [f \in {name} |-> CHOOSE v \in values : TRUE] @@ u
Without(u, name) == [f \in DOMAIN u \ {name} |-> u[f]]

\* title becomes name, rawInput input unless it is empty, rawOutput.output output.
NormalizeToolEventFields(u, type) ==
    IF type \notin {"tool_call", "tool_call_update"} THEN u
    ELSE LET named == IF "name" \in DOMAIN u THEN u ELSE Without(Named(u, "name", FieldOf(u, {"title"})), "title")
             given == Named(named, "input", FieldOf(u, {"rawInput"}) \ {"{}", "not an object"})
         IN  IF type = "tool_call" THEN given ELSE Named(given, "output", FieldOf(u, {"rawOutput"}))

\* The field of the update that inject_platform_commands extends.
WithPlatformCommands(u) ==
    IF "availableCommands" \in DOMAIN u
    THEN [u EXCEPT !.availableCommands = @ \cup PlatformCommands] ELSE u

AddReceivedTimestamp(message) == [received_at_ms |-> "now"] @@ message

MalformedUpdate == [sessionUpdate |-> "result", isError |-> TRUE, content |-> StringJson("malformed")]

(* forward_session_update: the content of DeliverMessage.  It is the object  *)
(* the agent sent, not the one it was parsed to.                             *)
ForwardedContent(u) ==
    LET type == SessionUpdateTypeName(u)
        tools == NormalizeToolEventFields(u, type)
    IN  AddReceivedTimestamp([update |-> IF type = "available_commands_update"
                                         THEN WithPlatformCommands(tools) ELSE tools])

HandleSessionUpdate(u) ==
    IF IsSessionUpdate(u) THEN ForwardedContent(u) ELSE [update |-> MalformedUpdate]

(* session/push: one update for each block of a session that is known; the   *)
(* second component is the JSON-RPC answer.                                   *)
HandleSessionPush(params, known) ==
    IF params = {} THEN <<<<>>, -32602>>
    ELSE LET p == CHOOSE p \in params : TRUE IN
         IF p.session \notin known THEN <<<<>>, -32001>>
         ELSE <<[i \in DOMAIN p.content |->
                    [update |-> [sessionUpdate |-> "agent_message_chunk",
                                 content |-> PartJson(ContentBlockToPart(p.content[i]))]]], 0>>

-----------------------------------------------------------------------------
(* ContentKind::from_content, in a channel *)

ContentText(u) ==
    LET text == UNION {FieldOf(c, {"text"}) \cup FieldOf(c, {"string"}) : c \in FieldOf(u, {"content"})}
    IN  IF text = {} THEN "" ELSE CHOOSE t \in text : TRUE

UrlOf(u, first, second) ==
    LET c == u.content
        found == IF FieldOf(c, {first}) # {} THEN FieldOf(c, {first}) ELSE FieldOf(c, {second})
    IN  IF found = {} THEN NoUrl ELSE CHOOSE x \in found : TRUE

Kind(k, text, url) == [kind |-> k, text |-> text, url |-> url]

FromContent(content) ==
    LET u == content.update
        tag == u.sessionUpdate
        type == UNION {FieldOf(c, {"type"}) : c \in FieldOf(u, {"content"})}
    IN  CASE tag = "agent_thought_chunk" -> Kind("thought", ContentText(u), NoUrl)
          [] tag = "agent_message_chunk" ->
                CASE type = {"image"} -> Kind("image", "", UrlOf(u, "uri", "url"))
                  [] type = {"file"}  -> Kind("file", "", UrlOf(u, "url", "uri"))
                  [] type = {"audio"} -> Kind("audio", "", UrlOf(u, "data", "url"))
                  [] type = {"resource_link"} -> Kind("file", "", UrlOf(u, "uri", "uri"))
                  [] OTHER -> Kind("chunk", ContentText(u), NoUrl)
          [] tag = "result" -> Kind(IF FieldOf(u, {"isError"}) = {TRUE} THEN "error" ELSE "result",
                                    ContentText(u), NoUrl)
          [] tag = "user_message_chunk" -> Kind("user", ContentText(u), NoUrl)
          [] tag \in {"usage_update", "tool_call", "tool_call_update", "available_commands_update"} ->
                Kind(tag, "", NoUrl)
          [] OTHER -> Kind("unknown", "", NoUrl)

CommandsOf(content) == UNION FieldOf(content.update, {"availableCommands"})

(* deliver_to_chat for what is not part of a turn: the method of the         *)
(* Telegram API that is called, {} when nothing is shown.  An empty url does *)
(* not parse.                                                                *)
DeliverMedia(kind, mime, commands) ==
    CASE kind.kind = "image" /\ kind.url # NoUrl -> {"sendPhoto"}
      [] kind.kind = "file"  /\ kind.url # NoUrl -> {"sendDocument"}
      [] kind.kind = "audio" /\ kind.url # NoUrl ->
            IF mime \subseteq {"ogg", "opus"} /\ mime # {} THEN {"sendVoice"} ELSE {"sendAudio"}
      [] kind.kind = "available_commands_update" /\ commands # {} -> {"setMyCommands"}
      [] OTHER -> {}
=============================================================================
