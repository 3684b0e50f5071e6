----------------------------- MODULE Computations -----------------------------
(***************************************************************************)
(* The functions of the system on every input of small sets: a behaviour   *)
(* is one input, and the properties say what a function makes of it, or    *)
(* what the results of several functions have to do with each other.  fn   *)
(* names the function, the other fields of input are its arguments.        *)
(***************************************************************************)
EXTENDS AccessControl, ConfigValidate, TelegramText, MockAgent, AgentSlots, FsSandbox, SessionStore,
        WasmTools

VARIABLE input

\* Sequences over S of up to n elements; optional values.
UpTo(S, n) == UNION {[1..k -> S] : k \in 0..n}
Opt(S) == {{}} \cup {{x} : x \in S}

-----------------------------------------------------------------------------
(* Access control: the options of a channel, a sender and where it writes.  *)

Entry(json, n, name) == [json |-> json, n |-> n, name |-> name]
Array(items) == [array |-> TRUE, items |-> items]
NoArray == [array |-> FALSE, items |-> <<>>]
AllowLists == {Array(<<>>), Array(<<Entry("other", 0, "")>>), Array(<<Entry("num", 1, "")>>),
               Array(<<Entry("no name", 0, ""), Entry("@name", 0, "Bob")>>),
               Array(<<Entry("digits", 2, ""), Entry("*", 0, "")>>), NoArray}
GroupOptions ==
    Opt([key : {0, 1}, enabled : Opt({"false", "other"}), group_policy : Opt({"open", "allowlist", "typo"}),
         allowed_users : Opt({Array(<<>>), Array(<<Entry("digits", 2, "")>>)}), require_mention : Opt({"true"})])
ChannelOptions ==
    Opt([group_policy : Opt({"allowlist", "disabled", "typo"}), allowed_users : Opt(AllowLists),
         require_mention : Opt({"true"}), groups : GroupOptions])
Senders == {[user_id |-> {1}, username |-> {"bob"}], [user_id |-> {3}, username |-> {"Bob"}],
            [user_id |-> {2}, username |-> {}], [user_id |-> {}, username |-> {}]}

AccessInputs ==
    [fn : {"access"}, options : ChannelOptions, sender : Senders, group : BOOLEAN,
     mentioned : BOOLEAN]

\* Whether an entry of the options names the sender.
Meant(entry, sender) ==
    \/ entry.json = "*"
    \/ entry.json \in {"num", "digits"} /\ entry.n \in sender.user_id
    \/ entry.json \in {"name", "@name"} /\ \E u \in sender.username : Lower(u) = Lower(entry.name)

MeantIn(lists, sender) == \E l \in lists : \E e \in ToSet(l.items) : Meant(e, sender)

(* The bot answers nobody its operator has not let in.  Someone whom no     *)
(* entry of any list names, although the channel has a list, is answered in  *)
(* a group at most, only where the options leave that group open, and never *)
(* in a group that is switched off or, without a mention, in one that asks   *)
(* for mentions; and where the sender is refused for the list the text of a  *)
(* message of theirs that someone else answers is withheld as well.         *)
StrangersKeptOut ==
    input.fn = "access" /\ input.options # {} =>
        LET o == CHOOSE o \in input.options : TRUE
            cfg == FromOptions(input.options)
            own == {g \in o.groups : g.key = 1}
            lists == o.allowed_users \cup UNION {g.allowed_users : g \in own}
            decision == EvaluateAccess(cfg, 1, input.sender, input.group, input.mentioned)
            chosen == IF \E g \in own : g.group_policy \in {{"open"}, {"allowlist"}}
                      THEN UNION {g.group_policy : g \in own} ELSE o.group_policy
        IN  o.allowed_users # {} /\ ~MeantIn(lists, input.sender) =>
               /\ decision = "allow" =>
                     /\ input.group
                     /\ chosen \notin {{"allowlist"}, {"disabled"}}
                     /\ \A g \in own : g.enabled # {"false"}
                     /\ {"true"} \in {g.require_mention : g \in IF own = {} THEN {o} ELSE own} => input.mentioned
               /\ decision = "group_sender_not_allowed" =>
                     ShouldSuppressReplyContext(cfg, 1, input.sender, TRUE)

-----------------------------------------------------------------------------
(* Configuration files: one agent, perhaps a channel and a tool.             *)

BuiltIn(n) == [at |-> "built-in", name |-> n]
Ext(n) == [at |-> "ext", name |-> n]
Dir(n) == [at |-> "dir", name |-> n]
Limit(f, n, u) == [num |-> [f |-> f, n |-> n], unit |-> u]
EnvTag(v, d) == [t |-> "env", s |-> "", spec |-> [var |-> v, default |-> d]]

Command(words, array) == [array |-> array, items |-> words]
Binaries == {Command(<<BuiltIn("acp")>>, FALSE), Command(<<BuiltIn("acp"), Ext("flag")>>, TRUE),
             Command(<<>>, TRUE)}
EnvMaps == {<<>>} \cup {[TOKEN |-> v] : v \in {Str("7"), Bool("true"), EnvTag("SET", {}), EnvTag("UNSET", {}),
                                               EnvTag("UNSET", {"word"})}}
LocalSpaces ==
    {[type |-> "local", binary |-> b] : b \in Binaries}
    \cup {[type |-> "local", binary |-> b, env |-> e, working_dir |-> w] :
            b \in Binaries, e \in EnvMaps, w \in Opt({Dir("here"), Dir("gone")})}
DockerSpaces ==
    {[type |-> "docker", image |-> "i"]}
    \cup {[type |-> "docker", image |-> "i", pull_policy |-> p, entrypoint |-> e, memory_limit |-> m,
           cpu_limit |-> u, docker_host |-> h, volumes |-> v] :
            p \in {"", "never", "if_not_present", "sometimes"},
            e \in Opt({Command(<<>>, TRUE), Command(<<Ext("a"), Ext("b")>>, TRUE)}),
            m \in Opt({Limit("num", 1024, "m"), Limit("bad", 0, "k"), Limit("num", 0, "g"),
                       Limit("nan", 0, "k"), Limit("num", 1, "wide")}),
            u \in Opt({Limit("num", 2048, ""), Limit("num", -1, "m")}),
            h \in Opt({[scheme |-> "tcp"], [scheme |-> "http"]}),
            v \in {{}, {[colon |-> FALSE]}}}
Label(n) == [len |-> n, alphanumeric |-> TRUE, edgeHyphen |-> FALSE]
Hosts == {[ip |-> FALSE, labels |-> l] : l \in {<<Label(9)>>, <<Label(0)>>, <<Label(64)>>,
                                               <<Label(62), Label(63), Label(63), Label(62)>>,
                                               <<Label(63), Label(63), Label(63), Label(63)>>}}
Rests ==
    {<<>>, [log_level |-> "debug", channels_manager |-> [exit_timeout_secs |-> 9]],
     [unknown |-> 1],
     [channels_manager |-> [channels |-> [tg |-> [binary |-> BuiltIn("telegram-channel"), agent |-> "a",
                                                  backoff |-> {[base_delay_ms |-> 1]}]]],
      tools_manager |-> [tools |-> [t |-> [binary |-> {Ext("tools/t")}, enabled |-> FALSE]]]],
     [tools_manager |-> [tools |-> [t |-> [tool_type |-> "wasm", module |-> {"m"},
                                           sandbox |-> [fuel_limit |-> 5]]]],
      session_store |-> [type |-> "sqlite", ttl_days |-> 1],
      supervisor |-> [admin_port |-> 0, permission_timeout_secs |-> {60}]]}
    \cup {[tools_manager |-> [tools_server_host |-> h]] : h \in Hosts}
File(space, enabled, rest) ==
    rest @@ [agents_manager |-> [agents |-> [a |-> [workspace |-> space, enabled |-> enabled]]]]
Disks == {{Ext("agents/acp-bridge"), Ext("channels/telegram"), Dir("here")},
          {Ext("agents/acp-bridge"), Ext("tools/t"), Ext("channels/telegram")}}
Environment == [SET |-> "007"]

ConfigInputs ==
    [fn : {"config"},
     file : {File(w, e, r) : w \in LocalSpaces, e \in BOOLEAN, r \in Rests}
            \cup {File(w, TRUE, r) : w \in DockerSpaces, r \in {<<>>, [unknown |-> 1]}},
     disk : Disks, strict : BOOLEAN]

(* What `anyclaw validate` calls valid starts: the program boots from the    *)
(* same file and nothing that is enabled fails to spawn for a reason that    *)
(* the configuration and the disk show, neither a path that is resolved      *)
(* later nor a limit that is parsed again when the container is made.        *)
ValidatedStarts ==
    input.fn = "config" /\ ValidateCommand(input.file, input.strict, input.disk, Environment) = "valid" =>
        /\ RunCommand(input.file, Environment) = "boots"
        /\ SpawnFailures(BootedConfig(input.file, Environment), input.disk) = {}

(* "Config validation fails ... Boot aborted" (docs/design-principles.md:57). *)
InvalidRefused ==
    input.fn = "config" /\ ValidateCommand(input.file, FALSE, input.disk, Environment) = "errors" =>
        RunCommand(input.file, Environment) # "boots"

-----------------------------------------------------------------------------
(* Texts of the Telegram channel *)

SplitInputs ==
    [fn : {"split"}, max : 3..5, text : UpTo({"x", "n", ".", " ", "<", "</", "pre>"}, 5)
                                          \cup {<<"w1", "w2", "x", "w1", "w2", "n", "x">>,
                                                <<"x", "x", "w1", "w2", "w1", "w2", "x">>,
                                                <<"x", "x", "x", "w1", "w2">>,
                                                OpenPre \o <<"n">> \o ClosePre \o <<"x">>}]

(* "Never split inside a <pre> block" (deliver.rs): no piece but the last     *)
(* leaves a block open that the text closes.                                *)
CodeBlocksWhole ==
    input.fn = "split" =>
        LET chunks == SplitMessage(input.text, input.max)
            count(p, q) == Cardinality(Finds(p, q))
            balanced(t) == count(t, OpenPre) >= count(t, ClosePre)
        IN  /\ count(input.text, OpenPre) = count(input.text, ClosePre)
            /\ \A i \in DOMAIN input.text : balanced(SubSeq(input.text, 1, i))
            => \A i \in DOMAIN chunks : count(chunks[i], OpenPre) <= count(chunks[i], ClosePre)

Alphabets == {{"*", "x", "tick"}, {"*", "x", "n"}, {"*", "_", "x"}, {"*", "~", "x"}, {"_", "x", " ", "tick"},
              {"#", " ", "n", "x"}, {"#", " ", "*"}, {"[", "](u)", "x"}, {"[", "](u)", "~"}}
MarkupInputs ==
    [fn : {"markup"}, text : UNION {UpTo({Text(s) : s \in a}, IF Cardinality(a) = 3 THEN 7 ELSE 5) : a \in Alphabets}
                             \cup {[i \in 1..6 |-> Text("tick")] \o t : t \in UpTo({Text("tick"), Text("x")}, 3)}]

\* Every closing tag closes the last one that is open.
WellNested(html) ==
    LET walk == FoldLeft(LAMBDA s, e :
                    CASE e[1] = "open"  -> [s EXCEPT !.stack = Append(@, e[2])]
                      [] e[1] = "close" -> IF s.stack # <<>> /\ Last(s.stack) = e[2]
                                           THEN [s EXCEPT !.stack = Front(@)] ELSE [s EXCEPT !.ok = FALSE]
                      [] OTHER          -> s,
                    [stack |-> <<>>, ok |-> TRUE], html)
    IN  walk.ok /\ walk.stack = <<>>

\* The same of the tags of each name by themselves.
Balanced(html) == \A tag \in {e[2] : e \in ToSet(html)} : WellNested(SelectSeq(html, LAMBDA e : e[2] = tag))

\* One kind of markup besides code, with stars all single or all double.
Unmixed(t) ==
    LET places(s) == {i \in DOMAIN t : t[i] = Text(s)}
        beside(i) == places("*") \cap {i - 1, i + 1}
    IN  /\ Cardinality({s \in {"*", "~", "_", "#", "["} : places(s) # {}}) <= 1
        /\ \/ \A i \in places("*") : beside(i) = {}
           \/ \A i \in places("*") : Cardinality(beside(i)) = 1

(* Telegram takes what is sent to it.  A text that is too long for one       *)
(* message goes out in pieces that add up to the text, none of them empty,   *)
(* none starting inside a character, and none longer than the limit, except  *)
(* one that ends where a code block does.  A text becomes HTML in which the   *)
(* tags of each name are paired, whatever markers are left over or overlap,  *)
(* and so does every beginning of it once close_open_tags has closed it;     *)
(* both nest, if there is code and one kind of markup only.                 *)
RepliesPresentable ==
    /\ input.fn = "split" =>
          LET chunks == SplitMessage(input.text, input.max)
              ends(i) == FoldLeft(LAMBDA n, j : n + Len(chunks[j]), 0, [j \in 1..i |-> j])
          IN  /\ FlattenSeq(chunks) = input.text
              /\ \A i \in DOMAIN chunks :
                    /\ input.text # <<>> => chunks[i] # <<>>
                    /\ IsCharBoundary(input.text, ends(i))
                    /\ Len(chunks[i]) > input.max => IsSuffix(ClosePre, chunks[i])
    /\ input.fn = "markup" =>
          LET html == FormatTelegramHtml(input.text)
          IN  \A n \in 0..Len(html) :
                  LET shown == CloseOpenTags(SubSeq(html, 1, n))
                  IN  Balanced(shown) /\ (Unmixed(input.text) => WellNested(shown))

(* "Convert markdown-ish agent output to Telegram-safe HTML" (formatting.rs):  *)
(* the tags of every text nest, whatever it mixes.                          *)
TagsNest == input.fn = "markup" => WellNested(FormatTelegramHtml(input.text))

-----------------------------------------------------------------------------
(* Names that are put together in one place and taken apart in another       *)

Words == UpTo({"a", "b", ":"}, 2)
Plain == {w \in UpTo({"a", "b"}, 2) : w # <<>>}
KeyInputs == [fn : {"key"}, channel : Plain, kind : Plain, peer : Words]
ButtonInputs == [fn : {"button"}, request : UpTo({"a", ":"}, 6), option : UpTo({"y"}, 7)]
SliceInputs == [fn : {"slice"}, text : UpTo({1, 2}, 4), offset : 0..5, length : 1..5]

\* The UTF-16 units in front of character i, and the slice by what it is for.
UnitsBefore(text, i) == FoldLeft(LAMBDA n, l : n + l, 0, SubSeq(text, 1, i - 1))
SliceOf(text, offset, length) ==
    {s \in (DOMAIN text) \X (1..(Len(text) + 1)) :
        UnitsBefore(text, s[1]) = offset /\ UnitsBefore(text, s[2]) = offset + length}

Urls == {Address("u"), DataUrl("image/png", TRUE, "d"), BadDataUrl("u")}
ContentInputs ==
    [fn : {"content"}, part : {TextPart("t")} \cup {ImagePart(u) : u \in Urls}
                              \cup {FilePart(u, n, m) : u \in Urls, n \in Opt({"n"}), m \in Opt({"m"})}
                              \cup {AudioPart(u, m) : u \in Urls, m \in Opt({"m"})}]

(* Messages as JSON, updates and pushes of an agent, commands of a user.     *)

StructInputs == [fn : {"struct"}, type : Structs]

Parts == {TextPart("t"), ImagePart(Address("u")), FilePart(Address("u"), {"n"}, {"m"})}
         \cup {AudioPart(Address("u"), m) : m \in Opt({"ogg"})}
Bare(tag) == [sessionUpdate |-> tag]
Updates ==
    {Chunk(t, PartJson(p)) : t \in {"agent_message_chunk", "agent_thought_chunk", "user_message_chunk"}, p \in Parts}
    \cup {Chunk("result", StringJson("t"))} \cup {Bare(t) : t \in Tags}
    \cup {[availableCommands |-> c] @@ Bare("available_commands_update") : c \in SUBSET {"help"}}
    \cup {[toolCallId |-> "1"] @@ n @@ i @@ o @@ Bare(t) :
              t \in {"tool_call", "tool_call_update"}, n \in {<<>>, [name |-> "n"], [title |-> "n"]},
              i \in {<<>>, [input |-> "i"], [rawInput |-> "i"], [rawInput |-> "{}"]},
              o \in {<<>>, [output |-> "o"], [rawOutput |-> "o"]}}
UpdateInputs == [fn : {"update"}, update : Updates]
PushInputs ==
    [fn : {"push"}, known : BOOLEAN,
     blocks : UpTo({ContentPartToBlock(p) : p \in Parts} \cup {Block("resource", "", NoUrl, {Address("u")}, "", {})}, 2)]

CommandInputs ==
    [fn : {"command"}, parts : {<<TextPart(t)>> : t \in UpTo({"/", "new", "cancel", "@", "x"}, 4)}
                               \cup {<<ImagePart(Address("u"))>>, <<TextPart(<<"/", "new">>), ImagePart(Address("u"))>>}]
ReplyInputs == [fn : {"reply"}, meta : ValuesOf(MessageMetadata), quote : BOOLEAN]

(* A conversation of the agents manager with the mock agent: what it is      *)
(* configured with, and the requests and notices in order, with their ids.   *)
Told(m, p) == [method |-> m, params |-> p]
Tools(sent, answer) == [sent |-> sent, answer |-> answer]
FirstPrompt ==
    PromptParts(FetchToolContext(Tools(TRUE, {<<"tool">>})),
                [f \in DOMAIN MessageMetadata |-> IF f = "threadId" THEN {"thread"} ELSE {}], <<TextPart("b")>>)
HostLines ==
    {Told("session/new", p) : p \in UNION {StartSessionRequest(Tools(TRUE, a), "dir") : a \in {{}, {<<"u1", "u2">>}}}}
    \cup {Told("session/load", LoadRequest("s1", Tools(FALSE, {}), "dir")), Told("session/resume", <<>>),
          Told("session/cancel", <<>>), Told("session/fork", <<>>)}
    \cup {Told("session/prompt", PromptRequest("s", p)) : p \in {<<>>, <<TextPart("a")>>, FirstPrompt}}
AgentOptions ==
    {{}} \cup {{o} : o \in [exit_after : {0, 1}, request_permission : BOOLEAN, reject_load : BOOLEAN, thinking : {FALSE}]
                       \cup [new_id : {"s9"}, echo_mcp_count : {TRUE}, reject_resume : {TRUE}]}
MockInputs == [fn : {"mock"}, options : AgentOptions, told : UpTo(HostLines, 3)]

Conversation(options, told) ==
    <<Line("initialize", 1, InitializeRequest(options))>>
    \o [i \in DOMAIN told |-> Line(told[i].method, IF told[i].method = "session/cancel" THEN 0 ELSE i + 1, told[i].params)]
    \o <<Line("keepalive", 0, <<>>)>>

\* The text of the messages that the channel shows of what the agent wrote.
Shown(out) ==
    LET kinds == [i \in DOMAIN out |-> FromContent(HandleSessionUpdate(out[i].body))]
        chunks == SelectSeq(kinds, LAMBDA k : k.kind = "chunk")
    IN  [i \in DOMAIN chunks |-> chunks[i].text]

(* Two slots, perhaps with the same conversation, and what is asked of them.  *)
ConfiguredAgent(name, e) == [enabled |-> e, docker |-> name = <<"a">>, acp_timeout_secs |-> IF name = <<"a">> THEN {2} ELSE {}]
Slot(name, state, caps, keys) ==
    LET own == IF state = "up" THEN keys \cup {name \o <<":", "default", ":", "default">>} ELSE {}
    IN  [NewSlot(name, ConfiguredAgent(name, TRUE))
            EXCEPT !.disabled = state = "disabled", !.connection = state = "up", !.capabilities = caps,
                   !.session_map = [k \in own |-> <<name, k>>],
                   !.reverse_map = [id \in {<<name, k>> : k \in own} |-> id[2]]]
SomeKeys == SUBSET {<<"tg", ":", "direct", ":", "1">>, <<"web", ":", "local", ":", ":">>}
SlotInputs ==
    [fn : {"slots"}, key : {<<"tg", ":", "direct", ":", "1">>}, reply : {{}, {[after |-> 1, id |-> <<"new">>]}, {[after |-> 3, id |-> <<"new">>]}},
     configs : {{ConfiguredAgent(<<"a">>, e), ConfiguredAgent(<<"b">>, TRUE)} : e \in BOOLEAN} \cup {{ConfiguredAgent(<<"b">>, FALSE)}},
     slots : {<<>>} \cup
             {<<Slot(<<"a">>, x, caps, k), Slot(<<"b">>, y, {{"fork", "list"}}, l)>> :
                 x \in {"up", "down", "disabled"}, y \in {"up", "down", "disabled"}, caps \in {{}, {{"fork"}}},
                 k \in SomeKeys, l \in SomeKeys}]

StatusInputs ==
    [fn : {"status"}, up : SUBSET {"tools", "agents", "channels"}, agents : SUBSET {"a", "b"}, channels : SUBSET {"tg"},
     tools : SUBSET [name : {"t"}, enabled : BOOLEAN, tool_type : {"mcp", "wasm"}]]

(* An agent is shown as connected while its "subprocess is currently           *)
(* connected", with its number of sessions (core health.rs:19).             *)
ShownAsConnected ==
    input.fn = "slots" =>
        \A i \in DOMAIN input.slots :
            LET shown == FormatStatusOutput(RefreshHealthSnapshot({"agents"}, {input.slots[i].name}, {}, {})).agents
                told == GetStatus(input.slots)[i]
            IN  \A a \in shown : a.status = "connected" => told.connected /\ a.sessions = {told.session_count}

(* The tools of a configuration, and what one of them prints.                *)
ToolConfigs == [name : {"a", "b"}, module : Opt({"file", "lost"}), input_schema : Opt({"no json", "array", "object with x"})]
ToolInputs ==
    [fn : {"tool"}, tools : UpTo(ToolConfigs, 2), text : [json : {"no", "string", "object"}, s : {<<>>, <<"t">>, <<" ", " ">>, <<" ", "t", " ", "t", " ">>}]]

(* channel.rs reads the image, audio and resource_link blocks of ACP in an   *)
(* agent_message_chunk; the manager lets them through.                       *)
AcpMediaShown ==
    input.fn = "push" =>
        \A i \in DOMAIN input.blocks :
            FromContent(HandleSessionUpdate(Chunk("agent_message_chunk", BlockJson(input.blocks[i])))).kind # "error"

(* What one part of the system writes another reads as it was meant: the     *)
(* parts, each named for what comes back.                                   *)

(* The channel of a conversation, which is how an update of an agent finds    *)
(* its channel, and the conversation itself when it comes back from the      *)
(* store.                                                                   *)
KeysReturn ==
    input.fn = "key" =>
        LET key == NewSessionKey(input.channel, input.kind, input.peer)
        IN  ChannelName(key) = input.channel /\ ParseSessionKey(key) = {key}

(* A button gives back its option, whatever colons are in the id of the       *)
(* request, and the id or, if it does not fit, the beginning of it; its data *)
(* fits, unless the option alone is too long.                               *)
ButtonsReturn ==
    input.fn = "button" =>
        LET data == ButtonData(input.request, input.option, 6)
        IN  \E n \in 0..Len(input.request) :
               /\ ParseCallbackData(data) = {<<SubSeq(input.request, 1, n), input.option>>}
               /\ Len(input.request) + 1 + Len(input.option) <= 6 => n = Len(input.request)
               /\ Len(input.option) < 6 => Len(data) <= 6

(* The name that an entity of a message covers.                              *)
SlicesAgree ==
    input.fn = "slice" =>
        SliceUtf16(input.text, input.offset, input.length) = SliceOf(input.text, input.offset, input.length)

(* Where the file of a piece of content is, after a channel sent it and an    *)
(* agent returned it, unless it is an image inside its URL.                 *)
ContentReturns ==
    input.fn = "content" /\ ~(input.part.type = "image" /\ input.part.url.scheme = "data") =>
        ContentBlockToPart(ContentPartToBlock(input.part)).url = input.part.url

(* A configuration without containers that is written out.  A file means the  *)
(* same with the defaults of defaults.yaml as with those of types.rs.       *)
ConfigReturns ==
    input.fn = "config" =>
        \A c \in Load(input.file, Environment) :
           /\ c = AnyclawConfig(ResolveFile(input.file, Environment))
           /\ (\A a \in DOMAIN c.agents_manager.agents : c.agents_manager.agents[a].workspace.type = "local")
                 => Load(Serialize(c), Environment) = {c}

(* Every message struct survives the wire.                                   *)
StructsReturn ==
    input.fn = "struct" => \A v \in ValuesOf(input.type) : FromJson(input.type, ToJson(input.type, v)) = {v}

(* What an agent says reaches the channel as the same kind of content with    *)
(* the same text or place, and a tool with its name, input and output under  *)
(* either of their names.                                                   *)
UpdatesAreShown ==
    input.fn = "update" =>
        LET u == input.update
            content == HandleSessionUpdate(u)
            kind == FromContent(content)
        IN  /\ u.sessionUpdate = "agent_message_chunk" /\ "content" \in DOMAIN u =>
                  kind = CHOOSE k \in {Kind(IF p.type = "text" THEN "chunk" ELSE p.type, p.text, p.url) :
                                          p \in {p \in Parts : PartJson(p) = u.content}} : TRUE
            /\ u.sessionUpdate = "result" => kind.kind = "result" /\ kind.text = ContentText(u)
            /\ "availableCommands" \in DOMAIN u =>
                  /\ CommandsOf(content) = u.availableCommands \cup PlatformCommands
                  /\ DeliverMedia(kind, {}, CommandsOf(content)) = {"setMyCommands"}
            /\ "toolCallId" \in DOMAIN u =>
                  /\ FieldOf(content.update, {"name"}) = FieldOf(u, {"name", "title"})
                  /\ FieldOf(content.update, {"input"}) = FieldOf(u, {"input", "rawInput"}) \ {"{}"}
                  /\ u.sessionUpdate = "tool_call_update" =>
                        FieldOf(content.update, {"output"}) = FieldOf(u, {"output", "rawOutput"})

(* What an agent pushes reaches the channel in the same way, and is shown if  *)
(* it has a place.                                                          *)
PushesAreShown ==
    input.fn = "push" =>
        LET pushed == HandleSessionPush({[session |-> "s", content |-> input.blocks]}, IF input.known THEN {"s"} ELSE {})
        IN  /\ (pushed[2] = 0) = input.known
            /\ input.known => \A i \in DOMAIN input.blocks :
                  LET b == input.blocks[i]
                      kind == FromContent(pushed[1][i])
                  IN  /\ kind.text = b.text
                      /\ {kind.url} = (IF b.type = "audio" THEN {b.data} ELSE IF b.uri = {} THEN {NoUrl} ELSE b.uri)
                      /\ (b.uri # {} \/ b.type = "audio") = (DeliverMedia(kind, b.mime, {}) # {})

(* A message is a platform command exactly when it is a slash and a name of   *)
(* the menu, and nothing else but what follows an @.                        *)
CommandsAreKnown ==
    input.fn = "command" =>
        (UNION {MatchPlatformCommand(t) : t \in ExtractCommandText(input.parts)} # {})
           <=> LET t == input.parts[1].text
               IN  /\ input.parts = <<TextPart(t)>> /\ Len(t) >= 2 /\ t[1] = "/" /\ t[2] \in PlatformCommands
                   /\ Len(t) > 2 => t[3] = "@"

(* What a message answers is told in brackets that match.                    *)
RepliesAreClosed ==
    input.fn = "reply" =>
        \A lines \in ReplyContext([input.meta EXCEPT !.replyToIsQuote = IF input.quote THEN {"quote"} ELSE @]) :
           /\ input.meta.replyToText # {} <=> "text" \in ToSet(lines)
           /\ "quoting" \in ToSet(lines) => Last(lines) = "/quoting"
           /\ "replying" \in ToSet(lines) => Last(lines) = "/replying"

(* A fork is found by its id and by its key, in the channel of the            *)
(* conversation it was made from; a cancel goes to the agent whose session   *)
(* it is, and once to each when everything is cancelled; a healthy manager   *)
(* has an agent to talk to, unless none is configured.                      *)
SlotsAreFound ==
    input.fn = "slots" =>
        LET s == input.slots IN
        /\ \A name \in {<<"a">>, <<"b">>, <<"c">>} :
              /\ \A t \in ForkSession(s, name, input.key, input.reply, 4) :
                    \E i \in FindSlotByName(t, name) :
                       /\ s[i].connection
                       /\ \A r \in input.reply : /\ t[i].session_map[t[i].reverse_map[r.id]] = r.id
                                                 /\ ChannelName(t[i].reverse_map[r.id]) = ChannelName(input.key)
                       /\ \A j \in DOMAIN s : j # i => t[j] = s[j]
              /\ \A n \in CancelSession(s, name, input.key) :
                    s[n[1]].name = name /\ s[n[1]].reverse_map[n[2]] = input.key
              /\ ListSessions(s, name, input.reply, 4) # {} => \E i \in DOMAIN s : s[i].name = name /\ GetStatus(s)[i].connected
        /\ CancelSessionByKey(s, input.key) \subseteq CancelOperation(s)
        /\ \A i \in DOMAIN s : Cardinality({n \in CancelOperation(s) : n[1] = i})
                                  = IF GetStatus(s)[i].connected THEN GetStatus(s)[i].session_count ELSE 0
        /\ HealthCheck(input.configs, s) =>
              \/ \A c \in input.configs : ~c.enabled
              \/ \E i \in DOMAIN s : GetStatus(s)[i].connected
        /\ \A i \in Keepalives(s) : ~s[i].disabled /\ GetStatus(s)[i].connected

(* The admin server answers 503 exactly when `anyclaw status` prints an agent *)
(* that is disconnected, and both name every configured agent once.         *)
StatusAgrees ==
    input.fn = "status" =>
        LET snapshot == RefreshHealthSnapshot(input.up, input.agents, input.channels, input.tools)
            output == FormatStatusOutput(snapshot)
        IN  /\ (HealthHandler(snapshot) = 503) <=> \E a \in output.agents : a.status = "disconnected"
            /\ \A n \in input.agents : Cardinality({a \in output.agents : a.name = n}) = 1
            /\ output.mcp_servers = {} => \A t \in input.tools : t.enabled => t.tool_type = "wasm"

(* A WASM tool whose file is there is listed once, with the schema of the     *)
(* last entry of its name if that is an object, and what it prints is what   *)
(* the agent reads, without the blanks around a text that is no JSON.        *)
ToolsAreListed ==
    input.fn = "tool" =>
        LET loaded == SelectSeq(input.tools, LAMBDA t : WasmToolNew(t, {"file"}) # {})
            list == BuildToolList(ToolServerNew(loaded))
        IN  /\ \A n \in {"a", "b"} :
                  LET own == SelectSeq(input.tools, LAMBDA t : t.name = n /\ t.module = {"file"})
                      shown == {t.schema : t \in {t \in list : t.name = n}}
                  IN  /\ Cardinality(shown) = Min({1, Len(own)})
                      /\ own # <<>> /\ Last(own).input_schema = {"object with x"} => shown = {"object with x"}
                      /\ "array" \notin shown
            /\ LET printed == input.text.s
                   read == ResultText(Execute(input.text)).s
               IN  /\ input.text.json # "no" => read = printed
                   /\ input.text.json = "no" =>
                         \E i, j \in 0..Len(printed) :
                            /\ read = SubSeq(printed, i + 1, j) /\ \A k \in DOMAIN printed \ (i + 1..j) : printed[k] = " "
                            /\ read # <<>> => Head(read) # " " /\ Last(read) # " "

(* The mock agent answers all requests of the manager, in order, and the      *)
(* channel shows the echo of every text under the session the manager was    *)
(* given last.                                                              *)
MockAnswers ==
    input.fn = "mock" =>
        LET agent == RunAgent(Conversation(input.options, input.told))
            answers == SelectSeq(agent.out, LAMBDA l : l.line \in {"result", "error"} /\ l.id # 0)
            prompts == SelectSeq(input.told, LAMBDA t : t.method = "session/prompt")
            texts == FlattenSeq([i \in DOMAIN prompts |-> CHOOSE b \in prompts[i].params.prompt : TRUE])
            updates == SelectSeq(agent.out, LAMBDA l : l.line = "update")
            last(i) == {j \in 1..i : agent.out[j].line = "result" /\ "sessionId" \in DOMAIN agent.out[j].body}
        IN  /\ agent.alive /\ (\A o \in input.options : "request_permission" \in DOMAIN o => ~o.request_permission) =>
                  /\ [i \in DOMAIN answers |-> answers[i].id]
                        = SelectSeq([i \in 1..(Len(input.told) + 1) |->
                                        IF i > 1 /\ input.told[i - 1].method = "session/cancel" THEN 0 ELSE i],
                                    LAMBDA id : id # 0)
                  /\ \A o \in input.options : \A n \in Initialized(o, answers[1].body) : \A f \in DOMAIN o : n[f] = o[f]
                  /\ \A i \in DOMAIN answers : answers[i].line = "result" /\ "sessionId" \in DOMAIN answers[i].body =>
                        FromJson(SessionNewResult, answers[i].body) # {}
                  /\ Shown(updates) = [i \in DOMAIN texts |-> <<"Echo", texts[i].text>>]
            /\ \A i \in DOMAIN agent.out : agent.out[i].line = "update" /\ last(i) # {} =>
                  agent.out[i].session \in agent.out[Max(last(i))].body.sessionId

(* All of it: what is found again whatever its size, and what the folds of    *)
(* the model compute from a sequence.                                       *)
NamesReturn ==
    /\ KeysReturn /\ ButtonsReturn /\ ContentReturns /\ StructsReturn
    /\ CommandsAreKnown /\ RepliesAreClosed /\ SlotsAreFound /\ StatusAgrees
RoundTrips ==
    NamesReturn /\ SlicesAgree /\ ConfigReturns /\ UpdatesAreShown /\ PushesAreShown /\ ToolsAreListed /\ MockAnswers

-----------------------------------------------------------------------------
(* The session store through restarts *)

StoreConfigs == {[type |-> "none"]} \cup [type : {"sqlite"}, path : Opt({"db"}), ttl_days : {1}]
StoreOps ==
    [op : {"day"}] \cup [op : {"prompt"}, key : {"k1"}]
    \cup [op : {"create"}, key : {"k1"}, agent : {"a"}, ok : BOOLEAN]
    \cup [op : {"create"}, key : {"k2"}, agent : {"b"}, ok : {TRUE}]
    \cup [op : {"restart program"}, ok : BOOLEAN, slots : {{"a"}, {"a", "b"}}]
    \cup [op : {"restart manager"}, slots : {{"a", "b"}}]
\* A restart in which every agent that ever had a session has a slot.
Restart(ops) ==
    [op |-> "restart program", ok |-> TRUE,
     slots |-> {o.agent : o \in {o \in ToSet(ops) : o.op = "create"}}]
StoreInputs == [fn : {"store"}, config : StoreConfigs, ops : UpTo(StoreOps, 4)]

(* After a restart of the program an agent gets back exactly the sessions     *)
(* that were the last to be written for their conversations and are not      *)
(* older than the limit, whatever was restarted, replaced, not written or    *)
(* dropped before; a database in memory, or none, gives nothing back.        *)
RestoredIsLatest ==
    input.fn = "store" =>
        LET h == After(input.config, Append(input.ops, Restart(input.ops)))
        IN  h.stale = IF input.config.type = "none" \/ input.config.path = {} THEN {}
                      ELSE {h.sessions[k] : k \in {k \in DOMAIN h.sessions :
                                h.now - h.sessions[k].last_active_at <= input.config.ttl_days}}

(* last_active_at is the "timestamp of the last observed activity"            *)
(* (session_store.rs): a conversation in use does not expire.               *)
UsedIsRestored ==
    input.fn = "store" /\ input.config.type = "sqlite" =>
        LET h == After(input.config, Append(input.ops, Restart(input.ops)))
        IN  \A k \in DOMAIN h.sessions :
               h.now - h.used[k] <= input.config.ttl_days => \E r \in h.stale : r.session_key = k

-----------------------------------------------------------------------------
(* The files an agent asks for *)

SandboxDisk == [nodes |-> {<<"w">>, <<"w", "f">>, <<"w", "d">>, <<"w", "d", "f">>, <<"o">>, <<"o", "f">>, <<"w2">>},
                files |-> {<<"w", "f">>, <<"w", "d", "f">>, <<"o", "f">>},
                links |-> [p \in {<<"w", "in">>, <<"w", "out">>, <<"w", "lf">>, <<"r">>, <<"w", "loop">>} |->
                              IF p = <<"r">> THEN <<"w">> ELSE IF p = <<"w", "out">> THEN <<"o">>
                              ELSE IF p = <<"w", "lf">> THEN <<"o", "f">>
                              ELSE IF p = <<"w", "in">> THEN <<"w", "d">> ELSE p]]
PathInputs ==
    [fn : {"path"}, working_dir : Opt({<<"w">>, <<"r">>, <<"gone">>}), absolute : BOOLEAN,
     names : UpTo({"w", "f", "d", "in", "out", "lf", "..", "r", "loop", "w2"}, 3)]

(* A WASM tool on a host with three directories. *)
HostDirs == {"h1", "h2", "h3"}
Preopened(h, g, r) == [host |-> h, guest |-> g, readonly |-> r]
Preopens == {<<>>, <<Preopened("h1", "d1", TRUE)>>, <<Preopened("gone", "d1", FALSE)>>}
            \cup {<<Preopened(h, "d1", TRUE), Preopened("h2", "d2", FALSE)>> : h \in {"h1", "h2"}}
            \cup {<<Preopened(h, "d1", FALSE), Preopened("h2", "d2", TRUE)>> : h \in {"h1", "h2"}}
Instructions == [op : {"memory"}, n : {2, 9}, dir : {""}] \cup [op : {"table"}, n : {MaxTable, MaxTable + 1}, dir : {""}]
                \cup [op : {"trap"}, n : {0}, dir : {""}] \cup [op : {"print"}, n : {0}, dir : {"out"}]
                \cup [op : {"look", "change"}, n : {0}, dir : {"d1", "d2"}]
WasmInputs ==
    [fn : {"wasm"}, module : UpTo(Instructions, 3),
     sandbox : [fuel_limit : {2, 3}, memory_limit_bytes : {2, 8}, preopened_dirs : Preopens]]

(* A file an agent reads is one under its working directory, named by a path  *)
(* without links in it.  A file it writes lies in a directory it may read,   *)
(* and is that file, unless there is a link of that name, which the write    *)
(* follows: there is no other way out.  A WASM tool sees the directories it  *)
(* is configured with and changes one only if some entry for it is not       *)
(* read-only, uses no more memory than it is given, and says nothing if its  *)
(* fuel does not last, if it traps, or if a directory it asks for is missing. *)
OutsideOnlyByLink ==
  /\ input.fn = "wasm" =>
        LET dirs == ToSet(input.sandbox.preopened_dirs)
            r == ExecuteSync(input.sandbox, input.module, HostDirs)
        IN  /\ r.seen \subseteq {d.host : d \in dirs}
            /\ r.changed \subseteq {d.host : d \in {d \in dirs : ~d.readonly}}
            /\ r.memory <= input.sandbox.memory_limit_bytes /\ r.table <= MaxTable
            /\ r.result = "ok" <=> /\ Len(input.module) <= input.sandbox.fuel_limit
                                   /\ \A d \in dirs : d.host \in HostDirs
                                   /\ \A i \in DOMAIN input.module : input.module[i].op # "trap"
  /\ input.fn = "path" =>
        LET requested == [absolute |-> input.absolute, names |-> input.names]
            cwd == ResolveAgentCwd([working_dir |-> input.working_dir], <<"w">>)
            root == Canonicalize(SandboxDisk, cwd)
        IN  /\ \A p \in ValidateFsPath(SandboxDisk, cwd, requested) :
                  IsPrefix(root, p) /\ Canonicalize(SandboxDisk, p) = p
            /\ \A p \in ValidateFsWritePath(SandboxDisk, cwd, requested) :
                  /\ ValidateFsPath(SandboxDisk, cwd, [absolute |-> TRUE, names |-> Front(p)]) = {Front(p)}
                  /\ FileWritten(SandboxDisk, p) \subseteq {p} \/ p \in DOMAIN SandboxDisk.links

(* "Uses canonicalize() so symlinks cannot escape the sandbox"               *)
(* (fs_sandbox.rs): what an agent writes is under its working directory too. *)
WritesStayInside ==
    input.fn = "path" =>
        LET cwd == ResolveAgentCwd([working_dir |-> input.working_dir], <<"w">>)
        IN  \A p \in ValidateFsWritePath(SandboxDisk, cwd, [absolute |-> input.absolute, names |-> input.names]) :
               \A f \in FileWritten(SandboxDisk, p) : IsPrefix(Canonicalize(SandboxDisk, cwd), f)

-----------------------------------------------------------------------------
Init ==
    \/ input \in AccessInputs
    \/ input \in ConfigInputs
    \/ input \in SplitInputs
    \/ input \in MarkupInputs
    \/ input \in KeyInputs
    \/ input \in ButtonInputs
    \/ input \in SliceInputs
    \/ input \in StoreInputs
    \/ input \in ContentInputs
    \/ input \in PathInputs
    \/ input \in WasmInputs
    \/ input \in ToolInputs
    \/ input \in StructInputs
    \/ input \in UpdateInputs
    \/ input \in PushInputs
    \/ input \in CommandInputs
    \/ input \in ReplyInputs
    \/ input \in MockInputs
    \/ input \in SlotInputs
    \/ input \in StatusInputs

Next == UNCHANGED input

Spec == Init /\ [][Next]_input
=============================================================================
