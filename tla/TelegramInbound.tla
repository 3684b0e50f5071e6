--------------------------- MODULE TelegramInbound ---------------------------
(***************************************************************************)
(* The Telegram channel from the user to the supervisor: its dispatcher    *)
(* (messages, photos, taps on permission buttons) beside the harness loop, *)
(* which calls the TelegramChannel (initialize, session created,           *)
(* acknowledgements, permission prompts).  They share SharedState.         *)
(*                                                                         *)
(* The dispatcher handles the updates of one chat one after the other and  *)
(* chats beside each other.  A step runs to the next call of the Telegram  *)
(* API or to the next lock or queue another task may hold.                 *)
(***************************************************************************)
EXTENDS Integers, Sequences, FiniteSets

CONSTANTS
    Chats,
    Groups,       \* the chats that are groups
    Options,      \* options of a permission request
    Lifecycle,    \* reaction_lifecycle: "remove", "replace_done", "none"
    MaxMessages,  \* bound: messages of the users, and acknowledgements
    MaxPrompts,   \* bound: permission requests
    MaxTaps       \* bound: taps on one keyboard

ASSUME InboundAssumption ==
    /\ Groups \subseteq Chats
    /\ Lifecycle \in {"remove", "replace_done", "none"}
    /\ {MaxMessages, MaxPrompts, MaxTaps} \subseteq Nat

VARIABLES
    phase,       \* "new", "initialized", "ready", "failed"
    knowsBot,    \* bot_id and bot_username are known
    sessions,    \* chats of session_chat_map
    lastMsg,     \* last_message_ids, 0: none
    permMsgs,    \* permission_messages
    broker,      \* requests registered with the broker
    prompt,      \* show_permission_prompt under way: [at, req]
    updates,     \* of each chat: updates Telegram has for the dispatcher
    worker,      \* of each chat: what the dispatcher does
    outbound,    \* messages handed to the harness
    responses,   \* permission responses handed to the harness
    toAck,       \* messages the supervisor has not acknowledged yet
    toComplete,  \* chats whose response is not complete
    \* what the users see
    keyboard,    \* of each request: "none", "shown", "cleared"
    asker,       \* the chat of each request
    reaction,    \* of each message: "none", "ack", "done"
    \* counters behind the bounds, observer
    messages, taps,
    acked        \* <<message acknowledged, message that got the reaction>>

harnessVars == <<phase, knowsBot, sessions, broker, prompt>>
userVars    == <<keyboard, asker, reaction, messages, taps>>
vars == <<harnessVars, lastMsg, permMsgs, updates, worker, outbound, responses, toAck, toComplete, userVars, acked>>

Requests == 1 .. MaxPrompts
Ids      == 1 .. MaxMessages
IdleWork == [at |-> "idle", id |-> 0, kind |-> "none", refers |-> "nothing", image |-> FALSE, replyImage |-> FALSE, option |-> "none"]
NoPrompt == [at |-> "idle", req |-> 0]

\* SharedState::new and TelegramChannel::new
Init ==
    /\ phase = "new" /\ knowsBot = FALSE /\ sessions = {}
    /\ lastMsg = [c \in Chats |-> 0] /\ permMsgs = {} /\ broker = {} /\ prompt = NoPrompt
    /\ updates = [c \in Chats |-> <<>>] /\ worker = [c \in Chats |-> IdleWork]
    /\ outbound = [c \in Chats |-> <<>>] /\ responses = <<>>
    /\ toAck = [c \in Chats |-> <<>>] /\ toComplete = {}
    /\ keyboard = [r \in Requests |-> "none"] /\ asker \in [Requests -> Chats]
    /\ reaction = [m \in Ids |-> "none"] /\ messages = 0 /\ taps = [r \in Requests |-> 0]
    /\ acked = {}

(***************************************************************************)
(* The harness loop: one call of the channel at a time                     *)
(***************************************************************************)
AtLoop == phase = "ready" /\ prompt = NoPrompt

\* Without bot_token in its options the channel refuses and the process ends.
OnInitialize ==
    /\ phase = "new" /\ phase' \in {"initialized", "failed"}
    /\ UNCHANGED <<knowsBot, sessions, broker, prompt, lastMsg, permMsgs, updates, worker, outbound, responses,
                   toAck, toComplete, userVars, acked>>

\* The queues are set before the dispatcher is spawned; get_me may fail, and
\* is not tried again.
OnReady ==
    /\ phase = "initialized" /\ phase' = "ready" /\ knowsBot' \in BOOLEAN
    /\ UNCHANGED <<sessions, broker, prompt, lastMsg, permMsgs, updates, worker, outbound, responses,
                   toAck, toComplete, userVars, acked>>

OnSessionCreated(c) ==
    /\ AtLoop /\ outbound[c] # <<>> /\ c \notin sessions
    /\ sessions' = sessions \cup {c}
    /\ UNCHANGED <<phase, knowsBot, broker, prompt, lastMsg, permMsgs, updates, worker, outbound, responses,
                   toAck, toComplete, userVars, acked>>

\* handle_ack_message: the reaction goes to the last message of the chat.
HandleAckMessage(c) ==
    /\ AtLoop /\ toAck[c] # <<>>
    /\ toAck' = [toAck EXCEPT ![c] = Tail(@)] /\ toComplete' = toComplete \cup {c}
    /\ IF lastMsg[c] = 0 THEN UNCHANGED <<reaction, acked>>
       ELSE /\ acked' = acked \cup {<<Head(toAck[c]), lastMsg[c]>>}
            /\ \/ reaction' = [reaction EXCEPT ![lastMsg[c]] = "ack"]
               \/ UNCHANGED reaction
    /\ UNCHANGED <<harnessVars, lastMsg, permMsgs, updates, worker, outbound, responses, keyboard, asker, messages, taps>>

\* handle_ack_lifecycle, response_completed: the reaction of the message that
\* is the last one now.  A failed call of the API is logged.
HandleAckLifecycle(c) ==
    /\ AtLoop /\ c \in toComplete /\ toComplete' = toComplete \ {c}
    /\ \/ /\ c \in sessions /\ lastMsg[c] # 0 /\ Lifecycle # "none"
          /\ reaction' = [reaction EXCEPT ![lastMsg[c]] = IF Lifecycle = "remove" THEN "none" ELSE "done"]
       \/ UNCHANGED reaction
    /\ UNCHANGED <<harnessVars, lastMsg, permMsgs, updates, worker, outbound, responses, toAck,
                   keyboard, asker, messages, taps, acked>>

\* show_permission_prompt: the message with the buttons is sent; a session
\* nobody knows and a failed call are errors that end the process.
ShowPermissionPrompt(r) ==
    /\ AtLoop /\ keyboard[r] = "none" /\ outbound[asker[r]] # <<>>
    /\ \/ /\ asker[r] \in sessions
          /\ keyboard' = [keyboard EXCEPT ![r] = "shown"]
          /\ prompt' = [at |-> "remember", req |-> r] /\ phase' = phase
       \/ phase' = "failed" /\ UNCHANGED <<keyboard, prompt>>
    /\ UNCHANGED <<knowsBot, sessions, broker, lastMsg, permMsgs, updates, worker, outbound, responses,
                   toAck, toComplete, asker, reaction, messages, taps, acked>>

\* ... and only then remembered.
RememberPrompt ==
    /\ prompt.at = "remember" /\ prompt' = [prompt EXCEPT !.at = "register"]
    /\ permMsgs' = permMsgs \cup {prompt.req}
    /\ UNCHANGED <<phase, knowsBot, sessions, broker, lastMsg, updates, worker, outbound, responses,
                   toAck, toComplete, userVars, acked>>

RegisterPrompt ==
    /\ prompt.at = "register" /\ prompt' = NoPrompt
    /\ broker' = broker \cup {prompt.req}
    /\ UNCHANGED <<phase, knowsBot, sessions, lastMsg, permMsgs, updates, worker, outbound, responses,
                   toAck, toComplete, userVars, acked>>

(***************************************************************************)
(* external: the users.  A message has text, a medium, or neither (a poll, *)
(* a pinned message); refers says whether it names the bot or replies to a *)
(* photo that the bot has sent.                                            *)
(***************************************************************************)
Shapes ==
    [kind : {"text"}, refers : {"name", "reply"}]
        \cup {[kind |-> "image", refers |-> "reply"], [kind |-> "sticker", refers |-> "nothing"],
              [kind |-> "service", refers |-> "nothing"]}

UserWrites(c, shape) ==
    /\ messages < MaxMessages /\ messages' = messages + 1
    /\ updates' = [updates EXCEPT ![c] = Append(@, [IdleWork EXCEPT !.id = messages', !.kind = shape.kind, !.refers = shape.refers])]
    /\ UNCHANGED <<harnessVars, lastMsg, permMsgs, worker, outbound, responses, toAck, toComplete,
                   keyboard, asker, reaction, taps, acked>>

UserTaps(r, o) ==
    /\ keyboard[r] = "shown" /\ taps[r] < MaxTaps /\ taps' = [taps EXCEPT ![r] = @ + 1]
    /\ updates' = [updates EXCEPT ![asker[r]] = Append(@, [IdleWork EXCEPT !.id = r, !.kind = "tap", !.option = o])]
    /\ UNCHANGED <<harnessVars, lastMsg, permMsgs, worker, outbound, responses, toAck, toComplete,
                   keyboard, asker, reaction, messages, acked>>

(***************************************************************************)
(* The dispatcher                                                          *)
(***************************************************************************)
\* is_group_chat, and the kind of peer the supervisor is told.
PeerInfoFromChat(c) == IF c \in Groups THEN "group" ELSE "direct"

\* bot_mentioned: by name or by a reply to the bot, in groups, as far as the
\* bot knows who it is.
BotMentioned(c, refers) == c \in Groups /\ knowsBot /\ refers # "nothing"

HasMedia(kind) == kind \in {"image", "sticker"}

\* external: the dispatcher's worker of a chat.
Dispatchable(c) == phase = "ready" /\ worker[c] = IdleWork /\ updates[c] # <<>>
Taken(c) == updates' = [updates EXCEPT ![c] = Tail(@)]
Works(c, work) == worker' = [worker EXCEPT ![c] = work]

AfterPhoto(work) == IF work.refers = "reply" THEN "reply photo" ELSE "send"

\* Mutant of HandleText: what is remembered is the last message handed over.
HandleTextLate(c) ==
    LET msg == Head(updates[c])
    IN  /\ Dispatchable(c) /\ msg.kind = "text" /\ Taken(c)
        /\ lastMsg' = [lastMsg EXCEPT ![c] = IF outbound[c] = <<>> THEN @ ELSE outbound[c][Len(outbound[c])].id]
        /\ Works(c, [msg EXCEPT !.at = AfterPhoto(msg)])
        /\ UNCHANGED <<harnessVars, permMsgs, outbound, responses, toAck, toComplete, userVars, acked>>

\* handle_text_message: the message is the chat's last one before the photo it
\* replies to is fetched.
HandleText(c) ==
    LET msg == Head(updates[c])
    IN  /\ Dispatchable(c) /\ msg.kind = "text" /\ Taken(c)
        /\ lastMsg' = [lastMsg EXCEPT ![c] = msg.id]
        /\ Works(c, [msg EXCEPT !.at = AfterPhoto(msg)])
        /\ UNCHANGED <<harnessVars, permMsgs, outbound, responses, toAck, toComplete, userVars, acked>>

HandleMedia(c) ==
    LET msg == Head(updates[c])
    IN  /\ Dispatchable(c) /\ HasMedia(msg.kind) /\ Taken(c)
        /\ lastMsg' = [lastMsg EXCEPT ![c] = msg.id]
        /\ Works(c, [msg EXCEPT !.at = IF msg.kind = "image" THEN "photo" ELSE AfterPhoto(msg)])
        /\ UNCHANGED <<harnessVars, permMsgs, outbound, responses, toAck, toComplete, userVars, acked>>

\* A message without text and without a medium is passed over.
IgnoreMessage(c) ==
    /\ Dispatchable(c) /\ Head(updates[c]).kind = "service" /\ Taken(c)
    /\ UNCHANGED <<harnessVars, lastMsg, permMsgs, worker, outbound, responses, toAck, toComplete, userVars, acked>>

\* resolve_photo_url and resolve_reply_photo: get_file and download_file,
\* either of which may fail.
ResolvePhotoUrl(c) ==
    /\ \/ worker[c].at = "photo"
          /\ \E ok \in BOOLEAN : Works(c, [worker[c] EXCEPT !.at = AfterPhoto(worker[c]), !.image = ok])
       \/ worker[c].at = "reply photo"
          /\ \E ok \in BOOLEAN : Works(c, [worker[c] EXCEPT !.at = "send", !.replyImage = ok])
    /\ UNCHANGED <<harnessVars, lastMsg, permMsgs, updates, outbound, responses, toAck, toComplete, userVars, acked>>

\* reply_metadata_from_message: the text of the message replied to, or the kind
\* of its medium; here it is a photo.
ReplyMetadata(work) == IF work.refers = "reply" THEN "image" ELSE "none"

\* The content of process_text_message and of process_media_message: a medium
\* whose image is not at hand is named by a label.
Content(work) ==
    (IF work.replyImage THEN <<"image">> ELSE <<>>)
        \o IF work.kind = "text" THEN <<"text">> ELSE IF work.image THEN <<"image">> ELSE <<"label">>

ProcessMessage(c) ==
    LET work == worker[c]
    IN  /\ work.at = "send" /\ Works(c, IdleWork)
        /\ outbound' = [outbound EXCEPT ![c] =
                Append(@, [id |-> work.id, peer |-> PeerInfoFromChat(c), content |-> Content(work),
                           reply |-> ReplyMetadata(work), mentioned |-> BotMentioned(c, work.refers)])]
        /\ toAck' = [toAck EXCEPT ![c] = Append(@, work.id)]
        /\ UNCHANGED <<harnessVars, lastMsg, permMsgs, updates, responses, toComplete, userVars, acked>>

\* handle_callback_query: the tap is answered, whatever becomes of it.
TakeTap(c) ==
    /\ Dispatchable(c) /\ Head(updates[c]).kind = "tap" /\ Taken(c)
    /\ Works(c, [Head(updates[c]) EXCEPT !.at = "clear"])
    /\ UNCHANGED <<harnessVars, lastMsg, permMsgs, outbound, responses, toAck, toComplete, userVars, acked>>

\* The keyboard of a prompt that is remembered is taken away; the call may fail.
ClearKeyboard(c) ==
    /\ worker[c].at = "clear" /\ Works(c, [worker[c] EXCEPT !.at = "resolve"])
    /\ \/ worker[c].id \in permMsgs /\ keyboard' = [keyboard EXCEPT ![worker[c].id] = "cleared"]
       \/ UNCHANGED keyboard
    /\ UNCHANGED <<harnessVars, lastMsg, permMsgs, updates, outbound, responses, toAck, toComplete,
                   asker, reaction, messages, taps, acked>>

\* Mutant of ProcessCallback: only a request the broker knows is answered.
ProcessCallbackKnown(c) ==
    /\ worker[c].at = "resolve" /\ Works(c, IdleWork)
    /\ broker' = broker \ {worker[c].id} /\ permMsgs' = permMsgs \ {worker[c].id}
    /\ responses' = IF worker[c].id \in broker THEN Append(responses, <<worker[c].id, worker[c].option>>) ELSE responses
    /\ UNCHANGED <<phase, knowsBot, sessions, prompt, lastMsg, updates, outbound, toAck, toComplete, userVars, acked>>

\* process_callback: the broker's answer is not looked at.
ProcessCallback(c) ==
    /\ worker[c].at = "resolve" /\ Works(c, IdleWork)
    /\ broker' = broker \ {worker[c].id} /\ permMsgs' = permMsgs \ {worker[c].id}
    /\ responses' = Append(responses, <<worker[c].id, worker[c].option>>)
    /\ UNCHANGED <<phase, knowsBot, sessions, prompt, lastMsg, updates, outbound, toAck, toComplete, userVars, acked>>

Harness ==
    \/ OnInitialize \/ OnReady \/ RememberPrompt \/ RegisterPrompt
    \/ \E c \in Chats : OnSessionCreated(c) \/ HandleAckMessage(c) \/ HandleAckLifecycle(c)
Dispatcher(c) ==
    \/ HandleText(c) \/ HandleMedia(c) \/ IgnoreMessage(c) \/ ResolvePhotoUrl(c) \/ ProcessMessage(c)
    \/ TakeTap(c) \/ ClearKeyboard(c) \/ ProcessCallback(c)

Next ==
    \/ Harness
    \/ \E r \in Requests : ShowPermissionPrompt(r) \/ \E o \in Options : UserTaps(r, o)
    \/ \E c \in Chats :
          \/ Dispatcher(c)
          \/ \E shape \in Shapes : UserWrites(c, shape)

Spec == Init /\ [][Next]_vars

\* The harness loop and the dispatcher are tasks of the runtime, and the calls
\* of the API return.
FairSpec == Spec /\ WF_vars(Harness) /\ \A c \in Chats : WF_vars(Dispatcher(c))

(***************************************************************************)
(* Properties                                                              *)
(***************************************************************************)
\* Whatever the user does reaches the supervisor while the process lives: a
\* message, with or without its photos, and a tap, also one that comes before
\* its prompt is remembered or registered.
Heard(u) ==
    IF u.kind = "tap" THEN \E i \in DOMAIN responses : responses[i] = <<u.id, u.option>>
    ELSE \E c \in Chats : \E i \in DOMAIN outbound[c] : outbound[c][i].id = u.id
UserIsHeard ==
    /\ \A r \in Requests, o \in Options :
          LET tap == [IdleWork EXCEPT !.id = r, !.kind = "tap", !.option = o]
          IN  (\E c \in Chats : \E i \in DOMAIN updates[c] : updates[c][i] = tap) ~> (Heard(tap) \/ phase = "failed")
    /\ \A m \in Ids :
          (\E c \in Chats : \E i \in DOMAIN updates[c] : updates[c][i].kind \notin {"tap", "service"} /\ updates[c][i].id = m)
              ~> (\/ \E c \in Chats : \E i \in DOMAIN outbound[c] : outbound[c][i].id = m
                  \/ phase = "failed")

\* The reaction that acknowledges a message is never put on an older message
\* than the one acknowledged, and the messages of a chat are handed over in
\* the order in which they were written: last_message_ids is set before the
\* message is handed over.
AckNotEarlier ==
    /\ \A a \in acked : a[1] <= a[2]
    /\ \A c \in Chats : \A i, j \in DOMAIN outbound[c] : i < j => outbound[c][i].id < outbound[c][j].id
==============================================================================
