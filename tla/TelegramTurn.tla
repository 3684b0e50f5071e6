---------------------------- MODULE TelegramTurn ----------------------------
(***************************************************************************)
(* How the Telegram channel shows the updates of a session in one chat.    *)
(* deliver_to_chat handles one update after the other; beside it run the   *)
(* tasks it spawns: the debounce of the first response message, the        *)
(* debounce of thought edits, and the timers that finalize a turn.  All    *)
(* share the ChatTurn of the chat and call the Telegram API.               *)
(*                                                                         *)
(* A step runs to the next call of the API or the next sleep.  The text of *)
(* a response is the set of the chunks in it.                              *)
(***************************************************************************)
EXTENDS Integers, Sequences, FiniteSets

CONSTANTS
    WithIds,     \* the updates carry a messageId
    LateChunks,  \* text and thoughts may follow the result of their turn
    ApiFails,    \* calls of the API may fail, after all retries
    MaxTurns,    \* bound: turns of the agent
    MaxUpdates,  \* bound: updates delivered
    MaxTasks     \* bound: tasks spawned

ASSUME TelegramAssumption ==
    /\ {WithIds, LateChunks, ApiFails} \subseteq BOOLEAN
    /\ {MaxTurns, MaxUpdates, MaxTasks} \subseteq Nat \ {0}

VARIABLES
    updates,   \* updates delivered so far: <<kind, turn of the agent>>
    handler,   \* where deliver_to_chat is: [at, upd, text, msg, thought]
    turn,      \* the ChatTurn of the chat; turn.obj = 0: none
    objs,      \* ChatTurns made so far
    tasks,     \* the tasks spawned: [kind, st, text, msg, obj]
    screen     \* messages of the chat: [kind, by, text, open]

vars == <<updates, handler, turn, objs, tasks, screen>>

Kinds == {"thought", "chunk", "error", "result", "tool", "tool done", "tool busy"}

(* ChatTurn with its ThoughtTrack (thought: "none", "open", "muted"),      *)
(* ResponseTrack (hasResp, text, msg, deb), tool calls (those with a       *)
(* terminal status have ended), phase (timer # 0: Finalizing) and          *)
(* response_finalized (claimed).                                           *)
NewTurn(obj, mid) ==
    [obj |-> obj, mid |-> mid, timer |-> 0, claimed |-> FALSE,
     hasResp |-> FALSE, text |-> {}, msg |-> 0, deb |-> 0,
     thought |-> "none", thMsg |-> 0, thDeb |-> 0, toolCalls |-> {}, ended |-> {}, toolMsg |-> 0]
NoTurn == NewTurn(0, 0)

Idle    == [at |-> "idle", upd |-> 0, text |-> {}, msg |-> 0, thMsg |-> 0]
Dead    == [kind |-> "", st |-> "dead", text |-> {}, msg |-> 0, obj |-> 0]
Started(kind) == [Dead EXCEPT !.kind = kind, !.st = "sleep"]

Init ==
    /\ updates = <<>> /\ handler = Idle /\ turn = NoTurn /\ objs = 0
    /\ tasks = <<>> /\ screen = <<>>

HasTurn    == turn.obj # 0
Finalizing == turn.timer # 0
Cur        == updates[handler.upd]              \* the update being handled
CurMid     == IF WithIds THEN Cur[2] ELSE 0
NewTask    == Len(tasks) + 1

(* is_different_turn                                                       *)
Different(mid) == HasTurn /\ mid # 0 /\ turn.mid # mid

(* turns.entry(chat_id).or_insert_with, and the messageId of the update.   *)
Opened(t, mid) ==
    IF t.obj = 0 THEN NewTurn(objs + 1, mid)
    ELSE IF mid # 0 THEN [t EXCEPT !.mid = mid] ELSE t
CountTurn == objs' = IF HasTurn THEN objs ELSE objs + 1

Abort(ts, S) == [i \in DOMAIN ts |-> IF i \in S THEN Dead ELSE ts[i]]

(* What the calls of the API make of the screen.                           *)
PostBy(scr, obj, text) ==
    Append(scr, [kind |-> "response", by |-> obj, text |-> text, open |-> TRUE])
Post(kind, text)   == Append(screen, [kind |-> kind, by |-> 0, text |-> text, open |-> TRUE])
Edit(scr, m, text) == [scr EXCEPT ![m].text = text]
Close(scr, m)      == IF m = 0 THEN scr ELSE [scr EXCEPT ![m].open = FALSE]

(* retry_telegram_op: the call is made at last, or its error is final.     *)
RetryTelegramOp(before, after) == {after} \cup (IF ApiFails THEN {before} ELSE {})

(* render_tools_text: every call with its status, shown here by the set of *)
(* those that have ended.                                                  *)
RenderToolsText(t) == t.ended

-----------------------------------------------------------------------------
(* The next update, in the order in which the agents manager forwards      *)
(* them.  A turn of the agent may end without a result.                    *)

LastTurn == IF updates = <<>> THEN 1 ELSE updates[Len(updates)][2]
Ended(m) == \E i \in DOMAIN updates : updates[i][2] = m /\ updates[i][1] \in {"result", "error"}

Deliver(kind, m) ==
    /\ handler = Idle /\ Len(updates) < MaxUpdates
    /\ m \in {LastTurn, LastTurn + 1}
    /\ Ended(m) => (kind = "tool busy" \/ (LateChunks /\ kind \in {"chunk", "thought"}))
    /\ kind = "tool" => <<kind, m>> \notin {updates[i] : i \in DOMAIN updates}
    /\ updates' = Append(updates, <<kind, m>>)
    /\ handler' = [Idle EXCEPT !.at = kind, !.upd = Len(updates) + 1]
    /\ UNCHANGED <<turn, objs, tasks, screen>>

-----------------------------------------------------------------------------
(* flush_turn_data: the data is taken, the tasks are aborted (cleanup),    *)
(* and the turn is removed.  send_flush then edits or sends.               *)
Flush(next) ==
    /\ handler' = [handler EXCEPT !.at = next, !.text = IF turn.hasResp THEN turn.text ELSE {},
                                  !.msg = turn.msg,
                                  !.thMsg = IF turn.thought = "none" THEN 0 ELSE turn.thMsg]
    /\ tasks' = Abort(tasks, {turn.timer, turn.deb, turn.thDeb})
    /\ turn' = NoTurn
    /\ UNCHANGED <<updates, objs, screen>>

SendFlush(then) ==
    /\ handler' = [Idle EXCEPT !.at = then, !.upd = handler.upd]
    /\ LET shown == IF handler.text = {} THEN screen
                    ELSE IF handler.msg # 0 THEN Edit(screen, handler.msg, handler.text)
                    ELSE PostBy(screen, 0, handler.text)
       IN \E scr \in RetryTelegramOp(screen, shown) :
             screen' \in RetryTelegramOp(scr, Close(scr, handler.thMsg))
    /\ UNCHANGED <<updates, turn, objs, tasks>>

-----------------------------------------------------------------------------
(* ContentKind::Thought                                                    *)

ThoughtFlushes ==
    /\ handler.at = "thought"
    /\ Different(CurMid) \/ (Finalizing /\ turn.thought # "muted")
    /\ Flush("flush thought")

ThoughtFlushed == handler.at = "flush thought" /\ SendFlush("thought")

ThoughtIgnored ==
    /\ handler.at = "thought" /\ ~Different(CurMid) /\ turn.thought = "muted"
    /\ handler' = Idle
    /\ UNCHANGED <<updates, turn, objs, tasks, screen>>

(* append_thought: the first one is sent, later ones are edited in after a *)
(* debounce.                                                               *)
ThoughtAppends ==
    /\ handler.at = "thought" /\ ~Different(CurMid)
    /\ turn.thought # "muted" /\ ~Finalizing
    /\ LET t == Opened(turn, CurMid) IN
       IF t.thMsg = 0 \/ t.thought = "none"
       THEN /\ turn' = [t EXCEPT !.thought = "open", !.thMsg = 0, !.thDeb = 0]
            /\ handler' = [handler EXCEPT !.at = "send thought"]
            /\ tasks' = Abort(tasks, {t.thDeb})
       ELSE /\ NewTask <= MaxTasks
            /\ turn' = [t EXCEPT !.thDeb = NewTask]
            /\ handler' = Idle
            /\ tasks' = Append(Abort(tasks, {t.thDeb}), Started("thought"))
    /\ CountTurn
    /\ UNCHANGED <<updates, screen>>

ThoughtSent ==
    /\ handler.at = "send thought"
    /\ handler' = Idle
    /\ screen' \in RetryTelegramOp(screen, Post("thought", {}))
    /\ turn' = IF screen' # screen /\ HasTurn /\ turn.thought # "none"
               THEN [turn EXCEPT !.thMsg = Len(screen')] ELSE turn
    /\ UNCHANGED <<updates, objs, tasks>>

ThoughtFires(i) ==
    /\ tasks[i].kind = "thought" /\ tasks[i].st = "sleep"
    /\ tasks' = [tasks EXCEPT ![i] =
                   IF HasTurn /\ turn.thought # "none" /\ turn.thMsg # 0
                   THEN [@ EXCEPT !.st = "send", !.msg = turn.thMsg] ELSE Dead]
    /\ UNCHANGED <<updates, handler, turn, objs, screen>>

ThoughtEdited(i) ==
    /\ tasks[i].kind = "thought" /\ tasks[i].st = "send"
    /\ tasks' = [tasks EXCEPT ![i].st = "landed"]
    /\ screen' = [screen EXCEPT ![tasks[i].msg].open = TRUE]
    /\ UNCHANGED <<updates, handler, turn, objs>>

ThoughtDebounced(i) ==
    /\ tasks[i].kind = "thought"
    /\ tasks[i].st = "landed" \/ (ApiFails /\ tasks[i].st = "send")
    /\ tasks' = [tasks EXCEPT ![i] = Dead]
    /\ turn' = IF turn.thought # "none" THEN [turn EXCEPT !.thDeb = 0] ELSE turn
    /\ UNCHANGED <<updates, handler, objs, screen>>

-----------------------------------------------------------------------------
(* ContentKind::MessageChunk                                               *)

ChunkFlushes ==
    /\ handler.at = "chunk" /\ Different(CurMid)
    /\ Flush("flush chunk")

ChunkFlushed == handler.at = "flush chunk" /\ SendFlush("chunk")

(* append_response, with the thought heard again.                          *)
WithChunk(t, c) ==
    [t EXCEPT !.hasResp = TRUE, !.text = @ \cup {c},
              !.thought = IF @ = "muted" THEN "open" ELSE @]

(* Mutant of BeginFinalizing: it only stops the timer that was set.        *)
BeginFinalizingOnce(t, ts) ==
    /\ NewTask <= MaxTasks
    /\ turn' = IF t.obj # 0 /\ t.timer = 0 THEN [t EXCEPT !.timer = NewTask] ELSE t
    /\ tasks' = IF t.timer = 0 THEN Append(ts, Started("timer")) ELSE Abort(ts, {t.timer})

(* begin_finalizing: the timer that was set is aborted.  When the turn is  *)
(* gone meanwhile, the new timer runs on by itself.                        *)
BeginFinalizing(t, ts) ==
    /\ NewTask <= MaxTasks
    /\ turn' = IF t.obj # 0 THEN [t EXCEPT !.timer = NewTask] ELSE t
    /\ tasks' = Append(Abort(ts, {t.timer}), Started("timer"))

ChunkAppends ==
    /\ handler.at = "chunk" /\ ~Different(CurMid)
    /\ LET t == WithChunk(Opened(turn, CurMid), handler.upd) IN
       \/ /\ t.timer # 0 /\ t.msg # 0                 \* edited, then a new timer
          /\ turn' = t /\ handler' = [handler EXCEPT !.at = "late", !.text = t.text, !.msg = t.msg]
          /\ UNCHANGED tasks
       \/ /\ t.timer # 0 /\ t.msg = 0
          /\ handler' = Idle /\ BeginFinalizing(t, tasks)
       \/ /\ t.timer = 0 /\ t.msg # 0                 \* edited, unless in the cooldown
          /\ turn' = t /\ UNCHANGED tasks
          /\ handler' \in {Idle, [handler EXCEPT !.at = "edit", !.text = t.text, !.msg = t.msg]}
       \/ /\ t.timer = 0 /\ t.msg = 0 /\ t.deb # 0    \* the debounce runs already
          /\ turn' = t /\ handler' = Idle /\ UNCHANGED tasks
       \/ /\ t.timer = 0 /\ t.msg = 0 /\ t.deb = 0
          /\ NewTask <= MaxTasks
          /\ turn' = [t EXCEPT !.deb = NewTask] /\ handler' = Idle
          /\ tasks' = Append(tasks, Started("debounce"))
    /\ CountTurn
    /\ UNCHANGED <<updates, screen>>

ChunkEdited ==
    /\ handler.at = "edit"
    /\ handler' = Idle
    /\ screen' \in RetryTelegramOp(screen, Edit(screen, handler.msg, handler.text))
    /\ UNCHANGED <<updates, turn, objs, tasks>>

LateChunkEdited ==
    /\ handler.at = "late"
    /\ handler' = Idle
    /\ screen' \in RetryTelegramOp(screen, Edit(screen, handler.msg, handler.text))
    /\ BeginFinalizing(turn, tasks)
    /\ UNCHANGED <<updates, objs>>

(* Mutant of TryFinalize: the right to send is not claimed.                *)
TryFinalizeAlways == TRUE

(* try_finalize_response: the one who claims it sends the response.        *)
TryFinalize == ~turn.claimed

(* The debounce reads the text under one lock, and claims under the next:  *)
(* a chunk or a timer may come between.                                    *)
DebounceFires(i) ==
    /\ tasks[i].kind = "debounce" /\ tasks[i].st = "sleep"
    /\ tasks' = [tasks EXCEPT ![i] = IF HasTurn /\ turn.hasResp /\ turn.text # {} /\ turn.msg = 0
                                     THEN [@ EXCEPT !.st = "claim", !.text = turn.text]
                                     ELSE Dead]
    /\ UNCHANGED <<updates, handler, turn, objs, screen>>

DebounceClaims(i) ==
    /\ tasks[i].kind = "debounce" /\ tasks[i].st = "claim"
    /\ IF HasTurn /\ TryFinalize
       THEN /\ turn' = [turn EXCEPT !.claimed = TRUE]
            /\ tasks' = [tasks EXCEPT ![i].st = "send", ![i].obj = turn.obj]
       ELSE tasks' = [tasks EXCEPT ![i] = Dead] /\ UNCHANGED turn
    /\ UNCHANGED <<updates, handler, objs, screen>>

DebounceSends(i) ==
    /\ tasks[i].kind = "debounce" /\ tasks[i].st = "send"
    /\ screen' \in RetryTelegramOp(screen, PostBy(screen, tasks[i].obj, tasks[i].text))
    /\ tasks' = [tasks EXCEPT ![i] = IF screen' = screen THEN Dead
                                     ELSE [@ EXCEPT !.st = "landed", !.msg = Len(screen')]]
    /\ UNCHANGED <<updates, handler, turn, objs>>

(* The id of the message goes to whatever turn the chat has by now.        *)
DebounceStores(i) ==
    /\ tasks[i].kind = "debounce" /\ tasks[i].st = "landed"
    /\ turn' = IF turn.hasResp THEN [turn EXCEPT !.msg = tasks[i].msg, !.deb = 0] ELSE turn
    /\ tasks' = [tasks EXCEPT ![i] = Dead]
    /\ UNCHANGED <<updates, handler, objs, screen>>

-----------------------------------------------------------------------------
(* ContentKind::Result, of a turn that failed or not                       *)

ResultStale ==
    /\ handler.at \in {"result", "error"} /\ Different(CurMid)
    /\ handler' = Idle
    /\ UNCHANGED <<updates, turn, objs, tasks, screen>>

(* Mutant of CollapseThought: the debounce of the thought goes on.         *)
CollapseThoughtOnly ==
    /\ turn' = [turn EXCEPT !.thought = "none", !.thMsg = 0, !.thDeb = 0]
    /\ UNCHANGED tasks

CollapseThought ==
    /\ turn' = [turn EXCEPT !.thought = "none", !.thMsg = 0, !.thDeb = 0]
    /\ tasks' = Abort(tasks, {turn.thDeb})

ResultCollapses ==
    /\ handler.at \in {"result", "error"} /\ ~Different(CurMid)
    /\ CollapseThought
    /\ handler' = [handler EXCEPT !.at = "collapse",
                                  !.thMsg = IF turn.thought = "none" THEN 0 ELSE turn.thMsg]
    /\ UNCHANGED <<updates, objs, screen>>

(* Thoughts that follow the result are suppressed.                         *)
Muted(t) == [t EXCEPT !.thought = "muted"]

ResultFinalizes ==
    /\ handler.at = "collapse"
    /\ handler' = Idle
    /\ screen' \in RetryTelegramOp(screen, Close(screen, handler.thMsg))
    /\ LET t == Opened(turn, CurMid)
           e == IF Cur[1] = "error" THEN [t EXCEPT !.hasResp = TRUE, !.text = @ \cup {handler.upd}]
                ELSE t
       IN BeginFinalizing(Muted(e), tasks)
    /\ CountTurn
    /\ UNCHANGED updates

(* The timer: claim, send or edit (a failed edit becomes a send), remove.  *)
TimerFires(i) ==
    /\ tasks[i].kind = "timer" /\ tasks[i].st = "sleep"
    /\ IF HasTurn /\ TryFinalize /\ turn.hasResp
       THEN /\ turn' = [turn EXCEPT !.claimed = TRUE]
            /\ tasks' = [tasks EXCEPT ![i].st = "send", ![i].text = turn.text,
                                      ![i].msg = turn.msg, ![i].obj = turn.obj]
       ELSE turn' = NoTurn /\ tasks' = [tasks EXCEPT ![i] = Dead]
    /\ UNCHANGED <<updates, handler, objs, screen>>

TimerSends(i) ==
    /\ tasks[i].kind = "timer" /\ tasks[i].st = "send"
    /\ LET sent == RetryTelegramOp(screen, PostBy(screen, tasks[i].obj, tasks[i].text))
       IN screen' \in IF tasks[i].msg = 0 THEN sent
                      ELSE {Edit(screen, tasks[i].msg, tasks[i].text)}
                             \cup (IF ApiFails THEN sent ELSE {})
    /\ tasks' = [tasks EXCEPT ![i].st = "landed"]
    /\ UNCHANGED <<updates, handler, turn, objs>>

TimerRemoves(i) ==
    /\ tasks[i].kind = "timer" /\ tasks[i].st = "landed"
    /\ turn' = NoTurn /\ tasks' = [tasks EXCEPT ![i] = Dead]
    /\ UNCHANGED <<updates, handler, objs, screen>>

-----------------------------------------------------------------------------
(* ContentKind::ToolCall and ToolCallUpdate, one tool call per turn of the *)
(* agent, known by its number                                              *)

Tool == Cur[2]

ToolIgnored ==
    /\ handler.at \in {"tool", "tool done", "tool busy"}
    /\ \/ ~HasTurn \/ Finalizing
       \/ handler.at # "tool" /\ Tool \notin turn.toolCalls \ turn.ended
    /\ handler' = Idle
    /\ UNCHANGED <<updates, turn, objs, tasks, screen>>

ToolCall ==
    /\ handler.at = "tool" /\ HasTurn /\ ~Finalizing
    /\ turn' = [Opened(turn, CurMid) EXCEPT !.toolCalls = @ \cup {Tool},
                    !.thought = IF @ = "muted" THEN "open" ELSE @]
    /\ handler' = [handler EXCEPT !.at = "tools", !.msg = turn.toolMsg,
                                  !.text = RenderToolsText(turn)]
    /\ UNCHANGED <<updates, objs, tasks, screen>>

(* is_terminal                                                             *)
IsTerminal == Tool \in turn.ended

(* The edit of a tool that still runs is left out in the cooldown.         *)
ToolUpdate ==
    /\ handler.at \in {"tool done", "tool busy"} /\ HasTurn /\ ~Finalizing
    /\ Tool \in turn.toolCalls /\ ~IsTerminal
    /\ turn' = [turn EXCEPT !.ended = IF handler.at = "tool done" THEN @ \cup {Tool} ELSE @ \ {Tool}]
    /\ handler' \in {[handler EXCEPT !.at = "tools", !.msg = turn.toolMsg,
                                       !.text = RenderToolsText(turn')]}
                      \cup (IF handler.at = "tool busy" THEN {Idle} ELSE {})
    /\ UNCHANGED <<updates, objs, tasks, screen>>

(* The text is edited in, or sent when it is the first call.               *)
ToolsShown ==
    /\ handler.at = "tools"
    /\ handler' = Idle
    /\ \/ /\ handler.msg # 0
          /\ screen' \in RetryTelegramOp(screen, Edit(screen, handler.msg, handler.text))
          /\ UNCHANGED turn
       \/ /\ handler.msg = 0 /\ Cur[1] = "tool"
          /\ screen' \in RetryTelegramOp(screen, Post("tools", handler.text))
          /\ turn' = IF HasTurn /\ screen' # screen
                     THEN [turn EXCEPT !.toolMsg = Len(screen')] ELSE turn
       \/ /\ handler.msg = 0 /\ Cur[1] # "tool"
          /\ UNCHANGED <<screen, turn>>
    /\ UNCHANGED <<updates, objs, tasks>>

-----------------------------------------------------------------------------
Handle ==
    \/ ThoughtFlushes \/ ThoughtFlushed \/ ThoughtIgnored \/ ThoughtAppends \/ ThoughtSent
    \/ ChunkFlushes \/ ChunkFlushed \/ ChunkAppends \/ ChunkEdited \/ LateChunkEdited
    \/ ResultStale \/ ResultCollapses \/ ResultFinalizes
    \/ ToolIgnored \/ ToolCall \/ ToolUpdate \/ ToolsShown

Task(i) ==
    \/ ThoughtFires(i) \/ ThoughtEdited(i) \/ ThoughtDebounced(i)
    \/ DebounceFires(i) \/ DebounceClaims(i) \/ DebounceSends(i) \/ DebounceStores(i)
    \/ TimerFires(i) \/ TimerSends(i) \/ TimerRemoves(i)

Next ==
    \/ \E k \in Kinds, m \in 1 .. MaxTurns : Deliver(k, m)
    \/ Handle
    \/ \E i \in DOMAIN tasks : Task(i)

Spec == Init /\ [][Next]_vars

(* A call of the API ends, a sleep ends, and the handler goes on.          *)
Fairness == WF_vars(Handle) /\ \A i \in 1 .. MaxTasks : WF_vars(i \in DOMAIN tasks /\ Task(i))

FairSpec == Spec /\ Fairness

-----------------------------------------------------------------------------
(* Properties                                                              *)

(* turn.rs:139: "This flag ensures only the first caller wins": of all     *)
(* debounces and timers at most one sends the response of a turn.          *)
SentOnce ==
    \A i, j \in DOMAIN screen :
        (i # j /\ screen[i].by # 0) => screen[i].by # screen[j].by

(* Text came after the result of its turn, or without a messageId that     *)
(* would tell.  The timer it starts may outlive the turn, end another one, *)
(* and leave the debounce of that one's thought behind.                    *)
LateText ==
    \/ ~WithIds
    \/ \E i, j \in DOMAIN updates :
          /\ i < j /\ updates[i][2] = updates[j][2]
          /\ updates[i][1] \in {"result", "error"} /\ updates[j][1] = "chunk"

(* What is settled on the screen stays so: a tool call that ended does not *)
(* run again and, unless text came late, a thought that was collapsed does *)
(* not open again.                                                         *)
SettledStays ==
    [][\A i \in DOMAIN screen :
          /\ screen[i].kind = "tools" => screen[i].text \subseteq screen'[i].text
          /\ ~screen[i].open => ~screen'[i].open \/ LateText]_screen

(* A turn whose result has come is finalized and removed, whatever else    *)
(* the agent sends and whatever the API does.                              *)
TurnEnds ==
    \A o \in 1 .. MaxUpdates :
        (turn.obj = o /\ Finalizing) ~> (turn.obj # o)

-----------------------------------------------------------------------------
(* What the repository says and the code does not do.                      *)

Shown(c) == \E i \in DOMAIN screen : screen[i].kind = "response" /\ c \in screen[i].text
Quiet    == handler = Idle /\ ~HasTurn /\ \A i \in DOMAIN tasks : tasks[i] = Dead

(* CHANGELOG.md:58: the final agent response is not dropped.  When a turn  *)
(* is over, all its text is in the chat.                                   *)
AllShown ==
    Quiet => \A c \in DOMAIN updates : updates[c][1] = "chunk" => Shown(c)

(* turn.rs:139: no duplicates.                                             *)
NoDuplicate ==
    \A i, j \in DOMAIN screen :
        (i # j /\ screen[i].kind = "response" /\ screen[j].kind = "response")
            => screen[i].text \cap screen[j].text = {}

(* turn.rs:309: collapse_thought is the end of a thought, late text or     *)
(* not.  With these updates a debounce left behind edits it open again.    *)
CollapsedStays ==
    [][\A i \in DOMAIN screen : ~screen[i].open => ~screen'[i].open]_screen
LateTextComes ==
    \A i \in DOMAIN updates : updates[i][1] =
        <<"chunk", "result", "chunk", "thought", "thought", "thought", "result">>[i]

(* A reply that was shown stays on the screen.                             *)
NothingOverwritten ==
    [][\A c \in DOMAIN updates : Shown(c) => Shown(c)']_vars
=============================================================================
