------------------------- MODULE TelegramTurnProofs -------------------------
(***************************************************************************)
(* Safety of the Telegram channel for every number of turns, updates and   *)
(* tasks: of the debounces and timers of a turn at most one sends its      *)
(* response, and what is settled on the screen stays so.                   *)
(***************************************************************************)
EXTENDS TelegramTurn, TLAPS

Texts    == SUBSET Nat
Places   == Kinds \cup {"idle", "flush thought", "send thought", "flush chunk", "edit", "late",
                      "collapse", "tools"}
Handlers == [at : Places, upd : Nat, text : Texts, msg : Nat, thMsg : Nat]
Turns    == [obj : Nat, mid : Nat, timer : Nat, claimed : BOOLEAN, hasResp : BOOLEAN,
             text : Texts, msg : Nat, deb : Nat, thought : {"none", "open", "muted"}, thMsg : Nat,
             thDeb : Nat, toolCalls : Texts, ended : Texts, toolMsg : Nat]
Tasks    == [kind : {"", "thought", "debounce", "timer"},
             st : {"dead", "sleep", "claim", "send", "landed"}, text : Texts, msg : Nat, obj : Nat]
Messages == [kind : {"response", "thought", "tools"}, by : Nat, text : Texts, open : BOOLEAN]

UpdateType  == /\ updates \in Seq(Kinds \X Nat) /\ handler \in Handlers
               /\ handler.at # "idle" => handler.upd \in 1 .. Len(updates)
TurnType    == turn \in Turns /\ objs \in Nat
TaskType    == tasks \in Seq(Tasks)
ScreenType  == screen \in Seq(Messages)
TypeInv     == UpdateType /\ TurnType /\ TaskType /\ ScreenType

(* The debounce or timer i has claimed the response of its turn and is     *)
(* about to send it.                                                       *)
Sending(i) == tasks[i].st = "send" /\ tasks[i].kind # "thought"

(* The response of a turn is sent by one task and is then on the screen,   *)
(* and the turn, as long as it is there, is claimed.                       *)
ClaimInv ==
    /\ turn.obj <= objs
    /\ \A i \in 1 .. Len(tasks) : Sending(i) =>
          /\ 0 < tasks[i].obj /\ tasks[i].obj <= objs
          /\ turn.obj = tasks[i].obj => turn.claimed
          /\ \A j \in 1 .. Len(tasks) : Sending(j) /\ tasks[i].obj = tasks[j].obj => i = j
          /\ \A j \in 1 .. Len(screen) : screen[j].by # tasks[i].obj
    /\ \A i \in 1 .. Len(screen) : screen[i].by # 0 =>
          /\ screen[i].by <= objs
          /\ turn.obj = screen[i].by => turn.claimed
          /\ \A j \in 1 .. Len(screen) : screen[i].by = screen[j].by => i = j

-----------------------------------------------------------------------------
(* The values that the operators build.                                    *)
LEMMA TaskValues ==
    /\ Dead \in Tasks /\ Dead.st = "dead"
    /\ \A kind \in {"thought", "debounce", "timer"} : Started(kind) \in Tasks /\ Started(kind).st = "sleep"
  BY DEF Dead, Started, Tasks, Texts

(* Of the tasks new, those about to send a response are those of ts.       *)
TasksFrom(ts, new) ==
    \A i \in 1 .. Len(new) :
        (new[i].st = "send" /\ new[i].kind # "thought") =>
            /\ i \in 1 .. Len(ts) /\ ts[i].st = "send" /\ ts[i].kind # "thought"
            /\ new[i].obj = ts[i].obj

LEMMA AbortValues ==
    ASSUME NEW ts \in Seq(Tasks), NEW S
    PROVE  /\ Abort(ts, S) \in Seq(Tasks) /\ Len(Abort(ts, S)) = Len(ts)
           /\ \A i \in 1 .. Len(ts) : Abort(ts, S)[i] \in {Dead, ts[i]}
<1>1. Dead \in Tasks /\ DOMAIN ts = 1 .. Len(ts) /\ Len(ts) \in Nat
  BY TaskValues
<1>2. \A i \in 1 .. Len(ts) : ts[i] \in Tasks
  OBVIOUS
<1>3. Abort(ts, S) \in [1 .. Len(ts) -> Tasks]
  BY <1>1, <1>2 DEF Abort
<1>4. \A i \in 1 .. Len(ts) : Abort(ts, S)[i] \in {Dead, ts[i]}
  BY <1>1 DEF Abort
<1>. QED
  BY <1>1, <1>3, <1>4

LEMMA NewTurnValues ==
    ASSUME NEW obj \in Nat, NEW mid \in Nat
    PROVE  /\ NewTurn(obj, mid) \in Turns
           /\ NewTurn(obj, mid).obj = obj
<1>1. {} \in Texts
  BY DEF Texts
<1>2. NewTurn(obj, mid) \in Turns
  BY <1>1 DEF NewTurn, Turns
<1>. QED
  BY <1>2 DEF NewTurn

LEMMA OpenedValues ==
    ASSUME TurnType, NEW mid \in Nat
    PROVE  /\ Opened(turn, mid) \in Turns
           /\ Opened(turn, mid).obj = IF turn.obj = 0 THEN objs + 1 ELSE turn.obj
           /\ turn.obj # 0 => Opened(turn, mid).claimed = turn.claimed
<1>1. CASE turn.obj = 0
  <2>1. objs + 1 \in Nat /\ Opened(turn, mid) = NewTurn(objs + 1, mid)
    BY <1>1 DEF Opened, TurnType
  <2>. QED
    BY <1>1, <2>1, NewTurnValues
<1>2. CASE turn.obj # 0
  <2>1. [turn EXCEPT !.mid = mid] \in Turns
    BY DEF TurnType, Turns
  <2>2. [turn EXCEPT !.mid = mid].obj = turn.obj /\ [turn EXCEPT !.mid = mid].claimed = turn.claimed
    BY DEF TurnType, Turns
  <2>. QED
    BY <1>2, <2>1, <2>2 DEF Opened, TurnType
<1>. QED
  BY <1>1, <1>2

(* The screen new has the messages of scr, and posts by nobody.            *)
ScreenFrom(scr, new) ==
    \A j \in 1 .. Len(new) :
        new[j].by # 0 => j \in 1 .. Len(scr) /\ new[j].by = scr[j].by

(* Posting appends one message, by somebody or by nobody; editing and      *)
(* collapsing leave who posted as it was.                                  *)
SameBy(scr, new) ==
    /\ Len(new) = Len(scr)
    /\ \A j \in 1 .. Len(scr) : new[j].by = scr[j].by
PostedBy(scr, new, obj) ==
    /\ Len(new) = Len(scr) + 1 /\ new[Len(scr) + 1].by = obj
    /\ \A j \in 1 .. Len(scr) : new[j].by = scr[j].by

LEMMA ScreenValues ==
    ASSUME NEW scr \in Seq(Messages), NEW text \in Texts, NEW m
    PROVE  /\ \A obj \in Nat : PostBy(scr, obj, text) \in Seq(Messages)
                               /\ PostedBy(scr, PostBy(scr, obj, text), obj)
           /\ Edit(scr, m, text) \in Seq(Messages) /\ SameBy(scr, Edit(scr, m, text))
           /\ Close(scr, m) \in Seq(Messages) /\ SameBy(scr, Close(scr, m))
           /\ [scr EXCEPT ![m].open = TRUE] \in Seq(Messages)
           /\ SameBy(scr, [scr EXCEPT ![m].open = TRUE])
<1>1. Len(scr) \in Nat /\ DOMAIN scr = 1 .. Len(scr) /\ \A j \in 1 .. Len(scr) : scr[j] \in Messages
  OBVIOUS
<1>2. ASSUME NEW obj \in Nat
      PROVE  PostBy(scr, obj, text) \in Seq(Messages) /\ PostedBy(scr, PostBy(scr, obj, text), obj)
  <2>1. PICK msg : msg = [kind |-> "response", by |-> obj, text |-> text, open |-> TRUE]
    OBVIOUS
  <2>2. msg \in Messages /\ msg.by = obj
    BY <2>1 DEF Messages
  <2>3. PostBy(scr, obj, text) = Append(scr, msg)
    BY <2>1 DEF PostBy
  <2>. QED
    BY <1>1, <2>2, <2>3 DEF PostedBy
<1>3. ASSUME NEW f \in [Messages -> Messages], \A x \in Messages : f[x].by = x.by,
             NEW new, new = [scr EXCEPT ![m] = f[scr[m]]]
      PROVE  new \in Seq(Messages) /\ SameBy(scr, new)
  <2>1. \A j \in 1 .. Len(scr) : new[j] = (IF j = m THEN f[scr[j]] ELSE scr[j])
    BY <1>1, <1>3
  <2>2. \A j \in 1 .. Len(scr) : new[j] \in Messages /\ new[j].by = scr[j].by
    BY <1>1, <1>3, <2>1
  <2>3. DOMAIN new = 1 .. Len(scr)
    BY <1>1, <1>3
  <2>4. new \in [1 .. Len(scr) -> Messages]
    BY <1>3, <2>2, <2>3
  <2>. QED
    BY <1>1, <2>2, <2>4 DEF SameBy
<1>4. Edit(scr, m, text) \in Seq(Messages) /\ SameBy(scr, Edit(scr, m, text))
  <2>. DEFINE f == [x \in Messages |-> [x EXCEPT !.text = text]]
  <2>1. f \in [Messages -> Messages] /\ \A x \in Messages : f[x].by = x.by
    BY DEF Messages
  <2>2. Edit(scr, m, text) = [scr EXCEPT ![m] = f[scr[m]]]
    BY <1>1 DEF Edit
  <2>. HIDE DEF f
  <2>. QED
    BY <1>3, <2>1, <2>2
<1>5. [scr EXCEPT ![m].open = TRUE] \in Seq(Messages) /\ SameBy(scr, [scr EXCEPT ![m].open = TRUE])
  <2>. DEFINE f == [x \in Messages |-> [x EXCEPT !.open = TRUE]]
  <2>1. f \in [Messages -> Messages] /\ \A x \in Messages : f[x].by = x.by
    BY DEF Messages
  <2>2. [scr EXCEPT ![m].open = TRUE] = [scr EXCEPT ![m] = f[scr[m]]]
    BY <1>1
  <2>. HIDE DEF f
  <2>. QED
    BY <1>3, <2>1, <2>2
<1>6. [scr EXCEPT ![m].open = FALSE] \in Seq(Messages) /\ SameBy(scr, [scr EXCEPT ![m].open = FALSE])
  <2>. DEFINE f == [x \in Messages |-> [x EXCEPT !.open = FALSE]]
  <2>1. f \in [Messages -> Messages] /\ \A x \in Messages : f[x].by = x.by
    BY DEF Messages
  <2>2. [scr EXCEPT ![m].open = FALSE] = [scr EXCEPT ![m] = f[scr[m]]]
    BY <1>1
  <2>. HIDE DEF f
  <2>. QED
    BY <1>3, <2>1, <2>2
<1>7. Close(scr, m) \in Seq(Messages) /\ SameBy(scr, Close(scr, m))
  BY <1>1, <1>6 DEF Close, SameBy
<1>. QED
  BY <1>2, <1>4, <1>5, <1>7


LEMMA TaskMoves ==
    ASSUME NEW ts \in Seq(Tasks)
    PROVE  /\ TasksFrom(ts, ts)
           /\ \A S : Abort(ts, S) \in Seq(Tasks) /\ TasksFrom(ts, Abort(ts, S))
           /\ \A kind \in {"thought", "debounce", "timer"} :
                 /\ Append(ts, Started(kind)) \in Seq(Tasks)
                 /\ TasksFrom(ts, Append(ts, Started(kind)))
           /\ \A S : \A kind \in {"thought", "debounce", "timer"} :
                 /\ Append(Abort(ts, S), Started(kind)) \in Seq(Tasks)
                 /\ TasksFrom(ts, Append(Abort(ts, S), Started(kind)))
<1>1. TasksFrom(ts, ts)
  BY DEF TasksFrom
<1>2. ASSUME NEW S
      PROVE  Abort(ts, S) \in Seq(Tasks) /\ TasksFrom(ts, Abort(ts, S))
  BY AbortValues, TaskValues DEF TasksFrom
<1>3. ASSUME NEW us \in Seq(Tasks), TasksFrom(ts, us), NEW kind \in {"thought", "debounce", "timer"}
      PROVE  Append(us, Started(kind)) \in Seq(Tasks) /\ TasksFrom(ts, Append(us, Started(kind)))
  <2>1. PICK new : new = Append(us, Started(kind))
    OBVIOUS
  <2>2. Started(kind) \in Tasks /\ Started(kind).st = "sleep"
    BY TaskValues
  <2>3. /\ new \in Seq(Tasks) /\ Len(new) = Len(us) + 1 /\ Len(us) \in Nat
        /\ new[Len(us) + 1] = Started(kind) /\ \A i \in 1 .. Len(us) : new[i] = us[i]
    BY <2>1, <2>2
  <2>4. \A i \in 1 .. Len(new) : i \in 1 .. Len(us) \/ i = Len(us) + 1
    BY <2>3
  <2>5. TasksFrom(ts, new)
    BY <1>3, <2>2, <2>3, <2>4 DEF TasksFrom
  <2>. QED
    BY <2>1, <2>3, <2>5
<1>. QED
  BY <1>1, <1>2, <1>3

(* One task changes: it ends, has made its call, or is one of a thought.   *)
LEMMA TaskChanges ==
    ASSUME NEW ts \in Seq(Tasks), NEW i \in DOMAIN ts, NEW new \in Tasks,
           new.st # "send" \/ new.kind = "thought"
    PROVE  [ts EXCEPT ![i] = new] \in Seq(Tasks) /\ TasksFrom(ts, [ts EXCEPT ![i] = new])
<1>1. [ts EXCEPT ![i] = new] \in Seq(Tasks) /\ Len([ts EXCEPT ![i] = new]) = Len(ts)
  OBVIOUS
<1>2. \A j \in 1 .. Len(ts) : [ts EXCEPT ![i] = new][j] = IF j = i THEN new ELSE ts[j]
  OBVIOUS
<1>. QED
  BY <1>1, <1>2 DEF TasksFrom

LEMMA TaskLands ==
    ASSUME NEW ts \in Seq(Tasks), NEW i \in DOMAIN ts
    PROVE  /\ [ts EXCEPT ![i].st = "landed"] \in Seq(Tasks)
           /\ TasksFrom(ts, [ts EXCEPT ![i].st = "landed"])
           /\ [ts EXCEPT ![i] = Dead] \in Seq(Tasks) /\ TasksFrom(ts, [ts EXCEPT ![i] = Dead])
<1>1. PICK t : t = [ts[i] EXCEPT !.st = "landed"]
  OBVIOUS
<1>2. ts[i] \in Tasks
  OBVIOUS
<1>3. t \in Tasks /\ t.st = "landed"
  BY <1>1, <1>2 DEF Tasks
<1>4. [ts EXCEPT ![i].st = "landed"] = [ts EXCEPT ![i] = t]
  BY <1>1
<1>. QED
  BY <1>3, <1>4, TaskValues, TaskChanges

LEMMA ScreenMoves ==
    ASSUME NEW scr \in Seq(Messages), NEW text \in Texts, NEW m
    PROVE  /\ ScreenFrom(scr, scr)
           /\ PostBy(scr, 0, text) \in Seq(Messages) /\ ScreenFrom(scr, PostBy(scr, 0, text))
           /\ Edit(scr, m, text) \in Seq(Messages) /\ ScreenFrom(scr, Edit(scr, m, text))
           /\ Close(scr, m) \in Seq(Messages) /\ ScreenFrom(scr, Close(scr, m))
           /\ [scr EXCEPT ![m].open = TRUE] \in Seq(Messages)
           /\ ScreenFrom(scr, [scr EXCEPT ![m].open = TRUE])
<1>1. \A new : SameBy(scr, new) => ScreenFrom(scr, new)
  BY DEF SameBy, ScreenFrom
<1>2. \A new : PostedBy(scr, new, 0) => ScreenFrom(scr, new)
  BY DEF PostedBy, ScreenFrom
<1>3. ScreenFrom(scr, scr)
  BY DEF ScreenFrom
<1>. QED
  BY <1>1, <1>2, <1>3, ScreenValues

LEMMA PostMoves ==
    ASSUME ScreenType, NEW kind \in {"thought", "tools"}, NEW text \in Texts
    PROVE  /\ Post(kind, text) \in Seq(Messages) /\ ScreenFrom(screen, Post(kind, text))
           /\ Len(Post(kind, text)) \in Nat
<1>1. PICK msg : msg = [kind |-> kind, by |-> 0, text |-> text, open |-> TRUE]
  OBVIOUS
<1>2. msg \in Messages /\ msg.by = 0
  BY <1>1 DEF Messages
<1>3. Post(kind, text) = Append(screen, msg)
  BY <1>1 DEF Post
<1>. QED
  BY <1>2, <1>3 DEF ScreenType, ScreenFrom

(* An API call changes the screen or fails.                                *)
LEMMA Retried ==
    ASSUME NEW before, NEW after, NEW new \in RetryTelegramOp(before, after)
    PROVE  new \in {before, after}
  BY DEF RetryTelegramOp

LEMMA ScreenAgain ==
    ASSUME NEW a \in Seq(Messages), NEW b \in Seq(Messages), NEW c \in Seq(Messages),
           ScreenFrom(a, b), ScreenFrom(b, c)
    PROVE  ScreenFrom(a, c)
  BY DEF ScreenFrom

(* The turn new is the turn t with other data.                             *)
Follows(t, new) == new \in Turns /\ new.obj = t.obj /\ new.claimed = t.claimed

LEMMA TurnMoves ==
    ASSUME NEW t \in Turns, NEW n \in Nat, NEW c \in Texts, NEW h \in {"none", "open", "muted"}
    PROVE  /\ Follows(t, t)
           /\ Follows(t, WithChunk(t, n)) /\ Follows(t, Muted(t))
           /\ Follows(t, [t EXCEPT !.thought = h, !.thMsg = 0, !.thDeb = 0])
           /\ Follows(t, [t EXCEPT !.thDeb = n])
           /\ Follows(t, [t EXCEPT !.thMsg = n])
           /\ Follows(t, [t EXCEPT !.timer = n])
           /\ Follows(t, [t EXCEPT !.deb = n])
           /\ Follows(t, [t EXCEPT !.msg = n, !.deb = 0])
           /\ Follows(t, [t EXCEPT !.toolMsg = n])
           /\ Follows(t, [t EXCEPT !.toolCalls = c, !.thought = h])
           /\ Follows(t, [t EXCEPT !.ended = c])
           /\ Follows(t, [t EXCEPT !.hasResp = TRUE, !.text = @ \cup {n}])
<1>1. t.text \cup {n} \in Texts /\ t.thought \in {"none", "open", "muted"}
  BY DEF Turns, Texts
<1>2. Follows(t, WithChunk(t, n))
  <2>1. PICK w : w = IF t.thought = "muted" THEN "open" ELSE t.thought
    OBVIOUS
  <2>2. w \in {"none", "open", "muted"}
    BY <1>1, <2>1
  <2>3. PICK x : x = t.text \cup {n}
    OBVIOUS
  <2>4. WithChunk(t, n) = [t EXCEPT !.hasResp = TRUE, !.text = x, !.thought = w]
    BY <2>1, <2>3 DEF WithChunk, Turns
  <2>. QED
    BY <1>1, <2>2, <2>3, <2>4 DEF Follows, Turns
<1>3. Follows(t, [t EXCEPT !.hasResp = TRUE, !.text = @ \cup {n}])
  BY <1>1 DEF Follows, Turns
<1>4. /\ Follows(t, Muted(t)) /\ Follows(t, t)
      /\ Follows(t, [t EXCEPT !.thought = h, !.thMsg = 0, !.thDeb = 0])
  BY DEF Follows, Turns, Muted
<1>5. /\ Follows(t, [t EXCEPT !.thDeb = n])
      /\ Follows(t, [t EXCEPT !.thMsg = n])
      /\ Follows(t, [t EXCEPT !.timer = n])
  BY DEF Follows, Turns
<1>6. /\ Follows(t, [t EXCEPT !.deb = n])
      /\ Follows(t, [t EXCEPT !.msg = n, !.deb = 0])
      /\ Follows(t, [t EXCEPT !.toolMsg = n])
  BY DEF Follows, Turns
<1>7. /\ Follows(t, [t EXCEPT !.toolCalls = c, !.thought = h])
      /\ Follows(t, [t EXCEPT !.ended = c])
  BY DEF Follows, Turns
<1>. QED
  BY <1>2, <1>3, <1>4, <1>5, <1>6, <1>7

-----------------------------------------------------------------------------
(* A step leaves the turn with what was claimed, removes it, or opens one. *)
TurnFrom ==
    /\ objs' \in Nat /\ objs <= objs'
    /\ \/ turn'.obj = 0
       \/ turn'.obj = turn.obj /\ turn'.claimed = turn.claimed
       \/ turn'.obj = objs + 1 /\ objs' = objs + 1

(* A step that claims nothing and posts no claimed response.               *)
LEMMA NothingClaimed ==
    ASSUME TypeInv, TypeInv', ClaimInv, TurnFrom,
           TasksFrom(tasks, tasks'), ScreenFrom(screen, screen')
    PROVE  ClaimInv'
<1>1. objs \in Nat /\ turn.obj \in Nat /\ Len(tasks) \in Nat /\ Len(screen) \in Nat
  <2>1. objs \in Nat /\ turn \in Turns /\ tasks \in Seq(Tasks) /\ screen \in Seq(Messages)
    BY DEF TypeInv, TurnType, TaskType, ScreenType
  <2>2. \A t \in Turns : t.obj \in Nat
    BY DEF Turns
  <2>. QED
    BY <2>1, <2>2
<1>2. /\ Len(tasks') \in Nat /\ Len(screen') \in Nat /\ turn'.obj \in Nat
      /\ \A i \in 1 .. Len(tasks') : tasks'[i].obj \in Nat
      /\ \A i \in 1 .. Len(screen') : screen'[i].by \in Nat
  <2>1. turn' \in Turns /\ tasks' \in Seq(Tasks) /\ screen' \in Seq(Messages)
    BY DEF TypeInv, TurnType, TaskType, ScreenType
  <2>2. /\ \A t \in Turns : t.obj \in Nat
        /\ \A t \in Tasks : t.obj \in Nat
        /\ \A m \in Messages : m.by \in Nat
    BY DEF Turns, Tasks, Messages
  <2>. QED
    BY <2>1, <2>2
<1>3. turn'.obj <= objs'
  BY <1>1, <1>2 DEF TurnFrom, ClaimInv
<1>4. ASSUME NEW o \in Nat, 0 < o, o <= objs, turn.obj = o => turn.claimed
      PROVE  o <= objs' /\ (turn'.obj = o => turn'.claimed)
  BY <1>1, <1>2, <1>4 DEF TurnFrom
<1>5. ASSUME NEW i \in 1 .. Len(tasks'), Sending(i)'
      PROVE  i \in 1 .. Len(tasks) /\ Sending(i) /\ tasks'[i].obj = tasks[i].obj
  BY <1>5 DEF TasksFrom, Sending
<1>6. ASSUME NEW i \in 1 .. Len(tasks'), Sending(i)'
      PROVE  /\ 0 < tasks'[i].obj /\ tasks'[i].obj <= objs'
             /\ turn'.obj = tasks'[i].obj => turn'.claimed
             /\ \A j \in 1 .. Len(tasks') : Sending(j)' /\ tasks'[i].obj = tasks'[j].obj => i = j
             /\ \A j \in 1 .. Len(screen') : screen'[j].by # tasks'[i].obj
  <2>1. i \in 1 .. Len(tasks) /\ Sending(i) /\ tasks'[i].obj = tasks[i].obj
    BY <1>5, <1>6
  <2>2. /\ 0 < tasks[i].obj /\ tasks[i].obj <= objs
        /\ turn.obj = tasks[i].obj => turn.claimed
        /\ \A j \in 1 .. Len(tasks) : Sending(j) /\ tasks[i].obj = tasks[j].obj => i = j
        /\ \A j \in 1 .. Len(screen) : screen[j].by # tasks[i].obj
    BY <2>1 DEF ClaimInv
  <2>3. 0 < tasks'[i].obj /\ tasks'[i].obj <= objs' /\ (turn'.obj = tasks'[i].obj => turn'.claimed)
    BY <1>2, <1>4, <2>1, <2>2
  <2>4. \A j \in 1 .. Len(tasks') : Sending(j)' /\ tasks'[i].obj = tasks'[j].obj => i = j
    BY <1>5, <2>1, <2>2
  <2>5. \A j \in 1 .. Len(screen') : screen'[j].by # tasks'[i].obj
    BY <1>2, <2>1, <2>2, <2>3 DEF ScreenFrom
  <2>. QED
    BY <2>3, <2>4, <2>5
<1>7. ASSUME NEW i \in 1 .. Len(screen'), screen'[i].by # 0
      PROVE  /\ screen'[i].by <= objs'
             /\ turn'.obj = screen'[i].by => turn'.claimed
             /\ \A j \in 1 .. Len(screen') : screen'[i].by = screen'[j].by => i = j
  <2>1. i \in 1 .. Len(screen) /\ screen'[i].by = screen[i].by
    BY <1>7 DEF ScreenFrom
  <2>2. /\ screen[i].by <= objs
        /\ turn.obj = screen[i].by => turn.claimed
        /\ \A j \in 1 .. Len(screen) : screen[i].by = screen[j].by => i = j
    BY <1>7, <2>1 DEF ClaimInv
  <2>3. screen'[i].by <= objs' /\ (turn'.obj = screen'[i].by => turn'.claimed)
    BY <1>2, <1>4, <1>7, <2>1, <2>2
  <2>4. \A j \in 1 .. Len(screen') : screen'[i].by = screen'[j].by => i = j
    BY <1>7, <2>1, <2>2 DEF ScreenFrom
  <2>. QED
    BY <2>3, <2>4
<1>. QED
  BY <1>3, <1>6, <1>7 DEF ClaimInv

(* A task claims the response of the turn that the chat has.               *)
LEMMA Claimed ==
    ASSUME TypeInv, ClaimInv, NEW i \in 1 .. Len(tasks), NEW new \in Tasks,
           turn.obj # 0, ~turn.claimed,
           turn' = [turn EXCEPT !.claimed = TRUE],
           tasks' = [tasks EXCEPT ![i] = new],
           new.st = "send", new.obj = turn.obj, UNCHANGED <<objs, screen>>
    PROVE  ClaimInv' /\ TurnType' /\ TaskType'
<1>1. objs \in Nat /\ turn \in Turns /\ turn.obj \in Nat /\ Len(tasks) \in Nat /\ Len(screen) \in Nat
  BY DEF TypeInv, TurnType, TaskType, ScreenType, Turns
<1>2. turn' \in Turns /\ turn'.obj = turn.obj /\ turn'.claimed = TRUE
  BY <1>1 DEF Turns
<1>3. tasks' \in Seq(Tasks) /\ Len(tasks') = Len(tasks)
  BY DEF TypeInv, TaskType
<1>4. \A j \in 1 .. Len(tasks) : tasks'[j] = IF j = i THEN new ELSE tasks[j]
  BY DEF TypeInv, TaskType
<1>5. \A j \in 1 .. Len(tasks) : j # i /\ Sending(j)' => Sending(j) /\ tasks'[j].obj = tasks[j].obj
  BY <1>4 DEF Sending
<1>6. /\ \A j \in 1 .. Len(tasks) : Sending(j) => tasks[j].obj # turn.obj
      /\ \A j \in 1 .. Len(screen) : screen[j].by # turn.obj
  BY DEF ClaimInv
<1>7. ASSUME NEW j \in 1 .. Len(tasks'), Sending(j)'
      PROVE  /\ 0 < tasks'[j].obj /\ tasks'[j].obj <= objs'
             /\ turn'.obj = tasks'[j].obj => turn'.claimed
             /\ \A k \in 1 .. Len(tasks') : Sending(k)' /\ tasks'[j].obj = tasks'[k].obj => j = k
             /\ \A k \in 1 .. Len(screen') : screen'[k].by # tasks'[j].obj
  <2>1. CASE j = i
    <3>1. tasks'[j].obj = turn.obj
      BY <1>3, <1>4, <2>1
    <3>2. \A k \in 1 .. Len(tasks') : Sending(k)' /\ tasks'[j].obj = tasks'[k].obj => j = k
      BY <1>3, <1>5, <1>6, <2>1, <3>1
    <3>. QED
      BY <1>1, <1>2, <1>6, <3>1, <3>2 DEF ClaimInv
  <2>2. CASE j # i
    <3>1. Sending(j) /\ tasks'[j].obj = tasks[j].obj /\ tasks[j].obj # turn.obj
      BY <1>3, <1>5, <1>6, <1>7, <2>2
    <3>2. \A k \in 1 .. Len(tasks') : Sending(k)' /\ tasks'[j].obj = tasks'[k].obj => j = k
      BY <1>3, <1>4, <1>5, <3>1 DEF ClaimInv
    <3>. QED
      BY <1>1, <1>2, <1>3, <3>1, <3>2 DEF ClaimInv
  <2>. QED
    BY <2>1, <2>2
<1>8. \A j \in 1 .. Len(screen') : screen'[j].by # 0 =>
          /\ screen'[j].by <= objs'
          /\ turn'.obj = screen'[j].by => turn'.claimed
          /\ \A k \in 1 .. Len(screen') : screen'[j].by = screen'[k].by => j = k
  BY <1>2 DEF ClaimInv
<1>9. turn'.obj <= objs'
  BY <1>2 DEF ClaimInv
<1>. QED
  BY <1>1, <1>2, <1>3, <1>7, <1>8, <1>9 DEF ClaimInv, TurnType, TaskType

(* The task that has claimed a response posts it and is done with it.      *)
LEMMA Posted ==
    ASSUME TypeInv, TypeInv', ClaimInv, NEW i \in 1 .. Len(tasks), NEW new, Sending(i),
           tasks' = [tasks EXCEPT ![i] = new], new.st # "send",
           PostedBy(screen, screen', tasks[i].obj), UNCHANGED <<objs, turn>>
    PROVE  ClaimInv'
<1>1. objs \in Nat /\ turn.obj \in Nat /\ Len(tasks) \in Nat /\ Len(screen) \in Nat
  BY DEF TypeInv, TurnType, TaskType, ScreenType, Turns
<1>2. Len(tasks') = Len(tasks) /\ \A j \in 1 .. Len(tasks) : tasks'[j] = IF j = i THEN new ELSE tasks[j]
  BY DEF TypeInv, TaskType
<1>3. \A j \in 1 .. Len(tasks) : Sending(j)' =>
          j # i /\ Sending(j) /\ tasks'[j].obj = tasks[j].obj /\ tasks[j].obj # tasks[i].obj
  BY <1>2 DEF Sending, ClaimInv
<1>4. \A j \in 1 .. Len(screen') : j \in 1 .. Len(screen) \/ j = Len(screen) + 1
  BY <1>1 DEF PostedBy
<1>5. /\ 0 < tasks[i].obj /\ tasks[i].obj <= objs
      /\ turn.obj = tasks[i].obj => turn.claimed
      /\ \A j \in 1 .. Len(screen) : screen[j].by # tasks[i].obj
  BY DEF ClaimInv
<1>6. \A j \in 1 .. Len(tasks') : Sending(j)' =>
          /\ 0 < tasks'[j].obj /\ tasks'[j].obj <= objs'
          /\ turn'.obj = tasks'[j].obj => turn'.claimed
          /\ \A k \in 1 .. Len(tasks') : Sending(k)' /\ tasks'[j].obj = tasks'[k].obj => j = k
          /\ \A k \in 1 .. Len(screen') : screen'[k].by # tasks'[j].obj
  BY <1>2, <1>3, <1>4 DEF ClaimInv, PostedBy
<1>7. \A j \in 1 .. Len(screen') : screen'[j].by # 0 =>
          /\ screen'[j].by <= objs'
          /\ turn'.obj = screen'[j].by => turn'.claimed
          /\ \A k \in 1 .. Len(screen') : screen'[j].by = screen'[k].by => j = k
  BY <1>4, <1>5 DEF ClaimInv, PostedBy
<1>. QED
  BY <1>6, <1>7 DEF ClaimInv

-----------------------------------------------------------------------------
(* What the actions have in common.                                        *)
LEMMA Fields ==
    ASSUME TypeInv
    PROVE  /\ turn \in Turns /\ objs \in Nat /\ tasks \in Seq(Tasks) /\ screen \in Seq(Messages)
           /\ handler \in Handlers /\ handler.text \in Texts
           /\ handler.msg \in Nat /\ handler.thMsg \in Nat /\ handler.upd \in Nat
           /\ turn.obj \in Nat /\ turn.text \in Texts /\ turn.msg \in Nat /\ turn.thMsg \in Nat
           /\ turn.toolMsg \in Nat /\ turn.toolCalls \in Texts /\ turn.ended \in Texts
           /\ turn.thought \in {"none", "open", "muted"}
<1>1. /\ turn \in Turns /\ objs \in Nat /\ tasks \in Seq(Tasks) /\ screen \in Seq(Messages)
      /\ handler \in Handlers
  BY DEF TypeInv, UpdateType, TurnType, TaskType, ScreenType
<1>2. /\ handler.text \in Texts
      /\ handler.msg \in Nat /\ handler.thMsg \in Nat /\ handler.upd \in Nat
  BY <1>1 DEF Handlers
<1>3. /\ turn.obj \in Nat /\ turn.text \in Texts /\ turn.msg \in Nat /\ turn.thMsg \in Nat
      /\ turn.toolMsg \in Nat /\ turn.toolCalls \in Texts /\ turn.ended \in Texts
      /\ turn.thought \in {"none", "open", "muted"}
  BY <1>1 DEF Turns
<1>. QED
  BY <1>1, <1>2, <1>3

LEMMA TaskFields ==
    ASSUME TypeInv, NEW i \in DOMAIN tasks
    PROVE  /\ i \in 1 .. Len(tasks) /\ tasks[i] \in Tasks /\ tasks[i].text \in Texts
           /\ tasks[i].msg \in Nat /\ tasks[i].obj \in Nat
<1>1. tasks \in Seq(Tasks)
  BY Fields
<1>2. i \in 1 .. Len(tasks) /\ tasks[i] \in Tasks
  BY <1>1
<1>. QED
  BY <1>2 DEF Tasks

(* The update being handled is one of those delivered.                     *)
LEMMA CurValues ==
    ASSUME TypeInv, handler.at # "idle"
    PROVE  CurMid \in Nat /\ Cur[2] \in Nat /\ handler.upd \in Nat
<1>1. Cur \in Kinds \X Nat
  BY DEF TypeInv, UpdateType, Cur
<1>2. Cur[2] \in Nat
  BY <1>1
<1>. QED
  BY <1>2, Fields DEF CurMid

(* The handler ends its work on the update or goes on with it.             *)
LEMMA HandlerMoves ==
    ASSUME TypeInv, handler.at # "idle", updates' = updates,
           NEW p \in Places, NEW x \in Texts, NEW n \in Nat, NEW k \in Nat,
           \/ handler' = handler
           \/ handler' = Idle
           \/ handler' = [handler EXCEPT !.at = p]
           \/ handler' = [Idle EXCEPT !.at = p, !.upd = handler.upd]
           \/ handler' = [handler EXCEPT !.at = p, !.thMsg = k]
           \/ handler' = [handler EXCEPT !.at = p, !.text = x, !.msg = n]
           \/ handler' = [handler EXCEPT !.at = p, !.msg = n, !.text = x]
           \/ handler' = [handler EXCEPT !.at = p, !.text = x, !.msg = n, !.thMsg = k]
    PROVE  UpdateType'
<1>1. handler \in Handlers /\ handler.upd \in 1 .. Len(updates) /\ handler.upd \in Nat
  BY Fields DEF TypeInv, UpdateType
<1>2. Idle \in Handlers /\ Idle.at = "idle"
  BY DEF Idle, Handlers, Places, Texts
<1>3. CASE handler' = handler \/ handler' = Idle
  BY <1>1, <1>2, <1>3 DEF TypeInv, UpdateType
<1>4. ASSUME ~(handler' = handler \/ handler' = Idle)
      PROVE  handler' \in Handlers /\ handler'.upd = handler.upd
  BY <1>1, <1>2, <1>4 DEF Handlers, Idle
<1>5. CASE ~(handler' = handler \/ handler' = Idle)
  BY <1>1, <1>4, <1>5 DEF TypeInv, UpdateType
<1>. QED
  BY <1>3, <1>5

LEMMA TurnKept ==
    ASSUME TypeInv, Follows(turn, turn'), objs' = objs
    PROVE  TurnType' /\ TurnFrom
  BY Fields DEF Follows, TurnType, TurnFrom

LEMMA TurnOpened ==
    ASSUME TypeInv, NEW mid \in Nat, Follows(Opened(turn, mid), turn'), CountTurn
    PROVE  TurnType' /\ TurnFrom
<1>1. turn \in Turns /\ objs \in Nat /\ turn.obj \in Nat
  BY Fields
<1>2. /\ Opened(turn, mid).obj = IF turn.obj = 0 THEN objs + 1 ELSE turn.obj
      /\ turn.obj # 0 => Opened(turn, mid).claimed = turn.claimed
  BY OpenedValues DEF TypeInv
<1>3. objs' = IF turn.obj # 0 THEN objs ELSE objs + 1
  BY DEF CountTurn, HasTurn
<1>. QED
  BY <1>1, <1>2, <1>3 DEF Follows, TurnType, TurnFrom

LEMMA TurnRemoved ==
    ASSUME TypeInv, turn' = NoTurn, objs' = objs
    PROVE  TurnType' /\ TurnFrom
  BY Fields, NewTurnValues DEF NoTurn, TurnType, TurnFrom

LEMMA FollowsAgain ==
    ASSUME NEW a, NEW b, NEW c, Follows(a, b), Follows(b, c)
    PROVE  Follows(a, c)
  BY DEF Follows

LEMMA FinalizingBegins ==
    ASSUME TypeInv, NEW t \in Turns, BeginFinalizing(t, tasks)
    PROVE  Follows(t, turn') /\ TaskType' /\ TasksFrom(tasks, tasks')
<1>1. NewTask \in Nat /\ tasks \in Seq(Tasks)
  BY Fields DEF NewTask
<1>2. Follows(t, turn')
  <2>1. {} \in Texts
    BY DEF Texts
  <2>2. Follows(t, t) /\ Follows(t, [t EXCEPT !.timer = NewTask])
    BY <1>1, <2>1, TurnMoves
  <2>. QED
    BY <2>2 DEF BeginFinalizing
<1>. QED
  BY <1>1, <1>2, TaskMoves DEF BeginFinalizing, TaskType

(* What every step but four does: nothing is claimed or posted by a task.  *)
Claimless == TypeInv' /\ TurnFrom /\ TasksFrom(tasks, tasks') /\ ScreenFrom(screen, screen')

LEMMA SameTurn ==
    ASSUME TypeInv, turn' = turn, objs' = objs
    PROVE  TurnType' /\ TurnFrom
  BY TurnKept, TurnMoves, Fields DEF Follows

LEMMA SameTasks ==
    ASSUME TypeInv, tasks' = tasks
    PROVE  TaskType' /\ TasksFrom(tasks, tasks')
  BY TaskMoves DEF TypeInv, TaskType

LEMMA SameScreen ==
    ASSUME TypeInv, screen' = screen
    PROVE  ScreenType' /\ ScreenFrom(screen, screen')
  BY DEF TypeInv, ScreenType, ScreenFrom

LEMMA SameHandler ==
    ASSUME TypeInv, handler' = handler, updates' = updates
    PROVE  UpdateType'
  BY DEF TypeInv, UpdateType


-----------------------------------------------------------------------------
(* The steps of deliver_to_chat.                                           *)
LEMMA DeliverStep ==
    ASSUME TypeInv, NEW kind \in Kinds, NEW m \in Nat, Deliver(kind, m)
    PROVE  Claimless
<1>1. updates \in Seq(Kinds \X Nat) /\ <<kind, m>> \in Kinds \X Nat
  BY DEF TypeInv, UpdateType
<1>2. updates' \in Seq(Kinds \X Nat) /\ Len(updates') = Len(updates) + 1 /\ Len(updates) \in Nat
  <2>1. PICK u : u = <<kind, m>>
    OBVIOUS
  <2>2. u \in Kinds \X Nat /\ updates' = Append(updates, u)
    BY <1>1, <2>1 DEF Deliver
  <2>. QED
    BY <1>1, <2>2
<1>3. handler' \in Handlers /\ handler'.upd = Len(updates) + 1
  <2>0. kind \in Places
    BY DEF Places
  <2>1. {} \in Texts /\ kind \in Places /\ Len(updates) + 1 \in Nat
    BY <1>2, <2>0 DEF Texts
  <2>2. handler' = [Idle EXCEPT !.at = kind, !.upd = Len(updates) + 1]
    BY DEF Deliver
  <2>. QED
    BY <2>1, <2>2 DEF Handlers, Idle
<1>4. UpdateType'
  BY <1>2, <1>3 DEF UpdateType
<1>5. UNCHANGED <<turn, objs, tasks, screen>>
  BY DEF Deliver
<1>. QED
  BY <1>4, <1>5, SameTurn, SameTasks, SameScreen DEF Claimless, TypeInv

LEMMA FlushStep ==
    ASSUME TypeInv, handler.at # "idle", NEW next \in Places, Flush(next)
    PROVE  Claimless
<1>1. UpdateType'
  <2>1. PICK x, n, k : /\ x = IF turn.hasResp THEN turn.text ELSE {}
                       /\ n = turn.msg
                       /\ k = IF turn.thought = "none" THEN 0 ELSE turn.thMsg
    OBVIOUS
  <2>2. x \in Texts /\ n \in Nat /\ k \in Nat
    BY <2>1, Fields DEF Texts
  <2>3. handler' = [handler EXCEPT !.at = next, !.text = x, !.msg = n, !.thMsg = k]
    BY <2>1 DEF Flush
  <2>4. updates' = updates
    BY DEF Flush
  <2>. QED
    BY <2>2, <2>3, <2>4, HandlerMoves
<1>2. TaskType' /\ TasksFrom(tasks, tasks')
  BY Fields, TaskMoves DEF Flush, TaskType
<1>3. turn' = NoTurn /\ objs' = objs /\ screen' = screen
  BY DEF Flush
<1>. QED
  BY <1>1, <1>2, <1>3, TurnRemoved, SameScreen DEF Claimless, TypeInv

LEMMA SendFlushStep ==
    ASSUME TypeInv, handler.at # "idle", NEW then \in Places, SendFlush(then)
    PROVE  Claimless
<1>1. UpdateType'
  <2>1. handler' = [Idle EXCEPT !.at = then, !.upd = handler.upd] /\ updates' = updates
    BY DEF SendFlush
  <2>2. {} \in Texts /\ 0 \in Nat
    BY DEF Texts
  <2>. QED
    BY <2>1, <2>2, HandlerMoves
<1>2. ScreenType' /\ ScreenFrom(screen, screen')
  <2>1. PICK shown : shown = IF handler.text = {} THEN screen
                             ELSE IF handler.msg # 0 THEN Edit(screen, handler.msg, handler.text)
                             ELSE PostBy(screen, 0, handler.text)
    OBVIOUS
  <2>2. PICK scr \in RetryTelegramOp(screen, shown) :
             screen' \in RetryTelegramOp(scr, Close(scr, handler.thMsg))
    BY <2>1 DEF SendFlush
  <2>3. shown \in Seq(Messages) /\ ScreenFrom(screen, shown) /\ ScreenFrom(screen, screen)
    BY <2>1, Fields, ScreenMoves
  <2>4. scr \in Seq(Messages) /\ ScreenFrom(screen, scr)
    BY <2>2, <2>3, Retried, Fields
  <2>5. screen' \in {scr, Close(scr, handler.thMsg)}
    BY <2>2, Retried
  <2>6. /\ Close(scr, handler.thMsg) \in Seq(Messages) /\ ScreenFrom(scr, Close(scr, handler.thMsg))
        /\ ScreenFrom(scr, scr)
    BY <2>4, Fields, ScreenMoves
  <2>. QED
    BY <2>4, <2>5, <2>6, Fields, ScreenAgain DEF ScreenType
<1>3. UNCHANGED <<turn, objs, tasks>>
  BY DEF SendFlush
<1>. QED
  BY <1>1, <1>2, <1>3, SameTurn, SameTasks DEF Claimless, TypeInv

(* An update that is left alone.                                           *)
LEMMA IgnoreStep ==
    ASSUME TypeInv, handler.at # "idle", handler' = Idle,
           UNCHANGED <<updates, turn, objs, tasks, screen>>
    PROVE  Claimless
<1>1. {} \in Texts /\ 0 \in Nat /\ "idle" \in Places
  BY DEF Texts, Places
<1>2. UpdateType'
  BY <1>1, HandlerMoves
<1>. QED
  BY <1>2, SameTurn, SameTasks, SameScreen DEF Claimless, TypeInv

LEMMA ThoughtAppendsStep ==
    ASSUME TypeInv, ThoughtAppends
    PROVE  Claimless
<1>1. handler.at # "idle"
  BY DEF ThoughtAppends
<1>2. CurMid \in Nat /\ {} \in Texts /\ 0 \in Nat /\ Places = Places \cup {"idle", "send thought"}
  BY <1>1, CurValues DEF Texts, Places
<1>3. PICK t : t = Opened(turn, CurMid)
  OBVIOUS
<1>4. t \in Turns
  BY <1>2, <1>3, OpenedValues DEF TypeInv
<1>5. NewTask \in Nat
  BY Fields DEF NewTask
<1>6. /\ Follows(t, [t EXCEPT !.thought = "open", !.thMsg = 0, !.thDeb = 0])
      /\ Follows(t, [t EXCEPT !.thDeb = NewTask])
  BY <1>2, <1>4, <1>5, TurnMoves
<1>7. \/ /\ turn' = [t EXCEPT !.thought = "open", !.thMsg = 0, !.thDeb = 0]
         /\ handler' = [handler EXCEPT !.at = "send thought"]
         /\ tasks' = Abort(tasks, {t.thDeb})
      \/ /\ turn' = [t EXCEPT !.thDeb = NewTask]
         /\ handler' = Idle
         /\ tasks' = Append(Abort(tasks, {t.thDeb}), Started("thought"))
  BY <1>3 DEF ThoughtAppends
<1>8. CountTurn /\ updates' = updates /\ screen' = screen
  BY DEF ThoughtAppends
<1>9. TurnType' /\ TurnFrom
  BY <1>2, <1>3, <1>6, <1>7, <1>8, TurnOpened
<1>10. TaskType' /\ TasksFrom(tasks, tasks')
  <2>1. /\ Abort(tasks, {t.thDeb}) \in Seq(Tasks) /\ TasksFrom(tasks, Abort(tasks, {t.thDeb}))
        /\ Append(Abort(tasks, {t.thDeb}), Started("thought")) \in Seq(Tasks)
        /\ TasksFrom(tasks, Append(Abort(tasks, {t.thDeb}), Started("thought")))
    BY Fields, TaskMoves, Zenon
  <2>. QED
    BY <1>7, <2>1 DEF TaskType
<1>11. UpdateType'
  BY <1>1, <1>2, <1>7, <1>8, HandlerMoves
<1>. QED
  BY <1>8, <1>9, <1>10, <1>11, SameScreen DEF Claimless, TypeInv

LEMMA ThoughtSentStep ==
    ASSUME TypeInv, ThoughtSent
    PROVE  Claimless
<1>1. handler.at # "idle" /\ handler' = Idle /\ UNCHANGED <<updates, objs, tasks>>
  BY DEF ThoughtSent
<1>2. {} \in Texts /\ 0 \in Nat /\ "idle" \in Places
  BY DEF Texts, Places
<1>3. UpdateType'
  BY <1>1, <1>2, HandlerMoves
<1>4. screen' \in {screen, Post("thought", {})}
  BY Retried DEF ThoughtSent
<1>5. /\ Post("thought", {}) \in Seq(Messages) /\ ScreenFrom(screen, Post("thought", {}))
      /\ ScreenFrom(screen, screen)
  BY <1>2, PostMoves, Fields, ScreenMoves DEF TypeInv
<1>6. ScreenType' /\ ScreenFrom(screen, screen')
  BY <1>4, <1>5, Fields DEF ScreenType
<1>7. Len(screen') \in Nat
  BY <1>6 DEF ScreenType
<1>8. Follows(turn, turn) /\ Follows(turn, [turn EXCEPT !.thMsg = Len(screen')])
  BY <1>2, <1>7, Fields, TurnMoves
<1>9. Follows(turn, turn')
  BY <1>8 DEF ThoughtSent
<1>. QED
  BY <1>1, <1>3, <1>6, <1>9, TurnKept, SameTasks DEF Claimless, TypeInv

LEMMA ChunkAppendsStep ==
    ASSUME TypeInv, ChunkAppends
    PROVE  Claimless
<1>1. handler.at # "idle"
  BY DEF ChunkAppends
<1>2. CurMid \in Nat /\ {} \in Texts /\ 0 \in Nat /\ handler.upd \in Nat
  BY <1>1, CurValues DEF Texts
<1>3. PICK o : o = Opened(turn, CurMid)
  OBVIOUS
<1>4. PICK t : t = WithChunk(o, handler.upd)
  OBVIOUS
<1>5. o \in Turns
  BY <1>2, <1>3, OpenedValues DEF TypeInv
<1>6. t \in Turns /\ Follows(o, t) /\ t.text \in Texts /\ t.msg \in Nat
  <2>1. Follows(o, t)
    BY <1>2, <1>4, <1>5, TurnMoves
  <2>. QED
    BY <2>1 DEF Follows, Turns
<1>7. NewTask \in Nat
  BY Fields DEF NewTask
<1>8. CountTurn /\ updates' = updates /\ screen' = screen
  BY DEF ChunkAppends
<1>9. "late" \in Places /\ "edit" \in Places /\ "idle" \in Places
  BY DEF Places
<1>10. \/ BeginFinalizing(t, tasks) /\ handler' = Idle
       \/ turn' = t /\ tasks' = tasks
          /\ \/ handler' = Idle
             \/ handler' = [handler EXCEPT !.at = "late", !.text = t.text, !.msg = t.msg]
             \/ handler' = [handler EXCEPT !.at = "edit", !.text = t.text, !.msg = t.msg]
       \/ turn' = [t EXCEPT !.deb = NewTask] /\ tasks' = Append(tasks, Started("debounce"))
          /\ handler' = Idle
  BY <1>3, <1>4 DEF ChunkAppends
<1>11. UpdateType'
  <2>1. \/ handler' = Idle
        \/ handler' = [handler EXCEPT !.at = "late", !.text = t.text, !.msg = t.msg]
        \/ handler' = [handler EXCEPT !.at = "edit", !.text = t.text, !.msg = t.msg]
    BY <1>10
  <2>2. PICK p \in Places : \/ handler' = Idle
                           \/ handler' = [handler EXCEPT !.at = p, !.text = t.text, !.msg = t.msg]
    BY <1>9, <2>1
  <2>3. updates' = updates
    BY <1>8
  <2>. QED
    BY <1>1, <1>2, <1>6, <2>2, <2>3, HandlerMoves
<1>12. Follows(t, turn') /\ TaskType' /\ TasksFrom(tasks, tasks')
  <2>1. CASE BeginFinalizing(t, tasks)
    BY <1>6, <2>1, FinalizingBegins
  <2>2. CASE turn' = t /\ tasks' = tasks
    BY <1>6, <2>2, SameTasks DEF Follows
  <2>3. CASE turn' = [t EXCEPT !.deb = NewTask] /\ tasks' = Append(tasks, Started("debounce"))
    <3>1. Follows(t, [t EXCEPT !.deb = NewTask])
      BY <1>2, <1>6, <1>7, TurnMoves
    <3>2. /\ Append(tasks, Started("debounce")) \in Seq(Tasks)
          /\ TasksFrom(tasks, Append(tasks, Started("debounce")))
      BY Fields, TaskMoves, Zenon
    <3>. QED
      BY <2>3, <3>1, <3>2 DEF TaskType
  <2>. QED
    BY <1>10, <2>1, <2>2, <2>3
<1>13. TurnType' /\ TurnFrom
  BY <1>2, <1>3, <1>6, <1>8, <1>12, FollowsAgain, TurnOpened
<1>. QED
  BY <1>8, <1>11, <1>12, <1>13, SameScreen DEF Claimless, TypeInv

LEMMA EditStep ==
    ASSUME TypeInv, handler.at # "idle", handler' = Idle, updates' = updates,
           screen' \in RetryTelegramOp(screen, Edit(screen, handler.msg, handler.text))
    PROVE  UpdateType' /\ ScreenType' /\ ScreenFrom(screen, screen')
<1>1. {} \in Texts /\ 0 \in Nat /\ "idle" \in Places
  BY DEF Texts, Places
<1>2. UpdateType'
  BY <1>1, HandlerMoves
<1>3. screen' \in {screen, Edit(screen, handler.msg, handler.text)}
  BY Retried
<1>. QED
  BY <1>2, <1>3, Fields, ScreenMoves DEF ScreenType

LEMMA ChunkEditedStep ==
    ASSUME TypeInv, ChunkEdited
    PROVE  Claimless
<1>1. UpdateType' /\ ScreenType' /\ ScreenFrom(screen, screen')
  BY EditStep DEF ChunkEdited
<1>2. UNCHANGED <<turn, objs, tasks>>
  BY DEF ChunkEdited
<1>. QED
  BY <1>1, <1>2, SameTurn, SameTasks DEF Claimless, TypeInv

LEMMA LateChunkEditedStep ==
    ASSUME TypeInv, LateChunkEdited
    PROVE  Claimless
<1>1. UpdateType' /\ ScreenType' /\ ScreenFrom(screen, screen')
  BY EditStep DEF LateChunkEdited
<1>2. BeginFinalizing(turn, tasks) /\ objs' = objs
  BY DEF LateChunkEdited
<1>3. Follows(turn, turn') /\ TaskType' /\ TasksFrom(tasks, tasks')
  BY <1>2, Fields, FinalizingBegins
<1>. QED
  BY <1>1, <1>2, <1>3, TurnKept DEF Claimless, TypeInv

LEMMA ResultCollapsesStep ==
    ASSUME TypeInv, ResultCollapses
    PROVE  Claimless
<1>1. handler.at # "idle" /\ UNCHANGED <<updates, objs, screen>> /\ CollapseThought
  BY DEF ResultCollapses
<1>2. UpdateType'
  <2>1. PICK k : k = IF turn.thought = "none" THEN 0 ELSE turn.thMsg
    OBVIOUS
  <2>2. k \in Nat /\ {} \in Texts /\ "collapse" \in Places
    BY <2>1, Fields DEF Texts, Places
  <2>3. handler' = [handler EXCEPT !.at = "collapse", !.thMsg = k]
    BY <2>1 DEF ResultCollapses
  <2>. QED
    BY <1>1, <2>2, <2>3, HandlerMoves
<1>3. Follows(turn, turn')
  <2>1. {} \in Texts /\ 0 \in Nat
    BY DEF Texts
  <2>2. Follows(turn, [turn EXCEPT !.thought = "none", !.thMsg = 0, !.thDeb = 0])
    BY <2>1, Fields, TurnMoves
  <2>. QED
    BY <1>1, <2>2 DEF CollapseThought
<1>4. TaskType' /\ TasksFrom(tasks, tasks')
  BY <1>1, Fields, TaskMoves DEF CollapseThought, TaskType
<1>. QED
  BY <1>1, <1>2, <1>3, <1>4, TurnKept, SameScreen DEF Claimless, TypeInv

LEMMA ResultFinalizesStep ==
    ASSUME TypeInv, ResultFinalizes
    PROVE  Claimless
<1>1. handler.at # "idle" /\ handler' = Idle /\ updates' = updates /\ CountTurn
  BY DEF ResultFinalizes
<1>2. {} \in Texts /\ 0 \in Nat /\ "idle" \in Places /\ CurMid \in Nat /\ handler.upd \in Nat
  BY <1>1, CurValues DEF Texts, Places
<1>3. UpdateType'
  BY <1>1, <1>2, HandlerMoves
<1>4. screen' \in {screen, Close(screen, handler.thMsg)}
  BY Retried DEF ResultFinalizes
<1>5. ScreenType' /\ ScreenFrom(screen, screen')
  BY <1>2, <1>4, Fields, ScreenMoves DEF ScreenType
<1>6. PICK t : t = Opened(turn, CurMid)
  OBVIOUS
<1>7. PICK e : e = IF Cur[1] = "error" THEN [t EXCEPT !.hasResp = TRUE, !.text = @ \cup {handler.upd}]
                   ELSE t
  OBVIOUS
<1>8. t \in Turns
  BY <1>2, <1>6, OpenedValues DEF TypeInv
<1>9. Follows(t, e)
  <2>1. Follows(t, t) /\ Follows(t, [t EXCEPT !.hasResp = TRUE, !.text = @ \cup {handler.upd}])
    BY <1>2, <1>8, TurnMoves
  <2>. QED
    BY <1>7, <2>1
<1>10. Follows(e, Muted(e)) /\ Muted(e) \in Turns
  BY <1>2, <1>9, TurnMoves DEF Follows
<1>11. BeginFinalizing(Muted(e), tasks)
  BY <1>6, <1>7 DEF ResultFinalizes
<1>12. Follows(Muted(e), turn') /\ TaskType' /\ TasksFrom(tasks, tasks')
  BY <1>10, <1>11, FinalizingBegins
<1>13. Follows(t, turn')
  BY <1>9, <1>10, <1>12, FollowsAgain
<1>14. TurnType' /\ TurnFrom
  BY <1>1, <1>2, <1>6, <1>13, TurnOpened
<1>. QED
  BY <1>3, <1>5, <1>12, <1>14 DEF Claimless, TypeInv

(* ContentKind::ToolCall and ToolCallUpdate.                               *)
LEMMA ToolCallStep ==
    ASSUME TypeInv, ToolCall
    PROVE  Claimless
<1>1. handler.at # "idle" /\ turn.obj # 0 /\ UNCHANGED <<updates, objs, tasks, screen>>
  BY DEF ToolCall, HasTurn
<1>2. CurMid \in Nat /\ Tool \in Nat /\ 0 \in Nat /\ "tools" \in Places
  BY <1>1, CurValues DEF Tool, Places
<1>3. PICK o : o = Opened(turn, CurMid)
  OBVIOUS
<1>4. o \in Turns /\ Follows(turn, o)
  BY <1>1, <1>2, <1>3, OpenedValues DEF TypeInv, Follows
<1>5. PICK c, h : c = o.toolCalls \cup {Tool} /\ h = IF o.thought = "muted" THEN "open" ELSE o.thought
  OBVIOUS
<1>6. c \in Texts /\ h \in {"none", "open", "muted"}
  <2>1. o.toolCalls \in Texts /\ o.thought \in {"none", "open", "muted"}
    BY <1>4 DEF Turns
  <2>. QED
    BY <1>2, <1>5, <2>1 DEF Texts
<1>7. turn' = [o EXCEPT !.toolCalls = c, !.thought = h]
  BY <1>3, <1>4, <1>5 DEF ToolCall, Turns
<1>8. Follows(o, turn')
  BY <1>2, <1>4, <1>6, <1>7, TurnMoves
<1>9. Follows(turn, turn')
  BY <1>4, <1>8, FollowsAgain
<1>10. UpdateType'
  <2>1. handler' = [handler EXCEPT !.at = "tools", !.msg = turn.toolMsg, !.text = RenderToolsText(turn)]
    BY DEF ToolCall
  <2>2. RenderToolsText(turn) \in Texts /\ turn.toolMsg \in Nat
    BY Fields DEF RenderToolsText
  <2>. QED
    BY <1>1, <1>2, <2>1, <2>2, HandlerMoves
<1>. QED
  BY <1>1, <1>9, <1>10, TurnKept, SameTasks, SameScreen DEF Claimless, TypeInv

LEMMA ToolUpdateStep ==
    ASSUME TypeInv, ToolUpdate
    PROVE  Claimless
<1>1. handler.at # "idle" /\ UNCHANGED <<updates, objs, tasks, screen>>
  BY DEF ToolUpdate
<1>2. Tool \in Nat /\ 0 \in Nat /\ "tools" \in Places /\ {} \in Texts
  BY <1>1, CurValues DEF Tool, Places, Texts
<1>3. PICK c : c = IF handler.at = "tool done" THEN turn.ended \cup {Tool} ELSE turn.ended \ {Tool}
  OBVIOUS
<1>4. c \in Texts
  BY <1>2, <1>3, Fields DEF Texts
<1>5. turn' = [turn EXCEPT !.ended = c]
  BY <1>3, Fields DEF ToolUpdate, Turns
<1>6. Follows(turn, turn')
  BY <1>2, <1>4, <1>5, Fields, TurnMoves
<1>7. RenderToolsText(turn') \in Texts
  BY <1>4, <1>5, Fields DEF RenderToolsText, Turns
<1>8. \/ handler' = Idle
      \/ handler' = [handler EXCEPT !.at = "tools", !.msg = turn.toolMsg, !.text = RenderToolsText(turn')]
  BY DEF ToolUpdate
<1>9. turn.toolMsg \in Nat
  BY Fields
<1>10. UpdateType'
  BY <1>1, <1>2, <1>7, <1>8, <1>9, HandlerMoves
<1>. QED
  BY <1>1, <1>6, <1>10, TurnKept, SameTasks, SameScreen DEF Claimless, TypeInv

LEMMA ToolsShownStep ==
    ASSUME TypeInv, ToolsShown
    PROVE  Claimless
<1>1. handler.at # "idle" /\ handler' = Idle /\ UNCHANGED <<updates, objs, tasks>>
  BY DEF ToolsShown
<1>2. {} \in Texts /\ 0 \in Nat /\ "idle" \in Places
  BY DEF Texts, Places
<1>3. UpdateType'
  BY <1>1, <1>2, HandlerMoves
<1>4. screen' \in {screen, Edit(screen, handler.msg, handler.text), Post("tools", handler.text)}
  BY Retried DEF ToolsShown
<1>5. /\ Post("tools", handler.text) \in Seq(Messages)
      /\ ScreenFrom(screen, Post("tools", handler.text))
  BY Fields, PostMoves DEF TypeInv
<1>6. ScreenType' /\ ScreenFrom(screen, screen')
  BY <1>4, <1>5, Fields, ScreenMoves DEF ScreenType
<1>7. Len(screen') \in Nat
  BY <1>6 DEF ScreenType
<1>8. Follows(turn, turn) /\ Follows(turn, [turn EXCEPT !.toolMsg = Len(screen')])
  BY <1>2, <1>7, Fields, TurnMoves
<1>9. Follows(turn, turn')
  BY <1>8 DEF ToolsShown
<1>. QED
  BY <1>1, <1>3, <1>6, <1>9, TurnKept, SameTasks DEF Claimless, TypeInv

(* deliver_to_chat claims nothing and posts no response that was claimed.  *)
LEMMA HandleStep ==
    ASSUME TypeInv, Handle
    PROVE  Claimless
<1>0. {"flush thought", "flush chunk", "thought", "chunk"} \subseteq Places
  BY DEF Places, Kinds
<1>1. CASE ThoughtFlushes
  BY <1>0, <1>1, FlushStep DEF ThoughtFlushes
<1>2. CASE ThoughtFlushed
  BY <1>0, <1>2, SendFlushStep DEF ThoughtFlushed
<1>3. CASE ThoughtIgnored
  BY <1>3, IgnoreStep DEF ThoughtIgnored
<1>4. CASE ChunkFlushes
  BY <1>0, <1>4, FlushStep DEF ChunkFlushes
<1>5. CASE ChunkFlushed
  BY <1>0, <1>5, SendFlushStep DEF ChunkFlushed
<1>6. CASE ResultStale
  BY <1>6, IgnoreStep DEF ResultStale
<1>7. CASE ToolIgnored
  BY <1>7, IgnoreStep DEF ToolIgnored
<1>. QED
  BY <1>1, <1>2, <1>3, <1>4, <1>5, <1>6, <1>7, ThoughtAppendsStep, ThoughtSentStep,
     ChunkAppendsStep, ChunkEditedStep, LateChunkEditedStep, ResultCollapsesStep,
     ResultFinalizesStep, ToolCallStep, ToolUpdateStep, ToolsShownStep DEF Handle

-----------------------------------------------------------------------------
(* The steps of the tasks.                                                 *)
LEMMA ThoughtTaskStep ==
    ASSUME TypeInv, NEW i \in DOMAIN tasks,
           ThoughtFires(i) \/ ThoughtEdited(i) \/ ThoughtDebounced(i)
    PROVE  Claimless
<1>1. /\ tasks \in Seq(Tasks) /\ tasks[i] \in Tasks /\ turn.thMsg \in Nat
      /\ screen \in Seq(Messages) /\ turn \in Turns
  BY Fields, TaskFields
<1>2. /\ [tasks EXCEPT ![i].st = "landed"] \in Seq(Tasks)
      /\ TasksFrom(tasks, [tasks EXCEPT ![i].st = "landed"])
      /\ [tasks EXCEPT ![i] = Dead] \in Seq(Tasks) /\ TasksFrom(tasks, [tasks EXCEPT ![i] = Dead])
  BY <1>1, TaskLands
<1>3. {} \in Texts /\ 0 \in Nat
  BY DEF Texts
<1>4. CASE ThoughtFires(i)
  <2>1. PICK t : t = [tasks[i] EXCEPT !.st = "send", !.msg = turn.thMsg]
    OBVIOUS
  <2>2. t \in Tasks /\ t.kind = "thought"
    BY <1>1, <1>4, <2>1 DEF ThoughtFires, Tasks
  <2>3. [tasks EXCEPT ![i] = t] \in Seq(Tasks) /\ TasksFrom(tasks, [tasks EXCEPT ![i] = t])
    BY <1>1, <2>2, TaskChanges
  <2>4. tasks' = [tasks EXCEPT ![i] = t] \/ tasks' = [tasks EXCEPT ![i] = Dead]
    BY <1>4, <2>1 DEF ThoughtFires
  <2>5. TaskType' /\ TasksFrom(tasks, tasks')
    BY <1>2, <2>3, <2>4 DEF TaskType
  <2>6. UNCHANGED <<updates, handler, turn, objs, screen>>
    BY <1>4 DEF ThoughtFires
  <2>. QED
    BY <2>5, <2>6, SameHandler, SameTurn, SameScreen DEF Claimless, TypeInv
<1>5. CASE ThoughtEdited(i)
  <2>1. TaskType' /\ TasksFrom(tasks, tasks')
    BY <1>2, <1>5 DEF ThoughtEdited, TaskType
  <2>2. ScreenType' /\ ScreenFrom(screen, screen')
    BY <1>1, <1>3, <1>5, ScreenMoves DEF ThoughtEdited, ScreenType
  <2>3. UNCHANGED <<updates, handler, turn, objs>>
    BY <1>5 DEF ThoughtEdited
  <2>. QED
    BY <2>1, <2>2, <2>3, SameHandler, SameTurn DEF Claimless, TypeInv
<1>6. CASE ThoughtDebounced(i)
  <2>1. TaskType' /\ TasksFrom(tasks, tasks')
    BY <1>2, <1>6 DEF ThoughtDebounced, TaskType
  <2>2. Follows(turn, turn) /\ Follows(turn, [turn EXCEPT !.thDeb = 0])
    BY <1>1, <1>3, TurnMoves
  <2>3. Follows(turn, turn') /\ UNCHANGED <<updates, handler, objs, screen>>
    BY <1>6, <2>2 DEF ThoughtDebounced
  <2>. QED
    BY <2>1, <2>3, SameHandler, TurnKept, SameScreen DEF Claimless, TypeInv
<1>. QED
  BY <1>4, <1>5, <1>6

LEMMA StoreStep ==
    ASSUME TypeInv, NEW i \in DOMAIN tasks, DebounceStores(i) \/ TimerRemoves(i)
    PROVE  Claimless
<1>1. /\ tasks \in Seq(Tasks) /\ tasks[i].msg \in Nat /\ turn \in Turns /\ {} \in Texts
  BY Fields, TaskFields DEF Texts
<1>2. [tasks EXCEPT ![i] = Dead] \in Seq(Tasks) /\ TasksFrom(tasks, [tasks EXCEPT ![i] = Dead])
  BY <1>1, TaskLands
<1>3. TaskType' /\ TasksFrom(tasks, tasks') /\ UNCHANGED <<updates, handler, objs, screen>>
  BY <1>2 DEF DebounceStores, TimerRemoves, TaskType
<1>4. Follows(turn, turn) /\ Follows(turn, [turn EXCEPT !.msg = tasks[i].msg, !.deb = 0])
  BY <1>1, TurnMoves
<1>5. Follows(turn, turn') \/ turn' = NoTurn
  BY <1>4 DEF DebounceStores, TimerRemoves
<1>6. TurnType' /\ TurnFrom
  BY <1>3, <1>5, TurnKept, TurnRemoved
<1>. QED
  BY <1>3, <1>6, SameHandler, SameScreen DEF Claimless, TypeInv

(* A debounce that wakes keeps the text of the turn, or ends.              *)
LEMMA DebounceReads ==
    ASSUME TypeInv, NEW i \in DOMAIN tasks, DebounceFires(i)
    PROVE  /\ UNCHANGED <<updates, handler, turn, objs, screen>> /\ tasks[i].kind = "debounce"
           /\ \E new \in Tasks : /\ tasks' = [tasks EXCEPT ![i] = new] /\ new.st # "send"
                                 /\ \/ new = Dead
                                    \/ new.kind = tasks[i].kind /\ new.msg = tasks[i].msg
<1>1. tasks \in Seq(Tasks) /\ tasks[i] \in Tasks /\ turn.text \in Texts /\ Dead \in Tasks
  BY Fields, TaskFields, TaskValues
<1>2. PICK d : d = [tasks[i] EXCEPT !.st = "claim", !.text = turn.text]
  OBVIOUS
<1>3. d \in Tasks /\ d.st = "claim" /\ d.kind = tasks[i].kind /\ d.msg = tasks[i].msg /\ Dead.st = "dead"
  BY <1>1, <1>2 DEF Tasks, Dead
<1>4. tasks' = [tasks EXCEPT ![i] = d] \/ tasks' = [tasks EXCEPT ![i] = Dead]
  BY <1>1, <1>2 DEF DebounceFires
<1>. QED
  BY <1>1, <1>3, <1>4 DEF DebounceFires

LEMMA ReadStep ==
    ASSUME TypeInv, NEW i \in DOMAIN tasks, DebounceFires(i)
    PROVE  Claimless
<1>1. tasks \in Seq(Tasks)
  BY Fields
<1>2. TaskType' /\ TasksFrom(tasks, tasks')
  BY <1>1, DebounceReads, TaskChanges DEF TaskType
<1>. QED
  BY <1>2, DebounceReads, SameHandler, SameTurn, SameScreen DEF Claimless, TypeInv

(* A debounce or a timer claims the response, or finds nothing to send.    *)
LEMMA FireStep ==
    ASSUME TypeInv, ClaimInv, NEW i \in DOMAIN tasks, DebounceClaims(i) \/ TimerFires(i)
    PROVE  TypeInv' /\ ClaimInv'
<1>1. /\ tasks \in Seq(Tasks) /\ tasks[i] \in Tasks /\ turn \in Turns /\ i \in 1 .. Len(tasks)
      /\ turn.text \in Texts /\ turn.msg \in Nat /\ turn.obj \in Nat
  BY Fields, TaskFields
<1>2. UNCHANGED <<updates, handler, objs, screen>>
  BY DEF DebounceClaims, TimerFires
<1>3. UpdateType' /\ ScreenType' /\ ScreenFrom(screen, screen')
  BY <1>2, SameHandler, SameScreen
<1>4. CASE HasTurn /\ TryFinalize /\ turn' = [turn EXCEPT !.claimed = TRUE]
  <2>1. PICK d : d = [tasks[i] EXCEPT !.st = "send", !.obj = turn.obj]
    OBVIOUS
  <2>2. PICK t : t = [tasks[i] EXCEPT !.st = "send", !.text = turn.text, !.msg = turn.msg,
                                      !.obj = turn.obj]
    OBVIOUS
  <2>3. d \in Tasks /\ d.st = "send" /\ d.obj = turn.obj
    BY <1>1, <2>1 DEF Tasks
  <2>4. t \in Tasks /\ t.st = "send" /\ t.obj = turn.obj
    BY <1>1, <2>2 DEF Tasks
  <2>5. turn.obj # 0 /\ ~turn.claimed
    BY <1>4 DEF HasTurn, TryFinalize
  <2>6. turn'.obj = turn.obj /\ turn'.claimed = TRUE /\ NoTurn.obj = 0
    BY <1>1, <1>4, NewTurnValues DEF NoTurn, Turns
  <2>7. tasks' = [tasks EXCEPT ![i] = d] \/ tasks' = [tasks EXCEPT ![i] = t]
                \/ (turn' = NoTurn \/ turn' = turn)
    BY <1>1, <2>1, <2>2 DEF DebounceClaims, TimerFires
  <2>8. turn' # NoTurn /\ turn' # turn
    <3>1. turn' # NoTurn
      BY <2>5, <2>6
    <3>2. ASSUME turn' = turn PROVE FALSE
      BY <2>5, <2>6, <3>2, Zenon
    <3>. QED
      BY <3>1, <3>2
  <2>9. PICK new \in {d, t} : tasks' = [tasks EXCEPT ![i] = new]
    BY <2>7, <2>8
  <2>10. new \in Tasks /\ new.st = "send" /\ new.obj = turn.obj
    BY <2>3, <2>4
  <2>11. ClaimInv' /\ TurnType' /\ TaskType'
    BY <1>1, <1>2, <1>4, <2>5, <2>9, <2>10, Claimed
  <2>. QED
    BY <1>3, <2>11 DEF TypeInv
<1>5. ASSUME tasks' = [tasks EXCEPT ![i] = Dead], turn' = turn \/ turn' = NoTurn
      PROVE  TypeInv' /\ ClaimInv'
  <2>1. TaskType' /\ TasksFrom(tasks, tasks')
    BY <1>1, <1>5, TaskLands DEF TaskType
  <2>2. TurnType' /\ TurnFrom
    BY <1>2, <1>5, SameTurn, TurnRemoved
  <2>3. TypeInv'
    BY <1>3, <2>1, <2>2 DEF TypeInv
  <2>. QED
    BY <1>3, <2>1, <2>2, <2>3, NothingClaimed
<1>. QED
  BY <1>4, <1>5 DEF DebounceClaims, TimerFires

(* The one that claimed the response posts it, edits it in, or fails.      *)
LEMMA SendStep ==
    ASSUME TypeInv, ClaimInv, NEW i \in DOMAIN tasks, DebounceSends(i) \/ TimerSends(i)
    PROVE  TypeInv' /\ ClaimInv'
<1>1. /\ tasks \in Seq(Tasks) /\ tasks[i] \in Tasks /\ i \in 1 .. Len(tasks)
      /\ tasks[i].text \in Texts /\ tasks[i].obj \in Nat /\ tasks[i].msg \in Nat
      /\ screen \in Seq(Messages)
  BY Fields, TaskFields
<1>2. UNCHANGED <<updates, handler, turn, objs>> /\ Sending(i)
  BY DEF DebounceSends, TimerSends, Sending
<1>3. UpdateType' /\ TurnType' /\ TurnFrom
  BY <1>2, SameHandler, SameTurn
<1>4. screen' \in {screen, Edit(screen, tasks[i].msg, tasks[i].text),
                   PostBy(screen, tasks[i].obj, tasks[i].text)}
  BY Retried DEF DebounceSends, TimerSends, RetryTelegramOp
<1>5. ScreenType'
  BY <1>1, <1>4, ScreenValues DEF ScreenType
<1>6. PICK new : tasks' = [tasks EXCEPT ![i] = new] /\ new \in Tasks /\ new.st # "send"
  <2>1. Len(screen') \in Nat
    BY <1>5 DEF ScreenType
  <2>2. PICK d : d = [tasks[i] EXCEPT !.st = "landed", !.msg = Len(screen')]
    OBVIOUS
  <2>3. PICK t : t = [tasks[i] EXCEPT !.st = "landed"]
    OBVIOUS
  <2>4. d \in Tasks /\ d.st # "send" /\ t \in Tasks /\ t.st # "send"
    BY <1>1, <2>1, <2>2, <2>3 DEF Tasks
  <2>5. Dead \in Tasks /\ Dead.st # "send"
    BY TaskValues
  <2>6. \/ tasks' = [tasks EXCEPT ![i] = d] \/ tasks' = [tasks EXCEPT ![i] = t]
        \/ tasks' = [tasks EXCEPT ![i] = Dead]
    BY <1>1, <2>2, <2>3 DEF DebounceSends, TimerSends
  <2>. QED
    BY <2>4, <2>5, <2>6
<1>7. TaskType' /\ TasksFrom(tasks, tasks')
  BY <1>1, <1>6, TaskChanges DEF TaskType
<1>8. TypeInv'
  BY <1>3, <1>5, <1>7 DEF TypeInv
<1>9. CASE screen' = PostBy(screen, tasks[i].obj, tasks[i].text)
  <2>1. PostedBy(screen, screen', tasks[i].obj)
    BY <1>1, <1>9, ScreenValues
  <2>. QED
    BY <1>1, <1>2, <1>6, <1>8, <2>1, Posted
<1>10. CASE screen' = screen \/ screen' = Edit(screen, tasks[i].msg, tasks[i].text)
  <2>1. ScreenFrom(screen, screen')
    BY <1>1, <1>10, ScreenMoves
  <2>. QED
    BY <1>3, <1>7, <1>8, <2>1, NothingClaimed
<1>. QED
  BY <1>4, <1>9, <1>10

-----------------------------------------------------------------------------
LEMMA ClaimInvariant == Spec => [](TypeInv /\ ClaimInv)
<1>1. Init => TypeInv /\ ClaimInv
  <2>. SUFFICES ASSUME Init PROVE TypeInv /\ ClaimInv
    OBVIOUS
  <2>1. Idle \in Handlers /\ Idle.at = "idle" /\ NoTurn \in Turns /\ NoTurn.obj = 0
    BY NewTurnValues DEF Idle, Handlers, Places, Texts, NoTurn
  <2>2. updates = <<>> /\ handler = Idle /\ turn = NoTurn /\ objs = 0 /\ tasks = <<>> /\ screen = <<>>
    BY DEF Init
  <2>3. TypeInv
    BY <2>1, <2>2 DEF TypeInv, UpdateType, TurnType, TaskType, ScreenType
  <2>4. ClaimInv
    BY <2>1, <2>2 DEF ClaimInv
  <2>. QED
    BY <2>3, <2>4
<1>2. TypeInv /\ ClaimInv /\ [Next]_vars => TypeInv' /\ ClaimInv'
  <2>. SUFFICES ASSUME TypeInv, ClaimInv, [Next]_vars PROVE TypeInv' /\ ClaimInv'
    OBVIOUS
  <2>1. ASSUME Claimless PROVE TypeInv' /\ ClaimInv'
    BY <2>1, NothingClaimed DEF Claimless
  <2>2. ASSUME NEW k \in Kinds, NEW m \in 1 .. MaxTurns, Deliver(k, m) PROVE Claimless
    <3>1. m \in Nat
      BY TelegramAssumption
    <3>. QED
      BY <2>2, <3>1, DeliverStep
  <2>3. CASE Handle
    BY <2>1, <2>3, HandleStep
  <2>4. ASSUME NEW i \in DOMAIN tasks, Task(i) PROVE TypeInv' /\ ClaimInv'
    BY <2>1, <2>4, ThoughtTaskStep, StoreStep, ReadStep, FireStep, SendStep DEF Task
  <2>5. CASE UNCHANGED vars
    <3>1. UNCHANGED <<updates, handler, turn, objs, tasks, screen>>
      BY <2>5 DEF vars
    <3>2. Claimless
      BY <3>1, SameHandler, SameTurn, SameTasks, SameScreen DEF Claimless, TypeInv
    <3>. QED
      BY <2>1, <3>2
  <2>. QED
    BY <2>1, <2>2, <2>3, <2>4, <2>5 DEF Next
<1>. QED
  BY <1>1, <1>2, PTL DEF Spec

(* Every update, turn, task and message of the Telegram channel has the    *)
(* shape that ChatTurn and its tracks give it, and the handler works on an *)
(* update that was delivered.                                              *)
THEOREM TypeCorrect == Spec => []TypeInv
  BY ClaimInvariant, PTL

(* turn.rs:139: "This flag ensures only the first caller wins".  However   *)
(* many updates arrive, debounces and timers run and calls of the API      *)
(* fail, at most one task posts the response of a turn.                    *)
THEOREM SentOnceHolds == Spec => []SentOnce
<1>1. TypeInv /\ ClaimInv => SentOnce
  <2>. SUFFICES ASSUME TypeInv, ClaimInv PROVE SentOnce
    OBVIOUS
  <2>1. DOMAIN screen = 1 .. Len(screen)
    BY DEF TypeInv, ScreenType
  <2>. QED
    BY <2>1 DEF ClaimInv, SentOnce
<1>. QED
  BY <1>1, ClaimInvariant, PTL

-----------------------------------------------------------------------------
(* Settled messages: what the steps do to the screen, and to the ids of    *)
(* messages that the turn, the handler and the tasks keep.                 *)

(* Who edits what.  An id kept for a response is that of a response, and   *)
(* the one kept for the tools that of the tools message, whose text is not *)
(* ahead of the turn.                                                      *)
Response(m) == m # 0 => m \in 1 .. Len(screen) /\ screen[m].kind = "response"
ShownTools(m, ended) ==
    m \in 1 .. Len(screen) /\ screen[m].kind = "tools" /\ screen[m].text \subseteq ended

TurnPlaced ==
    /\ Response(turn.msg)
    /\ turn.toolMsg # 0 => turn.obj # 0 /\ ShownTools(turn.toolMsg, turn.ended)
HandlerPlaced ==
    /\ handler.at \in {"flush thought", "flush chunk", "edit", "late"} => Response(handler.msg)
    /\ handler.at = "tools" => /\ handler.msg # 0 => ShownTools(handler.msg, handler.text)
                               /\ turn.obj # 0 => handler.text \subseteq turn.ended
TasksPlaced == \A i \in 1 .. Len(tasks) : tasks[i].kind # "thought" => Response(tasks[i].msg)
PlacesInv   == TurnPlaced /\ HandlerPlaced /\ TasksPlaced

(* No message goes, and only the text of a response changes.               *)
Kept(scr, new) ==
    /\ Len(scr) <= Len(new)
    /\ \A j \in 1 .. Len(scr) : /\ new[j].kind = scr[j].kind
                                /\ scr[j].kind = "tools" => new[j].text = scr[j].text
SameOpen(scr, new) == \A j \in 1 .. Len(scr) : new[j].open = scr[j].open
(* The message m alone is opened or collapsed.                             *)
OpenAt(scr, new, m, open) ==
    \A j \in 1 .. Len(scr) : new[j].open = IF j = m THEN open ELSE scr[j].open

LEMMA PostEffect ==
    ASSUME NEW scr \in Seq(Messages), NEW msg, NEW new, new = Append(scr, msg)
    PROVE  Kept(scr, new) /\ SameOpen(scr, new) /\ Len(new) = Len(scr) + 1 /\ new[Len(new)] = msg
<1>1. /\ Len(scr) \in Nat /\ Len(new) = Len(scr) + 1 /\ new[Len(scr) + 1] = msg
      /\ \A j \in 1 .. Len(scr) : new[j] = scr[j]
  OBVIOUS
<1>. QED
  BY <1>1 DEF Kept, SameOpen

LEMMA PostByEffect ==
    ASSUME NEW scr \in Seq(Messages), NEW obj, NEW text, NEW new, new = PostBy(scr, obj, text)
    PROVE  /\ Kept(scr, new) /\ SameOpen(scr, new) /\ Len(new) = Len(scr) + 1
           /\ new[Len(new)].kind = "response"
<1>1. PICK msg : msg = [kind |-> "response", by |-> obj, text |-> text, open |-> TRUE]
  OBVIOUS
<1>2. new = Append(scr, msg) /\ msg.kind = "response"
  BY <1>1 DEF PostBy
<1>. QED
  BY <1>2, PostEffect

LEMMA PostKindEffect ==
    ASSUME TypeInv, NEW kind, NEW text, NEW new, new = Post(kind, text)
    PROVE  /\ Kept(screen, new) /\ SameOpen(screen, new) /\ Len(new) = Len(screen) + 1
           /\ new[Len(new)].kind = kind /\ new[Len(new)].text = text /\ new[Len(new)].open
<1>1. PICK msg : msg = [kind |-> kind, by |-> 0, text |-> text, open |-> TRUE]
  OBVIOUS
<1>2. new = Append(screen, msg) /\ msg.kind = kind /\ msg.text = text /\ msg.open
  BY <1>1 DEF Post
<1>3. /\ Kept(screen, new) /\ SameOpen(screen, new) /\ Len(new) = Len(screen) + 1
      /\ new[Len(new)] = msg
  BY <1>2, PostEffect, Fields
<1>. QED
  BY <1>2, <1>3

LEMMA EditEffect ==
    ASSUME NEW scr \in Seq(Messages), NEW m, NEW text \in Texts, NEW new, new = Edit(scr, m, text)
    PROVE  /\ SameOpen(scr, new) /\ Len(new) = Len(scr)
           /\ \A j \in 1 .. Len(scr) : /\ new[j].kind = scr[j].kind
                                       /\ new[j].text = IF j = m THEN text ELSE scr[j].text
           /\ (m \in 1 .. Len(scr) => scr[m].kind = "response") => Kept(scr, new)
<1>1. /\ Len(scr) \in Nat /\ Len(new) = Len(scr) /\ DOMAIN scr = 1 .. Len(scr)
      /\ \A j \in 1 .. Len(scr) : new[j] = IF j = m THEN [scr[j] EXCEPT !.text = text] ELSE scr[j]
  BY DEF Edit
<1>2. \A j \in 1 .. Len(scr) : scr[j] \in Messages
  OBVIOUS
<1>3. \A x \in Messages : /\ [x EXCEPT !.text = text].kind = x.kind
                          /\ [x EXCEPT !.text = text].text = text
                          /\ [x EXCEPT !.text = text].open = x.open
  BY DEF Messages
<1>4. \A j \in 1 .. Len(scr) : /\ new[j].kind = scr[j].kind /\ new[j].open = scr[j].open
                               /\ new[j].text = IF j = m THEN text ELSE scr[j].text
  BY <1>1, <1>2, <1>3
<1>. QED
  BY <1>1, <1>4 DEF Kept, SameOpen

LEMMA OpenEffect ==
    ASSUME NEW scr \in Seq(Messages), NEW m, NEW open \in BOOLEAN,
           NEW new, new = [scr EXCEPT ![m].open = open]
    PROVE  Kept(scr, new) /\ OpenAt(scr, new, m, open)
<1>1. /\ Len(scr) \in Nat /\ Len(new) = Len(scr) /\ DOMAIN scr = 1 .. Len(scr)
      /\ \A j \in 1 .. Len(scr) : new[j] = IF j = m THEN [scr[j] EXCEPT !.open = open] ELSE scr[j]
  OBVIOUS
<1>2. \A j \in 1 .. Len(scr) : scr[j] \in Messages
  OBVIOUS
<1>3. \A x \in Messages : /\ [x EXCEPT !.open = open].kind = x.kind
                          /\ [x EXCEPT !.open = open].text = x.text
                          /\ [x EXCEPT !.open = open].open = open
  BY DEF Messages
<1>4. \A j \in 1 .. Len(scr) : new[j].kind = scr[j].kind /\ new[j].text = scr[j].text
  BY <1>1, <1>2, <1>3
<1>5. \A j \in 1 .. Len(scr) : new[j].open = IF j = m THEN open ELSE scr[j].open
  BY <1>1, <1>2, <1>3
<1>. QED
  BY <1>1, <1>4, <1>5 DEF Kept, OpenAt

(* Collapsing thought 0 is nothing to do.                                  *)
LEMMA CloseEffect ==
    ASSUME NEW scr \in Seq(Messages), NEW m \in Nat, NEW new, new = Close(scr, m)
    PROVE  Kept(scr, new) /\ OpenAt(scr, new, m, FALSE)
<1>1. CASE m = 0
  <2>1. Len(scr) \in Nat /\ \A j \in 1 .. Len(scr) : j # m
    BY <1>1
  <2>2. new = scr
    BY <1>1 DEF Close
  <2>3. Kept(scr, new)
    BY <2>1, <2>2 DEF Kept
  <2>4. OpenAt(scr, new, m, FALSE)
    BY <2>1, <2>2 DEF OpenAt
  <2>. QED
    BY <2>3, <2>4
<1>2. CASE m # 0
  BY <1>2, OpenEffect DEF Close
<1>. QED
  BY <1>1, <1>2

LEMMA KeptAgain ==
    ASSUME NEW a \in Seq(Messages), NEW b \in Seq(Messages), NEW c \in Seq(Messages),
           Kept(a, b), Kept(b, c)
    PROVE  Kept(a, c)
<1>1. Len(a) \in Nat /\ Len(b) \in Nat /\ Len(c) \in Nat
  OBVIOUS
<1>. QED
  BY <1>1 DEF Kept

LEMMA KeptSame == ASSUME TypeInv PROVE Kept(screen, screen) /\ SameOpen(screen, screen)
<1>1. Len(screen) \in Nat
  BY Fields
<1>. QED
  BY <1>1 DEF Kept, SameOpen

(* What was placed stays placed.                                           *)
LEMMA StaysPlaced ==
    ASSUME TypeInv, TypeInv', Kept(screen, screen')
    PROVE  /\ \A m : Response(m) => Response(m)'
           /\ \A m, e, f : ShownTools(m, e) /\ e \subseteq f => ShownTools(m, f)'
<1>1. Len(screen) \in Nat /\ Len(screen') \in Nat
  BY DEF TypeInv, ScreenType
<1>2. \A m : m \in 1 .. Len(screen) => m \in 1 .. Len(screen')
  BY <1>1 DEF Kept
<1>. QED
  BY <1>2 DEF Kept, Response, ShownTools

(* The turn new has the messages and tasks of the turn t.                  *)
SameSpots(t, new)  == new.obj = t.obj /\ new.msg = t.msg /\ new.toolMsg = t.toolMsg /\ new.ended = t.ended
SameTracks(t, new) == /\ new.obj = t.obj /\ new.mid = t.mid /\ new.timer = t.timer
                      /\ new.thMsg = t.thMsg /\ new.thDeb = t.thDeb
Spotless(t) == t.msg = 0 /\ t.toolMsg = 0
Blank(t) == /\ Spotless(t)
            /\ t.timer = 0 /\ t.thMsg = 0 /\ t.thDeb = 0

LEMMA SpotMoves ==
    ASSUME NEW t \in Turns, NEW n \in Nat, NEW c \in Texts, NEW h \in {"none", "open", "muted"}
    PROVE  /\ SameSpots(t, WithChunk(t, n)) /\ SameTracks(t, WithChunk(t, n))
           /\ SameSpots(t, Muted(t)) /\ SameTracks(t, Muted(t))
           /\ SameSpots(t, [t EXCEPT !.hasResp = TRUE, !.text = @ \cup {n}])
           /\ SameTracks(t, [t EXCEPT !.hasResp = TRUE, !.text = @ \cup {n}])
           /\ SameSpots(t, [t EXCEPT !.deb = n]) /\ SameTracks(t, [t EXCEPT !.deb = n])
           /\ SameSpots(t, [t EXCEPT !.claimed = TRUE]) /\ SameTracks(t, [t EXCEPT !.claimed = TRUE])
           /\ SameSpots(t, [t EXCEPT !.toolCalls = c, !.thought = h])
           /\ SameTracks(t, [t EXCEPT !.toolCalls = c, !.thought = h])
<1>1. SameSpots(t, WithChunk(t, n)) /\ SameTracks(t, WithChunk(t, n))
  <2>1. PICK w, x : w = (IF t.thought = "muted" THEN "open" ELSE t.thought) /\ x = t.text \cup {n}
    OBVIOUS
  <2>2. WithChunk(t, n) = [t EXCEPT !.hasResp = TRUE, !.text = x, !.thought = w]
    BY <2>1 DEF WithChunk, Turns
  <2>. QED
    BY <2>2 DEF SameSpots, SameTracks, Turns
<1>2. /\ SameSpots(t, Muted(t)) /\ SameTracks(t, Muted(t))
      /\ SameSpots(t, [t EXCEPT !.deb = n]) /\ SameTracks(t, [t EXCEPT !.deb = n])
  BY DEF SameSpots, SameTracks, Turns, Muted
<1>3. /\ SameSpots(t, [t EXCEPT !.hasResp = TRUE, !.text = @ \cup {n}])
      /\ SameTracks(t, [t EXCEPT !.hasResp = TRUE, !.text = @ \cup {n}])
  BY DEF SameSpots, SameTracks, Turns
<1>4. /\ SameSpots(t, [t EXCEPT !.claimed = TRUE]) /\ SameTracks(t, [t EXCEPT !.claimed = TRUE])
      /\ SameSpots(t, [t EXCEPT !.toolCalls = c, !.thought = h])
      /\ SameTracks(t, [t EXCEPT !.toolCalls = c, !.thought = h])
  BY DEF SameSpots, SameTracks, Turns
<1>. QED
  BY <1>1, <1>2, <1>3, <1>4

LEMMA TrackMoves ==
    ASSUME NEW t \in Turns, NEW n \in Nat, NEW c \in Texts, NEW h \in {"none", "open", "muted"}
    PROVE  /\ SameSpots(t, [t EXCEPT !.thought = h, !.thMsg = 0, !.thDeb = 0])
           /\ SameSpots(t, [t EXCEPT !.thDeb = n])
           /\ SameSpots(t, [t EXCEPT !.thMsg = n])
           /\ SameSpots(t, [t EXCEPT !.timer = n])
           /\ SameTracks(t, [t EXCEPT !.msg = n, !.deb = 0])
           /\ SameTracks(t, [t EXCEPT !.toolMsg = n])
           /\ SameTracks(t, [t EXCEPT !.ended = c])
<1>1. /\ SameSpots(t, [t EXCEPT !.thought = h, !.thMsg = 0, !.thDeb = 0])
      /\ SameSpots(t, [t EXCEPT !.thDeb = n])
      /\ SameSpots(t, [t EXCEPT !.thMsg = n])
      /\ SameSpots(t, [t EXCEPT !.timer = n])
  BY DEF SameSpots, Turns
<1>2. /\ SameTracks(t, [t EXCEPT !.msg = n, !.deb = 0])
      /\ SameTracks(t, [t EXCEPT !.toolMsg = n])
      /\ SameTracks(t, [t EXCEPT !.ended = c])
  BY DEF SameTracks, Turns
<1>. QED
  BY <1>1, <1>2

LEMMA BlankTurn == Blank(NoTurn) /\ NoTurn.obj = 0 /\ \A obj, mid : Blank(NewTurn(obj, mid))
  BY DEF Blank, Spotless, NoTurn, NewTurn

(* The turn of the chat or, if there was none, a blank one.                *)
LEMMA OpenedTracks ==
    ASSUME TypeInv, NEW mid \in Nat, NEW o, o = Opened(turn, mid)
    PROVE  /\ o \in Turns /\ o.obj # 0
           /\ SameSpots(turn, o) \/ (Blank(o) /\ turn.obj = 0)
           /\ turn.obj # 0 => /\ SameSpots(turn, o) /\ o.timer = turn.timer /\ o.thMsg = turn.thMsg
                              /\ o.thDeb = turn.thDeb /\ o.mid = IF mid # 0 THEN mid ELSE turn.mid
           /\ turn.obj = 0 => Blank(o) /\ o.mid = mid
<1>1. o \in Turns /\ o.obj # 0
  <2>1. turn.obj \in Nat /\ objs \in Nat
    BY Fields
  <2>. QED
    BY <2>1, OpenedValues DEF TypeInv
<1>2. CASE turn.obj = 0
  BY <1>1, <1>2, BlankTurn DEF Opened, NewTurn
<1>3. CASE turn.obj # 0
  <2>1. turn \in Turns
    BY Fields
  <2>2. o = IF mid # 0 THEN [turn EXCEPT !.mid = mid] ELSE turn
    BY <1>3 DEF Opened
  <2>3. /\ SameSpots(turn, [turn EXCEPT !.mid = mid]) /\ [turn EXCEPT !.mid = mid].mid = mid
        /\ [turn EXCEPT !.mid = mid].timer = turn.timer /\ [turn EXCEPT !.mid = mid].thMsg = turn.thMsg
        /\ [turn EXCEPT !.mid = mid].thDeb = turn.thDeb
    BY <2>1 DEF SameSpots, Turns
  <2>4. SameSpots(turn, turn)
    BY DEF SameSpots
  <2>. QED
    BY <1>1, <1>3, <2>2, <2>3, <2>4
<1>. QED
  BY <1>1, <1>2, <1>3

(* The tasks new are of ts, or without a message, or edit the thought.     *)
TasksMove(ts, new, m) ==
    \A j \in 1 .. Len(new) :
        \/ new[j].msg = 0 \/ new[j].msg = m \/ new[j].kind = "thought"
        \/ j \in 1 .. Len(ts) /\ new[j].kind = ts[j].kind /\ new[j].msg = ts[j].msg

LEMMA TasksPlacedMove ==
    ASSUME TypeInv, TypeInv', PlacesInv, Kept(screen, screen'), TasksMove(tasks, tasks', turn.msg)
    PROVE  TasksPlaced'
<1>1. \A m : Response(m) => Response(m)'
  BY StaysPlaced
<1>2. \A j \in 1 .. Len(tasks') : tasks'[j].kind # "thought" => Response(tasks'[j].msg)
  BY DEF TasksMove, PlacesInv, TasksPlaced, TurnPlaced, Response
<1>. QED
  BY <1>1, <1>2 DEF TasksPlaced

LEMMA TurnPlacedMove ==
    ASSUME TypeInv, TypeInv', PlacesInv, Kept(screen, screen'), SameSpots(turn, turn') \/ Spotless(turn')
    PROVE  TurnPlaced'
<1>1. /\ \A m : Response(m) => Response(m)'
      /\ \A m, e, f : ShownTools(m, e) /\ e \subseteq f => ShownTools(m, f)'
  BY StaysPlaced
<1>2. CASE SameSpots(turn, turn')
  BY <1>1, <1>2 DEF PlacesInv, TurnPlaced, SameSpots
<1>3. CASE Spotless(turn')
  BY <1>3 DEF TurnPlaced, Spotless, Response
<1>. QED
  BY <1>2, <1>3

(* The handler waits for what others do to turn and screen.                *)
LEMMA HandlerPlacedWaits ==
    ASSUME TypeInv, TypeInv', PlacesInv, Kept(screen, screen'), handler' = handler,
           SameSpots(turn, turn') \/ turn'.obj = 0
    PROVE  HandlerPlaced'
<1>1. /\ \A m : Response(m) => Response(m)'
      /\ \A m, e, f : ShownTools(m, e) /\ e \subseteq f => ShownTools(m, f)'
  BY StaysPlaced
<1>2. turn'.obj # 0 => turn.obj # 0 /\ turn'.ended = turn.ended
  BY DEF SameSpots
<1>. QED
  BY <1>1, <1>2 DEF PlacesInv, HandlerPlaced

LEMMA TasksMoves ==
    ASSUME TypeInv, NEW m
    PROVE  /\ TasksMove(tasks, tasks, m)
           /\ \A S : TasksMove(tasks, Abort(tasks, S), m)
           /\ \A kind \in {"thought", "debounce", "timer"} :
                 TasksMove(tasks, Append(tasks, Started(kind)), m)
           /\ \A S : \A kind \in {"thought", "debounce", "timer"} :
                 TasksMove(tasks, Append(Abort(tasks, S), Started(kind)), m)
           /\ \A i \in 1 .. Len(tasks) : \A new : 
                 (new.msg \in {0, m, tasks[i].msg} /\ new.kind = tasks[i].kind) \/ new = Dead =>
                     TasksMove(tasks, [tasks EXCEPT ![i] = new], m)
<1>1. tasks \in Seq(Tasks) /\ Len(tasks) \in Nat /\ Dead.msg = 0
  BY Fields DEF Dead
<1>2. TasksMove(tasks, tasks, m)
  BY DEF TasksMove
<1>3. ASSUME NEW S
      PROVE  Abort(tasks, S) \in Seq(Tasks) /\ TasksMove(tasks, Abort(tasks, S), m)
  BY <1>1, AbortValues DEF TasksMove
<1>4. ASSUME NEW us \in Seq(Tasks), TasksMove(tasks, us, m), NEW kind \in {"thought", "debounce", "timer"}
      PROVE  TasksMove(tasks, Append(us, Started(kind)), m)
  <2>1. PICK s : s = Started(kind)
    OBVIOUS
  <2>2. s \in Tasks /\ s.msg = 0
    BY <2>1, TaskValues DEF Started, Dead
  <2>3. PICK new : new = Append(us, s)
    OBVIOUS
  <2>4. /\ Len(new) = Len(us) + 1 /\ Len(us) \in Nat
        /\ new[Len(us) + 1] = s /\ \A i \in 1 .. Len(us) : new[i] = us[i]
    BY <2>2, <2>3
  <2>5. \A i \in 1 .. Len(new) : i \in 1 .. Len(us) \/ i = Len(us) + 1
    BY <2>4
  <2>6. TasksMove(tasks, new, m)
    BY <1>4, <2>2, <2>4, <2>5 DEF TasksMove
  <2>. QED
    BY <2>1, <2>3, <2>6
<1>5. ASSUME NEW i \in 1 .. Len(tasks), NEW new,
             (new.msg \in {0, m, tasks[i].msg} /\ new.kind = tasks[i].kind) \/ new = Dead
      PROVE  TasksMove(tasks, [tasks EXCEPT ![i] = new], m)
  <2>1. /\ Len([tasks EXCEPT ![i] = new]) = Len(tasks)
        /\ \A j \in 1 .. Len(tasks) : [tasks EXCEPT ![i] = new][j] = IF j = i THEN new ELSE tasks[j]
    BY <1>1
  <2>. QED
    BY <1>1, <1>5, <2>1 DEF TasksMove
<1>. QED
  BY <1>1, <1>2, <1>3, <1>4, <1>5

(* The steps that post to or edit the screen.                              *)
LEMMA DeliverPlaces ==
    ASSUME TypeInv, TypeInv', PlacesInv, NEW kind \in Kinds, NEW m, Deliver(kind, m)
    PROVE  PlacesInv'
<1>1. UNCHANGED <<turn, objs, tasks, screen>> /\ handler'.at = kind
  <2>1. handler' = [Idle EXCEPT !.at = kind, !.upd = Len(updates) + 1]
    BY DEF Deliver
  <2>. QED
    BY <2>1 DEF Deliver, Idle
<1>2. HandlerPlaced'
  BY <1>1 DEF HandlerPlaced, Kinds
<1>. QED
  BY <1>1, <1>2 DEF PlacesInv, TurnPlaced, TasksPlaced, Response, ShownTools

LEMMA FlushPlaces ==
    ASSUME TypeInv, TypeInv', PlacesInv, NEW next \in {"flush thought", "flush chunk"}, Flush(next)
    PROVE  PlacesInv'
<1>1. Kept(screen, screen') /\ screen' = screen
  BY KeptSame DEF Flush
<1>2. handler'.at = next /\ handler'.msg = turn.msg
  BY Fields DEF Flush, Handlers
<1>3. Spotless(turn')
  BY BlankTurn DEF Flush, Blank
<1>4. TasksMove(tasks, tasks', turn.msg)
  BY TasksMoves DEF Flush
<1>5. HandlerPlaced'
  BY <1>1, <1>2 DEF HandlerPlaced, PlacesInv, TurnPlaced, Response
<1>. QED
  BY <1>1, <1>3, <1>4, <1>5, TurnPlacedMove, TasksPlacedMove DEF PlacesInv

(* What send_flush does: post or edit, then collapse the thought.          *)
LEMMA SendFlushEffect ==
    ASSUME TypeInv, PlacesInv, handler.at \in {"flush thought", "flush chunk"}, NEW then, SendFlush(then)
    PROVE  \E scr \in Seq(Messages) :
              /\ Kept(screen, scr) /\ SameOpen(screen, scr)
              /\ screen' = scr \/ (Kept(scr, screen') /\ OpenAt(scr, screen', handler.thMsg, FALSE))
<1>1. PICK shown : shown = IF handler.text = {} THEN screen
                           ELSE IF handler.msg # 0 THEN Edit(screen, handler.msg, handler.text)
                           ELSE PostBy(screen, 0, handler.text)
  OBVIOUS
<1>2. PICK scr \in RetryTelegramOp(screen, shown) :
           screen' \in RetryTelegramOp(scr, Close(scr, handler.thMsg))
  BY <1>1 DEF SendFlush
<1>3. Kept(screen, screen) /\ SameOpen(screen, screen)
  BY KeptSame
<1>4. PICK e : e = Edit(screen, handler.msg, handler.text)
  OBVIOUS
<1>5. ASSUME handler.msg # 0 PROVE Kept(screen, e) /\ SameOpen(screen, e)
  <2>1. screen[handler.msg].kind = "response"
    BY <1>5 DEF PlacesInv, HandlerPlaced, Response
  <2>. QED
    BY <1>4, <2>1, Fields, EditEffect
<1>6. PICK p : p = PostBy(screen, 0, handler.text)
  OBVIOUS
<1>7. Kept(screen, p) /\ SameOpen(screen, p)
  BY <1>6, Fields, PostByEffect
<1>8. Kept(screen, shown) /\ SameOpen(screen, shown)
  <2>1. \/ shown = screen \/ shown = p
        \/ handler.msg # 0 /\ shown = e
    BY <1>1, <1>4, <1>6
  <2>. QED
    BY <1>3, <1>5, <1>7, <2>1
<1>9. shown \in Seq(Messages)
  BY <1>1, Fields, ScreenMoves
<1>10. scr \in Seq(Messages) /\ Kept(screen, scr) /\ SameOpen(screen, scr)
  <2>1. scr = screen \/ scr = shown
    BY <1>2, Retried
  <2>. QED
    BY <1>3, <1>8, <1>9, <2>1, Fields
<1>11. screen' \in {scr, Close(scr, handler.thMsg)}
  BY <1>2, Retried
<1>12. PICK c : c = Close(scr, handler.thMsg)
  OBVIOUS
<1>13. Kept(scr, c) /\ OpenAt(scr, c, handler.thMsg, FALSE)
  BY <1>10, <1>12, Fields, CloseEffect
<1>. QED
  BY <1>10, <1>11, <1>12, <1>13

LEMMA SendFlushPlaces ==
    ASSUME TypeInv, TypeInv', PlacesInv, handler.at \in {"flush thought", "flush chunk"},
           NEW then \in {"thought", "chunk"}, SendFlush(then)
    PROVE  PlacesInv' /\ Kept(screen, screen')
<1>1. PICK scr \in Seq(Messages) :
              /\ Kept(screen, scr) /\ SameOpen(screen, scr)
              /\ screen' = scr \/ (Kept(scr, screen') /\ OpenAt(scr, screen', handler.thMsg, FALSE))
  BY SendFlushEffect
<1>2. screen \in Seq(Messages) /\ screen' \in Seq(Messages)
  BY DEF TypeInv, ScreenType
<1>3. Kept(screen, screen')
  BY <1>1, <1>2, KeptAgain
<1>4. handler'.at = then /\ UNCHANGED <<turn, objs, tasks>>
  BY DEF SendFlush, Idle
<1>5. HandlerPlaced'
  BY <1>4 DEF HandlerPlaced
<1>6. SameSpots(turn, turn') /\ TasksMove(tasks, tasks', turn.msg)
  BY <1>4, TasksMoves DEF SameSpots
<1>. QED
  BY <1>3, <1>5, <1>6, TurnPlacedMove, TasksPlacedMove DEF PlacesInv

(* A step of the handler that leaves the screen and ends or calls the API. *)
LEMMA HandledPlaces ==
    ASSUME TypeInv, TypeInv', PlacesInv, Kept(screen, screen'),
           SameSpots(turn, turn') \/ Spotless(turn'), TasksMove(tasks, tasks', turn.msg),
           handler' = Idle \/ handler'.at \in {"send thought", "collapse"}
    PROVE  PlacesInv'
<1>1. HandlerPlaced'
  <2>0. Idle.at = "idle"
    BY DEF Idle
  <2>1. handler'.at \in {"idle", "send thought", "collapse"}
    BY <2>0
  <2>. QED
    BY <2>1 DEF HandlerPlaced
<1>. QED
  BY <1>1, TurnPlacedMove, TasksPlacedMove DEF PlacesInv

LEMMA ThoughtAppendsMoves ==
    ASSUME TypeInv, ThoughtAppends, NEW t, t = Opened(turn, CurMid)
    PROVE  /\ UNCHANGED <<updates, screen>>
           /\ t \in Turns /\ t.obj # 0 /\ NewTask \in Nat
           /\ SameSpots(t, turn')
           /\ turn'.obj = t.obj /\ turn'.mid = t.mid /\ turn'.timer = t.timer
           /\ \/ /\ turn'.thMsg = 0 /\ turn'.thDeb = 0 /\ handler'.at = "send thought"
                 /\ handler'.upd = handler.upd
                 /\ tasks' = Abort(tasks, {t.thDeb})
              \/ /\ turn'.thMsg = t.thMsg /\ turn'.thDeb = NewTask /\ handler' = Idle
                 /\ tasks' = Append(Abort(tasks, {t.thDeb}), Started("thought"))
<1>0. handler.at # "idle"
  BY DEF ThoughtAppends
<1>1. CurMid \in Nat /\ NewTask \in Nat /\ {} \in Texts
  BY <1>0, Fields, CurValues DEF NewTask, Texts
<1>2. t \in Turns /\ t.obj # 0
  BY <1>1, OpenedTracks
<1>3. \/ /\ turn' = [t EXCEPT !.thought = "open", !.thMsg = 0, !.thDeb = 0]
         /\ handler' = [handler EXCEPT !.at = "send thought"]
         /\ tasks' = Abort(tasks, {t.thDeb})
      \/ /\ turn' = [t EXCEPT !.thDeb = NewTask]
         /\ handler' = Idle
         /\ tasks' = Append(Abort(tasks, {t.thDeb}), Started("thought"))
  BY DEF ThoughtAppends
<1>4. CASE /\ turn' = [t EXCEPT !.thought = "open", !.thMsg = 0, !.thDeb = 0]
           /\ handler' = [handler EXCEPT !.at = "send thought"]
           /\ tasks' = Abort(tasks, {t.thDeb})
  <2>1. SameSpots(t, turn')
    BY <1>1, <1>2, <1>4, TrackMoves
  <2>2. /\ turn'.thMsg = 0 /\ turn'.thDeb = 0
        /\ turn'.obj = t.obj /\ turn'.mid = t.mid /\ turn'.timer = t.timer
    BY <1>2, <1>4 DEF Turns
  <2>3. handler'.at = "send thought" /\ handler'.upd = handler.upd
    BY <1>4, Fields DEF Handlers
  <2>. QED
    BY <1>1, <1>2, <1>4, <2>1, <2>2, <2>3 DEF ThoughtAppends
<1>5. CASE /\ turn' = [t EXCEPT !.thDeb = NewTask]
           /\ handler' = Idle
           /\ tasks' = Append(Abort(tasks, {t.thDeb}), Started("thought"))
  <2>1. SameSpots(t, turn')
    BY <1>1, <1>2, <1>5, TrackMoves
  <2>2. /\ turn'.thMsg = t.thMsg /\ turn'.thDeb = NewTask
        /\ turn'.obj = t.obj /\ turn'.mid = t.mid /\ turn'.timer = t.timer
    BY <1>2, <1>5 DEF Turns
  <2>. QED
    BY <1>1, <1>2, <1>5, <2>1, <2>2 DEF ThoughtAppends
<1>. QED
  BY <1>3, <1>4, <1>5

(* A blank turn was opened or the turn goes on, with its messages.         *)
LEMMA SpotsThrough ==
    ASSUME TypeInv, TypeInv', NEW mid \in Nat, NEW o, o = Opened(turn, mid),
           SameSpots(o, turn')
    PROVE  SameSpots(turn, turn') \/ Spotless(turn')
  BY OpenedTracks DEF SameSpots, Spotless, Blank

-----------------------------------------------------------------------------
(* What the steps do to the turn, the handler and the tasks.               *)

LEMMA FinalizingMoves ==
    ASSUME TypeInv, NEW t \in Turns, BeginFinalizing(t, tasks)
    PROVE  /\ NewTask = Len(tasks) + 1 /\ NewTask \in Nat \ {0} /\ SameSpots(t, turn')
           /\ turn'.mid = t.mid /\ turn'.thMsg = t.thMsg /\ turn'.thDeb = t.thDeb
           /\ t.obj # 0 => turn'.timer = NewTask
           /\ t.obj = 0 => turn' = t
           /\ tasks' = Append(Abort(tasks, {t.timer}), Started("timer"))
<1>1. NewTask = Len(tasks) + 1 /\ NewTask \in Nat \ {0} /\ {} \in Texts
  BY Fields DEF NewTask, Texts
<1>2. turn' = IF t.obj # 0 THEN [t EXCEPT !.timer = NewTask] ELSE t
  BY DEF BeginFinalizing
<1>3. SameSpots(t, [t EXCEPT !.timer = NewTask]) /\ SameSpots(t, t)
  BY <1>1, TrackMoves DEF SameSpots
<1>4. /\ [t EXCEPT !.timer = NewTask].mid = t.mid /\ [t EXCEPT !.timer = NewTask].thMsg = t.thMsg
      /\ [t EXCEPT !.timer = NewTask].thDeb = t.thDeb /\ [t EXCEPT !.timer = NewTask].timer = NewTask
  BY DEF Turns
<1>. QED
  BY <1>1, <1>2, <1>3, <1>4 DEF BeginFinalizing

LEMMA ChunkAppendsMoves ==
    ASSUME TypeInv, ChunkAppends, NEW o, o = Opened(turn, CurMid)
    PROVE  \E t \in Turns :
              /\ UNCHANGED <<updates, screen>>
              /\ SameSpots(o, t) /\ SameTracks(o, t) /\ o \in Turns /\ o.obj # 0
              /\ \/ /\ turn' = t /\ tasks' = tasks
                    /\ \/ handler' = Idle
                       \/ /\ handler'.at = "late" /\ handler'.msg = t.msg /\ t.timer # 0
                       \/ /\ handler'.at = "edit" /\ handler'.msg = t.msg /\ t.timer = 0
                          /\ handler'.upd = handler.upd
                 \/ t.timer # 0 /\ BeginFinalizing(t, tasks) /\ handler' = Idle
                 \/ /\ SameSpots(t, turn') /\ SameTracks(t, turn') /\ handler' = Idle
                    /\ tasks' = Append(tasks, Started("debounce"))
<1>1. handler.at # "idle"
  BY DEF ChunkAppends
<1>2. CurMid \in Nat /\ NewTask \in Nat /\ {} \in Texts /\ handler.upd \in Nat
  BY <1>1, Fields, CurValues DEF NewTask, Texts
<1>3. o \in Turns /\ o.obj # 0
  BY <1>2, OpenedTracks
<1>4. PICK t : t = WithChunk(o, handler.upd)
  OBVIOUS
<1>5. t \in Turns /\ SameSpots(o, t) /\ SameTracks(o, t)
  BY <1>2, <1>3, <1>4, TurnMoves, SpotMoves DEF Follows
<1>6. \/ t.timer # 0 /\ BeginFinalizing(t, tasks) /\ handler' = Idle
      \/ turn' = t /\ tasks' = tasks
         /\ \/ handler' = Idle
            \/ t.timer # 0 /\ handler' = [handler EXCEPT !.at = "late", !.text = t.text, !.msg = t.msg]
            \/ t.timer = 0 /\ handler' = [handler EXCEPT !.at = "edit", !.text = t.text, !.msg = t.msg]
      \/ turn' = [t EXCEPT !.deb = NewTask] /\ tasks' = Append(tasks, Started("debounce"))
         /\ handler' = Idle
  BY <1>4 DEF ChunkAppends
<1>7. SameSpots(t, [t EXCEPT !.deb = NewTask]) /\ SameTracks(t, [t EXCEPT !.deb = NewTask])
  BY <1>2, <1>5, SpotMoves
<1>8. \A p : /\ [handler EXCEPT !.at = p, !.text = t.text, !.msg = t.msg].at = p
             /\ [handler EXCEPT !.at = p, !.text = t.text, !.msg = t.msg].msg = t.msg
             /\ [handler EXCEPT !.at = p, !.text = t.text, !.msg = t.msg].upd = handler.upd
  BY Fields DEF Handlers
<1>9. UNCHANGED <<updates, screen>>
  BY DEF ChunkAppends
<1>10. \/ t.timer # 0 /\ BeginFinalizing(t, tasks) /\ handler' = Idle
       \/ turn' = t /\ tasks' = tasks
          /\ \/ handler' = Idle
             \/ t.timer # 0 /\ handler'.at = "late" /\ handler'.msg = t.msg
             \/ /\ t.timer = 0 /\ handler'.at = "edit" /\ handler'.msg = t.msg
                /\ handler'.upd = handler.upd
       \/ /\ SameSpots(t, turn') /\ SameTracks(t, turn') /\ handler' = Idle
          /\ tasks' = Append(tasks, Started("debounce"))
  BY <1>6, <1>7, <1>8
<1>. QED
  BY <1>3, <1>5, <1>9, <1>10

LEMMA ResultFinalizesMoves ==
    ASSUME TypeInv, ResultFinalizes, NEW o, o = Opened(turn, CurMid)
    PROVE  /\ o \in Turns /\ o.obj # 0 /\ updates' = updates
           /\ Kept(screen, screen')
           /\ screen' = screen \/ OpenAt(screen, screen', handler.thMsg, FALSE)
           /\ handler' = Idle /\ SameSpots(o, turn') /\ turn'.obj # 0
           /\ turn'.mid = o.mid /\ turn'.thMsg = o.thMsg /\ turn'.thDeb = o.thDeb
           /\ NewTask = Len(tasks) + 1 /\ NewTask \in Nat \ {0} /\ turn'.timer = NewTask
           /\ tasks' = Append(Abort(tasks, {o.timer}), Started("timer"))
<1>1. handler.at # "idle"
  BY DEF ResultFinalizes
<1>2. CurMid \in Nat /\ handler.upd \in Nat /\ {} \in Texts
  BY <1>1, CurValues DEF Texts
<1>3. o \in Turns /\ o.obj # 0
  BY <1>2, OpenedTracks
<1>4. PICK e : e = IF Cur[1] = "error" THEN [o EXCEPT !.hasResp = TRUE, !.text = @ \cup {handler.upd}]
                   ELSE o
  OBVIOUS
<1>5. e \in Turns /\ SameSpots(o, e) /\ SameTracks(o, e)
  <2>1. /\ SameSpots(o, [o EXCEPT !.hasResp = TRUE, !.text = @ \cup {handler.upd}])
        /\ SameTracks(o, [o EXCEPT !.hasResp = TRUE, !.text = @ \cup {handler.upd}])
        /\ [o EXCEPT !.hasResp = TRUE, !.text = @ \cup {handler.upd}] \in Turns
    BY <1>2, <1>3, SpotMoves, TurnMoves DEF Follows
  <2>2. SameSpots(o, o) /\ SameTracks(o, o)
    BY DEF SameSpots, SameTracks
  <2>. QED
    BY <1>3, <1>4, <2>1, <2>2
<1>6. PICK m : m = Muted(e)
  OBVIOUS
<1>7. m \in Turns /\ SameSpots(e, m) /\ SameTracks(e, m)
  BY <1>2, <1>5, <1>6, SpotMoves, TurnMoves DEF Follows
<1>8. BeginFinalizing(m, tasks)
  BY <1>4, <1>6 DEF ResultFinalizes
<1>9. SameSpots(o, m) /\ SameTracks(o, m)
  BY <1>5, <1>7 DEF SameSpots, SameTracks
<1>10. m.obj # 0 /\ m.timer = o.timer /\ m.mid = o.mid /\ m.thMsg = o.thMsg /\ m.thDeb = o.thDeb
  BY <1>3, <1>9 DEF SameTracks
<1>11. /\ NewTask = Len(tasks) + 1 /\ NewTask \in Nat \ {0} /\ turn'.timer = NewTask
       /\ SameSpots(m, turn')
       /\ turn'.mid = o.mid /\ turn'.thMsg = o.thMsg /\ turn'.thDeb = o.thDeb
       /\ tasks' = Append(Abort(tasks, {o.timer}), Started("timer"))
  BY <1>7, <1>8, <1>10, FinalizingMoves
<1>12. SameSpots(o, turn') /\ turn'.obj # 0
  BY <1>3, <1>9, <1>11 DEF SameSpots
<1>13. PICK c : c = Close(screen, handler.thMsg)
  OBVIOUS
<1>14. screen' = screen \/ screen' = c
  BY <1>13, Retried DEF ResultFinalizes
<1>15. Kept(screen, c) /\ OpenAt(screen, c, handler.thMsg, FALSE) /\ Kept(screen, screen)
  BY <1>13, Fields, CloseEffect, KeptSame
<1>16. Kept(screen, screen') /\ (screen' = screen \/ OpenAt(screen, screen', handler.thMsg, FALSE))
  BY <1>14, <1>15
<1>. QED
  BY <1>3, <1>11, <1>12, <1>16 DEF ResultFinalizes

LEMMA CollapseMoves ==
    ASSUME TypeInv, ResultCollapses
    PROVE  /\ UNCHANGED <<updates, screen>> /\ SameSpots(turn, turn')
           /\ turn'.mid = turn.mid /\ turn'.timer = turn.timer /\ turn'.thMsg = 0
           /\ handler'.at = "collapse" /\ handler'.upd = handler.upd
           /\ tasks' = Abort(tasks, {turn.thDeb})
<1>1. turn' = [turn EXCEPT !.thought = "none", !.thMsg = 0, !.thDeb = 0]
  BY DEF ResultCollapses, CollapseThought
<1>2. turn \in Turns /\ {} \in Texts /\ 0 \in Nat
  BY Fields DEF Texts
<1>3. SameSpots(turn, turn')
  BY <1>1, <1>2, TrackMoves
<1>4. turn'.mid = turn.mid /\ turn'.timer = turn.timer /\ turn'.thMsg = 0
  BY <1>1, <1>2 DEF Turns
<1>5. handler'.at = "collapse" /\ handler'.upd = handler.upd
  <2>1. PICK k : k = IF turn.thought = "none" THEN 0 ELSE turn.thMsg
    OBVIOUS
  <2>2. handler' = [handler EXCEPT !.at = "collapse", !.thMsg = k]
    BY <2>1 DEF ResultCollapses
  <2>. QED
    BY <2>2, Fields DEF Handlers
<1>. QED
  BY <1>3, <1>4, <1>5 DEF ResultCollapses, CollapseThought

(* The first thought is posted, and the turn, if it waits for it, told.    *)
LEMMA ThoughtSentMoves ==
    ASSUME TypeInv, ThoughtSent
    PROVE  /\ UNCHANGED <<updates, tasks>> /\ handler' = Idle
           /\ Kept(screen, screen') /\ SameOpen(screen, screen')
           /\ SameSpots(turn, turn')
           /\ \/ turn' = turn
              \/ /\ turn.obj # 0 /\ turn'.mid = turn.mid /\ turn'.timer = turn.timer
                 /\ turn'.thDeb = turn.thDeb
                 /\ turn'.thMsg = Len(screen') /\ Len(screen') = Len(screen) + 1
                 /\ screen'[Len(screen')].open
<1>1. PICK p : p = Post("thought", {})
  OBVIOUS
<1>2. /\ Kept(screen, p) /\ SameOpen(screen, p) /\ Len(p) = Len(screen) + 1 /\ p[Len(p)].open
      /\ Kept(screen, screen) /\ SameOpen(screen, screen)
  BY <1>1, PostKindEffect, KeptSame
<1>3. screen' = screen \/ screen' = p
  BY <1>1, Retried DEF ThoughtSent
<1>4. Kept(screen, screen') /\ SameOpen(screen, screen')
  BY <1>2, <1>3
<1>5. Len(screen) \in Nat /\ {} \in Texts
  BY Fields DEF Texts
<1>6. CASE turn' = turn
  BY <1>4, <1>6 DEF ThoughtSent, SameSpots
<1>7. CASE turn' # turn
  <2>1. screen' = p /\ turn.obj # 0 /\ turn' = [turn EXCEPT !.thMsg = Len(screen')]
    BY <1>3, <1>7 DEF ThoughtSent, HasTurn
  <2>2. Len(screen') \in Nat /\ Len(screen') = Len(screen) + 1 /\ screen'[Len(screen')].open
    BY <1>2, <1>5, <2>1
  <2>3. SameSpots(turn, turn')
    BY <1>5, <2>1, <2>2, Fields, TrackMoves
  <2>4. /\ turn'.mid = turn.mid /\ turn'.timer = turn.timer /\ turn'.thDeb = turn.thDeb
        /\ turn'.thMsg = Len(screen')
    BY <2>1, Fields DEF Turns
  <2>. QED
    BY <1>4, <2>1, <2>2, <2>3, <2>4 DEF ThoughtSent
<1>. QED
  BY <1>6, <1>7

LEMMA ResponseEdited ==
    ASSUME TypeInv, NEW m \in Nat, Response(m), NEW text \in Texts, NEW new, new = Edit(screen, m, text)
    PROVE  Kept(screen, new) /\ SameOpen(screen, new)
<1>1. m \in 1 .. Len(screen) => screen[m].kind = "response"
  BY DEF Response
<1>. QED
  BY <1>1, EditEffect, Fields

LEMMA ChunkEditedEffect ==
    ASSUME TypeInv, PlacesInv, handler.at \in {"edit", "late"},
           screen' \in RetryTelegramOp(screen, Edit(screen, handler.msg, handler.text))
    PROVE  Kept(screen, screen') /\ SameOpen(screen, screen')
<1>1. PICK e : e = Edit(screen, handler.msg, handler.text)
  OBVIOUS
<1>2. Kept(screen, e) /\ SameOpen(screen, e) /\ Kept(screen, screen) /\ SameOpen(screen, screen)
  BY <1>1, Fields, ResponseEdited, KeptSame DEF PlacesInv, HandlerPlaced
<1>3. screen' = screen \/ screen' = e
  BY <1>1, Retried
<1>. QED
  BY <1>2, <1>3

LEMMA ChunkPlaces ==
    ASSUME TypeInv, TypeInv', PlacesInv, ChunkAppends
    PROVE  PlacesInv' /\ screen' = screen
<1>1. PICK o : o = Opened(turn, CurMid)
  OBVIOUS
<1>2. PICK t \in Turns :
              /\ UNCHANGED <<updates, screen>>
              /\ SameSpots(o, t) /\ SameTracks(o, t) /\ o \in Turns /\ o.obj # 0
              /\ \/ /\ turn' = t /\ tasks' = tasks
                    /\ \/ handler' = Idle
                       \/ /\ handler'.at = "late" /\ handler'.msg = t.msg /\ t.timer # 0
                       \/ /\ handler'.at = "edit" /\ handler'.msg = t.msg /\ t.timer = 0
                          /\ handler'.upd = handler.upd
                 \/ t.timer # 0 /\ BeginFinalizing(t, tasks) /\ handler' = Idle
                 \/ /\ SameSpots(t, turn') /\ SameTracks(t, turn') /\ handler' = Idle
                    /\ tasks' = Append(tasks, Started("debounce"))
  BY <1>1, ChunkAppendsMoves
<1>3. handler.at # "idle"
  BY DEF ChunkAppends
<1>4. CurMid \in Nat
  BY <1>3, CurValues
<1>5. Kept(screen, screen')
  BY <1>2, KeptSame
<1>6. SameSpots(o, turn') /\ TasksMove(tasks, tasks', turn.msg)
  <2>1. CASE turn' = t /\ tasks' = tasks
    BY <1>2, <2>1, TasksMoves
  <2>2. CASE BeginFinalizing(t, tasks)
    <3>1. SameSpots(t, turn') /\ tasks' = Append(Abort(tasks, {t.timer}), Started("timer"))
      BY <1>2, <2>2, FinalizingMoves
    <3>2. SameSpots(o, turn')
      BY <1>2, <3>1 DEF SameSpots
    <3>. QED
      BY <3>1, <3>2, TasksMoves
  <2>3. CASE SameSpots(t, turn') /\ tasks' = Append(tasks, Started("debounce"))
    <3>1. SameSpots(o, turn')
      BY <1>2, <2>3 DEF SameSpots
    <3>. QED
      BY <2>3, <3>1, TasksMoves
  <2>. QED
    BY <1>2, <2>1, <2>2, <2>3
<1>7. SameSpots(turn, turn') \/ Spotless(turn')
  BY <1>1, <1>4, <1>6, SpotsThrough
<1>8. TurnPlaced' /\ TasksPlaced'
  BY <1>5, <1>6, <1>7, TurnPlacedMove, TasksPlacedMove
<1>9. CASE handler' = Idle
  BY <1>2, <1>5, <1>6, <1>7, <1>9, HandledPlaces
<1>10. CASE handler'.at \in {"late", "edit"} /\ handler'.msg = t.msg
  <2>1. Response(t.msg)
    <3>1. t.msg = turn.msg \/ t.msg = 0
      BY <1>1, <1>2, <1>4, OpenedTracks DEF SameSpots, Blank, Spotless
    <3>. QED
      BY <3>1 DEF PlacesInv, TurnPlaced, Response
  <2>2. HandlerPlaced'
    BY <1>2, <1>10, <2>1 DEF HandlerPlaced, Response
  <2>. QED
    BY <1>2, <1>8, <2>2 DEF PlacesInv
<1>. QED
  BY <1>2, <1>9, <1>10

LEMMA ToolCallPlaces ==
    ASSUME TypeInv, TypeInv', PlacesInv, ToolCall
    PROVE  PlacesInv' /\ UNCHANGED <<updates, tasks, screen>> /\ turn.obj # 0 /\ turn.timer = 0
           /\ turn'.obj = turn.obj /\ turn'.timer = turn.timer /\ turn'.thMsg = turn.thMsg
           /\ turn'.thDeb = turn.thDeb /\ handler'.at = "tools" /\ handler'.upd = handler.upd
<1>1. /\ handler.at # "idle" /\ turn.obj # 0 /\ turn.timer = 0
      /\ UNCHANGED <<updates, objs, tasks, screen>>
  BY DEF ToolCall, HasTurn, Finalizing
<1>2. CurMid \in Nat /\ Tool \in Nat /\ {} \in Texts
  BY <1>1, CurValues DEF Tool, Texts
<1>3. PICK o : o = Opened(turn, CurMid)
  OBVIOUS
<1>4. o \in Turns /\ SameSpots(turn, o) /\ o.timer = turn.timer /\ o.thMsg = turn.thMsg /\ o.thDeb = turn.thDeb
  BY <1>1, <1>2, <1>3, OpenedTracks
<1>5. PICK c, h : c = o.toolCalls \cup {Tool} /\ h = IF o.thought = "muted" THEN "open" ELSE o.thought
  OBVIOUS
<1>6. c \in Texts /\ h \in {"none", "open", "muted"}
  <2>1. o.toolCalls \in Texts /\ o.thought \in {"none", "open", "muted"}
    BY <1>4 DEF Turns
  <2>. QED
    BY <1>2, <1>5, <2>1 DEF Texts
<1>7. turn' = [o EXCEPT !.toolCalls = c, !.thought = h]
  BY <1>3, <1>4, <1>5 DEF ToolCall, Turns
<1>8. SameSpots(o, turn') /\ SameTracks(o, turn')
  BY <1>2, <1>4, <1>6, <1>7, SpotMoves
<1>9. SameSpots(turn, turn')
  BY <1>4, <1>8 DEF SameSpots
<1>10. handler'.at = "tools" /\ handler'.msg = turn.toolMsg /\ handler'.text = turn.ended
       /\ handler'.upd = handler.upd
  BY Fields DEF ToolCall, RenderToolsText, Handlers
<1>11. HandlerPlaced'
  BY <1>1, <1>9, <1>10 DEF HandlerPlaced, PlacesInv, TurnPlaced, ShownTools, SameSpots
<1>12. TurnPlaced' /\ TasksPlaced'
  BY <1>1, <1>9, KeptSame, TasksMoves, TurnPlacedMove, TasksPlacedMove
<1>. QED
  BY <1>1, <1>4, <1>8, <1>10, <1>11, <1>12 DEF PlacesInv, SameTracks, SameSpots

(* is_terminal stands between a call that ended and an update of it, so    *)
(* the ended calls of a turn only grow.                                    *)
LEMMA ToolUpdatePlaces ==
    ASSUME TypeInv, TypeInv', PlacesInv, ToolUpdate
    PROVE  PlacesInv' /\ UNCHANGED <<updates, tasks, screen>> /\ SameTracks(turn, turn')
           /\ (handler' = Idle \/ (handler'.at = "tools" /\ handler'.upd = handler.upd))
<1>1. handler.at # "idle" /\ turn.obj # 0 /\ UNCHANGED <<updates, objs, tasks, screen>>
  BY DEF ToolUpdate, HasTurn
<1>2. Tool \in Nat /\ {} \in Texts /\ 0 \in Nat
  BY <1>1, CurValues DEF Tool, Texts
<1>3. PICK c : c = IF handler.at = "tool done" THEN turn.ended \cup {Tool} ELSE turn.ended \ {Tool}
  OBVIOUS
<1>4. c \in Texts /\ turn.ended \subseteq c
  BY <1>2, <1>3, Fields DEF Texts, ToolUpdate, IsTerminal
<1>5. turn' = [turn EXCEPT !.ended = c]
  BY <1>3, Fields DEF ToolUpdate, Turns
<1>6. turn'.ended = c /\ turn'.msg = turn.msg /\ turn'.toolMsg = turn.toolMsg /\ turn'.obj = turn.obj
  BY <1>5, Fields DEF Turns
<1>7. SameTracks(turn, turn')
  BY <1>2, <1>4, <1>5, Fields, TrackMoves
<1>8. \/ handler' = Idle
      \/ handler' = [handler EXCEPT !.at = "tools", !.msg = turn.toolMsg, !.text = turn'.ended]
  BY DEF ToolUpdate, RenderToolsText
<1>9. \/ handler' = Idle
      \/ handler'.at = "tools" /\ handler'.msg = turn.toolMsg /\ handler'.text = c
         /\ handler'.upd = handler.upd
  BY <1>6, <1>8, Fields DEF Handlers
<1>10. TurnPlaced'
  BY <1>1, <1>4, <1>6 DEF PlacesInv, TurnPlaced, Response, ShownTools
<1>11. TasksPlaced'
  BY <1>1, KeptSame, TasksMoves, TasksPlacedMove
<1>12. HandlerPlaced'
  <2>1. CASE handler' = Idle
    <3>1. Idle.at = "idle"
      BY DEF Idle
    <3>. QED
      BY <2>1, <3>1 DEF HandlerPlaced
  <2>2. CASE handler'.at = "tools" /\ handler'.msg = turn.toolMsg /\ handler'.text = c
    BY <1>1, <1>4, <1>6, <2>2 DEF HandlerPlaced, PlacesInv, TurnPlaced, ShownTools
  <2>. QED
    BY <1>9, <2>1, <2>2
<1>. QED
  BY <1>1, <1>7, <1>9, <1>10, <1>11, <1>12 DEF PlacesInv

(* The tools message is posted, or edited to a text that is not behind it. *)
LEMMA ToolsShownPlaces ==
    ASSUME TypeInv, TypeInv', PlacesInv, ToolsShown
    PROVE  /\ PlacesInv' /\ UNCHANGED <<updates, tasks>> /\ SameTracks(turn, turn') /\ handler' = Idle
           /\ Len(screen) <= Len(screen') /\ SameOpen(screen, screen')
           /\ \A j \in 1 .. Len(screen) : screen[j].kind = "tools" => screen[j].text \subseteq screen'[j].text
<1>0. handler.at = "tools" /\ handler' = Idle /\ UNCHANGED <<updates, objs, tasks>>
      /\ Idle.at = "idle" /\ Len(screen) \in Nat
  BY Fields DEF ToolsShown, Idle
<1>1. HandlerPlaced'
  BY <1>0 DEF HandlerPlaced
<1>2. SameTracks(turn, turn)
  BY DEF SameTracks
<1>3. CASE screen' = screen /\ turn' = turn
  <2>1. PlacesInv' /\ Len(screen) <= Len(screen')
    BY <1>0, <1>1, <1>3 DEF PlacesInv, TurnPlaced, TasksPlaced, Response, ShownTools
  <2>. QED
    BY <1>0, <1>2, <1>3, <2>1, KeptSame DEF Kept
<1>4. CASE handler.msg # 0 /\ turn' = turn /\ screen' = Edit(screen, handler.msg, handler.text)
  <2>1. /\ SameOpen(screen, screen') /\ Len(screen') = Len(screen)
        /\ \A j \in 1 .. Len(screen) : /\ screen'[j].kind = screen[j].kind
                                       /\ screen'[j].text = IF j = handler.msg THEN handler.text ELSE screen[j].text
    BY <1>4, Fields, EditEffect
  <2>2. ShownTools(handler.msg, handler.text) /\ (turn.obj # 0 => handler.text \subseteq turn.ended)
    BY <1>0, <1>4 DEF PlacesInv, HandlerPlaced
  <2>3. \A m : Response(m) => Response(m)'
    BY <2>1 DEF Response
  <2>4. TasksPlaced'
    BY <1>0, <2>3 DEF TasksPlaced, PlacesInv
  <2>5. turn.toolMsg # 0 => ShownTools(turn.toolMsg, turn.ended)'
    BY <1>4, <2>1, <2>2 DEF PlacesInv, TurnPlaced, ShownTools
  <2>6. TurnPlaced'
    BY <1>4, <2>3, <2>5 DEF PlacesInv, TurnPlaced
  <2>7. \A j \in 1 .. Len(screen) : screen[j].kind = "tools" => screen[j].text \subseteq screen'[j].text
    BY <2>1, <2>2 DEF ShownTools
  <2>. QED
    BY <1>0, <1>1, <1>2, <1>4, <2>1, <2>4, <2>6, <2>7 DEF PlacesInv
<1>5. CASE screen' = Post("tools", handler.text) /\ turn' = IF HasTurn THEN [turn EXCEPT !.toolMsg = Len(screen')] ELSE turn
  <2>1. /\ Kept(screen, screen') /\ SameOpen(screen, screen') /\ Len(screen') = Len(screen) + 1
        /\ screen'[Len(screen')].kind = "tools" /\ screen'[Len(screen')].text = handler.text
    BY <1>5, PostKindEffect
  <2>2. TasksPlaced'
    BY <1>0, <2>1, TasksMoves, TasksPlacedMove
  <2>3. CASE turn.obj = 0
    <3>1. turn' = turn /\ SameSpots(turn, turn)
      BY <1>5, <2>3 DEF HasTurn, SameSpots
    <3>. QED
      BY <1>0, <1>1, <1>2, <2>1, <2>2, <3>1, TurnPlacedMove DEF PlacesInv, Kept
  <2>4. CASE turn.obj # 0
    <3>1. Len(screen') \in Nat /\ {} \in Texts /\ turn' = [turn EXCEPT !.toolMsg = Len(screen')]
      BY <1>0, <1>5, <2>1, <2>4 DEF HasTurn, Texts
    <3>2. SameTracks(turn, turn')
      BY <3>1, Fields, TrackMoves
    <3>3. turn'.msg = turn.msg /\ turn'.ended = turn.ended /\ turn'.obj = turn.obj /\ turn'.toolMsg = Len(screen')
      BY <3>1, Fields DEF Turns
    <3>4. handler.text \subseteq turn.ended
      BY <1>0, <2>4 DEF PlacesInv, HandlerPlaced
    <3>5. Response(turn.msg)'
      BY <2>1, <3>3, StaysPlaced DEF PlacesInv, TurnPlaced, Response
    <3>6. ShownTools(turn.toolMsg, turn.ended)'
      BY <1>0, <2>1, <3>3, <3>4 DEF ShownTools
    <3>7. TurnPlaced'
      BY <2>4, <3>3, <3>5, <3>6 DEF TurnPlaced
    <3>. QED
      BY <1>0, <1>1, <2>1, <2>2, <3>2, <3>7 DEF PlacesInv, Kept
  <2>. QED
    BY <2>3, <2>4
<1>. QED
  <2>1. PICK e, p : e = Edit(screen, handler.msg, handler.text) /\ p = Post("tools", handler.text)
    OBVIOUS
  <2>2. \/ handler.msg # 0 /\ screen' \in {screen, e} /\ turn' = turn
        \/ /\ screen' \in {screen, p}
           /\ turn' = IF HasTurn /\ screen' # screen THEN [turn EXCEPT !.toolMsg = Len(screen')] ELSE turn
        \/ screen' = screen /\ turn' = turn
    BY <2>1, Retried DEF ToolsShown
  <2>. QED
    BY <1>3, <1>4, <1>5, <2>1, <2>2

(* The steps of the tasks: what they do to the tasks and the turn.         *)
LEMMA TaskPlacesMove ==
    ASSUME TypeInv, TypeInv', PlacesInv, Kept(screen, screen'), handler' = handler,
           SameSpots(turn, turn') \/ (turn'.obj = 0 /\ Spotless(turn')),
           TasksMove(tasks, tasks', turn.msg)
    PROVE  PlacesInv'
  BY TurnPlacedMove, TasksPlacedMove, HandlerPlacedWaits DEF PlacesInv

LEMMA ThoughtTaskMoves ==
    ASSUME TypeInv, PlacesInv, NEW i \in DOMAIN tasks,
           ThoughtFires(i) \/ ThoughtEdited(i) \/ ThoughtDebounced(i)
    PROVE  /\ UNCHANGED <<updates, handler>> /\ tasks[i].kind = "thought"
           /\ \E new \in Tasks : /\ tasks' = [tasks EXCEPT ![i] = new]
                                 /\ new = Dead \/ (new.kind = "thought" /\ (new.st = "send" => new.msg = turn.thMsg))
           /\ SameSpots(turn, turn') /\ turn'.mid = turn.mid /\ turn'.timer = turn.timer
           /\ turn'.thMsg = turn.thMsg
           /\ turn'.thDeb = turn.thDeb \/ tasks' = [tasks EXCEPT ![i] = Dead]
           /\ \/ screen' = screen
              \/ /\ tasks[i].st = "send" /\ Kept(screen, screen')
                 /\ OpenAt(screen, screen', tasks[i].msg, TRUE)
<1>1. /\ tasks \in Seq(Tasks) /\ tasks[i] \in Tasks /\ i \in 1 .. Len(tasks) /\ turn.thMsg \in Nat
      /\ turn \in Turns /\ screen \in Seq(Messages) /\ {} \in Texts /\ 0 \in Nat
  BY Fields, TaskFields DEF Texts
<1>2. Dead \in Tasks /\ SameSpots(turn, turn)
  BY TaskValues DEF SameSpots
<1>3. CASE ThoughtFires(i)
  <2>1. PICK t : t = [tasks[i] EXCEPT !.st = "send", !.msg = turn.thMsg]
    OBVIOUS
  <2>2. t \in Tasks /\ t.kind = "thought" /\ t.msg = turn.thMsg
    BY <1>1, <1>3, <2>1 DEF ThoughtFires, Tasks
  <2>3. tasks' = [tasks EXCEPT ![i] = t] \/ tasks' = [tasks EXCEPT ![i] = Dead]
    BY <1>3, <2>1 DEF ThoughtFires
  <2>. QED
    BY <1>2, <1>3, <2>2, <2>3 DEF ThoughtFires
<1>4. CASE ThoughtEdited(i)
  <2>1. PICK t : t = [tasks[i] EXCEPT !.st = "landed"]
    OBVIOUS
  <2>2. t \in Tasks /\ t.kind = "thought" /\ t.st # "send"
    BY <1>1, <1>4, <2>1 DEF ThoughtEdited, Tasks
  <2>3. tasks' = [tasks EXCEPT ![i] = t]
    BY <1>4, <2>1 DEF ThoughtEdited
  <2>4. Kept(screen, screen') /\ OpenAt(screen, screen', tasks[i].msg, TRUE)
    BY <1>1, <1>4, OpenEffect DEF ThoughtEdited
  <2>. QED
    BY <1>2, <1>4, <2>2, <2>3, <2>4 DEF ThoughtEdited
<1>5. CASE ThoughtDebounced(i)
  <2>1. tasks' = [tasks EXCEPT ![i] = Dead]
    BY <1>5 DEF ThoughtDebounced
  <2>2. turn' = turn \/ turn' = [turn EXCEPT !.thDeb = 0]
    BY <1>5 DEF ThoughtDebounced
  <2>3. SameSpots(turn, [turn EXCEPT !.thDeb = 0])
    BY <1>1, TrackMoves
  <2>4. /\ [turn EXCEPT !.thDeb = 0].mid = turn.mid /\ [turn EXCEPT !.thDeb = 0].timer = turn.timer
        /\ [turn EXCEPT !.thDeb = 0].thMsg = turn.thMsg
    BY <1>1 DEF Turns
  <2>. QED
    BY <1>2, <1>5, <2>1, <2>2, <2>3, <2>4 DEF ThoughtDebounced
<1>. QED
  BY <1>3, <1>4, <1>5

LEMMA ThoughtTaskPlaces ==
    ASSUME TypeInv, TypeInv', PlacesInv, NEW i \in DOMAIN tasks,
           ThoughtFires(i) \/ ThoughtEdited(i) \/ ThoughtDebounced(i)
    PROVE  PlacesInv'
<1>1. PICK new \in Tasks : /\ tasks' = [tasks EXCEPT ![i] = new]
                           /\ new = Dead \/ new.kind = "thought"
  BY ThoughtTaskMoves
<1>2. i \in 1 .. Len(tasks) /\ tasks \in Seq(Tasks)
  BY TaskFields, Fields
<1>3. /\ Len(tasks') = Len(tasks)
      /\ \A j \in 1 .. Len(tasks) : tasks'[j] = IF j = i THEN new ELSE tasks[j]
  BY <1>1, <1>2
<1>4. TasksMove(tasks, tasks', turn.msg)
  <2>1. Dead.msg = 0
    BY DEF Dead
  <2>2. new.msg = 0 \/ new.kind = "thought"
    BY <1>1, <2>1
  <2>3. Len(tasks) \in Nat
    BY <1>2
  <2>. QED
    BY <1>3, <2>2, <2>3 DEF TasksMove
<1>5. Kept(screen, screen')
  BY ThoughtTaskMoves, KeptSame
<1>6. handler' = handler /\ SameSpots(turn, turn')
  BY ThoughtTaskMoves
<1>. QED
  BY <1>4, <1>5, <1>6, TaskPlacesMove

LEMMA FireMoves ==
    ASSUME TypeInv, NEW i \in DOMAIN tasks, DebounceClaims(i) \/ TimerFires(i)
    PROVE  /\ UNCHANGED <<updates, handler, screen>>
           /\ tasks[i].kind \in {"debounce", "timer"}
           /\ \/ SameSpots(turn, turn') /\ SameTracks(turn, turn')
              \/ tasks[i].kind = "timer" /\ turn' = NoTurn /\ tasks' = [tasks EXCEPT ![i] = Dead]
           /\ \E new \in Tasks : /\ tasks' = [tasks EXCEPT ![i] = new]
                                 /\ \/ new = Dead
                                    \/ new.kind = tasks[i].kind /\ new.msg \in {turn.msg, tasks[i].msg}
<1>1. /\ tasks \in Seq(Tasks) /\ tasks[i] \in Tasks /\ i \in 1 .. Len(tasks) /\ turn.msg \in Nat
      /\ turn \in Turns /\ turn.text \in Texts /\ turn.obj \in Nat /\ Dead \in Tasks
  BY Fields, TaskFields, TaskValues
<1>2. SameSpots(turn, turn) /\ SameTracks(turn, turn)
  BY DEF SameSpots, SameTracks
<1>3. /\ SameSpots(turn, [turn EXCEPT !.claimed = TRUE])
      /\ SameTracks(turn, [turn EXCEPT !.claimed = TRUE])
  <2>1. {} \in Texts /\ 0 \in Nat
    BY DEF Texts
  <2>. QED
    BY <1>1, <2>1, SpotMoves
<1>4. PICK d : d = [tasks[i] EXCEPT !.st = "send", !.obj = turn.obj]
  OBVIOUS
<1>5. PICK t : t = [tasks[i] EXCEPT !.st = "send", !.text = turn.text, !.msg = turn.msg, !.obj = turn.obj]
  OBVIOUS
<1>6. /\ d \in Tasks /\ d.kind = tasks[i].kind /\ d.msg = tasks[i].msg
      /\ t \in Tasks /\ t.kind = tasks[i].kind /\ t.msg = turn.msg
  BY <1>1, <1>4, <1>5 DEF Tasks
<1>7. /\ \/ turn' \in {turn, [turn EXCEPT !.claimed = TRUE]}
         \/ TimerFires(i) /\ turn' = NoTurn /\ tasks' = [tasks EXCEPT ![i] = Dead]
      /\ \/ tasks' = [tasks EXCEPT ![i] = d] \/ tasks' = [tasks EXCEPT ![i] = t]
         \/ tasks' = [tasks EXCEPT ![i] = Dead]
  BY <1>1, <1>4, <1>5 DEF DebounceClaims, TimerFires
<1>8. UNCHANGED <<updates, handler, screen>> /\ tasks[i].kind \in {"debounce", "timer"}
      /\ (TimerFires(i) => tasks[i].kind = "timer")
  BY DEF DebounceClaims, TimerFires
<1>. QED
  BY <1>1, <1>2, <1>3, <1>6, <1>7, <1>8

LEMMA ReadPlaces ==
    ASSUME TypeInv, TypeInv', PlacesInv, NEW i \in DOMAIN tasks, DebounceFires(i)
    PROVE  PlacesInv'
<1>1. Kept(screen, screen') /\ handler' = handler /\ SameSpots(turn, turn')
  BY DebounceReads, KeptSame DEF SameSpots
<1>2. TasksMove(tasks, tasks', turn.msg)
  <2>1. PICK new \in Tasks : /\ tasks' = [tasks EXCEPT ![i] = new]
                             /\ \/ new = Dead
                                \/ new.kind = tasks[i].kind /\ new.msg = tasks[i].msg
    BY DebounceReads
  <2>2. tasks \in Seq(Tasks) /\ Dead.msg = 0
    BY Fields DEF Dead
  <2>. QED
    BY <2>1, <2>2 DEF TasksMove
<1>. QED
  BY <1>1, <1>2, TaskPlacesMove

LEMMA FirePlaces ==
    ASSUME TypeInv, TypeInv', PlacesInv, NEW i \in DOMAIN tasks, DebounceClaims(i) \/ TimerFires(i)
    PROVE  PlacesInv'
<1>1. Kept(screen, screen') /\ handler' = handler
  BY FireMoves, KeptSame
<1>2. SameSpots(turn, turn') \/ (turn'.obj = 0 /\ Spotless(turn'))
  BY FireMoves, BlankTurn DEF Blank
<1>3. TasksMove(tasks, tasks', turn.msg)
  <2>1. PICK new \in Tasks : /\ tasks' = [tasks EXCEPT ![i] = new]
                             /\ \/ new = Dead
                                \/ new.kind = tasks[i].kind /\ new.msg \in {turn.msg, tasks[i].msg}
    BY FireMoves
  <2>2. i \in 1 .. Len(tasks)
    BY TaskFields
  <2>3. (new.msg \in {0, turn.msg, tasks[i].msg} /\ new.kind = tasks[i].kind) \/ new = Dead
    BY <2>1
  <2>. QED
    BY <2>1, <2>2, <2>3, TasksMoves
<1>. QED
  BY <1>1, <1>2, <1>3, TaskPlacesMove

(* A task posts the response or edits it in.                               *)
LEMMA SendMoves ==
    ASSUME TypeInv, PlacesInv, NEW i \in DOMAIN tasks, DebounceSends(i) \/ TimerSends(i)
    PROVE  /\ UNCHANGED <<updates, handler, turn>> /\ tasks[i].kind \in {"debounce", "timer"}
           /\ Kept(screen, screen') /\ SameOpen(screen, screen')
           /\ \E new : /\ tasks' = [tasks EXCEPT ![i] = new]
                       /\ \/ new = Dead
                          \/ new.kind = tasks[i].kind /\ new.msg = tasks[i].msg
                          \/ /\ new.kind = tasks[i].kind /\ new.msg = Len(screen')
                             /\ Len(screen') = Len(screen) + 1 /\ screen'[Len(screen')].kind = "response"
<1>1. /\ tasks \in Seq(Tasks) /\ tasks[i] \in Tasks /\ i \in 1 .. Len(tasks)
      /\ tasks[i].text \in Texts /\ tasks[i].msg \in Nat /\ tasks[i].obj \in Nat
      /\ screen \in Seq(Messages)
  BY Fields, TaskFields
<1>2. UNCHANGED <<updates, handler, turn>> /\ tasks[i].kind \in {"debounce", "timer"}
  BY DEF DebounceSends, TimerSends
<1>3. PICK e, p : /\ e = Edit(screen, tasks[i].msg, tasks[i].text)
                  /\ p = PostBy(screen, tasks[i].obj, tasks[i].text)
  OBVIOUS
<1>4. Response(tasks[i].msg)
  BY <1>1, <1>2 DEF PlacesInv, TasksPlaced
<1>5. Kept(screen, e) /\ SameOpen(screen, e)
  BY <1>1, <1>3, <1>4, ResponseEdited
<1>6. /\ Kept(screen, p) /\ SameOpen(screen, p) /\ Len(p) = Len(screen) + 1
      /\ p[Len(p)].kind = "response"
  BY <1>1, <1>3, PostByEffect
<1>7. screen' \in {screen, e, p}
  BY <1>3, Retried DEF DebounceSends, TimerSends, RetryTelegramOp
<1>8. Kept(screen, screen') /\ SameOpen(screen, screen')
  BY <1>5, <1>6, <1>7, KeptSame
<1>9. CASE DebounceSends(i)
  <2>1. PICK d : d = [tasks[i] EXCEPT !.st = "landed", !.msg = Len(screen')]
    OBVIOUS
  <2>2. d.kind = tasks[i].kind /\ d.msg = Len(screen')
    BY <1>1, <2>1 DEF Tasks
  <2>3. screen' = screen \/ screen' = p
    BY <1>3, <1>9, Retried DEF DebounceSends
  <2>4. tasks' = [tasks EXCEPT ![i] = IF screen' = screen THEN Dead ELSE d]
    BY <1>1, <1>9, <2>1 DEF DebounceSends
  <2>. QED
    BY <1>2, <1>6, <1>8, <2>2, <2>3, <2>4
<1>10. CASE TimerSends(i)
  <2>1. PICK t : t = [tasks[i] EXCEPT !.st = "landed"]
    OBVIOUS
  <2>2. t.kind = tasks[i].kind /\ t.msg = tasks[i].msg
    BY <1>1, <2>1 DEF Tasks
  <2>3. tasks' = [tasks EXCEPT ![i] = t]
    BY <1>1, <1>10, <2>1 DEF TimerSends
  <2>. QED
    BY <1>2, <1>8, <2>2, <2>3
<1>. QED
  BY <1>9, <1>10

LEMMA SendPlaces ==
    ASSUME TypeInv, TypeInv', PlacesInv, NEW i \in DOMAIN tasks, DebounceSends(i) \/ TimerSends(i)
    PROVE  PlacesInv'
<1>1. /\ UNCHANGED <<handler, turn>> /\ Kept(screen, screen') /\ tasks[i].kind # "thought"
      /\ i \in 1 .. Len(tasks) /\ tasks \in Seq(Tasks) /\ Len(screen) \in Nat
  BY SendMoves, TaskFields, Fields
<1>2. PICK new : /\ tasks' = [tasks EXCEPT ![i] = new]
                 /\ \/ new = Dead
                    \/ new.kind = tasks[i].kind /\ new.msg = tasks[i].msg
                    \/ /\ new.kind = tasks[i].kind /\ new.msg = Len(screen')
                       /\ Len(screen') = Len(screen) + 1 /\ screen'[Len(screen')].kind = "response"
  BY SendMoves
<1>3. /\ Len(tasks') = Len(tasks)
      /\ \A j \in 1 .. Len(tasks) : tasks'[j] = IF j = i THEN new ELSE tasks[j]
  BY <1>1, <1>2
<1>4. \A m : Response(m) => Response(m)'
  BY <1>1, StaysPlaced
<1>5. Response(new.msg)'
  <2>1. CASE new = Dead
    BY <2>1 DEF Dead, Response
  <2>2. CASE new.msg = tasks[i].msg
    BY <1>1, <1>4, <2>2 DEF PlacesInv, TasksPlaced
  <2>3. CASE new.msg = Len(screen') /\ Len(screen') = Len(screen) + 1 /\ screen'[Len(screen')].kind = "response"
    BY <1>1, <2>3 DEF Response
  <2>. QED
    BY <1>2, <2>1, <2>2, <2>3
<1>6. TasksPlaced'
  BY <1>3, <1>4, <1>5 DEF PlacesInv, TasksPlaced
<1>7. SameSpots(turn, turn')
  BY <1>1 DEF SameSpots
<1>. QED
  BY <1>1, <1>6, <1>7, TurnPlacedMove, HandlerPlacedWaits DEF PlacesInv

LEMMA StoreMoves ==
    ASSUME TypeInv, NEW i \in DOMAIN tasks, DebounceStores(i) \/ TimerRemoves(i)
    PROVE  /\ UNCHANGED <<updates, handler, screen>> /\ tasks' = [tasks EXCEPT ![i] = Dead]
           /\ \/ /\ tasks[i].kind = "debounce" /\ SameTracks(turn, turn')
                 /\ turn'.toolMsg = turn.toolMsg /\ turn'.ended = turn.ended
                 /\ turn'.msg \in {turn.msg, tasks[i].msg}
              \/ tasks[i].kind = "timer" /\ turn' = NoTurn
<1>1. turn \in Turns /\ {} \in Texts /\ tasks[i].msg \in Nat
  BY Fields, TaskFields DEF Texts
<1>2. CASE DebounceStores(i)
  <2>1. turn' = turn \/ turn' = [turn EXCEPT !.msg = tasks[i].msg, !.deb = 0]
    BY <1>2 DEF DebounceStores
  <2>2. /\ SameTracks(turn, [turn EXCEPT !.msg = tasks[i].msg, !.deb = 0])
        /\ SameTracks(turn, turn)
    BY <1>1, TrackMoves DEF SameTracks
  <2>3. /\ [turn EXCEPT !.msg = tasks[i].msg, !.deb = 0].toolMsg = turn.toolMsg
        /\ [turn EXCEPT !.msg = tasks[i].msg, !.deb = 0].ended = turn.ended
        /\ [turn EXCEPT !.msg = tasks[i].msg, !.deb = 0].msg = tasks[i].msg
    BY <1>1 DEF Turns
  <2>. QED
    BY <1>2, <2>1, <2>2, <2>3 DEF DebounceStores
<1>3. CASE TimerRemoves(i)
  BY <1>3 DEF TimerRemoves
<1>. QED
  BY <1>2, <1>3

LEMMA StorePlaces ==
    ASSUME TypeInv, TypeInv', PlacesInv, NEW i \in DOMAIN tasks, DebounceStores(i) \/ TimerRemoves(i)
    PROVE  PlacesInv'
<1>1. UNCHANGED <<handler, screen>> /\ Kept(screen, screen')
  BY StoreMoves, KeptSame
<1>2. i \in 1 .. Len(tasks) /\ tasks' = [tasks EXCEPT ![i] = Dead]
  BY StoreMoves, TaskFields
<1>3. TasksPlaced'
  BY <1>1, <1>2, TasksMoves, TasksPlacedMove
<1>4. CASE turn' = NoTurn
  <2>1. turn'.obj = 0 /\ Spotless(turn')
    BY <1>4, BlankTurn DEF Blank
  <2>. QED
    BY <1>1, <1>3, <2>1, TurnPlacedMove, HandlerPlacedWaits DEF PlacesInv
<1>5. CASE /\ tasks[i].kind = "debounce" /\ SameTracks(turn, turn')
           /\ turn'.toolMsg = turn.toolMsg /\ turn'.ended = turn.ended
           /\ turn'.msg \in {turn.msg, tasks[i].msg}
  <2>1. Response(turn'.msg)
    BY <1>2, <1>5 DEF PlacesInv, TasksPlaced, TurnPlaced
  <2>2. TurnPlaced'
    BY <1>1, <1>5, <2>1 DEF PlacesInv, TurnPlaced, Response, ShownTools, SameTracks
  <2>3. HandlerPlaced'
    BY <1>1, <1>5 DEF PlacesInv, HandlerPlaced, Response, ShownTools, SameTracks
  <2>. QED
    BY <1>3, <2>2, <2>3 DEF PlacesInv
<1>. QED
  BY <1>4, <1>5, StoreMoves

(* What is settled on the screen stays so.                                 *)
Settled ==
    /\ Len(screen) <= Len(screen')
    /\ \A j \in 1 .. Len(screen) :
          /\ screen[j].kind = "tools" => screen[j].text \subseteq screen'[j].text
          /\ ~screen[j].open => ~screen'[j].open

LEMMA KeptSettles ==
    ASSUME TypeInv, Kept(screen, screen'),
           NEW m, SameOpen(screen, screen') \/ OpenAt(screen, screen', m, FALSE)
    PROVE  Settled
  BY DEF Kept, SameOpen, OpenAt, Settled

LEMMA SameSettles == ASSUME TypeInv, screen' = screen PROVE Kept(screen, screen') /\ Settled
  BY KeptSame, KeptSettles

LEMMA OpenAgain ==
    ASSUME NEW a \in Seq(Messages), NEW b \in Seq(Messages), NEW c, NEW m,
           Kept(a, b), SameOpen(a, b), OpenAt(b, c, m, FALSE)
    PROVE  OpenAt(a, c, m, FALSE)
<1>1. Len(a) \in Nat /\ Len(b) \in Nat /\ Len(a) <= Len(b)
  BY DEF Kept
<1>2. \A j \in 1 .. Len(a) : j \in 1 .. Len(b)
  BY <1>1
<1>. QED
  BY <1>2 DEF SameOpen, OpenAt

LEMMA SendFlushSettles ==
    ASSUME TypeInv, TypeInv', PlacesInv, handler.at \in {"flush thought", "flush chunk"},
           NEW then, SendFlush(then)
    PROVE  Settled
<1>1. PICK scr \in Seq(Messages) :
              /\ Kept(screen, scr) /\ SameOpen(screen, scr)
              /\ screen' = scr \/ (Kept(scr, screen') /\ OpenAt(scr, screen', handler.thMsg, FALSE))
  BY SendFlushEffect
<1>2. screen \in Seq(Messages) /\ screen' \in Seq(Messages)
  BY DEF TypeInv, ScreenType
<1>3. Kept(screen, screen')
  BY <1>1, <1>2, KeptAgain
<1>4. SameOpen(screen, screen') \/ OpenAt(screen, screen', handler.thMsg, FALSE)
  BY <1>1, <1>2, OpenAgain
<1>. QED
  BY <1>3, <1>4, KeptSettles

LEMMA ThoughtPlaces ==
    ASSUME TypeInv, TypeInv', PlacesInv, ThoughtAppends \/ ThoughtSent
    PROVE  PlacesInv' /\ Settled
<1>1. CASE ThoughtAppends
  <2>1. PICK t : t = Opened(turn, CurMid)
    OBVIOUS
  <2>2. /\ screen' = screen /\ SameSpots(t, turn')
        /\ handler'.at = "send thought" \/ handler' = Idle
        /\ \/ tasks' = Abort(tasks, {t.thDeb})
           \/ tasks' = Append(Abort(tasks, {t.thDeb}), Started("thought"))
    BY <1>1, <2>1, ThoughtAppendsMoves
  <2>3. handler.at # "idle"
    BY <1>1 DEF ThoughtAppends
  <2>4. CurMid \in Nat
    BY <2>3, CurValues
  <2>5. SameSpots(turn, turn') \/ Spotless(turn')
    BY <2>1, <2>2, <2>4, SpotsThrough
  <2>6. TasksMove(tasks, tasks', turn.msg)
    BY <2>2, TasksMoves
  <2>7. Kept(screen, screen') /\ Settled
    BY <2>2, SameSettles
  <2>. QED
    BY <2>2, <2>5, <2>6, <2>7, HandledPlaces
<1>2. CASE ThoughtSent
  <2>1. /\ tasks' = tasks /\ handler' = Idle
        /\ Kept(screen, screen') /\ SameOpen(screen, screen') /\ SameSpots(turn, turn')
    BY <1>2, ThoughtSentMoves
  <2>2. TasksMove(tasks, tasks', turn.msg)
    BY <2>1, TasksMoves
  <2>3. PlacesInv'
    BY <2>1, <2>2, HandledPlaces
  <2>. QED
    BY <2>1, <2>3, KeptSettles
<1>. QED
  BY <1>1, <1>2

LEMMA ChunkEditedPlaces ==
    ASSUME TypeInv, TypeInv', PlacesInv, ChunkEdited \/ LateChunkEdited
    PROVE  PlacesInv' /\ Settled
<1>1. handler' = Idle /\ Kept(screen, screen') /\ SameOpen(screen, screen')
  BY ChunkEditedEffect DEF ChunkEdited, LateChunkEdited
<1>2. SameSpots(turn, turn') /\ TasksMove(tasks, tasks', turn.msg)
  <2>1. CASE ChunkEdited
    BY <2>1, TasksMoves DEF ChunkEdited, SameSpots
  <2>2. CASE LateChunkEdited
    <3>1. SameSpots(turn, turn') /\ tasks' = Append(Abort(tasks, {turn.timer}), Started("timer"))
      BY <2>2, Fields, FinalizingMoves DEF LateChunkEdited
    <3>. QED
      BY <3>1, TasksMoves
  <2>. QED
    BY <2>1, <2>2
<1>. QED
  BY <1>1, <1>2, HandledPlaces, KeptSettles

LEMMA ResultPlaces ==
    ASSUME TypeInv, TypeInv', PlacesInv, ResultCollapses \/ ResultFinalizes
    PROVE  PlacesInv' /\ Settled
<1>1. CASE ResultCollapses
  <2>1. /\ screen' = screen /\ SameSpots(turn, turn') /\ handler'.at = "collapse"
        /\ tasks' = Abort(tasks, {turn.thDeb})
    BY <1>1, CollapseMoves
  <2>2. TasksMove(tasks, tasks', turn.msg) /\ Kept(screen, screen') /\ Settled
    BY <2>1, TasksMoves, SameSettles
  <2>. QED
    BY <2>1, <2>2, HandledPlaces
<1>2. CASE ResultFinalizes
  <2>1. PICK o : o = Opened(turn, CurMid)
    OBVIOUS
  <2>2. /\ Kept(screen, screen')
        /\ screen' = screen \/ OpenAt(screen, screen', handler.thMsg, FALSE)
        /\ handler' = Idle /\ SameSpots(o, turn')
        /\ tasks' = Append(Abort(tasks, {o.timer}), Started("timer"))
    BY <1>2, <2>1, ResultFinalizesMoves
  <2>3. handler.at # "idle"
    BY <1>2 DEF ResultFinalizes
  <2>4. CurMid \in Nat
    BY <2>3, CurValues
  <2>5. SameSpots(turn, turn') \/ Spotless(turn')
    BY <2>1, <2>2, <2>4, SpotsThrough
  <2>6. TasksMove(tasks, tasks', turn.msg)
    BY <2>2, TasksMoves
  <2>7. PlacesInv'
    BY <2>2, <2>5, <2>6, HandledPlaces
  <2>8. Settled
    BY <2>2, SameSettles, KeptSettles
  <2>. QED
    BY <2>7, <2>8
<1>. QED
  BY <1>1, <1>2

LEMMA IgnorePlaces ==
    ASSUME TypeInv, TypeInv', PlacesInv, ThoughtIgnored \/ ResultStale \/ ToolIgnored
    PROVE  PlacesInv' /\ Settled
<1>1. handler' = Idle /\ UNCHANGED <<turn, tasks, screen>>
  BY DEF ThoughtIgnored, ResultStale, ToolIgnored
<1>2. SameSpots(turn, turn') /\ TasksMove(tasks, tasks', turn.msg) /\ Kept(screen, screen') /\ Settled
  BY <1>1, TasksMoves, SameSettles DEF SameSpots
<1>. QED
  BY <1>1, <1>2, HandledPlaces

(* Whatever deliver_to_chat does, what is settled stays so.                *)
LEMMA HandlePlaces ==
    ASSUME TypeInv, TypeInv', PlacesInv, Handle
    PROVE  PlacesInv' /\ Settled
<1>1. CASE ThoughtFlushes \/ ChunkFlushes
  <2>1. PICK next \in {"flush thought", "flush chunk"} : Flush(next)
    BY <1>1 DEF ThoughtFlushes, ChunkFlushes
  <2>2. PlacesInv'
    BY <2>1, FlushPlaces
  <2>3. screen' = screen
    BY <2>1 DEF Flush
  <2>. QED
    BY <2>2, <2>3, SameSettles
<1>2. CASE ThoughtFlushed \/ ChunkFlushed
  <2>1. PICK then \in {"thought", "chunk"} : SendFlush(then)
    BY <1>2 DEF ThoughtFlushed, ChunkFlushed
  <2>2. handler.at \in {"flush thought", "flush chunk"}
    BY <1>2 DEF ThoughtFlushed, ChunkFlushed
  <2>. QED
    BY <2>1, <2>2, SendFlushPlaces, SendFlushSettles
<1>3. CASE ThoughtIgnored \/ ResultStale \/ ToolIgnored
  BY <1>3, IgnorePlaces
<1>4. CASE ThoughtAppends \/ ThoughtSent
  BY <1>4, ThoughtPlaces
<1>5. CASE ChunkAppends
  BY <1>5, ChunkPlaces, SameSettles
<1>6. CASE ChunkEdited \/ LateChunkEdited
  BY <1>6, ChunkEditedPlaces
<1>7. CASE ResultCollapses \/ ResultFinalizes
  BY <1>7, ResultPlaces
<1>8. CASE ToolCall \/ ToolUpdate
  BY <1>8, ToolCallPlaces, ToolUpdatePlaces, SameSettles
<1>9. CASE ToolsShown
  <2>1. /\ PlacesInv' /\ Len(screen) <= Len(screen') /\ SameOpen(screen, screen')
        /\ \A j \in 1 .. Len(screen) : screen[j].kind = "tools" => screen[j].text \subseteq screen'[j].text
    BY <1>9, ToolsShownPlaces
  <2>. QED
    BY <2>1 DEF SameOpen, Settled
<1>. QED
  BY <1>1, <1>2, <1>3, <1>4, <1>5, <1>6, <1>7, <1>8, <1>9 DEF Handle

LEMMA TaskPlaces ==
    ASSUME TypeInv, TypeInv', PlacesInv, NEW i \in DOMAIN tasks, Task(i)
    PROVE  PlacesInv'
  BY ThoughtTaskPlaces, ReadPlaces, FirePlaces, SendPlaces, StorePlaces DEF Task

(* Turns of the agent are numbered from 1, and a place of the handler that *)
(* the kind of the update led to goes with it.                             *)
UpdateInv ==
    /\ \A i \in 1 .. Len(updates) : updates[i][2] # 0
    /\ handler.at \in {"chunk", "flush chunk"} => handler.upd = Len(updates) /\ Cur[1] = "chunk"
    /\ handler.at \in {"result", "error", "collapse"} => Cur[1] \in {"result", "error"}

Led == {"chunk", "flush chunk", "result", "error", "collapse"}

LEMMA LedUpdate ==
    ASSUME UpdateInv, updates' = updates,
           \/ handler' = handler
           \/ handler'.at \notin Led
           \/ /\ handler'.upd = handler.upd
              /\ \/ {handler.at, handler'.at} \subseteq {"chunk", "flush chunk"}
                 \/ handler.at \in {"result", "error"} /\ handler'.at = "collapse"
    PROVE  UpdateInv'
<1>1. CASE handler' = handler
  BY <1>1 DEF UpdateInv, Cur
<1>2. CASE handler'.at \notin Led
  BY <1>2 DEF UpdateInv, Led
<1>3. CASE handler'.upd = handler.upd /\ {handler.at, handler'.at} \subseteq {"chunk", "flush chunk"}
  BY <1>3 DEF UpdateInv, Cur
<1>4. CASE handler'.upd = handler.upd /\ handler.at \in {"result", "error"} /\ handler'.at = "collapse"
  BY <1>4 DEF UpdateInv, Cur
<1>. QED
  BY <1>1, <1>2, <1>3, <1>4

LEMMA HandleUpdate ==
    ASSUME TypeInv, UpdateInv, Handle
    PROVE  UpdateInv' /\ updates' = updates
<1>0. Idle.at = "idle" /\ "idle" \notin Led /\ handler \in Handlers
  BY Fields DEF Idle, Led
<1>1. CASE ThoughtFlushes \/ ChunkFlushes
  <2>1. PICK next : Flush(next) /\ \/ next = "flush thought"
                                   \/ next = "flush chunk" /\ handler.at = "chunk"
    BY <1>1 DEF ThoughtFlushes, ChunkFlushes
  <2>2. handler'.at = next /\ handler'.upd = handler.upd /\ updates' = updates
    BY <1>0, <2>1 DEF Flush, Handlers
  <2>. QED
    BY <2>1, <2>2, LedUpdate DEF Led
<1>2. CASE ThoughtFlushed \/ ChunkFlushed
  <2>1. PICK then : SendFlush(then) /\ \/ then = "thought"
                                       \/ then = "chunk" /\ handler.at = "flush chunk"
    BY <1>2 DEF ThoughtFlushed, ChunkFlushed
  <2>2. handler'.at = then /\ handler'.upd = handler.upd /\ updates' = updates
    BY <1>0, <2>1 DEF SendFlush, Idle
  <2>. QED
    BY <2>1, <2>2, LedUpdate DEF Led
<1>3. CASE ThoughtIgnored \/ ResultStale \/ ToolIgnored
  <2>1. handler' = Idle /\ updates' = updates
    BY <1>3 DEF ThoughtIgnored, ResultStale, ToolIgnored
  <2>. QED
    BY <1>0, <2>1, LedUpdate
<1>4. CASE ThoughtAppends \/ ThoughtSent
  <2>1. updates' = updates /\ (handler' = Idle \/ handler'.at = "send thought")
    BY <1>4, ThoughtAppendsMoves, ThoughtSentMoves
  <2>. QED
    BY <1>0, <2>1, LedUpdate DEF Led
<1>5. CASE ChunkAppends
  <2>1. updates' = updates /\ (handler' = Idle \/ handler'.at \in {"late", "edit"})
    BY <1>5, ChunkAppendsMoves
  <2>. QED
    BY <1>0, <2>1, LedUpdate DEF Led
<1>6. CASE ChunkEdited \/ LateChunkEdited
  <2>1. handler' = Idle /\ updates' = updates
    BY <1>6 DEF ChunkEdited, LateChunkEdited
  <2>. QED
    BY <1>0, <2>1, LedUpdate
<1>7. CASE ResultCollapses
  <2>1. /\ updates' = updates /\ handler.at \in {"result", "error"}
        /\ handler'.at = "collapse" /\ handler'.upd = handler.upd
    BY <1>7, CollapseMoves DEF ResultCollapses
  <2>. QED
    BY <2>1, LedUpdate
<1>8. CASE ResultFinalizes
  BY <1>0, <1>8, LedUpdate DEF ResultFinalizes
<1>9. CASE ToolCall \/ ToolUpdate
  <2>1. PICK x, n : handler' = Idle \/ handler' = [handler EXCEPT !.at = "tools", !.msg = n, !.text = x]
    BY <1>9 DEF ToolCall, ToolUpdate
  <2>2. updates' = updates /\ (handler' = Idle \/ handler'.at = "tools")
    BY <1>0, <1>9, <2>1 DEF ToolCall, ToolUpdate, Handlers
  <2>. QED
    BY <1>0, <2>2, LedUpdate DEF Led
<1>10. CASE ToolsShown
  BY <1>0, <1>10, LedUpdate DEF ToolsShown
<1>. QED
  BY <1>1, <1>2, <1>3, <1>4, <1>5, <1>6, <1>7, <1>8, <1>9, <1>10 DEF Handle

LEMMA DeliverUpdate ==
    ASSUME TypeInv, UpdateInv, NEW kind \in Kinds, NEW m \in 1 .. MaxTurns, Deliver(kind, m)
    PROVE  /\ UpdateInv' /\ UNCHANGED <<turn, tasks, screen>> /\ handler'.at = kind
           /\ \A n : Ended(n) => Ended(n)'
           /\ LateText => LateText'
<1>1. /\ updates' = Append(updates, <<kind, m>>) /\ handler' = [Idle EXCEPT !.at = kind, !.upd = Len(updates) + 1]
      /\ UNCHANGED <<turn, tasks, screen>>
  BY DEF Deliver
<1>2. m \in Nat /\ m # 0 /\ updates \in Seq(Kinds \X Nat)
  BY TelegramAssumption DEF TypeInv, UpdateType
<1>3. PICK u : u = <<kind, m>>
  OBVIOUS
<1>4. u \in Kinds \X Nat /\ u[1] = kind /\ u[2] = m
  BY <1>2, <1>3
<1>5. /\ Len(updates') = Len(updates) + 1 /\ Len(updates) \in Nat /\ updates'[Len(updates) + 1] = u
      /\ \A i \in 1 .. Len(updates) : updates'[i] = updates[i]
      /\ DOMAIN updates = 1 .. Len(updates) /\ DOMAIN updates' = 1 .. Len(updates')
  BY <1>1, <1>2, <1>3, <1>4
<1>6. handler'.at = kind /\ handler'.upd = Len(updates')
  BY <1>1, <1>5 DEF Idle
<1>7. Cur' = u
  BY <1>5, <1>6 DEF Cur
<1>8. \A i \in 1 .. Len(updates') : i \in 1 .. Len(updates) \/ i = Len(updates) + 1
  BY <1>5
<1>9. \A i \in 1 .. Len(updates') : updates'[i][2] # 0
  BY <1>2, <1>4, <1>5, <1>8 DEF UpdateInv
<1>10. UpdateInv'
  BY <1>4, <1>6, <1>7, <1>9 DEF UpdateInv, Kinds
<1>11. \A i \in DOMAIN updates : i \in DOMAIN updates' /\ updates'[i] = updates[i]
  BY <1>5
<1>12. \A n : Ended(n) => Ended(n)'
  BY <1>11 DEF Ended
<1>13. LateText => LateText'
  BY <1>11 DEF LateText
<1>. QED
  BY <1>1, <1>6, <1>10, <1>12, <1>13

-----------------------------------------------------------------------------
(* As long as no text came late: the turn whose result has come is the one *)
(* that is finalized, by its own timer; a debounce edits the thought that  *)
(* the turn shows, and none is left when that thought is collapsed.        *)
TimerInv ==
    /\ turn.timer # 0 => turn.obj # 0 /\ Ended(turn.mid)
    /\ \A i \in 1 .. Len(tasks) : tasks[i].kind = "timer" => i = turn.timer
DebounceInv ==
    \A i \in 1 .. Len(tasks) : tasks[i].kind = "thought" =>
        /\ i = turn.thDeb /\ turn.obj # 0 /\ turn.timer = 0
        /\ tasks[i].st = "send" => tasks[i].msg = turn.thMsg
NoThoughts == \A i \in 1 .. Len(tasks) : tasks[i].kind # "thought"
PlaceInv ==
    /\ handler.at # "late"
    /\ handler.at \in {"flush thought", "flush chunk", "collapse"} => NoThoughts /\ turn.thMsg = 0
    /\ handler.at = "send thought" => NoThoughts
OpenInv    == turn.thMsg # 0 => turn.thMsg \in 1 .. Len(screen) /\ screen[turn.thMsg].open
ThoughtInv == TimerInv /\ DebounceInv /\ PlaceInv /\ OpenInv

(* The tasks new are of ts, apart from those that have to do with neither. *)
TasksOf(ts, new) ==
    \A j \in 1 .. Len(new) : new[j].kind \in {"thought", "timer"} =>
        /\ j \in 1 .. Len(ts) /\ new[j].kind = ts[j].kind
        /\ new[j].kind = "thought" => new[j].st = ts[j].st /\ new[j].msg = ts[j].msg

(* The turn new has the thought and the timer of t, or is newly opened.    *)
TracksOn(t, new) ==
    \/ /\ new.obj = t.obj /\ new.timer = t.timer /\ new.thMsg = t.thMsg /\ new.thDeb = t.thDeb
       /\ new.mid = t.mid \/ t.timer = 0
    \/ t.obj = 0 /\ Blank(new)

(* What is open stays open.                                                *)
OpenOn(scr, new) ==
    /\ Len(scr) <= Len(new)
    /\ \A j \in 1 .. Len(scr) : scr[j].open => new[j].open

LEMMA OpensOn ==
    ASSUME NEW scr, NEW new, Kept(scr, new), NEW m,
           SameOpen(scr, new) \/ OpenAt(scr, new, m, TRUE)
    PROVE  OpenOn(scr, new)
  BY DEF Kept, SameOpen, OpenAt, OpenOn

LEMMA OpenStays ==
    ASSUME TypeInv, TypeInv', OpenInv, turn'.thMsg = turn.thMsg,
           turn.thMsg = 0 \/ OpenOn(screen, screen')
    PROVE  OpenInv'
<1>1. Len(screen) \in Nat /\ Len(screen') \in Nat
  BY DEF TypeInv, ScreenType
<1>2. turn.thMsg \in Nat
  BY Fields
<1>. QED
  BY <1>1, <1>2 DEF OpenInv, OpenOn

(* Steps that have to do with neither.                                     *)
LEMMA TracksGoOn ==
    ASSUME TypeInv, TypeInv', ThoughtInv, \A n : Ended(n) => Ended(n)',
           TracksOn(turn, turn'), TasksOf(tasks, tasks'),
           turn.thMsg = 0 \/ OpenOn(screen, screen'),
           handler' = handler \/ handler'.at \in Kinds \cup {"idle", "edit", "tools"}
    PROVE  ThoughtInv'
<1>1. TimerInv /\ DebounceInv /\ PlaceInv /\ OpenInv
  BY DEF ThoughtInv
<1>2. CASE turn.obj = 0 /\ Blank(turn')
  <2>1. turn'.timer = 0 /\ turn'.thMsg = 0 /\ turn'.thDeb = 0
    BY <1>2 DEF Blank
  <2>2. \A j \in 1 .. Len(tasks') : tasks'[j].kind \notin {"thought", "timer"}
    <3>1. turn.timer = 0
      BY <1>1, <1>2 DEF TimerInv
    <3>2. \A j \in 1 .. Len(tasks) : tasks[j].kind # "thought"
      BY <1>1, <1>2 DEF DebounceInv
    <3>3. \A j \in 1 .. Len(tasks) : tasks[j].kind # "timer"
      BY <1>1, <3>1 DEF TimerInv
    <3>. QED
      BY <3>2, <3>3 DEF TasksOf
  <2>3. TimerInv' /\ DebounceInv' /\ OpenInv'
    BY <2>1, <2>2 DEF TimerInv, DebounceInv, OpenInv
  <2>4. PlaceInv'
    <3>1. handler'.at # "late"
      BY <1>1 DEF PlaceInv, Kinds
    <3>. QED
      BY <2>1, <2>2, <3>1 DEF PlaceInv, NoThoughts
  <2>. QED
    BY <2>3, <2>4 DEF ThoughtInv
<1>3. CASE /\ turn'.obj = turn.obj /\ turn'.timer = turn.timer /\ turn'.thMsg = turn.thMsg
           /\ turn'.thDeb = turn.thDeb /\ (turn'.mid = turn.mid \/ turn.timer = 0)
  <2>1. TimerInv'
    <3>1. \A j \in 1 .. Len(tasks') : tasks'[j].kind = "timer" => j = turn'.timer
      BY <1>1, <1>3 DEF TimerInv, TasksOf
    <3>2. turn'.timer # 0 => turn'.obj # 0 /\ Ended(turn.mid)'
      BY <1>1, <1>3 DEF TimerInv
    <3>. QED
      BY <3>1, <3>2 DEF TimerInv
  <2>2. DebounceInv'
    BY <1>1, <1>3 DEF DebounceInv, TasksOf
  <2>3. OpenInv'
    BY <1>1, <1>3, OpenStays
  <2>4. PlaceInv'
    <3>1. NoThoughts => NoThoughts'
      BY DEF NoThoughts, TasksOf
    <3>2. CASE handler' = handler
      BY <1>1, <1>3, <3>1, <3>2 DEF PlaceInv
    <3>3. CASE handler'.at \in Kinds \cup {"idle", "edit", "tools"}
      BY <3>3 DEF PlaceInv, Kinds
    <3>. QED
      BY <3>2, <3>3
  <2>. QED
    BY <2>1, <2>2, <2>3, <2>4 DEF ThoughtInv
<1>. QED
  BY <1>2, <1>3 DEF TracksOn

(* The turn is removed, and its timer and its debounces with it.           *)
LEMMA TurnGoes ==
    ASSUME TypeInv, TypeInv', turn' = NoTurn, handler'.at # "late",
           \A j \in 1 .. Len(tasks') : tasks'[j].kind \notin {"thought", "timer"}
    PROVE  ThoughtInv'
<1>1. turn'.timer = 0 /\ turn'.thMsg = 0
  BY BlankTurn DEF Blank
<1>. QED
  BY <1>1 DEF ThoughtInv, TimerInv, DebounceInv, PlaceInv, OpenInv, NoThoughts

LEMMA TasksAre ==
    ASSUME TypeInv
    PROVE  /\ TasksOf(tasks, tasks)
           /\ \A S : TasksOf(tasks, Abort(tasks, S))
           /\ TasksOf(tasks, Append(tasks, Started("debounce")))
           /\ \A i \in 1 .. Len(tasks) : \A new :
                 new.kind = "debounce" \/ (new.kind = tasks[i].kind /\ new.kind # "thought") \/ new = Dead =>
                     TasksOf(tasks, [tasks EXCEPT ![i] = new])
<1>1. tasks \in Seq(Tasks) /\ Len(tasks) \in Nat
  BY Fields
<1>0. Dead.kind \notin {"thought", "timer"}
  BY DEF Dead
<1>2. TasksOf(tasks, tasks)
  BY DEF TasksOf
<1>3. ASSUME NEW S PROVE TasksOf(tasks, Abort(tasks, S))
  BY <1>0, <1>1, AbortValues DEF TasksOf
<1>4. TasksOf(tasks, Append(tasks, Started("debounce")))
  <2>1. PICK s : s = Started("debounce")
    OBVIOUS
  <2>2. s \in Tasks /\ s.kind = "debounce"
    BY <2>1, TaskValues DEF Started, Dead
  <2>3. PICK new : new = Append(tasks, s)
    OBVIOUS
  <2>4. /\ Len(new) = Len(tasks) + 1 /\ new[Len(tasks) + 1] = s
        /\ \A i \in 1 .. Len(tasks) : new[i] = tasks[i]
    BY <1>1, <2>2, <2>3
  <2>5. \A i \in 1 .. Len(new) : i \in 1 .. Len(tasks) \/ i = Len(tasks) + 1
    BY <1>1, <2>4
  <2>6. TasksOf(tasks, new)
    BY <2>2, <2>4, <2>5 DEF TasksOf
  <2>. QED
    BY <2>1, <2>3, <2>6
<1>5. ASSUME NEW i \in 1 .. Len(tasks), NEW new,
             new.kind = "debounce" \/ (new.kind = tasks[i].kind /\ new.kind # "thought") \/ new = Dead
      PROVE  TasksOf(tasks, [tasks EXCEPT ![i] = new])
  <2>1. /\ Len([tasks EXCEPT ![i] = new]) = Len(tasks)
        /\ \A j \in 1 .. Len(tasks) : [tasks EXCEPT ![i] = new][j] = IF j = i THEN new ELSE tasks[j]
    BY <1>1
  <2>. QED
    BY <1>0, <1>1, <1>5, <2>1 DEF TasksOf
<1>. QED
  BY <1>2, <1>3, <1>4, <1>5

LEMMA AbortedAre ==
    ASSUME NEW ts \in Seq(Tasks), NEW S, NEW new, new = Abort(ts, S)
    PROVE  /\ Len(new) = Len(ts)
           /\ \A i \in 1 .. Len(ts) : new[i] = IF i \in S THEN Dead ELSE ts[i]
<1>1. DOMAIN ts = 1 .. Len(ts)
  OBVIOUS
<1>. QED
  BY <1>1, AbortValues DEF Abort

LEMMA NoneOf ==
    /\ Dead.kind \notin {"thought", "timer"} /\ Idle.at = "idle" /\ "idle" \notin Kinds
    /\ \A kind \in {"thought", "debounce", "timer"} :
          Started(kind).kind = kind /\ Started(kind).st = "sleep"
<1>1. Dead.kind \notin {"thought", "timer"} /\ Idle.at = "idle" /\ "idle" \notin Kinds
  BY DEF Dead, Idle, Kinds
<1>2. \A kind \in {"thought", "debounce", "timer"} :
          Started(kind).kind = kind /\ Started(kind).st = "sleep"
  BY DEF Started, Dead
<1>. QED
  BY <1>1, <1>2

(* The task that runs after those that were not aborted.                   *)
LEMMA AppendedIs ==
    ASSUME NEW ts \in Seq(Tasks), NEW S, NEW kind \in {"thought", "debounce", "timer"},
           NEW new, new = Append(Abort(ts, S), Started(kind))
    PROVE  /\ Len(new) = Len(ts) + 1 /\ new[Len(ts) + 1] = Started(kind)
           /\ \A j \in 1 .. Len(new) : j \in 1 .. Len(ts) \/ j = Len(ts) + 1
           /\ \A j \in 1 .. Len(ts) : new[j] = IF j \in S THEN Dead ELSE ts[j]
<1>1. PICK us, s : us = Abort(ts, S) /\ s = Started(kind)
  OBVIOUS
<1>2. us \in Seq(Tasks) /\ Len(us) = Len(ts) /\ s \in Tasks /\ Len(ts) \in Nat
  BY <1>1, AbortValues, TaskValues
<1>3. new = Append(us, s)
  BY <1>1
<1>4. /\ Len(new) = Len(us) + 1 /\ new[Len(us) + 1] = s
      /\ \A j \in 1 .. Len(us) : new[j] = us[j]
  BY <1>2, <1>3
<1>5. \A j \in 1 .. Len(new) : j \in 1 .. Len(ts) \/ j = Len(ts) + 1
  BY <1>2, <1>4
<1>6. \A j \in 1 .. Len(ts) : us[j] = IF j \in S THEN Dead ELSE ts[j]
  BY <1>1, AbortedAre
<1>. QED
  BY <1>1, <1>2, <1>4, <1>5, <1>6

LEMMA AbortedTasks ==
    ASSUME TypeInv, NEW S, tasks' = Abort(tasks, S)
    PROVE  /\ Len(tasks') = Len(tasks)
           /\ \A j \in 1 .. Len(tasks) : tasks'[j] = IF j \in S THEN Dead ELSE tasks[j]
<1>1. tasks \in Seq(Tasks)
  BY Fields
<1>. QED
  BY <1>1, AbortedAre

LEMMA FlushThought ==
    ASSUME TypeInv, TypeInv', ThoughtInv, NEW place \in {"flush thought", "flush chunk"}, Flush(place)
    PROVE  ThoughtInv'
<1>1. TimerInv /\ DebounceInv
  BY DEF ThoughtInv
<1>2. handler'.at # "late"
  BY Fields DEF Flush, Handlers
<1>3. \A j \in 1 .. Len(tasks') : tasks'[j].kind \notin {"thought", "timer"}
  <2>0. PICK S : S = {turn.timer, turn.deb, turn.thDeb}
    OBVIOUS
  <2>1. tasks \in Seq(Tasks) /\ tasks' = Abort(tasks, S)
    BY <2>0, Fields DEF Flush
  <2>2. /\ Len(tasks') = Len(tasks)
        /\ \A j \in 1 .. Len(tasks) : tasks'[j] = IF j \in S THEN Dead ELSE tasks[j]
    BY <2>1, AbortedTasks
  <2>. QED
    BY <1>1, <2>0, <2>2, NoneOf DEF TimerInv, DebounceInv
<1>. QED
  BY <1>2, <1>3, TurnGoes DEF Flush

LEMMA SendFlushThought ==
    ASSUME TypeInv, TypeInv', ThoughtInv, handler.at \in {"flush thought", "flush chunk"},
           NEW then \in {"thought", "chunk"}, SendFlush(then)
    PROVE  ThoughtInv'
<1>1. handler'.at = then /\ UNCHANGED <<updates, turn, tasks>>
  BY DEF SendFlush, Idle
<1>2. turn.thMsg = 0
  BY DEF ThoughtInv, PlaceInv
<1>3. TasksOf(tasks, tasks') /\ TracksOn(turn, turn')
  BY <1>1, TasksAre DEF TracksOn
<1>4. \A n : Ended(n) => Ended(n)'
  BY <1>1 DEF Ended
<1>5. handler'.at \in Kinds
  BY <1>1 DEF Kinds
<1>. QED
  BY <1>2, <1>3, <1>4, <1>5, TracksGoOn

(* A debounce is started anew, or the thought is sent with none left.      *)
LEMMA ThoughtAppendsThought ==
    ASSUME TypeInv, TypeInv', ThoughtInv, ThoughtAppends
    PROVE  ThoughtInv'
<1>1. PICK t : t = Opened(turn, CurMid)
  OBVIOUS
<1>2. /\ UNCHANGED <<updates, screen>>
      /\ t \in Turns /\ t.obj # 0 /\ NewTask \in Nat
      /\ turn'.obj = t.obj /\ turn'.mid = t.mid /\ turn'.timer = t.timer
      /\ \/ /\ turn'.thMsg = 0 /\ turn'.thDeb = 0 /\ handler'.at = "send thought"
            /\ tasks' = Abort(tasks, {t.thDeb})
         \/ /\ turn'.thMsg = t.thMsg /\ turn'.thDeb = NewTask /\ handler' = Idle
            /\ tasks' = Append(Abort(tasks, {t.thDeb}), Started("thought"))
  BY <1>1, ThoughtAppendsMoves
<1>3. handler.at # "idle" /\ turn.timer = 0
  BY DEF ThoughtAppends, Finalizing
<1>4. CurMid \in Nat
  BY <1>3, CurValues
<1>5. /\ turn.obj # 0 => t.timer = turn.timer /\ t.thMsg = turn.thMsg /\ t.thDeb = turn.thDeb
      /\ turn.obj = 0 => Blank(t)
  BY <1>1, <1>4, OpenedTracks
<1>6. t.timer = 0
  BY <1>3, <1>5 DEF Blank
<1>7. TimerInv /\ DebounceInv /\ OpenInv /\ tasks \in Seq(Tasks) /\ Len(tasks) \in Nat
  BY Fields DEF ThoughtInv
<1>8. \A j \in 1 .. Len(tasks) : tasks[j].kind # "timer" /\ (tasks[j].kind = "thought" => j = t.thDeb)
  BY <1>3, <1>5, <1>7 DEF TimerInv, DebounceInv
<1>9. turn'.thMsg = 0 \/ (turn.obj # 0 /\ turn'.thMsg = turn.thMsg)
  BY <1>2, <1>5 DEF Blank
<1>10. OpenInv'
  BY <1>2, <1>7, <1>9 DEF OpenInv
<1>11. CASE /\ handler'.at = "send thought" /\ tasks' = Abort(tasks, {t.thDeb})
  <2>0. PICK S : S = {t.thDeb}
    OBVIOUS
  <2>1. /\ Len(tasks') = Len(tasks)
        /\ \A j \in 1 .. Len(tasks) : tasks'[j] = IF j \in S THEN Dead ELSE tasks[j]
    <3>1. tasks \in Seq(Tasks) /\ tasks' = Abort(tasks, S)
      BY <1>7, <1>11, <2>0
    <3>. QED
      BY <3>1, AbortedAre
  <2>2. \A j \in 1 .. Len(tasks') : tasks'[j].kind \notin {"thought", "timer"}
    BY <1>8, <2>0, <2>1, NoneOf
  <2>3. TimerInv' /\ DebounceInv' /\ PlaceInv'
    BY <1>2, <1>6, <1>11, <2>2 DEF TimerInv, DebounceInv, PlaceInv, NoThoughts
  <2>. QED
    BY <1>10, <2>3 DEF ThoughtInv
<1>12. CASE /\ turn'.thDeb = NewTask /\ handler' = Idle
            /\ tasks' = Append(Abort(tasks, {t.thDeb}), Started("thought"))
  <2>0. PICK S : S = {t.thDeb}
    OBVIOUS
  <2>1. /\ Len(tasks') = Len(tasks) + 1 /\ tasks'[Len(tasks) + 1] = Started("thought")
        /\ \A j \in 1 .. Len(tasks') : j \in 1 .. Len(tasks) \/ j = Len(tasks) + 1
        /\ \A j \in 1 .. Len(tasks) : tasks'[j] = IF j \in S THEN Dead ELSE tasks[j]
    <3>1. tasks \in Seq(Tasks) /\ tasks' = Append(Abort(tasks, S), Started("thought"))
      BY <1>7, <1>12, <2>0
    <3>. QED
      BY <3>1, AppendedIs
  <2>2. \A j \in 1 .. Len(tasks) : tasks'[j].kind \notin {"thought", "timer"}
    BY <1>8, <2>0, <2>1, NoneOf
  <2>3. tasks'[Len(tasks) + 1].kind = "thought" /\ tasks'[Len(tasks) + 1].st = "sleep"
    BY <2>1, NoneOf
  <2>4. TimerInv'
    BY <1>2, <1>6, <2>1, <2>2, <2>3 DEF TimerInv
  <2>5. DebounceInv'
    BY <1>2, <1>6, <1>12, <2>1, <2>2, <2>3 DEF DebounceInv, NewTask
  <2>6. PlaceInv'
    BY <1>12, NoneOf DEF PlaceInv
  <2>. QED
    BY <1>10, <2>4, <2>5, <2>6 DEF ThoughtInv
<1>. QED
  BY <1>2, <1>11, <1>12

LEMMA ThoughtSentThought ==
    ASSUME TypeInv, TypeInv', ThoughtInv, ThoughtSent
    PROVE  ThoughtInv'
<1>1. TimerInv /\ DebounceInv /\ PlaceInv /\ OpenInv /\ NoThoughts
  BY DEF ThoughtInv, PlaceInv, ThoughtSent
<1>2. /\ UNCHANGED <<updates, tasks>> /\ handler' = Idle
      /\ Kept(screen, screen') /\ SameOpen(screen, screen')
      /\ SameSpots(turn, turn')
      /\ \/ turn' = turn
         \/ /\ turn.obj # 0 /\ turn'.mid = turn.mid /\ turn'.timer = turn.timer
            /\ turn'.thDeb = turn.thDeb
            /\ turn'.thMsg = Len(screen') /\ Len(screen') = Len(screen) + 1
            /\ screen'[Len(screen')].open
  BY ThoughtSentMoves
<1>3. CASE turn' = turn
  <2>1. TasksOf(tasks, tasks') /\ TracksOn(turn, turn') /\ OpenOn(screen, screen')
    BY <1>2, <1>3, TasksAre, OpensOn DEF TracksOn
  <2>2. \A n : Ended(n) => Ended(n)'
    BY <1>2 DEF Ended
  <2>. QED
    BY <1>2, <2>1, <2>2, NoneOf, TracksGoOn
<1>4. CASE /\ turn.obj # 0 /\ turn'.mid = turn.mid /\ turn'.timer = turn.timer
           /\ turn'.thMsg = Len(screen') /\ Len(screen') = Len(screen) + 1
           /\ screen'[Len(screen')].open
  <2>1. turn'.obj = turn.obj /\ Len(screen) \in Nat
    BY <1>2, Fields DEF SameSpots
  <2>2. TimerInv'
    BY <1>1, <1>2, <1>4, <2>1 DEF TimerInv, Ended
  <2>3. DebounceInv' /\ PlaceInv'
    BY <1>1, <1>2, NoneOf DEF DebounceInv, PlaceInv, NoThoughts
  <2>4. OpenInv'
    BY <1>4, <2>1 DEF OpenInv
  <2>. QED
    BY <2>2, <2>3, <2>4 DEF ThoughtInv
<1>. QED
  BY <1>2, <1>3, <1>4

(* The turn whose result has come is not that of the text that comes, or   *)
(* the text would be late.                                                 *)
LEMMA ChunkIsNotLate ==
    ASSUME TypeInv, UpdateInv, ThoughtInv, ~LateText, ChunkAppends
    PROVE  turn.timer = 0
<1>1. handler.at = "chunk" /\ ~Different(CurMid)
  BY DEF ChunkAppends
<1>2. handler.upd = Len(updates) /\ Cur[1] = "chunk" /\ handler.upd \in 1 .. Len(updates)
  BY <1>1 DEF UpdateInv, TypeInv, UpdateType
<1>3. WithIds /\ updates \in Seq(Kinds \X Nat)
  BY DEF LateText, TypeInv, UpdateType
<1>4. CurMid = updates[handler.upd][2] /\ CurMid # 0
  BY <1>2, <1>3 DEF CurMid, Cur, UpdateInv
<1>. SUFFICES ASSUME turn.timer # 0 PROVE FALSE
  OBVIOUS
<1>5. turn.obj # 0 /\ Ended(turn.mid)
  BY DEF ThoughtInv, TimerInv
<1>6. turn.mid = CurMid
  BY <1>1, <1>4, <1>5 DEF Different, HasTurn
<1>7. PICK i \in DOMAIN updates : updates[i][2] = CurMid /\ updates[i][1] \in {"result", "error"}
  BY <1>5, <1>6 DEF Ended
<1>8. DOMAIN updates = 1 .. Len(updates) /\ Len(updates) \in Nat
  BY <1>3
<1>9. updates[handler.upd][1] = "chunk"
  BY <1>2 DEF Cur
<1>10. i # handler.upd
  BY <1>7, <1>9
<1>11. i < handler.upd /\ handler.upd \in DOMAIN updates
  BY <1>2, <1>8, <1>10
<1>. QED
  BY <1>4, <1>7, <1>9, <1>11 DEF LateText

LEMMA ChunkThought ==
    ASSUME TypeInv, TypeInv', UpdateInv, ThoughtInv, ~LateText, ChunkAppends
    PROVE  ThoughtInv'
<1>1. PICK o : o = Opened(turn, CurMid)
  OBVIOUS
<1>2. PICK t \in Turns :
              /\ UNCHANGED <<updates, screen>>
              /\ SameSpots(o, t) /\ SameTracks(o, t) /\ o \in Turns /\ o.obj # 0
              /\ \/ /\ turn' = t /\ tasks' = tasks
                    /\ \/ handler' = Idle
                       \/ /\ handler'.at = "late" /\ handler'.msg = t.msg /\ t.timer # 0
                       \/ /\ handler'.at = "edit" /\ handler'.msg = t.msg /\ t.timer = 0
                          /\ handler'.upd = handler.upd
                 \/ t.timer # 0 /\ BeginFinalizing(t, tasks) /\ handler' = Idle
                 \/ /\ SameSpots(t, turn') /\ SameTracks(t, turn') /\ handler' = Idle
                    /\ tasks' = Append(tasks, Started("debounce"))
  BY <1>1, ChunkAppendsMoves
<1>3. handler.at # "idle"
  BY DEF ChunkAppends
<1>4. CurMid \in Nat
  BY <1>3, CurValues
<1>5. turn.timer = 0
  BY ChunkIsNotLate
<1>6. /\ turn.obj # 0 => /\ o.obj = turn.obj /\ o.timer = turn.timer /\ o.thMsg = turn.thMsg
                         /\ o.thDeb = turn.thDeb
      /\ turn.obj = 0 => Blank(o)
  BY <1>1, <1>4, OpenedTracks DEF SameSpots
<1>7. t.timer = 0
  BY <1>2, <1>5, <1>6 DEF SameTracks, Blank
<1>8. SameSpots(o, turn') /\ SameTracks(o, turn')
  BY <1>2, <1>7 DEF SameSpots, SameTracks
<1>9. TracksOn(turn, turn')
  BY <1>5, <1>6, <1>8 DEF TracksOn, SameTracks, SameSpots, Blank, Spotless
<1>10. TasksOf(tasks, tasks')
  BY <1>2, <1>7, TasksAre
<1>11. handler'.at \in {"idle", "edit"}
  BY <1>2, <1>7, NoneOf
<1>12. Kept(screen, screen') /\ SameOpen(screen, screen')
  BY <1>2, KeptSame
<1>13. OpenOn(screen, screen')
  BY <1>12, OpensOn
<1>14. \A n : Ended(n) => Ended(n)'
  BY <1>2 DEF Ended
<1>. QED
  BY <1>9, <1>10, <1>11, <1>13, <1>14, TracksGoOn

LEMMA CollapsesThought ==
    ASSUME TypeInv, TypeInv', ThoughtInv, ResultCollapses
    PROVE  ThoughtInv'
<1>1. TimerInv /\ DebounceInv
  BY DEF ThoughtInv
<1>2. /\ UNCHANGED <<updates, screen>> /\ turn'.obj = turn.obj
      /\ turn'.mid = turn.mid /\ turn'.timer = turn.timer /\ turn'.thMsg = 0
      /\ handler'.at = "collapse" /\ tasks' = Abort(tasks, {turn.thDeb})
  BY CollapseMoves DEF SameSpots
<1>3. PICK S : S = {turn.thDeb}
  OBVIOUS
<1>4. tasks' = Abort(tasks, S)
  BY <1>2, <1>3
<1>5. /\ Len(tasks') = Len(tasks)
      /\ \A j \in 1 .. Len(tasks) : tasks'[j] = IF j \in S THEN Dead ELSE tasks[j]
  BY <1>4, AbortedTasks
<1>6. NoThoughts'
  BY <1>1, <1>3, <1>5, NoneOf DEF NoThoughts, DebounceInv
<1>7. \A j \in 1 .. Len(tasks') : tasks'[j].kind = "timer" => j = turn'.timer
  BY <1>1, <1>2, <1>5, NoneOf DEF TimerInv
<1>8. turn'.timer # 0 => turn'.obj # 0 /\ Ended(turn.mid)'
  BY <1>1, <1>2 DEF TimerInv, Ended
<1>9. TimerInv'
  BY <1>7, <1>8 DEF TimerInv
<1>10. DebounceInv' /\ PlaceInv' /\ OpenInv'
  BY <1>2, <1>6 DEF DebounceInv, PlaceInv, OpenInv, NoThoughts
<1>. QED
  BY <1>9, <1>10 DEF ThoughtInv

LEMMA FinalizesThought ==
    ASSUME TypeInv, TypeInv', UpdateInv, ThoughtInv, ~LateText, ResultFinalizes
    PROVE  ThoughtInv'
<1>1. TimerInv /\ DebounceInv /\ NoThoughts /\ turn.thMsg = 0 /\ handler.at = "collapse"
  BY DEF ThoughtInv, PlaceInv, ResultFinalizes
<1>2. PICK o : o = Opened(turn, CurMid)
  OBVIOUS
<1>3. /\ updates' = updates /\ handler' = Idle /\ turn'.obj # 0
      /\ turn'.mid = o.mid /\ turn'.thMsg = o.thMsg
      /\ NewTask = Len(tasks) + 1 /\ turn'.timer = NewTask
      /\ tasks' = Append(Abort(tasks, {o.timer}), Started("timer"))
  BY <1>2, ResultFinalizesMoves
<1>4. handler.at # "idle" /\ CurMid \in Nat
  BY <1>1, CurValues
<1>5. /\ turn.obj # 0 => o.timer = turn.timer /\ o.thMsg = turn.thMsg
      /\ turn.obj = 0 => o.thMsg = 0
      /\ CurMid # 0 => o.mid = CurMid
  BY <1>2, <1>4, OpenedTracks DEF Blank
<1>6. \A j \in 1 .. Len(tasks) : tasks[j].kind = "timer" => j = o.timer
  <2>1. CASE turn.obj = 0
    <3>1. \A j \in 1 .. Len(tasks) : tasks[j].kind = "timer" => j = 0
      BY <1>1, <2>1 DEF TimerInv
    <3>. QED
      BY <3>1
  <2>2. CASE turn.obj # 0
    BY <1>1, <1>5, <2>2 DEF TimerInv
  <2>. QED
    BY <2>1, <2>2
<1>7. Ended(turn.mid)'
  <2>1. WithIds /\ handler.upd \in 1 .. Len(updates) /\ DOMAIN updates = 1 .. Len(updates)
    BY <1>4 DEF LateText, TypeInv, UpdateType
  <2>2. CurMid = updates[handler.upd][2] /\ CurMid # 0
    BY <2>1 DEF CurMid, Cur, UpdateInv
  <2>3. updates[handler.upd][1] \in {"result", "error"}
    BY <1>1 DEF UpdateInv, Cur
  <2>4. turn'.mid = CurMid
    BY <1>3, <1>5, <2>2
  <2>. QED
    BY <1>3, <2>1, <2>2, <2>3, <2>4 DEF Ended
<1>8. PICK S : S = {o.timer}
  OBVIOUS
<1>9. tasks \in Seq(Tasks) /\ tasks' = Append(Abort(tasks, S), Started("timer"))
  BY <1>3, <1>8, Fields
<1>10. /\ Len(tasks') = Len(tasks) + 1 /\ tasks'[Len(tasks) + 1] = Started("timer")
       /\ \A j \in 1 .. Len(tasks') : j \in 1 .. Len(tasks) \/ j = Len(tasks) + 1
       /\ \A j \in 1 .. Len(tasks) : tasks'[j] = IF j \in S THEN Dead ELSE tasks[j]
  BY <1>9, AppendedIs
<1>11. Started("timer").kind = "timer"
  BY NoneOf
<1>12. \A j \in 1 .. Len(tasks) : tasks'[j].kind \notin {"thought", "timer"}
  BY <1>1, <1>6, <1>8, <1>10, NoneOf DEF NoThoughts
<1>13. TimerInv'
  BY <1>3, <1>7, <1>10, <1>12 DEF TimerInv
<1>14. NoThoughts'
  BY <1>10, <1>11, <1>12 DEF NoThoughts
<1>15. turn'.thMsg = 0
  BY <1>1, <1>3, <1>5
<1>16. DebounceInv' /\ PlaceInv' /\ OpenInv'
  BY <1>3, <1>14, <1>15, NoneOf DEF DebounceInv, PlaceInv, OpenInv, NoThoughts
<1>. QED
  BY <1>13, <1>16 DEF ThoughtInv

(* The steps that leave the thought, the timer and their tasks alone.      *)
LEMMA OtherThought ==
    ASSUME TypeInv, TypeInv', PlacesInv, ThoughtInv,
           ThoughtIgnored \/ ResultStale \/ ToolIgnored \/ ChunkEdited \/ ToolCall \/ ToolUpdate \/ ToolsShown
    PROVE  ThoughtInv'
<1>0. Kept(screen, screen) /\ SameOpen(screen, screen) /\ SameTracks(turn, turn) /\ Len(screen) \in Nat
  BY KeptSame, Fields DEF SameTracks
<1>1. tasks' = tasks /\ updates' = updates
  BY DEF ThoughtIgnored, ResultStale, ToolIgnored, ChunkEdited, ToolCall, ToolUpdate, ToolsShown
<1>2. /\ \A n : Ended(n) => Ended(n)'
      /\ TasksOf(tasks, tasks')
  BY <1>1, TasksAre DEF Ended
<1>3. CASE ThoughtIgnored \/ ResultStale \/ ToolIgnored
  <2>1. handler' = Idle /\ turn' = turn /\ screen' = screen
    BY <1>3 DEF ThoughtIgnored, ResultStale, ToolIgnored
  <2>2. TracksOn(turn, turn') /\ OpenOn(screen, screen') /\ handler'.at = "idle"
    BY <1>0, <2>1, OpensOn, NoneOf DEF TracksOn
  <2>. QED
    BY <1>2, <2>2, TracksGoOn
<1>4. CASE ChunkEdited
  <2>1. handler' = Idle /\ turn' = turn /\ Kept(screen, screen') /\ SameOpen(screen, screen')
    BY <1>4, ChunkEditedEffect DEF ChunkEdited
  <2>2. TracksOn(turn, turn') /\ OpenOn(screen, screen') /\ handler'.at = "idle"
    BY <2>1, OpensOn, NoneOf DEF TracksOn
  <2>. QED
    BY <1>2, <2>2, TracksGoOn
<1>5. CASE ToolCall
  <2>1. /\ screen' = screen /\ handler'.at = "tools"
        /\ turn'.obj = turn.obj /\ turn.timer = 0 /\ turn'.timer = turn.timer
        /\ turn'.thMsg = turn.thMsg /\ turn'.thDeb = turn.thDeb
    BY <1>5, ToolCallPlaces
  <2>2. TracksOn(turn, turn') /\ OpenOn(screen, screen')
    BY <1>0, <2>1, OpensOn DEF TracksOn
  <2>. QED
    BY <1>2, <2>1, <2>2, TracksGoOn
<1>6. CASE ToolUpdate
  <2>1. screen' = screen /\ SameTracks(turn, turn') /\ handler'.at \in {"idle", "tools"}
    BY <1>6, ToolUpdatePlaces, NoneOf DEF ToolUpdate
  <2>2. TracksOn(turn, turn') /\ OpenOn(screen, screen')
    BY <1>0, <2>1, OpensOn DEF TracksOn, SameTracks
  <2>. QED
    BY <1>2, <2>1, <2>2, TracksGoOn
<1>7. CASE ToolsShown
  <2>1. /\ SameTracks(turn, turn') /\ handler' = Idle
        /\ Len(screen) <= Len(screen') /\ SameOpen(screen, screen')
    BY <1>7, ToolsShownPlaces
  <2>2. TracksOn(turn, turn') /\ OpenOn(screen, screen') /\ handler'.at = "idle"
    BY <2>1, NoneOf DEF TracksOn, SameTracks, SameOpen, OpenOn
  <2>. QED
    BY <1>2, <2>2, TracksGoOn
<1>. QED
  BY <1>3, <1>4, <1>5, <1>6, <1>7

LEMMA HandleThought ==
    ASSUME TypeInv, TypeInv', UpdateInv, PlacesInv, ThoughtInv, ~LateText, Handle
    PROVE  ThoughtInv'
<1>1. CASE ThoughtFlushes \/ ChunkFlushes
  <2>1. PICK place \in {"flush thought", "flush chunk"} : Flush(place)
    BY <1>1 DEF ThoughtFlushes, ChunkFlushes
  <2>. QED
    BY <2>1, FlushThought
<1>2. CASE ThoughtFlushed \/ ChunkFlushed
  <2>1. PICK then \in {"thought", "chunk"} : SendFlush(then)
    BY <1>2 DEF ThoughtFlushed, ChunkFlushed
  <2>2. handler.at \in {"flush thought", "flush chunk"}
    BY <1>2 DEF ThoughtFlushed, ChunkFlushed
  <2>. QED
    BY <2>1, <2>2, SendFlushThought
<1>3. ~LateChunkEdited
  BY DEF LateChunkEdited, ThoughtInv, PlaceInv
<1>. QED
  BY <1>1, <1>2, <1>3, ThoughtAppendsThought, ThoughtSentThought, ChunkThought, CollapsesThought,
     FinalizesThought, OtherThought DEF Handle

(* A debounce edits the thought that the turn shows, which is open.        *)
LEMMA ThoughtTaskThought ==
    ASSUME TypeInv, TypeInv', PlacesInv, ThoughtInv, NEW i \in DOMAIN tasks,
           ThoughtFires(i) \/ ThoughtEdited(i) \/ ThoughtDebounced(i)
    PROVE  ThoughtInv' /\ Settled
<1>1. TimerInv /\ DebounceInv /\ PlaceInv /\ OpenInv
  BY DEF ThoughtInv
<1>2. /\ UNCHANGED <<updates, handler>> /\ tasks[i].kind = "thought"
      /\ SameSpots(turn, turn') /\ turn'.mid = turn.mid /\ turn'.timer = turn.timer
      /\ turn'.thMsg = turn.thMsg
      /\ turn'.thDeb = turn.thDeb \/ tasks' = [tasks EXCEPT ![i] = Dead]
      /\ \/ screen' = screen
         \/ /\ tasks[i].st = "send" /\ Kept(screen, screen')
            /\ OpenAt(screen, screen', tasks[i].msg, TRUE)
  BY ThoughtTaskMoves
<1>3. PICK new \in Tasks : /\ tasks' = [tasks EXCEPT ![i] = new]
                           /\ new = Dead \/ (new.kind = "thought" /\ (new.st = "send" => new.msg = turn.thMsg))
  BY ThoughtTaskMoves
<1>4. i \in 1 .. Len(tasks) /\ tasks \in Seq(Tasks) /\ i = turn.thDeb /\ turn'.obj = turn.obj
      /\ turn.obj # 0 /\ turn.timer = 0 /\ (tasks[i].st = "send" => tasks[i].msg = turn.thMsg)
  BY <1>1, <1>2, TaskFields, Fields DEF DebounceInv, SameSpots
<1>5. /\ Len(tasks') = Len(tasks)
      /\ \A j \in 1 .. Len(tasks) : tasks'[j] = IF j = i THEN new ELSE tasks[j]
  BY <1>3, <1>4
<1>6. TimerInv'
  BY <1>1, <1>2, <1>3, <1>4, <1>5, NoneOf DEF TimerInv
<1>7. \A j \in 1 .. Len(tasks) : j # i => tasks[j].kind # "thought"
  BY <1>1, <1>4 DEF DebounceInv
<1>8. new.kind = "thought" => turn'.thDeb = turn.thDeb
  BY <1>2, <1>4, <1>5, NoneOf
<1>9. DebounceInv'
  BY <1>2, <1>3, <1>4, <1>5, <1>7, <1>8, NoneOf DEF DebounceInv
<1>10. PlaceInv'
  BY <1>1, <1>2, <1>4 DEF PlaceInv, NoThoughts
<1>11. OpenOn(screen, screen')
  <2>1. Kept(screen, screen) /\ SameOpen(screen, screen)
    BY KeptSame
  <2>. QED
    BY <1>2, <2>1, OpensOn
<1>12. OpenInv'
  BY <1>1, <1>2, <1>11, OpenStays
<1>13. Settled
  <2>1. CASE screen' = screen
    BY <2>1, SameSettles
  <2>2. CASE Kept(screen, screen') /\ OpenAt(screen, screen', turn.thMsg, TRUE)
    <3>1. ASSUME NEW j \in 1 .. Len(screen), ~screen[j].open PROVE ~screen'[j].open
      <4>1. j # 0 /\ j # turn.thMsg
        BY <1>1, <3>1 DEF OpenInv
      <4>. QED
        BY <2>2, <3>1, <4>1 DEF OpenAt
    <3>2. /\ Len(screen) <= Len(screen')
          /\ \A j \in 1 .. Len(screen) : screen[j].kind = "tools" => screen[j].text \subseteq screen'[j].text
      BY <2>2 DEF Kept
    <3>. QED
      BY <3>1, <3>2 DEF Settled
  <2>. QED
    BY <1>2, <1>4, <2>1, <2>2
<1>. QED
  BY <1>6, <1>9, <1>10, <1>12, <1>13 DEF ThoughtInv

(* The other tasks: the turn goes on, or its timer removes it.             *)
LEMMA OtherTaskThought ==
    ASSUME TypeInv, TypeInv', PlacesInv, ThoughtInv, NEW i \in DOMAIN tasks,
           DebounceFires(i) \/ DebounceClaims(i) \/ DebounceSends(i)
             \/ DebounceStores(i) \/ TimerFires(i) \/ TimerSends(i) \/ TimerRemoves(i)
    PROVE  ThoughtInv'
<1>1. /\ i \in 1 .. Len(tasks) /\ tasks \in Seq(Tasks) /\ SameTracks(turn, turn)
      /\ TimerInv /\ DebounceInv /\ PlaceInv /\ Len(screen) \in Nat
  BY TaskFields, Fields DEF SameTracks, ThoughtInv
<1>2. ASSUME NEW new, tasks' = [tasks EXCEPT ![i] = new],
             new = Dead \/ new.kind = tasks[i].kind, tasks[i].kind \in {"debounce", "timer"}
      PROVE  TasksOf(tasks, tasks')
  BY <1>1, <1>2, TasksAre
<1>3. ASSUME SameTracks(turn, turn'), TasksOf(tasks, tasks'), UNCHANGED <<updates, handler>>,
             Kept(screen, screen'), SameOpen(screen, screen')
      PROVE  ThoughtInv'
  <2>1. TracksOn(turn, turn') /\ OpenOn(screen, screen')
    BY <1>3, OpensOn DEF TracksOn, SameTracks
  <2>2. \A n : Ended(n) => Ended(n)'
    BY <1>3 DEF Ended
  <2>. QED
    BY <1>3, <2>1, <2>2, TracksGoOn
<1>4. ASSUME tasks[i].kind = "timer", turn' = NoTurn, tasks' = [tasks EXCEPT ![i] = Dead],
             handler' = handler
      PROVE  ThoughtInv'
  <2>1. /\ Len(tasks') = Len(tasks)
        /\ \A j \in 1 .. Len(tasks) : tasks'[j] = IF j = i THEN Dead ELSE tasks[j]
    BY <1>1, <1>4
  <2>2. i = turn.timer /\ i # 0
    BY <1>1, <1>4 DEF TimerInv
  <2>3. \A j \in 1 .. Len(tasks) : tasks[j].kind # "thought" /\ (tasks[j].kind = "timer" => j = i)
    BY <1>1, <2>2 DEF TimerInv, DebounceInv
  <2>4. \A j \in 1 .. Len(tasks') : tasks'[j].kind \notin {"thought", "timer"}
    BY <2>1, <2>3, NoneOf
  <2>. QED
    BY <1>1, <1>4, <2>4, TurnGoes DEF PlaceInv
<1>5. CASE DebounceClaims(i) \/ TimerFires(i)
  <2>1. /\ UNCHANGED <<updates, handler, screen>> /\ tasks[i].kind \in {"debounce", "timer"}
        /\ \/ SameTracks(turn, turn')
           \/ tasks[i].kind = "timer" /\ turn' = NoTurn /\ tasks' = [tasks EXCEPT ![i] = Dead]
    BY <1>5, FireMoves
  <2>2. PICK new \in Tasks : tasks' = [tasks EXCEPT ![i] = new] /\ (new = Dead \/ new.kind = tasks[i].kind)
    BY <1>5, FireMoves
  <2>3. TasksOf(tasks, tasks')
    BY <1>2, <2>1, <2>2
  <2>. QED
    BY <1>3, <1>4, <2>1, <2>3, KeptSame
<1>6. CASE DebounceSends(i) \/ TimerSends(i)
  <2>1. /\ UNCHANGED <<updates, handler, turn>> /\ tasks[i].kind \in {"debounce", "timer"}
        /\ Kept(screen, screen') /\ SameOpen(screen, screen')
    BY <1>6, SendMoves
  <2>2. PICK new : tasks' = [tasks EXCEPT ![i] = new] /\ (new = Dead \/ new.kind = tasks[i].kind)
    BY <1>6, SendMoves
  <2>3. TasksOf(tasks, tasks')
    BY <1>2, <2>1, <2>2
  <2>. QED
    BY <1>1, <1>3, <2>1, <2>3
<1>7. CASE DebounceStores(i) \/ TimerRemoves(i)
  <2>1. /\ UNCHANGED <<updates, handler, screen>> /\ tasks' = [tasks EXCEPT ![i] = Dead]
        /\ \/ tasks[i].kind = "debounce" /\ SameTracks(turn, turn')
           \/ tasks[i].kind = "timer" /\ turn' = NoTurn
    BY <1>7, StoreMoves
  <2>2. TasksOf(tasks, tasks')
    BY <1>1, <2>1, TasksAre
  <2>. QED
    BY <1>3, <1>4, <2>1, <2>2, KeptSame
<1>8. CASE DebounceFires(i)
  <2>1. TasksOf(tasks, tasks')
    BY <1>2, <1>8, DebounceReads
  <2>. QED
    BY <1>1, <1>3, <1>8, <2>1, DebounceReads, KeptSame
<1>. QED
  BY <1>5, <1>6, <1>7, <1>8

LEMMA OtherTaskSettles ==
    ASSUME TypeInv, PlacesInv, NEW i \in DOMAIN tasks,
           DebounceFires(i) \/ DebounceClaims(i) \/ DebounceSends(i)
             \/ DebounceStores(i) \/ TimerFires(i) \/ TimerSends(i) \/ TimerRemoves(i)
    PROVE  Settled
<1>1. CASE DebounceSends(i) \/ TimerSends(i)
  <2>1. Kept(screen, screen') /\ SameOpen(screen, screen')
    BY <1>1, SendMoves
  <2>. QED
    BY <2>1, KeptSettles
<1>2. CASE ~(DebounceSends(i) \/ TimerSends(i))
  BY <1>2, DebounceReads, FireMoves, StoreMoves, SameSettles
<1>. QED
  BY <1>1, <1>2

(* The tools of a step that edits a thought: their message is another.     *)
LEMMA ThoughtTaskTools ==
    ASSUME TypeInv, PlacesInv, NEW i \in DOMAIN tasks,
           ThoughtFires(i) \/ ThoughtEdited(i) \/ ThoughtDebounced(i)
    PROVE  Kept(screen, screen')
  BY ThoughtTaskMoves, KeptSame

-----------------------------------------------------------------------------
SettleInv == PlacesInv /\ UpdateInv /\ (LateText \/ ThoughtInv)

LEMMA SettleInit == Init => SettleInv
<1>. SUFFICES ASSUME Init PROVE SettleInv
  OBVIOUS
<1>1. /\ updates = <<>> /\ handler = Idle /\ turn = NoTurn /\ tasks = <<>> /\ screen = <<>>
      /\ handler.at = "idle"
  BY NoneOf DEF Init
<1>2. turn.obj = 0 /\ turn.msg = 0 /\ turn.toolMsg = 0 /\ turn.timer = 0 /\ turn.thMsg = 0
  BY <1>1, BlankTurn DEF Blank, Spotless
<1>3. Len(updates) = 0 /\ Len(tasks) = 0
  BY <1>1
<1>4. PlacesInv
  BY <1>1, <1>2, <1>3 DEF PlacesInv, TurnPlaced, HandlerPlaced, TasksPlaced, Response
<1>5. UpdateInv
  BY <1>1, <1>3 DEF UpdateInv
<1>6. ThoughtInv
  BY <1>1, <1>2, <1>3 DEF ThoughtInv, TimerInv, DebounceInv, PlaceInv, OpenInv
<1>. QED
  BY <1>4, <1>5, <1>6 DEF SettleInv

(* What a step does to the screen that SettledStays forbids.               *)
StepSettles ==
    \A i \in DOMAIN screen :
       /\ screen[i].kind = "tools" => screen[i].text \subseteq screen'[i].text
       /\ ~screen[i].open => ~screen'[i].open \/ LateText

LEMMA SettleStep ==
    ASSUME TypeInv, TypeInv', SettleInv, [Next]_vars
    PROVE  SettleInv' /\ StepSettles
<1>1. PlacesInv /\ UpdateInv /\ (LateText \/ ThoughtInv)
  BY DEF SettleInv
<1>2. DOMAIN screen = 1 .. Len(screen)
  BY Fields
<1>3. Settled => StepSettles
  BY <1>2 DEF Settled, StepSettles
<1>4. ASSUME LateText, Kept(screen, screen') PROVE StepSettles
  BY <1>2, <1>4 DEF Kept, StepSettles
<1>5. ASSUME NEW k \in Kinds, NEW m \in 1 .. MaxTurns, Deliver(k, m)
      PROVE  SettleInv' /\ StepSettles
  <2>1. /\ UpdateInv' /\ UNCHANGED <<turn, tasks, screen>> /\ handler'.at = k
        /\ \A n : Ended(n) => Ended(n)'
        /\ LateText => LateText'
    BY <1>1, <1>5, DeliverUpdate
  <2>2. PlacesInv'
    BY <1>1, <1>5, DeliverPlaces
  <2>3. TasksOf(tasks, tasks') /\ TracksOn(turn, turn') /\ OpenOn(screen, screen')
    BY <2>1, TasksAre, KeptSame, OpensOn DEF TracksOn
  <2>4. ThoughtInv => ThoughtInv'
    BY <2>1, <2>3, TracksGoOn
  <2>. QED
    BY <1>1, <1>3, <2>1, <2>2, <2>4, SameSettles DEF SettleInv
<1>6. CASE Handle
  <2>1. PlacesInv' /\ Settled /\ UpdateInv' /\ updates' = updates
    BY <1>1, <1>6, HandlePlaces, HandleUpdate
  <2>2. LateText' \/ ThoughtInv'
    <3>1. LateText => LateText'
      BY <2>1 DEF LateText
    <3>2. ~LateText => ThoughtInv'
      BY <1>1, <1>6, HandleThought
    <3>. QED
      BY <3>1, <3>2
  <2>. QED
    BY <1>3, <2>1, <2>2 DEF SettleInv
<1>7. ASSUME NEW i \in DOMAIN tasks, Task(i) PROVE SettleInv' /\ StepSettles
  <2>1. PlacesInv'
    BY <1>1, <1>7, TaskPlaces
  <2>2. updates' = updates /\ handler' = handler
    BY <1>7 DEF Task, ThoughtFires, ThoughtEdited, ThoughtDebounced, DebounceFires, DebounceClaims,
       DebounceSends, DebounceStores, TimerFires, TimerSends, TimerRemoves
  <2>3. UpdateInv' /\ (LateText => LateText')
    BY <1>1, <2>2, LedUpdate DEF LateText
  <2>4. CASE ThoughtFires(i) \/ ThoughtEdited(i) \/ ThoughtDebounced(i)
    <3>1. ThoughtInv => ThoughtInv' /\ Settled
      BY <1>1, <2>4, ThoughtTaskThought
    <3>2. Kept(screen, screen')
      BY <1>1, <2>4, ThoughtTaskTools
    <3>. QED
      BY <1>1, <1>3, <1>4, <2>1, <2>3, <3>1, <3>2 DEF SettleInv
  <2>5. CASE DebounceFires(i) \/ DebounceClaims(i) \/ DebounceSends(i)
               \/ DebounceStores(i) \/ TimerFires(i) \/ TimerSends(i) \/ TimerRemoves(i)
    <3>1. ThoughtInv => ThoughtInv'
      BY <1>1, <2>5, OtherTaskThought
    <3>2. Settled
      BY <1>1, <2>5, OtherTaskSettles
    <3>. QED
      BY <1>1, <1>3, <2>1, <2>3, <3>1, <3>2 DEF SettleInv
  <2>. QED
    BY <1>7, <2>4, <2>5 DEF Task
<1>8. CASE UNCHANGED vars
  <2>1. UNCHANGED <<updates, handler, turn, tasks, screen>>
    BY <1>8 DEF vars
  <2>2. PlacesInv'
    BY <1>1, <2>1 DEF PlacesInv, TurnPlaced, HandlerPlaced, TasksPlaced, Response, ShownTools
  <2>3. UpdateInv' /\ (LateText => LateText')
    BY <1>1, <2>1, LedUpdate DEF LateText
  <2>4. ThoughtInv => ThoughtInv'
    <3>1. TasksOf(tasks, tasks') /\ TracksOn(turn, turn') /\ OpenOn(screen, screen')
      BY <2>1, TasksAre, KeptSame, OpensOn DEF TracksOn
    <3>2. \A n : Ended(n) => Ended(n)'
      BY <2>1 DEF Ended
    <3>. QED
      BY <2>1, <3>1, <3>2, TracksGoOn
  <2>. QED
    BY <1>1, <1>3, <2>1, <2>2, <2>3, <2>4, SameSettles DEF SettleInv
<1>. QED
  BY <1>5, <1>6, <1>7, <1>8 DEF Next

(* turn.rs:309: collapse_thought is the end of a thought; a tool call that *)
(* is_terminal does not run again.  What is settled on the screen stays,   *)
(* unless text came after the result of its turn.                          *)
THEOREM SettledStaysHolds == Spec => SettledStays
<1>1. TypeInv /\ TypeInv' /\ SettleInv /\ [Next]_vars => SettleInv'
  BY SettleStep
<1>2. TypeInv /\ TypeInv' /\ SettleInv /\ [Next]_vars => [StepSettles]_screen
  BY SettleStep
<1>3. [StepSettles]_screen <=>
      [\A i \in DOMAIN screen :
          /\ screen[i].kind = "tools" => screen[i].text \subseteq screen'[i].text
          /\ ~screen[i].open => ~screen'[i].open \/ LateText]_screen
  BY DEF StepSettles
<1>. QED
  BY <1>1, <1>2, <1>3, SettleInit, TypeCorrect, PTL DEF Spec, SettledStays
=============================================================================
