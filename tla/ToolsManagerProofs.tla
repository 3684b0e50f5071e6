------------------------- MODULE ToolsManagerProofs -------------------------
(***************************************************************************)
(* Theorems about ToolsManager.                                            *)
(***************************************************************************)
EXTENDS ToolsManager, SequenceTheorems, FiniteSetTheorems, TLAPS

NoTool == CHOOSE t \in Tools : TRUE   \* what Init has for a call's tool
CallRecords ==
    [tool   : Tools \cup {NoTool},
     at     : {"idle", "wasm", "listing", "calling", "aggregating", "done"},
     next   : Nat,
     left   : Nat,
     result : {"none", "ok", "error", "unknown", "list"}]

(* The types of what boots, and of what the calls read and write.          *)
BootType ==
    /\ phase \in {"new", "spawning", "running", "failed", "stopped"}
    /\ endpoint \in {"none", "open", "closed"}
    /\ toSpawn \in Seq(Servers) /\ external \in Seq(Servers) /\ loaded \subseteq Wasm
    /\ health \in [Servers -> {"none", "up", "hung", "dead"}]
    /\ offers \in [Servers -> SUBSET Tools]
CallType ==
    /\ call \in [Calls -> CallRecords]
    /\ \A c \in Calls : call[c].at # "idle" => call[c].next > 0
    /\ inbox \subseteq Servers \X Calls /\ replies \subseteq Servers \X Calls
    /\ ran \in [Calls -> Seq(Servers \cup {"host"})]

(* What boots is complete before the first call is taken: the endpoint is  *)
(* opened last, and it is never open outside the command loop.             *)
BootFirst ==
    /\ endpoint = "open" => phase = "running"
    /\ \A c \in Calls : call[c].at # "idle" => phase \in {"running", "stopped"}
    /\ \A i \in 1 .. Len(external) : health[external[i]] # "none"

(* Where a call is and what has become of it: nobody has run it and nobody *)
(* is asked to before an owner was found; whoever is asked has not run it; *)
(* who owes a reply has.                                                   *)
CallInv(c) ==
    /\ call[c].at \in {"idle", "listing", "aggregating"} => ran[c] = <<>>
    /\ call[c].at \notin {"calling", "done"} =>
          \A s \in Servers : <<s, c>> \notin inbox \cup replies
    /\ call[c].at # "done" => call[c].result = "none"
    /\ call[c].result = "unknown" => \A s \in Servers : <<s, c>> \notin inbox \cup replies
    /\ \A s \in Servers : <<s, c>> \in inbox => ran[c] = <<>> /\ call[c].result # "ok"
    /\ \A s \in Servers : <<s, c>> \in replies => Len(ran[c]) = 1
    /\ \A s, t \in Servers : <<s, c>> \in inbox /\ <<t, c>> \in inbox => s = t
    /\ call[c].at = "wasm" => Len(ran[c]) = 1
    /\ Len(ran[c]) <= 1
    /\ call[c].result = "ok" => Len(ran[c]) = 1
    /\ call[c].result = "unknown" => ran[c] = <<>>

(* The servers that dispatch_tool_inner has passed over do not have the    *)
(* tool or are gone.                                                       *)
Passed(c, n) ==
    \A i \in 1 .. Len(external) :
        i < n /\ call[c].tool \in offers[external[i]] => health[external[i]] = "dead"
SearchInv(c) ==
    /\ call[c].at = "listing" => call[c].tool \notin loaded /\ Passed(c, call[c].next)
    /\ call[c].result = "unknown" => call[c].tool \notin loaded /\ Passed(c, Len(external) + 1)

CallsInv == \A c \in Calls : CallInv(c)
SearchesInv == \A c \in Calls : SearchInv(c)
ToolsInv == BootType /\ CallType /\ BootFirst /\ CallsInv /\ SearchesInv

LEMMA ToolsInit == Init => ToolsInv
<1> SUFFICES ASSUME Init PROVE ToolsInv
  OBVIOUS
<1> USE ToolsAssumption DEF Init
<1>1. BootType
  BY DEF BootType
<1>2. CallType
  BY DEF CallType, CallRecords, NoTool
<1>3. BootFirst
  BY DEF BootFirst
<1>4. CallsInv
  BY DEF CallsInv, CallInv
<1>5. SearchesInv
  BY DEF SearchesInv, SearchInv, Passed
<1> QED
  BY <1>1, <1>2, <1>3, <1>4, <1>5 DEF ToolsInv

(* The order in which a map of configs is walked is a sequence of its keys. *)
LEMMA OrdersTyped == SetToSeqs(Servers) \subseteq Seq(Servers)
<1>1. Cardinality(Servers) \in Nat
  BY ToolsAssumption, FS_CardinalityType
<1> QED
  BY <1>1 DEF SetToSeqs

LEMMA BootTypeStep == BootType /\ [Next]_vars => BootType'
<1> SUFFICES ASSUME BootType, [Next]_vars PROVE BootType'
  OBVIOUS
<1> USE DEF BootType
<1>1. CASE LoadAllTools
  BY <1>1, OrdersTyped DEF LoadAllTools
<1>2. CASE SpawnServer
  <2>1. Head(toSpawn) \in Servers /\ Tail(toSpawn) \in Seq(Servers)
    BY <1>2 DEF SpawnServer
  <2>2. external' \in Seq(Servers)
    <3>1. Append(external, Head(toSpawn)) \in Seq(Servers)
      BY <2>1
    <3> QED
      BY <1>2, <3>1 DEF SpawnServer, Spawn
  <2>3. health' \in [Servers -> {"none", "up", "hung", "dead"}]
    BY <1>2, <2>1 DEF SpawnServer, Spawn
  <2>4. offers' \in [Servers -> SUBSET Tools]
    <3>1. CASE UNCHANGED offers
      BY <3>1
    <3>2. ASSUME NEW tools \in SUBSET Tools, offers' = [offers EXCEPT ![Head(toSpawn)] = tools]
          PROVE  offers' \in [Servers -> SUBSET Tools]
      BY <2>1, <3>2
    <3> QED
      BY <1>2, <3>1, <3>2 DEF SpawnServer, Spawn
  <2> QED
    BY <1>2, <2>1, <2>2, <2>3, <2>4 DEF SpawnServer
<1>3. CASE StartAggregatedServer
  BY <1>3 DEF StartAggregatedServer, SpawnAggregatedServer
<1>4. CASE Loop
  BY <1>4 DEF Loop, GetMcpUrls, GetToolDescriptions, DescribeServer, Described, Stop, bootVars
<1>5. CASE Ask \/ Cancel \/ EpochTick
  BY <1>5 DEF Ask, Cancel, EpochTick, bootVars
<1>6. ASSUME NEW c \in Calls, Dispatch(c) \/ WasmReturns(c) \/ AskForTools(c) PROVE BootType'
  BY <1>6 DEF Dispatch, AggregateToolList, ListTools, UnknownTool, CallTimesOut, CallFails,
     WasmInterrupted, WasmReturns, AskForTools, bootVars
<1>7. ASSUME NEW c \in Calls, NEW t \in Tools, CallTool(c, t) PROVE BootType'
  BY <1>7 DEF CallTool, bootVars
<1>8. ASSUME NEW s \in Servers, ServerFails(s) PROVE BootType'
  BY <1>8 DEF ServerFails, bootVars
<1>9. ASSUME NEW s \in Servers, NEW c \in Calls, ServerRuns(s, c) \/ ServerReplies(s, c) PROVE BootType'
  BY <1>9 DEF ServerRuns, ServerReplies, bootVars
<1>10. CASE UNCHANGED vars
  BY <1>10 DEF vars, bootVars
<1> QED
  BY <1>1, <1>2, <1>3, <1>4, <1>5, <1>6, <1>7, <1>8, <1>9, <1>10 DEF Next, Boot

(* How the record of a call changes.                                       *)
LEMMA RecordUpdates ==
  ASSUME NEW r \in CallRecords
  PROVE  /\ \A n \in Nat : [r EXCEPT !.next = n] \in CallRecords
         /\ \A n \in Nat : [r EXCEPT !.left = n] \in CallRecords
         /\ [r EXCEPT !.at = "calling"] \in CallRecords
         /\ [r EXCEPT !.at = "aggregating", !.next = 1] \in CallRecords
         /\ \A result \in {"ok", "error", "unknown", "list"} :
                [r EXCEPT !.at = "done", !.result = result] \in CallRecords
         /\ \A t \in Tools, at \in {"wasm", "listing"} :
                [r EXCEPT !.tool = t, !.at = at, !.next = 1, !.left = EpochTimeout] \in CallRecords
<1>1. \A n \in Nat : [r EXCEPT !.next = n] \in CallRecords
  BY DEF CallRecords
<1>2. \A n \in Nat : [r EXCEPT !.left = n] \in CallRecords
  BY DEF CallRecords
<1>3. /\ [r EXCEPT !.at = "calling"] \in CallRecords
      /\ [r EXCEPT !.at = "aggregating", !.next = 1] \in CallRecords
  BY DEF CallRecords
<1>4. ASSUME NEW result \in {"ok", "error", "unknown", "list"}
      PROVE  [r EXCEPT !.at = "done", !.result = result] \in CallRecords
  BY DEF CallRecords
<1>5. ASSUME NEW t \in Tools, NEW at \in {"wasm", "listing"}
      PROVE  [r EXCEPT !.tool = t, !.at = at, !.next = 1, !.left = EpochTimeout] \in CallRecords
  BY ToolsAssumption DEF CallRecords
<1> QED
  BY <1>1, <1>2, <1>3, <1>4, <1>5

LEMMA OwnerIsServer ==
  ASSUME BootType, CallType, NEW c \in Calls, call[c].at # "idle", call[c].next <= Len(external)
  PROVE  call[c].next \in 1 .. Len(external) /\ Owner(c) \in Servers
<1>1. call[c].next \in Nat
  BY DEF CallType, CallRecords
<1>2. call[c].next \in 1 .. Len(external)
  BY <1>1 DEF CallType, BootType
<1> QED
  BY <1>2 DEF BootType, Owner

LEMMA CallTypeStep == BootType /\ CallType /\ [Next]_vars => CallType'
<1> SUFFICES ASSUME BootType, CallType, [Next]_vars PROVE CallType'
  OBVIOUS
<1> USE DEF CallType
<1>1. CASE UNCHANGED callVars
  BY <1>1 DEF callVars
<1>2. CASE Boot \/ Loop \/ Ask \/ Cancel
  BY <1>1, <1>2 DEF Boot, LoadAllTools, SpawnServer, StartAggregatedServer, Loop, GetMcpUrls,
     GetToolDescriptions, DescribeServer, Described, Stop, Ask, Cancel
<1>3. ASSUME NEW c \in Calls, NEW r \in CallRecords, r.next > 0, call' = [call EXCEPT ![c] = r]
      PROVE  call' \in [Calls -> CallRecords] /\ \A d \in Calls : call'[d].at # "idle" => call'[d].next > 0
  BY <1>3
<1>4. \A c \in Calls : call[c] \in CallRecords /\ call[c].next \in Nat /\ call[c].left \in Nat
  BY DEF CallRecords
<1>5. CASE EpochTick
  <2> DEFINE runs(c) == call[c].at = "wasm" /\ call[c].left > 0
  <2>1. call' = [c \in Calls |-> IF runs(c) THEN [call[c] EXCEPT !.left = call[c].left - 1] ELSE call[c]]
    BY <1>5 DEF EpochTick
  <2>2. ASSUME NEW c \in Calls, runs(c)
        PROVE  /\ [call[c] EXCEPT !.left = call[c].left - 1] \in CallRecords
               /\ [call[c] EXCEPT !.left = call[c].left - 1].next = call[c].next
               /\ [call[c] EXCEPT !.left = call[c].left - 1].at = call[c].at
    <3>1. call[c].left - 1 \in Nat
      BY <1>4, <2>2
    <3>2. [call[c] EXCEPT !.left = call[c].left - 1] \in CallRecords
      BY <1>4, <3>1, RecordUpdates
    <3> QED
      BY <1>4, <3>2 DEF CallRecords
  <2> HIDE DEF runs
  <2>3. \A c \in Calls : /\ call'[c] \in CallRecords /\ call'[c].next = call[c].next
                         /\ call'[c].at = call[c].at
    BY <1>4, <2>1, <2>2
  <2>4. call' \in [Calls -> CallRecords]
    BY <2>1, <2>3
  <2> QED
    BY <1>5, <2>3, <2>4 DEF EpochTick
<1>6. ASSUME NEW c \in Calls, ListTools(c) PROVE CallType'
  <2>1. Owner(c) \in Servers /\ call[c].next + 1 \in Nat /\ call[c].next > 0
    BY <1>4, <1>6, OwnerIsServer DEF ListTools
  <2>2. inbox' \subseteq Servers \X Calls
    BY <1>6, <2>1 DEF ListTools
  <2>3. \/ call' = [call EXCEPT ![c] = [call[c] EXCEPT !.at = "calling"]]
        \/ call' = [call EXCEPT ![c] = [call[c] EXCEPT !.next = call[c].next + 1]]
    BY <1>6 DEF ListTools
  <2>4. /\ [call[c] EXCEPT !.at = "calling"].next > 0
        /\ [call[c] EXCEPT !.next = call[c].next + 1].next > 0
    BY <1>4, <2>1 DEF CallRecords
  <2> QED
    BY <1>3, <1>4, <1>6, <2>1, <2>2, <2>3, <2>4, RecordUpdates DEF ListTools
<1>7. ASSUME NEW c \in Calls, NEW result \in {"ok", "error", "unknown", "list"},
             call[c].at # "idle", call' = Ended(c, result), UNCHANGED <<inbox, ran>>,
             replies' \subseteq replies
      PROVE  CallType'
  <2>1. call' = [call EXCEPT ![c] = [call[c] EXCEPT !.at = "done", !.result = result]]
    BY <1>7 DEF Ended
  <2>2. [call[c] EXCEPT !.at = "done", !.result = result].next > 0
    BY <1>4, <1>7 DEF CallRecords
  <2> QED
    BY <1>3, <1>4, <1>7, <2>1, <2>2, RecordUpdates
<1>8. ASSUME NEW c \in Calls, AggregateToolList(c) PROVE CallType'
  <2>1. CASE call' = [call EXCEPT ![c].next = @ + 1]
    <3>1. call' = [call EXCEPT ![c] = [call[c] EXCEPT !.next = call[c].next + 1]]
      BY <2>1
    <3>2. call[c].next + 1 \in Nat /\ [call[c] EXCEPT !.next = call[c].next + 1].next > 0
      BY <1>4 DEF CallRecords
    <3> QED
      BY <1>3, <1>4, <1>8, <3>1, <3>2, RecordUpdates DEF AggregateToolList
  <2> QED
    BY <1>7, <1>8, <2>1 DEF AggregateToolList
<1>9. ASSUME NEW c \in Calls, UnknownTool(c) \/ CallTimesOut(c) \/ CallFails(c) \/ WasmInterrupted(c) \/ WasmReturns(c)
      PROVE  CallType'
  BY <1>7, <1>9 DEF UnknownTool, CallTimesOut, CallFails, WasmInterrupted, WasmReturns
<1>10. ASSUME NEW c \in Calls, AskForTools(c) PROVE CallType'
  <2>1. call' = [call EXCEPT ![c] = [call[c] EXCEPT !.at = "aggregating", !.next = 1]]
    BY <1>10 DEF AskForTools
  <2>2. [call[c] EXCEPT !.at = "aggregating", !.next = 1].next > 0
    BY <1>4 DEF CallRecords
  <2> QED
    BY <1>3, <1>4, <1>10, <2>1, <2>2, RecordUpdates DEF AskForTools
<1>11. ASSUME NEW c \in Calls, NEW t \in Tools, CallTool(c, t) PROVE CallType'
  <2>1. HostDispatch(t) \in {"wasm", "listing"}
    BY DEF HostDispatch
  <2>2. call' = [call EXCEPT ![c] = [call[c] EXCEPT !.tool = t, !.at = HostDispatch(t), !.next = 1,
                                                   !.left = EpochTimeout]]
    BY <1>11 DEF CallTool
  <2>3. [call[c] EXCEPT !.tool = t, !.at = HostDispatch(t), !.next = 1, !.left = EpochTimeout].next > 0
    BY <1>4 DEF CallRecords
  <2>4. ran' \in [Calls -> Seq(Servers \cup {"host"})]
    BY <1>11 DEF CallTool
  <2> QED
    BY <1>3, <1>4, <1>11, <2>1, <2>2, <2>3, <2>4, RecordUpdates DEF CallTool
<1>12. ASSUME NEW s \in Servers, ServerFails(s) PROVE CallType'
  BY <1>12 DEF ServerFails
<1>13. ASSUME NEW s \in Servers, NEW c \in Calls, ServerRuns(s, c) PROVE CallType'
  BY <1>13 DEF ServerRuns
<1>14. ASSUME NEW s \in Servers, NEW c \in Calls, ServerReplies(s, c) PROVE CallType'
  <2>1. CASE call' = call
    BY <1>14, <2>1 DEF ServerReplies
  <2> QED
    BY <1>7, <1>14, <2>1 DEF ServerReplies
<1>15. CASE UNCHANGED vars
  BY <1>1, <1>15 DEF vars, callVars
<1> QED
  BY <1>1, <1>2, <1>5, <1>6, <1>8, <1>9, <1>10, <1>11, <1>12, <1>13, <1>14, <1>15 DEF Next, Dispatch

(* What a step does to the place and the result of the calls, so that the  *)
(* invariants need not look into the records again.                        *)
Moves(c, at, result) ==
    /\ \A d \in Calls : d # c => call'[d] = call[d]
    /\ call'[c].at = at /\ call'[c].result = result
    /\ call'[c].tool = call[c].tool

LEMMA EndedMoves ==
  ASSUME CallType, NEW c \in Calls, NEW result, call' = Ended(c, result)
  PROVE  Moves(c, "done", result)
<1>1. call[c] \in CallRecords
  BY DEF CallType
<1>2. call' = [call EXCEPT ![c] = [call[c] EXCEPT !.at = "done", !.result = result]]
  BY DEF Ended
<1>3. /\ [call[c] EXCEPT !.at = "done", !.result = result].at = "done"
      /\ [call[c] EXCEPT !.at = "done", !.result = result].result = result
      /\ [call[c] EXCEPT !.at = "done", !.result = result].tool = call[c].tool
  BY <1>1 DEF CallRecords
<1> QED
  BY <1>2, <1>3 DEF Moves, CallType

LEMMA TickMoves ==
  ASSUME CallType, EpochTick
  PROVE  \A c \in Calls : /\ call'[c].at = call[c].at /\ call'[c].result = call[c].result
                          /\ call'[c].tool = call[c].tool /\ call'[c].next = call[c].next
<1> SUFFICES ASSUME NEW c \in Calls
             PROVE  /\ call'[c].at = call[c].at /\ call'[c].result = call[c].result
                    /\ call'[c].tool = call[c].tool /\ call'[c].next = call[c].next
  OBVIOUS
<1>1. call[c] \in CallRecords
  BY DEF CallType
<1>2. call'[c] = call[c] \/ call'[c] = [call[c] EXCEPT !.left = call[c].left - 1]
  BY DEF EpochTick
<1>3. /\ [call[c] EXCEPT !.left = call[c].left - 1].at = call[c].at
      /\ [call[c] EXCEPT !.left = call[c].left - 1].result = call[c].result
      /\ [call[c] EXCEPT !.left = call[c].left - 1].tool = call[c].tool
      /\ [call[c] EXCEPT !.left = call[c].left - 1].next = call[c].next
  BY <1>1 DEF CallRecords
<1> QED
  BY <1>2, <1>3

LEMMA AskMoves ==
  ASSUME CallType, NEW c \in Calls, AskForTools(c)
  PROVE  Moves(c, "aggregating", call[c].result)
<1>1. call[c] \in CallRecords
  BY DEF CallType
<1>2. call' = [call EXCEPT ![c] = [call[c] EXCEPT !.at = "aggregating", !.next = 1]]
  BY DEF AskForTools
<1>3. /\ [call[c] EXCEPT !.at = "aggregating", !.next = 1].at = "aggregating"
      /\ [call[c] EXCEPT !.at = "aggregating", !.next = 1].result = call[c].result
      /\ [call[c] EXCEPT !.at = "aggregating", !.next = 1].tool = call[c].tool
  BY <1>1 DEF CallRecords
<1> QED
  BY <1>2, <1>3 DEF Moves, CallType

LEMMA AggregateMoves ==
  ASSUME CallType, NEW c \in Calls, AggregateToolList(c)
  PROVE  Moves(c, "aggregating", call[c].result) \/ Moves(c, "done", "list")
<1>1. call[c] \in CallRecords
  BY DEF CallType
<1>2. CASE call' = [call EXCEPT ![c].next = @ + 1]
  <2>1. call' = [call EXCEPT ![c] = [call[c] EXCEPT !.next = call[c].next + 1]]
    BY <1>2
  <2>2. /\ [call[c] EXCEPT !.next = call[c].next + 1].at = call[c].at
        /\ [call[c] EXCEPT !.next = call[c].next + 1].result = call[c].result
        /\ [call[c] EXCEPT !.next = call[c].next + 1].tool = call[c].tool
    BY <1>1 DEF CallRecords
  <2> QED
    BY <2>1, <2>2 DEF Moves, CallType, AggregateToolList
<1> QED
  BY <1>2, EndedMoves DEF AggregateToolList

LEMMA ListMoves ==
  ASSUME CallType, NEW c \in Calls, ListTools(c)
  PROVE  \/ /\ call[c].tool \in Listed(Owner(c)) /\ inbox' = inbox \cup {<<Owner(c), c>>}
            /\ Moves(c, "calling", call[c].result)
         \/ /\ call[c].tool \notin Listed(Owner(c)) /\ inbox' = inbox
            /\ Moves(c, "listing", call[c].result) /\ call'[c].next = call[c].next + 1
<1>1. call[c] \in CallRecords
  BY DEF CallType
<1>2. CASE call[c].tool \in Listed(Owner(c))
  <2>1. call' = [call EXCEPT ![c] = [call[c] EXCEPT !.at = "calling"]] /\ inbox' = inbox \cup {<<Owner(c), c>>}
    BY <1>2 DEF ListTools
  <2>2. /\ [call[c] EXCEPT !.at = "calling"].at = "calling"
        /\ [call[c] EXCEPT !.at = "calling"].result = call[c].result
        /\ [call[c] EXCEPT !.at = "calling"].tool = call[c].tool
    BY <1>1 DEF CallRecords
  <2> QED
    BY <1>2, <2>1, <2>2 DEF Moves, CallType
<1>3. CASE call[c].tool \notin Listed(Owner(c))
  <2>1. call' = [call EXCEPT ![c] = [call[c] EXCEPT !.next = call[c].next + 1]] /\ inbox' = inbox
    BY <1>3 DEF ListTools
  <2>2. /\ [call[c] EXCEPT !.next = call[c].next + 1].at = call[c].at
        /\ [call[c] EXCEPT !.next = call[c].next + 1].result = call[c].result
        /\ [call[c] EXCEPT !.next = call[c].next + 1].tool = call[c].tool
        /\ [call[c] EXCEPT !.next = call[c].next + 1].next = call[c].next + 1
    BY <1>1 DEF CallRecords
  <2> QED
    BY <1>3, <2>1, <2>2 DEF Moves, CallType, ListTools
<1> QED
  BY <1>2, <1>3

LEMMA CallMoves ==
  ASSUME CallType, NEW c \in Calls, NEW t \in Tools, CallTool(c, t)
  PROVE  /\ \A d \in Calls : d # c => call'[d] = call[d]
         /\ call'[c].at = HostDispatch(t) /\ call'[c].result = call[c].result
         /\ call'[c].tool = t /\ call'[c].next = 1
<1>1. call[c] \in CallRecords
  BY DEF CallType
<1> DEFINE r == [call[c] EXCEPT !.tool = t, !.at = HostDispatch(t), !.next = 1, !.left = EpochTimeout]
<1>2. call' = [call EXCEPT ![c] = r]
  BY DEF CallTool
<1>3. r.at = HostDispatch(t) /\ r.result = call[c].result /\ r.tool = t /\ r.next = 1
  BY <1>1 DEF CallRecords
<1> HIDE DEF r
<1> QED
  BY <1>2, <1>3 DEF CallType

(* The actions of which a call is the subject, one of which ends it.       *)
LEMMA DispatchMoves ==
  ASSUME CallType, NEW c \in Calls,
         UnknownTool(c) \/ CallTimesOut(c) \/ CallFails(c) \/ WasmInterrupted(c) \/ WasmReturns(c)
  PROVE  \/ call[c].at = "listing" /\ call[c].next > Len(external) /\ Moves(c, "done", "unknown")
         \/ call[c].at \in {"calling", "wasm"} /\ Moves(c, "done", "error")
         \/ call[c].at = "wasm" /\ Moves(c, "done", "ok")
  BY EndedMoves DEF UnknownTool, CallTimesOut, CallFails, WasmInterrupted, WasmReturns

LEMMA BootFirstStep == BootType /\ CallType /\ BootFirst /\ [Next]_vars => BootFirst'
<1> SUFFICES ASSUME BootType, CallType, BootFirst, [Next]_vars PROVE BootFirst'
  OBVIOUS
<1> USE DEF BootFirst
<1>1. CASE LoadAllTools
  BY <1>1 DEF LoadAllTools, callVars
<1>2. CASE SpawnServer
  <2>1. Head(toSpawn) \in Servers
    BY <1>2 DEF SpawnServer, BootType
  <2>2. CASE UNCHANGED <<external, health, offers>>
    BY <1>2, <2>2 DEF SpawnServer, callVars
  <2>3. CASE external' = Append(external, Head(toSpawn)) /\ health' = [health EXCEPT ![Head(toSpawn)] = "up"]
    <3>1. ASSUME NEW i \in 1 .. Len(external') PROVE health'[external'[i]] # "none"
      <4>1. CASE i = Len(external) + 1
        BY <2>1, <2>3, <4>1 DEF BootType
      <4>2. CASE i \in 1 .. Len(external)
        BY <2>1, <2>3, <4>2 DEF BootType
      <4> QED
        BY <2>1, <2>3, <3>1, <4>1, <4>2 DEF BootType
    <3> QED
      BY <1>2, <3>1 DEF SpawnServer, callVars
  <2> QED
    BY <1>2, <2>2, <2>3 DEF SpawnServer, Spawn
<1>3. CASE StartAggregatedServer
  BY <1>3 DEF StartAggregatedServer, SpawnAggregatedServer, callVars
<1>4. CASE Stop
  <2>1. UNCHANGED <<call, external, health>> /\ endpoint' # "open"
    BY <1>4 DEF Stop, callVars
  <2>2. \/ phase = "running" /\ phase' = "stopped"
        \/ UNCHANGED phase
    BY <1>4 DEF Stop, AtSelect
  <2> QED
    BY <2>1, <2>2
<1>5. CASE GetMcpUrls \/ GetToolDescriptions \/ DescribeServer \/ Described \/ Ask \/ Cancel
  BY <1>5 DEF GetMcpUrls, GetToolDescriptions, DescribeServer, Described, Ask, Cancel, bootVars, callVars
<1>6. CASE EpochTick
  BY <1>6, TickMoves DEF EpochTick, bootVars
<1>7. ASSUME NEW c \in Calls,
             UnknownTool(c) \/ CallTimesOut(c) \/ CallFails(c) \/ WasmInterrupted(c) \/ WasmReturns(c)
      PROVE  BootFirst'
  <2>1. UNCHANGED <<endpoint, phase, external, health>>
    BY <1>7 DEF UnknownTool, CallTimesOut, CallFails, WasmInterrupted, WasmReturns, bootVars
  <2> QED
    BY <1>7, <2>1, DispatchMoves DEF Moves
<1>8. ASSUME NEW c \in Calls, AggregateToolList(c) \/ ListTools(c) PROVE BootFirst'
  <2>1. UNCHANGED <<endpoint, phase, external, health>> /\ call[c].at # "idle"
    BY <1>8 DEF AggregateToolList, ListTools, bootVars
  <2> QED
    BY <1>8, <2>1, AggregateMoves, ListMoves DEF Moves
<1>9. ASSUME NEW c \in Calls, AskForTools(c) PROVE BootFirst'
  <2>1. UNCHANGED <<endpoint, phase, external, health>> /\ endpoint = "open"
    BY <1>9 DEF AskForTools, bootVars
  <2> QED
    BY <1>9, <2>1, AskMoves DEF Moves
<1>10. ASSUME NEW c \in Calls, NEW t \in Tools, CallTool(c, t) PROVE BootFirst'
  <2>1. UNCHANGED <<endpoint, phase, external, health>> /\ endpoint = "open"
    BY <1>10 DEF CallTool, bootVars
  <2> QED
    BY <1>10, <2>1, CallMoves
<1>11. ASSUME NEW s \in Servers, ServerFails(s) PROVE BootFirst'
  BY <1>11 DEF ServerFails, bootVars, BootType
<1>12. ASSUME NEW s \in Servers, NEW c \in Calls, ServerRuns(s, c) PROVE BootFirst'
  BY <1>12 DEF ServerRuns, bootVars
<1>13. ASSUME NEW s \in Servers, NEW c \in Calls, ServerReplies(s, c) PROVE BootFirst'
  <2>1. UNCHANGED <<endpoint, phase, external, health>>
    BY <1>13 DEF ServerReplies, bootVars
  <2>2. UNCHANGED call \/ (call[c].at = "calling" /\ Moves(c, "done", "ok"))
    BY <1>13, EndedMoves DEF ServerReplies
  <2> QED
    BY <2>1, <2>2 DEF Moves
<1>14. CASE UNCHANGED vars
  BY <1>14 DEF vars, bootVars, callVars
<1> QED
  BY <1>1, <1>2, <1>3, <1>4, <1>5, <1>6, <1>7, <1>8, <1>9, <1>10, <1>11, <1>12, <1>13, <1>14
     DEF Next, Boot, Loop, Dispatch

(* A call that a step leaves alone stays as sound as it was: the servers   *)
(* may forget it, and nothing else happens to it.                          *)
LEMMA CallKept ==
  ASSUME NEW d \in Calls, CallInv(d),
         call'[d].at = call[d].at, call'[d].result = call[d].result, ran'[d] = ran[d],
         \A s \in Servers : (<<s, d>> \in inbox' => <<s, d>> \in inbox)
                            /\ (<<s, d>> \in replies' => <<s, d>> \in replies)
  PROVE  CallInv(d)'
  BY DEF CallInv

(* One that the manager is done with, in a way that fits what was run.     *)
LEMMA CallEnds ==
  ASSUME NEW d \in Calls, CallInv(d), NEW result, Moves(d, "done", result),
         result = "ok" => Len(ran[d]) = 1,
         result = "unknown" => call[d].at = "listing",
         UNCHANGED <<inbox, ran>>, \A s \in Servers : <<s, d>> \in replies' => <<s, d>> \in replies
  PROVE  CallInv(d)'
<1>1. <<>> \notin {ran[d]} \/ Len(ran[d]) # 1
  OBVIOUS
<1> QED
  BY <1>1 DEF CallInv, Moves

LEMMA CallsStep == BootType /\ CallType /\ CallsInv /\ [Next]_vars => CallsInv'
<1> SUFFICES ASSUME BootType, CallType, CallsInv, [Next]_vars, NEW d \in Calls PROVE CallInv(d)'
  BY DEF CallsInv
<1>1. CallInv(d)
  BY DEF CallsInv
<1>2. CASE UNCHANGED callVars
  BY <1>1, <1>2, CallKept DEF callVars
<1>3. CASE Boot \/ Loop \/ Ask \/ Cancel \/ UNCHANGED vars
  BY <1>2, <1>3 DEF Boot, LoadAllTools, SpawnServer, StartAggregatedServer, Loop, GetMcpUrls,
     GetToolDescriptions, DescribeServer, Described, Stop, Ask, Cancel, vars
<1>4. CASE EpochTick
  <2>1. UNCHANGED <<inbox, replies, ran>>
    BY <1>4 DEF EpochTick
  <2> QED
    BY <1>1, <1>4, <2>1, CallKept, TickMoves
<1>5. ASSUME NEW c \in Calls,
             UnknownTool(c) \/ CallTimesOut(c) \/ CallFails(c) \/ WasmInterrupted(c) \/ WasmReturns(c)
      PROVE  CallInv(d)'
  <2>1. UNCHANGED <<inbox, replies, ran>>
    BY <1>5 DEF UnknownTool, CallTimesOut, CallFails, WasmInterrupted, WasmReturns
  <2>2. CASE d # c
    BY <1>1, <1>5, <2>1, <2>2, CallKept, DispatchMoves DEF Moves
  <2>3. CASE d = c
    <3>1. \/ call[d].at = "listing" /\ Moves(d, "done", "unknown")
          \/ Moves(d, "done", "error")
          \/ call[d].at = "wasm" /\ Moves(d, "done", "ok")
      BY <1>5, <2>3, DispatchMoves
    <3>2. call[d].at = "wasm" => Len(ran[d]) = 1
      BY <1>1 DEF CallInv
    <3> QED
      BY <1>1, <2>1, <3>1, <3>2, CallEnds
  <2> QED
    BY <2>2, <2>3
<1>6. ASSUME NEW c \in Calls, AggregateToolList(c) PROVE CallInv(d)'
  <2>1. UNCHANGED <<inbox, replies, ran>> /\ call[c].at = "aggregating"
    BY <1>6 DEF AggregateToolList
  <2>2. CASE d # c
    BY <1>1, <1>6, <2>1, <2>2, CallKept, AggregateMoves DEF Moves
  <2>3. CASE d = c /\ Moves(d, "done", "list")
    BY <1>1, <2>1, <2>3, CallEnds
  <2>4. CASE d = c /\ Moves(d, "aggregating", call[d].result)
    BY <1>1, <2>1, <2>4, CallKept DEF Moves
  <2> QED
    BY <1>6, <2>2, <2>3, <2>4, AggregateMoves
<1>7. ASSUME NEW c \in Calls, AskForTools(c) PROVE CallInv(d)'
  <2>1. UNCHANGED <<inbox, replies, ran>> /\ call[c].at = "idle" /\ Moves(c, "aggregating", call[c].result)
    BY <1>7, AskMoves DEF AskForTools
  <2>2. CASE d # c
    BY <1>1, <2>1, <2>2, CallKept DEF Moves
  <2>3. CASE d = c
    BY <1>1, <2>1, <2>3 DEF Moves, CallInv
  <2> QED
    BY <2>2, <2>3
<1>8. ASSUME NEW c \in Calls, NEW t \in Tools, CallTool(c, t) PROVE CallInv(d)'
  <2>1. UNCHANGED <<inbox, replies>> /\ call[c].at = "idle"
    BY <1>8 DEF CallTool
  <2>2. CASE d # c
    <3>1. ran'[d] = ran[d]
      BY <1>8, <2>2 DEF CallTool, CallType
    <3> QED
      BY <1>1, <1>8, <2>1, <2>2, <3>1, CallKept, CallMoves
  <2>3. CASE d = c
    <3>1. ran[d] = <<>> /\ call[d].result = "none" /\ \A s \in Servers : <<s, d>> \notin inbox \cup replies
      BY <1>1, <2>1, <2>3 DEF CallInv
    <3>2. \/ call'[d].at = "wasm" /\ Len(ran'[d]) = 1
          \/ call'[d].at = "listing" /\ ran'[d] = <<>>
      <4>1. Len(Append(ran[d], "host")) = 1
        BY <3>1
      <4>2. HostDispatch(t) \in {"wasm", "listing"}
        BY DEF HostDispatch
      <4>3. ran'[d] = IF HostDispatch(t) = "wasm" THEN Append(ran[d], "host") ELSE ran[d]
        BY <1>8, <2>3 DEF CallTool, CallType
      <4> QED
        BY <1>8, <2>3, <3>1, <4>1, <4>2, <4>3, CallMoves
    <3>3. call'[d].result = "none"
      BY <1>8, <2>3, <3>1, CallMoves
    <3>4. \A s \in Servers : <<s, d>> \notin inbox' /\ <<s, d>> \notin replies'
      BY <2>1, <3>1
    <3>5. CASE call'[d].at = "wasm" /\ Len(ran'[d]) = 1
      BY <3>3, <3>4, <3>5 DEF CallInv
    <3>6. CASE call'[d].at = "listing" /\ ran'[d] = <<>>
      BY <3>3, <3>4, <3>6 DEF CallInv
    <3> QED
      BY <3>2, <3>5, <3>6
  <2> QED
    BY <2>2, <2>3
<1>9. ASSUME NEW c \in Calls, ListTools(c) PROVE CallInv(d)'
  <2>1. UNCHANGED <<replies, ran>> /\ call[c].at = "listing"
    BY <1>9 DEF ListTools
  <2>2. CASE d # c
    BY <1>1, <1>9, <2>1, <2>2, CallKept, ListMoves DEF Moves
  <2>3. CASE d = c /\ inbox' = inbox /\ Moves(d, "listing", call[d].result)
    BY <1>1, <2>1, <2>3, CallKept DEF Moves
  <2>4. CASE d = c /\ inbox' = inbox \cup {<<Owner(d), d>>} /\ Moves(d, "calling", call[d].result)
    <3>1. ran[d] = <<>> /\ call[d].result = "none" /\ \A s \in Servers : <<s, d>> \notin inbox \cup replies
      BY <1>1, <2>1, <2>4 DEF CallInv
    <3>2. \A s \in Servers : <<s, d>> \in inbox' => s = Owner(d)
      BY <2>4, <3>1
    <3> QED
      BY <2>1, <2>4, <3>1, <3>2 DEF CallInv, Moves
  <2> QED
    BY <1>9, <2>2, <2>3, <2>4, ListMoves
<1>10. ASSUME NEW s \in Servers, ServerFails(s) PROVE CallInv(d)'
  BY <1>1, <1>10, CallKept DEF ServerFails
<1>11. ASSUME NEW s \in Servers, NEW c \in Calls, ServerRuns(s, c) PROVE CallInv(d)'
  <2>1. UNCHANGED call /\ inbox' = inbox \ {<<s, c>>} /\ replies' = replies \cup {<<s, c>>} /\ <<s, c>> \in inbox
    BY <1>11 DEF ServerRuns
  <2>2. CASE d # c
    <3>1. ran'[d] = ran[d]
      BY <1>11, <2>2 DEF ServerRuns, CallType
    <3> QED
      BY <1>1, <2>1, <2>2, <3>1, CallKept
  <2>3. CASE d = c
    <3>1. /\ ran[d] = <<>> /\ call[d].result # "ok" /\ call[d].result # "unknown"
          /\ call[d].at \in {"calling", "done"}
          /\ \A t \in Servers : <<t, d>> \notin inbox'
      BY <1>1, <2>1, <2>3 DEF CallInv
    <3>2. Len(ran'[d]) = 1
      <4>1. Len(Append(ran[d], s)) = 1
        BY <3>1
      <4> QED
        BY <1>11, <2>3, <4>1 DEF ServerRuns, CallType
    <3> QED
      BY <1>1, <2>1, <3>1, <3>2 DEF CallInv
  <2> QED
    BY <2>2, <2>3
<1>12. ASSUME NEW s \in Servers, NEW c \in Calls, ServerReplies(s, c) PROVE CallInv(d)'
  <2>1. UNCHANGED <<inbox, ran>> /\ replies' \subseteq replies /\ <<s, c>> \in replies
    BY <1>12 DEF ServerReplies
  <2>2. UNCHANGED call \/ Moves(c, "done", "ok")
    BY <1>12, EndedMoves DEF ServerReplies
  <2>3. CASE d # c \/ UNCHANGED call
    BY <1>1, <2>1, <2>2, <2>3, CallKept DEF Moves
  <2>4. CASE d = c /\ Moves(d, "done", "ok")
    <3>1. Len(ran[d]) = 1
      BY <1>1, <2>1, <2>4 DEF CallInv
    <3> QED
      BY <1>1, <2>1, <2>4, <3>1, CallEnds
  <2> QED
    BY <2>2, <2>3, <2>4
<1> QED
  BY <1>3, <1>4, <1>5, <1>6, <1>7, <1>8, <1>9, <1>10, <1>11, <1>12 DEF Next, Dispatch

(* A search that a step does not carry on: what boots is fixed by then,    *)
(* and a server that is gone stays gone.                                   *)
LEMMA SearchKept ==
  ASSUME NEW d \in Calls, BootType, SearchInv(d),
         UNCHANGED <<external, offers, loaded>>, call'[d].tool = call[d].tool,
         call'[d].at = "listing" => call[d].at = "listing" /\ call'[d].next = call[d].next,
         call'[d].result = "unknown" => call[d].result = "unknown",
         \A s \in Servers : health[s] = "dead" => health'[s] = "dead"
  PROVE  SearchInv(d)'
<1>1. \A i \in 1 .. Len(external) : external[i] \in Servers
  BY DEF BootType
<1> QED
  BY <1>1 DEF SearchInv, Passed

LEMMA SearchesStep == ToolsInv /\ [Next]_vars => SearchesInv'
<1> SUFFICES ASSUME ToolsInv, [Next]_vars, NEW d \in Calls PROVE SearchInv(d)'
  BY DEF SearchesInv
<1> BootType /\ CallType /\ BootFirst /\ CallInv(d) /\ SearchInv(d)
  BY DEF ToolsInv, CallsInv, SearchesInv
<1>1. CASE UNCHANGED <<call, external, offers, loaded, health>>
  BY <1>1 DEF SearchInv, Passed
<1>2. CASE Loop \/ Ask \/ Cancel \/ UNCHANGED vars
  BY <1>1, <1>2 DEF Loop, GetMcpUrls, GetToolDescriptions, DescribeServer, Described, Stop, Ask, Cancel,
     vars, callVars, bootVars
<1>3. CASE Boot
  <2>1. phase \in {"new", "spawning"} /\ UNCHANGED call
    BY <1>3 DEF Boot, LoadAllTools, SpawnServer, StartAggregatedServer, callVars
  <2>2. call[d].at = "idle" /\ call[d].result = "none"
    BY <2>1 DEF BootFirst, CallInv
  <2> QED
    BY <2>1, <2>2 DEF SearchInv
<1>4. CASE EpochTick
  <2>1. UNCHANGED <<external, offers, loaded, health>>
    BY <1>4 DEF EpochTick, bootVars
  <2> QED
    BY <1>4, <2>1, SearchKept, TickMoves
<1>5. ASSUME NEW c \in Calls,
             UnknownTool(c) \/ CallTimesOut(c) \/ CallFails(c) \/ WasmInterrupted(c) \/ WasmReturns(c)
      PROVE  SearchInv(d)'
  <2>1. UNCHANGED <<external, offers, loaded, health>>
    BY <1>5 DEF UnknownTool, CallTimesOut, CallFails, WasmInterrupted, WasmReturns, bootVars
  <2>2. CASE d # c
    BY <1>5, <2>1, <2>2, SearchKept, DispatchMoves DEF Moves
  <2>3. CASE d = c /\ \E result \in {"ok", "error"} : Moves(d, "done", result)
    BY <2>1, <2>3, SearchKept DEF Moves
  <2>4. CASE d = c /\ call[d].at = "listing" /\ call[d].next > Len(external) /\ Moves(d, "done", "unknown")
    <3>1. call[d].tool \notin loaded /\ Passed(d, call[d].next)
      BY <2>4 DEF SearchInv
    <3>2. Passed(d, Len(external) + 1)
      <4>1. call[d].next \in Nat /\ Len(external) \in Nat
        BY DEF CallType, CallRecords, BootType
      <4> QED
        BY <2>4, <3>1, <4>1 DEF Passed
    <3> QED
      BY <2>1, <2>4, <3>1, <3>2 DEF SearchInv, Passed, Moves
  <2> QED
    BY <1>5, <2>2, <2>3, <2>4, DispatchMoves
<1>6. ASSUME NEW c \in Calls, AggregateToolList(c) \/ AskForTools(c) PROVE SearchInv(d)'
  <2>1. UNCHANGED <<external, offers, loaded, health>>
    BY <1>6 DEF AggregateToolList, AskForTools, bootVars
  <2>2. Moves(c, "aggregating", call[c].result) \/ Moves(c, "done", "list")
    BY <1>6, AggregateMoves, AskMoves
  <2> QED
    BY <2>1, <2>2, SearchKept DEF Moves
<1>7. ASSUME NEW c \in Calls, NEW t \in Tools, CallTool(c, t) PROVE SearchInv(d)'
  <2>1. UNCHANGED <<external, offers, loaded, health>> /\ call[c].at = "idle"
    BY <1>7 DEF CallTool, bootVars
  <2>2. CASE d # c
    BY <1>7, <2>1, <2>2, SearchKept, CallMoves
  <2>3. CASE d = c
    <3>1. call'[d].at = HostDispatch(t) /\ call'[d].tool = t /\ call'[d].next = 1 /\ call'[d].result = "none"
      BY <1>7, <2>1, <2>3, CallMoves DEF CallInv
    <3>2. call'[d].at = "listing" => call'[d].tool \notin loaded'
      BY <2>1, <3>1 DEF HostDispatch
    <3> QED
      BY <3>1, <3>2 DEF SearchInv, Passed
  <2> QED
    BY <2>2, <2>3
<1>8. ASSUME NEW c \in Calls, ListTools(c) PROVE SearchInv(d)'
  <2>1. /\ UNCHANGED <<external, offers, loaded, health>> /\ call[c].at = "listing"
        /\ call[c].next <= Len(external) /\ health[Owner(c)] # "hung"
    BY <1>8 DEF ListTools, bootVars
  <2>2. CASE d # c
    BY <1>8, <2>1, <2>2, SearchKept, ListMoves DEF Moves
  <2>3. CASE d = c /\ Moves(d, "calling", call[d].result)
    BY <2>1, <2>3, SearchKept DEF Moves
  <2>4. CASE d = c /\ call[d].tool \notin Listed(Owner(d)) /\ Moves(d, "listing", call[d].result)
             /\ call'[d].next = call[d].next + 1
    <3>1. call[d].next \in 1 .. Len(external) /\ Owner(d) = external[call[d].next] /\ Owner(d) \in Servers
      BY <2>1, <2>4, OwnerIsServer DEF Owner
    <3>2. call[d].tool \in offers[Owner(d)] => health[Owner(d)] = "dead"
      BY <2>1, <2>4, <3>1 DEF Listed, BootType, BootFirst
    <3>3. Passed(d, call[d].next) /\ call[d].tool \notin loaded
      BY <2>1, <2>4 DEF SearchInv
    <3>4. Passed(d, call[d].next + 1)
      BY <3>1, <3>2, <3>3 DEF Passed
    <3>5. call[d].result = "none"
      BY <2>1, <2>4 DEF CallInv
    <3> QED
      BY <2>1, <2>4, <3>3, <3>4, <3>5 DEF SearchInv, Passed, Moves
  <2> QED
    BY <1>8, <2>2, <2>3, <2>4, ListMoves
<1>9. ASSUME NEW s \in Servers, ServerFails(s) PROVE SearchInv(d)'
  <2>1. UNCHANGED <<external, offers, loaded, call>>
    BY <1>9 DEF ServerFails, bootVars
  <2>2. \A t \in Servers : health[t] = "dead" => health'[t] = "dead"
    BY <1>9 DEF ServerFails, BootType
  <2> QED
    BY <2>1, <2>2, SearchKept
<1>10. ASSUME NEW s \in Servers, NEW c \in Calls, ServerRuns(s, c) PROVE SearchInv(d)'
  BY <1>1, <1>10 DEF ServerRuns, bootVars
<1>11. ASSUME NEW s \in Servers, NEW c \in Calls, ServerReplies(s, c) PROVE SearchInv(d)'
  <2>1. UNCHANGED <<external, offers, loaded, health>>
    BY <1>11 DEF ServerReplies, bootVars
  <2>2. UNCHANGED call \/ Moves(c, "done", "ok")
    BY <1>11, EndedMoves DEF ServerReplies
  <2> QED
    BY <2>1, <2>2, SearchKept DEF Moves
<1> QED
  BY <1>2, <1>3, <1>4, <1>5, <1>6, <1>7, <1>8, <1>9, <1>10, <1>11 DEF Next, Dispatch

LEMMA ToolsStep == ToolsInv /\ [Next]_vars => ToolsInv'
  BY BootTypeStep, CallTypeStep, BootFirstStep, CallsStep, SearchesStep DEF ToolsInv

LEMMA ToolsInvariant == Spec => []ToolsInv
<1> QED
  BY ToolsInit, ToolsStep, PTL DEF Spec

(* However calls, timeouts, deaths of servers and late runs are            *)
(* interleaved, dispatch_tool_inner has a call run by one server or by the *)
(* host, once; it reports success only of a call that was run and "unknown *)
(* tool" only of one that nobody runs.                                     *)
THEOREM RunAtMostOnceHolds == Spec => []RunAtMostOnce
<1>1. ToolsInv => RunAtMostOnce
  BY DEF ToolsInv, CallsInv, CallInv, RunAtMostOnce
<1> QED
  BY <1>1, ToolsInvariant, PTL

(* Whatever the order of the servers and whichever of them fail while they *)
(* are asked one after the other, dispatch_tool_inner says "unknown tool"  *)
(* only of a tool the host does not have and whose servers are all gone.   *)
THEOREM UnknownIsGoneHolds == Spec => []UnknownIsGone
<1>1. ToolsInv => UnknownIsGone
  <2> SUFFICES ASSUME ToolsInv, NEW c \in Calls, call[c].result = "unknown",
                      NEW s \in ToSet(external), call[c].tool \in offers[s]
               PROVE  call[c].tool \notin loaded /\ health[s] = "dead"
    BY DEF UnknownIsGone, ToolsInv, SearchesInv, SearchInv
  <2>1. external \in Seq(Servers) /\ call[c].tool \notin loaded /\ Passed(c, Len(external) + 1)
    BY DEF ToolsInv, BootType, SearchesInv, SearchInv
  <2>2. PICK i \in 1 .. Len(external) : s = external[i]
    BY <2>1 DEF ToSet
  <2>3. i < Len(external) + 1
    BY <2>1
  <2> QED
    BY <2>1, <2>2, <2>3 DEF Passed
<1> QED
  BY <1>1, ToolsInvariant, PTL
=============================================================================
