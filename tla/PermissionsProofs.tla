------------------------- MODULE PermissionsProofs -------------------------
(***************************************************************************)
(* Theorems about Permissions.                                             *)
(***************************************************************************)
EXTENDS Permissions, SequenceTheorems, WellFoundedInduction, TLAPS

Refs     == 0 .. MaxAsks       \* a ticket, or none
Notices  == [slot : Agents, tkt : Refs]
Commands == [rid : Rids, answer : Refs, task : Tickets]
Lines    == [method : {"requestPermission", "deliverMessage", "response"}, id : Nat, tkt : Refs]

(* The types of the agents' side, and of the channel's.                    *)
AgentType ==
    /\ agent \in [Agents -> {"up", "dead", "none"}]
    /\ asked \in [Agents -> SUBSET Tickets] /\ used \in [Agents -> Nat]
    /\ nextAsk \in 1 .. MaxAsks + 1 /\ ridOf \in [Tickets -> Refs]
    /\ incoming \in Seq(Notices)
    /\ slotPending \in [Agents -> [Rids -> Refs]]
    /\ asker \in [Tickets -> [slot : 0 .. NumAgents, gone : BOOLEAN]]
    /\ stray \subseteq Tickets
PipeType ==
    /\ proc \in {"serving", "draining", "down"} /\ stdinOpen \in BOOLEAN
    /\ stdin \in Seq(Lines) /\ stdout \in Seq(Lines)
    /\ permQ \in Seq(Tickets) /\ Len(permQ) <= PermCap
    /\ hpending \in [Rids -> Nat] /\ prompts \subseteq Tickets /\ broker \subseteq Rids
    /\ conn \in {"open", "closing", "none"} /\ writer \in BOOLEAN
    /\ pendingReqs \in Seq(Refs)
TaskType ==
    /\ waiter \in [Tickets -> NoTask .. MaxAsks]
    /\ events \in Seq(Refs) /\ commands \in Seq(Commands)
    /\ lost \subseteq Tickets /\ settled \subseteq Tickets

Asked(t) == t \in Tickets /\ ridOf[t] # 0

(* The tickets are given out in order, and a request_id comes with each.   *)
Asking ==
    /\ \A a \in Agents : used[a] < nextAsk
    /\ \A t \in Tickets : ridOf[t] = 0 <=> t >= nextAsk

(* The process of slot a waits for the answer to t, unless it has died or  *)
(* another request of the same request_id is or was about.                 *)
Heard(t, a) == Asked(t) /\ (t \in asked[a] \/ asker[t].gone \/ ~Unique(t))

(* A request is in the incoming queue once, and not yet pending; what is   *)
(* pending has not been answered.                                          *)
Queued ==
    \A i \in 1 .. Len(incoming) : incoming[i].tkt # 0 =>
        /\ Heard(incoming[i].tkt, incoming[i].slot)
        /\ \A j \in 1 .. Len(incoming) : incoming[j].tkt = incoming[i].tkt => i = j
        /\ \A a \in Agents, r \in Rids : slotPending[a][r] # incoming[i].tkt
Held ==
    \A a \in Agents, r \in Rids : slotPending[a][r] # 0 =>
        ridOf[slotPending[a][r]] = r /\ Heard(slotPending[a][r], a)
Strays == \A t \in stray : Asked(t) /\ (asker[t].gone \/ ~Unique(t))

(* On the way to the user and back a request keeps its request_id: the     *)
(* JSON-RPC ids in the pipes and in the harness stand for pending requests *)
(* of the connection, with the request_id of what they belong to.          *)
Of(t, r) == t = 0 \/ (t \in Tickets /\ ridOf[t] = r)
Sent(id) == id \in 1 .. Len(pendingReqs)
EventsOf == \A i \in 1 .. Len(events) : events[i] # 0 => Asked(events[i])
LineOf(id, t) == Asked(t) /\ Sent(id) /\ Of(pendingReqs[id], ridOf[t])
StdinOf ==
    \A i \in 1 .. Len(stdin) :
        stdin[i].method = "requestPermission" => LineOf(stdin[i].id, stdin[i].tkt)
HarnessOf ==
    /\ \A r \in Rids : hpending[r] # 0 => Sent(hpending[r]) /\ Of(pendingReqs[hpending[r]], r)
    /\ \A i \in 1 .. Len(permQ) : Asked(permQ[i])
    /\ proc = "down" => hpending = None /\ permQ = <<>>
StdoutOf ==
    \A i \in 1 .. Len(stdout) : LineOf(stdout[i].id, stdout[i].tkt)
WaitersOf ==
    \A t \in Tickets : waiter[t] # NoTask =>
        Asked(t) /\ (waiter[t] > 0 => Of(waiter[t], ridOf[t]))
CommandsOf ==
    \A i \in 1 .. Len(commands) : Of(commands[i].answer, commands[i].rid)

(* An answer that reached an agent is the one to its own request.          *)
OwnReply(t, b) == Asked(t) /\ (Unique(t) => b \in {t, Denied})
Replies == \A x \in answers : \E t \in Tickets, b \in Refs : x = <<t, b>> /\ OwnReply(t, b)

AgentsSide  == Asking /\ Queued /\ Held /\ Strays
ChannelSide == EventsOf /\ StdinOf /\ HarnessOf /\ StdoutOf /\ WaitersOf /\ CommandsOf
PermTypes   == AgentType /\ PipeType /\ TaskType
PermInv     == PermTypes /\ AgentsSide /\ ChannelSide /\ Replies

LEMMA Constants ==
  /\ MaxAsks \in Nat \ {0} /\ PermCap \in Nat \ {0} /\ NumAgents \in Nat \ {0}
  /\ Tickets = Rids /\ Tickets \subseteq Refs /\ Refs = Tickets \cup {0} /\ 0 \notin Tickets
  /\ \A t \in Refs : t \in Nat
  BY HarnessAssumption, PermissionsAssumption DEF Tickets, Rids, Refs

(* A queue in which one waits at the end and is taken at the front.        *)
LEMMA Queues ==
  ASSUME NEW S, NEW q \in Seq(S)
  PROVE  /\ Len(q) \in Nat /\ \A i \in 1 .. Len(q) : q[i] \in S
         /\ \A x \in S : /\ Append(q, x) \in Seq(S) /\ Len(Append(q, x)) = Len(q) + 1
                         /\ Append(q, x)[Len(q) + 1] = x
                         /\ \A i \in 1 .. Len(q) : Append(q, x)[i] = q[i]
         /\ q # <<>> => /\ Head(q) \in S /\ Head(q) = q[1] /\ 1 \in 1 .. Len(q)
                        /\ Tail(q) \in Seq(S) /\ Len(Tail(q)) = Len(q) - 1
                        /\ \A i \in 1 .. Len(Tail(q)) : Tail(q)[i] = q[i + 1] /\ i + 1 \in 1 .. Len(q)
<1>1. Len(q) \in Nat /\ \A i \in 1 .. Len(q) : q[i] \in S
  OBVIOUS
<1>2. ASSUME NEW x \in S
      PROVE  /\ Append(q, x) \in Seq(S) /\ Len(Append(q, x)) = Len(q) + 1
             /\ Append(q, x)[Len(q) + 1] = x
             /\ \A i \in 1 .. Len(q) : Append(q, x)[i] = q[i]
  OBVIOUS
<1>3. ASSUME q # <<>>
      PROVE  /\ Head(q) \in S /\ Head(q) = q[1] /\ 1 \in 1 .. Len(q)
             /\ Tail(q) \in Seq(S) /\ Len(Tail(q)) = Len(q) - 1
             /\ \A i \in 1 .. Len(Tail(q)) : Tail(q)[i] = q[i + 1] /\ i + 1 \in 1 .. Len(q)
  <2>1. Len(q) # 0
    BY <1>3, EmptySeq
  <2> QED
    BY <1>1, <1>3, <2>1, HeadTailProperties
<1> QED
  BY <1>1, <1>2, <1>3

(***************************************************************************)
(* The agents' side                                                        *)
(***************************************************************************)
agentsSide == <<agent, asked, used, nextAsk, ridOf, incoming, slotPending, asker, stray, answers>>

(* The steps of the channel's side leave the agents' side alone.           *)
LEMMA AgentsSideSteps ==
  ASSUME [Next]_vars
  PROVE  \/ \E a \in Agents : AgentAsks(a) \/ AgentDies(a)
         \/ HandleExit \/ RouteRequest \/ AutoApprove \/ RespondPermission
         \/ UNCHANGED agentsSide
<1> USE DEF agentsSide, agentVars, observers, harnessVars
<1>1. CASE ForwardUpdate \/ RouteToChannel \/ RouteDropped \/ DeliverToChannel \/ ReaderReads
  BY <1>1 DEF ForwardUpdate, RouteToChannel, RouteDropped, DeliverToChannel, ReaderReads
<1>2. CASE \E t \in Tickets : TaskAnswers(t) \/ TaskTimesOut(t)
  BY <1>2 DEF TaskAnswers, TaskTimesOut
<1>3. CASE ChannelRespawned \/ ChannelGivenUp \/ ChannelExits \/ ShutdownBegins \/ ShutdownEnds
  BY <1>3 DEF ChannelRespawned, ChannelGivenUp, ChannelExits, ProcessDies, ShutdownBegins, ShutdownEnds
<1>4. CASE \/ InProcess(ReadPermission) \/ InProcess(ReadDeliver) \/ InProcess(FlushPermission)
           \/ InProcess(StdinEof) \/ InProcess(DrainEnds)
           \/ \E t \in Tickets : InProcess(PermissionRespond(t))
  BY <1>4 DEF InProcess, ReadPermission, ReadDeliver, FlushPermission, StdinEof, DrainEnds, PermissionRespond
<1>5. CASE UNCHANGED vars
  BY <1>5 DEF vars
<1> QED
  BY <1>1, <1>2, <1>3, <1>4, <1>5 DEF Next

(* What the agents manager takes from its queues.                          *)
LEMMA Taken ==
  ASSUME PermTypes
  PROVE  /\ incoming # <<>> => Head(incoming).slot \in Agents /\ Head(incoming).tkt \in Refs
                               /\ Head(incoming) = incoming[1] /\ 1 \in 1 .. Len(incoming)
         /\ commands # <<>> => Head(commands).rid \in Rids /\ Head(commands).task \in Tickets
                               /\ Head(commands) = commands[1] /\ 1 \in 1 .. Len(commands)
<1>1. incoming \in Seq(Notices) /\ commands \in Seq(Commands)
  BY DEF PermTypes, AgentType, TaskType
<1>2. ASSUME incoming # <<>>
      PROVE  Head(incoming) \in Notices /\ Head(incoming) = incoming[1] /\ 1 \in 1 .. Len(incoming)
  BY <1>1, <1>2, Queues
<1>3. ASSUME commands # <<>>
      PROVE  Head(commands) \in Commands /\ Head(commands) = commands[1] /\ 1 \in 1 .. Len(commands)
  BY <1>1, <1>3, Queues
<1> QED
  BY <1>2, <1>3 DEF Notices, Commands

(* The slot that RespondPermission finds.                                  *)
LEMMA FirstHolder ==
  ASSUME AgentType, NEW r \in Rids, Holders(r) # {}
  PROVE  First(Holders(r)) \in Agents /\ slotPending[First(Holders(r))][r] # 0
<1>1. Holders(r) \subseteq Nat
  BY Constants DEF Holders, Agents
<1>2. PICK a \in Holders(r) : \A b \in Holders(r) : ~ (<<b, a>> \in OpToRel(<, Nat))
  BY <1>1, NatLessThanWellFounded, WFMin
<1>3. \A b \in Holders(r) : ~ (b < a)
  BY <1>1, <1>2 DEF OpToRel
<1>4. \A b \in Holders(r) : a <= b
  BY <1>1, <1>3
<1>5. First(Holders(r)) \in Holders(r)
  BY <1>4 DEF First
<1> QED
  BY <1>5 DEF Holders

(* The process of slot a gets an answer: it waits no longer for those of   *)
(* its own requests that have this id.                                     *)
LEMMA Gets ==
  ASSUME AgentType, NEW a \in Agents, NEW id, NEW answer, AgentGets(a, id, answer)
  PROVE  /\ asked' \in [Agents -> SUBSET Tickets]
         /\ \A b \in Agents : \A t \in asked[b] : t \in asked'[b] \/ (b = a /\ ridOf[t] = id)
         /\ asked' = asked => \A t \in asked[a] : ridOf[t] # id
         /\ answers' = answers \cup {<<t, answer>> : t \in {u \in asked[a] : ridOf[u] = id}}
<1> DEFINE mine == {t \in asked[a] : ridOf[t] = id}
<1>1. asked' = [asked EXCEPT ![a] = asked[a] \ mine]
      /\ answers' = answers \cup {<<t, answer>> : t \in mine}
  BY DEF AgentGets
<1>2. asked \in [Agents -> SUBSET Tickets]
  BY DEF AgentType
<1>3. asked' \in [Agents -> SUBSET Tickets]
  BY <1>1, <1>2
<1>4. asked'[a] = asked[a] \ mine /\ \A b \in Agents : b # a => asked'[b] = asked[b]
  BY <1>1, <1>2
<1> QED
  BY <1>1, <1>3, <1>4

LEMMA AgentTypeStep == PermTypes /\ Asking /\ [Next]_vars => AgentType' /\ Asking'
<1> SUFFICES ASSUME PermTypes, Asking, [Next]_vars PROVE AgentType' /\ Asking'
  OBVIOUS
<1>t. AgentType
  BY DEF PermTypes
<1> USE Constants, <1>t
<1>0. CASE UNCHANGED agentsSide
  BY <1>0 DEF agentsSide, AgentType, Asking
<1>1. ASSUME NEW a \in Agents, AgentAsks(a) PROVE AgentType' /\ Asking'
  <2>1. nextAsk \in Tickets /\ used[a] \in Nat /\ used[a] + 1 \in Refs /\ used[a] + 1 # 0
        /\ nextAsk' = nextAsk + 1 /\ nextAsk' \in 1 .. MaxAsks + 1
    BY <1>1 DEF AgentAsks, AgentType, Asking, Tickets, Refs
  <2>2. /\ used' = [used EXCEPT ![a] = used[a] + 1]
        /\ ridOf' = [ridOf EXCEPT ![nextAsk] = used[a] + 1]
        /\ asked' = [asked EXCEPT ![a] = asked[a] \cup {nextAsk}]
        /\ asker' = [asker EXCEPT ![nextAsk] = [slot |-> a, gone |-> FALSE]]
        /\ incoming' = Append(incoming, [slot |-> a, tkt |-> nextAsk])
        /\ UNCHANGED <<agent, slotPending, stray>>
    BY <1>1 DEF AgentAsks, observers
  <2>3. used' \in [Agents -> Nat] /\ ridOf' \in [Tickets -> Refs]
    BY <2>1, <2>2 DEF AgentType
  <2>4. asked' \in [Agents -> SUBSET Tickets]
    BY <2>1, <2>2 DEF AgentType
  <2>5. asker' \in [Tickets -> [slot : 0 .. NumAgents, gone : BOOLEAN]]
    <3>1. [slot |-> a, gone |-> FALSE] \in [slot : 0 .. NumAgents, gone : BOOLEAN]
      BY DEF Agents
    <3> QED
      BY <2>1, <2>2, <3>1 DEF AgentType
  <2>6. incoming' \in Seq(Notices)
    <3>1. [slot |-> a, tkt |-> nextAsk] \in Notices
      BY <2>1 DEF Notices
    <3>2. incoming \in Seq(Notices)
      BY DEF AgentType
    <3> QED
      BY <2>2, <3>1, <3>2, Queues
  <2>7. \A b \in Agents : used'[b] < nextAsk'
    BY <2>1, <2>2 DEF AgentType, Asking
  <2>8. \A t \in Tickets : ridOf'[t] = 0 <=> t >= nextAsk'
    BY <2>1, <2>2 DEF AgentType, Asking
  <2> QED
    BY <2>1, <2>2, <2>3, <2>4, <2>5, <2>6, <2>7, <2>8 DEF AgentType, Asking
<1>2. ASSUME NEW a \in Agents, AgentDies(a) PROVE AgentType' /\ Asking'
  <2>1. /\ agent' = [agent EXCEPT ![a] = "dead"]
        /\ asker' = [t \in Tickets |-> IF t \in asked[a] THEN [asker[t] EXCEPT !.gone = TRUE] ELSE asker[t]]
        /\ asked' = [asked EXCEPT ![a] = {}] /\ used' = [used EXCEPT ![a] = 0]
        /\ incoming' = Append(incoming, [slot |-> a, tkt |-> 0])
        /\ UNCHANGED <<nextAsk, ridOf, slotPending, stray>>
    BY <1>2 DEF AgentDies, observers, harnessVars
  <2>2. asker' \in [Tickets -> [slot : 0 .. NumAgents, gone : BOOLEAN]]
    <3>1. ASSUME NEW t \in Tickets PROVE [asker[t] EXCEPT !.gone = TRUE] \in [slot : 0 .. NumAgents, gone : BOOLEAN]
      <4>1. asker[t] \in [slot : 0 .. NumAgents, gone : BOOLEAN]
        BY DEF AgentType
      <4> QED
        BY <4>1
    <3> QED
      BY <2>1, <3>1 DEF AgentType
  <2>3. incoming' \in Seq(Notices)
    <3>1. [slot |-> a, tkt |-> 0] \in Notices
      BY DEF Notices
    <3>2. incoming \in Seq(Notices)
      BY DEF AgentType
    <3> QED
      BY <2>1, <3>1, <3>2, Queues
  <2>4. /\ agent' \in [Agents -> {"up", "dead", "none"}] /\ used' \in [Agents -> Nat]
        /\ asked' \in [Agents -> SUBSET Tickets]
    BY <2>1 DEF AgentType
  <2>5. Asking'
    BY <2>1 DEF Asking, AgentType
  <2> QED
    BY <2>1, <2>2, <2>3, <2>4, <2>5 DEF AgentType
<1>3. ASSUME incoming # <<>>, incoming' = Tail(incoming) PROVE incoming' \in Seq(Notices)
  BY <1>3, Queues DEF AgentType
<1>4. CASE HandleExit
  BY <1>3, <1>4, Taken DEF HandleExit, AgentType, Asking, observers, harnessVars
<1>5. CASE RouteRequest
  <2>1. /\ UNCHANGED <<agent, asked, used, nextAsk, ridOf, asker, stray>>
        /\ incoming # <<>> /\ incoming' = Tail(incoming) /\ Head(incoming).tkt # 0
        /\ slotPending' = [slotPending EXCEPT ![Head(incoming).slot] =
                [slotPending[Head(incoming).slot] EXCEPT ![ridOf[Head(incoming).tkt]] = Head(incoming).tkt]]
    BY <1>5 DEF RouteRequest, observers, harnessVars
  <2>2. Head(incoming).slot \in Agents /\ Head(incoming).tkt \in Refs
    BY <2>1, Taken
  <2>3. slotPending' \in [Agents -> [Rids -> Refs]]
    <3> DEFINE f == [slotPending[Head(incoming).slot] EXCEPT ![ridOf[Head(incoming).tkt]] = Head(incoming).tkt]
    <3>1. f \in [Rids -> Refs]
      BY <2>2 DEF AgentType
    <3> HIDE DEF f
    <3> QED
      BY <2>1, <2>2, <3>1 DEF AgentType, f
  <2> QED
    BY <1>3, <2>1, <2>3 DEF AgentType, Asking
<1>6. CASE AutoApprove
  <2>1. /\ UNCHANGED <<agent, used, nextAsk, ridOf, asker, slotPending, stray>>
        /\ incoming # <<>> /\ incoming' = Tail(incoming)
        /\ UNCHANGED asked \/ AgentGets(Head(incoming).slot, ridOf[Head(incoming).tkt], Head(incoming).tkt)
    BY <1>6 DEF AutoApprove, harnessVars
  <2>2. asked' \in [Agents -> SUBSET Tickets]
    <3>1. CASE UNCHANGED asked
      BY <3>1 DEF AgentType
    <3>2. CASE AgentGets(Head(incoming).slot, ridOf[Head(incoming).tkt], Head(incoming).tkt)
      BY <2>1, <3>2, Taken, Gets
    <3> QED
      BY <2>1, <3>1, <3>2
  <2> QED
    BY <1>3, <2>1, <2>2 DEF AgentType, Asking
<1>7. CASE RespondPermission
  <2> DEFINE c == Head(commands)  a == First(Holders(c.rid))
  <2>1. commands # <<>> /\ UNCHANGED <<agent, used, nextAsk, ridOf, incoming, asker>>
    BY <1>7 DEF RespondPermission, harnessVars
  <2>2. c.rid \in Rids
    BY <2>1, Taken
  <2>3. CASE Holders(c.rid) = {}
    BY <1>7, <2>1, <2>3 DEF RespondPermission, AgentType, Asking
  <2>4. CASE Holders(c.rid) # {}
    <3>1. a \in Agents
      BY <2>2, <2>4, FirstHolder
    <3>2. /\ slotPending' = [slotPending EXCEPT ![a] = [slotPending[a] EXCEPT ![c.rid] = 0]]
          /\ \/ UNCHANGED <<asked, stray>>
             \/ AgentGets(a, c.rid, c.answer) /\ stray' \subseteq stray \cup {slotPending[a][c.rid]}
      BY <1>7, <2>4 DEF RespondPermission
    <3>3. slotPending' \in [Agents -> [Rids -> Refs]]
      <4> DEFINE f == [slotPending[a] EXCEPT ![c.rid] = 0]
      <4>1. f \in [Rids -> Refs]
        BY <2>2, <3>1 DEF AgentType
      <4> HIDE DEF f
      <4> QED
        BY <3>1, <3>2, <4>1 DEF AgentType, f
    <3>4. slotPending[a][c.rid] \in Tickets
      <4>1. slotPending[a][c.rid] \in Refs
        BY <2>2, <3>1 DEF AgentType
      <4> QED
        BY <2>2, <2>4, <4>1, FirstHolder
    <3>5. asked' \in [Agents -> SUBSET Tickets] /\ stray' \subseteq Tickets
      <4>1. CASE UNCHANGED <<asked, stray>>
        BY <4>1 DEF AgentType
      <4>2. CASE AgentGets(a, c.rid, c.answer) /\ stray' \subseteq stray \cup {slotPending[a][c.rid]}
        BY <3>1, <3>4, <4>2, Gets DEF AgentType
      <4> QED
        BY <3>2, <4>1, <4>2
    <3> QED
      BY <2>1, <3>3, <3>5 DEF AgentType, Asking
  <2> QED
    BY <2>3, <2>4
<1> QED
  BY <1>0, <1>1, <1>2, <1>4, <1>5, <1>6, <1>7, AgentsSideSteps

(* A request_id stays, a process that died stays dead, and so two requests *)
(* that share a request_id do so for ever.                                 *)
RidsKept == \A t \in Tickets : ridOf[t] # 0 => ridOf'[t] = ridOf[t]
GoneKept == \A t \in Tickets : ridOf[t] # 0 /\ asker[t].gone => asker'[t].gone

LEMMA KeptStep == PermTypes /\ Asking /\ [Next]_vars => RidsKept /\ GoneKept
<1> SUFFICES ASSUME PermTypes, Asking, [Next]_vars PROVE RidsKept /\ GoneKept
  OBVIOUS
<1>1. ridOf \in [Tickets -> Refs] /\ asker \in [Tickets -> [slot : 0 .. NumAgents, gone : BOOLEAN]]
  BY DEF PermTypes, AgentType
<1>2. CASE UNCHANGED <<ridOf, asker>>
  BY <1>2 DEF RidsKept, GoneKept
<1>3. ASSUME NEW a \in Agents, AgentAsks(a) PROVE RidsKept /\ GoneKept
  <2>1. nextAsk \in Tickets /\ ridOf[nextAsk] = 0
    BY <1>3, Constants DEF AgentAsks, Asking, Tickets
  <2>2. \A t \in Tickets : t # nextAsk => ridOf'[t] = ridOf[t] /\ asker'[t] = asker[t]
    BY <1>1, <1>3 DEF AgentAsks
  <2> QED
    BY <2>1, <2>2 DEF RidsKept, GoneKept
<1>4. ASSUME NEW a \in Agents, AgentDies(a) PROVE RidsKept /\ GoneKept
  <2>1. UNCHANGED ridOf
    BY <1>4 DEF AgentDies, harnessVars
  <2>2. ASSUME NEW t \in Tickets, asker[t].gone PROVE asker'[t].gone
    <3>1. asker'[t] = IF t \in asked[a] THEN [asker[t] EXCEPT !.gone = TRUE] ELSE asker[t]
      BY <1>4 DEF AgentDies
    <3>2. asker[t] \in [slot : 0 .. NumAgents, gone : BOOLEAN]
      BY <1>1
    <3>3. [asker[t] EXCEPT !.gone = TRUE].gone
      BY <3>2
    <3> QED
      BY <2>2, <3>1, <3>3
  <2> QED
    BY <2>1, <2>2 DEF RidsKept, GoneKept
<1>5. CASE HandleExit \/ RouteRequest \/ AutoApprove \/ RespondPermission
  BY <1>2, <1>5 DEF HandleExit, RouteRequest, AutoApprove, RespondPermission, harnessVars
<1> QED
  BY <1>2, <1>3, <1>4, <1>5, AgentsSideSteps DEF agentsSide

LEMMA SharedKept ==
  ASSUME RidsKept, NEW t \in Tickets, ridOf[t] # 0
  PROVE  Asked(t)' /\ (~Unique(t) => ~Unique(t)')
<1>1. ridOf'[t] = ridOf[t]
  BY DEF RidsKept
<1>2. ASSUME ~Unique(t) PROVE ~Unique(t)'
  <2>1. PICK u \in Tickets : ridOf[u] = ridOf[t] /\ u # t
    BY <1>2 DEF Unique
  <2>2. ridOf'[u] = ridOf'[t]
    BY <1>1, <2>1 DEF RidsKept
  <2> QED
    BY <2>1, <2>2 DEF Unique
<1> QED
  BY <1>1, <1>2 DEF Asked

LEMMA HeardKept ==
  ASSUME RidsKept, GoneKept, NEW t, NEW a, Heard(t, a),
         t \in asked[a] => t \in asked'[a] \/ asker'[t].gone \/ ~Unique(t)
  PROVE  Heard(t, a)'
<1>1. t \in Tickets /\ ridOf[t] # 0
  BY DEF Heard, Asked
<1>2. Asked(t)' /\ (~Unique(t) => ~Unique(t)')
  BY <1>1, SharedKept
<1>3. asker[t].gone => asker'[t].gone
  BY <1>1 DEF GoneKept
<1> QED
  BY <1>2, <1>3 DEF Heard

(* The invariants of the agents' side, about constants instead of places.  *)
QueuedHeard == \A i \in 1 .. Len(incoming), t \in Tickets, a \in Agents :
                   incoming[i].tkt = t /\ incoming[i].slot = a => Heard(t, a)
HeldHeard   == \A a \in Agents, r \in Rids, t \in Tickets : slotPending[a][r] = t => Heard(t, a)
Alone       == \A i \in 1 .. Len(incoming), t \in Tickets : incoming[i].tkt = t =>
                   /\ \A j \in 1 .. Len(incoming) : incoming[j].tkt = t => i = j
                   /\ \A a \in Agents, r \in Rids : slotPending[a][r] # t

LEMMA QueuedFrom ==
  ASSUME AgentType', QueuedHeard', Alone'
  PROVE  Queued'
<1> SUFFICES ASSUME NEW i \in 1 .. Len(incoming'), incoming'[i].tkt # 0
             PROVE  (/\ Heard(incoming[i].tkt, incoming[i].slot)
                     /\ \A j \in 1 .. Len(incoming) : incoming[j].tkt = incoming[i].tkt => i = j
                     /\ \A a \in Agents, r \in Rids : slotPending[a][r] # incoming[i].tkt)'
  BY DEF Queued
<1>1. incoming'[i] \in Notices
  BY Queues DEF AgentType
<1>2. PICK t \in Tickets, a \in Agents : incoming'[i].tkt = t /\ incoming'[i].slot = a
  BY <1>1, Constants DEF Notices
<1> QED
  BY <1>2 DEF QueuedHeard, Alone

LEMMA HeldFrom ==
  ASSUME AgentType', RidsKept, HeldHeard',
         \A a \in Agents, r \in Rids, t \in Tickets : slotPending'[a][r] = t => ridOf[t] = r
  PROVE  Held'
<1> SUFFICES ASSUME NEW a \in Agents, NEW r \in Rids, slotPending'[a][r] # 0
             PROVE  (ridOf[slotPending[a][r]] = r /\ Heard(slotPending[a][r], a))'
  BY DEF Held
<1>1. slotPending'[a][r] \in Refs
  BY DEF AgentType
<1>2. PICK t \in Tickets : slotPending'[a][r] = t
  BY <1>1, Constants
<1>3. ridOf[t] = r /\ r # 0
  BY <1>2, Constants
<1>4. ridOf'[t] = r
  BY <1>3 DEF RidsKept
<1>5. Heard(t, a)'
  BY <1>2 DEF HeldHeard
<1> QED
  BY <1>2, <1>4, <1>5

LEMMA StraysKept ==
  ASSUME AgentType, Strays, RidsKept, GoneKept, stray' = stray
  PROVE  Strays'
<1> SUFFICES ASSUME NEW t \in stray PROVE Asked(t)' /\ (asker'[t].gone \/ ~Unique(t)')
  BY DEF Strays
<1>1. t \in Tickets /\ ridOf[t] # 0 /\ (asker[t].gone \/ ~Unique(t))
  BY DEF Strays, Asked
<1> QED
  BY <1>1, SharedKept DEF GoneKept

LEMMA AgentsSideStep == PermTypes /\ AgentsSide /\ [Next]_vars => AgentsSide'
<1> SUFFICES ASSUME PermTypes, AgentsSide, [Next]_vars PROVE AgentsSide'
  OBVIOUS
<1>1. AgentType /\ AgentType' /\ Asking /\ Asking' /\ Queued /\ Held /\ Strays
  BY AgentTypeStep DEF PermTypes, AgentsSide
<1>2. RidsKept /\ GoneKept
  BY <1>1, KeptStep
<1>3. SUFFICES QueuedHeard' /\ Alone' /\ HeldHeard' /\ Strays'
               /\ \A a \in Agents, r \in Rids, t \in Tickets : slotPending'[a][r] = t => ridOf[t] = r
  <2>1. Queued'
    BY <1>1, <1>3, QueuedFrom
  <2>2. Held'
    BY <1>1, <1>2, <1>3, HeldFrom
  <2> QED
    BY <1>1, <1>3, <2>1, <2>2 DEF AgentsSide
<1> DEFINE Side == /\ QueuedHeard' /\ Alone' /\ HeldHeard' /\ Strays'
                   /\ \A a \in Agents, r \in Rids, t \in Tickets : slotPending'[a][r] = t => ridOf[t] = r
<1>4. incoming \in Seq(Notices) /\ slotPending \in [Agents -> [Rids -> Refs]] /\ asked \in [Agents -> SUBSET Tickets]
      /\ ridOf \in [Tickets -> Refs]
  BY <1>1 DEF AgentType
<1>5. ASSUME NEW i \in 1 .. Len(incoming), NEW t \in Tickets, NEW a \in Agents,
             incoming[i].tkt = t, incoming[i].slot = a
      PROVE  Heard(t, a)
  <2>1. incoming[i].tkt # 0
    BY <1>5, Constants
  <2> QED
    BY <1>1, <1>5, <2>1 DEF Queued
<1>6. ASSUME NEW i \in 1 .. Len(incoming), NEW t \in Tickets, incoming[i].tkt = t
      PROVE  /\ \A b \in Agents, r \in Rids : slotPending[b][r] # t
             /\ \A j \in 1 .. Len(incoming) : incoming[j].tkt = t => i = j
             /\ ridOf[t] # 0
  <2>1. incoming[i].tkt # 0
    BY <1>6, Constants
  <2> QED
    BY <1>1, <1>6, <2>1 DEF Queued, Heard, Asked
<1>7. ASSUME NEW a \in Agents, NEW r \in Rids, NEW t \in Tickets, slotPending[a][r] = t
      PROVE  Heard(t, a) /\ ridOf[t] = r /\ ridOf[t] # 0
  <2>1. slotPending[a][r] # 0
    BY <1>7, Constants
  <2> QED
    BY <1>1, <1>7, <2>1 DEF Held, Heard, Asked
(* The queue is as before, or its head was taken.                          *)
<1>8. ASSUME incoming # <<>>, incoming' = Tail(incoming)
      PROVE  \A i \in 1 .. Len(incoming') : /\ i \in Nat /\ i + 1 \in 1 .. Len(incoming) /\ i + 1 # 1
                                            /\ incoming'[i] = incoming[i + 1]
  BY <1>4, <1>8, Queues
<1>9. ASSUME UNCHANGED slotPending, incoming' = incoming \/ (incoming # <<>> /\ incoming' = Tail(incoming))
      PROVE  Alone'
  <2>1. CASE incoming' = incoming
    BY <1>6, <1>9, <2>1 DEF Alone
  <2>2. CASE incoming # <<>> /\ incoming' = Tail(incoming)
    <3> SUFFICES ASSUME NEW i \in 1 .. Len(incoming'), NEW t \in Tickets, incoming'[i].tkt = t
                 PROVE  /\ \A j \in 1 .. Len(incoming') : incoming'[j].tkt = t => i = j
                        /\ \A a \in Agents, r \in Rids : slotPending'[a][r] # t
      BY DEF Alone
    <3>1. i \in Nat /\ i + 1 \in 1 .. Len(incoming) /\ incoming[i + 1].tkt = t
      BY <1>8, <2>2
    <3>2. ASSUME NEW j \in 1 .. Len(incoming'), incoming'[j].tkt = t PROVE i = j
      <4>1. j \in Nat /\ j + 1 \in 1 .. Len(incoming) /\ incoming[j + 1].tkt = t
        BY <1>8, <2>2, <3>2
      <4>2. i + 1 = j + 1
        BY <1>6, <3>1, <4>1
      <4> QED
        BY <3>1, <4>1, <4>2
    <3> QED
      BY <1>6, <1>9, <3>1, <3>2
  <2> QED
    BY <1>9, <2>1, <2>2
<1>10. CASE UNCHANGED agentsSide
  <2>1. UNCHANGED <<incoming, slotPending, asked, stray>>
    BY <1>10 DEF agentsSide
  <2>2. QueuedHeard'
    BY <1>2, <1>5, <2>1, HeardKept DEF QueuedHeard
  <2>3. HeldHeard'
    BY <1>2, <1>7, <2>1, HeardKept DEF HeldHeard
  <2> QED
    BY <1>1, <1>2, <1>7, <1>9, <2>1, <2>2, <2>3, StraysKept
<1>11. CASE HandleExit
  <2>1. UNCHANGED <<slotPending, asked, stray>> /\ incoming # <<>> /\ incoming' = Tail(incoming)
    BY <1>11 DEF HandleExit, observers
  <2>2. QueuedHeard'
    BY <1>2, <1>5, <1>8, <2>1, HeardKept DEF QueuedHeard
  <2>3. HeldHeard'
    BY <1>2, <1>7, <2>1, HeardKept DEF HeldHeard
  <2> QED
    BY <1>1, <1>2, <1>7, <1>9, <2>1, <2>2, <2>3, StraysKept
<1>12. CASE AutoApprove
  <2>1. /\ UNCHANGED <<slotPending, stray>> /\ incoming # <<>> /\ incoming' = Tail(incoming)
        /\ Head(incoming).tkt # 0
        /\ UNCHANGED asked \/ AgentGets(Head(incoming).slot, ridOf[Head(incoming).tkt], Head(incoming).tkt)
    BY <1>12 DEF AutoApprove
  <2>2. PICK t0 \in Tickets, a0 \in Agents :
            Head(incoming).tkt = t0 /\ Head(incoming).slot = a0 /\ Head(incoming) = incoming[1]
            /\ 1 \in 1 .. Len(incoming)
    BY <2>1, Taken, Constants
  <2>3. ASSUME NEW a \in Agents, NEW t \in asked[a] PROVE t \in asked'[a] \/ ridOf[t] = ridOf[t0]
    BY <1>1, <2>1, <2>2, Gets
  <2>4. ASSUME NEW t \in Tickets, t # t0, ridOf[t] = ridOf[t0] PROVE ~Unique(t)
    BY <2>4 DEF Unique
  <2>5. QueuedHeard'
    <3> SUFFICES ASSUME NEW i \in 1 .. Len(incoming'), NEW t \in Tickets, NEW a \in Agents,
                        incoming'[i].tkt = t, incoming'[i].slot = a
                 PROVE  Heard(t, a)'
      BY DEF QueuedHeard
    <3>1. i + 1 \in 1 .. Len(incoming) /\ i + 1 # 1 /\ incoming[i + 1].tkt = t /\ incoming[i + 1].slot = a
      BY <1>8, <2>1
    <3>2. Heard(t, a) /\ t # t0
      BY <1>5, <1>6, <2>2, <3>1
    <3> QED
      BY <1>2, <2>3, <2>4, <3>2, HeardKept
  <2>6. HeldHeard'
    <3> SUFFICES ASSUME NEW a \in Agents, NEW r \in Rids, NEW t \in Tickets, slotPending[a][r] = t
                 PROVE  Heard(t, a)'
      BY <2>1 DEF HeldHeard
    <3>1. Heard(t, a) /\ t # t0
      BY <1>6, <1>7, <2>2
    <3> QED
      BY <1>2, <2>3, <2>4, <3>1, HeardKept
  <2> QED
    BY <1>1, <1>2, <1>7, <1>9, <2>1, <2>5, <2>6, StraysKept
<1>13. ASSUME NEW a0 \in Agents, AgentDies(a0) PROVE Side
  <2>1. /\ asker' = [t \in Tickets |-> IF t \in asked[a0] THEN [asker[t] EXCEPT !.gone = TRUE] ELSE asker[t]]
        /\ asked' = [asked EXCEPT ![a0] = {}]
        /\ incoming' = Append(incoming, [slot |-> a0, tkt |-> 0])
        /\ UNCHANGED <<slotPending, stray>>
    BY <1>13 DEF AgentDies, observers
  <2>2. ASSUME NEW a \in Agents, NEW t \in Tickets, t \in asked[a] PROVE t \in asked'[a] \/ asker'[t].gone
    <3>1. CASE a # a0
      BY <1>4, <2>1, <2>2, <3>1
    <3>2. CASE a = a0
      <4>1. asker[t] \in [slot : 0 .. NumAgents, gone : BOOLEAN]
        BY <1>1 DEF AgentType
      <4>2. [asker[t] EXCEPT !.gone = TRUE].gone
        BY <4>1
      <4>3. asker'[t] = [asker[t] EXCEPT !.gone = TRUE]
        BY <2>1, <2>2, <3>2
      <4> QED
        BY <4>2, <4>3
    <3> QED
      BY <3>1, <3>2
  <2>3. ASSUME NEW i \in 1 .. Len(incoming'), incoming'[i].tkt # 0
        PROVE  i \in 1 .. Len(incoming) /\ incoming'[i] = incoming[i]
    <3>1. [slot |-> a0, tkt |-> 0] \in Notices
      BY Constants DEF Notices
    <3>2. /\ Len(incoming') = Len(incoming) + 1 /\ Len(incoming) \in Nat
          /\ incoming'[Len(incoming) + 1].tkt = 0
          /\ \A j \in 1 .. Len(incoming) : incoming'[j] = incoming[j]
      BY <1>4, <2>1, <3>1, Queues
    <3> QED
      BY <2>3, <3>2
  <2>4. 0 \notin Tickets
    BY Constants
  <2>5. QueuedHeard'
    BY <1>2, <1>5, <2>2, <2>3, <2>4, HeardKept DEF QueuedHeard
  <2>6. HeldHeard'
    BY <1>2, <1>7, <2>1, <2>2, HeardKept DEF HeldHeard
  <2>7. Alone'
    BY <1>6, <2>1, <2>3, <2>4 DEF Alone
  <2> QED
    BY <1>1, <1>2, <1>7, <2>1, <2>5, <2>6, <2>7, StraysKept
<1>14. ASSUME NEW a0 \in Agents, AgentAsks(a0) PROVE Side
  <2>1. /\ nextAsk \in Tickets /\ asked' = [asked EXCEPT ![a0] = asked[a0] \cup {nextAsk}]
        /\ ridOf' = [ridOf EXCEPT ![nextAsk] = used[a0] + 1]
        /\ incoming' = Append(incoming, [slot |-> a0, tkt |-> nextAsk])
        /\ UNCHANGED <<slotPending, stray>>
    BY <1>14 DEF AgentAsks, observers
  <2>2. PICK t0 \in Tickets : t0 = nextAsk /\ ridOf[t0] = 0 /\ ridOf'[t0] # 0 /\ t0 \in asked'[a0]
    <3>1. ridOf[nextAsk] = 0
      BY <1>1, <2>1, Constants DEF Asking, Tickets
    <3>2. used[a0] \in Nat
      BY <1>1 DEF AgentType
    <3>3. ridOf'[nextAsk] # 0 /\ nextAsk \in asked'[a0]
      BY <1>4, <2>1, <3>2
    <3> QED
      BY <2>1, <3>1, <3>3
  <2>3. \A a \in Agents : asked[a] \subseteq asked'[a]
    BY <1>4, <2>1
  <2>4. /\ Len(incoming') = Len(incoming) + 1 /\ Len(incoming) \in Nat
        /\ incoming'[Len(incoming) + 1].tkt = t0 /\ incoming'[Len(incoming) + 1].slot = a0
        /\ \A j \in 1 .. Len(incoming) : incoming'[j] = incoming[j]
    <3>1. [slot |-> a0, tkt |-> t0] \in Notices
      BY Constants DEF Notices
    <3>2. /\ Len(incoming') = Len(incoming) + 1 /\ Len(incoming) \in Nat
          /\ incoming'[Len(incoming) + 1] = [slot |-> a0, tkt |-> t0]
          /\ \A j \in 1 .. Len(incoming) : incoming'[j] = incoming[j]
      BY <1>4, <2>1, <2>2, <3>1, Queues
    <3> QED
      BY <3>2
  <2>5. QueuedHeard'
    <3> SUFFICES ASSUME NEW i \in 1 .. Len(incoming'), NEW t \in Tickets, NEW a \in Agents,
                        incoming'[i].tkt = t, incoming'[i].slot = a
                 PROVE  Heard(t, a)'
      BY DEF QueuedHeard
    <3>1. CASE i \in 1 .. Len(incoming)
      BY <1>2, <1>5, <2>3, <2>4, <3>1, HeardKept
    <3>2. CASE i = Len(incoming) + 1
      BY <2>2, <2>4, <3>2 DEF Heard, Asked
    <3> QED
      BY <2>4, <3>1, <3>2
  <2>6. HeldHeard'
    BY <1>2, <1>7, <2>1, <2>3, HeardKept DEF HeldHeard
  <2>7. Alone'
    <3> SUFFICES ASSUME NEW i \in 1 .. Len(incoming'), NEW t \in Tickets, incoming'[i].tkt = t
                 PROVE  /\ \A j \in 1 .. Len(incoming') : incoming'[j].tkt = t => i = j
                        /\ \A a \in Agents, r \in Rids : slotPending[a][r] # t
      BY <2>1 DEF Alone
    <3>1. CASE i \in 1 .. Len(incoming)
      <4>1. incoming[i].tkt = t /\ t # t0
        BY <1>6, <2>2, <2>4, <3>1
      <4> QED
        BY <1>6, <2>4, <3>1, <4>1
    <3>2. CASE i = Len(incoming) + 1
      <4>1. t = t0
        BY <2>4, <3>2
      <4>2. \A j \in 1 .. Len(incoming) : incoming'[j].tkt # t
        BY <1>6, <2>2, <2>4, <4>1
      <4>3. \A a \in Agents, r \in Rids : slotPending[a][r] # t
        BY <1>7, <2>2, <4>1
      <4> QED
        BY <2>4, <3>2, <4>2, <4>3
    <3> QED
      BY <2>4, <3>1, <3>2
  <2> QED
    BY <1>1, <1>2, <1>7, <2>1, <2>5, <2>6, <2>7, StraysKept
<1>15. CASE RouteRequest
  <2>1. /\ UNCHANGED <<asked, stray>>
        /\ incoming # <<>> /\ incoming' = Tail(incoming) /\ Head(incoming).tkt # 0
        /\ slotPending' = [slotPending EXCEPT ![Head(incoming).slot] =
                [slotPending[Head(incoming).slot] EXCEPT ![ridOf[Head(incoming).tkt]] = Head(incoming).tkt]]
    BY <1>15 DEF RouteRequest, observers
  <2>2. PICK t0 \in Tickets, a0 \in Agents :
            Head(incoming).tkt = t0 /\ Head(incoming).slot = a0 /\ Head(incoming) = incoming[1]
            /\ 1 \in 1 .. Len(incoming)
    BY <2>1, Taken, Constants
  <2>3. Heard(t0, a0) /\ ridOf[t0] # 0 /\ ridOf[t0] \in Rids
    BY <1>4, <1>5, <1>6, <2>2, Constants
  <2>4. ASSUME NEW a \in Agents, NEW r \in Rids
        PROVE  slotPending'[a][r] = IF a = a0 /\ r = ridOf[t0] THEN t0 ELSE slotPending[a][r]
    <3>1. slotPending' = [slotPending EXCEPT ![a0] = [slotPending[a0] EXCEPT ![ridOf[t0]] = t0]]
      BY <2>1, <2>2
    <3>2. slotPending[a0] \in [Rids -> Refs]
      BY <1>4
    <3>3. [slotPending[a0] EXCEPT ![ridOf[t0]] = t0][r] = IF r = ridOf[t0] THEN t0 ELSE slotPending[a0][r]
      BY <3>2
    <3>4. slotPending'[a] = IF a = a0 THEN [slotPending[a0] EXCEPT ![ridOf[t0]] = t0] ELSE slotPending[a]
      BY <1>4, <3>1
    <3> QED
      BY <3>3, <3>4
  <2>5. QueuedHeard'
    BY <1>2, <1>5, <1>8, <2>1, HeardKept DEF QueuedHeard
  <2>6. HeldHeard'
    <3> SUFFICES ASSUME NEW a \in Agents, NEW r \in Rids, NEW t \in Tickets, slotPending'[a][r] = t
                 PROVE  Heard(t, a)'
      BY DEF HeldHeard
    <3>1. Heard(t, a)
      BY <1>7, <2>3, <2>4
    <3> QED
      BY <1>2, <2>1, <3>1, HeardKept
  <2>7. Alone'
    <3> SUFFICES ASSUME NEW i \in 1 .. Len(incoming'), NEW t \in Tickets, incoming'[i].tkt = t
                 PROVE  /\ \A j \in 1 .. Len(incoming') : incoming'[j].tkt = t => i = j
                        /\ \A a \in Agents, r \in Rids : slotPending'[a][r] # t
      BY DEF Alone
    <3>1. i \in Nat /\ i + 1 \in 1 .. Len(incoming) /\ i + 1 # 1 /\ incoming[i + 1].tkt = t
      BY <1>8, <2>1
    <3>2. ASSUME NEW j \in 1 .. Len(incoming'), incoming'[j].tkt = t PROVE i = j
      <4>1. j \in Nat /\ j + 1 \in 1 .. Len(incoming) /\ incoming[j + 1].tkt = t
        BY <1>8, <2>1, <3>2
      <4>2. i + 1 = j + 1
        BY <1>6, <3>1, <4>1
      <4> QED
        BY <3>1, <4>1, <4>2
    <3>3. t # t0
      BY <1>6, <2>2, <3>1
    <3> QED
      BY <1>6, <2>4, <3>1, <3>2, <3>3
  <2>8. \A a \in Agents, r \in Rids, t \in Tickets : slotPending'[a][r] = t => ridOf[t] = r
    BY <1>7, <2>4
  <2> QED
    BY <1>1, <1>2, <2>1, <2>5, <2>6, <2>7, <2>8, StraysKept
<1>16. CASE RespondPermission
  <2>1. commands # <<>> /\ UNCHANGED <<ridOf, incoming, asker>>
    BY <1>16 DEF RespondPermission, harnessVars
  <2>2. PICK r0 \in Rids : r0 = Head(commands).rid
    BY <2>1, Taken
  <2>3. CASE Holders(r0) = {}
    <3>1. UNCHANGED <<slotPending, asked, stray>>
      BY <1>16, <2>2, <2>3 DEF RespondPermission
    <3>2. QueuedHeard'
      BY <1>2, <1>5, <2>1, <3>1, HeardKept DEF QueuedHeard
    <3>3. HeldHeard'
      BY <1>2, <1>7, <3>1, HeardKept DEF HeldHeard
    <3> QED
      BY <1>1, <1>2, <1>7, <1>9, <2>1, <3>1, <3>2, <3>3, StraysKept
  <2>4. CASE Holders(r0) # {}
    <3>1. PICK a0 \in Agents : a0 = First(Holders(r0)) /\ slotPending[a0][r0] # 0
      BY <1>1, <2>4, FirstHolder
    <3>2. PICK t0 \in Tickets : t0 = slotPending[a0][r0]
      BY <1>4, <3>1, Constants
    <3>3. Heard(t0, a0) /\ ridOf[t0] = r0
      BY <1>7, <3>2
    <3>4. /\ slotPending' = [slotPending EXCEPT ![a0] = [slotPending[a0] EXCEPT ![r0] = 0]]
          /\ \/ UNCHANGED <<asked, stray>>
             \/ /\ AgentGets(a0, r0, Head(commands).answer)
                /\ stray' = IF asked' = asked THEN stray \cup {t0} ELSE stray
      BY <1>16, <2>2, <2>4, <3>1, <3>2 DEF RespondPermission
    <3>5. ASSUME NEW a \in Agents, NEW r \in Rids
          PROVE  slotPending'[a][r] = IF a = a0 /\ r = r0 THEN 0 ELSE slotPending[a][r]
      <4>1. slotPending[a0] \in [Rids -> Refs]
        BY <1>4
      <4>2. [slotPending[a0] EXCEPT ![r0] = 0][r] = IF r = r0 THEN 0 ELSE slotPending[a0][r]
        BY <4>1
      <4>3. slotPending'[a] = IF a = a0 THEN [slotPending[a0] EXCEPT ![r0] = 0] ELSE slotPending[a]
        BY <1>4, <3>4
      <4> QED
        BY <4>2, <4>3
    <3>6. ASSUME NEW a \in Agents, NEW t \in asked[a] PROVE t \in asked'[a] \/ (a = a0 /\ ridOf[t] = r0)
      BY <1>1, <3>4, Gets
    <3>7. QueuedHeard'
      <4> SUFFICES ASSUME NEW i \in 1 .. Len(incoming), NEW t \in Tickets, NEW a \in Agents,
                          incoming[i].tkt = t, incoming[i].slot = a
                   PROVE  Heard(t, a)'
        BY <2>1 DEF QueuedHeard
      <4>1. Heard(t, a) /\ t # t0
        BY <1>5, <1>6, <3>2
      <4>2. ridOf[t] = r0 => ~Unique(t)
        BY <3>3, <4>1 DEF Unique
      <4> QED
        BY <1>2, <3>6, <4>1, <4>2, HeardKept
    <3>8. HeldHeard'
      <4> SUFFICES ASSUME NEW a \in Agents, NEW r \in Rids, NEW t \in Tickets, slotPending'[a][r] = t
                   PROVE  Heard(t, a)'
        BY DEF HeldHeard
      <4>1. slotPending[a][r] = t /\ ~(a = a0 /\ r = r0)
        BY <3>5, Constants
      <4>2. Heard(t, a) /\ ridOf[t] = r
        BY <1>7, <4>1
      <4> QED
        BY <1>2, <3>6, <4>1, <4>2, HeardKept
    <3>9. Alone'
      BY <1>6, <2>1, <3>5, Constants DEF Alone
    <3>10. \A a \in Agents, r \in Rids, t \in Tickets : slotPending'[a][r] = t => ridOf[t] = r
      BY <1>7, <3>5, Constants
    <3>11. Strays'
      <4>1. CASE stray' = stray
        BY <1>1, <1>2, <4>1, StraysKept
      <4>2. CASE AgentGets(a0, r0, Head(commands).answer) /\ asked' = asked /\ stray' = stray \cup {t0}
        <5>1. t0 \notin asked[a0]
          BY <1>1, <3>3, <4>2, Gets
        <5>2. asker[t0].gone \/ ~Unique(t0)
          BY <3>3, <5>1 DEF Heard
        <5>3. Asked(t0)
          BY <3>3 DEF Heard
        <5>4. \A t \in stray \cup {t0} : Asked(t) /\ (asker[t].gone \/ ~Unique(t))
          BY <1>1, <5>2, <5>3 DEF Strays
        <5> QED
          BY <2>1, <4>2, <5>4 DEF Strays, Asked, Unique
      <4> QED
        BY <3>4, <4>1, <4>2
    <3> QED
      BY <3>7, <3>8, <3>9, <3>10, <3>11
  <2> QED
    BY <2>3, <2>4
<1> QED
  BY <1>10, <1>11, <1>12, <1>13, <1>14, <1>15, <1>16, AgentsSideSteps
(***************************************************************************)
(* The channel's side                                                      *)
(***************************************************************************)
From(q, r)  == \A i \in 1 .. Len(r) : \E j \in 1 .. Len(q) : r[i] = q[j]
PendingKept == \A id : Sent(id) => Sent(id)' /\ pendingReqs'[id] \in {pendingReqs[id], 0}

(* What is read from the front of a queue, or left in it, was in it.       *)
LEMMA FromTail ==
  ASSUME NEW S, NEW q \in Seq(S), NEW r, r = q \/ r = <<>> \/ (q # <<>> /\ r = Tail(q))
  PROVE  From(q, r) /\ r \in Seq(S)
<1>1. CASE r = q
  BY <1>1, Queues DEF From
<1>2. CASE r = <<>>
  BY <1>2 DEF From
<1>3. CASE q # <<>> /\ r = Tail(q)
  BY <1>3, Queues DEF From
<1> QED
  BY <1>1, <1>2, <1>3

(* The way of a request keeps its request_id: what was sent stays in the   *)
(* table of pending requests, or is taken out of it.                       *)
LEMMA OfKept ==
  ASSUME RidsKept, NEW t, NEW r, Of(t, r), r # 0
  PROVE  Of(t, r)'
  BY DEF Of, RidsKept

LEMMA LineKept ==
  ASSUME RidsKept, PendingKept, NEW id, NEW t, LineOf(id, t)
  PROVE  LineOf(id, t)'
<1>1. t \in Tickets /\ ridOf[t] # 0 /\ ridOf'[t] = ridOf[t]
  BY DEF LineOf, Asked, RidsKept
<1>2. Sent(id)' /\ pendingReqs'[id] \in {pendingReqs[id], 0}
  BY DEF LineOf, PendingKept
<1>3. Of(pendingReqs[id], ridOf[t])
  BY DEF LineOf
<1> QED
  BY <1>1, <1>2, <1>3 DEF LineOf, Asked, Of, RidsKept

(* A part of the channel's side survives a step that adds nothing to its   *)
(* queue or table.                                                         *)
LEMMA ChannelKept ==
  ASSUME PermTypes, ChannelSide, RidsKept
  PROVE  /\ From(events, events') => EventsOf'
         /\ PendingKept /\ From(stdin, stdin') => StdinOf'
         /\ PendingKept /\ From(stdout, stdout') => StdoutOf'
         /\ PendingKept /\ UNCHANGED <<proc, hpending, permQ>> => HarnessOf'
         /\ UNCHANGED waiter => WaitersOf'
         /\ commands' \in Seq(Commands) /\ From(commands, commands') => CommandsOf'
<1>1. ASSUME From(events, events') PROVE EventsOf'
  BY <1>1 DEF From, EventsOf, ChannelSide, RidsKept, Asked
<1>2. ASSUME PendingKept, From(stdin, stdin') PROVE StdinOf'
  <2> SUFFICES ASSUME NEW i \in 1 .. Len(stdin'), stdin'[i].method = "requestPermission"
               PROVE  LineOf(stdin[i].id, stdin[i].tkt)'
    BY DEF StdinOf
  <2>1. PICK j \in 1 .. Len(stdin) : stdin'[i] = stdin[j]
    BY <1>2 DEF From
  <2>2. PICK id, t : id = stdin[j].id /\ t = stdin[j].tkt
    OBVIOUS
  <2>3. LineOf(id, t)
    BY <2>1, <2>2 DEF StdinOf, ChannelSide
  <2>4. LineOf(id, t)'
    BY <1>2, <2>3, LineKept
  <2> QED
    BY <2>1, <2>2, <2>4
<1>3. ASSUME PendingKept, From(stdout, stdout') PROVE StdoutOf'
  <2> SUFFICES ASSUME NEW i \in 1 .. Len(stdout')
               PROVE  LineOf(stdout[i].id, stdout[i].tkt)'
    BY DEF StdoutOf
  <2>1. PICK j \in 1 .. Len(stdout) : stdout'[i] = stdout[j]
    BY <1>3 DEF From
  <2>2. PICK id, t : id = stdout[j].id /\ t = stdout[j].tkt
    OBVIOUS
  <2>3. LineOf(id, t)
    BY <2>1, <2>2 DEF StdoutOf, ChannelSide
  <2>4. LineOf(id, t)'
    BY <1>3, <2>3, LineKept
  <2> QED
    BY <2>1, <2>2, <2>4
<1>4. ASSUME PendingKept, UNCHANGED <<proc, hpending, permQ>> PROVE HarnessOf'
  <2>1. ASSUME NEW r \in Rids, hpending[r] # 0
        PROVE  Sent(hpending[r])' /\ Of(pendingReqs[hpending[r]], r)'
    <3>1. PICK id : id = hpending[r] /\ Sent(id) /\ Of(pendingReqs[id], r)
      BY <2>1 DEF HarnessOf, ChannelSide
    <3>2. Sent(id)' /\ pendingReqs'[id] \in {pendingReqs[id], 0}
      BY <1>4, <3>1 DEF PendingKept
    <3>3. Of(pendingReqs[id], r)'
      BY <3>1, <3>2, Constants DEF Of, RidsKept
    <3> QED
      BY <1>4, <3>1, <3>2, <3>3
  <2>2. \A i \in 1 .. Len(permQ) : Asked(permQ[i])'
    BY <1>4 DEF HarnessOf, ChannelSide, Asked, RidsKept
  <2> QED
    BY <1>4, <2>1, <2>2 DEF HarnessOf, ChannelSide
<1>5. ASSUME UNCHANGED waiter PROVE WaitersOf'
  BY <1>5 DEF WaitersOf, ChannelSide, Asked, Of, RidsKept
<1>6. ASSUME commands' \in Seq(Commands), From(commands, commands') PROVE CommandsOf'
  <2> SUFFICES ASSUME NEW i \in 1 .. Len(commands')
               PROVE  Of(commands[i].answer, commands[i].rid)'
    BY DEF CommandsOf
  <2>1. PICK j \in 1 .. Len(commands) : commands'[i] = commands[j]
    BY <1>6 DEF From
  <2>2. PICK t, r : t = commands[j].answer /\ r = commands[j].rid
    OBVIOUS
  <2>3. commands[j] \in Commands
    BY Queues DEF PermTypes, TaskType
  <2>4. r # 0 /\ Of(t, r)
    BY <2>2, <2>3, Constants DEF Commands, CommandsOf, ChannelSide
  <2>5. Of(t, r)'
    BY <2>4, OfKept
  <2> QED
    BY <2>1, <2>2, <2>5
<1> QED
  BY <1>1, <1>2, <1>3, <1>4, <1>5, <1>6
pipes == <<proc, hpending, prompts, broker, permQ, stdin, stdinOpen, stdout>>

LEMMA PendingSame == pendingReqs' = pendingReqs => PendingKept
  BY DEF PendingKept, Sent

(* The steps of the agents manager, and the updates it sends.              *)
LEMMA ManagerStep ==
  ASSUME PermTypes, AgentsSide, ChannelSide, RidsKept,
         \/ \E a \in Agents : AgentAsks(a) \/ AgentDies(a)
         \/ HandleExit \/ RouteRequest \/ AutoApprove \/ ForwardUpdate \/ RespondPermission
         \/ UNCHANGED vars
  PROVE  PipeType' /\ TaskType' /\ ChannelSide'
<1>1. UNCHANGED <<pipes, chanVars>> /\ UNCHANGED lost
  <2> USE DEF pipes, harnessVars, procVars, chanVars, observers
  <2>1. CASE \E a \in Agents : AgentAsks(a) \/ AgentDies(a)
    BY <2>1 DEF AgentAsks, AgentDies
  <2>2. CASE HandleExit \/ RouteRequest
    BY <2>2 DEF HandleExit, RouteRequest
  <2>3. CASE AutoApprove \/ ForwardUpdate \/ RespondPermission
    BY <2>3 DEF AutoApprove, ForwardUpdate, RespondPermission
  <2>4. CASE UNCHANGED vars
    BY <2>4 DEF vars
  <2> QED
    BY <2>1, <2>2, <2>3, <2>4
<1>2. UNCHANGED <<proc, hpending, prompts, broker, permQ, stdin, stdinOpen, stdout,
                  conn, writer, pendingReqs, waiter>>
  BY <1>1 DEF pipes, chanVars
<1>3. PipeType'
  BY <1>2 DEF PermTypes, PipeType
<1>4. events \in Seq(Refs) /\ commands \in Seq(Commands) /\ stdin \in Seq(Lines) /\ stdout \in Seq(Lines)
      /\ settled \subseteq Tickets
  BY DEF PermTypes, TaskType, PipeType
<1>5. From(stdin, stdin') /\ From(stdout, stdout') /\ PendingKept
  BY <1>2, <1>4, FromTail, PendingSame
<1>6. StdinOf' /\ StdoutOf' /\ HarnessOf' /\ WaitersOf'
  BY <1>2, <1>5, ChannelKept
<1>7. SUFFICES /\ events' \in Seq(Refs) /\ EventsOf'
               /\ commands' \in Seq(Commands) /\ CommandsOf'
               /\ settled' \subseteq Tickets
  BY <1>1, <1>2, <1>3, <1>6, <1>7 DEF TaskType, ChannelSide, PermTypes
<1>8. UNCHANGED events => events' \in Seq(Refs) /\ EventsOf'
  BY <1>4, FromTail, ChannelKept
<1>9. ASSUME commands' = commands \/ (commands # <<>> /\ commands' = Tail(commands))
      PROVE  commands' \in Seq(Commands) /\ CommandsOf'
  BY <1>4, <1>9, FromTail, ChannelKept
<1>10. ASSUME NEW t \in Refs, events' = Append(events, t), t # 0 => Asked(t)'
       PROVE  events' \in Seq(Refs) /\ EventsOf'
  <2>1. /\ events' \in Seq(Refs) /\ Len(events') = Len(events) + 1 /\ Len(events) \in Nat
        /\ events'[Len(events) + 1] = t
        /\ \A i \in 1 .. Len(events) : events'[i] = events[i]
    BY <1>4, <1>10, Queues
  <2>2. \A i \in 1 .. Len(events) : events[i] # 0 => (events[i] \in Tickets /\ ridOf'[events[i]] # 0)
    BY DEF EventsOf, ChannelSide, Asked, RidsKept
  <2>3. \A i \in 1 .. Len(events') : events'[i] # 0 => (events'[i] \in Tickets /\ ridOf'[events'[i]] # 0)
    BY <1>10, <2>1, <2>2 DEF Asked
  <2> QED
    BY <2>1, <2>3 DEF EventsOf, Asked
<1>11. CASE UNCHANGED <<events, commands, settled>>
  BY <1>4, <1>8, <1>9, <1>11
<1>12. CASE RouteRequest
  <2>1. /\ incoming # <<>> /\ Head(incoming).tkt # 0 /\ events' = Append(events, Head(incoming).tkt)
        /\ UNCHANGED <<ridOf, commands, settled>>
    BY <1>12 DEF RouteRequest, observers, harnessVars
  <2>2. Head(incoming).tkt \in Refs /\ Head(incoming) = incoming[1] /\ 1 \in 1 .. Len(incoming)
    BY <2>1, Taken
  <2>3. PICK t \in Refs : t = Head(incoming).tkt /\ Asked(t)
    BY <2>1, <2>2 DEF AgentsSide, Queued, Heard
  <2>4. Asked(t)'
    BY <2>1, <2>3 DEF Asked
  <2> QED
    BY <1>4, <1>9, <1>10, <2>1, <2>3, <2>4
<1>13. CASE AutoApprove
  <2>1. incoming # <<>> /\ Head(incoming).tkt # 0 /\ settled' = settled \cup {Head(incoming).tkt}
        /\ UNCHANGED <<events, commands>>
    BY <1>13 DEF AutoApprove
  <2>2. Head(incoming).tkt \in Tickets
    BY <2>1, Taken, Constants
  <2> QED
    BY <1>4, <1>8, <1>9, <2>1, <2>2
<1>14. CASE ForwardUpdate
  <2>1. events' = Append(events, 0) /\ UNCHANGED <<commands, settled>>
    BY <1>14 DEF ForwardUpdate, observers
  <2>2. 0 \in Refs
    BY Constants
  <2> QED
    BY <1>4, <1>9, <1>10, <2>1, <2>2
<1>15. CASE RespondPermission
  <2>1. commands # <<>> /\ commands' = Tail(commands) /\ settled' = settled \cup {Head(commands).task}
        /\ UNCHANGED events
    BY <1>15 DEF RespondPermission
  <2>2. Head(commands).task \in Tickets
    BY <2>1, Taken
  <2> QED
    BY <1>4, <1>8, <1>9, <2>1, <2>2
<1>16. CASE \E a \in Agents : AgentAsks(a) \/ AgentDies(a)
  BY <1>11, <1>16 DEF AgentAsks, AgentDies, observers
<1>17. CASE HandleExit
  BY <1>11, <1>17 DEF HandleExit, observers
<1>18. CASE UNCHANGED vars
  BY <1>11, <1>18 DEF vars, observers
<1> QED
  BY <1>12, <1>13, <1>14, <1>15, <1>16, <1>17, <1>18
LEMMA TypesOf ==
  ASSUME PermTypes
  PROVE  /\ events \in Seq(Refs) /\ commands \in Seq(Commands)
         /\ stdin \in Seq(Lines) /\ stdout \in Seq(Lines) /\ permQ \in Seq(Tickets)
         /\ hpending \in [Rids -> Nat] /\ pendingReqs \in Seq(Refs) /\ Len(pendingReqs) \in Nat
         /\ waiter \in [Tickets -> NoTask .. MaxAsks] /\ ridOf \in [Tickets -> Refs]
  BY DEF PermTypes, AgentType, PipeType, TaskType

(* The channels manager takes events, and its connection writes.           *)
LEMMA DispatchStep ==
  ASSUME PermTypes, ChannelSide, RidsKept, RouteToChannel \/ RouteDropped \/ DeliverToChannel
  PROVE  PipeType' /\ TaskType' /\ ChannelSide'
<1>1. /\ events # <<>> /\ events' = Tail(events)
      /\ UNCHANGED <<ridOf, proc, hpending, prompts, broker, permQ, stdout, commands, conn, settled>>
  <2> USE DEF harnessVars, procVars, chanVars, observers
  <2> QED
    BY DEF RouteToChannel, RouteDropped, DeliverToChannel
<1>2. Head(events) \in Refs /\ (Head(events) # 0 => Asked(Head(events)))
      /\ events' \in Seq(Refs) /\ From(events, events')
  <2>1. Head(events) \in Refs /\ Head(events) = events[1] /\ 1 \in 1 .. Len(events)
    BY <1>1, TypesOf, Queues
  <2> QED
    BY <1>1, <2>1, TypesOf, FromTail DEF EventsOf, ChannelSide
<1>3. EventsOf' /\ CommandsOf'
  BY <1>1, <1>2, TypesOf, FromTail, ChannelKept
<1>4. ASSUME PendingKept PROVE StdoutOf' /\ HarnessOf'
  BY <1>1, <1>4, TypesOf, FromTail, ChannelKept
<1>5. ASSUME NEW line \in Lines, Writes(line), PendingKept,
             line.method = "requestPermission" => LineOf(line.id, line.tkt)'
      PROVE  stdin' \in Seq(Lines) /\ StdinOf' /\ writer' \in BOOLEAN /\ stdinOpen' \in BOOLEAN
  <2>1. CASE UNCHANGED stdin /\ writer' = FALSE /\ stdinOpen' = FALSE
    BY <1>5, <2>1, TypesOf, FromTail, ChannelKept
  <2>2. CASE stdin' = Append(stdin, line) /\ UNCHANGED <<writer, stdinOpen>>
    <3>1. /\ stdin' \in Seq(Lines) /\ Len(stdin') = Len(stdin) + 1 /\ Len(stdin) \in Nat
          /\ stdin'[Len(stdin) + 1] = line
          /\ \A i \in 1 .. Len(stdin) : stdin'[i] = stdin[i]
      BY <2>2, TypesOf, Queues
    <3>2. ASSUME NEW i \in 1 .. Len(stdin'), stdin'[i].method = "requestPermission"
          PROVE  LineOf(stdin[i].id, stdin[i].tkt)'
      <4>2. CASE i = Len(stdin) + 1
        BY <1>5, <3>1, <3>2, <4>2
      <4>3. CASE i \in 1 .. Len(stdin)
        <5>1. PICK id, t : id = stdin[i].id /\ t = stdin[i].tkt
          OBVIOUS
        <5>2. LineOf(id, t)
          BY <3>1, <3>2, <4>3, <5>1 DEF StdinOf, ChannelSide
        <5>3. LineOf(id, t)'
          BY <1>5, <5>2, LineKept
        <5> QED
          BY <3>1, <4>3, <5>1, <5>3
      <4> QED
        BY <3>1, <4>2, <4>3
    <3> QED
      BY <2>2, <3>1, <3>2 DEF StdinOf, PermTypes, PipeType
  <2> QED
    BY <1>5, <2>1, <2>2 DEF Writes
<1>6. CASE RouteToChannel
  <2>1. PICK t \in Tickets : t = Head(events) /\ Asked(t) /\ Asked(t)'
    BY <1>1, <1>2, <1>6, Constants DEF RouteToChannel, Asked
  <2>2. PICK id \in Nat : id = Len(pendingReqs) + 1
    BY TypesOf
  <2>3. /\ pendingReqs' = Append(pendingReqs, t) /\ Writes(PermissionLine(id, t))
        /\ waiter' = [waiter EXCEPT ![t] = Waiting] /\ UNCHANGED lost
    BY <1>6, <2>1, <2>2 DEF RouteToChannel, SendRequest, observers
  <2>4. /\ pendingReqs' \in Seq(Refs) /\ Len(pendingReqs') = id /\ pendingReqs'[id] = t
        /\ \A i \in 1 .. Len(pendingReqs) : pendingReqs'[i] = pendingReqs[i]
    BY <2>1, <2>2, <2>3, TypesOf, Queues, Constants
  <2>5. PendingKept
    BY <2>2, <2>4, TypesOf DEF PendingKept, Sent
  <2>6. LineOf(id, t)'
    BY <2>1, <2>2, <2>4, TypesOf DEF LineOf, Sent, Of
  <2>7. PermissionLine(id, t) \in Lines /\ PermissionLine(id, t).id = id /\ PermissionLine(id, t).tkt = t
    BY Constants DEF PermissionLine, Lines
  <2>8. stdin' \in Seq(Lines) /\ StdinOf' /\ writer' \in BOOLEAN /\ stdinOpen' \in BOOLEAN
    BY <1>5, <2>3, <2>5, <2>6, <2>7
  <2>9. waiter' \in [Tickets -> NoTask .. MaxAsks] /\ WaitersOf'
    <3>1. Waiting \in NoTask .. MaxAsks /\ ~(Waiting > 0)
      BY Constants DEF Waiting, NoTask
    <3>2. waiter' \in [Tickets -> NoTask .. MaxAsks]
      BY <2>3, <3>1, TypesOf
    <3>3. waiter'[t] = Waiting /\ \A u \in Tickets : u # t => waiter'[u] = waiter[u]
      BY <2>3, TypesOf
    <3>4. ASSUME NEW u \in Tickets, waiter'[u] # NoTask
          PROVE  Asked(u)' /\ (waiter'[u] > 0 => waiter'[u] \in Tickets /\ ridOf'[waiter'[u]] = ridOf'[u])
      <4>1. CASE u = t
        BY <2>1, <3>1, <3>3, <4>1
      <4>2. CASE u # t
        BY <1>1, <3>3, <3>4, <4>2 DEF WaitersOf, ChannelSide, Asked, Of
      <4> QED
        BY <4>1, <4>2
    <3> QED
      BY <3>2, <3>4 DEF WaitersOf, Of
  <2> QED
    BY <1>1, <1>2, <1>3, <1>4, <2>3, <2>4, <2>5, <2>8, <2>9 DEF PipeType, TaskType, PermTypes, ChannelSide
<1>7. CASE RouteDropped
  <2>1. /\ UNCHANGED <<stdin, stdinOpen, writer, pendingReqs, waiter>>
        /\ lost' = lost \cup {Head(events)} /\ Head(events) # 0
    BY <1>7 DEF RouteDropped, harnessVars, chanVars
  <2>2. PendingKept
    BY <2>1, PendingSame
  <2>3. StdinOf' /\ WaitersOf'
    BY <2>1, <2>2, TypesOf, FromTail, ChannelKept
  <2>4. lost' \subseteq Tickets
    BY <1>2, <2>1, Constants DEF PermTypes, TaskType
  <2> QED
    BY <1>1, <1>2, <1>3, <1>4, <2>1, <2>2, <2>3, <2>4 DEF PipeType, TaskType, PermTypes, ChannelSide
<1>8. CASE DeliverToChannel
  <2>1. /\ Writes(DeliverLine) \/ UNCHANGED <<stdin, stdinOpen, writer>>
        /\ UNCHANGED <<pendingReqs, waiter, lost>>
    BY <1>8 DEF DeliverToChannel, observers
  <2>2. PendingKept
    BY <2>1, PendingSame
  <2>3. DeliverLine \in Lines /\ DeliverLine.method # "requestPermission"
    BY Constants DEF DeliverLine, Lines
  <2>4. stdin' \in Seq(Lines) /\ StdinOf' /\ writer' \in BOOLEAN /\ stdinOpen' \in BOOLEAN
    <3>1. CASE Writes(DeliverLine)
      BY <1>5, <2>2, <2>3, <3>1
    <3>2. CASE UNCHANGED <<stdin, stdinOpen, writer>>
      BY <2>2, <3>2, TypesOf, FromTail, ChannelKept DEF PermTypes, PipeType
    <3> QED
      BY <2>1, <3>1, <3>2
  <2>5. WaitersOf'
    BY <2>1, ChannelKept
  <2> QED
    BY <1>1, <1>2, <1>3, <1>4, <2>1, <2>2, <2>4, <2>5 DEF PipeType, TaskType, PermTypes, ChannelSide
<1> QED
  BY <1>6, <1>7, <1>8
(* The reader hands a response to its task; a task hands over its answer.  *)
LEMMA TaskStep ==
  ASSUME PermTypes, ChannelSide, RidsKept,
         ReaderReads \/ \E t \in Tickets : TaskAnswers(t) \/ TaskTimesOut(t)
  PROVE  PipeType' /\ TaskType' /\ ChannelSide'
<1>1. UNCHANGED <<ridOf, proc, hpending, prompts, broker, permQ, stdin, stdinOpen, events, conn, writer,
                  lost, settled>>
  <2> USE DEF harnessVars, procVars, chanVars, observers
  <2> QED
    BY DEF ReaderReads, TaskAnswers, TaskTimesOut
<1>2. EventsOf'
  BY <1>1, TypesOf, FromTail, ChannelKept
<1>3. ASSUME PendingKept PROVE StdinOf' /\ HarnessOf'
  BY <1>1, <1>3, TypesOf, FromTail, ChannelKept
<1>4. CASE ReaderReads
  <2>1. PICK line : line = Head(stdout)
    OBVIOUS
  <2>2. PICK id, u : id = line.id /\ u = line.tkt
    OBVIOUS
  <2>3. PICK t : t = pendingReqs[id]
    OBVIOUS
  <2>4. /\ stdout # <<>> /\ stdout' = Tail(stdout) /\ UNCHANGED commands
        /\ pendingReqs' = [pendingReqs EXCEPT ![id] = 0]
        /\ waiter' = IF t # 0 /\ waiter[t] = Waiting THEN [waiter EXCEPT ![t] = u] ELSE waiter
    BY <1>4, <2>1, <2>2, <2>3 DEF ReaderReads
  <2>5. Asked(u) /\ Sent(id) /\ Of(t, ridOf[u])
    <3>1. Head(stdout) = stdout[1] /\ 1 \in 1 .. Len(stdout)
      BY <2>4, TypesOf, Queues
    <3>2. LineOf(stdout[1].id, stdout[1].tkt)
      BY <3>1 DEF StdoutOf, ChannelSide
    <3> QED
      BY <2>1, <2>2, <2>3, <3>1, <3>2 DEF LineOf
  <2>6. /\ pendingReqs' \in Seq(Refs) /\ Len(pendingReqs') = Len(pendingReqs)
        /\ \A i \in 1 .. Len(pendingReqs) : pendingReqs'[i] \in {pendingReqs[i], 0}
    <3>1. id \in 1 .. Len(pendingReqs) /\ 0 \in Refs
      BY <2>5, Constants DEF Sent
    <3> QED
      BY <2>4, <3>1, TypesOf, ExceptSeq
  <2>7. PendingKept
    BY <2>6 DEF PendingKept, Sent
  <2>8. stdout' \in Seq(Lines) /\ StdoutOf'
    BY <2>4, <2>7, TypesOf, FromTail, ChannelKept
  <2>9. commands' \in Seq(Commands) /\ CommandsOf'
    BY <2>4, TypesOf, FromTail, ChannelKept
  <2>10. waiter' \in [Tickets -> NoTask .. MaxAsks] /\ WaitersOf'
    <3>1. CASE waiter' = waiter
      BY <3>1, TypesOf, ChannelKept
    <3>2. CASE t # 0 /\ waiter' = [waiter EXCEPT ![t] = u]
      <4>1. t \in Tickets /\ u \in Tickets /\ ridOf[t] = ridOf[u] /\ ridOf[u] # 0
        BY <2>5, <3>2 DEF Of, Asked
      <4>2. u \in NoTask .. MaxAsks
        BY <4>1, Constants DEF Tickets, NoTask
      <4>3. waiter' \in [Tickets -> NoTask .. MaxAsks] /\ waiter'[t] = u
            /\ \A v \in Tickets : v # t => waiter'[v] = waiter[v]
        BY <3>2, <4>1, <4>2, TypesOf
      <4>4. ASSUME NEW v \in Tickets, waiter'[v] # NoTask
            PROVE  Asked(v)' /\ (waiter'[v] > 0 => waiter'[v] \in Tickets /\ ridOf'[waiter'[v]] = ridOf'[v])
        <5>1. CASE v = t
          BY <1>1, <4>1, <4>3, <5>1 DEF Asked
        <5>2. CASE v # t
          BY <1>1, <4>3, <4>4, <5>2 DEF WaitersOf, ChannelSide, Asked, Of
        <5> QED
          BY <5>1, <5>2
      <4> QED
        BY <4>3, <4>4 DEF WaitersOf, Of
    <3> QED
      BY <2>4, <3>1, <3>2
  <2> QED
    BY <1>1, <1>2, <1>3, <2>6, <2>7, <2>8, <2>9, <2>10 DEF PipeType, TaskType, PermTypes, ChannelSide
<1>5. ASSUME NEW t \in Tickets, TaskAnswers(t) \/ TaskTimesOut(t) PROVE PipeType' /\ TaskType' /\ ChannelSide'
  <2>1. PICK b : /\ waiter[t] # NoTask /\ waiter' = [waiter EXCEPT ![t] = NoTask]
                 /\ commands' = Append(commands, [rid |-> ridOf[t], answer |-> b, task |-> t])
                 /\ b = 0 \/ (b = waiter[t] /\ waiter[t] > Waiting)
    <3>1. Waiting # NoTask /\ ~(NoTask > Waiting)
      BY DEF Waiting, NoTask
    <3> QED
      BY <1>5, <3>1 DEF TaskAnswers, TaskTimesOut, Denied
  <2>2. UNCHANGED <<stdout, pendingReqs>>
    BY <1>5 DEF TaskAnswers, TaskTimesOut, harnessVars
  <2>3. Asked(t) /\ b \in Refs /\ Of(b, ridOf[t])
    <3>1. waiter[t] \in NoTask .. MaxAsks
      BY TypesOf
    <3>2. b \in Refs
      BY <2>1, <3>1, Constants DEF Refs, Waiting, NoTask
    <3>3. Asked(t) /\ (waiter[t] > 0 => Of(waiter[t], ridOf[t]))
      BY <2>1 DEF WaitersOf, ChannelSide
    <3>4. b # 0 => b = waiter[t] /\ waiter[t] > 0
      BY <2>1, <3>2, Constants
    <3> QED
      BY <3>2, <3>3, <3>4 DEF Of
  <2>4. PICK cmd \in Commands : /\ cmd.rid = ridOf[t] /\ cmd.answer = b /\ commands' = Append(commands, cmd)
    <3>1. ridOf[t] \in Rids
      BY <2>3, TypesOf, Constants DEF Asked
    <3>2. [rid |-> ridOf[t], answer |-> b, task |-> t] \in Commands
      BY <2>3, <3>1 DEF Commands
    <3> QED
      BY <2>1, <3>2
  <2>5. /\ commands' \in Seq(Commands) /\ Len(commands') = Len(commands) + 1 /\ Len(commands) \in Nat
        /\ commands'[Len(commands) + 1] = cmd
        /\ \A i \in 1 .. Len(commands) : commands'[i] = commands[i]
    BY <2>4, TypesOf, Queues
  <2>6. CommandsOf'
    <3>1. ASSUME NEW i \in 1 .. Len(commands')
          PROVE  \/ commands'[i].answer = 0
                 \/ commands'[i].answer \in Tickets /\ ridOf[commands'[i].answer] = commands'[i].rid
      <4>1. CASE i = Len(commands) + 1
        BY <2>3, <2>4, <2>5, <4>1 DEF Of
      <4>2. CASE i \in 1 .. Len(commands)
        BY <2>5, <4>2 DEF Of, CommandsOf, ChannelSide
      <4> QED
        BY <2>5, <4>1, <4>2
    <3> QED
      BY <1>1, <3>1 DEF CommandsOf, Of
  <2>7. waiter' \in [Tickets -> NoTask .. MaxAsks] /\ WaitersOf'
    <3>1. NoTask \in NoTask .. MaxAsks
      BY Constants DEF NoTask
    <3>2. waiter' \in [Tickets -> NoTask .. MaxAsks] /\ waiter'[t] = NoTask
          /\ \A v \in Tickets : v # t => waiter'[v] = waiter[v]
      BY <2>1, <3>1, TypesOf
    <3>3. ASSUME NEW v \in Tickets, waiter'[v] # NoTask
          PROVE  Asked(v)' /\ (waiter'[v] > 0 => \/ waiter'[v] = 0
                                                 \/ waiter'[v] \in Tickets /\ ridOf'[waiter'[v]] = ridOf'[v])
      BY <1>1, <3>2, <3>3 DEF WaitersOf, ChannelSide, Asked, Of
    <3> QED
      BY <3>2, <3>3 DEF WaitersOf, Of
  <2>8. PendingKept /\ StdoutOf'
    BY <2>2, PendingSame, TypesOf, FromTail, ChannelKept
  <2> QED
    BY <1>1, <1>2, <1>3, <2>2, <2>5, <2>6, <2>7, <2>8 DEF PipeType, TaskType, PermTypes, ChannelSide
<1> QED
  BY <1>4, <1>5
(* The connection is replaced, dropped, or closed; the process ends.       *)
LEMMA ConnectionStep ==
  ASSUME PermTypes, ChannelSide, RidsKept,
         ChannelRespawned \/ ChannelGivenUp \/ ChannelExits \/ ShutdownBegins \/ ShutdownEnds
  PROVE  PipeType' /\ TaskType' /\ ChannelSide'
<1>1. UNCHANGED <<ridOf, events, commands, lost, settled>>
  <2> USE DEF harnessVars, procVars, observers
  <2> QED
    BY DEF ChannelRespawned, ChannelGivenUp, ChannelExits, ProcessDies, ShutdownBegins, ShutdownEnds
<1>2. /\ events' \in Seq(Refs) /\ EventsOf' /\ commands' \in Seq(Commands) /\ CommandsOf'
      /\ lost' \subseteq Tickets /\ settled' \subseteq Tickets
  <2>1. From(events, events') /\ From(commands, commands')
    BY <1>1, TypesOf, FromTail
  <2> QED
    BY <1>1, <2>1, TypesOf, ChannelKept DEF PermTypes, TaskType
<1>3. None \in [Rids -> Nat] /\ \A r \in Rids : None[r] = 0
  BY DEF None
<1>4. ASSUME DropPending \/ UNCHANGED waiter
      PROVE  waiter' \in [Tickets -> NoTask .. MaxAsks] /\ WaitersOf'
  <2>1. CASE UNCHANGED waiter
    BY <2>1, TypesOf, ChannelKept
  <2>2. CASE DropPending
    <3>1. Denied \in NoTask .. MaxAsks /\ ~(Denied > 0) /\ Waiting # NoTask
      BY Constants DEF Denied, NoTask, Waiting
    <3>2. \A t \in Tickets : waiter'[t] = IF waiter[t] = Waiting THEN Denied ELSE waiter[t]
      BY <2>2 DEF DropPending
    <3>3. waiter' \in [Tickets -> NoTask .. MaxAsks]
      BY <2>2, <3>1, TypesOf DEF DropPending
    <3>4. ASSUME NEW t \in Tickets, waiter'[t] # NoTask
          PROVE  Asked(t)' /\ (waiter'[t] > 0 => \/ waiter'[t] = 0
                                                 \/ waiter'[t] \in Tickets /\ ridOf'[waiter'[t]] = ridOf'[t])
      <4>1. waiter[t] # NoTask
        BY <3>1, <3>2, <3>4
      <4>2. Asked(t) /\ (waiter[t] > 0 => Of(waiter[t], ridOf[t]))
        BY <4>1 DEF WaitersOf, ChannelSide
      <4> QED
        BY <1>1, <3>1, <3>2, <4>2 DEF Asked, Of
    <3> QED
      BY <3>3, <3>4 DEF WaitersOf, Of
  <2> QED
    BY <1>4, <2>1, <2>2
<1>5. ASSUME DropPending, pendingReqs' = <<>>, stdin' = <<>>, stdout' = <<>>, hpending' = None, permQ' = <<>>,
             prompts' \subseteq Tickets, broker' \subseteq Rids, stdinOpen' \in BOOLEAN, writer' \in BOOLEAN,
             proc' \in {"serving", "draining", "down"}, conn' \in {"open", "closing", "none"}
      PROVE  PipeType' /\ TaskType' /\ ChannelSide'
  <2>1. StdinOf' /\ StdoutOf' /\ HarnessOf'
    BY <1>3, <1>5 DEF StdinOf, StdoutOf, HarnessOf
  <2>2. PipeType'
    <3>1. <<>> \in Seq(Lines) /\ <<>> \in Seq(Tickets) /\ <<>> \in Seq(Refs)
      OBVIOUS
    <3>2. Len(permQ') <= PermCap
      BY <1>5, Constants
    <3> QED
      BY <1>3, <1>5, <3>1, <3>2 DEF PipeType
  <2> QED
    BY <1>2, <1>4, <1>5, <2>1, <2>2 DEF TaskType, ChannelSide
<1>6. PipeType /\ HarnessOf
  BY DEF PermTypes, ChannelSide
<1>7. CASE ChannelRespawned
  BY <1>5, <1>6, <1>7 DEF ChannelRespawned, FreshProcess, PipeType
<1>8. CASE ChannelGivenUp
  <2>1. hpending' = None /\ permQ' = <<>> /\ stdout' = <<>>
    BY <1>6, <1>8 DEF ChannelGivenUp, procVars, HarnessOf
  <2> QED
    BY <1>5, <1>6, <1>8, <2>1 DEF ChannelGivenUp, procVars, PipeType
<1>9. CASE ShutdownEnds
  BY <1>5, <1>6, <1>9 DEF ShutdownEnds, Ends, PipeType
<1>10. ASSUME UNCHANGED <<stdin, stdout, pendingReqs, waiter>>, HarnessOf', PipeType'
       PROVE  PipeType' /\ TaskType' /\ ChannelSide'
  <2>1. From(stdin, stdin') /\ From(stdout, stdout') /\ PendingKept
    BY <1>10, TypesOf, FromTail, PendingSame
  <2> QED
    BY <1>2, <1>4, <1>10, <2>1, ChannelKept DEF TaskType, ChannelSide
<1>11. CASE ChannelExits
  <2>1. /\ UNCHANGED <<stdin, stdinOpen, stdout, conn, writer, pendingReqs, waiter>>
        /\ proc' = "down" /\ hpending' = None /\ prompts' = {} /\ broker' = {} /\ permQ' = <<>>
    BY <1>11 DEF ChannelExits, ProcessDies, Ends, chanVars
  <2>2. HarnessOf'
    BY <1>3, <2>1 DEF HarnessOf
  <2>3. PipeType'
    <3>1. <<>> \in Seq(Tickets) /\ Len(permQ') <= PermCap
      BY <2>1, Constants
    <3> QED
      BY <1>3, <1>6, <2>1, <3>1 DEF PipeType
  <2> QED
    BY <1>10, <2>1, <2>2, <2>3
<1>12. CASE ShutdownBegins
  <2>1. /\ UNCHANGED <<proc, hpending, prompts, broker, permQ, stdin, stdout, pendingReqs, waiter>>
        /\ conn' = "closing" /\ writer' = FALSE /\ stdinOpen' = FALSE
    BY <1>12 DEF ShutdownBegins, procVars
  <2>2. HarnessOf'
    BY <2>1, PendingSame, ChannelKept
  <2>3. PipeType'
    BY <1>6, <2>1 DEF PipeType
  <2> QED
    BY <1>10, <2>1, <2>2, <2>3
<1> QED
  BY <1>7, <1>8, <1>9, <1>11, <1>12

(* The steps of the channel process.                                       *)
LEMMA ProcessStep ==
  ASSUME PermTypes, ChannelSide, RidsKept,
         \/ InProcess(ReadPermission) \/ InProcess(ReadDeliver) \/ InProcess(FlushPermission)
         \/ InProcess(StdinEof) \/ InProcess(DrainEnds)
         \/ \E t \in Tickets : InProcess(PermissionRespond(t))
  PROVE  PipeType' /\ TaskType' /\ ChannelSide'
<1>1. /\ UNCHANGED <<ridOf, events, commands, lost, settled, conn, writer, pendingReqs, waiter, stdinOpen>>
      /\ \/ ReadPermission \/ ReadDeliver \/ FlushPermission \/ StdinEof \/ DrainEnds
         \/ \E t \in Tickets : PermissionRespond(t)
  <2>1. /\ UNCHANGED <<events, commands, lost, settled, conn, writer, pendingReqs, waiter>>
        /\ \/ ReadPermission \/ ReadDeliver \/ FlushPermission \/ StdinEof \/ DrainEnds
           \/ \E t \in Tickets : PermissionRespond(t)
    BY DEF InProcess, chanVars, observers
  <2>2. UNCHANGED <<ridOf, stdinOpen>>
    BY <2>1 DEF ReadPermission, ReadDeliver, FlushPermission, StdinEof, DrainEnds, PermissionRespond
  <2> QED
    BY <2>1, <2>2
<1>2. PipeType /\ TaskType /\ HarnessOf /\ StdinOf /\ StdoutOf
  BY DEF PermTypes, ChannelSide
<1>3. TaskType' /\ EventsOf' /\ CommandsOf' /\ WaitersOf' /\ PendingKept
  <2>1. From(events, events') /\ From(commands, commands') /\ commands' \in Seq(Commands)
    BY <1>1, TypesOf, FromTail
  <2> QED
    BY <1>1, <1>2, <2>1, ChannelKept, PendingSame DEF TaskType
<1>4. SUFFICES /\ StdinOf' /\ StdoutOf' /\ HarnessOf'
               /\ stdin' \in Seq(Lines) /\ stdout' \in Seq(Lines) /\ permQ' \in Seq(Tickets) /\ Len(permQ') <= PermCap
               /\ hpending' \in [Rids -> Nat] /\ prompts' \subseteq Tickets /\ broker' \subseteq Rids
               /\ proc' \in {"serving", "draining", "down"}
  BY <1>1, <1>2, <1>3, <1>4 DEF PipeType, ChannelSide
<1>5. ASSUME stdin' = stdin \/ (stdin # <<>> /\ stdin' = Tail(stdin))
      PROVE  stdin' \in Seq(Lines) /\ StdinOf'
  BY <1>3, <1>5, TypesOf, FromTail, ChannelKept
<1>6. ASSUME UNCHANGED stdout PROVE stdout' \in Seq(Lines) /\ StdoutOf'
  BY <1>3, <1>6, TypesOf, FromTail, ChannelKept
<1>7. ASSUME UNCHANGED <<proc, hpending, permQ>> PROVE HarnessOf'
  BY <1>3, <1>7, ChannelKept
<1>8. CASE ReadDeliver
  BY <1>2, <1>5, <1>6, <1>7, <1>8 DEF ReadDeliver, PipeType
<1>9. CASE StdinEof
  <2>1. UNCHANGED <<hpending, permQ, stdin, stdout, prompts, broker>> /\ proc' = "draining"
    BY <1>9 DEF StdinEof
  <2>2. HarnessOf'
    <3>1. \A r \in Rids : hpending[r] # 0 => Sent(hpending[r]) /\ Of(pendingReqs[hpending[r]], r)
      BY <1>2 DEF HarnessOf
    <3>2. \A i \in 1 .. Len(permQ) : Asked(permQ[i])
      BY <1>2 DEF HarnessOf
    <3> QED
      BY <1>1, <2>1, <3>1, <3>2 DEF HarnessOf, Sent, Of, Asked
  <2> QED
    BY <1>2, <1>5, <1>6, <2>1, <2>2 DEF PipeType
<1>10. CASE DrainEnds
  <2>1. UNCHANGED <<stdin, stdout>> /\ proc' = "down" /\ hpending' = None /\ prompts' = {} /\ broker' = {} /\ permQ' = <<>>
    BY <1>10 DEF DrainEnds, Ends
  <2>2. None \in [Rids -> Nat] /\ \A r \in Rids : None[r] = 0
    BY DEF None
  <2>3. HarnessOf'
    BY <2>1, <2>2 DEF HarnessOf
  <2>4. permQ' \in Seq(Tickets) /\ Len(permQ') <= PermCap
    BY <2>1, Constants
  <2> QED
    BY <1>5, <1>6, <2>1, <2>2, <2>3, <2>4
<1>11. ASSUME NEW t \in Tickets, PermissionRespond(t)
       PROVE  /\ StdinOf' /\ StdoutOf' /\ HarnessOf'
              /\ stdin' \in Seq(Lines) /\ stdout' \in Seq(Lines) /\ permQ' \in Seq(Tickets) /\ Len(permQ') <= PermCap
              /\ hpending' \in [Rids -> Nat] /\ prompts' \subseteq Tickets /\ broker' \subseteq Rids
              /\ proc' \in {"serving", "draining", "down"}
  <2>1. /\ proc # "down" /\ ridOf[t] # 0 /\ Len(permQ) < PermCap /\ permQ' = Append(permQ, t)
        /\ prompts' \subseteq prompts /\ broker' \subseteq broker
        /\ UNCHANGED <<proc, stdin, stdout, hpending>>
    BY <1>11 DEF PermissionRespond, Resolve
  <2>2. /\ permQ' \in Seq(Tickets) /\ Len(permQ') = Len(permQ) + 1 /\ Len(permQ) \in Nat
        /\ permQ'[Len(permQ) + 1] = t
        /\ \A i \in 1 .. Len(permQ) : permQ'[i] = permQ[i]
    BY <2>1, TypesOf, Queues
  <2>3. \A i \in 1 .. Len(permQ') : permQ'[i] \in Tickets /\ ridOf'[permQ'[i]] # 0
    <3>1. \A i \in 1 .. Len(permQ) : permQ[i] \in Tickets /\ ridOf[permQ[i]] # 0
      BY <1>2 DEF HarnessOf, Asked
    <3> QED
      BY <1>1, <2>1, <2>2, <3>1
  <2>4. HarnessOf'
    <3>1. \A r \in Rids : hpending[r] # 0 => Sent(hpending[r]) /\ Of(pendingReqs[hpending[r]], r)
      BY <1>2 DEF HarnessOf
    <3> QED
      BY <1>1, <2>1, <2>3, <3>1 DEF HarnessOf, Sent, Of, Asked
  <2> QED
    BY <1>2, <1>5, <1>6, <2>1, <2>2, <2>4, Constants DEF PipeType
<1>12. CASE ReadPermission
  <2>1. stdin # <<>> /\ Head(stdin).method = "requestPermission"
    BY <1>12 DEF ReadPermission
  <2>2. Head(stdin) \in Lines /\ Head(stdin) = stdin[1] /\ 1 \in 1 .. Len(stdin)
    BY <2>1, TypesOf, Queues
  <2>3. LineOf(stdin[1].id, stdin[1].tkt)
    BY <1>2, <2>1, <2>2 DEF StdinOf
  <2>4. PICK id \in Nat, t \in Tickets : /\ id = Head(stdin).id /\ t = Head(stdin).tkt
                                         /\ Sent(id) /\ Of(pendingReqs[id], ridOf[t]) /\ ridOf[t] # 0
    BY <2>2, <2>3 DEF Lines, LineOf, Asked
  <2>5. ridOf[t] \in Rids
    BY <2>4, TypesOf, Constants
  <2>6. /\ proc = "serving" /\ stdin' = Tail(stdin) /\ UNCHANGED <<proc, stdout, permQ>>
        /\ hpending' = [hpending EXCEPT ![ridOf[t]] = id]
        /\ prompts' = prompts \cup {t} /\ broker' = broker \cup {ridOf[t]}
    BY <1>12, <2>4 DEF ReadPermission, Register
  <2>7. hpending' \in [Rids -> Nat] /\ hpending'[ridOf[t]] = id
        /\ \A r \in Rids : r # ridOf[t] => hpending'[r] = hpending[r]
    BY <2>4, <2>5, <2>6, TypesOf
  <2>8. HarnessOf'
    <3>1. \A r \in Rids : hpending[r] # 0 => Sent(hpending[r]) /\ Of(pendingReqs[hpending[r]], r)
      BY <1>2 DEF HarnessOf
    <3>2. \A r \in Rids : hpending'[r] # 0 => Sent(hpending'[r]) /\ Of(pendingReqs[hpending'[r]], r)
      BY <2>4, <2>7, <3>1
    <3>3. \A i \in 1 .. Len(permQ) : Asked(permQ[i])
      BY <1>2 DEF HarnessOf
    <3>4. proc' # "down"
      BY <2>6
    <3> QED
      BY <1>1, <2>6, <3>2, <3>3, <3>4 DEF HarnessOf, Sent, Of, Asked
  <2> QED
    BY <1>2, <1>5, <1>6, <2>1, <2>5, <2>6, <2>7, <2>8 DEF PipeType
<1>13. CASE FlushPermission
  <2>1. PICK t \in Tickets : permQ # <<>> /\ t = Head(permQ) /\ Asked(t)
    <3>1. permQ # <<>>
      BY <1>13 DEF FlushPermission
    <3>2. Head(permQ) \in Tickets /\ Head(permQ) = permQ[1] /\ 1 \in 1 .. Len(permQ)
      BY <3>1, TypesOf, Queues
    <3> QED
      BY <1>2, <3>1, <3>2 DEF HarnessOf
  <2>2. PICK r \in Rids : r = ridOf[t]
    BY <2>1, TypesOf, Constants DEF Asked
  <2>3. PICK id \in Nat : id = hpending[r]
    BY TypesOf
  <2>4. /\ proc # "down" /\ permQ' = Tail(permQ) /\ UNCHANGED <<proc, stdin, prompts, broker>>
        /\ stdout' = IF id # 0 THEN Append(stdout, ResponseLine(id, t)) ELSE stdout
        /\ hpending' = [hpending EXCEPT ![r] = 0]
    BY <1>13, <2>1, <2>2, <2>3 DEF FlushPermission
  <2>5. hpending' \in [Rids -> Nat] /\ hpending'[r] = 0 /\ \A q \in Rids : q # r => hpending'[q] = hpending[q]
    BY <2>4, TypesOf
  <2>6. permQ' \in Seq(Tickets) /\ Len(permQ') <= PermCap
        /\ \A i \in 1 .. Len(permQ') : \E j \in 1 .. Len(permQ) : permQ'[i] = permQ[j]
    <3>1. permQ' \in Seq(Tickets) /\ From(permQ, permQ')
      BY <2>1, <2>4, TypesOf, FromTail
    <3>2. Len(permQ') = Len(permQ) - 1 /\ Len(permQ) \in Nat
      BY <2>1, <2>4, TypesOf, Queues
    <3> QED
      BY <1>2, <3>1, <3>2, Constants DEF From, PipeType
  <2>7. HarnessOf'
    <3>1. \A q \in Rids : hpending[q] # 0 => Sent(hpending[q]) /\ Of(pendingReqs[hpending[q]], q)
      BY <1>2 DEF HarnessOf
    <3>2. \A q \in Rids : hpending'[q] # 0 => Sent(hpending'[q]) /\ Of(pendingReqs[hpending'[q]], q)
      BY <2>5, <3>1
    <3>3. \A i \in 1 .. Len(permQ') : Asked(permQ'[i])
      BY <1>2, <2>6 DEF HarnessOf
    <3>4. proc' # "down"
      BY <2>4
    <3> QED
      BY <1>1, <3>2, <3>3, <3>4 DEF HarnessOf, Sent, Of, Asked
  <2>8. stdout' \in Seq(Lines) /\ StdoutOf'
    <3>1. CASE id = 0
      BY <1>6, <2>4, <3>1
    <3>2. CASE id # 0
      <4>1. ResponseLine(id, t) \in Lines /\ ResponseLine(id, t).id = id /\ ResponseLine(id, t).tkt = t
        BY Constants DEF ResponseLine, Lines
      <4>2. LineOf(id, t)
        BY <1>2, <2>1, <2>2, <2>3, <3>2 DEF HarnessOf, LineOf
      <4>3. /\ stdout' \in Seq(Lines) /\ Len(stdout') = Len(stdout) + 1 /\ Len(stdout) \in Nat
            /\ stdout'[Len(stdout) + 1] = ResponseLine(id, t)
            /\ \A i \in 1 .. Len(stdout) : stdout'[i] = stdout[i]
        BY <2>4, <3>2, <4>1, TypesOf, Queues
      <4>4. \A i \in 1 .. Len(stdout') : LineOf(stdout'[i].id, stdout'[i].tkt)
        BY <1>2, <4>1, <4>2, <4>3 DEF StdoutOf
      <4> QED
        BY <1>1, <4>3, <4>4 DEF StdoutOf, LineOf, Sent, Of, Asked
    <3> QED
      BY <3>1, <3>2
  <2> QED
    BY <1>2, <1>5, <2>4, <2>5, <2>6, <2>7, <2>8 DEF PipeType
<1> QED
  BY <1>1, <1>8, <1>9, <1>10, <1>11, <1>12, <1>13
(***************************************************************************)
(* The answers that reach the agents                                       *)
(***************************************************************************)
LEMMA ReplyKept ==
  ASSUME RidsKept, NEW t \in Tickets, NEW b, OwnReply(t, b)
  PROVE  OwnReply(t, b)'
<1>1. ridOf[t] # 0
  BY DEF OwnReply, Asked
<1>2. Asked(t)' /\ (Unique(t)' => Unique(t))
  BY <1>1, SharedKept
<1> QED
  BY <1>2 DEF OwnReply

(* An answer b to the requests of the request_id r: one of them alone can  *)
(* only get its own.                                                       *)
LEMMA RepliesAdded ==
  ASSUME AgentType, Replies, RidsKept, NEW a \in Agents, NEW r \in Rids, NEW b \in Refs,
         Of(b, r), AgentGets(a, r, b)
  PROVE  Replies'
<1>1. answers' = answers \cup {<<t, b>> : t \in {u \in asked[a] : ridOf[u] = r}}
  BY Gets
<1>2. ASSUME NEW t \in asked[a], ridOf[t] = r PROVE t \in Tickets /\ OwnReply(t, b)
  <2>1. t \in Tickets /\ ridOf[t] # 0
    BY <1>2, Constants DEF AgentType
  <2>2. Unique(t) => b \in {t, Denied}
    BY <1>2 DEF Of, Unique, Denied
  <2> QED
    BY <2>1, <2>2 DEF OwnReply, Asked
<1>3. ASSUME NEW x \in answers' PROVE \E t \in Tickets, c \in Refs : x = <<t, c>> /\ OwnReply(t, c)
  BY <1>1, <1>2, <1>3 DEF Replies
<1>4. \A x \in answers' : \E t \in Tickets, c \in Refs : x = <<t, c>> /\ OwnReply(t, c)'
  BY <1>3, ReplyKept
<1> QED
  BY <1>4 DEF Replies

LEMMA RepliesStep ==
  ASSUME PermInv, RidsKept, [Next]_vars
  PROVE  Replies'
<1>1. PermTypes /\ AgentType /\ AgentsSide /\ ChannelSide /\ Replies
  BY DEF PermInv, PermTypes
<1>2. CASE UNCHANGED answers
  <2>1. \A x \in answers : \E t \in Tickets, b \in Refs : x = <<t, b>> /\ OwnReply(t, b)'
    BY <1>1, ReplyKept DEF Replies
  <2> QED
    BY <1>2, <2>1 DEF Replies
<1>3. CASE AutoApprove
  <2>1. /\ incoming # <<>> /\ Head(incoming).tkt # 0
        /\ UNCHANGED answers \/ AgentGets(Head(incoming).slot, ridOf[Head(incoming).tkt], Head(incoming).tkt)
    BY <1>3 DEF AutoApprove
  <2>2. PICK a \in Agents, t \in Tickets : /\ a = Head(incoming).slot /\ t = Head(incoming).tkt
                                           /\ Head(incoming) = incoming[1] /\ 1 \in 1 .. Len(incoming)
    BY <1>1, <2>1, Taken, Constants
  <2>3. ridOf[t] \in Rids /\ t \in Refs /\ Of(t, ridOf[t])
    <3>1. ridOf[t] # 0
      BY <1>1, <2>1, <2>2 DEF AgentsSide, Queued, Heard, Asked
    <3> QED
      BY <1>1, <3>1, TypesOf, Constants DEF Of
  <2> QED
    BY <1>1, <1>2, <2>1, <2>2, <2>3, RepliesAdded
<1>4. CASE RespondPermission
  <2>1. commands # <<>>
    BY <1>4 DEF RespondPermission
  <2>2. PICK r \in Rids, b \in Refs : r = Head(commands).rid /\ b = Head(commands).answer /\ Of(b, r)
    <3>1. Head(commands) \in Commands /\ Head(commands) = commands[1] /\ 1 \in 1 .. Len(commands)
      BY <1>1, <2>1, TypesOf, Queues
    <3> QED
      BY <1>1, <3>1 DEF Commands, CommandsOf, ChannelSide
  <2>3. UNCHANGED answers \/ (Holders(r) # {} /\ AgentGets(First(Holders(r)), r, b))
    BY <1>4, <2>2 DEF RespondPermission
  <2> QED
    BY <1>1, <1>2, <2>2, <2>3, FirstHolder, RepliesAdded
<1>5. CASE (\E a \in Agents : AgentAsks(a) \/ AgentDies(a)) \/ HandleExit \/ RouteRequest
  BY <1>2, <1>5 DEF AgentAsks, AgentDies, HandleExit, RouteRequest, observers
<1> QED
  BY <1>2, <1>3, <1>4, <1>5, AgentsSideSteps DEF agentsSide

(***************************************************************************)
(* The theorems                                                            *)
(***************************************************************************)
LEMMA PermInit == Init => PermInv
<1> SUFFICES ASSUME Init PROVE PermInv
  OBVIOUS
<1> USE Constants DEF Init, HarnessInit
<1>1. AgentType
  <2>1. <<>> \in Seq(Notices)
    OBVIOUS
  <2>2. slotPending \in [Agents -> [Rids -> Refs]]
    BY DEF None
  <2>3. asker \in [Tickets -> [slot : 0 .. NumAgents, gone : BOOLEAN]]
    <3>1. [slot |-> 0, gone |-> FALSE] \in [slot : 0 .. NumAgents, gone : BOOLEAN]
      OBVIOUS
    <3> QED
      BY <3>1
  <2> QED
    BY <2>1, <2>2, <2>3 DEF AgentType
<1>2. PipeType
  <2>1. <<>> \in Seq(Lines) /\ <<>> \in Seq(Refs) /\ <<>> \in Seq(Tickets) /\ Len(<<>>) <= PermCap
    OBVIOUS
  <2>2. hpending \in [Rids -> Nat]
    BY DEF None
  <2> QED
    BY <2>1, <2>2 DEF PipeType
<1>3. TaskType
  BY DEF TaskType, NoTask
<1>4. AgentsSide
  BY DEF AgentsSide, Asking, Queued, Held, Strays, None, Tickets
<1>5. ChannelSide
  BY DEF ChannelSide, EventsOf, StdinOf, HarnessOf, StdoutOf, WaitersOf, CommandsOf, None
<1>6. Replies
  BY DEF Replies
<1> QED
  BY <1>1, <1>2, <1>3, <1>4, <1>5, <1>6 DEF PermInv, PermTypes

LEMMA PermStep == PermInv /\ [Next]_vars => PermInv'
<1> SUFFICES ASSUME PermInv, [Next]_vars PROVE PermInv'
  OBVIOUS
<1>1. PermTypes /\ AgentsSide /\ ChannelSide /\ Asking
  BY DEF PermInv, AgentsSide
<1>2. RidsKept
  BY <1>1, KeptStep
<1>3. AgentType' /\ AgentsSide'
  BY <1>1, AgentTypeStep, AgentsSideStep
<1>4. PipeType' /\ TaskType' /\ ChannelSide'
  BY <1>1, <1>2, ManagerStep, DispatchStep, TaskStep, ConnectionStep, ProcessStep DEF Next
<1>5. Replies'
  BY <1>2, RepliesStep
<1> QED
  BY <1>3, <1>4, <1>5 DEF PermInv, PermTypes

LEMMA PermInvariant == Spec => []PermInv
  BY PermInit, PermStep, PTL DEF Spec

(* TypeOK, for every number of agents, requests, faults and every capacity *)
(* of the permission channel: above all a response line always names a     *)
(* JSON-RPC id of the connection it is read from, so the reader task never *)
(* takes a line for a request of an earlier connection.                    *)
THEOREM TypeCorrect == Spec => []TypeOK
<1>1. PermInv => TypeOK
  <2> SUFFICES ASSUME PermInv PROVE TypeOK
    OBVIOUS
  <2>1. AgentType /\ PipeType /\ TaskType /\ StdoutOf
    BY DEF PermInv, PermTypes, ChannelSide
  <2>2. /\ \A i \in DOMAIN stdin : stdin[i].tkt \in Refs
        /\ \A i \in DOMAIN permQ : permQ[i] \in Tickets
    <3>1. stdin \in Seq(Lines) /\ permQ \in Seq(Tickets)
      BY <2>1 DEF PipeType
    <3>2. \A i \in DOMAIN stdin : stdin[i] \in Lines
      BY <3>1
    <3> QED
      BY <3>1, <3>2 DEF Lines
  <2>3. \A i \in DOMAIN stdout : stdout[i].tkt \in Refs /\ stdout[i].id \in DOMAIN pendingReqs
    <3>1. stdout \in Seq(Lines) /\ pendingReqs \in Seq(Refs)
      BY <2>1 DEF PipeType
    <3>2. \A i \in DOMAIN stdout : stdout[i] \in Lines
      BY <3>1
    <3>3. \A i \in DOMAIN stdout : Sent(stdout[i].id)
      BY <2>1, <3>1 DEF StdoutOf, LineOf
    <3> QED
      BY <3>1, <3>2, <3>3 DEF Lines, Sent
  <2>4. HarnessType
    BY <2>1, <2>2, <2>3 DEF HarnessType, AgentType, PipeType, Refs
  <2> QED
    BY <2>1, <2>3, <2>4 DEF TypeOK, AgentType, PipeType, TaskType, Refs
<1> QED
  BY <1>1, PermInvariant, PTL

(* AnsweredOnce: RespondPermission takes the request out of the slot that  *)
(* holds it, so whatever number of answers users, timeouts and restarted   *)
(* channels give to a request, its agent gets one.                         *)
THEOREM AnsweredOnceHolds == Spec => []AnsweredOnce
<1>1. PermInv => AnsweredOnce
  BY DEF PermInv, AgentsSide, Strays, AnsweredOnce
<1> QED
  BY <1>1, PermInvariant, PTL

(* OwnAnswer: an answer goes back through the tables of the harness and of *)
(* the connection and through the pending permissions of the slots, each   *)
(* with a key of its own, and reaches the request it was given to when no  *)
(* other one has the same request_id.                                      *)
THEOREM OwnAnswerHolds == Spec => []OwnAnswer
<1>1. PermInv => OwnAnswer
  BY DEF PermInv, Replies, OwnReply, OwnAnswer
<1> QED
  BY <1>1, PermInvariant, PTL
=============================================================================
