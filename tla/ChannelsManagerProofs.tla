----------------------- MODULE ChannelsManagerProofs -----------------------
(***************************************************************************)
(* Theorems about ChannelsManager.                                         *)
(***************************************************************************)
EXTENDS ChannelsManager, SequenceTheorems, TLAPS

Events == [type : {"deliver", "complete", "dispatch"}, key : Keys]

(* The parts of TypeOK, and the types of the variables it leaves out.      *)
SlotType ==
    /\ status \in [Slots -> {"up", "exited", "gone"}]
    /\ crashes \in [Slots -> Nat] /\ known \in [Slots -> SUBSET Keys]
InboxType ==
    /\ inbox \in [Slots -> Seq(Messages)]
    /\ written \in [Slots -> Nat] /\ handled \in [Slots -> Nat]
ContextType ==
    /\ context \in [Keys -> Seq(1 .. MaxMsgs)]
    /\ \A k \in Keys : Len(context[k]) <= ContextLimit
TaskType ==
    /\ routing \subseteq Keys /\ acked \subseteq Keys
    /\ \/ task = Idle
       \/ task \in [op : {"sleep"}, slot : Slots]
       \/ task \in [op : Waits, slot : Slots, key : Keys, batch : Seq(1 .. MaxMsgs)]
AgentsType ==
    /\ reply \in {"none", "ok", "error"} /\ serving \in {"no", "ok", "error"}
    /\ events \in Seq(Events) /\ Len(events) <= EventCap
    /\ sending \in Seq(Events) /\ sessions \subseteq Keys
    /\ queue \in [Keys -> {"idle", "running", "more", "stuck"}]

Types == SlotType /\ InboxType /\ ContextType /\ TaskType /\ AgentsType

LEMMA TypesOK == Types => TypeOK
  BY DEF Types, SlotType, InboxType, ContextType, TaskType, AgentsType, TypeOK, Events

LEMMA TypesInit == Init => Types
<1> SUFFICES ASSUME Init PROVE Types
  OBVIOUS
<1>1. SlotType /\ InboxType
  BY DEF Init, SlotType, InboxType
<1>2. ContextType
  BY ChannelsAssumption DEF Init, ContextType
<1>3. TaskType /\ AgentsType
  BY ChannelsAssumption DEF Init, TaskType, AgentsType, Idle
<1> QED
  BY <1>1, <1>2, <1>3 DEF Types

(* What store_context leaves of the context of a group.                    *)
LEMMA StoreTyped ==
  ASSUME NEW ctx \in Seq(1 .. MaxMsgs), NEW id \in 1 .. MaxMsgs
  PROVE  /\ StoreContext(ctx, id) \in Seq(1 .. MaxMsgs)
         /\ Len(StoreContext(ctx, id)) <= ContextLimit
<1> DEFINE all  == Append(ctx, id)
           drop == IF Len(all) > ContextLimit THEN Len(all) - ContextLimit ELSE 0
<1>1. all \in Seq(1 .. MaxMsgs) /\ Len(all) \in Nat
  OBVIOUS
<1>2. drop \in Nat /\ drop <= Len(all) /\ Len(all) - drop <= ContextLimit
  BY <1>1, ChannelsAssumption
<1> HIDE DEF all, drop
<1>3. \A i \in drop + 1 .. Len(all) : all[i] \in 1 .. MaxMsgs
  <2>1. SUFFICES ASSUME NEW i \in drop + 1 .. Len(all) PROVE all[i] \in 1 .. MaxMsgs
    OBVIOUS
  <2>2. i \in 1 .. Len(all)
    BY <1>1, <1>2
  <2> QED BY <1>1, <2>2, ElementOfSeq
<1>4. /\ SubSeq(all, drop + 1, Len(all)) \in Seq(1 .. MaxMsgs)
      /\ Len(SubSeq(all, drop + 1, Len(all))) =
           IF drop + 1 <= Len(all) THEN Len(all) - (drop + 1) + 1 ELSE 0
  BY <1>1, <1>2, <1>3, SubSeqProperties
<1>5. Len(SubSeq(all, drop + 1, Len(all))) <= ContextLimit
  BY <1>1, <1>2, <1>4, ChannelsAssumption
<1> QED
  BY <1>4, <1>5 DEF StoreContext, all, drop

LEMMA SlotTypeStep == Types /\ [Next]_vars => SlotType'
<1> SUFFICES ASSUME Types, [Next]_vars PROVE SlotType'
  OBVIOUS
<1> USE DEF Types, SlotType
<1>1. ASSUME NEW s \in Slots, ProcessSends(s) \/ Collect(s) PROVE SlotType'
  BY <1>1 DEF ProcessSends, Collect, CollectDropped, CollectSend
<1>2. ASSUME NEW s \in Slots, ProcessExits(s) PROVE SlotType'
  BY <1>2 DEF ProcessExits
<1>3. ASSUME NEW s \in Slots, HandleCrash(s) PROVE SlotType'
  BY <1>3 DEF HandleCrash
<1>4. CASE Replied
  <2>1. CASE SessionCreated
    <3>1. task.slot \in Slots /\ task.key \in Keys
      BY <2>1 DEF SessionCreated, TaskType, Idle
    <3> QED BY <2>1, <3>1 DEF SessionCreated
  <2>2. CASE SessionRefused \/ EnqueueRefused
    BY <2>2 DEF SessionRefused, EnqueueRefused, Deliver
  <2>3. CASE Enqueued
    BY <2>3 DEF Enqueued, slotVars
  <2> QED BY <1>4, <2>1, <2>2, <2>3 DEF Replied
<1>5. CASE TakeEvent
  BY <1>5 DEF TakeEvent, Handle, Deliver
<1>6. CASE Respawned \/ RespawnFails
  BY <1>6 DEF Respawned, RespawnFails
<1>7. CASE AgentsCreate \/ AgentsEnqueue \/ AgentsSend \/ AgentsReply
  BY <1>7 DEF AgentsCreate, AgentsEnqueue, AgentsSend, AgentsReply, slotVars
<1>8. ASSUME NEW k \in Keys, AgentsUpdate(k) \/ AgentsComplete(k) PROVE SlotType'
  BY <1>8 DEF AgentsUpdate, AgentsComplete, slotVars
<1>9. CASE UNCHANGED vars
  BY <1>9 DEF vars, slotVars
<1> QED
  BY <1>1, <1>2, <1>3, <1>4, <1>5, <1>6, <1>7, <1>8, <1>9 DEF Next

(* What is read, and what was written.                                     *)
LEMMA InboxStep == Types /\ NothingDiscarded /\ [Next]_vars => InboxType' /\ NothingDiscarded'
<1> SUFFICES ASSUME Types, NothingDiscarded, [Next]_vars PROVE InboxType' /\ NothingDiscarded'
  OBVIOUS
<1> USE DEF Types, InboxType, NothingDiscarded
<1>1. ASSUME NEW s \in Slots, ProcessSends(s) PROVE InboxType' /\ NothingDiscarded'
  <2>1. PICK m \in Messages : inbox' = [inbox EXCEPT ![s] = Append(@, m)]
    <3>1. written[s] + 1 \in 1 .. MaxMsgs
      BY <1>1, ChannelsAssumption DEF ProcessSends
    <3>2. PICK k \in Keys : \E kind \in Kinds(k) : inbox' = [inbox EXCEPT ![s] =
                        Append(@, [id |-> written[s] + 1, key |-> k, kind |-> kind])]
      BY <1>1 DEF ProcessSends
    <3>3. \A kind \in Kinds(k) : [id |-> written[s] + 1, key |-> k, kind |-> kind] \in Messages
      BY <3>1 DEF Messages
    <3> QED BY <3>2, <3>3
  <2>2. inbox' \in [Slots -> Seq(Messages)]
    BY <2>1
  <2>3. \A t \in Slots : Len(inbox'[t]) = IF t = s THEN Len(inbox[t]) + 1 ELSE Len(inbox[t])
    BY <2>1
  <2> QED
    BY <1>1, <2>2, <2>3 DEF ProcessSends
<1>2. ASSUME NEW s \in Slots, Collect(s) PROVE InboxType' /\ NothingDiscarded'
  <2>1. Reads(s) /\ written' = written
    BY <1>2 DEF Collect, CollectDropped, CollectSend
  <2>2. Tail(inbox[s]) \in Seq(Messages) /\ Len(Tail(inbox[s])) = Len(inbox[s]) - 1
    BY <2>1 DEF Reads
  <2>3. inbox' \in [Slots -> Seq(Messages)]
    BY <2>1, <2>2 DEF Reads
  <2>4. \A t \in Slots : Len(inbox'[t]) = IF t = s THEN Len(inbox[t]) - 1 ELSE Len(inbox[t])
    BY <2>1, <2>2 DEF Reads
  <2> QED
    BY <2>1, <2>3, <2>4 DEF Reads
<1>3. CASE UNCHANGED <<inbox, written, handled>>
  BY <1>3
<1>4. ASSUME NEW s \in Slots, ProcessExits(s) \/ HandleCrash(s)
      PROVE  UNCHANGED <<inbox, written, handled>>
  BY <1>4 DEF ProcessExits, HandleCrash, obsVars
<1>5. CASE Replied \/ TakeEvent \/ Respawned \/ RespawnFails
  BY <1>3, <1>5 DEF Replied, SessionCreated, SessionRefused, Enqueued, EnqueueRefused, TakeEvent,
     Respawned, RespawnFails, obsVars, slotVars
<1>6. CASE AgentsCreate \/ AgentsEnqueue \/ AgentsSend \/ AgentsReply
  BY <1>3, <1>6 DEF AgentsCreate, AgentsEnqueue, AgentsSend, AgentsReply, obsVars, slotVars
<1>7. ASSUME NEW k \in Keys, AgentsUpdate(k) \/ AgentsComplete(k)
      PROVE  UNCHANGED <<inbox, written, handled>>
  BY <1>7 DEF AgentsUpdate, AgentsComplete, obsVars, slotVars
<1>8. CASE UNCHANGED vars
  BY <1>3, <1>8 DEF vars, obsVars, slotVars
<1> QED
  BY <1>1, <1>2, <1>3, <1>4, <1>5, <1>6, <1>7, <1>8 DEF Next

LEMMA ContextStep == Types /\ [Next]_vars => ContextType'
<1> SUFFICES ASSUME Types, [Next]_vars PROVE ContextType'
  OBVIOUS
<1> USE DEF Types, ContextType
<1>1. CASE UNCHANGED context
  BY <1>1
<1>2. ASSUME NEW s \in Slots, Collect(s) PROVE ContextType'
  <2> DEFINE m == Head(inbox[s])
  <2>1. m \in Messages
    BY <1>2 DEF Collect, CollectDropped, CollectSend, Reads, InboxType
  <2>2. m.key \in Keys /\ m.id \in 1 .. MaxMsgs
    BY <2>1 DEF Messages
  <2> HIDE DEF m
  <2>3. CASE context' = [context EXCEPT ![m.key] = StoreContext(@, m.id)]
    <3>1. /\ StoreContext(context[m.key], m.id) \in Seq(1 .. MaxMsgs)
          /\ Len(StoreContext(context[m.key], m.id)) <= ContextLimit
      BY <2>2, StoreTyped
    <3> QED BY <2>2, <2>3, <3>1
  <2>4. CASE context' = TakeContext(m.key)
    BY <2>2, <2>4, ChannelsAssumption DEF TakeContext
  <2>5. \/ UNCHANGED context
        \/ context' = [context EXCEPT ![m.key] = StoreContext(@, m.id)]
        \/ context' = TakeContext(m.key)
    BY <1>2 DEF Collect, CollectDropped, CollectSend, m
  <2> QED BY <1>1, <2>3, <2>4, <2>5
<1>3. ASSUME NEW s \in Slots, ProcessSends(s) \/ ProcessExits(s) \/ HandleCrash(s)
      PROVE  UNCHANGED context
  BY <1>3 DEF ProcessSends, ProcessExits, HandleCrash
<1>4. CASE Replied \/ TakeEvent \/ Respawned \/ RespawnFails
  BY <1>1, <1>4 DEF Replied, SessionCreated, SessionRefused, Enqueued, EnqueueRefused, TakeEvent,
     Respawned, RespawnFails
<1>5. CASE AgentsCreate \/ AgentsEnqueue \/ AgentsSend \/ AgentsReply
  BY <1>1, <1>5 DEF AgentsCreate, AgentsEnqueue, AgentsSend, AgentsReply
<1>6. ASSUME NEW k \in Keys, AgentsUpdate(k) \/ AgentsComplete(k) PROVE UNCHANGED context
  BY <1>6 DEF AgentsUpdate, AgentsComplete
<1>7. CASE UNCHANGED vars
  BY <1>1, <1>7 DEF vars
<1> QED
  BY <1>1, <1>2, <1>3, <1>4, <1>5, <1>6, <1>7 DEF Next

(* What the manager is doing.                                              *)
LEMMA TaskStep == Types /\ [Next]_vars => TaskType'
<1> SUFFICES ASSUME Types, [Next]_vars PROVE TaskType'
  OBVIOUS
<1> USE DEF Types, TaskType
<1>1. CASE UNCHANGED <<routing, acked, task>>
  BY <1>1
<1>2. ASSUME NEW s \in Slots, CollectSend(s) PROVE TaskType'
  <2> DEFINE m == Head(inbox[s])
             batch == IF m.kind = "mention" THEN Append(context[m.key], m.id) ELSE <<m.id>>
  <2>1. m \in Messages
    BY <1>2 DEF CollectSend, Reads, InboxType
  <2>2. m.key \in Keys /\ m.id \in 1 .. MaxMsgs
    BY <2>1 DEF Messages
  <2>3. batch \in Seq(1 .. MaxMsgs)
    <3> HIDE DEF m
    <3>1. context[m.key] \in Seq(1 .. MaxMsgs)
      BY <2>2 DEF ContextType
    <3>2. Append(context[m.key], m.id) \in Seq(1 .. MaxMsgs) /\ <<m.id>> \in Seq(1 .. MaxMsgs)
      BY <2>2, <3>1
    <3> QED BY <3>2
  <2>4. task' = [op    |-> IF m.key \in routing THEN "enqueue" ELSE "create",
                 slot  |-> s, key |-> m.key, batch |-> batch]
    BY <1>2, Zenon DEF CollectSend
  <2> HIDE DEF m, batch
  <2>5. task' \in [op : Waits, slot : Slots, key : Keys, batch : Seq(1 .. MaxMsgs)]
    BY <2>2, <2>3, <2>4 DEF Waits
  <2> QED BY <1>2, <2>5 DEF CollectSend
<1>3. ASSUME NEW s \in Slots,
             ProcessSends(s) \/ ProcessExits(s) \/ CollectDropped(s)
      PROVE  TaskType'
  BY <1>1, <1>3 DEF ProcessSends, ProcessExits, CollectDropped
<1>4. ASSUME NEW s \in Slots, HandleCrash(s) PROVE TaskType'
  BY <1>4 DEF HandleCrash
<1>5. CASE Replied
  <2>1. CASE SessionCreated
    <3>1. task \in [op : Waits, slot : Slots, key : Keys, batch : Seq(1 .. MaxMsgs)]
      BY <2>1 DEF SessionCreated, Idle
    <3>2. task' \in [op : Waits, slot : Slots, key : Keys, batch : Seq(1 .. MaxMsgs)]
      BY <2>1, <3>1 DEF SessionCreated, Waits
    <3> QED BY <2>1, <3>1, <3>2 DEF SessionCreated
  <2>2. CASE SessionRefused \/ Enqueued \/ EnqueueRefused
    BY <2>2 DEF SessionRefused, Enqueued, EnqueueRefused
  <2> QED BY <1>5, <2>1, <2>2 DEF Replied
<1>6. CASE TakeEvent
  <2>1. Head(events) \in Events /\ UNCHANGED <<routing, task>>
    BY <1>6 DEF TakeEvent, AgentsType
  <2>2. Head(events).key \in Keys
    BY <2>1 DEF Events
  <2>3. acked' \subseteq acked \cup {Head(events).key}
    BY <1>6 DEF TakeEvent, Handle
  <2> QED BY <2>1, <2>2, <2>3
<1>7. CASE Respawned \/ RespawnFails
  BY <1>7 DEF Respawned, RespawnFails
<1>8. CASE AgentsCreate \/ AgentsEnqueue \/ AgentsSend \/ AgentsReply
  BY <1>1, <1>8 DEF AgentsCreate, AgentsEnqueue, AgentsSend, AgentsReply
<1>9. ASSUME NEW k \in Keys, AgentsUpdate(k) \/ AgentsComplete(k) PROVE TaskType'
  BY <1>1, <1>9 DEF AgentsUpdate, AgentsComplete
<1>10. CASE UNCHANGED vars
  BY <1>1, <1>10 DEF vars
<1> QED
  BY <1>2, <1>3, <1>4, <1>5, <1>6, <1>7, <1>8, <1>9, <1>10 DEF Next, Collect

(* The queues between the two managers.                                    *)
LEMMA AgentsStep == Types /\ [Next]_vars => AgentsType'
<1> SUFFICES ASSUME Types, [Next]_vars PROVE AgentsType'
  OBVIOUS
<1> USE DEF Types, AgentsType
<1>1. CASE UNCHANGED <<reply, events, agentsVars>>
  BY <1>1 DEF agentsVars
<1>k. ASSUME task.op \in Waits PROVE task.key \in Keys
  BY <1>k DEF TaskType, Idle, Waits
<1>e. \A k \in Keys : {Event("deliver", k), Event("complete", k), Event("dispatch", k)} \subseteq Events
  BY DEF Event, Events
<1>2. ASSUME NEW s \in Slots,
             ProcessSends(s) \/ ProcessExits(s) \/ Collect(s) \/ HandleCrash(s)
      PROVE  AgentsType'
  BY <1>1, <1>2 DEF ProcessSends, ProcessExits, Collect, CollectDropped, CollectSend, HandleCrash
<1>3. CASE Replied \/ Respawned \/ RespawnFails
  BY <1>3 DEF Replied, SessionCreated, SessionRefused, Enqueued, EnqueueRefused,
     Respawned, RespawnFails, agentsVars
<1>4. CASE TakeEvent
  <2>1. Tail(events) \in Seq(Events) /\ Len(Tail(events)) = Len(events) - 1
    BY <1>4 DEF TakeEvent
  <2> QED BY <1>4, <2>1, ChannelsAssumption DEF TakeEvent, agentsVars
<1>5. CASE AgentsCreate
  BY <1>5, <1>k DEF AgentsCreate, Verdicts, Waits
<1>6. CASE AgentsEnqueue
  <2>1. task.key \in Keys
    BY <1>6, <1>k DEF AgentsEnqueue, Waits
  <2>2. <<Event("dispatch", task.key)>> \in Seq(Events)
    BY <1>e, <2>1
  <2>3. serving' \in {"no", "ok", "error"} /\ sending' \in Seq(Events)
    BY <1>6, <2>2 DEF AgentsEnqueue, Verdicts
  <2>4. queue' \in [Keys -> {"idle", "running", "more", "stuck"}]
    BY <1>6 DEF AgentsEnqueue, Prompted
  <2> QED BY <1>6, <2>3, <2>4 DEF AgentsEnqueue
<1>7. CASE AgentsSend
  <2>1. Head(sending) \in Events /\ Tail(sending) \in Seq(Events)
    BY <1>7 DEF AgentsSend
  <2>2. Append(events, Head(sending)) \in Seq(Events)
        /\ Len(Append(events, Head(sending))) = Len(events) + 1
    BY <2>1
  <2>3. Len(events) + 1 <= EventCap
    BY <1>7, ChannelsAssumption DEF AgentsSend
  <2> QED BY <1>7, <2>1, <2>2, <2>3 DEF AgentsSend
<1>8. CASE AgentsReply
  BY <1>8 DEF AgentsReply
<1>9. ASSUME NEW k \in Keys, AgentsUpdate(k) PROVE AgentsType'
  <2>1. <<Event("deliver", k)>> \in Seq(Events)
    BY <1>e
  <2> QED BY <1>9, <2>1 DEF AgentsUpdate
<1>10. ASSUME NEW k \in Keys, AgentsComplete(k) PROVE AgentsType'
  <2>1. /\ <<>> \in Seq(Events) /\ <<Event("deliver", k)>> \in Seq(Events)
        /\ <<Event("complete", k)>> \in Seq(Events) /\ <<Event("dispatch", k)>> \in Seq(Events)
    BY <1>e
  <2>2. PICK result \in Seq(Events) : sending' = result \o <<Event("complete", k)>>
                      \o (IF queue[k] = "more" THEN <<Event("dispatch", k)>> ELSE <<>>)
    BY <1>10, <2>1 DEF AgentsComplete
  <2>3. sending' \in Seq(Events)
    BY <2>1, <2>2, ConcatProperties
  <2>4. queue' \in [Keys -> {"idle", "running", "more", "stuck"}]
    BY <1>10 DEF AgentsComplete, Prompted
  <2> QED BY <1>10, <2>3, <2>4 DEF AgentsComplete
<1>11. CASE UNCHANGED vars
  BY <1>1, <1>11 DEF vars
<1> QED
  BY <1>2, <1>3, <1>4, <1>5, <1>6, <1>7, <1>8, <1>9, <1>10, <1>11 DEF Next

LEMMA TypesStep == Types /\ NothingDiscarded /\ [Next]_vars => Types' /\ NothingDiscarded'
  BY SlotTypeStep, InboxStep, ContextStep, TaskStep, AgentsStep DEF Types

(* The channels manager's fields keep their types, the context of a group  *)
(* never exceeds context_history_limit and the event queue never exceeds   *)
(* its capacity, whatever the limits are.                                  *)
THEOREM TypeCorrect == Spec => []TypeOK
<1>1. Init => Types /\ NothingDiscarded
  BY TypesInit DEF Init, NothingDiscarded
<1> QED
  BY <1>1, TypesStep, TypesOK, PTL DEF Spec

(* No message of a channel process is lost when the process ends: what it  *)
(* sent was read or waits to be read, in every state.                      *)
THEOREM NothingDiscardedHolds == Spec => []NothingDiscarded
<1>1. Init => Types /\ NothingDiscarded
  BY TypesInit DEF Init, NothingDiscarded
<1> QED
  BY <1>1, TypesStep, PTL DEF Spec

-----------------------------------------------------------------------------
(* Every session of the agents manager has a routing entry, except the one *)
(* whose creation the channels manager is waiting for.                     *)
Created == IF task.op = "create" /\ (serving = "ok" \/ reply = "ok") THEN {task.key} ELSE {}
EventsKnown ==
    /\ \A i \in 1 .. Len(events) : events[i].key \in sessions
    /\ \A i \in 1 .. Len(sending) : sending[i].key \in sessions
SessionsRouted ==
    /\ sessions = routing \cup Created
    /\ task.op = "enqueue" => task.key \in routing
    /\ \A k \in Keys : queue[k] # "idle" => k \in sessions
ReplyAwaited ==
    /\ serving # "no" => task.op \in Waits /\ reply = "none"
    /\ reply # "none" => task.op \in Waits /\ serving = "no"

RouteInv == Types /\ NothingDiscarded /\ EventsKnown /\ SessionsRouted /\ ReplyAwaited

LEMMA RouteInit == Init => RouteInv
<1> SUFFICES ASSUME Init PROVE RouteInv
  OBVIOUS
<1>1. Types /\ NothingDiscarded
  BY TypesInit DEF Init, NothingDiscarded
<1>2. EventsKnown
  BY DEF Init, EventsKnown
<1>3. SessionsRouted /\ ReplyAwaited
  BY DEF Init, SessionsRouted, ReplyAwaited, Idle, Created
<1> QED
  BY <1>1, <1>2, <1>3 DEF RouteInv

LEMMA EventsStep == RouteInv /\ [Next]_vars => EventsKnown'
<1> SUFFICES ASSUME RouteInv, [Next]_vars PROVE EventsKnown'
  OBVIOUS
<1> USE DEF RouteInv, EventsKnown
<1>t. events \in Seq(Events) /\ sending \in Seq(Events)
  BY DEF Types, AgentsType
<1>1. CASE UNCHANGED <<events, sending, sessions>>
  BY <1>1
<1>2. ASSUME NEW s \in Slots,
             ProcessSends(s) \/ ProcessExits(s) \/ Collect(s) \/ HandleCrash(s)
      PROVE  EventsKnown'
  BY <1>1, <1>2 DEF ProcessSends, ProcessExits, Collect, CollectDropped, CollectSend, HandleCrash,
     agentsVars
<1>3. CASE Replied \/ Respawned \/ RespawnFails \/ AgentsReply
  BY <1>1, <1>3 DEF Replied, SessionCreated, SessionRefused, Enqueued, EnqueueRefused,
     Respawned, RespawnFails, AgentsReply, agentsVars
<1>4. CASE TakeEvent
  <2>1. Len(Tail(events)) = Len(events) - 1 /\ Len(events) \in Nat
        /\ \A i \in 1 .. Len(Tail(events)) : Tail(events)[i] = events[i + 1]
    BY <1>t, <1>4, HeadTailProperties DEF TakeEvent
  <2>2. events' = Tail(events) /\ UNCHANGED <<sending, sessions>>
    BY <1>4 DEF TakeEvent, agentsVars
  <2> QED BY <2>1, <2>2
<1>5. CASE AgentsCreate
  BY <1>5 DEF AgentsCreate
<1>6. CASE AgentsEnqueue
  <2>1. task.key \in sessions
    BY <1>6 DEF AgentsEnqueue, SessionsRouted
  <2>2. sending' = <<Event("dispatch", task.key)>> \/ sending' = sending
    BY <1>6 DEF AgentsEnqueue
  <2> QED BY <1>6, <2>1, <2>2 DEF AgentsEnqueue, Event
<1>7. CASE AgentsSend
  <2>1. /\ Head(sending) \in Events /\ Len(Tail(sending)) = Len(sending) - 1 /\ Len(sending) \in Nat \ {0}
        /\ \A i \in 1 .. Len(Tail(sending)) : Tail(sending)[i] = sending[i + 1]
    BY <1>t, <1>7, HeadTailProperties, EmptySeq DEF AgentsSend
  <2>2. Head(sending).key \in sessions
    BY <1>t, <2>1
  <2>3. \A i \in 1 .. Len(Append(events, Head(sending))) :
          Append(events, Head(sending))[i].key \in sessions
    BY <1>t, <2>1, <2>2
  <2>4. events' = Append(events, Head(sending)) /\ sending' = Tail(sending) /\ sessions' = sessions
    BY <1>7 DEF AgentsSend
  <2> QED BY <2>1, <2>3, <2>4
<1>8. ASSUME NEW k \in Keys, AgentsUpdate(k) PROVE EventsKnown'
  BY <1>8 DEF AgentsUpdate, Event
<1>9. ASSUME NEW k \in Keys, AgentsComplete(k) PROVE EventsKnown'
  <2> DEFINE Of == {e \in Events : e.key = k}
  <2>1. /\ <<>> \in Seq(Of) /\ <<Event("deliver", k)>> \in Seq(Of)
        /\ <<Event("complete", k)>> \in Seq(Of) /\ <<Event("dispatch", k)>> \in Seq(Of)
    BY DEF Event, Events
  <2>2. PICK result \in Seq(Of) : sending' = result \o <<Event("complete", k)>>
                      \o (IF queue[k] = "more" THEN <<Event("dispatch", k)>> ELSE <<>>)
    BY <1>9, <2>1 DEF AgentsComplete
  <2>3. sending' \in Seq(Of)
    <3> HIDE DEF Of
    <3> QED BY <2>1, <2>2, ConcatProperties
  <2>4. k \in sessions
    BY <1>9 DEF AgentsComplete, SessionsRouted
  <2>5. \A i \in 1 .. Len(sending') : sending'[i] \in Of
    <3> HIDE DEF Of
    <3> QED BY <2>3, ElementOfSeq
  <2> QED BY <1>9, <2>4, <2>5 DEF AgentsComplete
<1>10. CASE UNCHANGED vars
  BY <1>1, <1>10 DEF vars, agentsVars
<1> QED
  BY <1>2, <1>3, <1>4, <1>5, <1>6, <1>7, <1>8, <1>9, <1>10 DEF Next

LEMMA RoutedStep == RouteInv /\ [Next]_vars => SessionsRouted' /\ ReplyAwaited'
<1> SUFFICES ASSUME RouteInv, [Next]_vars PROVE SessionsRouted' /\ ReplyAwaited'
  OBVIOUS
<1> USE DEF RouteInv, SessionsRouted, ReplyAwaited, Created, Waits
<1>1. CASE UNCHANGED <<routing, sessions, task, serving, reply, queue>>
  BY <1>1
<1>2. ASSUME NEW s \in Slots, ProcessSends(s) \/ ProcessExits(s) \/ CollectDropped(s)
      PROVE  SessionsRouted' /\ ReplyAwaited'
  BY <1>1, <1>2 DEF ProcessSends, ProcessExits, CollectDropped, agentsVars
<1>3. ASSUME NEW s \in Slots, CollectSend(s) \/ HandleCrash(s)
      PROVE  SessionsRouted' /\ ReplyAwaited'
  <2>1. task.op = "idle" /\ UNCHANGED <<routing, sessions, serving, reply, queue>>
    BY <1>3 DEF CollectSend, Reads, HandleCrash, Idle, agentsVars
  <2>2. CASE HandleCrash(s)
    BY <2>1, <2>2 DEF HandleCrash
  <2>3. CASE CollectSend(s)
    <3>1. /\ task'.op = IF task'.key \in routing THEN "enqueue" ELSE "create"
      BY <2>3 DEF CollectSend
    <3> QED BY <2>1, <3>1
  <2> QED BY <1>3, <2>2, <2>3
<1>4. CASE SessionCreated
  <2>1. task'.op = "enqueue" /\ task'.key = task.key
    BY <1>4 DEF SessionCreated, Types, TaskType, Idle
  <2> QED BY <1>4, <2>1 DEF SessionCreated, agentsVars
<1>5. CASE SessionRefused \/ Enqueued \/ EnqueueRefused
  <2>1. task' = Idle /\ reply' = "none" /\ UNCHANGED <<routing, sessions, serving, queue>>
    BY <1>5 DEF SessionRefused, Enqueued, EnqueueRefused, agentsVars
  <2>2. Created = {} /\ serving = "no"
    BY <1>5 DEF SessionRefused, Enqueued, EnqueueRefused
  <2>3. Created' = {}
    BY <2>1 DEF Idle
  <2> QED BY <2>1, <2>2, <2>3 DEF Idle
<1>6. CASE TakeEvent
  BY <1>1, <1>6 DEF TakeEvent, agentsVars
<1>7. CASE Respawned \/ RespawnFails
  BY <1>7 DEF Respawned, RespawnFails, Idle, agentsVars
<1>8. CASE AgentsCreate
  BY <1>8 DEF AgentsCreate, Verdicts, Free
<1>9. CASE AgentsEnqueue
  <2>1. \A k \in Keys : queue'[k] # "idle" => queue[k] # "idle" \/ k = task.key
    BY <1>9 DEF AgentsEnqueue, Types, AgentsType
  <2>2. task.op = "enqueue" /\ reply = "none" /\ UNCHANGED <<routing, sessions, task, reply>>
    BY <1>9 DEF AgentsEnqueue
  <2>3. SessionsRouted'
    BY <2>1, <2>2
  <2> QED BY <2>2, <2>3
<1>10. CASE AgentsSend
  BY <1>1, <1>10 DEF AgentsSend
<1>11. CASE AgentsReply
  BY <1>11 DEF AgentsReply, Types, AgentsType
<1>12. ASSUME NEW k \in Keys, AgentsUpdate(k) PROVE SessionsRouted' /\ ReplyAwaited'
  BY <1>1, <1>12 DEF AgentsUpdate
<1>13. ASSUME NEW k \in Keys, AgentsComplete(k) PROVE SessionsRouted' /\ ReplyAwaited'
  <2>1. \A j \in Keys : queue'[j] # "idle" => queue[j] # "idle"
    BY <1>13 DEF AgentsComplete, Types, AgentsType
  <2> QED BY <1>13, <2>1 DEF AgentsComplete
<1>14. CASE UNCHANGED vars
  BY <1>1, <1>14 DEF vars, agentsVars
<1> QED
  BY <1>2, <1>3, <1>4, <1>5, <1>6, <1>7, <1>8, <1>9, <1>10, <1>11, <1>12, <1>13, <1>14
  DEF Next, Collect, Replied

LEMMA RouteStep == RouteInv /\ [Next]_vars => RouteInv'
  BY TypesStep, EventsStep, RoutedStep DEF RouteInv

(* Although the agents manager may send events for a session before the    *)
(* channels manager has seen the reply to CreateSession, no event is ever  *)
(* handled without a routing entry for its session.                        *)
THEOREM RoutedFirstHolds == Spec => RoutedFirst
<1>1. RouteInv /\ [Next]_vars => [taken' # taken => Head(events).key \in routing]_vars
  <2> SUFFICES ASSUME RouteInv, Next, taken' # taken PROVE Head(events).key \in routing
    OBVIOUS
  <2>1. TakeEvent
    BY DEF Next, ProcessSends, ProcessExits, Collect, CollectDropped, CollectSend, HandleCrash,
       Replied, SessionCreated, SessionRefused, Enqueued, EnqueueRefused, Respawned, RespawnFails,
       AgentsCreate, AgentsEnqueue, AgentsSend, AgentsReply, AgentsUpdate, AgentsComplete, obsVars
  <2>2. events # <<>> /\ events \in Seq(Events) /\ sessions \subseteq routing
    BY <2>1 DEF TakeEvent, RouteInv, SessionsRouted, Created, Idle, Types, AgentsType
  <2>3. Head(events) = events[1] /\ 1 \in 1 .. Len(events)
    BY <2>2, EmptySeq
  <2> QED
    BY <2>2, <2>3 DEF RouteInv, EventsKnown
<1> QED
  BY <1>1, RouteInit, RouteStep, PTL DEF Spec, RoutedFirst

-----------------------------------------------------------------------------
(* The order of a conversation.  Its messages are, from the oldest to the  *)
(* newest, with the agents manager, in the batch that waits for a session  *)
(* or for its turn, in the context of the group, or still in the inbox,    *)
(* whose messages are numbered on from those handled.                      *)
Ids == 1 .. MaxMsgs
Before(p, q) == \A i \in DOMAIN p, j \in DOMAIN q : p[i] < q[j]
UpTo(p, n)   == \A i \in DOMAIN p : p[i] <= n
Ordered(p, q, r, n) ==
    /\ Increasing(p) /\ Increasing(q) /\ Increasing(r)
    /\ Before(p, q) /\ Before(p, r) /\ Before(q, r)
    /\ UpTo(p, n) /\ UpTo(q, n) /\ UpTo(r, n)

(* The batch has not been handed over yet.                                 *)
Fresh(k) ==
    /\ task.op \in Waits /\ task.key = k
    /\ task.op = "enqueue" => reply = "none" /\ serving = "no"
Pending(k) == IF Fresh(k) THEN task.batch ELSE <<>>

InboxNumbered ==
    \A s \in Slots : \A i \in 1 .. Len(inbox[s]) :
        /\ inbox[s][i].id = handled[s] + i
        /\ Home[inbox[s][i].key] = s /\ inbox[s][i].kind \in Kinds(inbox[s][i].key)
GroupsTalk == \A k \in Keys : context[k] # <<>> => k \in Groups
Conversations ==
    /\ got \in [Keys -> Seq(Ids)]
    /\ \A k \in Keys : Ordered(got[k], Pending(k), context[k], handled[Home[k]])

OrderInv == RouteInv /\ InboxNumbered /\ GroupsTalk /\ Conversations

(* The moves of messages between these four places.                        *)
LEMMA IdsAreNumbers ==
  ASSUME NEW p \in Seq(Ids)
  PROVE  DOMAIN p = 1 .. Len(p) /\ Len(p) \in Nat /\ \A i \in DOMAIN p : p[i] \in Nat
<1>1. DOMAIN p = 1 .. Len(p) /\ Len(p) \in Nat
  BY LenProperties
<1>2. \A i \in DOMAIN p : p[i] \in Ids
  BY <1>1, ElementOfSeq
<1>3. Ids \subseteq Nat
  BY ChannelsAssumption DEF Ids
<1> QED
  BY <1>1, <1>2, <1>3

LEMMA KeptByStore ==
  ASSUME NEW c \in Seq(Ids), NEW id \in Ids
  PROVE  \E f \in [DOMAIN StoreContext(c, id) -> DOMAIN Append(c, id)] :
            /\ \A i, j \in DOMAIN StoreContext(c, id) : i < j => f[i] < f[j]
            /\ \A i \in DOMAIN StoreContext(c, id) : StoreContext(c, id)[i] = Append(c, id)[f[i]]
<1> DEFINE all  == Append(c, id)
           drop == IF Len(all) > ContextLimit THEN Len(all) - ContextLimit ELSE 0
           kept == SubSeq(all, drop + 1, Len(all))
<1>1. all \in Seq(Ids) /\ Len(all) \in Nat /\ DOMAIN all = 1 .. Len(all)
  OBVIOUS
<1>2. drop \in Nat /\ drop <= Len(all)
  BY <1>1, ChannelsAssumption
<1>3. StoreContext(c, id) = kept
  BY DEF StoreContext
<1> HIDE DEF all, drop
<1>4. DOMAIN kept = 1 .. Len(all) - drop /\ \A i \in 1 .. Len(all) - drop : kept[i] = all[i + drop]
  <2>1. \A i \in drop + 1 .. Len(all) : all[i] \in Ids
    <3> SUFFICES ASSUME NEW i \in drop + 1 .. Len(all) PROVE all[i] \in Ids
      OBVIOUS
    <3>1. i \in 1 .. Len(all)
      BY <1>1, <1>2
    <3> QED
      BY <1>1, <3>1, ElementOfSeq
  <2>2. /\ kept \in Seq(Ids)
        /\ Len(kept) = IF drop + 1 <= Len(all) THEN Len(all) - (drop + 1) + 1 ELSE 0
        /\ \A i \in 1 .. Len(all) - (drop + 1) + 1 : kept[i] = all[drop + 1 + i - 1]
    BY <1>1, <1>2, <2>1, SubSeqProperties
  <2> HIDE DEF kept
  <2>3. Len(kept) = Len(all) - drop
    <3>1. \A m, d, l \in Nat : d <= m /\ l = (IF d + 1 <= m THEN m - (d + 1) + 1 ELSE 0) => l = m - d
      OBVIOUS
    <3>2. Len(kept) \in Nat
      BY <2>2, LenProperties
    <3> QED
      BY <1>1, <1>2, <2>2, <3>1, <3>2, Zenon
  <2>4. DOMAIN kept = 1 .. Len(kept)
    BY <2>2, LenProperties
  <2>5. ASSUME NEW i \in 1 .. Len(all) - drop PROVE kept[i] = all[i + drop]
    <3>1. i \in 1 .. Len(all) - (drop + 1) + 1 /\ drop + 1 + i - 1 = i + drop
      BY <1>1, <1>2
    <3> QED
      BY <2>2, <3>1
  <2> QED
    BY <2>3, <2>4, <2>5
<1> HIDE DEF kept
<1> DEFINE f == [i \in DOMAIN kept |-> i + drop]
<1>5. f \in [DOMAIN kept -> DOMAIN all]
  BY <1>1, <1>2, <1>4
<1>6. /\ \A i, j \in DOMAIN kept : i < j => f[i] < f[j]
      /\ \A i \in DOMAIN kept : kept[i] = all[f[i]]
  BY <1>1, <1>2, <1>4
<1> HIDE DEF f
<1> QED
  BY <1>3, <1>5, <1>6 DEF all

LEMMA MovesInOrder ==
  ASSUME NEW p \in Seq(Ids), NEW q \in Seq(Ids), NEW r \in Seq(Ids), NEW n \in Nat, Ordered(p, q, r, n)
  PROVE  /\ Ordered(p, <<>>, r, n) /\ Ordered(p, q, r, n + 1)
         /\ Ordered(p \o q, <<>>, r, n)
<1>1. /\ DOMAIN p = 1 .. Len(p) /\ DOMAIN q = 1 .. Len(q) /\ DOMAIN r = 1 .. Len(r)
      /\ Len(p) \in Nat /\ Len(q) \in Nat
      /\ \A i \in DOMAIN p : p[i] \in Nat
      /\ \A i \in DOMAIN q : q[i] \in Nat
      /\ \A i \in DOMAIN r : r[i] \in Nat
  BY IdsAreNumbers
<1>2. Ordered(p, <<>>, r, n)
  BY DEF Ordered, Increasing, Before, UpTo
<1>3. Ordered(p, q, r, n + 1)
  <2>1. UpTo(p, n + 1) /\ UpTo(q, n + 1) /\ UpTo(r, n + 1)
    BY <1>1 DEF Ordered, UpTo
  <2> QED
    BY <2>1 DEF Ordered
<1>4. Ordered(p \o q, <<>>, r, n)
  <2>1. /\ p \o q \in Seq(Ids) /\ Len(p \o q) = Len(p) + Len(q)
        /\ DOMAIN (p \o q) = 1 .. Len(p) + Len(q)
        /\ \A i \in 1 .. Len(p) + Len(q) : (p \o q)[i] = IF i <= Len(p) THEN p[i] ELSE q[i - Len(p)]
    BY ConcatProperties, LenProperties
  <2>2. ASSUME NEW i \in DOMAIN (p \o q)
        PROVE  \/ i \in DOMAIN p /\ (p \o q)[i] = p[i]
               \/ i - Len(p) \in DOMAIN q /\ (p \o q)[i] = q[i - Len(p)] /\ ~(i \in DOMAIN p)
    BY <1>1, <2>1
  <2>3. Increasing(p \o q)
    <3> SUFFICES ASSUME NEW i \in DOMAIN (p \o q), NEW j \in DOMAIN (p \o q), i < j
                 PROVE  (p \o q)[i] < (p \o q)[j]
      BY DEF Increasing
    <3>1. i \in 1 .. Len(p) + Len(q) /\ j \in 1 .. Len(p) + Len(q)
      BY <2>1
    <3>2. CASE j \in DOMAIN p
      BY <1>1, <2>2, <3>1, <3>2 DEF Ordered, Increasing
    <3>3. CASE i \in DOMAIN p /\ j \notin DOMAIN p
      BY <2>2, <3>3 DEF Ordered, Before
    <3>4. CASE i \notin DOMAIN p /\ j \notin DOMAIN p
      <4>1. i - Len(p) < j - Len(p)
        BY <1>1, <3>1
      <4> QED
        BY <2>2, <3>4, <4>1 DEF Ordered, Increasing
    <3> QED
      BY <1>1, <3>1, <3>2, <3>3, <3>4
  <2>4. Before(p \o q, r) /\ UpTo(p \o q, n)
    BY <2>2 DEF Ordered, Before, UpTo
  <2> QED
    BY <1>2, <2>3, <2>4 DEF Ordered, Increasing, Before, UpTo
<1> QED
  BY <1>2, <1>3, <1>4

(* The next message is put behind the context, or opens a new batch.       *)
LEMMA NextInOrder ==
  ASSUME NEW p \in Seq(Ids), NEW c \in Seq(Ids), NEW n \in Nat, n + 1 \in Ids, Ordered(p, <<>>, c, n)
  PROVE  /\ Ordered(p, Append(c, n + 1), <<>>, n + 1)
         /\ Ordered(p, <<>>, StoreContext(c, n + 1), n + 1)
         /\ c = <<>> => Ordered(p, <<n + 1>>, c, n + 1)
<1>1. /\ DOMAIN p = 1 .. Len(p) /\ DOMAIN c = 1 .. Len(c) /\ Len(p) \in Nat /\ Len(c) \in Nat
      /\ \A i \in DOMAIN p : p[i] \in Nat
      /\ \A i \in DOMAIN c : c[i] \in Nat
  BY IdsAreNumbers
<1> DEFINE all == Append(c, n + 1)
<1>2. /\ DOMAIN all = 1 .. Len(c) + 1
      /\ \A i \in 1 .. Len(c) : all[i] = c[i]
      /\ all[Len(c) + 1] = n + 1
      /\ all \in Seq(Ids)
  BY <1>1
<1> HIDE DEF all
<1>3. Increasing(all) /\ UpTo(all, n + 1)
  <2>1. \A i \in DOMAIN all : i \in DOMAIN c \/ i = Len(c) + 1
    BY <1>1, <1>2
  <2>2. UpTo(all, n + 1)
    BY <1>1, <1>2, <2>1 DEF Ordered, UpTo
  <2>3. ASSUME NEW i \in DOMAIN all, NEW j \in DOMAIN all, i < j PROVE all[i] < all[j]
    <3>1. i \in DOMAIN c
      BY <1>1, <1>2, <2>3
    <3>2. CASE j \in DOMAIN c
      BY <1>1, <1>2, <2>3, <3>1, <3>2 DEF Ordered, Increasing
    <3>3. CASE j = Len(c) + 1
      BY <1>1, <1>2, <3>1, <3>3 DEF Ordered, UpTo
    <3> QED
      BY <2>1, <3>2, <3>3
  <2> QED
    BY <2>2, <2>3 DEF Increasing
<1>4. Before(p, all)
  BY <1>1, <1>2 DEF Ordered, Before, UpTo
<1>5. Increasing(p) /\ UpTo(p, n + 1)
  BY <1>1 DEF Ordered, UpTo
<1>6. Ordered(p, all, <<>>, n + 1)
  BY <1>3, <1>4, <1>5 DEF Ordered, Increasing, Before, UpTo
<1>7. Ordered(p, <<>>, StoreContext(c, n + 1), n + 1)
  <2> DEFINE kept == StoreContext(c, n + 1)
  <2>1. PICK f \in [DOMAIN kept -> DOMAIN all] :
            /\ \A i, j \in DOMAIN kept : i < j => f[i] < f[j]
            /\ \A i \in DOMAIN kept : kept[i] = all[f[i]]
    BY KeptByStore DEF all
  <2> HIDE DEF kept
  <2>2. Increasing(kept) /\ Before(p, kept) /\ UpTo(kept, n + 1)
    BY <1>3, <1>4, <2>1 DEF Increasing, Before, UpTo
  <2>3. Ordered(p, <<>>, kept, n + 1)
    BY <1>5, <2>2 DEF Ordered, Increasing, Before, UpTo
  <2> QED
    BY <2>3 DEF kept
<1>8. ASSUME c = <<>> PROVE Ordered(p, <<n + 1>>, c, n + 1)
  <2>1. Append(<<>>, n + 1) = <<n + 1>>
    OBVIOUS
  <2> QED
    BY <1>6, <1>8, <2>1 DEF all
<1> QED
  BY <1>6, <1>7, <1>8 DEF all

(* What is read next.                                                      *)
LEMMA NextMessage ==
  ASSUME OrderInv, NEW s \in Slots, Reads(s)
  PROVE  LET m == Head(inbox[s]) IN
         /\ m.id = handled[s] + 1 /\ m.id \in Ids /\ m.key \in Keys /\ Home[m.key] = s
         /\ m.kind \in Kinds(m.key)
         /\ Len(Tail(inbox[s])) = Len(inbox[s]) - 1 /\ Len(inbox[s]) \in Nat \ {0}
         /\ \A i \in 1 .. Len(Tail(inbox[s])) : Tail(inbox[s])[i] = inbox[s][i + 1]
<1>1. inbox[s] \in Seq(Messages) /\ inbox[s] # <<>> /\ handled[s] \in Nat
  BY DEF OrderInv, RouteInv, Types, InboxType, Reads
<1>2. /\ Head(inbox[s]) = inbox[s][1] /\ 1 \in 1 .. Len(inbox[s]) /\ Len(inbox[s]) \in Nat \ {0}
      /\ Len(Tail(inbox[s])) = Len(inbox[s]) - 1
      /\ \A i \in 1 .. Len(Tail(inbox[s])) : Tail(inbox[s])[i] = inbox[s][i + 1]
      /\ inbox[s][1] \in Messages
  BY <1>1, EmptySeq, HeadTailProperties, ElementOfSeq
<1>3. inbox[s][1].id \in Ids /\ inbox[s][1].key \in Keys
  BY <1>2 DEF Messages, Ids
<1> QED
  BY <1>1, <1>2, <1>3 DEF OrderInv, InboxNumbered

LEMMA InboxNumberedStep == OrderInv /\ [Next]_vars => InboxNumbered'
<1> SUFFICES ASSUME OrderInv, [Next]_vars, NEW s \in Slots PROVE
        \A i \in 1 .. Len(inbox'[s]) :
            /\ inbox'[s][i].id = handled'[s] + i
            /\ Home[inbox'[s][i].key] = s /\ inbox'[s][i].kind \in Kinds(inbox'[s][i].key)
  BY DEF InboxNumbered
<1> DEFINE Goal == \A i \in 1 .. Len(inbox'[s]) :
            /\ inbox'[s][i].id = handled'[s] + i
            /\ Home[inbox'[s][i].key] = s /\ inbox'[s][i].kind \in Kinds(inbox'[s][i].key)
<1>1. inbox \in [Slots -> Seq(Messages)] /\ written[s] = handled[s] + Len(inbox[s])
      /\ handled \in [Slots -> Nat]
  BY DEF OrderInv, RouteInv, NothingDiscarded, Types, InboxType
<1>2. CASE inbox'[s] = inbox[s] /\ handled'[s] = handled[s]
  BY <1>2 DEF OrderInv, InboxNumbered
<1>3. ASSUME NEW t \in Slots, ProcessSends(t) PROVE Goal
  <2>1. CASE t # s
    BY <1>1, <1>2, <1>3, <2>1 DEF ProcessSends
  <2>2. CASE t = s
    <3>k. PICK k \in Keys : \E kind \in Kinds(k) : /\ Home[k] = s
              /\ inbox' = [inbox EXCEPT ![s] = Append(@, [id |-> written[s] + 1, key |-> k, kind |-> kind])]
      BY <1>3, <2>2 DEF ProcessSends
    <3>1. PICK kind \in Kinds(k) : /\ Home[k] = s
              /\ inbox'[s] = Append(inbox[s], [id |-> written[s] + 1, key |-> k, kind |-> kind])
      BY <1>1, <3>k
    <3> DEFINE m == [id |-> written[s] + 1, key |-> k, kind |-> kind]
    <3>2. m.id = written[s] + 1 /\ m.key = k /\ m.kind = kind
      OBVIOUS
    <3> HIDE DEF m
    <3>3. /\ Len(inbox'[s]) = Len(inbox[s]) + 1 /\ inbox'[s][Len(inbox[s]) + 1] = m
          /\ \A i \in 1 .. Len(inbox[s]) : inbox'[s][i] = inbox[s][i]
          /\ Len(inbox[s]) \in Nat
      BY <1>1, <3>1 DEF m
    <3>4. handled'[s] = handled[s] /\ handled[s] \in Nat
      BY <1>1, <1>3 DEF ProcessSends
    <3>5. m.id = handled[s] + (Len(inbox[s]) + 1)
      BY <1>1, <3>2, <3>3, <3>4
    <3>6. ASSUME NEW i \in 1 .. Len(inbox'[s]) PROVE
            /\ inbox'[s][i].id = handled'[s] + i
            /\ Home[inbox'[s][i].key] = s /\ inbox'[s][i].kind \in Kinds(inbox'[s][i].key)
      <4>1. CASE i = Len(inbox[s]) + 1
        BY <3>1, <3>2, <3>3, <3>4, <3>5, <4>1
      <4>2. CASE i \in 1 .. Len(inbox[s])
        <5>1. /\ inbox[s][i].id = handled[s] + i
              /\ Home[inbox[s][i].key] = s /\ inbox[s][i].kind \in Kinds(inbox[s][i].key)
          BY <4>2 DEF OrderInv, InboxNumbered
        <5>2. inbox'[s][i] = inbox[s][i] /\ handled'[s] = handled[s]
          BY <3>3, <3>4, <4>2
        <5> QED
          BY <5>1, <5>2
      <4> QED
        BY <3>3, <4>1, <4>2
    <3> QED
      BY <3>6
  <2> QED
    BY <2>1, <2>2
<1>4. ASSUME NEW t \in Slots, Collect(t) PROVE Goal
  <2>1. Reads(t)
    BY <1>4 DEF Collect, CollectDropped, CollectSend
  <2>2. CASE t # s
    BY <1>1, <1>2, <2>1, <2>2 DEF Reads
  <2>3. CASE t = s
    <3>1. inbox'[s] = Tail(inbox[s]) /\ handled'[s] = handled[s] + 1 /\ handled[s] \in Nat
      BY <1>1, <2>1, <2>3 DEF Reads
    <3>2. ASSUME NEW i \in 1 .. Len(Tail(inbox[s]))
          PROVE  Tail(inbox[s])[i] = inbox[s][i + 1] /\ i + 1 \in 1 .. Len(inbox[s]) /\ i \in Nat
      BY <2>1, <2>3, NextMessage
    <3>3. ASSUME NEW i \in 1 .. Len(Tail(inbox[s]))
          PROVE  /\ Tail(inbox[s])[i].id = (handled[s] + 1) + i
                 /\ Home[Tail(inbox[s])[i].key] = s
                 /\ Tail(inbox[s])[i].kind \in Kinds(Tail(inbox[s])[i].key)
      <4>1. inbox[s][i + 1].id = handled[s] + (i + 1)
        BY <3>2 DEF OrderInv, InboxNumbered
      <4> QED
        BY <3>1, <3>2, <4>1 DEF OrderInv, InboxNumbered
    <3> QED
      BY <3>1, <3>3
  <2> QED
    BY <2>2, <2>3
<1>5. ASSUME NEW t \in Slots, ProcessExits(t) \/ HandleCrash(t) PROVE Goal
  BY <1>2, <1>5 DEF ProcessExits, HandleCrash, obsVars
<1>6. CASE Replied \/ TakeEvent \/ Respawned \/ RespawnFails
  BY <1>2, <1>6 DEF Replied, SessionCreated, SessionRefused, Enqueued, EnqueueRefused, TakeEvent,
     Respawned, RespawnFails, slotVars, obsVars
<1>7. CASE AgentsCreate \/ AgentsEnqueue \/ AgentsSend \/ AgentsReply
  BY <1>2, <1>7 DEF AgentsCreate, AgentsEnqueue, AgentsSend, AgentsReply, slotVars, obsVars
<1>8. ASSUME NEW k \in Keys, AgentsUpdate(k) \/ AgentsComplete(k) PROVE Goal
  BY <1>2, <1>8 DEF AgentsUpdate, AgentsComplete, slotVars, obsVars
<1>9. CASE UNCHANGED vars
  BY <1>2, <1>9 DEF vars, slotVars, obsVars
<1> QED
  BY <1>3, <1>4, <1>5, <1>6, <1>7, <1>8, <1>9 DEF Next

(* What collect_channel_message does, in these terms.                      *)
LEMMA Collected ==
  ASSUME OrderInv, NEW s \in Slots, Collect(s)
  PROVE  LET m == Head(inbox[s])  n == handled[s] IN
         /\ m.key \in Keys /\ Home[m.key] = s /\ m.id = n + 1 /\ n + 1 \in Ids /\ n \in Nat
         /\ handled' = [handled EXCEPT ![s] = n + 1]
         /\ UNCHANGED <<got, reply, serving>> /\ task = Idle
         /\ \/ UNCHANGED <<context, task>>
            \/ /\ context' = [context EXCEPT ![m.key] = StoreContext(context[m.key], n + 1)]
               /\ m.key \in Groups /\ UNCHANGED task
            \/ /\ context' = [context EXCEPT ![m.key] = <<>>]
               /\ task'.op \in Waits /\ task'.key = m.key /\ task'.batch = Append(context[m.key], n + 1)
            \/ /\ UNCHANGED context /\ m.key \notin Groups
               /\ task'.op \in Waits /\ task'.key = m.key /\ task'.batch = <<n + 1>>
<1> DEFINE m == Head(inbox[s])  n == handled[s]
<1>1. Reads(s) /\ UNCHANGED <<got, reply, serving>>
  BY DEF Collect, CollectDropped, CollectSend, agentsVars
<1>2. /\ m.key \in Keys /\ Home[m.key] = s /\ m.id = n + 1 /\ n + 1 \in Ids /\ n \in Nat
      /\ m.kind \in Kinds(m.key)
  BY <1>1, NextMessage DEF OrderInv, RouteInv, Types, InboxType
<1>3. task = Idle /\ handled' = [handled EXCEPT ![s] = n + 1]
  BY <1>1 DEF Reads
<1>4. (m.kind = "ambient" => m.key \in Groups) /\ (m.kind = "direct" => m.key \notin Groups)
  BY <1>2 DEF Kinds
<1> HIDE DEF m, n
<1>5. CASE CollectDropped(s)
  <2>1. \/ UNCHANGED <<context, task>>
        \/ /\ context' = [context EXCEPT ![m.key] = StoreContext(context[m.key], n + 1)]
           /\ m.kind = "ambient" /\ UNCHANGED task
    BY <1>2, <1>5 DEF CollectDropped, m
  <2> QED
    BY <1>1, <1>2, <1>3, <1>4, <2>1 DEF m, n
<1>6. CASE CollectSend(s)
  <2>1. /\ m.kind \in {"mention", "direct"}
        /\ context' = IF m.kind = "mention" THEN [context EXCEPT ![m.key] = <<>>] ELSE context
        /\ task' = [op |-> IF m.key \in routing THEN "enqueue" ELSE "create", slot |-> s, key |-> m.key,
                    batch |-> IF m.kind = "mention" THEN Append(context[m.key], n + 1) ELSE <<n + 1>>]
    BY <1>2, <1>6 DEF CollectSend, TakeContext, m
  <2>2. /\ task'.op \in Waits /\ task'.key = m.key
        /\ task'.batch = IF m.kind = "mention" THEN Append(context[m.key], n + 1) ELSE <<n + 1>>
    BY <2>1 DEF Waits
  <2>3. \/ /\ context' = [context EXCEPT ![m.key] = <<>>]
           /\ task'.batch = Append(context[m.key], n + 1)
        \/ UNCHANGED context /\ m.key \notin Groups /\ task'.batch = <<n + 1>>
    BY <1>4, <2>1, <2>2
  <2> QED
    BY <1>1, <1>2, <1>3, <2>2, <2>3 DEF m, n
<1> QED
  BY <1>5, <1>6 DEF Collect

LEMMA GroupsTalkStep == OrderInv /\ [Next]_vars => GroupsTalk'
<1> SUFFICES ASSUME OrderInv, [Next]_vars PROVE GroupsTalk'
  OBVIOUS
<1>1. CASE UNCHANGED context
  BY <1>1 DEF OrderInv, GroupsTalk
<1>2. ASSUME NEW s \in Slots, Collect(s) PROVE GroupsTalk'
  <2>1. context \in [Keys -> Seq(1 .. MaxMsgs)]
    BY DEF OrderInv, RouteInv, Types, ContextType
  <2>2. PICK k \in Keys : /\ \A j \in Keys : j # k => context'[j] = context[j]
                          /\ context'[k] \in {context[k], <<>>} \/ k \in Groups
    <3>1. Head(inbox[s]).key \in Keys
      BY <1>2, Collected
    <3> QED
      BY <1>2, <2>1, <3>1, Collected
  <2> QED
    BY <2>2 DEF OrderInv, GroupsTalk
<1> QED
  BY <1>1, <1>2 DEF Next, ProcessSends, ProcessExits, HandleCrash, Replied, SessionCreated, SessionRefused,
     Enqueued, EnqueueRefused, TakeEvent, Respawned, RespawnFails, AgentsCreate, AgentsEnqueue,
     AgentsSend, AgentsReply, AgentsUpdate, AgentsComplete, vars

LEMMA ConversationsStep == OrderInv /\ [Next]_vars => Conversations'
<1> SUFFICES ASSUME OrderInv, [Next]_vars PROVE Conversations'
  OBVIOUS
<1>1. /\ got \in [Keys -> Seq(Ids)] /\ context \in [Keys -> Seq(Ids)]
      /\ handled \in [Slots -> Nat] /\ Home \in [Keys -> Slots]
      /\ \A k \in Keys : got[k] \in Seq(Ids) /\ context[k] \in Seq(Ids) /\ handled[Home[k]] \in Nat
  BY ChannelsAssumption DEF OrderInv, Conversations, RouteInv, Types, ContextType, InboxType, Ids
<1>2. \A k \in Keys : /\ Ordered(got[k], Pending(k), context[k], handled[Home[k]])
                      /\ Pending(k) \in Seq(Ids)
  <2>1. \A k \in Keys : Ordered(got[k], Pending(k), context[k], handled[Home[k]])
    BY DEF OrderInv, Conversations
  <2>2. task.op \in Waits => task.batch \in Seq(Ids)
    BY DEF OrderInv, RouteInv, Types, TaskType, Idle, Waits, Ids
  <2> QED
    BY <2>1, <2>2 DEF Pending, Fresh
<1>3. \A k \in Keys : Ordered(got[k], <<>>, context[k], handled[Home[k]])
  BY <1>1, <1>2, MovesInOrder
(* Nothing moves, or a batch is given up.                                  *)
<1>4. ASSUME UNCHANGED <<got, context, handled>>, \A k \in Keys : Pending(k)' \in {Pending(k), <<>>}
      PROVE  Conversations'
  <2>1. ASSUME NEW k \in Keys PROVE Ordered(got[k], Pending(k), context[k], handled[Home[k]])'
    <3>1. CASE Pending(k)' = Pending(k)
      BY <1>2, <1>4, <3>1
    <3>2. CASE Pending(k)' = <<>>
      BY <1>3, <1>4, <3>2
    <3> QED
      BY <1>4, <3>1, <3>2
  <2> QED
    BY <1>1, <1>4, <2>1 DEF Conversations
<1>5. ASSUME NEW s \in Slots, Collect(s) PROVE Conversations'
  <2>1. PICK k \in Keys, n \in Nat :
        /\ Home[k] = s /\ n = handled[s] /\ n + 1 \in Ids
        /\ handled' = [handled EXCEPT ![s] = n + 1] /\ UNCHANGED <<got, reply, serving>> /\ task = Idle
        /\ \/ UNCHANGED <<context, task>>
           \/ /\ context' = [context EXCEPT ![k] = StoreContext(context[k], n + 1)]
              /\ k \in Groups /\ UNCHANGED task
           \/ /\ context' = [context EXCEPT ![k] = <<>>]
              /\ task'.op \in Waits /\ task'.key = k /\ task'.batch = Append(context[k], n + 1)
           \/ /\ UNCHANGED context /\ k \notin Groups
              /\ task'.op \in Waits /\ task'.key = k /\ task'.batch = <<n + 1>>
    <3> DEFINE k == Head(inbox[s]).key  n == handled[s]
    <3> k \in Keys /\ n \in Nat
      BY <1>5, Collected
    <3> WITNESS k \in Keys, n \in Nat
    <3> QED
      BY <1>5, Collected
  <2>2. serving = "no" /\ reply = "none"
    BY <2>1, <1>1 DEF OrderInv, RouteInv, ReplyAwaited, Idle, Waits
  <2>3. ASSUME NEW j \in Keys, j # k PROVE Ordered(got[j], Pending(j), context[j], handled[Home[j]])'
    <3>1. Pending(j)' = <<>>
      BY <2>1, <2>3 DEF Pending, Fresh, Idle, Waits
    <3>2. got'[j] = got[j] /\ context'[j] = context[j]
      BY <1>1, <2>1, <2>3
    <3>3. handled'[Home[j]] = handled[Home[j]] \/ handled'[Home[j]] = handled[Home[j]] + 1
      BY <1>1, <2>1
    <3>4. Ordered(got[j], <<>>, context[j], handled[Home[j]] + 1)
      <4>1. <<>> \in Seq(Ids)
        OBVIOUS
      <4> QED
        BY <1>1, <1>3, <4>1, MovesInOrder
    <3> QED
      BY <1>3, <3>1, <3>2, <3>3, <3>4
  <2>4. Ordered(got[k], Pending(k), context[k], handled[Home[k]])'
    <3>1. handled'[Home[k]] = n + 1 /\ got'[k] = got[k] /\ got[k] \in Seq(Ids) /\ context[k] \in Seq(Ids)
      BY <1>1, <2>1
    <3>2. Ordered(got[k], <<>>, context[k], n)
      BY <1>3, <2>1
    <3>3. CASE UNCHANGED <<context, task>>
      <4>1. Pending(k)' = <<>>
        BY <2>1, <3>3 DEF Pending, Fresh, Idle, Waits
      <4>2. <<>> \in Seq(Ids)
        OBVIOUS
      <4>3. Ordered(got[k], <<>>, context[k], n + 1)
        BY <2>1, <3>1, <3>2, <4>2, MovesInOrder
      <4> QED
        BY <3>1, <3>3, <4>1, <4>3
    <3>4. CASE context'[k] = StoreContext(context[k], n + 1) /\ UNCHANGED task
      <4>1. Pending(k)' = <<>>
        BY <2>1, <3>4 DEF Pending, Fresh, Idle, Waits
      <4> QED
        BY <2>1, <3>1, <3>2, <3>4, <4>1, NextInOrder
    <3>5. CASE context'[k] = <<>> /\ task'.op \in Waits /\ task'.key = k /\ task'.batch = Append(context[k], n + 1)
      <4>1. Pending(k)' = Append(context[k], n + 1)
        BY <2>1, <2>2, <3>5 DEF Pending, Fresh
      <4> QED
        BY <2>1, <3>1, <3>2, <3>5, <4>1, NextInOrder
    <3>6. CASE UNCHANGED context /\ k \notin Groups /\ task'.op \in Waits /\ task'.key = k /\ task'.batch = <<n + 1>>
      <4>1. Pending(k)' = <<n + 1>>
        BY <2>1, <2>2, <3>6 DEF Pending, Fresh
      <4>2. context[k] = <<>>
        BY <2>1, <3>6 DEF OrderInv, GroupsTalk
      <4> QED
        BY <2>1, <3>1, <3>2, <3>6, <4>1, <4>2, NextInOrder
    <3> QED
      BY <1>1, <2>1, <3>3, <3>4, <3>5, <3>6
  <2> QED
    BY <1>1, <2>1, <2>3, <2>4 DEF Conversations
<1>6. CASE AgentsEnqueue
  <2>1. /\ task.op = "enqueue" /\ reply = "none" /\ serving = "no" /\ serving' # "no"
        /\ got' = [got EXCEPT ![task.key] = got[task.key] \o task.batch]
        /\ UNCHANGED <<task, context, handled, reply>>
    BY <1>6 DEF AgentsEnqueue, Free, Verdicts
  <2>2. task.key \in Keys /\ Pending(task.key) = task.batch /\ task.batch \in Seq(Ids)
    <3>1. task.key \in Keys
      BY <2>1 DEF OrderInv, RouteInv, Types, TaskType, Idle, Waits
    <3>2. Pending(task.key) = task.batch
      BY <2>1 DEF Pending, Fresh, Waits
    <3> QED
      BY <1>2, <3>1, <3>2
  <2>3. got' \in [Keys -> Seq(Ids)]
    <3>1. got[task.key] \o task.batch \in Seq(Ids)
      BY <1>1, <2>2, ConcatProperties
    <3> QED
      BY <1>1, <2>1, <2>2, <3>1
  <2>4. ASSUME NEW j \in Keys PROVE Ordered(got[j], Pending(j), context[j], handled[Home[j]])'
    <3>1. Pending(j)' = <<>>
      BY <2>1 DEF Pending, Fresh
    <3>2. CASE j = task.key
      <4>1. Ordered(got[j] \o task.batch, <<>>, context[j], handled[Home[j]])
        BY <1>1, <1>2, <2>2, <3>2, MovesInOrder
      <4> QED
        BY <1>1, <2>1, <2>2, <3>1, <3>2, <4>1
    <3>3. CASE j # task.key
      BY <1>1, <1>3, <2>1, <3>1, <3>3
    <3> QED
      BY <3>2, <3>3
  <2> QED
    BY <2>3, <2>4 DEF Conversations
<1>7. CASE SessionCreated
  <2>1. /\ task.op = "create" /\ task'.op = "enqueue" /\ task'.key = task.key /\ task'.batch = task.batch
        /\ reply' = "none" /\ UNCHANGED <<got, context, handled, serving>> /\ reply = "ok"
    BY <1>7 DEF SessionCreated, obsVars, agentsVars, OrderInv, RouteInv, Types, TaskType, Idle, Waits
  <2>2. serving = "no"
    BY <2>1 DEF OrderInv, RouteInv, ReplyAwaited
  <2>3. \A k \in Keys : Pending(k)' = Pending(k)
    BY <2>1, <2>2 DEF Pending, Fresh, Waits
  <2> QED
    BY <1>4, <2>1, <2>3
<1>8. CASE SessionRefused \/ Enqueued \/ EnqueueRefused \/ Respawned \/ RespawnFails
  <2>1. task' = Idle /\ UNCHANGED <<got, context, handled>>
    BY <1>8 DEF SessionRefused, Enqueued, EnqueueRefused, Respawned, RespawnFails, obsVars
  <2>2. \A k \in Keys : Pending(k)' = <<>>
    BY <2>1 DEF Pending, Fresh, Idle, Waits
  <2> QED
    BY <1>4, <2>1, <2>2
<1>9. ASSUME NEW s \in Slots, HandleCrash(s) PROVE Conversations'
  <2>1. task'.op \in {"idle", "sleep"} /\ UNCHANGED <<got, context, handled>>
    BY <1>9 DEF HandleCrash, obsVars, Idle
  <2>2. \A k \in Keys : Pending(k)' = <<>>
    BY <2>1 DEF Pending, Fresh, Waits
  <2> QED
    BY <1>4, <2>1, <2>2
<1>10. CASE AgentsCreate
  <2>1. task.op = "create" /\ UNCHANGED <<task, got, context, handled>>
    BY <1>10 DEF AgentsCreate, obsVars
  <2>2. \A k \in Keys : Pending(k)' = Pending(k)
    BY <2>1 DEF Pending, Fresh
  <2> QED
    BY <1>4, <2>1, <2>2
<1>11. CASE AgentsReply
  <2>1. serving # "no" /\ reply' # "none" /\ UNCHANGED <<task, got, context, handled>>
    BY <1>11 DEF AgentsReply, obsVars, OrderInv, RouteInv, Types, AgentsType
  <2>2. \A k \in Keys : Pending(k)' = Pending(k)
    BY <2>1 DEF Pending, Fresh
  <2> QED
    BY <1>4, <2>1, <2>2
<1>12. CASE UNCHANGED <<task, reply, serving, got, context, handled>>
  <2>1. \A k \in Keys : Pending(k)' = Pending(k)
    BY <1>12 DEF Pending, Fresh
  <2> QED
    BY <1>4, <1>12, <2>1
<1>13. ASSUME NEW s \in Slots, ProcessSends(s) \/ ProcessExits(s) PROVE Conversations'
  BY <1>12, <1>13 DEF ProcessSends, ProcessExits, agentsVars
<1>14. CASE TakeEvent \/ AgentsSend \/ UNCHANGED vars
  BY <1>12, <1>14 DEF TakeEvent, AgentsSend, vars, agentsVars, obsVars
<1>15. ASSUME NEW k \in Keys, AgentsUpdate(k) \/ AgentsComplete(k) PROVE Conversations'
  BY <1>12, <1>15 DEF AgentsUpdate, AgentsComplete, obsVars
<1> QED
  BY <1>5, <1>6, <1>7, <1>8, <1>9, <1>10, <1>11, <1>13, <1>14, <1>15 DEF Next, Replied

(* However messages, events, replies and restarts of channels are          *)
(* interleaved, collect_channel_message hands a conversation to the agents *)
(* manager in the order it was written, nothing twice, and the talk of a   *)
(* group ahead of the mention that it leads up to.                         *)
THEOREM InConversationOrderHolds == Spec => []InConversationOrder
<1>1. Init => OrderInv
  <2> SUFFICES ASSUME Init PROVE OrderInv
    OBVIOUS
  <2>1. RouteInv
    BY RouteInit
  <2>2. InboxNumbered /\ GroupsTalk
    BY DEF Init, InboxNumbered, GroupsTalk
  <2>3. \A k \in Keys : got[k] = <<>> /\ Pending(k) = <<>> /\ context[k] = <<>>
    BY DEF Init, Pending, Fresh, Idle, Waits
  <2>4. \A n : Ordered(<<>>, <<>>, <<>>, n)
    BY DEF Ordered, Increasing, Before, UpTo
  <2>5. got \in [Keys -> Seq(Ids)]
    BY DEF Init
  <2> QED
    BY <2>1, <2>2, <2>3, <2>4, <2>5 DEF OrderInv, Conversations
<1>2. OrderInv /\ [Next]_vars => OrderInv'
  BY RouteStep, InboxNumberedStep, GroupsTalkStep, ConversationsStep DEF OrderInv
<1>3. OrderInv => InConversationOrder
  BY DEF OrderInv, Conversations, Ordered, InConversationOrder
<1> QED
  BY <1>1, <1>2, <1>3, PTL DEF Spec
=============================================================================
