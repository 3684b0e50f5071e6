------------------------ MODULE AgentsManagerProofs ------------------------
(***************************************************************************)
(* AgentsManager for every value of its constants.  First what the methods *)
(* of the SessionQueue return and preserve, then the type invariant, then  *)
(* safety: the order and the bookkeeping of the session queue, the         *)
(* freshness of exit notices, the isolation of conversations, one prompt   *)
(* of a session at a time, the mailbox the manager implements and the end  *)
(* of a prompt.                                                            *)
(***************************************************************************)
EXTENDS AgentsManager, SequenceTheorems, TLAPS

-----------------------------------------------------------------------------
(* The session queue, for every set of session keys and every queue value. *)
(* Its representation invariant is that an idle session has no waiting     *)
(* message; push_only alone breaks it, and flush_pending, which always     *)
(* follows, repairs it.                                                    *)

QueueValues(M) == [queues : [Keys -> Seq(M)], active : SUBSET Keys]

NoBacklog(qs) == \A k \in Keys : qs.queues[k] # <<>> => IsActive(qs, k)

(* Every method maps a queue of messages from M to another one.            *)
THEOREM QueueClosed ==
    ASSUME NEW M, NEW qs \in QueueValues(M), NEW k \in Keys
    PROVE  /\ NewQueue \in QueueValues(M)
           /\ \A m \in M : Push(qs, k, m) \in QueueValues(M)
           /\ \A m \in M : PushOnly(qs, k, m) \in QueueValues(M)
           /\ MarkIdle(qs, k) \in QueueValues(M)
           /\ FlushPending(qs, k) \in QueueValues(M)
           /\ DrainQueued(qs, k) \in QueueValues(M)
<1>1. qs.queues \in [Keys -> Seq(M)] /\ qs.active \subseteq Keys
  BY DEF QueueValues
<1>2. \A m \in M : Append(qs.queues[k], m) \in Seq(M)
  BY <1>1
<1>3. qs.queues[k] # <<>> => Tail(qs.queues[k]) \in Seq(M)
  BY <1>1
<1>. QED
  BY <1>1, <1>2, <1>3
  DEF QueueValues, WithQueue, NewQueue, Push, PushOnly, MarkIdle,
      FlushPending, DrainQueued, IsActive

(* What handle_prompt_completion takes out of the queue with mark_idle and *)
(* drain_queued is exactly what waited, in the same order: merging the     *)
(* batch loses, repeats and reorders nothing.                              *)
THEOREM CompletionBatch ==
    ASSUME NEW M, NEW qs \in QueueValues(M), NEW k \in Keys,
           qs.queues[k] # <<>>
    PROVE  MarkIdleReturns(qs, k) \o DrainQueuedReturns(MarkIdle(qs, k), k)
              = qs.queues[k]
<1>. DEFINE q == qs.queues[k]
<1>1. q \in Seq(M) /\ q # <<>>
  BY DEF QueueValues
<1>2. MarkIdleReturns(qs, k) = <<Head(q)>>
  BY <1>1 DEF MarkIdleReturns
<1>3. DrainQueuedReturns(MarkIdle(qs, k), k) = Tail(q)
  BY <1>1 DEF DrainQueuedReturns, MarkIdle, WithQueue, QueueValues
<1>4. q = <<Head(q)>> \o Tail(q)
  <2>. DEFINE r == <<Head(q)>> \o Tail(q)
  <2>1. Len(q) \in Nat \ {0} /\ Head(q) = q[1] /\ Head(q) \in M
    BY <1>1
  <2>2. Tail(q) \in Seq(M) /\ Len(Tail(q)) = Len(q) - 1
    BY <1>1
  <2>3. \A i \in 1 .. Len(q) - 1 : Tail(q)[i] = q[i + 1]
    BY <1>1
  <2>4. <<Head(q)>> \in Seq(M) /\ Len(<<Head(q)>>) = 1 /\ <<Head(q)>>[1] = q[1]
    BY <2>1
  <2>5. r \in Seq(M) /\ Len(r) = Len(q)
    BY <2>1, <2>2, <2>4, ConcatProperties
  <2>6. \A i \in 1 .. Len(q) : r[i] = q[i]
    BY <2>1, <2>2, <2>3, <2>4, ConcatProperties
  <2>. QED
    BY <1>1, <2>5, <2>6, SeqEqual
<1>. QED
  BY <1>2, <1>3, <1>4

(* What EnqueueMessage hands to the agent for an idle session is the whole *)
(* queue with the new message last, and the session becomes active.        *)
THEOREM DispatchBatch ==
    ASSUME NEW M, NEW qs \in QueueValues(M), NEW k \in Keys, NEW m \in M,
           ~IsActive(qs, k)
    PROVE  /\ FlushPendingReturns(PushOnly(qs, k, m), k) = Append(qs.queues[k], m)
           /\ FlushPending(PushOnly(qs, k, m), k) =
                [queues |-> [qs.queues EXCEPT ![k] = <<>>],
                 active |-> qs.active \cup {k}]
<1>1. qs.queues \in [Keys -> Seq(M)] /\ qs.active \subseteq Keys
  BY DEF QueueValues
<1>. DEFINE pushed == PushOnly(qs, k, m)
<1>2. /\ pushed.queues = [qs.queues EXCEPT ![k] = Append(qs.queues[k], m)]
      /\ pushed.active = qs.active
  BY DEF PushOnly, WithQueue
<1>3. pushed.queues[k] = Append(qs.queues[k], m) /\ Append(qs.queues[k], m) # <<>>
  BY <1>1, <1>2
<1>4. ~IsActive(pushed, k)
  BY <1>2 DEF IsActive
<1>5. [pushed.queues EXCEPT ![k] = <<>>] = [qs.queues EXCEPT ![k] = <<>>]
  BY <1>1, <1>2
<1>. QED
  BY <1>2, <1>3, <1>4, <1>5 DEF FlushPendingReturns, FlushPending

(* The representation invariant: every method, and every pair of methods   *)
(* the manager calls together, leaves no message waiting for an idle       *)
(* session if there was none before.                                       *)
THEOREM BacklogPreserved ==
    ASSUME NEW M, NEW qs \in QueueValues(M), NEW k \in Keys, NoBacklog(qs)
    PROVE  /\ NoBacklog(NewQueue)
           /\ \A m \in M : NoBacklog(Push(qs, k, m))
           /\ NoBacklog(MarkIdle(qs, k))
           /\ NoBacklog(DrainQueued(qs, k))
           /\ \A m \in M : NoBacklog(FlushPending(PushOnly(qs, k, m), k))
<1>1. qs.queues \in [Keys -> Seq(M)] /\ qs.active \subseteq Keys
  BY DEF QueueValues
<1>2. NoBacklog(NewQueue)
  BY DEF NoBacklog, NewQueue
<1>3. ASSUME NEW m \in M PROVE NoBacklog(Push(qs, k, m))
  BY <1>1 DEF NoBacklog, Push, WithQueue, IsActive
<1>4. NoBacklog(MarkIdle(qs, k))
  BY <1>1 DEF NoBacklog, MarkIdle, WithQueue, IsActive
<1>5. NoBacklog(DrainQueued(qs, k))
  BY <1>1 DEF NoBacklog, DrainQueued, WithQueue, IsActive
<1>6. ASSUME NEW m \in M PROVE NoBacklog(FlushPending(PushOnly(qs, k, m), k))
  <2>1. CASE IsActive(qs, k)
    BY <1>1, <2>1 DEF NoBacklog, FlushPending, PushOnly, WithQueue, IsActive
  <2>2. CASE ~IsActive(qs, k)
    BY <1>1, <2>2, DispatchBatch DEF NoBacklog, IsActive
  <2>. QED
    BY <2>1, <2>2
<1>. QED
  BY <1>2, <1>3, <1>4, <1>5, <1>6

-----------------------------------------------------------------------------
USE AgentsAssumption DEF AllKeys

(* The initial state, that of AgentsManager::start, has the types.         *)
LEMMA TypeInit == Init => TypeOK
<1>. SUFFICES ASSUME Init PROVE TypeOK
  OBVIOUS
<1>1. QueueType
  BY DEF Init, QueueType, NewQueue, Tickets, Msgs
<1>2. ConnType
  BY DEF Init, ConnType
<1>3. MapType
  BY DEF Init, MapType, Ids
<1>4. TaskType
  BY DEF Init, TaskType
<1>5. ObserverType
  BY DEF Init, ObserverType
<1>6. FlagType
  BY Zenon DEF Init, FlagType
<1>. QED
  BY <1>1, <1>2, <1>3, <1>4, <1>5, <1>6 DEF TypeOK

(* The queue's part of the type invariant in terms of QueueValues.         *)
LEMMA QueueTyped == QueueType => sq \in QueueValues(Msgs)
  BY DEF QueueType, QueueValues

(* A prompt that is sent adds a task and, at a live agent, a running       *)
(* prompt; its ticket is the last message of the batch.                    *)
LEMMA SentTypes ==
    ASSUME TypeOK, NEW k \in Keys, NEW id \in Ids,
           NEW batch \in Seq(Msgs), batch # <<>>, PromptSent(k, id, batch)
    PROVE  /\ tasks' \subseteq PromptTasks /\ running' \subseteq Prompts
           /\ activePrompts' \subseteq Ids /\ awaiting' \subseteq Ids
           /\ lastSent' \in [Keys -> Tickets]
<1>1. Newest(batch) \in Tickets
  <2>1. Len(batch) \in 1 .. Len(batch)
    OBVIOUS
  <2>. QED
    BY <2>1 DEF Newest, Tickets, Msgs
<1>2. [key |-> k, inc |-> conn, tkt |-> Newest(batch)] \in PromptTasks
  BY <1>1 DEF TypeOK, ConnType, PromptTasks
<1>3. [id |-> id, tkt |-> Newest(batch), left |-> MaxUpdates] \in Prompts
  BY <1>1 DEF Prompts
<1>4. tasks' \subseteq PromptTasks
  BY <1>2 DEF PromptSent, TypeOK, TaskType
<1>5. running' \subseteq Prompts
  BY <1>3 DEF PromptSent, TypeOK, TaskType
<1>6. activePrompts' \subseteq Ids /\ awaiting' \subseteq Ids
  BY DEF PromptSent, TypeOK, MapType
<1>7. lastSent' \in [Keys -> Tickets]
  BY <1>1 DEF PromptSent, TypeOK, QueueType
<1>. QED
  BY <1>4, <1>5, <1>6, <1>7

(* The maps after heal_session or create_session.                          *)
MapsTyped ==
    /\ sessionMap \in [AllKeys -> Ids \cup {None}]
    /\ reverseMap \in [Ids -> AllKeys \cup {None}]
    /\ stale \in [AllKeys -> Ids \cup {None}]
    /\ owner \in [Ids -> AllKeys \cup {None}]
    /\ known \subseteq Ids
    /\ nextId \in 1 .. MaxIds + 1

IncomingTyped == incoming \in Seq(Updates \cup {ExitNotice})

LEMMA CreatedTypes ==
    ASSUME TypeOK, NEW k \in AllKeys, SessionCreated(k)
    PROVE  /\ sessionMap' \in [AllKeys -> Ids \cup {None}]
           /\ reverseMap' \in [Ids -> AllKeys \cup {None}]
           /\ owner' \in [Ids -> AllKeys \cup {None}]
           /\ known' \subseteq Ids /\ nextId' \in 1 .. MaxIds + 1
           /\ sessionMap'[k] \in Ids
  BY DEF TypeOK, MapType, SessionCreated, Ids

LEMMA RestoredTypes ==
    ASSUME TypeOK, NEW k \in Keys, HealRestored(k)
    PROVE  MapsTyped' /\ IncomingTyped' /\ sessionMap'[k] \in Ids
<1>1. stale[k] \in Ids
  BY DEF HealRestored, Restorable, TypeOK, MapType
<1>2. PICK id \in RestoredIds(stale[k]) :
         /\ sessionMap' = [sessionMap EXCEPT ![k] = id]
         /\ reverseMap' = [reverseMap EXCEPT ![id] = k]
         /\ Booked(k, id)
         /\ Replay(id)
  BY DEF HealRestored
<1>3. id \in Ids
  BY <1>1, <1>2 DEF RestoredIds
<1>4. MapsTyped'
  <2>1. /\ sessionMap' \in [AllKeys -> Ids \cup {None}]
        /\ reverseMap' \in [Ids -> AllKeys \cup {None}]
    BY <1>2, <1>3 DEF TypeOK, MapType
  <2>2. owner' \in [Ids -> AllKeys \cup {None}] /\ known' \subseteq Ids
    BY <1>2, <1>3 DEF Booked, TypeOK, MapType
  <2>3. nextId' \in 1 .. MaxIds + 1
    BY <1>2, <1>3 DEF Booked, TypeOK, MapType, Ids
  <2>4. stale' \in [AllKeys -> Ids \cup {None}]
    BY DEF HealRestored, TypeOK, MapType
  <2>. QED
    BY <2>1, <2>2, <2>3, <2>4 DEF MapsTyped
<1>5. Update("replay", id, 0) \in Updates
  BY <1>3 DEF Update, Updates, Tickets
<1>6. IncomingTyped'
  BY <1>2, <1>5 DEF IncomingTyped, Replay, TypeOK, ConnType
<1>. QED
  BY <1>2, <1>3, <1>4, <1>6 DEF TypeOK, MapType

LEMMA HealTypes ==
    ASSUME TypeOK, NEW k \in Keys,
           HealRestored(k) \/ HealCreated(k) \/ HealFailed(k)
    PROVE  /\ MapsTyped' /\ IncomingTyped'
           /\ HealFailed(k) \/ sessionMap'[k] \in Ids
<1>1. CASE HealRestored(k)
  BY <1>1, RestoredTypes
<1>2. CASE HealCreated(k)
  <2>1. stale' \in [AllKeys -> Ids \cup {None}] /\ IncomingTyped'
    BY <1>2 DEF HealCreated, TypeOK, MapType, ConnType, IncomingTyped
  <2>. QED
    BY <1>2, <2>1, CreatedTypes DEF HealCreated, MapsTyped
<1>3. CASE HealFailed(k)
  BY <1>3 DEF HealFailed, TypeOK, MapType, ConnType, MapsTyped, IncomingTyped, idVars
<1>. QED
  BY <1>1, <1>2, <1>3

(* prompt_session, with and without a mapping.                             *)
LEMMA PromptTypes ==
    ASSUME TypeOK, NEW k \in Keys, NEW batch \in Seq(Msgs), batch # <<>>,
           PromptMapped(k, batch) \/ PromptHealed(k, batch)
    PROVE  /\ MapType' /\ IncomingTyped'
           /\ tasks' \subseteq PromptTasks /\ running' \subseteq Prompts
           /\ lastSent' \in [Keys -> Tickets] /\ failed' \subseteq Keys
<1>1. CASE PromptMapped(k, batch)
  <2>1. sessionMap[k] \in Ids
    BY <1>1 DEF PromptMapped, TypeOK, MapType
  <2>2. MapsTyped' /\ IncomingTyped'
    BY <1>1 DEF PromptMapped, TypeOK, MapType, ConnType, MapsTyped, IncomingTyped,
                mapVars, idVars
  <2>3. /\ tasks' \subseteq PromptTasks /\ running' \subseteq Prompts
        /\ activePrompts' \subseteq Ids /\ awaiting' \subseteq Ids
        /\ lastSent' \in [Keys -> Tickets]
    BY <1>1, <2>1, SentTypes DEF PromptMapped, TypeOK, TaskType, QueueType, MapType
  <2>4. failed' \subseteq Keys
    BY <1>1 DEF PromptMapped, TypeOK, ObserverType
  <2>. QED
    BY <2>2, <2>3, <2>4 DEF MapsTyped, MapType
<1>2. CASE PromptHealed(k, batch)
  <2>1. MapsTyped' /\ IncomingTyped'
    BY <1>2, HealTypes DEF PromptHealed
  <2>2. /\ tasks' \subseteq PromptTasks /\ running' \subseteq Prompts
        /\ activePrompts' \subseteq Ids /\ awaiting' \subseteq Ids
        /\ lastSent' \in [Keys -> Tickets]
    <3>1. CASE HealFailed(k) /\ UNCHANGED <<flagVars, running, tasks, lastSent>>
      BY <3>1 DEF TypeOK, TaskType, QueueType, MapType, flagVars
    <3>2. CASE (HealRestored(k) \/ HealCreated(k)) /\ PromptSent(k, sessionMap'[k], batch)
      <4>1. sessionMap'[k] \in Ids
        BY <3>2, RestoredTypes, CreatedTypes DEF HealCreated
      <4>. QED
        BY <3>2, <4>1, SentTypes
    <3>. QED
      BY <1>2, <3>1, <3>2 DEF PromptHealed
  <2>3. failed' \subseteq Keys
    BY <1>2 DEF PromptHealed, TypeOK, ObserverType
  <2>. QED
    BY <2>1, <2>2, <2>3 DEF MapsTyped, MapType
<1>. QED
  BY <1>1, <1>2

(* What mark_idle returns, and /new and /cancel throw away, are messages.  *)
LEMMA MarkIdleDrops ==
    ASSUME NEW q \in QueueValues(Msgs), NEW k \in Keys
    PROVE  Elements(MarkIdleReturns(q, k)) \subseteq Msgs
  BY DEF QueueValues, MarkIdleReturns, Elements

(* A task that ends leaves one completion of its key and ticket.           *)
LEMMA TaskEndsTypes ==
    ASSUME TypeOK, NEW t \in tasks, NEW kind \in Kinds, TaskEnds(t, kind)
    PROVE  tasks' \subseteq PromptTasks /\ completions' \in Seq(Completions)
<1>1. [key |-> t.key, kind |-> kind, tkt |-> t.tkt] \in Completions
  BY DEF TypeOK, TaskType, PromptTasks, Completions
<1>. QED
  BY <1>1 DEF TaskEnds, TypeOK, TaskType

(* The expiry branch of handle_prompt_completion moves a mapping to the    *)
(* stale sessions.                                                         *)
LEMMA ExpireTypes ==
    ASSUME TypeOK, NEW k \in Keys, ExpireSession(k), UNCHANGED <<idVars, known>>
    PROVE  MapsTyped'
  BY DEF ExpireSession, TypeOK, MapType, MapsTyped, mapVars, idVars

(* What every restart has in common: the queue, the tasks and the flags of *)
(* the sessions outlive the process; the exit notice is consumed.          *)
LEMMA CrashTypes ==
    ASSUME TypeOK, CrashRestarts
    PROVE  /\ QueueType' /\ ObserverType'
           /\ tasks' \subseteq PromptTasks /\ completions' \in Seq(Completions)
           /\ current' \in Completions \cup {None}
           /\ activePrompts' \subseteq Ids
           /\ crashes' \in Nat /\ Tail(incoming) \in Seq(Updates \cup {ExitNotice})
           /\ Survivors \in [AllKeys -> Ids \cup {None}]
           /\ replayed' = replayed
<1>. USE DEF TypeOK, CrashRestarts, taskVars, loseVars
<1>1. QueueType'
  BY DEF QueueType
<1>2. ObserverType'
  BY DEF ObserverType, NotifyCrash
<1>3. /\ tasks' \subseteq PromptTasks /\ completions' \in Seq(Completions)
      /\ current' \in Completions \cup {None}
  BY DEF TaskType
<1>4. crashes' \in Nat /\ Tail(incoming) \in Seq(Updates \cup {ExitNotice})
  BY DEF ExitReceived, ConnType
<1>5. activePrompts' \subseteq Ids
  BY DEF NotifyCrash
<1>6. Survivors \in [AllKeys -> Ids \cup {None}]
  BY DEF Survivors, MapType
<1>. QED
  BY <1>1, <1>2, <1>3, <1>4, <1>5, <1>6

(* Every step preserves the types.                                         *)
LEMMA TypeStep == TypeOK /\ [Next]_vars => TypeOK'
<1>. SUFFICES ASSUME TypeOK, [Next]_vars PROVE TypeOK'
  OBVIOUS
<1>. USE DEF TypeOK, connVars, mapVars, flagVars, agentVars, taskVars, idVars,
            loseVars, seenVars
<1>1. CASE \E k \in Keys : CreateSession(k)
  <2>. PICK k \in Keys : CreateSession(k)
    BY <1>1
  <2>a. /\ MapsTyped' /\ IncomingTyped'
        /\ HealRestored(k) => sessionMap'[k] \in Ids
    <3>1. CASE HealRestored(k) \/ HealCreated(k) \/ HealFailed(k)
      BY <3>1, HealTypes, RestoredTypes
    <3>2. CASE UNCHANGED <<mapVars, idVars, known, incoming>>
      BY <3>2, RestoredTypes DEF MapType, ConnType, MapsTyped, IncomingTyped
    <3>3. CASE SessionCreated(k) /\ UNCHANGED <<stale, incoming>>
      BY <3>3, CreatedTypes DEF MapType, ConnType, MapsTyped, IncomingTyped
    <3>. QED
      BY <3>1, <3>2, <3>3 DEF CreateSession
  <2>1. QueueType'
    BY DEF CreateSession, QueueType
  <2>2. ConnType'
    BY <2>a DEF CreateSession, ConnType, IncomingTyped
  <2>3. MapType'
    BY <2>a DEF CreateSession, MapType, MapsTyped
  <2>4. TaskType'
    BY DEF CreateSession, TaskType
  <2>5. ObserverType'
    BY DEF CreateSession, ObserverType
  <2>6. FlagType'
    BY DEF CreateSession, FlagType
  <2>. QED
    BY <2>1, <2>2, <2>3, <2>4, <2>5, <2>6
<1>2. CASE \E k \in Keys : EnqueueBehind(k)
  <2>. PICK k \in Keys : EnqueueBehind(k)
    BY <1>2
  <2>1. QueueType'
    <3>1. sq' \in QueueValues(Msgs)
      BY QueueTyped, QueueClosed DEF EnqueueBehind
    <3>2. nextMsg' \in 1 .. MaxMsgs + 1 /\ lastSent' \in [Keys -> Tickets]
      BY DEF EnqueueBehind, QueueType, Msgs
    <3>. QED
      BY <3>1, <3>2 DEF QueueType, QueueValues
  <2>2. ConnType'
    BY DEF EnqueueBehind, ConnType
  <2>3. MapType'
    BY DEF EnqueueBehind, MapType
  <2>4. TaskType'
    BY DEF EnqueueBehind, TaskType
  <2>5. ObserverType'
    BY DEF EnqueueBehind, ObserverType
  <2>6. FlagType'
    BY DEF EnqueueBehind, FlagType
  <2>. QED
    BY <2>1, <2>2, <2>3, <2>4, <2>5, <2>6
<1>3. CASE \E k \in Keys : EnqueueDispatch(k)
  <2>. PICK k \in Keys : EnqueueDispatch(k)
    BY <1>3
  <2>. DEFINE pushed == PushOnly(sq, k, nextMsg)
              batch  == FlushPendingReturns(pushed, k)
  <2>a. sq \in QueueValues(Msgs) /\ nextMsg \in Msgs /\ ~IsActive(sq, k)
    BY QueueTyped DEF EnqueueDispatch
  <2>b. batch = Append(sq.queues[k], nextMsg)
    BY <2>a, DispatchBatch
  <2>c. batch \in Seq(Msgs) /\ batch # <<>>
    BY <2>a, <2>b DEF QueueValues
  <2>d. /\ MapType' /\ IncomingTyped'
        /\ tasks' \subseteq PromptTasks /\ running' \subseteq Prompts
        /\ lastSent' \in [Keys -> Tickets] /\ failed' \subseteq Keys
    BY <2>c, PromptTypes DEF EnqueueDispatch
  <2>e. sq' \in QueueValues(Msgs)
    BY <2>a, QueueClosed DEF EnqueueDispatch
  <2>1. QueueType'
    BY <2>a, <2>d, <2>e DEF EnqueueDispatch, QueueType, QueueValues, Msgs
  <2>2. ConnType'
    BY <2>d DEF EnqueueDispatch, ConnType, IncomingTyped
  <2>3. MapType'
    BY <2>d
  <2>4. TaskType'
    BY <2>d DEF EnqueueDispatch, TaskType
  <2>5. ObserverType'
    BY <2>d DEF EnqueueDispatch, ObserverType
  <2>6. FlagType'
    BY DEF EnqueueDispatch, FlagType
  <2>. QED
    BY <2>1, <2>2, <2>3, <2>4, <2>5, <2>6
<1>4. CASE \E k \in Keys : NewCommand(k)
  <2>. PICK k \in Keys : NewCommand(k)
    BY <1>4
  <2>a. sq' \in QueueValues(Msgs) /\ dropped' \subseteq Msgs /\ interrupted' \subseteq Keys
    BY QueueTyped, QueueClosed, MarkIdleDrops
    DEF NewCommand, MarkIdleDiscarding, ObserverType
  <2>1. QueueType'
    BY <2>a DEF NewCommand, QueueType, QueueValues
  <2>2. ConnType'
    BY DEF NewCommand, ConnType
  <2>3. MapType'
    <3>. DEFINE cleared == [i \in Ids |-> IF reverseMap[i] = k THEN None ELSE reverseMap[i]]
    <3>1. cleared \in [Ids -> AllKeys \cup {None}]
      BY DEF MapType
    <3>2. CASE /\ nextId \in Ids
               /\ sessionMap' = [sessionMap EXCEPT ![k] = nextId]
               /\ reverseMap' = [cleared EXCEPT ![nextId] = k]
               /\ owner' = [owner EXCEPT ![nextId] = k]
               /\ known' = known \cup {nextId}
               /\ nextId' = nextId + 1
      <4>1. /\ sessionMap' \in [AllKeys -> Ids \cup {None}]
            /\ reverseMap' \in [Ids -> AllKeys \cup {None}]
            /\ owner' \in [Ids -> AllKeys \cup {None}]
        BY <3>1, <3>2 DEF MapType
      <4>2. known' \subseteq Ids
        BY <3>2 DEF MapType
      <4>3. nextId' \in 1 .. MaxIds + 1
        <5>1. nextId \in 1 .. MaxIds /\ nextId' = nextId + 1
          BY <3>2 DEF Ids
        <5>. QED
          BY <5>1
      <4>. QED
        BY <4>1, <4>2, <4>3 DEF NewCommand, MapType
    <3>3. CASE /\ sessionMap' = [sessionMap EXCEPT ![k] = None]
               /\ reverseMap' = cleared
               /\ UNCHANGED <<idVars, known>>
      BY <3>1, <3>3 DEF NewCommand, MapType
    <3>. QED
      BY <3>2, <3>3 DEF NewCommand
  <2>4. TaskType'
    BY DEF NewCommand, TaskType
  <2>5. ObserverType'
    BY <2>a DEF NewCommand, ObserverType
  <2>6. FlagType'
    BY DEF NewCommand, FlagType
  <2>. QED
    BY <2>1, <2>2, <2>3, <2>4, <2>5, <2>6
<1>5. CASE \E k \in Keys : CancelCommand(k)
  <2>. PICK k \in Keys : CancelCommand(k)
    BY <1>5
  <2>a. sq' \in QueueValues(Msgs) /\ dropped' \subseteq Msgs /\ interrupted' \subseteq Keys
    BY QueueTyped, QueueClosed, MarkIdleDrops
    DEF CancelCommand, MarkIdleDiscarding, ObserverType
  <2>1. QueueType'
    BY <2>a DEF CancelCommand, QueueType, QueueValues
  <2>2. ConnType'
    BY DEF CancelCommand, ConnType
  <2>3. MapType'
    BY DEF CancelCommand, MapType
  <2>4. TaskType'
    BY DEF CancelCommand, TaskType
  <2>5. ObserverType'
    BY <2>a DEF CancelCommand, ObserverType
  <2>6. FlagType'
    BY DEF CancelCommand, FlagType
  <2>. QED
    BY <2>1, <2>2, <2>3, <2>4, <2>5, <2>6
<1>6. CASE \E p \in running : \E type \in {"chunk", "result"} : AgentUpdates(p, type)
  <2>. PICK p \in running : \E type \in {"chunk", "result"} : AgentUpdates(p, type)
    BY <1>6
  <2>. PICK type \in {"chunk", "result"} : AgentUpdates(p, type)
    OBVIOUS
  <2>a. p \in Prompts
    BY DEF TaskType
  <2>1. QueueType'
    BY DEF AgentUpdates, QueueType
  <2>2. ConnType'
    <3>1. Update(type, p.id, p.tkt) \in Updates
      BY <2>a DEF Update, Updates, Prompts
    <3>. QED
      BY <3>1 DEF AgentUpdates, ConnType
  <2>3. MapType'
    BY DEF AgentUpdates, MapType
  <2>4. TaskType'
    <3>. DEFINE q == [p EXCEPT !.left = IF type = "result" THEN 0 ELSE @ - 1]
    <3>1. q \in Prompts
      <4>1. p.left \in 1 .. MaxUpdates /\ p.left - 1 \in 0 .. MaxUpdates
        BY <2>a DEF AgentUpdates, Prompts
      <4>. QED
        BY <2>a, <4>1 DEF Prompts
    <3>2. running' \subseteq Prompts
      BY <3>1 DEF AgentUpdates, TaskType
    <3>. QED
      BY <3>2 DEF AgentUpdates, TaskType
  <2>5. ObserverType'
    BY DEF AgentUpdates, ObserverType
  <2>6. FlagType'
    BY DEF AgentUpdates, FlagType
  <2>. QED
    BY <2>1, <2>2, <2>3, <2>4, <2>5, <2>6
<1>7. CASE \E p \in running : AgentResponds(p)
  <2>. PICK p \in running : AgentResponds(p)
    BY <1>7
  <2>a. p \in Prompts
    BY DEF TaskType
  <2>1. QueueType'
    BY DEF AgentResponds, QueueType
  <2>2. ConnType'
    BY DEF AgentResponds, ConnType
  <2>3. MapType'
    BY DEF AgentResponds, MapType
  <2>4. TaskType'
    <3>1. running' \subseteq Prompts /\ current' \in Completions \cup {None}
      BY DEF AgentResponds, TaskType
    <3>2. tasks' \subseteq PromptTasks /\ completions' \in Seq(Completions)
      <4>1. CASE \E t \in tasks : \E kind \in Kinds : TaskEnds(t, kind)
        BY <4>1, TaskEndsTypes
      <4>2. CASE UNCHANGED <<tasks, completions>>
        BY <4>2 DEF TaskType
      <4>. QED
        BY <4>1, <4>2 DEF AgentResponds, Kinds
    <3>. QED
      BY <3>1, <3>2 DEF TaskType
  <2>5. ObserverType'
    <3>1. p.tkt \in Tickets
      BY <2>a DEF Prompts
    <3>. QED
      BY <3>1 DEF AgentResponds, ObserverType
  <2>6. FlagType'
    BY DEF AgentResponds, FlagType
  <2>. QED
    BY <2>1, <2>2, <2>3, <2>4, <2>5, <2>6
<1>8. CASE AgentDies
  <2>1. QueueType'
    BY <1>8 DEF AgentDies, QueueType
  <2>2. ConnType'
    BY <1>8 DEF AgentDies, ConnType
  <2>3. MapType'
    BY <1>8 DEF AgentDies, MapType
  <2>4. TaskType'
    BY <1>8 DEF AgentDies, TaskType
  <2>5. ObserverType'
    BY <1>8 DEF AgentDies, ObserverType
  <2>6. FlagType'
    BY <1>8 DEF AgentDies, FlagType
  <2>. QED
    BY <2>1, <2>2, <2>3, <2>4, <2>5, <2>6
<1>9. CASE ReaderEof
  <2>1. QueueType'
    BY <1>9 DEF ReaderEof, QueueType
  <2>2. ConnType'
    BY <1>9 DEF ReaderEof, ConnType
  <2>3. MapType'
    BY <1>9 DEF ReaderEof, MapType
  <2>4. TaskType'
    BY <1>9 DEF ReaderEof, TaskType
  <2>5. ObserverType'
    BY <1>9 DEF ReaderEof, ObserverType
  <2>6. FlagType'
    BY <1>9 DEF ReaderEof, FlagType
  <2>. QED
    BY <2>1, <2>2, <2>3, <2>4, <2>5, <2>6
<1>10. CASE \E t \in tasks : TaskLost(t)
  <2>. PICK t \in tasks : TaskLost(t)
    BY <1>10
  <2>1. QueueType'
    BY DEF TaskLost, QueueType
  <2>2. ConnType'
    BY DEF TaskLost, ConnType
  <2>3. MapType'
    BY DEF TaskLost, MapType
  <2>4. TaskType'
    BY TaskEndsTypes DEF TaskLost, TaskType, Kinds
  <2>5. ObserverType'
    BY DEF TaskLost, ObserverType
  <2>6. FlagType'
    BY DEF TaskLost, FlagType
  <2>. QED
    BY <2>1, <2>2, <2>3, <2>4, <2>5, <2>6
<1>11. CASE \E t \in tasks : TaskTimesOut(t)
  <2>. PICK t \in tasks : TaskTimesOut(t)
    BY <1>11
  <2>1. QueueType'
    BY DEF TaskTimesOut, QueueType
  <2>2. ConnType'
    BY DEF TaskTimesOut, ConnType
  <2>3. MapType'
    BY DEF TaskTimesOut, MapType
  <2>4. TaskType'
    BY TaskEndsTypes DEF TaskTimesOut, TaskType, Kinds
  <2>5. ObserverType'
    <3>1. t.key \in Keys
      BY DEF TaskType, PromptTasks
    <3>. QED
      BY <3>1 DEF TaskTimesOut, ObserverType
  <2>6. FlagType'
    BY DEF TaskTimesOut, FlagType
  <2>. QED
    BY <2>1, <2>2, <2>3, <2>4, <2>5, <2>6
<1>12. CASE ForwardUpdate
  <2>1. QueueType'
    BY <1>12 DEF ForwardUpdate, QueueType
  <2>2. ConnType'
    BY <1>12 DEF ForwardUpdate, ConnType
  <2>3. MapType'
    BY <1>12 DEF ForwardUpdate, MapType
  <2>4. TaskType'
    BY <1>12 DEF ForwardUpdate, TaskType
  <2>5. ObserverType'
    <3>1. Head(incoming) \in Updates
      BY <1>12 DEF ForwardUpdate, ConnType
    <3>2. reverseMap[Head(incoming).id] \in AllKeys \cup {None}
      BY <3>1 DEF Updates, MapType
    <3>. QED
      BY <1>12, <3>2 DEF ForwardUpdate, ObserverType
  <2>6. FlagType'
    BY <1>12 DEF ForwardUpdate, FlagType
  <2>. QED
    BY <2>1, <2>2, <2>3, <2>4, <2>5, <2>6
<1>13. CASE CrashDisables
  <2>1. QueueType'
    BY <1>13 DEF CrashDisables, QueueType
  <2>2. ConnType'
    BY <1>13 DEF CrashDisables, ExitReceived, ConnType
  <2>3. MapType'
    BY <1>13 DEF CrashDisables, MapType
  <2>4. TaskType'
    BY <1>13 DEF CrashDisables, TaskType
  <2>5. ObserverType'
    BY <1>13 DEF CrashDisables, ObserverType
  <2>6. FlagType'
    BY <1>13 DEF CrashDisables, FlagType
  <2>. QED
    BY <2>1, <2>2, <2>3, <2>4, <2>5, <2>6
<1>14. CASE RespawnFails
  <2>z. CrashRestarts
    BY <1>14 DEF RespawnFails
  <2>1. QueueType'
    BY <2>z, CrashTypes
  <2>2. ConnType'
    BY <1>14, <2>z, CrashTypes DEF RespawnFails, ConnType
  <2>3. MapType'
    BY <1>14, <2>z, CrashTypes DEF RespawnFails, MapType
  <2>4. TaskType'
    BY <1>14, <2>z, CrashTypes DEF RespawnFails, TaskType
  <2>5. ObserverType'
    BY <2>z, CrashTypes
  <2>6. FlagType'
    BY <1>14, <2>z, CrashTypes DEF RespawnFails, FlagType
  <2>. QED
    BY <2>1, <2>2, <2>3, <2>4, <2>5, <2>6
<1>15. CASE InitializeFails
  <2>z. CrashRestarts
    BY <1>15 DEF InitializeFails
  <2>1. QueueType'
    BY <2>z, CrashTypes
  <2>2. ConnType'
    BY <1>15, <2>z, CrashTypes DEF InitializeFails, ConnType
  <2>3. MapType'
    BY <1>15, <2>z, CrashTypes DEF InitializeFails, MapType
  <2>4. TaskType'
    BY <1>15, <2>z, CrashTypes DEF InitializeFails, TaskType
  <2>5. ObserverType'
    BY <2>z, CrashTypes
  <2>6. FlagType'
    BY <1>15, <2>z, CrashTypes DEF InitializeFails, FlagType
  <2>. QED
    BY <2>1, <2>2, <2>3, <2>4, <2>5, <2>6
<1>16. CASE RestartSessionFails
  <2>z. CrashRestarts
    BY <1>16 DEF RestartSessionFails
  <2>1. QueueType'
    BY <2>z, CrashTypes
  <2>2. ConnType'
    BY <1>16, <2>z, CrashTypes DEF RestartSessionFails, ConnType
  <2>3. MapType'
    BY <1>16, <2>z, CrashTypes DEF RestartSessionFails, MapType
  <2>4. TaskType'
    BY <1>16, <2>z, CrashTypes DEF RestartSessionFails, TaskType
  <2>5. ObserverType'
    BY <2>z, CrashTypes
  <2>6. FlagType'
    BY <1>16, <2>z, CrashTypes DEF RestartSessionFails, FlagType
  <2>. QED
    BY <2>1, <2>2, <2>3, <2>4, <2>5, <2>6
<1>17. CASE RestoreSessions
  <2>z. CrashRestarts
    BY <1>17 DEF RestoreSessions
  <2>a. Survivors \in [AllKeys -> Ids \cup {None}]
    BY <2>z, CrashTypes
  <2>b. PICK k0 \in {k \in AllKeys : Survivors[k] # None} :
          \E id \in RestoredIds(Survivors[k0]) :
             /\ sessionMap' = RestoredMap(k0, id)
             /\ owner' = [owner EXCEPT ![id] = k0]
             /\ known' = {id}
             /\ nextId' = IF id = nextId THEN nextId + 1 ELSE nextId
             /\ awaiting' = IF Resume THEN {}
                            ELSE {sessionMap'[k] : k \in AllKeys} \ {None}
             /\ incoming' = IF Resume THEN Tail(incoming)
                            ELSE Append(Tail(incoming), Update("replay", id, 0))
    BY <1>17 DEF RestoreSessions
  <2>c. PICK id \in RestoredIds(Survivors[k0]) :
             /\ sessionMap' = RestoredMap(k0, id)
             /\ owner' = [owner EXCEPT ![id] = k0]
             /\ known' = {id}
             /\ nextId' = IF id = nextId THEN nextId + 1 ELSE nextId
             /\ awaiting' = IF Resume THEN {}
                            ELSE {sessionMap'[k] : k \in AllKeys} \ {None}
             /\ incoming' = IF Resume THEN Tail(incoming)
                            ELSE Append(Tail(incoming), Update("replay", id, 0))
    BY <2>b
  <2>d. id \in Ids
    BY <2>a, <2>c DEF RestoredIds
  <2>1. QueueType'
    BY <2>z, CrashTypes
  <2>2. ConnType'
    <3>1. Update("replay", id, 0) \in Updates
      BY <2>d DEF Update, Updates, Tickets
    <3>2. Tail(incoming) \in Seq(Updates \cup {ExitNotice})
      BY <2>z, CrashTypes
    <3>3. incoming' \in Seq(Updates \cup {ExitNotice})
      BY <2>c, <3>1, <3>2
    <3>4. conn' \in Nat /\ crashes' \in Nat
      BY <1>17, <2>z, CrashTypes DEF RestoreSessions, NewIncarnation
    <3>. QED
      BY <3>3, <3>4 DEF ConnType
  <2>3. MapType'
    <3>1. sessionMap' \in [AllKeys -> Ids \cup {None}]
      BY <2>a, <2>c, <2>d DEF RestoredMap
    <3>2. owner' \in [Ids -> AllKeys \cup {None}] /\ known' \subseteq Ids
      BY <2>c, <2>d DEF MapType
    <3>3. nextId' \in 1 .. MaxIds + 1
      BY <2>c, <2>d DEF MapType, Ids
    <3>4. awaiting' \subseteq Ids
      BY <2>c, <3>1
    <3>5. /\ stale' \in [AllKeys -> Ids \cup {None}]
          /\ reverseMap' \in [Ids -> AllKeys \cup {None}] /\ activePrompts' \subseteq Ids
      BY <1>17, <2>z, CrashTypes DEF RestoreSessions, MapType
    <3>. QED
      BY <3>1, <3>2, <3>3, <3>4, <3>5 DEF MapType
  <2>4. TaskType'
    BY <1>17, <2>z, CrashTypes DEF RestoreSessions, TaskType
  <2>5. ObserverType'
    BY <2>z, CrashTypes
  <2>6. FlagType'
    BY <1>17, <2>z, CrashTypes DEF RestoreSessions, NewIncarnation, FlagType
  <2>. QED
    BY <2>1, <2>2, <2>3, <2>4, <2>5, <2>6
<1>18. CASE StartFreshSession
  <2>z. CrashRestarts
    BY <1>18 DEF StartFreshSession
  <2>1. QueueType'
    BY <2>z, CrashTypes
  <2>2. ConnType'
    BY <1>18, <2>z, CrashTypes DEF StartFreshSession, NewIncarnation, ConnType
  <2>3. MapType'
    <3>1. nextId \in 1 .. MaxIds /\ nextId' = nextId + 1
      BY <1>18 DEF StartFreshSession, Ids
    <3>2. nextId' \in 1 .. MaxIds + 1
      BY <3>1
    <3>3. /\ sessionMap' \in [AllKeys -> Ids \cup {None}]
          /\ reverseMap' \in [Ids -> AllKeys \cup {None}]
          /\ known' \subseteq Ids /\ awaiting' \subseteq Ids
      BY <1>18 DEF StartFreshSession
    <3>4. owner' \in [Ids -> AllKeys \cup {None}] /\ stale' \in [AllKeys -> Ids \cup {None}]
      BY <1>18, <2>z, CrashTypes DEF StartFreshSession, MapType
    <3>. QED
      BY <2>z, <3>2, <3>3, <3>4, CrashTypes DEF MapType
  <2>4. TaskType'
    BY <1>18, <2>z, CrashTypes DEF StartFreshSession, TaskType
  <2>5. ObserverType'
    BY <2>z, CrashTypes
  <2>6. FlagType'
    BY <1>18, <2>z, CrashTypes DEF StartFreshSession, NewIncarnation, FlagType
  <2>. QED
    BY <2>1, <2>2, <2>3, <2>4, <2>5, <2>6
<1>19. CASE TakeCompletion
  <2>1. QueueType'
    BY <1>19 DEF TakeCompletion, QueueType
  <2>2. ConnType'
    BY <1>19 DEF TakeCompletion, ConnType
  <2>3. MapType'
    BY <1>19 DEF TakeCompletion, MapType
  <2>4. TaskType'
    <3>1. Head(completions) \in Completions /\ Tail(completions) \in Seq(Completions)
      BY <1>19 DEF TakeCompletion, TaskType
    <3>. QED
      BY <1>19, <3>1 DEF TakeCompletion, TaskType
  <2>5. ObserverType'
    BY <1>19 DEF TakeCompletion, ObserverType
  <2>6. FlagType'
    BY <1>19 DEF TakeCompletion, FlagType
  <2>. QED
    BY <2>1, <2>2, <2>3, <2>4, <2>5, <2>6
<1>20. CASE FinishIdle
  <2>. DEFINE k == current.key
  <2>a. k \in Keys /\ sq \in QueueValues(Msgs)
    BY <1>20, QueueTyped DEF FinishIdle, TaskType, Completions
  <2>b. sq' \in QueueValues(Msgs)
    BY <1>20, <2>a, QueueClosed DEF FinishIdle
  <2>1. QueueType'
    BY <1>20, <2>b DEF FinishIdle, QueueType, QueueValues
  <2>2. ConnType'
    BY <1>20 DEF FinishIdle, ConnType
  <2>3. MapType'
    BY <1>20, <2>a, ExpireTypes DEF FinishIdle, MapType, MapsTyped
  <2>4. TaskType'
    BY <1>20 DEF FinishIdle, CompleteSession, TaskType
  <2>5. ObserverType'
    BY <1>20, <2>a DEF FinishIdle, CompleteSession, ObserverType
  <2>6. FlagType'
    BY <1>20 DEF FinishIdle, FlagType
  <2>. QED
    BY <2>1, <2>2, <2>3, <2>4, <2>5, <2>6
<1>21. CASE FinishNext
  <2>. DEFINE k == current.key
  <2>a. k \in Keys /\ sq \in QueueValues(Msgs)
    BY <1>21, QueueTyped DEF FinishNext, TaskType, Completions
  <2>. DEFINE batch == MarkIdleReturns(sq, k) \o DrainQueuedReturns(MarkIdle(sq, k), k)
  <2>b. batch = sq.queues[k] /\ batch \in Seq(Msgs) /\ batch # <<>>
    <3>1. sq.queues[k] # <<>>
      BY <1>21 DEF FinishNext
    <3>2. batch = sq.queues[k]
      BY <2>a, <3>1, CompletionBatch
    <3>. QED
      BY <2>a, <3>1, <3>2 DEF QueueValues
  <2>c. sq' \in QueueValues(Msgs)
    <3>1. MarkIdle(sq, k) \in QueueValues(Msgs)
      BY <2>a, QueueClosed
    <3>. QED
      BY <1>21, <2>a, <3>1, QueueClosed DEF FinishNext
  <2>d. Elements(batch) \subseteq Msgs
    BY <2>b DEF Elements
  <2>e. /\ MapType' /\ IncomingTyped'
        /\ tasks' \subseteq PromptTasks /\ running' \subseteq Prompts
        /\ lastSent' \in [Keys -> Tickets] /\ failed' \subseteq Keys
    BY <1>21, <2>a, <2>b, PromptTypes DEF FinishNext
  <2>1. QueueType'
    BY <1>21, <2>c, <2>e DEF FinishNext, QueueType, QueueValues
  <2>2. ConnType'
    BY <1>21, <2>e DEF FinishNext, ConnType, IncomingTyped
  <2>3. MapType'
    BY <2>e
  <2>4. TaskType'
    BY <1>21, <2>e DEF FinishNext, CompleteSession, TaskType
  <2>5. ObserverType'
    BY <1>21, <2>a, <2>d, <2>e DEF FinishNext, CompleteSession, ObserverType
  <2>6. FlagType'
    BY <1>21 DEF FinishNext, FlagType
  <2>. QED
    BY <2>1, <2>2, <2>3, <2>4, <2>5, <2>6
<1>22. CASE FinishUnmapped
  <2>. DEFINE k == current.key
  <2>a. k \in Keys /\ sq \in QueueValues(Msgs)
    BY <1>22, QueueTyped DEF FinishUnmapped, TaskType, Completions
  <2>. DEFINE batch == MarkIdleReturns(sq, k) \o DrainQueuedReturns(MarkIdle(sq, k), k)
  <2>b. batch = sq.queues[k] /\ batch \in Seq(Msgs) /\ batch # <<>>
    <3>1. sq.queues[k] # <<>>
      BY <1>22 DEF FinishUnmapped
    <3>2. batch = sq.queues[k]
      BY <2>a, <3>1, CompletionBatch
    <3>. QED
      BY <2>a, <3>1, <3>2 DEF QueueValues
  <2>c. sq' \in QueueValues(Msgs)
    <3>1. MarkIdle(sq, k) \in QueueValues(Msgs)
      BY <2>a, QueueClosed
    <3>. QED
      BY <1>22, <2>a, <3>1, QueueClosed DEF FinishUnmapped
  <2>d. Elements(batch) \subseteq Msgs
    BY <2>b DEF Elements
  <2>1. QueueType'
    BY <1>22, <2>c DEF FinishUnmapped, QueueType, QueueValues
  <2>2. ConnType'
    BY <1>22 DEF FinishUnmapped, ConnType
  <2>3. MapType'
    BY <1>22, <2>a, ExpireTypes DEF FinishUnmapped, MapType, MapsTyped
  <2>4. TaskType'
    BY <1>22 DEF FinishUnmapped, CompleteSession, TaskType
  <2>5. ObserverType'
    BY <1>22, <2>a, <2>d DEF FinishUnmapped, CompleteSession, ObserverType
  <2>6. FlagType'
    BY <1>22 DEF FinishUnmapped, FlagType
  <2>. QED
    BY <2>1, <2>2, <2>3, <2>4, <2>5, <2>6
<1>23. CASE UNCHANGED vars
  <2>1. QueueType'
    BY <1>23 DEF vars, QueueType
  <2>2. ConnType'
    BY <1>23 DEF vars, ConnType
  <2>3. MapType'
    BY <1>23 DEF vars, MapType
  <2>4. TaskType'
    BY <1>23 DEF vars, TaskType
  <2>5. ObserverType'
    BY <1>23 DEF vars, ObserverType
  <2>6. FlagType'
    BY <1>23 DEF vars, FlagType
  <2>. QED
    BY <2>1, <2>2, <2>3, <2>4, <2>5, <2>6
<1>. QED
  BY <1>1, <1>2, <1>3, <1>4, <1>5, <1>6, <1>7, <1>8, <1>9, <1>10, <1>11, <1>12,
     <1>13, <1>14, <1>15, <1>16, <1>17, <1>18, <1>19, <1>20, <1>21, <1>22, <1>23
  DEF Next, Quiescent

(* The type invariant holds in every reachable state of the manager.       *)
THEOREM TypeCorrect == Spec => []TypeOK
  BY TypeInit, TypeStep, PTL DEF Spec

-----------------------------------------------------------------------------
(* The only ways in which a step changes the session queue: the call of    *)
(* EnqueueMessage for a busy and for an idle session, the mark_idle of a   *)
(* platform command or of a completion, and the completion's drain.        *)
QueueCalls(k) ==
    \/ nextMsg \in Msgs /\ sq' = Push(sq, k, nextMsg)
    \/ nextMsg \in Msgs /\ sq' = FlushPending(PushOnly(sq, k, nextMsg), k)
    \/ sq' = MarkIdle(sq, k)
    \/ sq' = DrainQueued(MarkIdle(sq, k), k)

LEMMA QueueMoves ==
    ASSUME TypeOK, [Next]_vars
    PROVE  sq' = sq \/ \E k \in Keys : QueueCalls(k)
<1>1. CASE \E k \in Keys : EnqueueBehind(k)
  BY <1>1 DEF EnqueueBehind, QueueCalls
<1>2. CASE \E k \in Keys : EnqueueDispatch(k)
  BY <1>2 DEF EnqueueDispatch, QueueCalls
<1>3. CASE \E k \in Keys : NewCommand(k) \/ CancelCommand(k)
  BY <1>3 DEF NewCommand, CancelCommand, MarkIdleDiscarding, QueueCalls
<1>4. CASE FinishIdle \/ FinishNext \/ FinishUnmapped
  <2>1. current.key \in Keys
    BY <1>4 DEF FinishIdle, FinishNext, FinishUnmapped, TypeOK, TaskType, Completions
  <2>. QED
    BY <1>4, <2>1 DEF FinishIdle, FinishNext, FinishUnmapped, QueueCalls
<1>5. CASE \E k \in Keys : CreateSession(k)
  BY <1>5 DEF CreateSession
<1>6. CASE \E p \in running : \E type \in {"chunk", "result"} : AgentUpdates(p, type)
  BY <1>6 DEF AgentUpdates
<1>7. CASE \E p \in running : AgentResponds(p)
  BY <1>7 DEF AgentResponds
<1>8. CASE \E t \in tasks : TaskLost(t) \/ TaskTimesOut(t)
  BY <1>8 DEF TaskLost, TaskTimesOut
<1>9. CASE AgentDies \/ ReaderEof \/ ForwardUpdate \/ CrashDisables \/ TakeCompletion
  BY <1>9 DEF AgentDies, ReaderEof, ForwardUpdate, CrashDisables, TakeCompletion
<1>10. CASE CrashRestarts
  BY <1>10 DEF CrashRestarts
<1>11. CASE UNCHANGED vars
  BY <1>11 DEF vars
<1>. QED
  BY <1>1, <1>2, <1>3, <1>4, <1>5, <1>6, <1>7, <1>8, <1>9, <1>10, <1>11
  DEF Next, Quiescent, RespawnFails, InitializeFails, RestartSessionFails,
      RestoreSessions, StartFreshSession

(* No message waits for an idle session, whatever the order of messages,   *)
(* completions, crashes and platform commands (session_queue.rs).          *)
THEOREM NoIdleBacklogHolds == Spec => []NoIdleBacklog
<1>1. Init => NoIdleBacklog
  BY DEF Init, NoIdleBacklog, NewQueue
<1>2. TypeOK /\ NoIdleBacklog /\ [Next]_vars => NoIdleBacklog'
  <2>. SUFFICES ASSUME TypeOK, NoIdleBacklog, [Next]_vars PROVE NoIdleBacklog'
    OBVIOUS
  <2>1. sq \in QueueValues(Msgs) /\ NoBacklog(sq)
    BY QueueTyped DEF TypeOK, NoIdleBacklog, NoBacklog
  <2>2. CASE sq' = sq
    BY <2>2 DEF NoIdleBacklog, IsActive
  <2>3. ASSUME NEW k \in Keys, QueueCalls(k) PROVE NoIdleBacklog'
    <3>1. MarkIdle(sq, k) \in QueueValues(Msgs) /\ NoBacklog(MarkIdle(sq, k))
      BY <2>1, QueueClosed, BacklogPreserved
    <3>2. NoBacklog(DrainQueued(MarkIdle(sq, k), k))
      BY <3>1, BacklogPreserved
    <3>3. NoBacklog(sq')
      BY <2>1, <2>3, <3>1, <3>2, BacklogPreserved DEF QueueCalls
    <3>. QED
      BY <3>3 DEF NoBacklog, NoIdleBacklog, IsActive
  <2>. QED
    BY <2>2, <2>3, QueueMoves
<1>. QED
  BY <1>1, <1>2, TypeCorrect, PTL DEF Spec

-----------------------------------------------------------------------------
(* Exit notices.  Seen as facts about the incoming queue alone.            *)

NoExit(s)  == \A i \in DOMAIN s : s[i] # ExitNotice
OneExit(s) == \A i, j \in DOMAIN s : s[i] = ExitNotice /\ s[j] = ExitNotice => i = j

(* What reading from and writing to the incoming queue does to them.       *)
LEMMA ExitSequences ==
    ASSUME NEW S, NEW s \in Seq(S), NEW u \in S
    PROVE  /\ u # ExitNotice /\ NoExit(s) => NoExit(Append(s, u))
           /\ u # ExitNotice /\ OneExit(s) => OneExit(Append(s, u))
           /\ NoExit(s) => OneExit(Append(s, u))
<1>1. /\ DOMAIN s = 1 .. Len(s)
      /\ DOMAIN Append(s, u) = 1 .. Len(s) + 1
      /\ Append(s, u)[Len(s) + 1] = u
      /\ \A i \in 1 .. Len(s) : Append(s, u)[i] = s[i]
      /\ Len(s) \in Nat
  OBVIOUS
<1>. QED
  BY <1>1 DEF NoExit, OneExit

LEMMA ExitTails ==
    ASSUME NEW S, NEW s \in Seq(S), s # <<>>
    PROVE  /\ NoExit(s) => NoExit(Tail(s))
           /\ OneExit(s) => OneExit(Tail(s))
           /\ Head(s) = ExitNotice /\ OneExit(s) => NoExit(Tail(s)) /\ ~NoExit(s)
<1>1. /\ DOMAIN s = 1 .. Len(s) /\ Head(s) = s[1]
      /\ DOMAIN Tail(s) = 1 .. Len(s) - 1
      /\ \A i \in 1 .. Len(s) - 1 : Tail(s)[i] = s[i + 1]
      /\ Len(s) \in Nat \ {0}
  OBVIOUS
<1>2. NoExit(s) => NoExit(Tail(s))
  BY <1>1 DEF NoExit
<1>3. OneExit(s) => OneExit(Tail(s))
  <2>. SUFFICES ASSUME OneExit(s), NEW i \in DOMAIN Tail(s), NEW j \in DOMAIN Tail(s),
                       Tail(s)[i] = ExitNotice, Tail(s)[j] = ExitNotice
                PROVE  i = j
    BY DEF OneExit
  <2>1. i + 1 \in DOMAIN s /\ j + 1 \in DOMAIN s
    BY <1>1
  <2>2. s[i + 1] = ExitNotice /\ s[j + 1] = ExitNotice
    BY <1>1
  <2>3. i + 1 = j + 1
    BY <2>1, <2>2 DEF OneExit
  <2>. QED
    BY <1>1, <2>3
<1>4. Head(s) = ExitNotice /\ OneExit(s) => NoExit(Tail(s)) /\ ~NoExit(s)
  <2>. SUFFICES ASSUME Head(s) = ExitNotice, OneExit(s)
                PROVE  NoExit(Tail(s)) /\ ~NoExit(s)
    OBVIOUS
  <2>1. 1 \in DOMAIN s /\ s[1] = ExitNotice
    BY <1>1
  <2>2. ASSUME NEW i \in DOMAIN Tail(s), Tail(s)[i] = ExitNotice PROVE FALSE
    <3>1. i + 1 \in DOMAIN s /\ s[i + 1] = ExitNotice /\ i + 1 # 1
      BY <1>1, <2>2
    <3>. QED
      BY <2>1, <3>1 DEF OneExit
  <2>. QED
    BY <2>1, <2>2 DEF NoExit
<1>. QED
  BY <1>2, <1>3, <1>4

ExitFacts ==
    /\ alive => ~eof /\ NoExit(incoming)
    /\ eof => NoExit(incoming)
    /\ OneExit(incoming)

LEMMA ExitFactsSame == ExitFacts <=> ExitNoticeFresh
  BY DEF ExitFacts, NoExit, OneExit, ExitNoticeFresh, ExitPositions

(* Messages other than an exit notice do not disturb the facts.            *)
LEMMA ExitAppend ==
    ASSUME TypeOK, ExitFacts, UNCHANGED <<alive, eof>>,
           incoming' = incoming \/ \E u \in Updates : incoming' = Append(incoming, u)
    PROVE  ExitFacts'
<1>1. CASE incoming' = incoming
  BY <1>1, Zenon DEF ExitFacts
<1>2. ASSUME NEW u \in Updates, incoming' = Append(incoming, u) PROVE ExitFacts'
  <2>1. u # ExitNotice
    BY DEF Updates, ExitNotice, Ids
  <2>2. NoExit(incoming) => NoExit(incoming')
    BY <1>2, <2>1, ExitSequences DEF TypeOK, ConnType
  <2>3. OneExit(incoming) => OneExit(incoming')
    BY <1>2, <2>1, ExitSequences DEF TypeOK, ConnType
  <2>. QED
    BY <2>2, <2>3, Zenon DEF ExitFacts
<1>. QED
  BY <1>1, <1>2

(* The replay of session/load is all that a heal writes to the queue.      *)
LEMMA HealAppends ==
    ASSUME TypeOK, NEW k \in Keys,
           HealRestored(k) \/ HealCreated(k) \/ HealFailed(k)
    PROVE  incoming' = incoming \/ \E u \in Updates : incoming' = Append(incoming, u)
<1>1. CASE HealRestored(k)
  <2>1. stale[k] \in Ids
    BY <1>1 DEF HealRestored, Restorable, TypeOK, MapType
  <2>2. PICK id \in RestoredIds(stale[k]) : Replay(id)
    BY <1>1 DEF HealRestored
  <2>3. Update("replay", id, 0) \in Updates
    BY <2>1, <2>2 DEF RestoredIds, Update, Updates, Tickets
  <2>. QED
    BY <2>2, <2>3 DEF Replay
<1>2. CASE HealCreated(k) \/ HealFailed(k)
  BY <1>2 DEF HealCreated, HealFailed
<1>. QED
  BY <1>1, <1>2

(* A crash is handled on the only exit notice there is.                    *)
LEMMA ExitConsumed ==
    ASSUME TypeOK, ExitFacts, ExitReceived
    PROVE  ~alive /\ ~eof /\ NoExit(Tail(incoming)) /\ OneExit(Tail(incoming))
<1>1. incoming \in Seq(Updates \cup {ExitNotice}) /\ incoming # <<>>
  BY DEF TypeOK, ConnType, ExitReceived
<1>2. NoExit(Tail(incoming)) /\ OneExit(Tail(incoming)) /\ ~NoExit(incoming)
  BY <1>1, ExitTails DEF ExitFacts, ExitReceived
<1>. QED
  BY <1>2, Zenon DEF ExitFacts

(* An exit notice is never about a process that runs: handle_crash never   *)
(* kills a healthy agent, however deaths, failed restarts and the readers' *)
(* notices interleave.                                                     *)
THEOREM ExitNoticeFreshHolds == Spec => []ExitNoticeFresh
<1>1. Init => ExitFacts
  BY DEF Init, ExitFacts, NoExit, OneExit
<1>2. TypeOK /\ ExitFacts /\ [Next]_vars => ExitFacts'
  <2>. SUFFICES ASSUME TypeOK, ExitFacts, [Next]_vars PROVE ExitFacts'
    OBVIOUS
  <2>. USE DEF connVars
  <2>1. CASE \E k \in Keys : CreateSession(k)
    <3>. PICK k \in Keys : CreateSession(k)
      BY <2>1
    <3>1. incoming' = incoming \/ \E u \in Updates : incoming' = Append(incoming, u)
      BY HealAppends DEF CreateSession
    <3>2. UNCHANGED <<alive, eof>>
      BY Zenon DEF CreateSession
    <3>. QED
      BY <3>1, <3>2, ExitAppend
  <2>2. CASE \E k \in Keys : EnqueueDispatch(k)
    <3>. PICK k \in Keys : EnqueueDispatch(k)
      BY <2>2
    <3>1. incoming' = incoming \/ \E u \in Updates : incoming' = Append(incoming, u)
      BY HealAppends DEF EnqueueDispatch, PromptMapped, PromptHealed
    <3>2. UNCHANGED <<alive, eof>>
      BY Zenon DEF EnqueueDispatch
    <3>. QED
      BY <3>1, <3>2, ExitAppend
  <2>3. CASE \E p \in running : \E type \in {"chunk", "result"} : AgentUpdates(p, type)
    <3>. PICK p \in running, type \in {"chunk", "result"} : AgentUpdates(p, type)
      BY <2>3
    <3>1. Update(type, p.id, p.tkt) \in Updates
      BY DEF TypeOK, TaskType, Prompts, Update, Updates
    <3>2. UNCHANGED <<alive, eof>> /\ incoming' = Append(incoming, Update(type, p.id, p.tkt))
      BY Zenon DEF AgentUpdates
    <3>. QED
      BY <3>1, <3>2, ExitAppend
  <2>4. CASE AgentDies
    BY <2>4, Zenon DEF AgentDies, ExitFacts
  <2>5. CASE ReaderEof
    <3>1. OneExit(incoming')
      <4>1. NoExit(incoming) /\ incoming' = Append(incoming, ExitNotice)
        BY <2>5 DEF ReaderEof, ExitFacts
      <4>. QED
        BY <4>1, ExitSequences DEF TypeOK, ConnType
    <3>2. ~alive' /\ ~eof'
      BY <2>5, Zenon DEF ReaderEof, ExitFacts
    <3>. QED
      BY <3>1, <3>2, Zenon DEF ExitFacts
  <2>6. CASE ForwardUpdate
    <3>1. (NoExit(incoming) => NoExit(incoming')) /\ (OneExit(incoming) => OneExit(incoming'))
      BY <2>6, ExitTails DEF ForwardUpdate, TypeOK, ConnType
    <3>2. UNCHANGED <<alive, eof>>
      BY <2>6, Zenon DEF ForwardUpdate
    <3>. QED
      BY <3>1, <3>2, Zenon DEF ExitFacts
  <2>7. CASE CrashDisables
    BY <2>7, ExitConsumed, Zenon DEF CrashDisables, ExitFacts
  <2>8. CASE RespawnFails \/ InitializeFails \/ RestartSessionFails
    <3>1. ExitReceived /\ incoming' = Tail(incoming) /\ alive' = FALSE
      BY <2>8, Zenon
      DEF RespawnFails, InitializeFails, RestartSessionFails, CrashRestarts
    <3>. QED
      BY <3>1, ExitConsumed, Zenon DEF ExitFacts
  <2>9. CASE StartFreshSession
    <3>1. ExitReceived /\ incoming' = Tail(incoming) /\ eof' = eof
      BY <2>9, Zenon DEF StartFreshSession, CrashRestarts, NewIncarnation
    <3>. QED
      BY <3>1, ExitConsumed, Zenon DEF ExitFacts
  <2>10. CASE RestoreSessions
    <3>1. ExitReceived /\ eof' = eof
      BY <2>10, Zenon DEF RestoreSessions, CrashRestarts, NewIncarnation
    <3>2. Survivors \in [AllKeys -> Ids \cup {None}]
          /\ Tail(incoming) \in Seq(Updates \cup {ExitNotice})
      BY <2>10, CrashTypes DEF RestoreSessions
    <3>3. NoExit(incoming') /\ OneExit(incoming')
      <4>1. CASE incoming' = Tail(incoming)
        BY <3>1, <4>1, ExitConsumed
      <4>2. ASSUME NEW u \in Updates, incoming' = Append(Tail(incoming), u)
            PROVE  NoExit(incoming') /\ OneExit(incoming')
        <5>1. u # ExitNotice
          BY DEF Updates, ExitNotice, Ids
        <5>. QED
          BY <3>1, <3>2, <4>2, <5>1, ExitConsumed, ExitSequences
      <4>3. incoming' = Tail(incoming) \/ \E u \in Updates : incoming' = Append(Tail(incoming), u)
        <5>1. PICK k0 \in {k \in AllKeys : Survivors[k] # None} :
              \E id \in RestoredIds(Survivors[k0]) :
                 incoming' = IF Resume THEN Tail(incoming)
                             ELSE Append(Tail(incoming), Update("replay", id, 0))
          BY <2>10 DEF RestoreSessions
        <5>2. PICK id \in RestoredIds(Survivors[k0]) :
                 incoming' = IF Resume THEN Tail(incoming)
                             ELSE Append(Tail(incoming), Update("replay", id, 0))
          BY <5>1
        <5>3. Update("replay", id, 0) \in Updates
          BY <3>2, <5>2 DEF RestoredIds, Update, Updates, Tickets
        <5>. QED
          BY <5>2, <5>3
      <4>. QED
        BY <4>1, <4>2, <4>3
    <3>. QED
      BY <3>1, <3>3, ExitConsumed, Zenon DEF ExitFacts
  <2>11. CASE UNCHANGED <<incoming, alive, eof>>
    BY <2>11, Zenon DEF ExitFacts
  <2>12. CASE \E k \in Keys : EnqueueBehind(k) \/ NewCommand(k) \/ CancelCommand(k)
    BY <2>11, <2>12 DEF EnqueueBehind, NewCommand, CancelCommand
  <2>13. CASE \E p \in running : AgentResponds(p)
    BY <2>11, <2>13 DEF AgentResponds
  <2>14. CASE \E t \in tasks : TaskLost(t) \/ TaskTimesOut(t)
    BY <2>11, <2>14 DEF TaskLost, TaskTimesOut
  <2>15. CASE TakeCompletion \/ FinishIdle \/ FinishNext \/ FinishUnmapped
    BY <2>11, <2>15 DEF TakeCompletion, FinishIdle, FinishNext, FinishUnmapped, PromptMapped
  <2>16. CASE UNCHANGED vars
    BY <2>11, <2>16 DEF vars
  <2>. QED
    BY <2>1, <2>2, <2>3, <2>4, <2>5, <2>6, <2>7, <2>8, <2>9, <2>10, <2>12, <2>13,
       <2>14, <2>15, <2>16
    DEF Next, Quiescent
<1>. QED
  BY <1>1, <1>2, TypeCorrect, ExitFactsSame, PTL DEF Spec

-----------------------------------------------------------------------------
(* The order of messages.  InOrder alone is not inductive: a message that  *)
(* is queued must also be newer than what was last sent.                   *)

InOrderOf(q, sent, next) ==
    /\ \A i \in 1 .. Len(q) : sent < q[i] /\ q[i] < next
    /\ \A i, j \in 1 .. Len(q) : i < j => q[i] < q[j]

InOrderInv ==
    \A k \in Keys : lastSent[k] < nextMsg /\ InOrderOf(sq.queues[k], lastSent[k], nextMsg)

LEMMA MsgsAreNumbers ==
    ASSUME NEW q \in Seq(Msgs)
    PROVE  Len(q) \in Nat /\ \A i \in 1 .. Len(q) : q[i] \in Nat
  BY DEF Msgs

LEMMA OrderGrows ==
    ASSUME NEW q \in Seq(Msgs), NEW sent \in Nat, NEW next \in Nat, NEW later \in Nat,
           InOrderOf(q, sent, next), next <= later
    PROVE  InOrderOf(q, sent, later)
<1>1. ASSUME NEW i \in 1 .. Len(q) PROVE sent < q[i] /\ q[i] < later
  <2>1. q[i] \in Nat /\ sent < q[i] /\ q[i] < next
    BY MsgsAreNumbers DEF InOrderOf
  <2>. QED
    BY <2>1
<1>2. \A i, j \in 1 .. Len(q) : i < j => q[i] < q[j]
  BY DEF InOrderOf
<1>. QED
  BY <1>1, <1>2 DEF InOrderOf

LEMMA OrderedSequences ==
    ASSUME NEW q \in Seq(Msgs), NEW sent \in Nat, NEW next \in Nat,
           sent < next, InOrderOf(q, sent, next)
    PROVE  /\ InOrderOf(q, sent, next + 1)
           /\ InOrderOf(Append(q, next), sent, next + 1)
           /\ q # <<>> => InOrderOf(Tail(q), sent, next)
           /\ q # <<>> => q[Len(q)] \in Nat /\ q[Len(q)] < next
<1>1. Len(q) \in Nat /\ \A i \in 1 .. Len(q) : q[i] \in Nat
  BY MsgsAreNumbers
<1>2. InOrderOf(q, sent, next + 1)
  BY OrderGrows
<1>3. InOrderOf(Append(q, next), sent, next + 1)
  <2>. DEFINE r == Append(q, next)
  <2>1. /\ Len(r) = Len(q) + 1 /\ r[Len(q) + 1] = next
        /\ \A i \in 1 .. Len(q) : r[i] = q[i]
    OBVIOUS
  <2>2. ASSUME NEW i \in 1 .. Len(r) PROVE sent < r[i] /\ r[i] < next + 1
    BY <1>1, <2>1 DEF InOrderOf
  <2>3. ASSUME NEW i \in 1 .. Len(r), NEW j \in 1 .. Len(r), i < j PROVE r[i] < r[j]
    <3>1. i \in 1 .. Len(q) /\ r[i] = q[i]
      BY <1>1, <2>1, <2>3
    <3>2. CASE j = Len(q) + 1
      BY <2>1, <3>1, <3>2 DEF InOrderOf
    <3>3. CASE j \in 1 .. Len(q)
      BY <2>1, <2>3, <3>1, <3>3 DEF InOrderOf
    <3>. QED
      BY <1>1, <2>1, <3>2, <3>3
  <2>. QED
    BY <2>2, <2>3 DEF InOrderOf
<1>4. ASSUME q # <<>> PROVE InOrderOf(Tail(q), sent, next)
  <2>1. /\ Len(Tail(q)) = Len(q) - 1
        /\ \A i \in 1 .. Len(q) - 1 : Tail(q)[i] = q[i + 1] /\ i + 1 \in 1 .. Len(q)
    BY <1>4
  <2>2. ASSUME NEW i \in 1 .. Len(Tail(q))
        PROVE  sent < Tail(q)[i] /\ Tail(q)[i] < next
    BY <2>1 DEF InOrderOf
  <2>3. ASSUME NEW i \in 1 .. Len(Tail(q)), NEW j \in 1 .. Len(Tail(q)), i < j
        PROVE  Tail(q)[i] < Tail(q)[j]
    <3>1. /\ i + 1 \in 1 .. Len(q) /\ j + 1 \in 1 .. Len(q) /\ i + 1 < j + 1
          /\ Tail(q)[i] = q[i + 1] /\ Tail(q)[j] = q[j + 1]
      BY <2>1, <2>3
    <3>. QED
      BY <3>1 DEF InOrderOf
  <2>. QED
    BY <2>2, <2>3 DEF InOrderOf
<1>5. ASSUME q # <<>> PROVE q[Len(q)] \in Nat /\ q[Len(q)] < next
  <2>1. Len(q) \in 1 .. Len(q)
    BY <1>1, <1>5
  <2>. QED
    BY <1>1, <2>1 DEF InOrderOf
<1>. QED
  BY <1>2, <1>3, <1>4, <1>5

(* A prompt of a batch either sends it, and its ticket becomes the newest  *)
(* message sent, or leaves what was sent as it is.                         *)
LEMMA PromptOrder ==
    ASSUME TypeOK, NEW k \in Keys, NEW batch,
           PromptMapped(k, batch) \/ PromptHealed(k, batch)
    PROVE  lastSent' = lastSent \/ lastSent' = [lastSent EXCEPT ![k] = Newest(batch)]
  BY DEF PromptMapped, PromptHealed, PromptSent

(* Steps that take messages out of the queue of one session at most.       *)
LEMMA OrderMarkIdle ==
    ASSUME TypeOK, InOrderInv, NEW k \in Keys, sq' = MarkIdle(sq, k),
           UNCHANGED <<lastSent, nextMsg>>
    PROVE  InOrderInv'
<1>. SUFFICES ASSUME NEW j \in Keys
              PROVE  InOrderOf(sq'.queues[j], lastSent[j], nextMsg)
  BY DEF InOrderInv
<1>1. /\ sq.queues[j] \in Seq(Msgs) /\ lastSent[j] \in Nat /\ nextMsg \in Nat
      /\ lastSent[j] < nextMsg /\ InOrderOf(sq.queues[j], lastSent[j], nextMsg)
  BY DEF TypeOK, QueueType, Tickets, InOrderInv
<1>2. \/ sq'.queues[j] = sq.queues[j]
      \/ sq.queues[j] # <<>> /\ sq'.queues[j] = Tail(sq.queues[j])
  <2>1. sq.queues \in [Keys -> Seq(Msgs)]
    BY DEF TypeOK, QueueType
  <2>2. CASE sq.queues[k] = <<>>
    <3>1. sq'.queues = sq.queues
      BY <2>2 DEF MarkIdle
    <3>. QED
      BY <3>1
  <2>3. CASE sq.queues[k] # <<>>
    <3>1. sq'.queues = [sq.queues EXCEPT ![k] = Tail(sq.queues[k])]
      BY <2>3 DEF MarkIdle, WithQueue
    <3>2. CASE j = k
      BY <2>1, <2>3, <3>1, <3>2
    <3>3. CASE j # k
      <4>1. sq'.queues[j] = sq.queues[j]
        BY <2>1, <3>1, <3>3
      <4>. QED
        BY <4>1
    <3>. QED
      BY <3>2, <3>3
  <2>. QED
    BY <2>2, <2>3
<1>. QED
  BY <1>1, <1>2, OrderedSequences

LEMMA OrderDrain ==
    ASSUME TypeOK, InOrderInv, NEW k \in Keys, NEW sent, sent \in Nat,
           sent < nextMsg', nextMsg' \in Nat, nextMsg <= nextMsg',
           sq'.queues = [sq.queues EXCEPT ![k] = <<>>],
           lastSent' = lastSent \/ lastSent' = [lastSent EXCEPT ![k] = sent]
    PROVE  InOrderInv'
<1>. SUFFICES ASSUME NEW j \in Keys
              PROVE  /\ lastSent'[j] < nextMsg'
                     /\ InOrderOf(sq'.queues[j], lastSent'[j], nextMsg')
  BY DEF InOrderInv
<1>1. /\ sq.queues[j] \in Seq(Msgs) /\ lastSent[j] \in Nat /\ nextMsg \in Nat
      /\ lastSent[j] < nextMsg /\ InOrderOf(sq.queues[j], lastSent[j], nextMsg)
  BY DEF TypeOK, QueueType, Tickets, InOrderInv
<1>2. CASE j = k
  <2>1. sq'.queues[j] = <<>>
    BY <1>2 DEF TypeOK, QueueType
  <2>2. lastSent'[j] = lastSent[j] \/ lastSent'[j] = sent
    BY <1>2 DEF TypeOK, QueueType
  <2>. QED
    BY <1>1, <2>1, <2>2 DEF InOrderOf
<1>3. CASE j # k
  <2>1. sq'.queues[j] = sq.queues[j] /\ lastSent'[j] = lastSent[j]
    BY <1>3 DEF TypeOK, QueueType
  <2>. QED
    BY <1>1, <2>1, OrderGrows
<1>. QED
  BY <1>2, <1>3

(* Messages reach the agent in the order in which the channels sent them.  *)
THEOREM InOrderHolds == Spec => []InOrder
<1>1. Init => InOrderInv
  <2>. SUFFICES ASSUME Init, NEW k \in Keys
                PROVE  lastSent[k] < nextMsg /\ InOrderOf(sq.queues[k], lastSent[k], nextMsg)
    BY DEF InOrderInv
  <2>1. lastSent[k] = 0 /\ nextMsg = 1 /\ sq.queues[k] = <<>>
    BY DEF Init, NewQueue
  <2>. QED
    BY <2>1 DEF InOrderOf
<1>2. TypeOK /\ InOrderInv /\ [Next]_vars => InOrderInv'
  <2>. SUFFICES ASSUME TypeOK, InOrderInv, [Next]_vars PROVE InOrderInv'
    OBVIOUS
  <2>a. /\ sq \in QueueValues(Msgs) /\ sq.queues \in [Keys -> Seq(Msgs)]
        /\ nextMsg \in Nat /\ lastSent \in [Keys -> Nat]
    BY QueueTyped DEF TypeOK, QueueType, Tickets
  <2>1. CASE \E k \in Keys : EnqueueBehind(k)
    <3>. PICK k \in Keys : EnqueueBehind(k)
      BY <2>1
    <3>1. /\ sq'.queues = [sq.queues EXCEPT ![k] = Append(sq.queues[k], nextMsg)]
          /\ nextMsg' = nextMsg + 1 /\ lastSent' = lastSent
      BY DEF EnqueueBehind, Push, WithQueue
    <3>. SUFFICES ASSUME NEW j \in Keys
                  PROVE  /\ lastSent[j] < nextMsg + 1
                         /\ InOrderOf(sq'.queues[j], lastSent[j], nextMsg + 1)
      BY <3>1 DEF InOrderInv
    <3>2. /\ lastSent[j] \in Nat /\ lastSent[j] < nextMsg
          /\ InOrderOf(sq.queues[j], lastSent[j], nextMsg)
      BY <2>a DEF InOrderInv
    <3>3. \/ sq'.queues[j] = sq.queues[j]
          \/ sq'.queues[j] = Append(sq.queues[j], nextMsg)
      BY <2>a, <3>1
    <3>4. /\ InOrderOf(sq.queues[j], lastSent[j], nextMsg + 1)
          /\ InOrderOf(Append(sq.queues[j], nextMsg), lastSent[j], nextMsg + 1)
      BY <2>a, <3>2, OrderedSequences
    <3>5. lastSent[j] < nextMsg + 1
      BY <2>a, <3>2
    <3>. QED
      BY <3>3, <3>4, <3>5
  <2>2. CASE \E k \in Keys : EnqueueDispatch(k)
    <3>. PICK k \in Keys : EnqueueDispatch(k)
      BY <2>2
    <3>. DEFINE batch == FlushPendingReturns(PushOnly(sq, k, nextMsg), k)
    <3>1. nextMsg \in Msgs /\ ~IsActive(sq, k) /\ nextMsg' = nextMsg + 1
      BY DEF EnqueueDispatch
    <3>2. batch = Append(sq.queues[k], nextMsg)
      BY <2>a, <3>1, DispatchBatch
    <3>3. Newest(batch) = nextMsg
      BY <2>a, <3>1, <3>2 DEF Newest
    <3>4. sq'.queues = [sq.queues EXCEPT ![k] = <<>>]
      <4>1. sq' = FlushPending(PushOnly(sq, k, nextMsg), k)
        BY DEF EnqueueDispatch
      <4>2. sq' = [queues |-> [sq.queues EXCEPT ![k] = <<>>],
                   active |-> sq.active \cup {k}]
        BY <2>a, <3>1, <4>1, DispatchBatch
      <4>. QED
        BY <4>2
    <3>5. lastSent' = lastSent \/ lastSent' = [lastSent EXCEPT ![k] = nextMsg]
      BY <3>3, PromptOrder DEF EnqueueDispatch
    <3>6. nextMsg < nextMsg' /\ nextMsg' \in Nat /\ nextMsg <= nextMsg'
      BY <2>a, <3>1
    <3>. QED
      BY <2>a, <3>4, <3>5, <3>6, OrderDrain
  <2>3. CASE \E k \in Keys : NewCommand(k) \/ CancelCommand(k)
    <3>. PICK k \in Keys : NewCommand(k) \/ CancelCommand(k)
      BY <2>3
    <3>1. UNCHANGED <<lastSent, nextMsg>>
      BY DEF NewCommand, CancelCommand
    <3>2. sq' = sq \/ sq' = MarkIdle(sq, k)
      BY DEF NewCommand, CancelCommand, MarkIdleDiscarding
    <3>. QED
      BY <3>1, <3>2, OrderMarkIdle DEF InOrderInv
  <2>4. CASE FinishIdle
    <3>1. current.key \in Keys /\ UNCHANGED <<lastSent, nextMsg>>
      BY <2>4 DEF FinishIdle, TypeOK, TaskType, Completions
    <3>. QED
      BY <2>4, <3>1, OrderMarkIdle DEF FinishIdle
  <2>5. CASE FinishNext \/ FinishUnmapped
    <3>. DEFINE k == current.key
                batch == MarkIdleReturns(sq, k) \o DrainQueuedReturns(MarkIdle(sq, k), k)
    <3>1. k \in Keys /\ sq.queues[k] # <<>> /\ nextMsg' = nextMsg
      BY <2>5 DEF FinishNext, FinishUnmapped, TypeOK, TaskType, Completions
    <3>2. batch = sq.queues[k]
      BY <2>a, <3>1, CompletionBatch
    <3>3. Newest(batch) \in Nat /\ Newest(batch) < nextMsg
      <4>1. /\ lastSent[k] \in Nat /\ lastSent[k] < nextMsg
            /\ InOrderOf(sq.queues[k], lastSent[k], nextMsg)
        BY <2>a, <3>1 DEF InOrderInv
      <4>2. sq.queues[k] \in Seq(Msgs)
        BY <2>a, <3>1
      <4>. QED
        BY <2>a, <3>1, <3>2, <4>1, <4>2, OrderedSequences DEF Newest
    <3>4. sq'.queues = [sq.queues EXCEPT ![k] = <<>>]
      <4>1. sq' = DrainQueued(MarkIdle(sq, k), k)
        BY <2>5 DEF FinishNext, FinishUnmapped
      <4>2. MarkIdle(sq, k).queues = [sq.queues EXCEPT ![k] = Tail(sq.queues[k])]
        BY <3>1 DEF MarkIdle, WithQueue
      <4>3. sq'.queues = [MarkIdle(sq, k).queues EXCEPT ![k] = <<>>]
        BY <4>1 DEF DrainQueued, WithQueue
      <4>. QED
        BY <2>a, <4>2, <4>3
    <3>5. lastSent' = lastSent \/ lastSent' = [lastSent EXCEPT ![k] = Newest(batch)]
      BY <2>5, <3>1, PromptOrder DEF FinishNext, FinishUnmapped
    <3>6. Newest(batch) < nextMsg' /\ nextMsg' \in Nat /\ nextMsg <= nextMsg'
      BY <2>a, <3>1, <3>3
    <3>. HIDE DEF batch
    <3>. QED
      BY <3>1, <3>3, <3>4, <3>5, <3>6, OrderDrain
  <2>6. CASE UNCHANGED <<sq, lastSent, nextMsg>>
    BY <2>6 DEF InOrderInv
  <2>7. CASE \E k \in Keys : CreateSession(k)
    BY <2>6, <2>7 DEF CreateSession
  <2>8. CASE \E p \in running : \E type \in {"chunk", "result"} : AgentUpdates(p, type)
    BY <2>6, <2>8 DEF AgentUpdates
  <2>9. CASE \E p \in running : AgentResponds(p)
    BY <2>6, <2>9 DEF AgentResponds
  <2>10. CASE \E t \in tasks : TaskLost(t) \/ TaskTimesOut(t)
    BY <2>6, <2>10 DEF TaskLost, TaskTimesOut
  <2>11. CASE AgentDies \/ ReaderEof \/ ForwardUpdate \/ CrashDisables \/ TakeCompletion
    BY <2>6, <2>11 DEF AgentDies, ReaderEof, ForwardUpdate, CrashDisables, TakeCompletion
  <2>12. CASE CrashRestarts
    BY <2>6, <2>12 DEF CrashRestarts
  <2>13. CASE UNCHANGED vars
    BY <2>6, <2>13 DEF vars
  <2>. QED
    BY <2>1, <2>2, <2>3, <2>4, <2>5, <2>7, <2>8, <2>9, <2>10, <2>11, <2>12, <2>13
    DEF Next, Quiescent, RespawnFails, InitializeFails, RestartSessionFails,
        RestoreSessions, StartFreshSession
<1>3. InOrderInv => InOrder
  BY DEF InOrderInv, InOrderOf, InOrder
<1>. QED
  BY <1>1, <1>2, <1>3, TypeCorrect, PTL DEF Spec

-----------------------------------------------------------------------------
(* Isolation of conversations.  Isolation is inductive together with the   *)
(* fact that the agent never hands out an id that is in use.               *)

(* The sets of ids that a map uses, and what Isolation says of one entry.  *)
MapOwned(map, own)  == \A k \in AllKeys : map[k] # None => own[map[k]] = k
MapOld(map, next)   == \A k \in AllKeys : map[k] # None => map[k] < next
BackOwned(rev, own) == \A i \in Ids : rev[i] # None => own[i] = rev[i]
BackOld(rev, next)  == \A i \in Ids : rev[i] # None => i < next

IsolationInv ==
    /\ MapOwned(sessionMap, owner) /\ MapOld(sessionMap, nextId)
    /\ MapOwned(stale, owner) /\ MapOld(stale, nextId)
    /\ BackOwned(reverseMap, owner) /\ BackOld(reverseMap, nextId)

Maps  == [AllKeys -> Ids \cup {None}]
Backs == [Ids -> AllKeys \cup {None}]

(* Giving the next free id to k leaves the other entries with their owner. *)
LEMMA FreshOwner ==
    ASSUME NEW next \in Ids, NEW own \in Backs, NEW k \in AllKeys
    PROVE  /\ \A map \in Maps : MapOwned(map, own) /\ MapOld(map, next) =>
                 /\ MapOwned(map, [own EXCEPT ![next] = k]) /\ MapOld(map, next + 1)
                 /\ MapOwned([map EXCEPT ![k] = next], [own EXCEPT ![next] = k])
                 /\ MapOld([map EXCEPT ![k] = next], next + 1)
           /\ \A rev \in Backs : BackOwned(rev, own) /\ BackOld(rev, next) =>
                 /\ BackOwned(rev, [own EXCEPT ![next] = k]) /\ BackOld(rev, next + 1)
                 /\ BackOwned([rev EXCEPT ![next] = k], [own EXCEPT ![next] = k])
                 /\ BackOld([rev EXCEPT ![next] = k], next + 1)
<1>. DEFINE own2 == [own EXCEPT ![next] = k]
<1>1. next \in Nat /\ \A i \in Ids : i \in Nat
  BY DEF Ids
<1>2. own2[next] = k /\ \A i \in Ids : i # next => own2[i] = own[i]
  BY DEF Backs
<1>. HIDE DEF own2
<1>3. ASSUME NEW map \in Maps, MapOwned(map, own), MapOld(map, next)
      PROVE  /\ MapOwned(map, own2) /\ MapOld(map, next + 1)
             /\ MapOwned([map EXCEPT ![k] = next], own2)
             /\ MapOld([map EXCEPT ![k] = next], next + 1)
  <2>1. ASSUME NEW j \in AllKeys, map[j] # None
        PROVE  map[j] \in Ids /\ own2[map[j]] = j /\ map[j] < next + 1
    <3>1. map[j] \in Ids /\ own[map[j]] = j /\ map[j] < next
      BY <1>3, <2>1 DEF Maps, MapOwned, MapOld
    <3>2. map[j] \in Nat /\ map[j] < next
      BY <1>1, <3>1
    <3>3. map[j] # next /\ map[j] < next + 1
      BY <1>1, <3>2
    <3>. QED
      BY <1>2, <3>1, <3>3
  <2>2. \A j \in AllKeys : [map EXCEPT ![k] = next][j] = IF j = k THEN next ELSE map[j]
    BY DEF Maps
  <2>3. MapOwned(map, own2) /\ MapOld(map, next + 1)
    BY <2>1 DEF MapOwned, MapOld
  <2>4. MapOwned([map EXCEPT ![k] = next], own2)
    BY <1>2, <2>1, <2>2 DEF MapOwned
  <2>5. MapOld([map EXCEPT ![k] = next], next + 1)
    BY <1>1, <2>1, <2>2 DEF MapOld
  <2>. QED
    BY <2>3, <2>4, <2>5
<1>4. ASSUME NEW rev \in Backs, BackOwned(rev, own), BackOld(rev, next)
      PROVE  /\ BackOwned(rev, own2) /\ BackOld(rev, next + 1)
             /\ BackOwned([rev EXCEPT ![next] = k], own2)
             /\ BackOld([rev EXCEPT ![next] = k], next + 1)
  <2>1. ASSUME NEW i \in Ids, rev[i] # None
        PROVE  own2[i] = rev[i] /\ i < next + 1
    <3>1. own[i] = rev[i] /\ i < next
      BY <1>4, <2>1 DEF BackOwned, BackOld
    <3>. QED
      BY <1>1, <1>2, <3>1
  <2>2. \A i \in Ids : [rev EXCEPT ![next] = k][i] = IF i = next THEN k ELSE rev[i]
    BY DEF Backs
  <2>3. BackOwned(rev, own2) /\ BackOld(rev, next + 1)
    BY <2>1 DEF BackOwned, BackOld
  <2>4. BackOwned([rev EXCEPT ![next] = k], own2)
    BY <1>2, <2>1, <2>2 DEF BackOwned
  <2>5. BackOld([rev EXCEPT ![next] = k], next + 1)
    BY <1>1, <2>1, <2>2 DEF BackOld
  <2>. QED
    BY <2>3, <2>4, <2>5
<1>. QED
  BY <1>3, <1>4 DEF own2

(* An id that k already owns may be mapped to it again.                    *)
LEMMA KeptOwner ==
    ASSUME NEW id \in Ids, NEW next \in Nat, id < next, NEW own \in Backs,
           NEW k \in AllKeys, own[id] = k
    PROVE  /\ [own EXCEPT ![id] = k] = own
           /\ \A map \in Maps : MapOwned(map, own) /\ MapOld(map, next) =>
                 /\ MapOwned([map EXCEPT ![k] = id], own)
                 /\ MapOld([map EXCEPT ![k] = id], next)
           /\ \A rev \in Backs : BackOwned(rev, own) /\ BackOld(rev, next) =>
                 /\ BackOwned([rev EXCEPT ![id] = k], own)
                 /\ BackOld([rev EXCEPT ![id] = k], next)
<1>1. [own EXCEPT ![id] = k] = own
  BY DEF Backs
<1>2. ASSUME NEW map \in Maps, MapOwned(map, own), MapOld(map, next)
      PROVE  MapOwned([map EXCEPT ![k] = id], own) /\ MapOld([map EXCEPT ![k] = id], next)
  BY <1>2 DEF Maps, MapOwned, MapOld
<1>3. ASSUME NEW rev \in Backs, BackOwned(rev, own), BackOld(rev, next)
      PROVE  BackOwned([rev EXCEPT ![id] = k], own) /\ BackOld([rev EXCEPT ![id] = k], next)
  BY <1>3 DEF Backs, BackOwned, BackOld
<1>. QED
  BY <1>1, <1>2, <1>3

(* Dropping entries never hurts.                                           *)
LEMMA Dropped ==
    ASSUME NEW next, NEW own
    PROVE  /\ \A map \in Maps, k \in AllKeys : MapOwned(map, own) /\ MapOld(map, next) =>
                 /\ MapOwned([map EXCEPT ![k] = None], own)
                 /\ MapOld([map EXCEPT ![k] = None], next)
           /\ MapOwned([k \in AllKeys |-> None], own) /\ MapOld([k \in AllKeys |-> None], next)
           /\ \A rev \in Backs, i \in Ids : BackOwned(rev, own) /\ BackOld(rev, next) =>
                 /\ BackOwned([rev EXCEPT ![i] = None], own)
                 /\ BackOld([rev EXCEPT ![i] = None], next)
  BY DEF Maps, Backs, MapOwned, MapOld, BackOwned, BackOld

LEMMA MapsAre == TypeOK => sessionMap \in Maps /\ stale \in Maps /\ reverseMap \in Backs
                           /\ owner \in Backs /\ nextId \in Nat
  BY DEF TypeOK, MapType, Maps, Backs

(* The sessions that survive a crash are owned by their keys.              *)
LEMMA SurvivorsOwned ==
    ASSUME TypeOK, IsolationInv
    PROVE  Survivors \in Maps /\ MapOwned(Survivors, owner) /\ MapOld(Survivors, nextId)
  BY MapsAre DEF Survivors, Maps, IsolationInv, MapOwned, MapOld

(* create_session or the second half of heal_session: a fresh id.          *)
LEMMA CreatedIsolated ==
    ASSUME TypeOK, IsolationInv, NEW k \in AllKeys, SessionCreated(k),
           stale' = stale \/ stale' = [stale EXCEPT ![k] = None]
    PROVE  IsolationInv'
<1>1. /\ nextId \in Ids /\ nextId' = nextId + 1
      /\ owner' = [owner EXCEPT ![nextId] = k]
      /\ sessionMap' = [sessionMap EXCEPT ![k] = nextId]
      /\ reverseMap' = [reverseMap EXCEPT ![nextId] = k]
  BY DEF SessionCreated
<1>2. MapOwned(sessionMap', owner') /\ MapOld(sessionMap', nextId')
  BY <1>1, MapsAre, FreshOwner DEF IsolationInv
<1>3. BackOwned(reverseMap', owner') /\ BackOld(reverseMap', nextId')
  BY <1>1, MapsAre, FreshOwner DEF IsolationInv
<1>4. MapOwned(stale, owner') /\ MapOld(stale, nextId')
  BY <1>1, MapsAre, FreshOwner DEF IsolationInv
<1>5. MapOwned(stale', owner') /\ MapOld(stale', nextId')
  BY <1>4, MapsAre, Dropped
<1>. QED
  BY <1>2, <1>3, <1>5 DEF IsolationInv

(* The first half of heal_session: the id restoring gave goes to the key   *)
(* whose session was restored.                                             *)
LEMMA RestoredIsolated ==
    ASSUME TypeOK, IsolationInv, NEW k \in Keys, HealRestored(k)
    PROVE  IsolationInv'
<1>1. PICK id \in RestoredIds(stale[k]) :
         /\ sessionMap' = [sessionMap EXCEPT ![k] = id]
         /\ reverseMap' = [reverseMap EXCEPT ![id] = k]
         /\ Booked(k, id)
  BY DEF HealRestored
<1>2. stale[k] \in Ids /\ stale[k] < nextId /\ owner[stale[k]] = k
  BY MapsAre DEF HealRestored, Restorable, Maps, IsolationInv, MapOwned, MapOld
<1>3. stale' = [stale EXCEPT ![k] = None]
  BY DEF HealRestored
<1>4. CASE id = stale[k]
  <2>1. nextId' = nextId /\ owner' = owner
    BY <1>1, <1>2, <1>4, MapsAre, KeptOwner DEF Booked
  <2>2. MapOwned(sessionMap', owner') /\ MapOld(sessionMap', nextId')
    BY <1>1, <1>2, <1>4, <2>1, MapsAre, KeptOwner DEF IsolationInv
  <2>3. BackOwned(reverseMap', owner') /\ BackOld(reverseMap', nextId')
    BY <1>1, <1>2, <1>4, <2>1, MapsAre, KeptOwner DEF IsolationInv
  <2>4. MapOwned(stale', owner') /\ MapOld(stale', nextId')
    BY <1>3, <2>1, MapsAre, Dropped DEF IsolationInv
  <2>. QED
    BY <2>2, <2>3, <2>4 DEF IsolationInv
<1>5. CASE id = nextId /\ nextId \in Ids
  <2>1. nextId' = nextId + 1 /\ owner' = [owner EXCEPT ![nextId] = k]
    BY <1>1, <1>5 DEF Booked
  <2>2. MapOwned(sessionMap', owner') /\ MapOld(sessionMap', nextId')
    BY <1>1, <1>5, <2>1, MapsAre, FreshOwner DEF IsolationInv
  <2>3. BackOwned(reverseMap', owner') /\ BackOld(reverseMap', nextId')
    BY <1>1, <1>5, <2>1, MapsAre, FreshOwner DEF IsolationInv
  <2>4. MapOwned(stale, owner') /\ MapOld(stale, nextId')
    BY <1>5, <2>1, MapsAre, FreshOwner DEF IsolationInv
  <2>5. MapOwned(stale', owner') /\ MapOld(stale', nextId')
    BY <1>3, <2>4, MapsAre, Dropped
  <2>. QED
    BY <2>2, <2>3, <2>5 DEF IsolationInv
<1>. QED
  BY <1>1, <1>4, <1>5 DEF RestoredIds

LEMMA HealIsolated ==
    ASSUME TypeOK, IsolationInv, NEW k \in Keys,
           HealRestored(k) \/ HealCreated(k) \/ HealFailed(k)
    PROVE  IsolationInv'
<1>1. CASE HealFailed(k)
  <2>1. /\ UNCHANGED <<sessionMap, reverseMap, owner, nextId>>
        /\ stale' = stale \/ stale' = [stale EXCEPT ![k] = None]
    BY <1>1 DEF HealFailed, idVars
  <2>2. MapOwned(stale, owner) /\ MapOld(stale, nextId)
    BY DEF IsolationInv
  <2>3. MapOwned(stale', owner) /\ MapOld(stale', nextId)
    <3>1. CASE stale' = stale
      BY <2>2, <3>1
    <3>2. CASE stale' = [stale EXCEPT ![k] = None]
      BY <2>2, <3>2, MapsAre, Dropped
    <3>. QED
      BY <2>1, <3>1, <3>2
  <2>. QED
    BY <2>1, <2>3 DEF IsolationInv
<1>. QED
  BY <1>1, CreatedIsolated, RestoredIsolated DEF HealCreated

LEMMA IsolationInvariant == Spec => []IsolationInv
<1>1. Init => IsolationInv
  <2>. SUFFICES ASSUME Init PROVE IsolationInv
    OBVIOUS
  <2>1. PICK stored \in [BootStale -> 2 .. FirstFree - 1] :
          /\ \A j, k \in BootStale : stored[j] = stored[k] => j = k
          /\ stale = [k \in AllKeys |-> IF k \in BootStale THEN stored[k] ELSE None]
          /\ owner = [i \in Ids |->
                        IF i = 1 THEN DefaultKey
                        ELSE IF \E k \in BootStale : stored[k] = i
                        THEN CHOOSE k \in BootStale : stored[k] = i
                        ELSE None]
    BY DEF Init
  <2>2. nextId = FirstFree /\ 1 \in Ids /\ 1 < nextId /\ owner[1] = DefaultKey
    BY <2>1 DEF Init, Ids
  <2>3. MapOwned(sessionMap, owner) /\ MapOld(sessionMap, nextId)
    BY <2>2 DEF Init, MapOwned, MapOld
  <2>4. BackOwned(reverseMap, owner) /\ BackOld(reverseMap, nextId)
    BY <2>2 DEF Init, BackOwned, BackOld
  <2>5. ASSUME NEW k \in AllKeys, stale[k] # None
        PROVE  stale[k] < nextId /\ owner[stale[k]] = k
    <3>1. k \in BootStale /\ stale[k] = stored[k]
      BY <2>1, <2>5
    <3>2. stored[k] \in Ids /\ stored[k] # 1 /\ stored[k] < nextId
      BY <2>1, <2>2, <3>1 DEF Ids
    <3>3. owner[stored[k]] = CHOOSE j \in BootStale : stored[j] = stored[k]
      BY <2>1, <3>1, <3>2
    <3>4. (CHOOSE j \in BootStale : stored[j] = stored[k]) = k
      BY <2>1, <3>1
    <3>. QED
      BY <3>1, <3>2, <3>3, <3>4
  <2>. QED
    BY <2>3, <2>4, <2>5 DEF IsolationInv, MapOwned, MapOld
<1>2. TypeOK /\ IsolationInv /\ [Next]_vars => IsolationInv'
  <2>. SUFFICES ASSUME TypeOK, IsolationInv, [Next]_vars PROVE IsolationInv'
    OBVIOUS
  <2>. USE DEF mapVars, idVars
  <2>0. CASE UNCHANGED <<mapVars, idVars>>
    BY <2>0 DEF IsolationInv
  <2>1. CASE \E k \in Keys : CreateSession(k)
    BY <2>0, <2>1, HealIsolated, CreatedIsolated DEF CreateSession
  <2>2. CASE \E k \in Keys : EnqueueDispatch(k)
    BY <2>0, <2>2, HealIsolated DEF EnqueueDispatch, PromptMapped, PromptHealed
  <2>3. CASE \E k \in Keys : NewCommand(k)
    <3>. PICK k \in Keys : NewCommand(k)
      BY <2>3
    <3>. DEFINE cleared == [i \in Ids |-> IF reverseMap[i] = k THEN None ELSE reverseMap[i]]
    <3>1. cleared \in Backs /\ BackOwned(cleared, owner) /\ BackOld(cleared, nextId)
      BY MapsAre DEF Backs, IsolationInv, BackOwned, BackOld
    <3>2. stale' = stale
      BY DEF NewCommand
    <3>. HIDE DEF cleared
    <3>3. CASE /\ nextId \in Ids
               /\ sessionMap' = [sessionMap EXCEPT ![k] = nextId]
               /\ reverseMap' = [cleared EXCEPT ![nextId] = k]
               /\ owner' = [owner EXCEPT ![nextId] = k]
               /\ nextId' = nextId + 1
      <4>1. MapOwned(sessionMap', owner') /\ MapOld(sessionMap', nextId')
        BY <3>3, MapsAre, FreshOwner DEF IsolationInv
      <4>2. BackOwned(reverseMap', owner') /\ BackOld(reverseMap', nextId')
        BY <3>1, <3>3, MapsAre, FreshOwner
      <4>3. MapOwned(stale', owner') /\ MapOld(stale', nextId')
        BY <3>2, <3>3, MapsAre, FreshOwner DEF IsolationInv
      <4>. QED
        BY <4>1, <4>2, <4>3 DEF IsolationInv
    <3>4. CASE /\ sessionMap' = [sessionMap EXCEPT ![k] = None]
               /\ reverseMap' = cleared
               /\ UNCHANGED idVars
      <4>1. MapOwned(sessionMap', owner') /\ MapOld(sessionMap', nextId')
        BY <3>4, MapsAre, Dropped DEF IsolationInv
      <4>. QED
        BY <3>1, <3>2, <3>4, <4>1 DEF IsolationInv
    <3>. QED
      BY <3>3, <3>4 DEF NewCommand, cleared
  <2>4. CASE RestartSessionFails
    <3>1. /\ UNCHANGED <<reverseMap, owner, nextId>> /\ stale' = Survivors
          /\ sessionMap' = [k \in AllKeys |-> None]
      BY <2>4 DEF RestartSessionFails
    <3>. QED
      BY <3>1, SurvivorsOwned, Dropped DEF IsolationInv
  <2>5. CASE RestoreSessions
    <3>1. PICK k0 \in {k \in AllKeys : Survivors[k] # None} :
            \E id \in RestoredIds(Survivors[k0]) :
               /\ sessionMap' = RestoredMap(k0, id)
               /\ owner' = [owner EXCEPT ![id] = k0]
               /\ nextId' = IF id = nextId THEN nextId + 1 ELSE nextId
      BY <2>5 DEF RestoreSessions
    <3>2. PICK id \in RestoredIds(Survivors[k0]) :
               /\ sessionMap' = [Survivors EXCEPT ![k0] = id]
               /\ owner' = [owner EXCEPT ![id] = k0]
               /\ nextId' = IF id = nextId THEN nextId + 1 ELSE nextId
      BY <3>1 DEF RestoredMap
    <3>3. stale' = [k \in AllKeys |-> None] /\ reverseMap' = reverseMap
      BY <2>5 DEF RestoreSessions
    <3>4. /\ Survivors \in Maps
          /\ MapOwned(Survivors, owner) /\ MapOld(Survivors, nextId)
      BY SurvivorsOwned
    <3>5. /\ Survivors[k0] \in Ids /\ Survivors[k0] < nextId
          /\ owner[Survivors[k0]] = k0
      BY <3>1, <3>4 DEF Maps, MapOwned, MapOld
    <3>6. MapOwned(stale', owner') /\ MapOld(stale', nextId')
      BY <3>3, Dropped
    <3>7. k0 \in AllKeys
      BY <3>1
    <3>8. CASE id = Survivors[k0]
      <4>1. owner' = owner /\ nextId' = nextId
        BY <3>2, <3>5, <3>8, MapsAre, KeptOwner
      <4>2. /\ MapOwned([Survivors EXCEPT ![k0] = id], owner)
            /\ MapOld([Survivors EXCEPT ![k0] = id], nextId)
        BY <3>4, <3>5, <3>8, <3>7, MapsAre, KeptOwner
      <4>. QED
        BY <3>2, <3>3, <3>6, <4>1, <4>2 DEF IsolationInv
    <3>9. CASE id = nextId /\ nextId \in Ids
      <4>1. owner' = [owner EXCEPT ![nextId] = k0] /\ nextId' = nextId + 1
        BY <3>2, <3>9
      <4>2. /\ MapOwned([Survivors EXCEPT ![k0] = nextId], owner')
            /\ MapOld([Survivors EXCEPT ![k0] = nextId], nextId')
        BY <3>4, <3>9, <3>7, <4>1, MapsAre, FreshOwner
      <4>3. BackOwned(reverseMap', owner') /\ BackOld(reverseMap', nextId')
        BY <3>3, <3>9, <4>1, MapsAre, FreshOwner DEF IsolationInv
      <4>. QED
        BY <3>2, <3>6, <3>9, <4>2, <4>3 DEF IsolationInv
    <3>. QED
      BY <3>2, <3>8, <3>9 DEF RestoredIds
  <2>6. CASE StartFreshSession
    <3>1. /\ nextId \in Ids /\ nextId' = nextId + 1
          /\ sessionMap' = [k \in AllKeys |-> IF k = DefaultKey THEN nextId ELSE None]
          /\ reverseMap' = [i \in Ids |-> IF i = nextId THEN DefaultKey ELSE None]
          /\ stale' = Survivors
          /\ owner' = [owner EXCEPT ![nextId] = DefaultKey]
      BY <2>6 DEF StartFreshSession
    <3>2. owner'[nextId] = DefaultKey /\ nextId < nextId' /\ nextId # None
      BY <3>1, MapsAre DEF Backs, Ids
    <3>3. MapOwned(sessionMap', owner') /\ MapOld(sessionMap', nextId')
      BY <3>1, <3>2 DEF MapOwned, MapOld
    <3>4. BackOwned(reverseMap', owner') /\ BackOld(reverseMap', nextId')
      BY <3>1, <3>2 DEF BackOwned, BackOld
    <3>5. MapOwned(stale', owner') /\ MapOld(stale', nextId')
      BY <3>1, SurvivorsOwned, MapsAre, FreshOwner
    <3>. QED
      BY <3>3, <3>4, <3>5 DEF IsolationInv
  <2>7. CASE FinishIdle \/ FinishUnmapped
    <3>1. current.key \in Keys /\ ExpireSession(current.key) /\ UNCHANGED idVars
      BY <2>7 DEF FinishIdle, FinishUnmapped, TypeOK, TaskType, Completions
    <3>2. CASE UNCHANGED mapVars
      BY <2>0, <3>1, <3>2
    <3>3. CASE /\ sessionMap[current.key] # None
               /\ sessionMap' = [sessionMap EXCEPT ![current.key] = None]
               /\ stale' = [stale EXCEPT ![current.key] = sessionMap[current.key]]
               /\ reverseMap' = [reverseMap EXCEPT ![sessionMap[current.key]] = None]
      <4>1. /\ sessionMap[current.key] \in Ids /\ sessionMap[current.key] < nextId
            /\ owner[sessionMap[current.key]] = current.key
        BY <3>1, <3>3, MapsAre DEF Maps, IsolationInv, MapOwned, MapOld
      <4>2. MapOwned(stale', owner) /\ MapOld(stale', nextId)
        BY <3>1, <3>3, <4>1, MapsAre, KeptOwner DEF IsolationInv
      <4>3. MapOwned(sessionMap', owner) /\ MapOld(sessionMap', nextId)
        BY <3>1, <3>3, MapsAre, Dropped DEF IsolationInv
      <4>4. BackOwned(reverseMap', owner) /\ BackOld(reverseMap', nextId)
        BY <3>3, <4>1, MapsAre, Dropped DEF IsolationInv
      <4>. QED
        BY <3>1, <4>2, <4>3, <4>4 DEF IsolationInv
    <3>. QED
      BY <3>1, <3>2, <3>3 DEF ExpireSession
  <2>8. CASE FinishNext
    BY <2>0, <2>8 DEF FinishNext, PromptMapped
  <2>9. CASE \E k \in Keys : EnqueueBehind(k) \/ CancelCommand(k)
    BY <2>0, <2>9 DEF EnqueueBehind, CancelCommand
  <2>10. CASE \E p \in running : \E type \in {"chunk", "result"} : AgentUpdates(p, type)
    BY <2>0, <2>10 DEF AgentUpdates
  <2>11. CASE \E p \in running : AgentResponds(p)
    BY <2>0, <2>11 DEF AgentResponds
  <2>12. CASE \E t \in tasks : TaskLost(t) \/ TaskTimesOut(t)
    BY <2>0, <2>12 DEF TaskLost, TaskTimesOut
  <2>13. CASE AgentDies \/ ReaderEof \/ ForwardUpdate \/ CrashDisables \/ TakeCompletion
    BY <2>0, <2>13 DEF AgentDies, ReaderEof, ForwardUpdate, CrashDisables, TakeCompletion
  <2>14. CASE RespawnFails \/ InitializeFails
    BY <2>0, <2>14 DEF RespawnFails, InitializeFails
  <2>15. CASE UNCHANGED vars
    BY <2>0, <2>15 DEF vars
  <2>. QED
    BY <2>1, <2>2, <2>3, <2>4, <2>5, <2>6, <2>7, <2>8, <2>9, <2>10, <2>11, <2>12,
       <2>13, <2>14, <2>15
    DEF Next, Quiescent
<1>. QED
  BY <1>1, <1>2, TypeCorrect, PTL DEF Spec

(* An ACP session id is never mapped to, kept for or routed to a session   *)
(* key other than the one it was created for.                              *)
THEOREM IsolationHolds == Spec => []Isolation
<1>1. IsolationInv => Isolation
  BY DEF IsolationInv, MapOwned, BackOwned, Isolation
<1>. QED
  BY <1>1, IsolationInvariant, PTL

-----------------------------------------------------------------------------
(* The sessions and their prompts.  A step that matters to who serves an   *)
(* active session is one of five moves.                                    *)

Started(k) == /\ sq'.active = sq.active \cup {k}
              /\ \/ \E inc, tkt : tasks' = tasks \cup {[key |-> k, inc |-> inc, tkt |-> tkt]} /\ failed' = failed
                 \/ tasks' = tasks /\ failed' = failed \cup {k}
(* A session is touched by nobody, or idled by a platform command.         *)
QuietMove ==
    /\ UNCHANGED <<tasks, completions, current>>
    /\ sq'.active \subseteq sq.active /\ sq.active \subseteq sq'.active \cup interrupted'
    /\ failed \subseteq failed' /\ interrupted \subseteq interrupted'
(* A task ends and leaves its completion.                                  *)
EndMove(t, kind) == /\ TaskEnds(t, kind)
                    /\ UNCHANGED <<sq, current, failed, interrupted>>
TakeMove == /\ current = None /\ completions # <<>>
            /\ current' = Head(completions) /\ completions' = Tail(completions)
            /\ UNCHANGED <<sq, tasks, failed, interrupted>>
(* An idle session is dispatched; a completion ends, or starts the next.   *)
DispatchMove(k) == /\ ~IsActive(sq, k) /\ Started(k)
                   /\ UNCHANGED <<completions, current, interrupted>>
FinishMove(k) == /\ current # None /\ current.key = k /\ current' = None
                 /\ UNCHANGED <<completions, interrupted>>
                 /\ \/ sq'.active = sq.active \ {k} /\ UNCHANGED <<tasks, failed>>
                    \/ sq'.active = sq.active /\ UNCHANGED tasks /\ failed' = failed \cup {k}
                    \/ /\ sq'.active = sq.active /\ UNCHANGED failed
                       /\ \E inc, tkt : tasks' = tasks \cup {[key |-> k, inc |-> inc, tkt |-> tkt]}

LEMMA ActiveOf ==
    ASSUME NEW q \in QueueValues(Msgs), NEW k \in Keys
    PROVE  /\ \A m \in Msgs : IsActive(q, k) => Push(q, k, m).active = q.active
           /\ MarkIdle(q, k).active = IF q.queues[k] = <<>> THEN q.active \ {k} ELSE q.active
           /\ DrainQueued(MarkIdle(q, k), k).active = MarkIdle(q, k).active
           /\ \A m \in Msgs : ~IsActive(q, k) => FlushPending(PushOnly(q, k, m), k).active = q.active \cup {k}
<1>1. \A m \in Msgs : ~IsActive(q, k) => FlushPending(PushOnly(q, k, m), k).active = q.active \cup {k}
  BY DispatchBatch
<1>. QED
  BY <1>1 DEF Push, MarkIdle, DrainQueued, WithQueue

(* A prompt that is sent leaves one task; one that is not is remembered.   *)
LEMMA PromptLeaves ==
    ASSUME NEW k, NEW batch, PromptMapped(k, batch) \/ PromptHealed(k, batch)
    PROVE  \/ \E inc, tkt : tasks' = tasks \cup {[key |-> k, inc |-> inc, tkt |-> tkt]} /\ failed' = failed
           \/ tasks' = tasks /\ failed' = failed \cup {k}
  BY DEF PromptMapped, PromptHealed, PromptSent

LEMMA PromptMoves ==
    ASSUME TypeOK, [Next]_vars
    PROVE  \/ QuietMove
           \/ \E t \in tasks, kind \in Kinds : EndMove(t, kind)
           \/ TakeMove
           \/ \E k \in Keys : DispatchMove(k) \/ FinishMove(k)
<1>. USE DEF taskVars, loseVars
<1>0. sq \in QueueValues(Msgs)
  BY QueueTyped DEF TypeOK
<1>1. ASSUME NEW k \in Keys, CreateSession(k) PROVE QuietMove
  BY <1>1 DEF CreateSession, QuietMove
<1>2. ASSUME NEW k \in Keys, EnqueueBehind(k) PROVE QuietMove
  <2>1. sq'.active = sq.active
    BY <1>0, <1>2, ActiveOf DEF EnqueueBehind
  <2>. QED
    BY <1>2, <2>1 DEF EnqueueBehind, QuietMove
<1>3. ASSUME NEW k \in Keys, EnqueueDispatch(k) PROVE DispatchMove(k)
  <2>0. ~IsActive(sq, k) /\ nextMsg \in Msgs /\ sq' = FlushPending(PushOnly(sq, k, nextMsg), k)
    BY <1>3 DEF EnqueueDispatch
  <2>1. sq'.active = sq.active \cup {k}
    <3>1. \A m \in Msgs : FlushPending(PushOnly(sq, k, m), k).active = sq.active \cup {k}
      BY <1>0, <2>0, ActiveOf
    <3>. QED
      BY <2>0, <3>1
  <2>2. PICK batch : PromptMapped(k, batch) \/ PromptHealed(k, batch)
    BY <1>3 DEF EnqueueDispatch
  <2>. QED
    BY <1>3, <2>1, <2>2, PromptLeaves DEF EnqueueDispatch, DispatchMove, Started
<1>4. ASSUME NEW k \in Keys, NewCommand(k) \/ CancelCommand(k) PROVE QuietMove
  <2>1. CASE sq' = sq /\ UNCHANGED interrupted
    BY <1>4, <2>1 DEF NewCommand, CancelCommand, QuietMove
  <2>2. CASE MarkIdleDiscarding(k)
    <3>1. sq'.active = sq.active \ {k} \/ sq'.active = sq.active
      BY <1>0, <2>2, ActiveOf DEF MarkIdleDiscarding
    <3>. QED
      BY <1>4, <2>2, <3>1 DEF NewCommand, CancelCommand, MarkIdleDiscarding, QuietMove
  <2>. QED
    BY <1>4, <2>1, <2>2 DEF NewCommand, CancelCommand
<1>5. ASSUME NEW p \in running, NEW type, AgentUpdates(p, type) PROVE QuietMove
  BY <1>5 DEF AgentUpdates, QuietMove
<1>6. ASSUME NEW p \in running, AgentResponds(p)
      PROVE  QuietMove \/ \E t \in tasks, kind \in Kinds : EndMove(t, kind)
  BY <1>6 DEF AgentResponds, QuietMove, EndMove, Kinds
<1>7. ASSUME NEW t \in tasks, TaskLost(t) \/ TaskTimesOut(t)
      PROVE  \E u \in tasks, kind \in Kinds : EndMove(u, kind)
  BY <1>7 DEF TaskLost, TaskTimesOut, EndMove, Kinds
<1>8. CASE AgentDies \/ ReaderEof \/ ForwardUpdate \/ CrashDisables \/ CrashRestarts
  BY <1>8 DEF AgentDies, ReaderEof, ForwardUpdate, CrashDisables, CrashRestarts, QuietMove
<1>9. CASE TakeCompletion
  BY <1>9 DEF TakeCompletion, TakeMove
<1>10. CASE FinishIdle \/ FinishNext \/ FinishUnmapped
  <2>1. current # None /\ current.key \in Keys /\ current' = None /\ UNCHANGED <<completions, interrupted>>
    BY <1>10 DEF FinishIdle, FinishNext, FinishUnmapped, CompleteSession, TypeOK, TaskType, Completions
  <2>2. PICK k \in Keys : k = current.key
    BY <2>1
  <2>3. CASE FinishIdle
    <3>1. sq'.active = sq.active \ {k}
      BY <1>0, <2>2, <2>3, ActiveOf DEF FinishIdle
    <3>. QED
      BY <2>1, <2>2, <2>3, <3>1 DEF FinishIdle, FinishMove
  <2>4. CASE FinishNext
    <3>0. sq.queues[k] # <<>> /\ sq' = DrainQueued(MarkIdle(sq, k), k)
      BY <2>2, <2>4 DEF FinishNext
    <3>1. sq'.active = sq.active
      BY <1>0, <3>0, ActiveOf
    <3>2. PICK batch : PromptMapped(k, batch)
      BY <2>2, <2>4 DEF FinishNext
    <3>. QED
      BY <2>1, <2>2, <3>1, <3>2, PromptLeaves DEF FinishMove
  <2>5. CASE FinishUnmapped
    <3>0. sq.queues[k] # <<>> /\ sq' = DrainQueued(MarkIdle(sq, k), k)
      BY <2>2, <2>5 DEF FinishUnmapped
    <3>1. sq'.active = sq.active
      BY <1>0, <3>0, ActiveOf
    <3>. QED
      BY <2>1, <2>2, <2>5, <3>1 DEF FinishUnmapped, FinishMove
  <2>. QED
    BY <1>10, <2>3, <2>4, <2>5
<1>11. CASE UNCHANGED vars
  BY <1>11 DEF vars, QuietMove
<1>. QED
  BY <1>1, <1>2, <1>3, <1>4, <1>5, <1>6, <1>7, <1>8, <1>9, <1>10, <1>11
  DEF Next, Quiescent, RespawnFails, InitializeFails, RestartSessionFails,
      RestoreSessions, StartFreshSession
(* The prompt of k at each of the places where it can be.                  *)
HasTask(k)       == \E t \in tasks : t.key = k
HasCompletion(k) == \E i \in 1 .. Len(completions) : completions[i].key = k
HasCurrent(k)    == current # None /\ current.key = k
ServedBy(k) ==
    /\ HasTask(k) \/ HasCompletion(k) \/ HasCurrent(k) => IsActive(sq, k)
    /\ \A t, u \in tasks : t.key = k /\ u.key = k => t = u
    /\ \A i, j \in 1 .. Len(completions) : completions[i].key = k /\ completions[j].key = k => i = j
    /\ ~ (HasTask(k) /\ HasCompletion(k))
    /\ HasCurrent(k) => ~HasTask(k) /\ ~HasCompletion(k)
ServedInv ==
    /\ \A k \in Keys : IsActive(sq, k) => HasTask(k) \/ HasCompletion(k) \/ HasCurrent(k) \/ k \in failed
    /\ \A k \in Keys \ interrupted : ServedBy(k)

LEMMA ServedIs == TypeOK => (ServedInv <=> ActiveIsServed)
<1>. SUFFICES ASSUME TypeOK PROVE ServedInv <=> ActiveIsServed
  OBVIOUS
<1>1. DOMAIN completions = 1 .. Len(completions)
  BY DEF TypeOK, TaskType
<1>2. ASSUME NEW k PROVE /\ HasTask(k) <=> OutstandingTasks(k) # {}
                         /\ HasCompletion(k) <=> OutstandingCompletions(k) # {}
                         /\ \A t : t \in OutstandingTasks(k) <=> t \in tasks /\ t.key = k
                         /\ \A i : i \in OutstandingCompletions(k)
                                     <=> i \in 1 .. Len(completions) /\ completions[i].key = k
  BY <1>1 DEF HasTask, HasCompletion, OutstandingTasks, OutstandingCompletions
<1>3. ASSUME NEW k PROVE Outstanding(k) <=> HasTask(k) \/ HasCompletion(k) \/ HasCurrent(k)
  BY <1>2 DEF Outstanding, HasCurrent
<1>4. ASSUME NEW k \in Keys
      PROVE  ServedBy(k) <=> /\ Outstanding(k) => IsActive(sq, k)
                             /\ \A t, u \in OutstandingTasks(k) : t = u
                             /\ \A i, j \in OutstandingCompletions(k) : i = j
                             /\ ~ (OutstandingTasks(k) # {} /\ OutstandingCompletions(k) # {})
                             /\ current # None /\ current.key = k =>
                                   OutstandingTasks(k) = {} /\ OutstandingCompletions(k) = {}
  <2>1. (\A t, u \in OutstandingTasks(k) : t = u) <=> \A t, u \in tasks : t.key = k /\ u.key = k => t = u
    <3>1. \A t : t \in OutstandingTasks(k) <=> t \in tasks /\ t.key = k
      BY <1>2
    <3>. QED
      BY <3>1
  <2>2. (\A i, j \in OutstandingCompletions(k) : i = j)
            <=> \A i, j \in 1 .. Len(completions) : completions[i].key = k /\ completions[j].key = k => i = j
    <3>1. \A i : i \in OutstandingCompletions(k)
                    <=> i \in 1 .. Len(completions) /\ completions[i].key = k
      BY <1>2
    <3>. QED
      BY <3>1, Zenon
  <2>. QED
    BY <1>2, <1>3, <2>1, <2>2 DEF ServedBy, HasCurrent
<1>. QED
  BY <1>3, <1>4 DEF ServedInv, ActiveIsServed, SerialPrompts

LEMMA ServedStep == TypeOK /\ ServedInv /\ [Next]_vars => ServedInv'
<1>. SUFFICES ASSUME TypeOK, ServedInv, [Next]_vars PROVE ServedInv'
  OBVIOUS
<1>. USE DEF HasTask, HasCompletion, HasCurrent
<1>0. completions \in Seq(Completions) /\ Len(completions) \in Nat /\ tasks \subseteq PromptTasks
      /\ current \in Completions \cup {None}
  BY DEF TypeOK, TaskType
<1>1. CASE QuietMove
  BY <1>1 DEF QuietMove, ServedInv, ServedBy, IsActive
<1>2. ASSUME NEW t \in tasks, NEW kind \in Kinds, EndMove(t, kind) PROVE ServedInv'
  <2>1. PICK c \in Completions : c.key = t.key /\ completions' = Append(completions, c)
    <3>1. [key |-> t.key, kind |-> kind, tkt |-> t.tkt] \in Completions
      BY <1>0 DEF PromptTasks, Completions
    <3>. QED
      BY <1>2, <3>1 DEF EndMove, TaskEnds
  <2>2. /\ Len(completions') = Len(completions) + 1
        /\ \A i \in 1 .. Len(completions) : completions'[i] = completions[i]
        /\ completions'[Len(completions) + 1].key = t.key
    BY <1>0, <2>1
  <2>3. tasks' = tasks \ {t} /\ UNCHANGED <<sq, current, failed, interrupted>>
    BY <1>2 DEF EndMove, TaskEnds
  <2>4. \A k \in Keys : HasCompletion(k)' <=> HasCompletion(k) \/ k = t.key
    <3>. SUFFICES ASSUME NEW k \in Keys PROVE HasCompletion(k)' <=> HasCompletion(k) \/ k = t.key
      OBVIOUS
    <3>1. ASSUME HasCompletion(k)' PROVE HasCompletion(k) \/ k = t.key
      BY <1>0, <2>2, <3>1
    <3>2. ASSUME HasCompletion(k) PROVE HasCompletion(k)'
      BY <1>0, <2>2, <3>2
    <3>3. ASSUME k = t.key PROVE HasCompletion(k)'
      BY <1>0, <2>2, <3>3
    <3>. QED
      BY <3>1, <3>2, <3>3
  <2>5. ASSUME NEW k \in Keys PROVE HasTask(k) => HasTask(k)' \/ HasCompletion(k)'
    BY <2>3, <2>4
  <2>6. ASSUME NEW k \in Keys, ServedBy(k) PROVE ServedBy(k)'
    <3>1. CASE k # t.key
      <4>1. HasTask(k)' <=> HasTask(k)
        BY <2>3, <3>1
      <4>2. \A i, j \in 1 .. Len(completions') : completions'[i].key = k /\ completions'[j].key = k => i = j
        BY <1>0, <2>2, <2>6, <3>1 DEF ServedBy
      <4>. QED
        BY <2>3, <2>4, <2>6, <3>1, <4>1, <4>2 DEF ServedBy, IsActive
    <3>2. CASE k = t.key
      <4>1. HasTask(k) /\ ~HasCompletion(k) /\ ~HasCurrent(k) /\ IsActive(sq, k) /\ ~HasTask(k)'
        BY <2>3, <2>6, <3>2 DEF ServedBy
      <4>2. \A i, j \in 1 .. Len(completions') : completions'[i].key = k /\ completions'[j].key = k => i = j
        BY <1>0, <2>2, <4>1
      <4>. QED
        BY <2>3, <4>1, <4>2 DEF ServedBy, IsActive
    <3>. QED
      BY <3>1, <3>2
  <2>. QED
    BY <2>3, <2>4, <2>5, <2>6 DEF ServedInv, IsActive
<1>3. CASE TakeMove
  <2>1. /\ current = None /\ Len(completions) # 0 /\ Len(completions') = Len(completions) - 1
        /\ current' = completions[1] /\ completions[1] \in Completions
        /\ \A i \in 1 .. Len(completions') : completions'[i] = completions[i + 1] /\ i + 1 \in 1 .. Len(completions)
    BY <1>0, <1>3, EmptySeq, HeadTailProperties DEF TakeMove
  <2>2. UNCHANGED <<sq, tasks, failed, interrupted>> /\ current' # None
    BY <1>3, <2>1, NoneAssumption DEF TakeMove
  <2>3. ASSUME NEW k \in Keys PROVE HasCompletion(k) <=> HasCompletion(k)' \/ HasCurrent(k)'
    <3>1. ASSUME NEW i \in 1 .. Len(completions), completions[i].key = k PROVE HasCompletion(k)' \/ HasCurrent(k)'
      <4>1. CASE i = 1
        BY <2>1, <2>2, <3>1, <4>1
      <4>2. CASE i # 1
        <5>1. i - 1 \in 1 .. Len(completions') /\ (i - 1) + 1 = i
          BY <1>0, <2>1, <4>2
        <5>2. completions'[i - 1] = completions[i]
          BY <2>1, <5>1
        <5>. QED
          BY <3>1, <5>1, <5>2
      <4>. QED
        BY <4>1, <4>2
    <3>2. HasCurrent(k)' => HasCompletion(k)
      BY <1>0, <2>1, <2>2
    <3>3. HasCompletion(k)' => HasCompletion(k)
      BY <2>1
    <3>. QED
      BY <3>1, <3>2, <3>3
  <2>4. ASSUME NEW k \in Keys, ServedBy(k) PROVE ServedBy(k)'
    <3>1. \A i, j \in 1 .. Len(completions') : completions'[i].key = k /\ completions'[j].key = k => i = j
      <4>. SUFFICES ASSUME NEW i \in 1 .. Len(completions'), NEW j \in 1 .. Len(completions'),
                           completions'[i].key = k, completions'[j].key = k
                    PROVE  i = j
        OBVIOUS
      <4>1. i + 1 = j + 1
        BY <2>1, <2>4 DEF ServedBy
      <4>. QED
        BY <4>1
    <3>2. ~ (HasCurrent(k)' /\ HasCompletion(k)')
      <4>. SUFFICES ASSUME HasCurrent(k)', NEW i \in 1 .. Len(completions'), completions'[i].key = k PROVE FALSE
        OBVIOUS
      <4>1. completions[1].key = k /\ completions[i + 1].key = k /\ 1 \in 1 .. Len(completions)
        BY <1>0, <2>1
      <4>2. 1 = i + 1
        BY <2>1, <2>4, <4>1 DEF ServedBy
      <4>. QED
        BY <4>2
    <3>. QED
      BY <2>2, <2>3, <2>4, <3>1, <3>2 DEF ServedBy, IsActive
  <2>. QED
    BY <2>1, <2>2, <2>3, <2>4 DEF ServedInv, IsActive
<1>4. ASSUME NEW k \in Keys, DispatchMove(k) PROVE ServedInv'
  <2>1. UNCHANGED <<completions, current, interrupted>> /\ sq'.active = sq.active \cup {k} /\ ~IsActive(sq, k)
        /\ tasks \subseteq tasks' /\ failed \subseteq failed'
    BY <1>4 DEF DispatchMove, Started
  <2>2. \A t \in tasks' \ tasks : t.key = k
    BY <1>4 DEF DispatchMove, Started
  <2>3. \A t, u \in tasks' \ tasks : t = u
    BY <1>4 DEF DispatchMove, Started
  <2>4. HasTask(k)' \/ k \in failed'
    <3>1. CASE tasks' = tasks /\ failed' = failed \cup {k}
      BY <3>1
    <3>2. ASSUME NEW inc, NEW tkt, tasks' = tasks \cup {[key |-> k, inc |-> inc, tkt |-> tkt]} PROVE HasTask(k)'
      BY <3>2, [key |-> k, inc |-> inc, tkt |-> tkt].key = k
    <3>. QED
      BY <1>4, <3>1, <3>2 DEF DispatchMove, Started
  <2>5. ASSUME NEW j \in Keys, ServedBy(j) PROVE ServedBy(j)'
    <3>1. CASE j # k
      BY <2>1, <2>2, <2>5, <3>1 DEF ServedBy, IsActive
    <3>2. CASE j = k
      <4>1. ~HasTask(k) /\ ~HasCompletion(k) /\ ~HasCurrent(k)
        BY <2>1, <2>5, <3>2 DEF ServedBy
      <4>. QED
        BY <2>1, <2>3, <3>2, <4>1 DEF ServedBy, IsActive
    <3>. QED
      BY <3>1, <3>2
  <2>. QED
    BY <2>1, <2>4, <2>5 DEF ServedInv, IsActive
<1>5. ASSUME NEW k \in Keys, FinishMove(k) PROVE ServedInv'
  <2>1. current # None /\ current.key = k /\ current' = None /\ UNCHANGED <<completions, interrupted>>
        /\ tasks \subseteq tasks' /\ failed \subseteq failed' /\ sq'.active \subseteq sq.active
        /\ sq.active \subseteq sq'.active \cup {k}
    BY <1>5 DEF FinishMove
  <2>2. \A t \in tasks' \ tasks : t.key = k
    BY <1>5 DEF FinishMove
  <2>3. \A t, u \in tasks' \ tasks : t = u
    BY <1>5 DEF FinishMove
  <2>4. k \in sq'.active => HasTask(k)' \/ k \in failed'
    <3>1. ASSUME NEW inc, NEW tkt, tasks' = tasks \cup {[key |-> k, inc |-> inc, tkt |-> tkt]} PROVE HasTask(k)'
      BY <3>1, [key |-> k, inc |-> inc, tkt |-> tkt].key = k
    <3>. QED
      BY <1>5, <3>1 DEF FinishMove
  <2>5. HasTask(k)' => HasTask(k) \/ sq'.active = sq.active
    BY <1>5 DEF FinishMove
  <2>6. ASSUME NEW j \in Keys, ServedBy(j) PROVE ServedBy(j)'
    <3>1. CASE j # k
      BY <2>1, <2>2, <2>6, <3>1 DEF ServedBy, IsActive
    <3>2. CASE j = k
      <4>1. ~HasTask(k) /\ ~HasCompletion(k) /\ IsActive(sq, k)
        BY <2>1, <2>6, <3>2 DEF ServedBy
      <4>. QED
        BY <2>1, <2>3, <2>5, <3>2, <4>1 DEF ServedBy, IsActive
    <3>. QED
      BY <3>1, <3>2
  <2>. QED
    BY <2>1, <2>4, <2>6 DEF ServedInv, IsActive
<1>. QED
  BY <1>1, <1>2, <1>3, <1>4, <1>5, PromptMoves

LEMMA ServedInvariant == Spec => []ServedInv
<1>1. Init => ServedInv
  BY DEF Init, NewQueue, ServedInv, ServedBy, HasTask, HasCompletion, HasCurrent, IsActive
<1>. QED
  BY <1>1, ServedStep, TypeCorrect, PTL DEF Spec

(* ActiveIsServed: a session is active exactly as long as one prompt of it *)
(* is somewhere between its task and the end of handle_prompt_completion,  *)
(* unless prompt_session failed or a platform command interfered, so no    *)
(* crash, timeout or late response lets two prompts of a session run side  *)
(* by side.                                                                *)
THEOREM ActiveIsServedHolds == Spec => []ActiveIsServed
<1>1. TypeOK /\ ServedInv => ActiveIsServed
  BY ServedIs
<1>. QED
  BY <1>1, ServedInvariant, TypeCorrect, PTL
-----------------------------------------------------------------------------
(* The mailbox.  Without deaths, refusals and platform commands a session, *)
(* once there, stays mapped to an id the agent knows, so a completion is   *)
(* never expired and a batch always has an agent to go to.                 *)

Calm == MaxDeaths = 0 /\ MaxCommands = 0 /\ ~Faulty

MailboxSteps == Mailbox!Init /\ [][Mailbox!Next]_(Mailbox!mvars)

Mapped(k) == k \in Keys /\ sessionMap[k] # None
CalmInv ==
    /\ Calm /\ CanAnswer /\ interrupted = {}
    /\ \A k \in Keys : Mapped(k) => sessionMap[k] \in known
    /\ \A k \in routed : Mapped(k)
    /\ \A p \in running : p.id \in known
    /\ \A t \in tasks : Mapped(t.key)
    /\ \A i \in 1 .. Len(completions) : Mapped(completions[i].key) /\ completions[i].kind # "expired"
    /\ current # None => Mapped(current.key) /\ current.kind # "expired"

(* In a calm run nothing crashes and no command comes.                     *)
LEMMA CalmSteps ==
    ASSUME TypeOK, ExitNoticeFresh, CalmInv, [Next]_vars
    PROVE  \/ \E k \in Keys : CreateSession(k) \/ EnqueueBehind(k) \/ EnqueueDispatch(k)
           \/ \E p \in running : AgentResponds(p) \/ \E type \in {"chunk", "result"} : AgentUpdates(p, type)
           \/ \E t \in tasks : TaskLost(t) \/ TaskTimesOut(t)
           \/ ForwardUpdate \/ TakeCompletion \/ FinishIdle \/ FinishNext
           \/ UNCHANGED vars
<1>1. MaxDeaths = 0 /\ MaxCommands = 0 /\ alive /\ commands \in 0 .. MaxCommands /\ crashes \in Nat
  BY DEF CalmInv, Calm, CanAnswer, TypeOK, ObserverType, ConnType
<1>2. ~AgentDies /\ \A k \in Keys : ~NewCommand(k) /\ ~CancelCommand(k)
  BY <1>1 DEF AgentDies, NewCommand, CancelCommand
<1>3. ~eof /\ ~ExitReceived
  <2>1. ~eof /\ ExitPositions = {}
    BY <1>1 DEF ExitNoticeFresh
  <2>2. incoming # <<>> => Head(incoming) = incoming[1] /\ 1 \in DOMAIN incoming
    BY DEF TypeOK, ConnType
  <2>. QED
    BY <2>1, <2>2 DEF ExitReceived, ExitPositions
<1>4. ~ReaderEof /\ ~CrashDisables /\ ~CrashRestarts
  BY <1>3 DEF ReaderEof, CrashDisables, CrashRestarts
<1>5. ~FinishUnmapped
  BY DEF FinishUnmapped, CalmInv, Mapped
<1>. QED
  BY <1>2, <1>4, <1>5 DEF Next, Quiescent, RespawnFails, InitializeFails, RestartSessionFails,
                          RestoreSessions, StartFreshSession

(* A session that is created or restored is one the agent knows.           *)
LEMMA CalmHeals ==
    ASSUME TypeOK, CalmInv, NEW k \in Keys, HealRestored(k) \/ HealCreated(k) \/ SessionCreated(k)
    PROVE  /\ known \subseteq known' /\ sessionMap'[k] # None
           /\ \A j \in Keys : j # k => sessionMap'[j] = sessionMap[j]
           /\ sessionMap'[k] \in known'
<1>1. sessionMap \in [AllKeys -> Ids \cup {None}]
  BY DEF TypeOK, MapType
<1>2. PICK id : sessionMap' = [sessionMap EXCEPT ![k] = id] /\ known' = known \cup {id}
  BY DEF HealRestored, HealCreated, SessionCreated, Booked
<1>3. sessionMap'[k] = id /\ \A j \in Keys : j # k => sessionMap'[j] = sessionMap[j]
  BY <1>1, <1>2
<1>4. sessionMap'[k] \in Ids
  <2>1. ASSUME SessionCreated(k) PROVE sessionMap'[k] \in Ids
    BY <2>1, CreatedTypes
  <2>2. ASSUME HealRestored(k) PROVE sessionMap'[k] \in Ids
    BY <2>2, RestoredTypes
  <2>. QED
    BY <2>1, <2>2 DEF HealCreated
<1>5. None \notin Ids
  BY DEF Ids
<1>. QED
  BY <1>2, <1>3, <1>4, <1>5

LEMMA CalmStep == TypeOK /\ ExitNoticeFresh /\ CalmInv /\ [Next]_vars => CalmInv'
<1>. SUFFICES ASSUME TypeOK, ExitNoticeFresh, CalmInv, [Next]_vars PROVE CalmInv'
  OBVIOUS
<1>. USE DEF connVars, mapVars, flagVars, agentVars, taskVars, loseVars, idVars
<1>0. completions \in Seq(Completions) /\ Len(completions) \in Nat /\ tasks \subseteq PromptTasks
      /\ running \subseteq Prompts /\ current \in Completions \cup {None}
  BY DEF TypeOK, TaskType
<1>1. ASSUME NEW k \in Keys, CreateSession(k) PROVE CalmInv'
  <2>1. UNCHANGED <<conn, alive, interrupted, running, tasks, completions, current>>
    BY <1>1 DEF CreateSession
  <2>2. CASE HealRestored(k) \/ HealCreated(k) \/ SessionCreated(k)
    <3>1. /\ known \subseteq known' /\ sessionMap'[k] # None
          /\ \A j \in Keys : j # k => sessionMap'[j] = sessionMap[j]
          /\ sessionMap'[k] \in known'
      BY <2>2, CalmHeals
    <3>2. \A j \in Keys : (Mapped(j) => Mapped(j)') /\ (Mapped(j)' => sessionMap'[j] \in known')
      BY <3>1 DEF Mapped, CalmInv
    <3>3. \A j : Mapped(j) => Mapped(j)'
      BY <3>2 DEF Mapped
    <3>4. \A j \in routed' : Mapped(j)'
      <4>1. routed' \subseteq routed \cup {k}
        BY <1>1 DEF CreateSession
      <4>2. Mapped(k)'
        BY <3>1 DEF Mapped
      <4>. QED
        BY <3>3, <4>1, <4>2 DEF CalmInv
    <3>. QED
      BY <2>1, <3>1, <3>2, <3>3, <3>4 DEF CalmInv, CanAnswer, Calm
  <2>3. CASE HealFailed(k)
    BY <2>3 DEF HealFailed, MayRefuse, CalmInv, Calm
  <2>4. CASE sessionMap[k] # None /\ UNCHANGED <<sessionMap, known>> /\ routed' = routed \cup {k}
    BY <2>1, <2>4 DEF CalmInv, CanAnswer, Calm, Mapped
  <2>. QED
    BY <1>1, <2>2, <2>3, <2>4 DEF CreateSession
<1>2. ASSUME UNCHANGED <<conn, alive, interrupted, sessionMap, known, routed>>
      PROVE  /\ \A j : Mapped(j)' <=> Mapped(j)
             /\ Calm' /\ CanAnswer' /\ interrupted' = {}
             /\ \A k \in Keys : Mapped(k)' => sessionMap'[k] \in known'
             /\ \A k \in routed' : Mapped(k)'
  BY <1>2 DEF CalmInv, Calm, CanAnswer, Mapped
<1>3. ASSUME NEW k \in Keys, EnqueueBehind(k) PROVE CalmInv'
  BY <1>2, <1>3 DEF EnqueueBehind, CalmInv
<1>4. ASSUME NEW k, Mapped(k), NEW batch, PromptMapped(k, batch), UNCHANGED <<conn, alive, interrupted, routed, completions>>,
             current' = None \/ current' = current
      PROVE  CalmInv'
  <2>1. UNCHANGED <<sessionMap, known>> /\ PromptSent(k, sessionMap[k], batch)
    BY <1>4 DEF PromptMapped, CalmInv
  <2>2. \A p \in running' \ running : p.id = sessionMap[k]
    BY <2>1 DEF PromptSent
  <2>3. \A t \in tasks' \ tasks : t.key = k
    BY <2>1 DEF PromptSent
  <2>4. sessionMap[k] \in known
    BY <1>4 DEF CalmInv, Mapped
  <2>. QED
    BY <1>2, <1>4, <2>1, <2>2, <2>3, <2>4 DEF CalmInv
<1>5. ASSUME NEW k \in Keys, EnqueueDispatch(k) PROVE CalmInv'
  <2>1. k \in routed /\ UNCHANGED <<conn, alive, interrupted, routed, completions, current>>
    BY <1>5 DEF EnqueueDispatch
  <2>2. Mapped(k)
    BY <2>1 DEF CalmInv
  <2>3. PICK batch : PromptMapped(k, batch)
    BY <1>5, <2>2 DEF EnqueueDispatch, PromptHealed, Mapped
  <2>. QED
    BY <1>4, <2>1, <2>2, <2>3
<1>6. ASSUME NEW t \in tasks, NEW kind \in {"ok", "error", "lost", "timeout"}, TaskEnds(t, kind),
             running' \subseteq running,
             UNCHANGED <<conn, alive, interrupted, sessionMap, known, routed, current>>
      PROVE  CalmInv'
  <2>1. PICK c \in Completions : c.key = t.key /\ c.kind = kind /\ completions' = Append(completions, c)
    <3>1. [key |-> t.key, kind |-> kind, tkt |-> t.tkt] \in Completions
      BY <1>0 DEF PromptTasks, Completions, Kinds
    <3>. QED
      BY <1>6, <3>1 DEF TaskEnds
  <2>2. /\ Len(completions') = Len(completions) + 1
        /\ \A i \in 1 .. Len(completions) : completions'[i] = completions[i]
        /\ completions'[Len(completions) + 1] = c
    BY <1>0, <2>1
  <2>3. \A i \in 1 .. Len(completions') : Mapped(completions'[i].key) /\ completions'[i].kind # "expired"
    <3>1. Mapped(t.key)
      BY DEF CalmInv
    <3>2. \A i \in 1 .. Len(completions) : Mapped(completions[i].key) /\ completions[i].kind # "expired"
      BY DEF CalmInv
    <3>. QED
      BY <1>0, <2>1, <2>2, <3>1, <3>2
  <2>4. tasks' \subseteq tasks
    BY <1>6 DEF TaskEnds
  <2>. QED
    BY <1>2, <1>6, <2>3, <2>4 DEF CalmInv, Mapped
<1>7. ASSUME NEW p \in running, AgentResponds(p) PROVE CalmInv'
  <2>1. p.id \in known /\ running' \subseteq running
        /\ UNCHANGED <<conn, alive, interrupted, sessionMap, known, routed, current>>
    BY <1>7 DEF AgentResponds, CalmInv
  <2>2. CASE UNCHANGED <<tasks, completions>>
    BY <1>2, <2>1, <2>2 DEF CalmInv
  <2>3. CASE \E t \in tasks, kind \in {"ok", "error"} : TaskEnds(t, kind)
    BY <1>6, <2>1, <2>3
  <2>. QED
    BY <1>7, <2>1, <2>2, <2>3 DEF AgentResponds
<1>8. ASSUME NEW p \in running, NEW type, AgentUpdates(p, type) PROVE CalmInv'
  <2>1. UNCHANGED <<conn, alive, interrupted, sessionMap, known, routed, current, tasks, completions>>
    BY <1>8 DEF AgentUpdates
  <2>2. ASSUME NEW q \in running' PROVE q.id \in known
    <3>1. p \in Prompts /\ p.id \in known
      BY <1>0 DEF CalmInv
    <3>2. q \in running \/ \E l : q = [p EXCEPT !.left = l]
      BY <1>8 DEF AgentUpdates
    <3>3. \A l : [p EXCEPT !.left = l].id = p.id
      BY <3>1 DEF Prompts
    <3>. QED
      BY <3>1, <3>2, <3>3 DEF CalmInv
  <2>. QED
    BY <1>2, <2>1, <2>2 DEF CalmInv
<1>9. ASSUME NEW t \in tasks, TaskLost(t) \/ TaskTimesOut(t) PROVE CalmInv'
  BY <1>6, <1>9 DEF TaskLost, TaskTimesOut
<1>10. CASE ForwardUpdate
  BY <1>2, <1>10 DEF ForwardUpdate, CalmInv
<1>11. CASE TakeCompletion
  <2>1. /\ current' = completions[1] /\ 1 \in 1 .. Len(completions)
        /\ \A i \in 1 .. Len(completions') : completions'[i] = completions[i + 1] /\ i + 1 \in 1 .. Len(completions)
    BY <1>0, <1>11, EmptySeq, HeadTailProperties DEF TakeCompletion
  <2>2. UNCHANGED <<conn, alive, interrupted, sessionMap, known, routed, running, tasks>>
    BY <1>11 DEF TakeCompletion
  <2>3. \A i \in 1 .. Len(completions) : Mapped(completions[i].key) /\ completions[i].kind # "expired"
    BY DEF CalmInv
  <2>4. /\ \A i \in 1 .. Len(completions') : Mapped(completions'[i].key) /\ completions'[i].kind # "expired"
        /\ Mapped(current'.key) /\ current'.kind # "expired"
    BY <2>1, <2>3
  <2>. QED
    BY <1>2, <2>2, <2>4 DEF CalmInv, Mapped
<1>12. CASE FinishIdle
  <2>1. /\ UNCHANGED <<conn, alive, interrupted, sessionMap, known, routed, running, tasks, completions>>
        /\ current' = None
    BY <1>12 DEF FinishIdle, ExpireSession, CompleteSession, CalmInv
  <2>. QED
    BY <1>2, <2>1 DEF CalmInv
<1>13. CASE FinishNext
  <2>1. current' = None /\ Mapped(current.key) /\ UNCHANGED <<conn, alive, interrupted, routed, completions>>
    BY <1>13 DEF FinishNext, CompleteSession, CalmInv
  <2>2. PICK batch : PromptMapped(current.key, batch)
    BY <1>13 DEF FinishNext
  <2>. QED
    BY <1>4, <2>1, <2>2
<1>14. CASE UNCHANGED vars
  BY <1>2, <1>14 DEF vars, CalmInv
<1>. QED
  BY <1>1, <1>3, <1>5, <1>7, <1>8, <1>9, <1>10, <1>11, <1>12, <1>13, <1>14, CalmSteps

(* One step of the manager is one step of the mailbox, or none.            *)
LEMMA MailboxStep ==
    ASSUME TypeOK, NoIdleBacklog, ServedInv, ExitNoticeFresh, CalmInv, [Next]_vars
    PROVE  [Mailbox!Next]_(Mailbox!mvars)
<1>. USE DEF Mailbox!Next, Mailbox!mvars, connVars, mapVars, flagVars, agentVars, taskVars, loseVars, idVars
<1>0. sq \in QueueValues(Msgs) /\ sq.queues \in [Keys -> Seq(Msgs)] /\ lastSent \in [Keys -> Tickets]
  BY QueueTyped DEF TypeOK, QueueType
<1>1. CASE UNCHANGED <<sq, lastSent, nextMsg>>
  BY <1>1
<1>2. ASSUME NEW k \in Keys, EnqueueBehind(k) PROVE Mailbox!Accept(k)
  <2>1. IsActive(sq, k) /\ nextMsg \in Msgs /\ sq' = Push(sq, k, nextMsg) /\ nextMsg' = nextMsg + 1
        /\ UNCHANGED lastSent
    BY <1>2 DEF EnqueueBehind
  <2>2. sq'.queues = [sq.queues EXCEPT ![k] = Append(sq.queues[k], nextMsg)] /\ sq'.active = sq.active
    BY <2>1 DEF Push, WithQueue
  <2>. QED
    BY <2>1, <2>2 DEF Mailbox!Accept, IsActive, Msgs
<1>3. ASSUME NEW k, Mapped(k), NEW batch, PromptMapped(k, batch)
      PROVE  lastSent' = [lastSent EXCEPT ![k] = Newest(batch)]
  BY <1>3 DEF PromptMapped, PromptSent, CalmInv
<1>4. ASSUME NEW k \in Keys, EnqueueDispatch(k) PROVE Mailbox!Accept(k)
  <2>1. ~IsActive(sq, k) /\ nextMsg \in Msgs /\ sq' = FlushPending(PushOnly(sq, k, nextMsg), k)
        /\ nextMsg' = nextMsg + 1 /\ k \in routed
    BY <1>4 DEF EnqueueDispatch
  <2>2. sq.queues[k] = <<>> /\ Mapped(k)
    BY <2>1 DEF NoIdleBacklog, CalmInv
  <2>3. /\ FlushPendingReturns(PushOnly(sq, k, nextMsg), k) = Append(sq.queues[k], nextMsg)
        /\ sq' = [queues |-> [sq.queues EXCEPT ![k] = <<>>], active |-> sq.active \cup {k}]
    BY <1>0, <2>1, DispatchBatch
  <2>4. sq'.queues = sq.queues /\ sq'.active = sq.active \cup {k}
    <3>1. [sq.queues EXCEPT ![k] = <<>>] = sq.queues
      BY <1>0, <2>2
    <3>. QED
      BY <2>3, <3>1
  <2>5. lastSent' = [lastSent EXCEPT ![k] = nextMsg]
    <3>1. PromptMapped(k, Append(sq.queues[k], nextMsg))
      BY <1>4, <2>2, <2>3 DEF EnqueueDispatch, PromptHealed, Mapped
    <3>2. Newest(Append(sq.queues[k], nextMsg)) = nextMsg
      BY <1>0, <2>1, <2>2 DEF Newest
    <3>. QED
      BY <1>3, <2>2, <3>1, <3>2
  <2>. QED
    BY <2>1, <2>4, <2>5 DEF Mailbox!Accept, IsActive, Msgs
<1>5. ASSUME current # None PROVE current.key \in Keys /\ IsActive(sq, current.key) /\ Mapped(current.key)
  <2>1. current.key \in Keys /\ Mapped(current.key)
    BY <1>5 DEF CalmInv, Mapped
  <2>2. ServedBy(current.key)
    BY <2>1 DEF ServedInv, CalmInv
  <2>. QED
    BY <1>5, <2>1, <2>2 DEF ServedBy, HasCurrent
<1>6. CASE FinishIdle
  <2>1. PICK k \in Keys : k = current.key /\ IsActive(sq, k)
    BY <1>5, <1>6 DEF FinishIdle
  <2>2. sq.queues[k] = <<>> /\ sq' = MarkIdle(sq, k) /\ UNCHANGED <<lastSent, nextMsg>>
    BY <1>6, <2>1 DEF FinishIdle
  <2>3. sq'.queues = sq.queues /\ sq'.active = sq.active \ {k}
    BY <2>2 DEF MarkIdle
  <2>. QED
    BY <2>1, <2>2, <2>3 DEF Mailbox!Complete, IsActive
<1>7. CASE FinishNext
  <2>1. PICK k \in Keys : k = current.key /\ IsActive(sq, k) /\ Mapped(k)
    BY <1>5, <1>7 DEF FinishNext
  <2>2. /\ sq.queues[k] # <<>> /\ sq' = DrainQueued(MarkIdle(sq, k), k) /\ UNCHANGED nextMsg
        /\ PromptMapped(k, MarkIdleReturns(sq, k) \o DrainQueuedReturns(MarkIdle(sq, k), k))
    BY <1>7, <2>1 DEF FinishNext
  <2>3. PromptMapped(k, sq.queues[k])
    BY <1>0, <2>2, CompletionBatch
  <2>4. lastSent' = [lastSent EXCEPT ![k] = sq.queues[k][Len(sq.queues[k])]]
    BY <1>3, <2>1, <2>3 DEF Newest
  <2>5. sq'.queues = [sq.queues EXCEPT ![k] = <<>>] /\ sq'.active = sq.active
    <3>1. MarkIdle(sq, k) = [queues |-> [sq.queues EXCEPT ![k] = Tail(sq.queues[k])], active |-> sq.active]
      BY <2>2 DEF MarkIdle, WithQueue
    <3>2. sq'.queues = [[sq.queues EXCEPT ![k] = Tail(sq.queues[k])] EXCEPT ![k] = <<>>] /\ sq'.active = sq.active
      BY <2>2, <3>1 DEF DrainQueued, WithQueue
    <3>. QED
      BY <1>0, <3>2
  <2>. QED
    BY <2>1, <2>2, <2>4, <2>5 DEF Mailbox!Complete, IsActive
<1>8. CASE \E k \in Keys : CreateSession(k)
  BY <1>1, <1>8 DEF CreateSession
<1>9. CASE \E p \in running : AgentResponds(p) \/ \E type \in {"chunk", "result"} : AgentUpdates(p, type)
  BY <1>1, <1>9 DEF AgentResponds, AgentUpdates
<1>10. CASE (\E t \in tasks : TaskLost(t) \/ TaskTimesOut(t)) \/ ForwardUpdate \/ TakeCompletion
  BY <1>1, <1>10 DEF TaskLost, TaskTimesOut, ForwardUpdate, TakeCompletion
<1>11. CASE UNCHANGED vars
  BY <1>1, <1>11 DEF vars
<1>12. (\E k \in Keys : Mailbox!Accept(k) \/ Mailbox!Complete(k)) => [Mailbox!Next]_(Mailbox!mvars)
  OBVIOUS
<1>. QED
  BY <1>2, <1>4, <1>6, <1>7, <1>8, <1>9, <1>10, <1>11, <1>12, CalmSteps

(* The agents manager implements the mailbox, its liveness left aside: as  *)
(* long as the agent lives and answers, every step of handlers, tasks,     *)
(* reader and agent is a message accepted, a batch completed or nothing    *)
(* that a channel could tell, so no message is lost, reordered or prompted *)
(* twice.                                                                  *)
THEOREM MailboxImplemented == Calm /\ Spec => MailboxSteps
<1>1. Init => Mailbox!Init
  BY DEF Init, NewQueue, Mailbox!Init
<1>2. Calm /\ Init => CalmInv
  <2>1. Init => \A k \in Keys : sessionMap[k] = None
    BY DEF Init
  <2>. QED
    BY <2>1 DEF Init, CalmInv, CanAnswer, Mapped
<1>3. Calm /\ Spec => []CalmInv
  BY <1>2, CalmStep, TypeCorrect, ExitNoticeFreshHolds, PTL DEF Spec
<1>. QED
  BY <1>1, <1>3, MailboxStep, TypeCorrect, NoIdleBacklogHolds, ServedInvariant, ExitNoticeFreshHolds, PTL
  DEF Spec, MailboxSteps

-----------------------------------------------------------------------------
(* The end of a prompt.  What waits, what the agent works on, what it      *)
(* answered and what is on its way to the manager, as sets.                *)
Waiting(k) == Elements(sq.queues[k])
Stream     == Elements(incoming)
Worked     == {p.tkt : p \in running}
Ended      == {c.tkt : c \in Elements(completions)} \cup {c.tkt : c \in {current} \ {None}}
Excused    == interrupted \cup abandoned

(* A message is the ticket of one prompt at most, and what the agent said  *)
(* before it answered is still there only while the completion is.         *)
TicketInv ==
    /\ answered \cup Worked \subseteq {m \in Msgs : m < nextMsg}
    /\ answered \cap Worked = {}
    /\ \A p, q \in running : p.tkt = q.tkt => p = q
    /\ \A k \in Keys : Waiting(k) \cap (answered \cup Worked) = {}
    /\ \A j, k \in Keys : j # k => Waiting(j) \cap Waiting(k) = {}
    /\ \A u \in Stream : u.tkt \in answered => u.tkt \in Ended

(* Unless the session was interrupted or its prompt given up: a prompt the *)
(* agent works on has its task, a streamed result has an active session,   *)
(* and a session whose result was streamed was told so and is active.      *)
Placed(p) ==
    /\ p.id < nextId /\ owner[p.id] \in Keys
    /\ \/ owner[p.id] \in Excused
       \/ \E t \in tasks : t.key = owner[p.id] /\ t.tkt = p.tkt /\ t.inc = conn
Expected(u) ==
    /\ u.id < nextId /\ owner[u.id] \in Keys
    /\ owner[u.id] \in Excused \/ IsActive(sq, owner[u.id])
DeadIsIdle  == ~alive => running = {}
AllPlaced   == \A p \in running : Placed(p)
AllExpected == \A u \in Stream : u.type = "result" => Expected(u)
AllTold     == \A k \in (Keys \cap streamingCompleted) \ Excused :
                  k \in resultSeen /\ IsActive(sq, k)
TurnInv == DeadIsIdle /\ AllPlaced /\ AllExpected /\ AllTold /\ ResultBeforeComplete
(* What the operations on sequences do to their elements.                  *)
LEMMA ElementsOf ==
    ASSUME NEW S, NEW s \in Seq(S)
    PROVE  /\ Elements(s) \subseteq S
           /\ \A x \in S : Elements(Append(s, x)) = Elements(s) \cup {x}
           /\ s # <<>> => /\ Head(s) \in Elements(s) /\ Newest(s) \in Elements(s)
                          /\ Elements(Tail(s)) \subseteq Elements(s)
                          /\ Elements(s) = {Head(s)} \cup Elements(Tail(s))
<1>1. Len(s) \in Nat /\ DOMAIN s = 1 .. Len(s) /\ \A i \in 1 .. Len(s) : s[i] \in S
  OBVIOUS
<1>2. ASSUME NEW x \in S PROVE Elements(Append(s, x)) = Elements(s) \cup {x}
  <2>1. /\ DOMAIN Append(s, x) = 1 .. Len(s) + 1
        /\ \A i \in 1 .. Len(s) : Append(s, x)[i] = s[i]
        /\ Append(s, x)[Len(s) + 1] = x
    OBVIOUS
  <2>2. \A i \in 1 .. Len(s) + 1 : i \in 1 .. Len(s) \/ i = Len(s) + 1
    BY <1>1
  <2>3. \A i \in 1 .. Len(s) : i \in 1 .. Len(s) + 1
    BY <1>1
  <2>4. Len(s) + 1 \in 1 .. Len(s) + 1
    BY <1>1
  <2>. QED
    BY <1>1, <2>1, <2>2, <2>3, <2>4 DEF Elements
<1>3. ASSUME s # <<>>
      PROVE  /\ Head(s) \in Elements(s) /\ Newest(s) \in Elements(s)
             /\ Elements(Tail(s)) \subseteq Elements(s)
             /\ Elements(s) \subseteq {Head(s)} \cup Elements(Tail(s))
  <2>1. 1 \in 1 .. Len(s) /\ Len(s) \in 1 .. Len(s) /\ Head(s) = s[1]
    BY <1>3
  <2>2. /\ DOMAIN Tail(s) = 1 .. Len(s) - 1
        /\ \A i \in 1 .. Len(s) - 1 : Tail(s)[i] = s[i + 1] /\ i + 1 \in 1 .. Len(s)
    BY <1>3
  <2>3. Elements(Tail(s)) \subseteq Elements(s)
    BY <1>1, <2>2 DEF Elements
  <2>4. ASSUME NEW i \in 1 .. Len(s) PROVE s[i] \in {Head(s)} \cup Elements(Tail(s))
    <3>1. CASE i = 1
      BY <2>1, <3>1
    <3>2. CASE i # 1
      <4>1. i - 1 \in 1 .. Len(s) - 1 /\ (i - 1) + 1 = i
        BY <1>1, <3>2
      <4>2. Tail(s)[i - 1] = s[i]
        BY <2>2, <4>1
      <4>. QED
        BY <2>2, <4>1, <4>2 DEF Elements
    <3>. QED
      BY <3>1, <3>2
  <2>5. Elements(s) \subseteq {Head(s)} \cup Elements(Tail(s))
    BY <1>1, <2>4 DEF Elements
  <2>. QED
    BY <1>1, <2>1, <2>3, <2>5 DEF Elements, Newest
<1>4. Elements(s) \subseteq S
  BY <1>1 DEF Elements
<1>. QED
  BY <1>2, <1>3, <1>4

LEMMA NothingIn == Elements(<<>>) = {}
  BY DEF Elements

(* What a step may do to the tickets besides answering one: put forward a  *)
(* single new prompt, whose ticket is fresh.                               *)
Tame ==
    /\ answered' = answered /\ nextMsg <= nextMsg'
    /\ \A k \in Keys : Waiting(k)' \subseteq Waiting(k)
    /\ \A u \in Stream' : u \in Stream \/ u.tkt = 0
    /\ Ended \subseteq Ended' \/ Stream' = {}
Fresh(m) ==
    /\ m \in Msgs /\ m < nextMsg' /\ m \notin answered /\ m \notin Worked
    /\ \A k \in Keys : m \notin Waiting(k)'
NewPrompts(R) ==
    /\ running' \subseteq running \cup R
    /\ \A r \in R : Fresh(r.tkt)
    /\ \A r, s \in R : r = s

LEMMA TameStep ==
    ASSUME TypeOK, TypeOK', TicketInv, Tame, NEW R, NewPrompts(R)
    PROVE  TicketInv'
<1>0. \A m \in Msgs : m \in Nat /\ m # 0
  BY DEF Msgs
<1>1. nextMsg \in Nat /\ nextMsg' \in Nat
  BY DEF TypeOK, QueueType
<1>3. ASSUME NEW m \in Worked' PROVE m \in Worked \/ Fresh(m)
  <2>1. PICK p \in running' : p.tkt = m
    BY DEF Worked
  <2>2. CASE p \in running
    BY <2>1, <2>2 DEF Worked
  <2>3. CASE p \in R
    BY <2>1, <2>3 DEF NewPrompts
  <2>. QED
    BY <2>1, <2>2, <2>3 DEF NewPrompts
<1>4. (answered \cup Worked \subseteq {m \in Msgs : m < nextMsg})'
  <2>1. ASSUME NEW m \in answered \cup Worked PROVE m \in Msgs /\ m < nextMsg'
    <3>1. m \in Msgs /\ m < nextMsg /\ m \in Nat
      BY <1>0, <2>1 DEF TicketInv
    <3>. QED
      BY <1>1, <3>1 DEF Tame
  <2>. QED
    BY <1>3, <2>1 DEF Tame, Fresh
<1>5. (answered \cap Worked = {})'
  BY <1>3 DEF Tame, Fresh, TicketInv
<1>6. (\A p, q \in running : p.tkt = q.tkt => p = q)'
  BY DEF TicketInv, NewPrompts, Fresh, Worked
<1>7. (\A k \in Keys : Waiting(k) \cap (answered \cup Worked) = {})'
  BY <1>3 DEF Tame, Fresh, TicketInv
<1>8. (\A j, k \in Keys : j # k => Waiting(j) \cap Waiting(k) = {})'
  BY DEF Tame, TicketInv
<1>9. (\A u \in Stream : u.tkt \in answered => u.tkt \in Ended)'
  <2>1. 0 \notin answered
    BY <1>0 DEF TicketInv
  <2>. QED
    BY <2>1 DEF Tame, TicketInv
<1>. QED
  BY <1>4, <1>5, <1>6, <1>7, <1>8, <1>9 DEF TicketInv

(* Only the agent, and only for a prompt it works on, adds to the stream   *)
(* anything but the history of a session/load and the exit notice.         *)
Unasked == \A u \in Stream' : u \in Stream \/ (u.tkt = 0 /\ u.type # "result")

LEMMA ReplayUnasked ==
    ASSUME TypeOK, NEW id \in Ids, incoming' = Append(incoming, Update("replay", id, 0))
    PROVE  Unasked
<1>. DEFINE u == Update("replay", id, 0)
<1>1. u \in Updates /\ u.tkt = 0 /\ u.type # "result"
  BY DEF Update, Updates, Tickets
<1>. HIDE DEF u
<1>2. Stream' = Stream \cup {u}
  BY <1>1, ElementsOf DEF u, Stream, TypeOK, ConnType
<1>. QED
  BY <1>1, <1>2 DEF Unasked

LEMMA HealUnasked ==
    ASSUME TypeOK, NEW k \in Keys,
           HealRestored(k) \/ HealCreated(k) \/ HealFailed(k)
    PROVE  Unasked
<1>0. CASE incoming' = incoming
  BY <1>0 DEF Unasked, Stream
<1>1. CASE HealRestored(k)
  <2>1. PICK id \in RestoredIds(stale[k]) : Replay(id)
    BY <1>1 DEF HealRestored
  <2>2. id \in Ids
    BY <1>1, <2>1 DEF HealRestored, Restorable, RestoredIds, TypeOK, MapType
  <2>. QED
    BY <1>0, <2>1, <2>2, ReplayUnasked DEF Replay
<1>2. CASE HealCreated(k) \/ HealFailed(k)
  BY <1>0, <1>2 DEF HealCreated, HealFailed
<1>. QED
  BY <1>1, <1>2

LEMMA StreamMoves ==
    ASSUME TypeOK, [Next]_vars
    PROVE  Unasked \/ \E p \in running, type \in {"chunk", "result"} : AgentUpdates(p, type)
<1>0. ASSUME incoming' = incoming PROVE Unasked
  BY <1>0 DEF Unasked, Stream
<1>a. incoming \in Seq(Updates \cup {ExitNotice})
  BY DEF TypeOK, ConnType
<1>b. ASSUME incoming # <<>> /\ incoming' = Tail(incoming) PROVE Unasked
  BY <1>a, <1>b, ElementsOf DEF Unasked, Stream
<1>1. ASSUME NEW k \in Keys, CreateSession(k) PROVE Unasked
  BY <1>0, <1>1, HealUnasked DEF CreateSession
<1>2. ASSUME NEW k \in Keys, EnqueueDispatch(k) PROVE Unasked
  <2>1. PICK batch : PromptMapped(k, batch) \/ PromptHealed(k, batch)
    BY <1>2 DEF EnqueueDispatch
  <2>. QED
    BY <1>0, <2>1, HealUnasked DEF PromptMapped, PromptHealed
<1>3. ASSUME NEW k \in Keys, EnqueueBehind(k) \/ NewCommand(k) \/ CancelCommand(k) PROVE Unasked
  BY <1>0, <1>3 DEF EnqueueBehind, NewCommand, CancelCommand
<1>4. ASSUME NEW p \in running, AgentResponds(p) PROVE Unasked
  BY <1>0, <1>4 DEF AgentResponds
<1>5. ASSUME NEW t \in tasks, TaskLost(t) \/ TaskTimesOut(t) PROVE Unasked
  BY <1>0, <1>5 DEF TaskLost, TaskTimesOut
<1>6. CASE AgentDies \/ TakeCompletion \/ FinishIdle \/ FinishNext \/ FinishUnmapped
  BY <1>0, <1>6 DEF AgentDies, TakeCompletion, FinishIdle, FinishNext, FinishUnmapped, PromptMapped
<1>7. CASE ReaderEof
  <2>1. Stream' = Stream \cup {ExitNotice}
    BY <1>7, <1>a, ElementsOf DEF ReaderEof, Stream
  <2>2. ExitNotice.tkt = 0 /\ ExitNotice.type # "result"
    BY DEF ExitNotice
  <2>. QED
    BY <2>1, <2>2 DEF Unasked
<1>8. CASE ForwardUpdate \/ CrashDisables \/ RespawnFails \/ InitializeFails
           \/ RestartSessionFails \/ StartFreshSession
  BY <1>b, <1>8 DEF ForwardUpdate, CrashDisables, RespawnFails, InitializeFails,
                    RestartSessionFails, StartFreshSession, CrashRestarts, ExitReceived
<1>9. CASE RestoreSessions
  <2>1. incoming # <<>> /\ CrashRestarts
    BY <1>9 DEF RestoreSessions, CrashRestarts, ExitReceived
  <2>2. PICK k0 \in {k \in AllKeys : Survivors[k] # None} :
        \E id \in RestoredIds(Survivors[k0]) :
           incoming' = IF Resume THEN Tail(incoming)
                       ELSE Append(Tail(incoming), Update("replay", id, 0))
    BY <1>9 DEF RestoreSessions
  <2>3. PICK id \in RestoredIds(Survivors[k0]) :
           incoming' = IF Resume THEN Tail(incoming)
                       ELSE Append(Tail(incoming), Update("replay", id, 0))
    BY <2>2
  <2>4. id \in Ids
    BY <2>1, <2>3, CrashTypes DEF RestoredIds
  <2>5. CASE Resume
    BY <1>b, <2>1, <2>3, <2>5
  <2>6. CASE ~Resume
    <3>. DEFINE u == Update("replay", id, 0)
    <3>1. u \in Updates /\ u.tkt = 0 /\ u.type # "result"
      BY <2>4 DEF Update, Updates, Tickets
    <3>2. incoming' = Append(Tail(incoming), u)
      BY <2>3, <2>6
    <3>. HIDE DEF u
    <3>3. Tail(incoming) \in Seq(Updates \cup {ExitNotice})
      BY <1>a, <2>1
    <3>4. Stream' = Elements(Tail(incoming)) \cup {u}
      <4>1. u \in Updates \cup {ExitNotice}
        BY <3>1
      <4>2. Elements(Append(Tail(incoming), u)) = Elements(Tail(incoming)) \cup {u}
        <5>1. \A s \in Seq(Updates \cup {ExitNotice}), x \in Updates \cup {ExitNotice} :
                 Elements(Append(s, x)) = Elements(s) \cup {x}
          BY ElementsOf
        <5>. QED
          BY <3>3, <4>1, <5>1, Zenon
      <4>. QED
        BY <3>2, <4>2 DEF Stream
    <3>5. Elements(Tail(incoming)) \subseteq Stream
      BY <1>a, <2>1, ElementsOf DEF Stream
    <3>. QED
      BY <3>1, <3>4, <3>5 DEF Unasked
  <2>. QED
    BY <2>5, <2>6
<1>10. CASE UNCHANGED vars
  BY <1>0, <1>10 DEF vars
<1>. QED
  BY <1>1, <1>2, <1>3, <1>4, <1>5, <1>6, <1>7, <1>8, <1>9, <1>10 DEF Next, Quiescent

(* A completion is forgotten only when the stream is empty.                *)
LEMMA EndedMoves ==
    ASSUME TypeOK, [Next]_vars
    PROVE  Ended \subseteq Ended' \/ Stream' = {}
<1>. USE DEF taskVars
<1>0. CASE UNCHANGED <<completions, current>>
  BY <1>0 DEF Ended
<1>a. completions \in Seq(Completions) /\ current \in Completions \cup {None}
  BY DEF TypeOK, TaskType
<1>b. ASSUME NEW t \in tasks, NEW kind \in Kinds, TaskEnds(t, kind), current' = current
      PROVE  Ended \subseteq Ended'
  <2>1. [key |-> t.key, kind |-> kind, tkt |-> t.tkt] \in Completions
    BY DEF TypeOK, TaskType, PromptTasks, Completions
  <2>2. Elements(completions) \subseteq Elements(completions')
    BY <1>a, <1>b, <2>1, ElementsOf DEF TaskEnds
  <2>. QED
    BY <1>b, <2>2 DEF Ended
<1>1. ASSUME NEW k \in Keys, CreateSession(k) \/ EnqueueDispatch(k) \/ EnqueueBehind(k)
                             \/ NewCommand(k) \/ CancelCommand(k)
      PROVE  UNCHANGED <<completions, current>>
  BY <1>1 DEF CreateSession, EnqueueDispatch, EnqueueBehind, NewCommand, CancelCommand
<1>2. ASSUME NEW p \in running, NEW type, AgentUpdates(p, type)
      PROVE  UNCHANGED <<completions, current>>
  BY <1>2 DEF AgentUpdates
<1>3. ASSUME NEW p \in running, AgentResponds(p) PROVE Ended \subseteq Ended'
  <2>1. current' = current
    BY <1>3 DEF AgentResponds
  <2>. QED
    <3>1. CASE UNCHANGED <<completions, current>>
      BY <3>1 DEF Ended
    <3>2. CASE \E t \in tasks, kind \in Kinds : TaskEnds(t, kind)
      BY <1>b, <2>1, <3>2
    <3>3. (IF p.id \in known THEN {"ok", "error"} ELSE {"expired"}) \subseteq Kinds
      BY DEF Kinds
    <3>. QED
      BY <1>3, <2>1, <3>1, <3>2, <3>3 DEF AgentResponds
<1>4. ASSUME NEW t \in tasks, TaskLost(t) \/ TaskTimesOut(t) PROVE Ended \subseteq Ended'
  BY <1>4, <1>b DEF TaskLost, TaskTimesOut, Kinds
<1>5. CASE AgentDies \/ ReaderEof \/ ForwardUpdate \/ CrashDisables \/ CrashRestarts
  BY <1>0, <1>5 DEF AgentDies, ReaderEof, ForwardUpdate, CrashDisables, CrashRestarts
<1>6. CASE TakeCompletion
  <2>1. /\ current = None /\ completions # <<>>
        /\ current' = Head(completions) /\ completions' = Tail(completions)
    BY <1>6 DEF TakeCompletion
  <2>2. Elements(completions) = {current'} \cup Elements(completions')
    BY <1>a, <2>1, ElementsOf
  <2>3. current' # None
    BY <1>a, <2>1, NoneAssumption
  <2>. QED
    BY <2>1, <2>2, <2>3 DEF Ended
<1>7. CASE FinishIdle \/ FinishNext \/ FinishUnmapped
  <2>1. incoming' = <<>>
    BY <1>7 DEF FinishIdle, FinishNext, FinishUnmapped, Drained, PromptMapped
  <2>. QED
    BY <2>1, NothingIn DEF Stream
<1>8. CASE UNCHANGED vars
  BY <1>0, <1>8 DEF vars
<1>. QED
  BY <1>0, <1>1, <1>2, <1>3, <1>4, <1>5, <1>6, <1>7, <1>8
  DEF Next, Quiescent, RespawnFails, InitializeFails, RestartSessionFails,
      RestoreSessions, StartFreshSession

(* What the calls of the session queue do to the waiting messages.         *)
LEMMA WaitingOld ==
    ASSUME TypeOK, InOrder
    PROVE  \A k \in Keys : \A m \in Waiting(k) : m \in Msgs /\ m < nextMsg
<1>. SUFFICES ASSUME NEW k \in Keys, NEW m \in Waiting(k) PROVE m \in Msgs /\ m < nextMsg
  OBVIOUS
<1>1. sq.queues[k] \in Seq(Msgs) /\ DOMAIN sq.queues[k] = 1 .. Len(sq.queues[k])
  BY DEF TypeOK, QueueType
<1>2. PICK i \in 1 .. Len(sq.queues[k]) : m = sq.queues[k][i]
  BY <1>1 DEF Waiting, Elements
<1>. QED
  BY <1>1, <1>2 DEF InOrder

LEMMA WaitingIdled ==
    ASSUME TypeOK, NEW k \in Keys, sq' = sq \/ sq' = MarkIdle(sq, k)
    PROVE  \A j \in Keys : Waiting(j)' \subseteq Waiting(j)
<1>. SUFFICES ASSUME NEW j \in Keys PROVE Waiting(j)' \subseteq Waiting(j)
  OBVIOUS
<1>1. sq.queues \in [Keys -> Seq(Msgs)]
  BY DEF TypeOK, QueueType
<1>2. \/ sq'.queues = sq.queues
      \/ sq.queues[k] # <<>> /\ sq'.queues = [sq.queues EXCEPT ![k] = Tail(sq.queues[k])]
  <2>1. CASE sq' = sq
    BY <2>1
  <2>2. CASE sq' = MarkIdle(sq, k) /\ sq.queues[k] = <<>>
    BY <2>2 DEF MarkIdle
  <2>3. CASE sq' = MarkIdle(sq, k) /\ sq.queues[k] # <<>>
    BY <2>3 DEF MarkIdle, WithQueue
  <2>. QED
    BY <2>1, <2>2, <2>3
<1>3. \/ sq'.queues[j] = sq.queues[j]
      \/ sq.queues[j] # <<>> /\ sq'.queues[j] = Tail(sq.queues[j])
  BY <1>1, <1>2
<1>4. sq.queues[j] # <<>> => Elements(Tail(sq.queues[j])) \subseteq Elements(sq.queues[j])
  BY <1>1, ElementsOf
<1>. QED
  BY <1>3, <1>4 DEF Waiting

LEMMA WaitingTaken ==
    ASSUME TypeOK, NEW k \in Keys, sq'.queues = [sq.queues EXCEPT ![k] = <<>>]
    PROVE  Waiting(k)' = {} /\ \A j \in Keys : j # k => Waiting(j)' = Waiting(j)
<1>1. sq.queues \in [Keys -> Seq(Msgs)]
  BY DEF TypeOK, QueueType
<1>2. sq'.queues[k] = <<>> /\ \A j \in Keys : j # k => sq'.queues[j] = sq.queues[j]
  BY <1>1
<1>. QED
  BY <1>2, NothingIn DEF Waiting

(* A batch leaves the queue of its session; its ticket is the message that *)
(* just came, or the newest of those that waited.                          *)
LEMMA DispatchTicket ==
    ASSUME TypeOK, NEW k \in Keys, EnqueueDispatch(k)
    PROVE  /\ sq'.queues = [sq.queues EXCEPT ![k] = <<>>]
           /\ \E batch : /\ Newest(batch) = nextMsg
                         /\ PromptMapped(k, batch) \/ PromptHealed(k, batch)
<1>. DEFINE batch == FlushPendingReturns(PushOnly(sq, k, nextMsg), k)
<1>0. sq \in QueueValues(Msgs) /\ sq.queues[k] \in Seq(Msgs)
  BY QueueTyped DEF TypeOK, QueueType
<1>1. /\ nextMsg \in Msgs /\ ~IsActive(sq, k)
      /\ sq' = FlushPending(PushOnly(sq, k, nextMsg), k)
      /\ PromptMapped(k, batch) \/ PromptHealed(k, batch)
  BY DEF EnqueueDispatch
<1>2. batch = Append(sq.queues[k], nextMsg)
  BY <1>0, <1>1, DispatchBatch
<1>3. sq' = [queues |-> [sq.queues EXCEPT ![k] = <<>>], active |-> sq.active \cup {k}]
  BY <1>0, <1>1, DispatchBatch
<1>4. Newest(batch) = nextMsg
  BY <1>0, <1>1, <1>2 DEF Newest
<1>5. sq'.queues = [sq.queues EXCEPT ![k] = <<>>]
  BY <1>3
<1>. HIDE DEF batch
<1>. QED
  BY <1>1, <1>4, <1>5

LEMMA DrainTicket ==
    ASSUME TypeOK, FinishNext \/ FinishUnmapped
    PROVE  /\ current.key \in Keys
           /\ sq'.queues = [sq.queues EXCEPT ![current.key] = <<>>]
           /\ FinishNext => \E batch : /\ Newest(batch) \in Waiting(current.key)
                                       /\ PromptMapped(current.key, batch)
<1>. DEFINE k == current.key
            batch == MarkIdleReturns(sq, k) \o DrainQueuedReturns(MarkIdle(sq, k), k)
<1>0. sq \in QueueValues(Msgs)
  BY QueueTyped DEF TypeOK
<1>1. k \in Keys /\ sq.queues[k] # <<>> /\ sq' = DrainQueued(MarkIdle(sq, k), k)
  BY DEF FinishNext, FinishUnmapped, TypeOK, TaskType, Completions
<1>2. sq.queues[k] \in Seq(Msgs) /\ sq.queues \in [Keys -> Seq(Msgs)]
  BY <1>1 DEF TypeOK, QueueType
<1>3. FinishNext => PromptMapped(k, batch)
  BY DEF FinishNext
<1>4. batch = sq.queues[k]
  BY <1>0, <1>1, CompletionBatch
<1>5. sq'.queues = [sq.queues EXCEPT ![k] = <<>>]
  <2>1. MarkIdle(sq, k).queues = [sq.queues EXCEPT ![k] = Tail(sq.queues[k])]
    BY <1>1 DEF MarkIdle, WithQueue
  <2>2. sq'.queues = [MarkIdle(sq, k).queues EXCEPT ![k] = <<>>]
    BY <1>1 DEF DrainQueued, WithQueue
  <2>. QED
    BY <1>2, <2>1, <2>2
<1>6. Newest(sq.queues[k]) \in Waiting(k)
  BY <1>1, <1>2, ElementsOf DEF Waiting
<1>. HIDE DEF batch
<1>. QED
  BY <1>1, <1>3, <1>4, <1>5, <1>6

(* What sending a batch changes.                                           *)
SentAs(k, m) ==
    /\ alive /\ sessionMap'[k] \in Ids
    /\ running' = running \cup {[id |-> sessionMap'[k], tkt |-> m, left |-> MaxUpdates]}
    /\ tasks' = tasks \cup {[key |-> k, inc |-> conn, tkt |-> m]}

LEMMA PromptRuns ==
    ASSUME TypeOK, TypeOK', NEW k \in Keys, NEW batch,
           PromptMapped(k, batch) \/ PromptHealed(k, batch)
    PROVE  \/ running' = running /\ tasks \subseteq tasks'
           \/ SentAs(k, Newest(batch))
<1>0. sessionMap \in [AllKeys -> Ids \cup {None}] /\ sessionMap' \in [AllKeys -> Ids \cup {None}]
  BY DEF TypeOK, MapType
<1>1. ASSUME NEW id, PromptSent(k, id, batch), id = sessionMap'[k], id \in Ids
      PROVE  (running' = running /\ tasks \subseteq tasks') \/ SentAs(k, Newest(batch))
  BY <1>1 DEF PromptSent, SentAs
<1>2. CASE PromptMapped(k, batch)
  <2>1. sessionMap' = sessionMap /\ sessionMap[k] \in Ids
    BY <1>0, <1>2 DEF PromptMapped, mapVars
  <2>. QED
    BY <1>1, <1>2, <2>1 DEF PromptMapped
<1>3. CASE PromptHealed(k, batch)
  <2>1. CASE PromptSent(k, sessionMap'[k], batch) /\ (HealRestored(k) \/ HealCreated(k))
    <3>1. sessionMap'[k] # None
      <4>1. CASE HealCreated(k)
        BY <1>0, <4>1 DEF HealCreated, SessionCreated, Ids
      <4>2. CASE HealRestored(k)
        <5>1. PICK id \in RestoredIds(stale[k]) : sessionMap' = [sessionMap EXCEPT ![k] = id]
          BY <4>2 DEF HealRestored
        <5>2. id \in Ids
          BY <4>2, <5>1 DEF HealRestored, Restorable, RestoredIds, TypeOK, MapType
        <5>3. id # None
          BY <5>2 DEF Ids
        <5>. QED
          BY <1>0, <5>1, <5>3
      <4>. QED
        BY <2>1, <4>1, <4>2
    <3>2. sessionMap'[k] \in Ids
      BY <1>0, <3>1
    <3>. QED
      BY <1>1, <2>1, <3>2
  <2>2. CASE UNCHANGED <<running, tasks>>
    BY <2>2
  <2>. QED
    BY <1>3, <2>1, <2>2 DEF PromptHealed
<1>. QED
  BY <1>2, <1>3

LEMMA TicketStep ==
    TypeOK /\ TypeOK' /\ InOrder /\ TicketInv /\ [Next]_vars => TicketInv'
<1>. SUFFICES ASSUME TypeOK, TypeOK', InOrder, TicketInv, [Next]_vars PROVE TicketInv'
  OBVIOUS
<1>. USE DEF agentVars, taskVars
<1>0. /\ \A k \in Keys : \A m \in Waiting(k) : m \in Msgs /\ m < nextMsg
      /\ \A m \in Msgs : m \in Nat /\ m # 0
      /\ nextMsg \in Nat /\ nextMsg' \in Nat
  BY WaitingOld DEF Msgs, TypeOK, QueueType
<1>a. ASSUME ~ \E p \in running, type \in {"chunk", "result"} : AgentUpdates(p, type),
             answered' = answered, nextMsg <= nextMsg',
             \A k \in Keys : Waiting(k)' \subseteq Waiting(k)
      PROVE  Tame
  BY <1>a, StreamMoves, EndedMoves DEF Tame, Unasked
<1>b. ASSUME Tame, running' \subseteq running PROVE TicketInv'
  <2>1. NewPrompts({})
    BY <1>b DEF NewPrompts
  <2>. QED
    BY <1>b, <2>1, TameStep
<1>c. ASSUME Tame, NEW r, running' \subseteq running \cup {r}, Fresh(r.tkt) PROVE TicketInv'
  <2>1. NewPrompts({r})
    BY <1>c DEF NewPrompts
  <2>. QED
    BY <1>c, <2>1, TameStep
<1>1. CASE \E p \in running, type \in {"chunk", "result"} : AgentUpdates(p, type)
  <2>. PICK p \in running, type \in {"chunk", "result"} : AgentUpdates(p, type)
    BY <1>1
  <2>. DEFINE u == Update(type, p.id, p.tkt)
              r == [p EXCEPT !.left = IF type = "result" THEN 0 ELSE @ - 1]
  <2>1. p \in Prompts /\ r.tkt = p.tkt
    BY DEF TypeOK, TaskType, Prompts
  <2>2. u \in Updates /\ u.tkt = p.tkt
    BY <2>1 DEF Update, Updates, Prompts
  <2>3. /\ running' = (running \ {p}) \cup {r} /\ incoming' = Append(incoming, u)
        /\ UNCHANGED <<sq, completions, current, answered, nextMsg>>
    BY DEF AgentUpdates
  <2>. HIDE DEF u, r
  <2>4. Stream' = Stream \cup {u}
    BY <2>2, <2>3, ElementsOf DEF Stream, TypeOK, ConnType
  <2>5. Worked' = Worked
    BY <2>1, <2>3 DEF Worked
  <2>6. (\A q, s \in running : q.tkt = s.tkt => q = s)'
    BY <2>1, <2>3 DEF TicketInv
  <2>7. p.tkt \notin answered
    BY DEF TicketInv, Worked
  <2>8. (\A v \in Stream : v.tkt \in answered => v.tkt \in Ended)'
    BY <2>2, <2>3, <2>4, <2>7 DEF TicketInv, Ended
  <2>9. \A k \in Keys : Waiting(k)' = Waiting(k)
    BY <2>3 DEF Waiting
  <2>. QED
    BY <2>3, <2>5, <2>6, <2>8, <2>9 DEF TicketInv
<1>2. CASE \E p \in running : AgentResponds(p)
  <2>. PICK p \in running : AgentResponds(p)
    BY <1>2
  <2>1. running' = running \ {p} /\ UNCHANGED <<sq, incoming, current, nextMsg>>
    BY DEF AgentResponds
  <2>2. \A k \in Keys : Waiting(k)' = Waiting(k)
    BY <2>1 DEF Waiting
  <2>3. CASE answered' = answered /\ completions' = completions
    <3>1. Tame
      BY <1>0, <2>1, <2>2, <2>3 DEF Tame, Stream, Ended
    <3>. QED
      BY <1>b, <2>1, <3>1
  <2>4. ASSUME NEW t \in tasks, NEW kind \in Kinds, t.tkt = p.tkt, TaskEnds(t, kind),
               answered' = answered \cup {p.tkt}
        PROVE  TicketInv'
    <3>. DEFINE c == [key |-> t.key, kind |-> kind, tkt |-> t.tkt]
    <3>1. c \in Completions /\ c.tkt = p.tkt
      BY <2>4 DEF TypeOK, TaskType, PromptTasks, Completions
    <3>2. completions' = Append(completions, c)
      BY <2>4 DEF TaskEnds
    <3>. HIDE DEF c
    <3>3. Elements(completions') = Elements(completions) \cup {c}
      BY <3>1, <3>2, ElementsOf DEF TypeOK, TaskType
    <3>4. Ended \subseteq Ended' /\ p.tkt \in Ended'
      BY <2>1, <3>1, <3>3 DEF Ended
    <3>5. (\A u \in Stream : u.tkt \in answered => u.tkt \in Ended)'
      BY <2>1, <2>4, <3>4 DEF Stream, TicketInv
    <3>6. p.tkt \in Worked /\ p.tkt \notin Worked' /\ Worked' \subseteq Worked
      BY <2>1 DEF TicketInv, Worked
    <3>7. (\A q, s \in running : q.tkt = s.tkt => q = s)'
      BY <2>1 DEF TicketInv
    <3>. QED
      BY <2>1, <2>2, <2>4, <3>5, <3>6, <3>7 DEF TicketInv
  <2>5. (IF p.id \in known THEN {"ok", "error"} ELSE {"expired"}) \subseteq Kinds
    BY DEF Kinds
  <2>. QED
    BY <2>3, <2>4, <2>5 DEF AgentResponds
<1>3. CASE \E k \in Keys : EnqueueBehind(k)
  <2>. PICK k \in Keys : EnqueueBehind(k)
    BY <1>3
  <2>1. /\ nextMsg \in Msgs /\ nextMsg' = nextMsg + 1
        /\ sq'.queues = [sq.queues EXCEPT ![k] = Append(sq.queues[k], nextMsg)]
        /\ UNCHANGED <<running, answered, incoming, completions, current>>
    BY DEF EnqueueBehind, Push, WithQueue
  <2>2. sq.queues \in [Keys -> Seq(Msgs)]
    BY DEF TypeOK, QueueType
  <2>3. /\ sq'.queues[k] = Append(sq.queues[k], nextMsg)
        /\ \A j \in Keys : j # k => sq'.queues[j] = sq.queues[j]
    BY <2>1, <2>2
  <2>4. Elements(Append(sq.queues[k], nextMsg)) = Elements(sq.queues[k]) \cup {nextMsg}
    BY <2>1, <2>2, ElementsOf
  <2>5. /\ Waiting(k)' = Waiting(k) \cup {nextMsg}
        /\ \A j \in Keys : j # k => Waiting(j)' = Waiting(j)
    BY <2>3, <2>4 DEF Waiting
  <2>6. nextMsg \notin answered \cup Worked
    BY <1>0 DEF TicketInv
  <2>7. \A j \in Keys : nextMsg \notin Waiting(j)
    BY <1>0
  <2>8. (\A j \in Keys : Waiting(j) \cap (answered \cup Worked) = {})'
    BY <2>1, <2>5, <2>6 DEF TicketInv, Worked
  <2>9. (\A i, j \in Keys : i # j => Waiting(i) \cap Waiting(j) = {})'
    BY <2>5, <2>7 DEF TicketInv
  <2>10. (answered \cup Worked \subseteq {m \in Msgs : m < nextMsg})'
    <3>1. ASSUME NEW m \in answered \cup Worked PROVE m \in Msgs /\ m < nextMsg'
      <4>1. m \in Msgs /\ m < nextMsg /\ m \in Nat
        BY <1>0, <3>1 DEF TicketInv
      <4>. QED
        BY <1>0, <2>1, <4>1
    <3>. QED
      BY <2>1, <3>1 DEF Worked
  <2>. QED
    BY <2>1, <2>8, <2>9, <2>10 DEF TicketInv, Worked, Stream, Ended
<1>d. ASSUME ~ \E p \in running, type \in {"chunk", "result"} : AgentUpdates(p, type),
             answered' = answered, nextMsg' = nextMsg, running' \subseteq running,
             NEW k \in Keys, sq' = sq \/ sq' = MarkIdle(sq, k)
      PROVE  TicketInv'
  <2>1. nextMsg <= nextMsg'
    BY <1>0, <1>d
  <2>2. \A j \in Keys : Waiting(j)' \subseteq Waiting(j)
    BY <1>d, WaitingIdled
  <2>. QED
    BY <1>a, <1>b, <1>d, <2>1, <2>2
<1>4. CASE \E k \in Keys : EnqueueDispatch(k)
  <2>. PICK k \in Keys : EnqueueDispatch(k)
    BY <1>4
  <2>1. nextMsg \in Msgs /\ nextMsg' = nextMsg + 1 /\ answered' = answered
    BY DEF EnqueueDispatch
  <2>2. sq'.queues = [sq.queues EXCEPT ![k] = <<>>]
    BY DispatchTicket
  <2>3. PICK batch : Newest(batch) = nextMsg /\ (PromptMapped(k, batch) \/ PromptHealed(k, batch))
    BY DispatchTicket
  <2>4. \A j \in Keys : Waiting(j)' \subseteq Waiting(j)
    BY <2>2, WaitingTaken
  <2>5. nextMsg <= nextMsg' /\ nextMsg < nextMsg'
    BY <1>0, <2>1
  <2>6. CASE running' = running
    BY <1>1, <1>a, <1>b, <2>1, <2>4, <2>5, <2>6
  <2>7. CASE SentAs(k, nextMsg)
    <3>1. nextMsg \notin answered \cup Worked /\ \A j \in Keys : nextMsg \notin Waiting(j)
      BY <1>0 DEF TicketInv
    <3>2. Fresh(nextMsg)
      BY <2>1, <2>4, <2>5, <3>1 DEF Fresh
    <3>. DEFINE r == [id |-> sessionMap'[k], tkt |-> nextMsg, left |-> MaxUpdates]
    <3>3. running' \subseteq running \cup {r} /\ r.tkt = nextMsg
      BY <2>7 DEF SentAs
    <3>. HIDE DEF r
    <3>. QED
      BY <1>1, <1>a, <1>c, <2>1, <2>4, <2>5, <3>2, <3>3
  <2>. QED
    BY <2>3, <2>6, <2>7, PromptRuns
<1>5. CASE FinishNext \/ FinishUnmapped
  <2>1. nextMsg' = nextMsg /\ answered' = answered /\ nextMsg <= nextMsg'
    BY <1>0, <1>5 DEF FinishNext, FinishUnmapped
  <2>2. PICK k \in Keys : k = current.key /\ sq'.queues = [sq.queues EXCEPT ![k] = <<>>]
    BY <1>5, DrainTicket
  <2>3. Waiting(k)' = {} /\ \A j \in Keys : j # k => Waiting(j)' = Waiting(j)
    BY <2>2, WaitingTaken
  <2>4. \A j \in Keys : Waiting(j)' \subseteq Waiting(j)
    BY <2>3
  <2>5. CASE running' = running
    BY <1>1, <1>a, <1>b, <2>1, <2>4, <2>5
  <2>6. ASSUME NEW m \in Waiting(k), SentAs(k, m) PROVE TicketInv'
    <3>1. m \in Msgs /\ m < nextMsg /\ m \notin answered \cup Worked
      BY <1>0, <2>6 DEF TicketInv
    <3>2. \A j \in Keys : m \notin Waiting(j)'
      BY <2>3, <2>6 DEF TicketInv
    <3>3. Fresh(m)
      BY <2>1, <3>1, <3>2 DEF Fresh
    <3>. DEFINE r == [id |-> sessionMap'[k], tkt |-> m, left |-> MaxUpdates]
    <3>4. running' \subseteq running \cup {r} /\ r.tkt = m
      BY <2>6 DEF SentAs
    <3>. HIDE DEF r
    <3>. QED
      BY <1>1, <1>a, <1>c, <2>1, <2>4, <3>3, <3>4
  <2>7. CASE FinishNext
    <3>1. PICK batch : Newest(batch) \in Waiting(k) /\ PromptMapped(k, batch)
      BY <2>2, <2>7, DrainTicket
    <3>. QED
      BY <2>5, <2>6, <3>1, PromptRuns
  <2>8. CASE FinishUnmapped
    BY <2>5, <2>8 DEF FinishUnmapped
  <2>. QED
    BY <1>5, <2>7, <2>8
<1>6. CASE \E k \in Keys : CreateSession(k) \/ NewCommand(k) \/ CancelCommand(k)
  <2>. PICK k \in Keys : CreateSession(k) \/ NewCommand(k) \/ CancelCommand(k)
    BY <1>6
  <2>1. /\ sq' = sq \/ sq' = MarkIdle(sq, k)
        /\ UNCHANGED <<answered, nextMsg, running>>
    BY DEF CreateSession, NewCommand, CancelCommand, MarkIdleDiscarding
  <2>. QED
    BY <1>1, <1>d, <2>1
<1>7. CASE FinishIdle
  <2>1. PICK k \in Keys : sq' = MarkIdle(sq, k)
    BY <1>7 DEF FinishIdle, TypeOK, TaskType, Completions
  <2>. QED
    BY <1>1, <1>7, <1>d, <2>1 DEF FinishIdle
<1>e. ASSUME sq' = sq, UNCHANGED <<answered, nextMsg>>, running' \subseteq running PROVE TicketInv'
  <2>1. PICK k : k \in Keys
    BY KeysAssumption
  <2>. QED
    BY <1>1, <1>d, <1>e, <2>1
<1>8. CASE \E t \in tasks : TaskLost(t) \/ TaskTimesOut(t)
  BY <1>8, <1>e DEF TaskLost, TaskTimesOut
<1>9. CASE AgentDies \/ ReaderEof \/ ForwardUpdate \/ TakeCompletion \/ CrashDisables
  BY <1>9, <1>e DEF AgentDies, ReaderEof, ForwardUpdate, TakeCompletion, CrashDisables
<1>10. CASE RespawnFails \/ InitializeFails \/ RestartSessionFails \/ RestoreSessions
            \/ StartFreshSession
  BY <1>10, <1>e DEF RespawnFails, InitializeFails, RestartSessionFails, RestoreSessions,
                     StartFreshSession, CrashRestarts
<1>11. CASE UNCHANGED vars
  BY <1>11, <1>e DEF vars
<1>. QED
  BY <1>1, <1>2, <1>3, <1>4, <1>5, <1>6, <1>7, <1>8, <1>9, <1>10, <1>11 DEF Next, Quiescent

LEMMA TicketInvariant == Spec => []TicketInv
<1>1. Init => TicketInv
  <2>. SUFFICES ASSUME Init PROVE TicketInv
    OBVIOUS
  <2>1. /\ answered = {} /\ running = {} /\ incoming = <<>>
        /\ \A k \in Keys : sq.queues[k] = <<>>
    BY DEF Init, NewQueue
  <2>. QED
    BY <2>1, NothingIn DEF TicketInv, Worked, Stream, Waiting
<1>. QED
  BY <1>1, TicketStep, TypeCorrect, InOrderHolds, PTL DEF Spec

(* An ACP session id that was handed out keeps its owner.                  *)
Kept == nextId <= nextId' /\ \A i \in Ids : i < nextId => owner'[i] = owner[i]

LEMMA KeptBy ==
    ASSUME TypeOK, NEW k \in AllKeys, NEW id,
           \/ id = nextId /\ nextId \in Ids
           \/ id \in Ids /\ id < nextId /\ owner[id] = k,
           owner' = [owner EXCEPT ![id] = k],
           nextId' = IF id = nextId THEN nextId + 1 ELSE nextId
    PROVE  Kept
<1>1. owner \in Backs /\ nextId \in Nat /\ \A i \in Ids : i \in Nat
  BY MapsAre DEF Ids
<1>2. nextId <= nextId'
  BY <1>1
<1>3. ASSUME NEW i \in Ids, i < nextId PROVE owner'[i] = owner[i]
  <2>1. CASE i = id
    BY <1>1, <1>3, <2>1 DEF Backs
  <2>2. CASE i # id
    BY <1>1, <2>2 DEF Backs
  <2>. QED
    BY <2>1, <2>2
<1>. QED
  BY <1>2, <1>3 DEF Kept

LEMMA OwnersKept ==
    ASSUME TypeOK, IsolationInv, [Next]_vars
    PROVE  Kept
<1>. USE DEF idVars
<1>0. ASSUME UNCHANGED <<owner, nextId>> PROVE Kept
  BY <1>0, MapsAre DEF Kept
<1>a. ASSUME NEW k \in AllKeys, SessionCreated(k) PROVE Kept
  BY <1>a, KeptBy DEF SessionCreated
<1>b. ASSUME NEW k \in Keys, HealRestored(k) PROVE Kept
  <2>1. PICK id \in RestoredIds(stale[k]) : Booked(k, id)
    BY <1>b DEF HealRestored
  <2>2. stale[k] \in Ids /\ stale[k] < nextId /\ owner[stale[k]] = k
    BY <1>b, MapsAre DEF HealRestored, Restorable, Maps, IsolationInv, MapOwned, MapOld
  <2>3. id = stale[k] \/ (id = nextId /\ nextId \in Ids)
    BY <2>1 DEF RestoredIds
  <2>. QED
    BY <2>1, <2>2, <2>3, KeptBy DEF Booked
<1>c. ASSUME NEW k \in Keys, HealRestored(k) \/ HealCreated(k) \/ HealFailed(k) PROVE Kept
  BY <1>0, <1>a, <1>b, <1>c DEF HealCreated, HealFailed
<1>1. ASSUME NEW k \in Keys, CreateSession(k) PROVE Kept
  BY <1>0, <1>a, <1>c, <1>1 DEF CreateSession
<1>2. ASSUME NEW k \in Keys, EnqueueDispatch(k) PROVE Kept
  <2>1. PICK batch : PromptMapped(k, batch) \/ PromptHealed(k, batch)
    BY <1>2 DEF EnqueueDispatch
  <2>. QED
    BY <1>0, <1>c, <2>1 DEF PromptMapped, PromptHealed
<1>3. ASSUME NEW k \in Keys, NewCommand(k) PROVE Kept
  <2>1. CASE UNCHANGED idVars
    BY <1>0, <2>1
  <2>2. CASE nextId \in Ids /\ owner' = [owner EXCEPT ![nextId] = k] /\ nextId' = nextId + 1
    BY <2>2, KeptBy
  <2>. QED
    BY <1>3, <2>1, <2>2 DEF NewCommand
<1>4. CASE RestoreSessions
  <2>1. PICK k0 \in {k \in AllKeys : Survivors[k] # None} :
          \E id \in RestoredIds(Survivors[k0]) :
             /\ owner' = [owner EXCEPT ![id] = k0]
             /\ nextId' = IF id = nextId THEN nextId + 1 ELSE nextId
    BY <1>4 DEF RestoreSessions
  <2>2. PICK id \in RestoredIds(Survivors[k0]) :
             /\ owner' = [owner EXCEPT ![id] = k0]
             /\ nextId' = IF id = nextId THEN nextId + 1 ELSE nextId
    BY <2>1
  <2>3. Survivors[k0] \in Ids /\ Survivors[k0] < nextId /\ owner[Survivors[k0]] = k0
    BY <2>1, SurvivorsOwned DEF Maps, MapOwned, MapOld
  <2>4. id = Survivors[k0] \/ (id = nextId /\ nextId \in Ids)
    BY <2>2 DEF RestoredIds
  <2>. QED
    BY <2>1, <2>2, <2>3, <2>4, KeptBy
<1>5. CASE StartFreshSession
  <2>1. /\ nextId \in Ids /\ owner' = [owner EXCEPT ![nextId] = DefaultKey]
        /\ nextId' = nextId + 1
    BY <1>5 DEF StartFreshSession
  <2>. QED
    BY <2>1, KeptBy
<1>6. ASSUME NEW k \in Keys, EnqueueBehind(k) \/ CancelCommand(k) PROVE Kept
  BY <1>0, <1>6 DEF EnqueueBehind, CancelCommand
<1>7. ASSUME NEW p \in running, NEW type, AgentUpdates(p, type) \/ AgentResponds(p) PROVE Kept
  BY <1>0, <1>7 DEF AgentUpdates, AgentResponds
<1>8. ASSUME NEW t \in tasks, TaskLost(t) \/ TaskTimesOut(t) PROVE Kept
  BY <1>0, <1>8 DEF TaskLost, TaskTimesOut
<1>9. CASE AgentDies \/ ReaderEof \/ ForwardUpdate \/ TakeCompletion \/ CrashDisables
           \/ RespawnFails \/ InitializeFails \/ RestartSessionFails
  BY <1>0, <1>9 DEF AgentDies, ReaderEof, ForwardUpdate, TakeCompletion, CrashDisables,
                    RespawnFails, InitializeFails, RestartSessionFails
<1>10. CASE FinishIdle \/ FinishNext \/ FinishUnmapped
  BY <1>0, <1>10 DEF FinishIdle, FinishNext, FinishUnmapped, PromptMapped
<1>11. CASE UNCHANGED vars
  BY <1>0, <1>11 DEF vars
<1>. QED
  BY <1>1, <1>2, <1>3, <1>4, <1>5, <1>6, <1>7, <1>8, <1>9, <1>10, <1>11 DEF Next, Quiescent

(* No step forgets that a session was interrupted or its prompt given up.  *)
LEMMA ExcusesStay ==
    ASSUME [Next]_vars
    PROVE  Excused \subseteq Excused'
<1>1. ASSUME NEW k \in Keys, CreateSession(k) \/ EnqueueDispatch(k) \/ EnqueueBehind(k)
                             \/ NewCommand(k) \/ CancelCommand(k)
      PROVE  Excused \subseteq Excused'
  BY <1>1 DEF CreateSession, EnqueueDispatch, EnqueueBehind, NewCommand, CancelCommand,
              MarkIdleDiscarding, Excused
<1>2. ASSUME NEW p \in running, NEW type, AgentUpdates(p, type) \/ AgentResponds(p)
      PROVE  Excused \subseteq Excused'
  BY <1>2 DEF AgentUpdates, AgentResponds, Excused
<1>3. ASSUME NEW t \in tasks, TaskLost(t) \/ TaskTimesOut(t) PROVE Excused \subseteq Excused'
  BY <1>3 DEF TaskLost, TaskTimesOut, Excused
<1>4. CASE AgentDies \/ ReaderEof \/ ForwardUpdate \/ TakeCompletion \/ CrashDisables \/ CrashRestarts
  BY <1>4 DEF AgentDies, ReaderEof, ForwardUpdate, TakeCompletion, CrashDisables,
              CrashRestarts, Excused
<1>5. CASE FinishIdle \/ FinishNext \/ FinishUnmapped
  BY <1>5 DEF FinishIdle, FinishNext, FinishUnmapped, Excused
<1>6. CASE UNCHANGED vars
  BY <1>6 DEF vars, Excused
<1>. QED
  BY <1>1, <1>2, <1>3, <1>4, <1>5, <1>6
  DEF Next, Quiescent, RespawnFails, InitializeFails, RestartSessionFails,
      RestoreSessions, StartFreshSession

(* The prompts that the agent works on.  A prompt keeps its task until the *)
(* agent answers it, unless the task gives up or the process is gone.      *)
LEMMA StillPlaced ==
    ASSUME TypeOK, TypeOK', Kept, Excused \subseteq Excused', conn' = conn,
           NEW p \in running, Placed(p), NEW r, r.id = p.id, r.tkt = p.tkt,
           \A t \in tasks : t.tkt = p.tkt /\ t.inc = conn => t \in tasks' \/ t.key \in Excused'
    PROVE  Placed(r)'
<1>1. p.id \in Ids /\ p.id < nextId /\ owner[p.id] \in Keys
  BY DEF TypeOK, TaskType, Prompts, Placed
<1>2. owner'[p.id] = owner[p.id] /\ nextId \in Nat /\ nextId' \in Nat /\ nextId <= nextId'
  <2>1. nextId' \in Nat
    BY DEF TypeOK, MapType
  <2>. QED
    BY <1>1, <2>1, MapsAre DEF Kept
<1>3. p.id < nextId'
  BY <1>1, <1>2 DEF Ids
<1>4. owner[p.id] \in Excused' \/ \E t \in tasks' : t.key = owner[p.id] /\ t.tkt = p.tkt /\ t.inc = conn
  BY DEF Placed
<1>. QED
  BY <1>1, <1>2, <1>3, <1>4 DEF Placed

LEMMA PlacedStep ==
    (/\ TypeOK /\ TypeOK' /\ IsolationInv /\ IsolationInv' /\ ExitNoticeFresh /\ TicketInv
     /\ DeadIsIdle /\ AllPlaced /\ [Next]_vars) => DeadIsIdle' /\ AllPlaced'
<1>. SUFFICES ASSUME TypeOK, TypeOK', IsolationInv, IsolationInv', ExitNoticeFresh, TicketInv,
                     DeadIsIdle, AllPlaced, [Next]_vars
              PROVE  DeadIsIdle' /\ AllPlaced'
  OBVIOUS
<1>. USE DEF connVars, agentVars, taskVars
<1>0. Kept /\ Excused \subseteq Excused'
  BY OwnersKept, ExcusesStay
<1>a. ASSUME running' = {} PROVE DeadIsIdle' /\ AllPlaced'
  BY <1>a DEF DeadIsIdle, AllPlaced
<1>b. ASSUME alive' = alive, conn' = conn, running' \subseteq running,
             \A t \in tasks : t \in tasks' \/ t.key \in Excused' \/ t.inc # conn
      PROVE  DeadIsIdle' /\ AllPlaced'
  <2>1. DeadIsIdle'
    BY <1>b DEF DeadIsIdle
  <2>2. ASSUME NEW p \in running' PROVE Placed(p)'
    <3>1. p \in running /\ Placed(p)
      BY <1>b, <2>2 DEF AllPlaced
    <3>. QED
      BY <1>0, <1>b, <3>1, StillPlaced
  <2>. QED
    BY <2>1, <2>2 DEF AllPlaced
<1>c. ASSUME NEW k \in Keys, NEW m, SentAs(k, m), alive' = alive, conn' = conn
      PROVE  DeadIsIdle' /\ AllPlaced'
  <2>a. PICK r : r = [id |-> sessionMap'[k], tkt |-> m, left |-> MaxUpdates]
    OBVIOUS
  <2>b. PICK n : n = [key |-> k, inc |-> conn, tkt |-> m]
    OBVIOUS
  <2>1. alive /\ running' = running \cup {r} /\ tasks' = tasks \cup {n} /\ sessionMap'[k] \in Ids
    BY <1>c, <2>a, <2>b DEF SentAs
  <2>2. r.id = sessionMap'[k] /\ r.tkt = m /\ n.key = k /\ n.inc = conn /\ n.tkt = m
    BY <2>a, <2>b
  <2>3. sessionMap'[k] # None
    BY <2>1 DEF Ids
  <2>4. owner'[r.id] = k /\ r.id < nextId'
    BY <2>2, <2>3 DEF IsolationInv, MapOwned, MapOld
  <2>5. Placed(r)'
    <3>1. \E t \in tasks' : t.key = owner'[r.id] /\ t.tkt = r.tkt /\ t.inc = conn'
      BY <1>c, <2>1, <2>2, <2>4
    <3>. QED
      BY <2>4, <3>1 DEF Placed
  <2>6. ASSUME NEW p \in running PROVE Placed(p)'
    <3>1. Placed(p)
      BY DEF AllPlaced
    <3>. QED
      BY <1>0, <1>c, <2>1, <3>1, StillPlaced
  <2>. QED
    <3>1. AllPlaced'
      BY <2>1, <2>5, <2>6 DEF AllPlaced
    <3>2. DeadIsIdle'
      BY <1>c, <2>1, Zenon DEF DeadIsIdle
    <3>. QED
      BY <3>1, <3>2
<1>1. ASSUME NEW p \in running, NEW type, AgentUpdates(p, type) PROVE DeadIsIdle' /\ AllPlaced'
  <2>a. PICK r : r = [p EXCEPT !.left = IF type = "result" THEN 0 ELSE @ - 1]
    OBVIOUS
  <2>1. /\ running' = (running \ {p}) \cup {r}
        /\ UNCHANGED <<alive, conn, tasks>>
    BY <1>1, <2>a DEF AgentUpdates
  <2>2. r.id = p.id /\ r.tkt = p.tkt
    BY <2>a DEF TypeOK, TaskType, Prompts
  <2>3. Placed(r)'
    <3>1. Placed(p)
      BY DEF AllPlaced
    <3>. QED
      BY <1>0, <2>1, <2>2, <3>1, StillPlaced
  <2>4. ASSUME NEW q \in running PROVE Placed(q)'
    <3>1. Placed(q)
      BY DEF AllPlaced
    <3>. QED
      BY <1>0, <2>1, <3>1, StillPlaced
  <2>. QED
    BY <2>1, <2>3, <2>4 DEF AllPlaced, DeadIsIdle
<1>2. ASSUME NEW p \in running, AgentResponds(p) PROVE DeadIsIdle' /\ AllPlaced'
  <2>1. running' = running \ {p} /\ UNCHANGED <<alive, conn>>
    BY <1>2 DEF AgentResponds
  <2>2. tasks' = tasks \/ \E t \in tasks : t.tkt = p.tkt /\ tasks' = tasks \ {t}
    BY <1>2 DEF AgentResponds, TaskEnds
  <2>3. \A t \in tasks : t.tkt # p.tkt => t \in tasks'
    BY <2>2
  <2>4. ASSUME NEW q \in running' PROVE Placed(q)'
    <3>1. q \in running /\ Placed(q) /\ q.tkt # p.tkt
      BY <2>1, <2>4 DEF AllPlaced, TicketInv
    <3>. QED
      BY <1>0, <2>1, <2>3, <3>1, StillPlaced
  <2>. QED
    BY <2>1, <2>4 DEF AllPlaced, DeadIsIdle
<1>3. ASSUME NEW t \in tasks, TaskLost(t) PROVE DeadIsIdle' /\ AllPlaced'
  BY <1>3, <1>b DEF TaskLost, TaskEnds
<1>4. ASSUME NEW t \in tasks, TaskTimesOut(t) PROVE DeadIsIdle' /\ AllPlaced'
  BY <1>4, <1>b DEF TaskTimesOut, TaskEnds, Excused
<1>5. ASSUME NEW k \in Keys, EnqueueDispatch(k) PROVE DeadIsIdle' /\ AllPlaced'
  <2>1. PICK batch : PromptMapped(k, batch) \/ PromptHealed(k, batch)
    BY <1>5 DEF EnqueueDispatch
  <2>2. UNCHANGED <<alive, conn>>
    BY <1>5, Zenon DEF EnqueueDispatch
  <2>3. (running' = running /\ tasks \subseteq tasks') \/ SentAs(k, Newest(batch))
    BY <2>1, PromptRuns
  <2>. QED
    BY <1>b, <1>c, <2>2, <2>3
<1>6. CASE FinishNext
  <2>1. PICK k \in Keys : \E batch : PromptMapped(k, batch)
    BY <1>6, DrainTicket
  <2>2. PICK batch : PromptMapped(k, batch)
    BY <2>1
  <2>3. UNCHANGED <<alive, conn>>
    BY <1>6, Zenon DEF FinishNext
  <2>4. (running' = running /\ tasks \subseteq tasks') \/ SentAs(k, Newest(batch))
    BY <2>2, PromptRuns
  <2>. QED
    BY <1>b, <1>c, <2>3, <2>4
<1>7. CASE AgentDies \/ RestoreSessions \/ StartFreshSession
  BY <1>7, <1>a DEF AgentDies, RestoreSessions, StartFreshSession
<1>8. CASE CrashDisables \/ RespawnFails \/ InitializeFails \/ RestartSessionFails
  <2>1. ExitReceived /\ running' = running
    BY <1>8 DEF CrashDisables, RespawnFails, InitializeFails, RestartSessionFails, CrashRestarts
  <2>2. running = {}
    BY <2>1, ExitConsumed, ExitFactsSame DEF DeadIsIdle
  <2>. QED
    BY <1>a, <2>1, <2>2
<1>d. ASSUME UNCHANGED <<alive, conn, running, tasks>> PROVE DeadIsIdle' /\ AllPlaced'
  BY <1>b, <1>d
<1>9. ASSUME NEW k \in Keys, CreateSession(k) \/ EnqueueBehind(k) \/ NewCommand(k) \/ CancelCommand(k)
      PROVE  DeadIsIdle' /\ AllPlaced'
  BY <1>9, <1>d DEF CreateSession, EnqueueBehind, NewCommand, CancelCommand
<1>10. CASE ReaderEof \/ ForwardUpdate \/ TakeCompletion \/ FinishIdle \/ FinishUnmapped
  BY <1>10, <1>d DEF ReaderEof, ForwardUpdate, TakeCompletion, FinishIdle, FinishUnmapped
<1>11. CASE UNCHANGED vars
  BY <1>11, <1>d DEF vars
<1>. QED
  BY <1>1, <1>2, <1>3, <1>4, <1>5, <1>6, <1>7, <1>8, <1>9, <1>10, <1>11 DEF Next, Quiescent

(* A session becomes idle only by a platform command or a completion.      *)
LEMMA ActiveMoves ==
    ASSUME TypeOK, [Next]_vars
    PROVE  FinishIdle \/ sq.active \subseteq sq'.active \cup Excused'
<1>0. sq \in QueueValues(Msgs)
  BY QueueTyped DEF TypeOK
<1>1. ASSUME NEW k \in Keys, EnqueueBehind(k) PROVE sq'.active = sq.active
  BY <1>0, <1>1, ActiveOf DEF EnqueueBehind
<1>2. ASSUME NEW k \in Keys, EnqueueDispatch(k) PROVE sq'.active = sq.active \cup {k}
  <2>0. ~IsActive(sq, k) /\ nextMsg \in Msgs /\ sq' = FlushPending(PushOnly(sq, k, nextMsg), k)
    BY <1>2 DEF EnqueueDispatch
  <2>1. \A m \in Msgs : FlushPending(PushOnly(sq, k, m), k).active = sq.active \cup {k}
    BY <1>0, <2>0, ActiveOf
  <2>. QED
    BY <2>0, <2>1
<1>3. ASSUME NEW k \in Keys, NewCommand(k) \/ CancelCommand(k)
      PROVE  sq.active \subseteq sq'.active \cup Excused'
  <2>1. CASE sq' = sq
    BY <2>1
  <2>2. CASE MarkIdleDiscarding(k)
    <3>1. sq'.active = sq.active \ {k} \/ sq'.active = sq.active
      BY <1>0, <2>2, ActiveOf DEF MarkIdleDiscarding
    <3>. QED
      BY <2>2, <3>1 DEF MarkIdleDiscarding, Excused
  <2>. QED
    BY <1>3, <2>1, <2>2 DEF NewCommand, CancelCommand
<1>4. CASE FinishNext \/ FinishUnmapped
  <2>1. PICK k \in Keys : sq.queues[k] # <<>> /\ sq' = DrainQueued(MarkIdle(sq, k), k)
    BY <1>4 DEF FinishNext, FinishUnmapped, TypeOK, TaskType, Completions
  <2>2. sq'.active = sq.active
    BY <1>0, <2>1, ActiveOf
  <2>. QED
    BY <2>2
<1>5. ASSUME NEW k \in Keys, CreateSession(k) PROVE sq' = sq
  BY <1>5 DEF CreateSession
<1>6. ASSUME NEW p \in running, NEW type, AgentUpdates(p, type) \/ AgentResponds(p) PROVE sq' = sq
  BY <1>6 DEF AgentUpdates, AgentResponds
<1>7. ASSUME NEW t \in tasks, TaskLost(t) \/ TaskTimesOut(t) PROVE sq' = sq
  BY <1>7 DEF TaskLost, TaskTimesOut
<1>8. AgentDies \/ ReaderEof \/ ForwardUpdate \/ TakeCompletion \/ CrashDisables \/ CrashRestarts
        => sq' = sq
  BY DEF AgentDies, ReaderEof, ForwardUpdate, TakeCompletion, CrashDisables, CrashRestarts
<1>9. UNCHANGED vars => sq' = sq
  BY DEF vars
<1>. QED
  BY <1>1, <1>2, <1>3, <1>4, <1>5, <1>6, <1>7, <1>8, <1>9
  DEF Next, Quiescent, RespawnFails, InitializeFails, RestartSessionFails,
      RestoreSessions, StartFreshSession

LEMMA ExpectedStep ==
    (/\ TypeOK /\ TypeOK' /\ IsolationInv /\ ServedInv /\ AllPlaced /\ AllExpected
     /\ [Next]_vars) => AllExpected'
<1>. SUFFICES ASSUME TypeOK, TypeOK', IsolationInv, ServedInv, AllPlaced, AllExpected, [Next]_vars
              PROVE  AllExpected'
  OBVIOUS
<1>0. Kept /\ Excused \subseteq Excused' /\ nextId \in Nat /\ nextId' \in Nat
  BY OwnersKept, ExcusesStay DEF TypeOK, MapType
<1>1. \A u \in Stream : u.type = "result" => u.id \in Ids
  <2>1. Stream \subseteq Updates \cup {ExitNotice}
    BY ElementsOf DEF Stream, TypeOK, ConnType
  <2>. QED
    BY <2>1 DEF Updates, ExitNotice
<1>2. CASE FinishIdle
  <2>1. incoming' = <<>>
    BY <1>2 DEF FinishIdle, Drained
  <2>. QED
    BY <2>1, NothingIn DEF AllExpected, Stream
<1>a. ASSUME sq.active \subseteq sq'.active \cup Excused',
             NEW u \in Stream, u.type = "result"
      PROVE  Expected(u)'
  <2>1. u.id \in Ids /\ Expected(u)
    BY <1>1, <1>a DEF AllExpected
  <2>2. owner'[u.id] = owner[u.id] /\ u.id < nextId' /\ owner[u.id] \in Keys
    BY <1>0, <2>1 DEF Kept, Expected, Ids
  <2>3. owner[u.id] \in Excused' \/ IsActive(sq', owner[u.id])
    BY <1>0, <1>a, <2>1 DEF Expected, IsActive
  <2>. QED
    BY <2>2, <2>3 DEF Expected, IsActive
<1>3. ASSUME NEW p \in running, NEW type, AgentUpdates(p, type) PROVE AllExpected'
  <2>a. PICK v : v = Update(type, p.id, p.tkt)
    OBVIOUS
  <2>1. /\ incoming' = Append(incoming, v)
        /\ UNCHANGED <<sq, owner, nextId, interrupted, abandoned>>
    BY <1>3, <2>a DEF AgentUpdates, idVars
  <2>2. v.id = p.id /\ v.type = type
    BY <2>a DEF Update
  <2>3. Stream' \subseteq Stream \cup {v}
    <3>1. DOMAIN incoming' = 1 .. Len(incoming) + 1
          /\ (\A i \in 1 .. Len(incoming) : incoming'[i] = incoming[i])
          /\ incoming'[Len(incoming) + 1] = v /\ DOMAIN incoming = 1 .. Len(incoming)
          /\ Len(incoming) \in Nat
      BY <2>1 DEF TypeOK, ConnType
    <3>2. ASSUME NEW i \in 1 .. Len(incoming) + 1 PROVE incoming'[i] \in Stream \cup {v}
      BY <3>1 DEF Stream, Elements
    <3>. QED
      BY <3>1, <3>2 DEF Stream, Elements
  <2>4. Placed(p)
    BY DEF AllPlaced
  <2>5. Expected(v)
    <3>1. owner[p.id] \in Excused \/ IsActive(sq, owner[p.id])
      <4>1. CASE owner[p.id] \in Excused
        BY <4>1
      <4>2. CASE owner[p.id] \notin Excused
        <5>1. HasTask(owner[p.id]) /\ owner[p.id] \in Keys \ interrupted
          BY <2>4, <4>2 DEF Placed, HasTask, Excused
        <5>. QED
          BY <5>1 DEF ServedInv, ServedBy
      <4>. QED
        BY <4>1, <4>2
    <3>. QED
      BY <2>2, <2>4, <3>1 DEF Placed, Expected
  <2>6. Expected(v)'
    BY <2>1, <2>5 DEF Expected, Excused
  <2>7. sq.active \subseteq sq'.active \cup Excused'
    BY <2>1
  <2>. QED
    BY <1>a, <2>3, <2>6, <2>7 DEF AllExpected
<1>4. CASE Unasked /\ ~FinishIdle
  <2>1. sq.active \subseteq sq'.active \cup Excused'
    BY <1>4, ActiveMoves
  <2>. QED
    BY <1>4, <1>a, <2>1 DEF AllExpected, Unasked
<1>. QED
  BY <1>2, <1>3, <1>4, StreamMoves

(* What the sessions were told.                                            *)
LEMMA ToldStep ==
    (/\ TypeOK /\ IsolationInv /\ AllExpected /\ AllTold /\ ResultBeforeComplete
     /\ [Next]_vars) => AllTold' /\ ResultBeforeComplete'
<1>. SUFFICES ASSUME TypeOK, IsolationInv, AllExpected, AllTold, ResultBeforeComplete, [Next]_vars
              PROVE  AllTold' /\ ResultBeforeComplete'
  OBVIOUS
<1>. USE DEF seenVars
<1>0. Excused \subseteq Excused'
  BY ExcusesStay
<1>a. ASSUME mute' = mute PROVE ResultBeforeComplete'
  BY <1>0, <1>a DEF ResultBeforeComplete, Excused
<1>b. ASSUME streamingCompleted' \subseteq streamingCompleted,
             sq.active \subseteq sq'.active \cup Excused',
             resultSeen \subseteq resultSeen' \cup Excused'
      PROVE  AllTold'
  BY <1>0, <1>b DEF AllTold, IsActive
<1>c. ASSUME ~FinishIdle, mute' = mute, streamingCompleted' = streamingCompleted,
             resultSeen \subseteq resultSeen' \cup Excused'
      PROVE  AllTold' /\ ResultBeforeComplete'
  BY <1>a, <1>b, <1>c, ActiveMoves
<1>1. CASE FinishIdle \/ FinishNext \/ FinishUnmapped
  <2>1. PICK k \in Keys : /\ k = current.key /\ CompleteSession(k)
                          /\ resultSeen \subseteq resultSeen' \cup {k}
    BY <1>1 DEF FinishIdle, FinishNext, FinishUnmapped, TypeOK, TaskType, Completions
  <2>2. sq.active \subseteq sq'.active \cup Excused' \cup {k}
    <3>1. CASE FinishIdle
      <4>1. sq' = MarkIdle(sq, k)
        BY <2>1, <3>1 DEF FinishIdle
      <4>2. sq'.active = sq.active \ {k} \/ sq'.active = sq.active
        BY <4>1, QueueTyped, ActiveOf DEF TypeOK
      <4>. QED
        BY <4>2
    <3>2. CASE ~FinishIdle
      BY <3>2, ActiveMoves
    <3>. QED
      BY <3>1, <3>2
  <2>3. AllTold'
    BY <1>0, <2>1, <2>2 DEF AllTold, CompleteSession, IsActive
  <2>4. mute' \subseteq mute \cup Excused
    BY <2>1 DEF CompleteSession, ReportsResult, AllTold
  <2>5. ResultBeforeComplete'
    BY <1>0, <2>4 DEF ResultBeforeComplete, Excused
  <2>. QED
    BY <2>3, <2>5
<1>2. CASE ForwardUpdate /\ ~FinishIdle
  <2>. DEFINE u == Head(incoming)
              k == reverseMap[u.id]
  <2>1. mute' = mute /\ sq' = sq /\ UNCHANGED <<interrupted, abandoned>>
    BY <1>2 DEF ForwardUpdate
  <2>2. resultSeen \subseteq resultSeen'
    BY <1>2 DEF ForwardUpdate
  <2>3. CASE streamingCompleted' = streamingCompleted
    BY <1>2, <1>c, <2>1, <2>2, <2>3
  <2>4. CASE /\ k # None /\ u.type = "result"
             /\ resultSeen' = resultSeen \cup {k}
             /\ streamingCompleted' = streamingCompleted \cup {k}
    <3>1. incoming # <<>> /\ incoming \in Seq(Updates \cup {ExitNotice})
      BY <1>2 DEF ForwardUpdate, TypeOK, ConnType
    <3>2. u \in Stream /\ u \in Updates \cup {ExitNotice}
      BY <3>1, ElementsOf DEF Stream
    <3>3. u.id \in Ids
      BY <2>4, <3>2 DEF Updates, ExitNotice
    <3>4. owner[u.id] = k
      BY <2>4, <3>3 DEF IsolationInv, BackOwned
    <3>5. k \in Excused \/ IsActive(sq, k)
      BY <2>4, <3>2, <3>4 DEF AllExpected, Expected
    <3>. HIDE DEF k, u
    <3>6. AllTold'
      BY <2>1, <2>4, <3>5 DEF AllTold, Excused, IsActive
    <3>. QED
      BY <1>a, <2>1, <3>6
  <2>. QED
    BY <1>2, <2>3, <2>4 DEF ForwardUpdate
<1>3. ASSUME NEW k \in Keys, EnqueueDispatch(k) PROVE AllTold' /\ ResultBeforeComplete'
  <2>1. /\ mute' = mute /\ streamingCompleted' = streamingCompleted
        /\ resultSeen' = resultSeen \ {k} /\ ~IsActive(sq, k)
        /\ UNCHANGED <<interrupted, abandoned>>
    BY <1>3 DEF EnqueueDispatch
  <2>2. sq.active \subseteq sq'.active \cup Excused'
    <3>1. ~FinishIdle
      BY <1>3 DEF EnqueueDispatch, FinishIdle
    <3>. QED
      BY <3>1, ActiveMoves
  <2>3. AllTold'
    BY <2>1, <2>2 DEF AllTold, Excused, IsActive
  <2>. QED
    BY <1>a, <2>1, <2>3
<1>4. ASSUME NEW k \in Keys, NewCommand(k) \/ CancelCommand(k), ~FinishIdle
      PROVE  AllTold' /\ ResultBeforeComplete'
  <2>1. mute' = mute /\ streamingCompleted' = streamingCompleted
    BY <1>4 DEF NewCommand, CancelCommand
  <2>2. resultSeen \subseteq resultSeen' \cup Excused'
    BY <1>4 DEF NewCommand, CancelCommand, MarkIdleDiscarding, Excused
  <2>. QED
    BY <1>4, <1>c, <2>1, <2>2
<1>d. ASSUME ~FinishIdle, UNCHANGED <<mute, streamingCompleted>>, resultSeen \subseteq resultSeen'
      PROVE  AllTold' /\ ResultBeforeComplete'
  BY <1>c, <1>d
<1>5. ASSUME NEW k \in Keys, CreateSession(k) \/ EnqueueBehind(k), ~FinishIdle
      PROVE  AllTold' /\ ResultBeforeComplete'
  BY <1>5, <1>d DEF CreateSession, EnqueueBehind
<1>6. ASSUME NEW p \in running, NEW type, AgentUpdates(p, type) \/ AgentResponds(p), ~FinishIdle
      PROVE  AllTold' /\ ResultBeforeComplete'
  BY <1>6, <1>d DEF AgentUpdates, AgentResponds
<1>7. ASSUME NEW t \in tasks, TaskLost(t) \/ TaskTimesOut(t), ~FinishIdle
      PROVE  AllTold' /\ ResultBeforeComplete'
  BY <1>7, <1>d DEF TaskLost, TaskTimesOut
<1>8. CASE (AgentDies \/ ReaderEof \/ TakeCompletion \/ CrashDisables) /\ ~FinishIdle
  BY <1>8, <1>d DEF AgentDies, ReaderEof, TakeCompletion, CrashDisables
<1>9. CASE CrashRestarts /\ ~FinishIdle
  BY <1>9, <1>d DEF CrashRestarts, NotifyCrash
<1>10. CASE UNCHANGED vars /\ ~FinishIdle
  BY <1>10, <1>d DEF vars
<1>. QED
  BY <1>1, <1>2, <1>3, <1>4, <1>5, <1>6, <1>7, <1>8, <1>9, <1>10
  DEF Next, Quiescent, RespawnFails, InitializeFails, RestartSessionFails,
      RestoreSessions, StartFreshSession

LEMMA TurnInvariant == Spec => []TurnInv
<1>1. Init => TurnInv
  <2>. SUFFICES ASSUME Init PROVE TurnInv
    OBVIOUS
  <2>1. running = {} /\ incoming = <<>> /\ streamingCompleted = {} /\ mute = {}
    BY DEF Init
  <2>. QED
    BY <2>1, NothingIn DEF TurnInv, DeadIsIdle, AllPlaced, AllExpected, AllTold,
                           ResultBeforeComplete, Stream
<1>2. (/\ TypeOK /\ TypeOK' /\ IsolationInv /\ IsolationInv' /\ ExitNoticeFresh /\ TicketInv
       /\ ServedInv /\ TurnInv /\ [Next]_vars) => TurnInv'
  BY PlacedStep, ExpectedStep, ToldStep DEF TurnInv
<1>. QED
  BY <1>1, <1>2, TypeCorrect, IsolationInvariant, ExitNoticeFreshHolds, TicketInvariant,
     ServedInvariant, PTL DEF Spec

(* Whichever branch select! takes first, an update that the agent streamed *)
(* before its response is not left in the queue when SessionComplete goes  *)
(* out for the prompt, and SessionComplete follows a result, unless the    *)
(* session was interrupted or a prompt of it given up.                     *)
THEOREM NoUpdateAfterCompleteHolds == Spec => []NoUpdateAfterComplete
<1>1. TypeOK /\ TicketInv /\ TurnInv => NoUpdateAfterComplete
  <2>. SUFFICES ASSUME TypeOK, TicketInv, TurnInv, NEW i \in DOMAIN incoming,
                       incoming[i].tkt \in answered
                PROVE  \/ \E j \in DOMAIN completions : completions[j].tkt = incoming[i].tkt
                       \/ current # None /\ current.tkt = incoming[i].tkt
    BY DEF NoUpdateAfterComplete, TurnInv
  <2>1. incoming[i].tkt \in Ended
    BY DEF TicketInv, Stream, Elements
  <2>. QED
    BY <2>1 DEF Ended, Elements
<1>. QED
  BY <1>1, TypeCorrect, TicketInvariant, TurnInvariant, PTL
=============================================================================
