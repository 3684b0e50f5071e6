--------------------------- MODULE LifecycleProofs ---------------------------
(***************************************************************************)
(* For every backoff and crash tracker: a disabled manager never runs      *)
(* again, and a manager is created only after its predecessor has ended.   *)
(* The second part is about one slot on its own (SlotRecovery): it is      *)
(* disabled exactly by a crash loop, and the delay doubles up to its cap.  *)
(***************************************************************************)
EXTENDS Supervisor, SlotRecovery, FiniteSetTheorems, FunctionTheorems, TLAPS

(* MANAGER_ORDER lists the three managers once each.                       *)
LEMMA Order ==
    /\ Len(MANAGER_ORDER) = 3
    /\ MANAGER_ORDER[1] = "tools" /\ MANAGER_ORDER[2] = "agents"
    /\ MANAGER_ORDER[3] = "channels"
BY DEF MANAGER_ORDER

(* The loop over the slots looks at a manager.                             *)
LEMMA CurrentIsManager == at \in 1 .. Len(MANAGER_ORDER) => Current \in Managers
BY Order DEF Current, Managers

(* record_crash_and_check and a new slot lifecycle are well formed.        *)
LEMMA CrashTyped ==
    ASSUME NEW x \in Lifecycles, NEW t \in Nat
    PROVE  RecordCrashAndCheck(x, t) \in Lifecycles
<1>1. x.timestamps \in SUBSET [n : Nat, at : Nat] /\ x.total \in Nat
      /\ x.current \in Nat /\ x.disabled \in BOOLEAN
  BY DEF Lifecycles
<1> DEFINE stamps == Recorded(x.timestamps, x.total + 1, t)
<1>2. stamps \in SUBSET [n : Nat, at : Nat]
  BY <1>1 DEF Recorded, Recent
<1>3. Doubled(x.current) \in Nat
  BY <1>1, LifecycleAssumption DEF Doubled
<1>4. IsCrashLoop(stamps, t) \in BOOLEAN
  BY DEF IsCrashLoop
<1> QED
  BY <1>1, <1>2, <1>3, <1>4 DEF RecordCrashAndCheck, Lifecycles

LEMMA NewTyped == NewLifecycle \in Lifecycles /\ ~NewLifecycle.disabled
BY LifecycleAssumption DEF NewLifecycle, Lifecycles

(* Type correctness of the supervisor's steps.                             *)
LEMMA TypeInit == Init => TypeOK
<1> SUFFICES ASSUME Init PROVE TypeOK
  OBVIOUS
<1>1. at \in 1 .. Len(MANAGER_ORDER) /\ now \in 0 .. MaxTime
  BY Order, SupervisorAssumption DEF Init
<1>2. handle \in [Managers -> BOOLEAN] /\ token \in [Managers -> BOOLEAN]
  BY Zenon DEF Init
<1>3. lc \in [Managers -> Lifecycles]
  <2>1. NewLifecycle \in Lifecycles
    BY NewTyped
  <2>2. lc = [m \in Managers |-> NewLifecycle]
    BY DEF Init
  <2> QED BY <2>1, <2>2
<1>4. gen \in [Managers -> Nat] /\ task \in [Managers -> {"none", "running", "ok", "failed"}]
  BY DEF Init
<1>5. cancelled \in BOOLEAN
  BY Zenon DEF Init
<1>6. {toolsTx, agentsCmdTx, agentsTools, channelsAgents, eventsFrom, eventsTo} \subseteq Nat
  BY DEF Init
<1> QED
  BY <1>1, <1>2, <1>3, <1>4, <1>5, <1>6 DEF Init, TypeOK

(* Advance and Back keep the loop inside the slots.                        *)
LEMMA LoopTyped ==
    ASSUME at \in 1 .. Len(MANAGER_ORDER),
           phase \in {"boot", "run", "check", "restart", "shutdown", "wait", "exited"},
           Advance("run") \/ Back
    PROVE  /\ at' \in 1 .. Len(MANAGER_ORDER)
           /\ phase' \in {"boot", "run", "check", "restart", "shutdown", "wait", "exited"}
BY Order DEF Advance, Back

(* create_manager keeps the wiring well formed.                            *)
LEMMA CreatedTyped ==
    ASSUME TypeOK, NEW m \in Managers, NEW boot \in BOOLEAN, Created(m, boot)
    PROVE  /\ gen' \in [Managers -> Nat]
           /\ {toolsTx, agentsCmdTx, agentsTools, channelsAgents, eventsFrom, eventsTo}'
                \subseteq Nat
<1>1. gen' \in [Managers -> Nat]
  BY DEF Created, TypeOK
<1>2. gen'[m] \in Nat
  BY <1>1
<1> QED
  BY <1>1, <1>2 DEF Created, TypeOK

LEMMA TypeStep == TypeOK /\ [Next]_vars => TypeOK'
<1> SUFFICES ASSUME TypeOK, [Next]_vars PROVE TypeOK'
  OBVIOUS
<1> USE Order, LoopTyped
<1>m. Current \in Managers
  BY CurrentIsManager DEF TypeOK
<1>c. RecordCrashAndCheck(lc[Current], now) \in Lifecycles
  BY <1>m, CrashTyped, SupervisorAssumption DEF TypeOK
<1>1. CASE Boots
  <2>1. Created(Current, TRUE) /\ UNCHANGED <<cancelled, now, lc, token, health, gaveUp>>
    BY <1>1 DEF Boots, BootSlot, BootFails
  <2>2. handle' \in [Managers -> BOOLEAN]
        /\ task' \in [Managers -> {"none", "running", "ok", "failed"}]
    <3>1. CASE BootSlot
      BY <3>1, <1>m, Zenon DEF BootSlot, Spawned, TypeOK
    <3>2. CASE BootFails
      BY <3>2 DEF BootFails, TypeOK
    <3> QED BY <1>1, <3>1, <3>2 DEF Boots
  <2>3. at' \in 1 .. Len(MANAGER_ORDER)
        /\ phase' \in {"boot", "run", "check", "restart", "shutdown", "wait", "exited"}
    <3>1. CASE BootSlot
      BY <3>1 DEF BootSlot, TypeOK
    <3>2. CASE BootFails
      BY <3>2 DEF BootFails
    <3> QED BY <1>1, <3>1, <3>2 DEF Boots
  <2> QED BY <1>m, <2>1, <2>2, <2>3, CreatedTyped DEF TypeOK
<1>2. CASE HealthTick
  BY <1>2 DEF HealthTick, TypeOK, slotVars, wireVars
<1>3. CASE Checks
  <2>1. UNCHANGED <<now, token, task, gen, wireVars, gaveUp>>
    BY <1>3 DEF Checks, CheckPasses, CheckDisables, CheckBacksOff
  <2>2. lc' \in [Managers -> Lifecycles] /\ handle' \in [Managers -> BOOLEAN]
        /\ cancelled' \in BOOLEAN
    BY <1>3, <1>m, <1>c DEF Checks, CheckPasses, CheckDisables, CheckBacksOff, TypeOK
  <2>3. at' \in 1 .. Len(MANAGER_ORDER)
        /\ phase' \in {"boot", "run", "check", "restart", "shutdown", "wait", "exited"}
    BY <1>3 DEF Checks, CheckPasses, CheckDisables, CheckBacksOff, TypeOK
  <2>4. health' \in {"Healthy", "Degraded"}
    BY <1>3 DEF Checks, CheckPasses, CheckDisables, CheckBacksOff, Refresh, TypeOK
  <2> QED BY <2>1, <2>2, <2>3, <2>4 DEF TypeOK, wireVars
<1>4. CASE Restarts
  <2>1. Created(Current, FALSE) /\ UNCHANGED <<cancelled, now, lc>>
    BY <1>4 DEF Restarts, Restart, RestartFails
  <2>2. handle' \in [Managers -> BOOLEAN] /\ token' \in [Managers -> BOOLEAN]
        /\ task' \in [Managers -> {"none", "running", "ok", "failed"}]
        /\ gaveUp' \subseteq Managers
    BY <1>4, <1>m DEF Restarts, Restart, RestartFails, Spawned, TypeOK
  <2>3. at' \in 1 .. Len(MANAGER_ORDER)
        /\ phase' \in {"boot", "run", "check", "restart", "shutdown", "wait", "exited"}
    BY <1>4 DEF Restarts, Restart, RestartFails, TypeOK
  <2>4. health' \in {"Healthy", "Degraded"}
    BY <1>4 DEF Restarts, Restart, RestartFails, Refresh, TypeOK
  <2> QED BY <1>m, <2>1, <2>2, <2>3, <2>4, CreatedTyped DEF TypeOK
<1>5. CASE ShutdownBegins
  BY <1>5 DEF ShutdownBegins, TypeOK, slotVars, wireVars
<1>6. CASE CancelSlot
  <2>1. at' \in 1 .. Len(MANAGER_ORDER)
        /\ phase' \in {"boot", "run", "check", "restart", "shutdown", "wait", "exited"}
    BY <1>6 DEF CancelSlot, TypeOK
  <2> QED BY <1>6, <1>m, <2>1 DEF CancelSlot, TypeOK, wireVars
<1>7. CASE Awaits
  <2>1. at' \in 1 .. Len(MANAGER_ORDER)
        /\ phase' \in {"boot", "run", "check", "restart", "shutdown", "wait", "exited"}
    BY <1>7 DEF Awaits, AwaitSlot, AwaitTimesOut, TypeOK
  <2> QED BY <1>7, <1>m, <2>1 DEF Awaits, AwaitSlot, AwaitTimesOut, TypeOK, slotVars, wireVars
<1>8. CASE Signal \/ Tick
  <2>1. now' \in 0 .. MaxTime
    BY <1>8, SupervisorAssumption DEF Signal, Tick, TypeOK
  <2>3. cancelled' \in BOOLEAN
    BY <1>8, Zenon DEF Signal, Tick, TypeOK
  <2>2. UNCHANGED <<phase, at, slotVars, wireVars, health, gaveUp>>
    BY <1>8 DEF Signal, Tick
  <2> QED BY <2>1, <2>2, <2>3 DEF TypeOK, slotVars, wireVars
<1>9. CASE \E m \in Managers : TaskStops(m) \/ TaskFails(m)
  <2>1. PICK m \in Managers : TaskStops(m) \/ TaskFails(m)
    BY <1>9
  <2>2. task' \in [Managers -> {"none", "running", "ok", "failed"}]
    BY <2>1 DEF TaskStops, TaskFails, TypeOK
  <2>3. UNCHANGED <<phase, at, cancelled, now, handle, lc, token, gen, wireVars,
                    health, gaveUp>>
    BY <2>1 DEF TaskStops, TaskFails
  <2> QED BY <2>2, <2>3 DEF TypeOK, wireVars
<1>10. CASE UNCHANGED vars
  BY <1>10 DEF vars, TypeOK, slotVars, wireVars
<1> QED
  BY <1>1, <1>2, <1>3, <1>4, <1>5, <1>6, <1>7, <1>8, <1>9, <1>10 DEF Next

(* The supervisor's fields keep their types.                               *)
THEOREM TypeCorrect == Spec => []TypeOK
BY TypeInit, TypeStep, PTL DEF Spec

-----------------------------------------------------------------------------
(* What the two loops know of the slot they are at: boot has not reached   *)
(* it yet and nobody has crashed; a restart is under way only for a        *)
(* manager that failed and was not disabled.                               *)
Booting ==
    phase = "boot" =>
        /\ \A m \in Managers : ~lc[m].disabled
        /\ \A i \in 1 .. 3 : i >= at => task[MANAGER_ORDER[i]] = "none"
Restarting == phase = "restart" => task[Current] = "failed" /\ ~lc[Current].disabled
LoopInv == TypeOK /\ Booting /\ Restarting /\ DisabledStaysDown

LEMMA LoopInit == Init => LoopInv
<1> SUFFICES ASSUME Init PROVE LoopInv
  OBVIOUS
<1>1. TypeOK
  BY TypeInit
<1>2. \A m \in Managers : ~lc[m].disabled /\ task[m] = "none"
  BY NewTyped DEF Init
<1>3. \A i \in 1 .. 3 : MANAGER_ORDER[i] \in Managers
  BY Order DEF Managers
<1> QED
  BY <1>1, <1>2, <1>3 DEF Init, LoopInv, Booting, Restarting, DisabledStaysDown

LEMMA LoopStep == LoopInv /\ [Next]_vars => LoopInv'
<1> SUFFICES ASSUME LoopInv, [Next]_vars PROVE LoopInv'
  OBVIOUS
<1> USE Order
<1>t. TypeOK /\ TypeOK'
  BY TypeStep DEF LoopInv
<1>m. Current \in Managers
  BY <1>t, CurrentIsManager DEF TypeOK
<1>o. \A i \in 1 .. 3 : MANAGER_ORDER[i] \in Managers
  BY DEF Managers
<1>d. \A i, j \in 1 .. 3 : i # j => MANAGER_ORDER[i] # MANAGER_ORDER[j]
  OBVIOUS
<1>u. ASSUME UNCHANGED <<task, lc>>, phase' # "boot", phase' # "restart"
      PROVE  LoopInv'
  BY <1>u, <1>t DEF LoopInv, Booting, Restarting, DisabledStaysDown
<1>1. CASE BootSlot
  <2>1. phase' \in {"boot", "run"} /\ (phase' = "boot" => at' = at + 1)
    BY <1>1, <1>t DEF BootSlot, Advance, TypeOK
  <2>2. task' = [task EXCEPT ![MANAGER_ORDER[at]] = "running"] /\ lc' = lc
    BY <1>1 DEF BootSlot, Spawned, Current
  <2>3. \A m \in Managers : ~lc[m].disabled
    BY <1>1 DEF LoopInv, Booting, BootSlot
  <2>4. \A i \in 1 .. 3 : i >= at + 1 => task'[MANAGER_ORDER[i]] = "none"
    BY <1>1, <2>2, <1>d, <1>o, <1>t DEF LoopInv, Booting, BootSlot, TypeOK
  <2> QED
    BY <1>t, <2>1, <2>2, <2>3, <2>4 DEF LoopInv, Booting, Restarting, DisabledStaysDown
<1>2. CASE BootFails
  BY <1>2, <1>u DEF BootFails
<1>3. CASE HealthTick \/ ShutdownBegins
  BY <1>3, <1>u DEF HealthTick, ShutdownBegins, slotVars
<1>4. CASE CheckPasses
  BY <1>4, <1>u DEF CheckPasses, Advance
<1>5. CASE CheckDisables
  <2>1. phase' \notin {"boot", "restart"} /\ task' = task /\ task[Current] = "failed"
    BY <1>5 DEF CheckDisables, Advance
  <2>2. \A m \in Managers : m # Current => lc'[m] = lc[m]
    BY <1>5, <1>t DEF CheckDisables, TypeOK
  <2> QED
    BY <1>t, <2>1, <2>2 DEF LoopInv, Booting, Restarting, DisabledStaysDown
<1>6. CASE CheckBacksOff
  <2>1. phase' = "restart" /\ task' = task /\ task[Current] = "failed"
        /\ ~lc'[Current].disabled /\ at' = at
    BY <1>6 DEF CheckBacksOff
  <2>2. \A m \in Managers : m # Current => lc'[m] = lc[m]
    BY <1>6, <1>t DEF CheckBacksOff, TypeOK
  <2>3. Current' = Current
    BY <2>1 DEF Current
  <2> QED
    BY <1>t, <2>1, <2>2, <2>3 DEF LoopInv, Booting, Restarting, DisabledStaysDown
<1>7. CASE Restart
  <2>1. phase' \notin {"boot", "restart"} /\ lc' = lc
    BY <1>7 DEF Restart, Advance
  <2>2. task' = [task EXCEPT ![Current] = "running"] /\ ~lc[Current].disabled
    BY <1>7 DEF Restart, Spawned, LoopInv, Restarting
  <2> QED
    BY <1>t, <2>1, <2>2 DEF LoopInv, Booting, Restarting, DisabledStaysDown, TypeOK
<1>8. CASE RestartFails
  BY <1>8, <1>u DEF RestartFails, Advance
<1>9. CASE CancelSlot \/ AwaitSlot
  BY <1>9, <1>u DEF CancelSlot, AwaitSlot, Back, slotVars
<1>10. CASE AwaitTimesOut
  <2>1. phase' \notin {"boot", "restart"} /\ lc' = lc
    BY <1>10 DEF AwaitTimesOut, Back
  <2>2. \A m \in Managers : task'[m] = "running" => task[m] = "running"
    BY <1>10, <1>t, <1>m DEF AwaitTimesOut, TypeOK
  <2> QED
    BY <1>t, <2>1, <2>2 DEF LoopInv, Booting, Restarting, DisabledStaysDown
<1>11. CASE (Signal \/ Tick) \/ UNCHANGED vars
  <2>1. UNCHANGED <<phase, at, task, lc>>
    BY <1>11 DEF Signal, Tick, vars, slotVars
  <2>2. Current' = Current
    BY <2>1 DEF Current
  <2> QED
    BY <1>t, <2>1, <2>2 DEF LoopInv, Booting, Restarting, DisabledStaysDown
<1>12. CASE \E m \in Managers : TaskStops(m) \/ TaskFails(m)
  <2>1. PICK k \in Managers : TaskStops(k) \/ TaskFails(k)
    BY <1>12
  <2>2. UNCHANGED <<phase, at, lc>> /\ task[k] = "running"
    BY <2>1 DEF TaskStops, TaskFails
  <2>3. \A m \in Managers : task'[m] = task[m] \/ (m = k /\ task'[m] # "running")
    BY <2>1, <1>t DEF TaskStops, TaskFails, TypeOK
  <2>4. Current' = Current
    BY <2>2 DEF Current
  <2>5. Booting'
    BY <2>2, <2>3, <1>o DEF LoopInv, Booting
  <2>6. Restarting'
    BY <2>2, <2>3, <2>4, <1>m DEF LoopInv, Restarting
  <2>7. DisabledStaysDown'
    BY <2>2, <2>3 DEF LoopInv, DisabledStaysDown
  <2> QED
    BY <1>t, <2>5, <2>6, <2>7 DEF LoopInv
<1> QED
  BY <1>1, <1>2, <1>3, <1>4, <1>5, <1>6, <1>7, <1>8, <1>9, <1>10, <1>11, <1>12
  DEF Next, Boots, Checks, Restarts, Awaits

(* A manager that the crash tracker disabled never runs again.             *)
THEOREM DisabledStaysDownHolds == Spec => []DisabledStaysDown
<1>1. LoopInv => DisabledStaysDown
  BY DEF LoopInv
<1> QED
  BY <1>1, LoopInit, LoopStep, PTL DEF Spec

(* Steps that create a manager find its predecessor gone.                  *)
LEMMA CreationStep ==
    ASSUME LoopInv, Next
    PROVE  \A m \in Managers : gen'[m] # gen[m] => task[m] \in {"none", "failed"}
<1> USE Order
<1>m. Current \in Managers /\ TypeOK
  BY CurrentIsManager DEF LoopInv, TypeOK
<1>1. CASE Boots \/ Restarts
  <2>1. task[Current] \in {"none", "failed"}
    <3>1. CASE Boots
      <4>1. phase = "boot"
        BY <3>1 DEF Boots, BootSlot, BootFails
      <4>2. at \in 1 .. 3 /\ \A i \in 1 .. 3 : i >= at => task[MANAGER_ORDER[i]] = "none"
        BY <4>1, <1>m DEF LoopInv, Booting, TypeOK
      <4>3. task[MANAGER_ORDER[at]] = "none"
        BY <4>2
      <4> QED BY <4>3 DEF Current
    <3>2. CASE Restarts
      BY <3>2 DEF Restarts, Restart, RestartFails, LoopInv, Restarting
    <3> QED BY <1>1, <3>1, <3>2
  <2>2. gen' = [gen EXCEPT ![Current] = gen[Current] + 1]
    BY <1>1 DEF Boots, BootSlot, BootFails, Restarts, Restart, RestartFails, Created
  <2> QED BY <2>1, <2>2, <1>m DEF TypeOK
<1>2. CASE ~(Boots \/ Restarts)
  <2>1. gen' = gen
    BY <1>2 DEF Next, HealthTick, Checks, CheckPasses, CheckDisables, CheckBacksOff,
       ShutdownBegins, CancelSlot, Awaits, AwaitSlot, AwaitTimesOut, Signal, Tick,
       TaskStops, TaskFails, slotVars
  <2> QED BY <2>1
<1> QED BY <1>1, <1>2

(* There are never two managers of a kind.                                 *)
THEOREM OneIncarnationHolds == Spec => OneIncarnation
<1>1. LoopInv /\ [Next]_vars =>
        [\A m \in Managers : gen'[m] # gen[m] => task[m] \in {"none", "failed"}]_vars
  BY CreationStep
<1> QED
  BY <1>1, LoopInit, LoopStep, PTL DEF Spec, OneIncarnation

-----------------------------------------------------------------------------
(***************************************************************************)
(* One slot: the crash windows, the delays and the shape of its state.     *)
(***************************************************************************)

(* What was pruned is older than the long window, crashes are numbered in  *)
(* order, and none lies in the future.                                     *)
PrunedAreOld == \A h \in history \ slot.timestamps : h.at + LongWindow <= clock
Numbered     == \A h \in history : h.n <= slot.total /\ h.at <= clock

RecoveryInv == SlotTypeOK /\ PrunedAreOld /\ Numbered /\ DisabledIffLoop

(* The crash that record_crash adds, in the terms of the whole history:    *)
(* the windows of earlier crashes are as before, and its own windows are   *)
(* what is_crash_loop counts in the pruned time stamps.                    *)
LEMMA CrashWindows ==
    ASSUME SlotTypeOK, PrunedAreOld, Numbered,
           NEW window \in Nat, window <= LongWindow,
           NEW c0 \in Stamps, c0.n = slot.total + 1, c0.at = clock
    PROVE  /\ \A c \in history :
                 Within(history \cup {c0}, c, window) = Within(history, c, window)
           /\ Within(history \cup {c0}, c0, window)
                = Recent(Recent(slot.timestamps, clock, LongWindow) \cup {c0}, clock, window)
<1>1. ASSUME NEW c \in history
      PROVE  Within(history \cup {c0}, c, window) = Within(history, c, window)
  <2>1. c.n \in Nat /\ c.n <= slot.total /\ slot.total \in Nat
    BY DEF SlotTypeOK, Numbered, Stamps
  <2>2. ~ (c0.n <= c.n)
    BY <2>1
  <2>. QED
    BY <2>2 DEF Within
<1>2. ASSUME NEW h \in history \cup {c0}
      PROVE  /\ h.n <= c0.n
             /\ c0.at < h.at + window <=> clock - h.at < window
             /\ clock - h.at < window => clock - h.at < LongWindow
             /\ h.at + LongWindow <= clock => ~ (clock - h.at < window)
  <2>1. h.n \in Nat /\ h.at \in Nat /\ clock \in Nat /\ slot.total \in Nat
    BY DEF SlotTypeOK, Stamps
  <2>2. h.n <= slot.total + 1 /\ h.at <= clock
    BY <2>1 DEF Numbered
  <2>3. LongWindow \in Nat
    BY LifecycleAssumption
  <2>. QED
    BY <2>1, <2>2, <2>3
<1>3. slot.timestamps \subseteq history
  BY DEF SlotTypeOK
<1>4. \A h \in history : h \notin slot.timestamps => h.at + LongWindow <= clock
  BY DEF PrunedAreOld
<1>5. Within(history \cup {c0}, c0, window)
        = {h \in history \cup {c0} : clock - h.at < window}
  BY <1>2 DEF Within
<1>6. Recent(Recent(slot.timestamps, clock, LongWindow) \cup {c0}, clock, window)
        = {h \in history \cup {c0} : clock - h.at < window}
  BY <1>2, <1>3, <1>4 DEF Recent
<1>. QED
  BY <1>1, <1>5, <1>6

(* What HandleCrash records is a crash loop by the book exactly when       *)
(* is_crash_loop says so, and what was one before is one still.            *)
LEMMA CrashVerdict ==
    ASSUME SlotTypeOK, PrunedAreOld, Numbered, Window <= LongWindow,
           NEW c0 \in Stamps, c0.n = slot.total + 1, c0.at = clock
    PROVE  /\ \A c \in history : LoopAt(history \cup {c0}, c) <=> LoopAt(history, c)
           /\ LoopAt(history \cup {c0}, c0)
                <=> IsCrashLoop(Recent(slot.timestamps, clock, LongWindow) \cup {c0}, clock)
<1>1. Window \in Nat /\ LongWindow \in Nat /\ LongWindow <= LongWindow
  BY LifecycleAssumption
<1>2. /\ \A c \in history :
           Within(history \cup {c0}, c, Window) = Within(history, c, Window)
      /\ Within(history \cup {c0}, c0, Window)
           = Recent(Recent(slot.timestamps, clock, LongWindow) \cup {c0}, clock, Window)
  BY <1>1, CrashWindows
<1>3. /\ \A c \in history :
           Within(history \cup {c0}, c, LongWindow) = Within(history, c, LongWindow)
      /\ Within(history \cup {c0}, c0, LongWindow)
           = Recent(Recent(slot.timestamps, clock, LongWindow) \cup {c0}, clock, LongWindow)
  BY <1>1, CrashWindows
<1>. QED
  BY <1>2, <1>3, Zenon DEF LoopAt, IsCrashLoop

LEMMA RecoveryInit == SlotInit => RecoveryInv
  BY LifecycleAssumption DEF SlotInit, NewLifecycle, RecoveryInv, SlotTypeOK, PrunedAreOld,
     Numbered, DisabledIffLoop, Stamps

LEMMA RecoveryStep ==
    ASSUME Window <= LongWindow, RecoveryInv, [SlotNext]_recoveryVars
    PROVE  RecoveryInv'
<1>. USE LifecycleAssumption DEF RecoveryInv
<1>1. CASE SlotTick
  BY <1>1 DEF SlotTick, SlotTypeOK, PrunedAreOld, Numbered, DisabledIffLoop, Stamps
<1>2. CASE Exits
  BY <1>2 DEF Exits, SlotTypeOK, PrunedAreOld, Numbered, DisabledIffLoop
<1>3. CASE HandleCrash
  <2>. DEFINE c0 == [n |-> slot.total + 1, at |-> clock]
              stamps == Recent(slot.timestamps, clock, LongWindow) \cup {c0}
  <2>1. c0 \in Stamps /\ c0.n = slot.total + 1 /\ c0.at = clock
    BY DEF SlotTypeOK, Stamps
  <2>2. /\ slot'.timestamps = stamps /\ slot'.total = slot.total + 1
        /\ slot'.current \in Nat
        /\ history' = history \cup {c0} /\ clock' = clock
        /\ slot'.disabled = (slot.disabled \/ IsCrashLoop(stamps, clock))
    BY <1>3 DEF HandleCrash, RecordCrashAndCheck, Recorded, SlotTypeOK, Doubled
  <2>3. /\ \A c \in history : LoopAt(history \cup {c0}, c) <=> LoopAt(history, c)
        /\ LoopAt(history \cup {c0}, c0) <=> IsCrashLoop(stamps, clock)
    BY <2>1, CrashVerdict
  <2>. HIDE DEF c0
  <2>4. DisabledIffLoop'
    <3>1. slot'.disabled <=> (slot.disabled \/ IsCrashLoop(stamps, clock))
      BY <2>2, Zenon
    <3>2. (\E c \in history' : LoopAt(history', c))
            <=> (\E c \in history : LoopAt(history, c)) \/ IsCrashLoop(stamps, clock)
      BY <2>2, <2>3, Zenon
    <3>. QED
      BY <3>1, <3>2, Zenon DEF DisabledIffLoop
  <2>5. SlotTypeOK'
    <3>1. slot'.disabled \in BOOLEAN
      BY <2>2, Zenon
    <3>2. wake' \in Nat /\ fails' \in Nat
          /\ status' \in {"running", "exited", "sleeping", "disabled", "forgotten"}
      BY <1>3 DEF HandleCrash, SlotTypeOK
    <3>. QED
      BY <2>1, <2>2, <3>1, <3>2 DEF SlotTypeOK, Recent
  <2>6. PrunedAreOld'
    BY <2>1, <2>2 DEF PrunedAreOld, Recent, SlotTypeOK, Stamps
  <2>7. Numbered'
    BY <2>1, <2>2 DEF Numbered, SlotTypeOK, Stamps
  <2>. QED
    BY <2>4, <2>5, <2>6, <2>7
<1>4. CASE Recovers
  <2>1. /\ slot'.timestamps = slot.timestamps /\ slot'.total = slot.total
        /\ slot'.disabled = slot.disabled /\ slot'.current \in Nat
    BY <1>4 DEF Recovers, BackoffReset, SlotTypeOK
  <2>. QED
    BY <1>4, <2>1 DEF Recovers, SlotTypeOK, PrunedAreOld, Numbered, DisabledIffLoop
<1>5. CASE HandshakeFails
  BY <1>5 DEF HandshakeFails, SlotTypeOK, PrunedAreOld, Numbered, DisabledIffLoop
<1>6. CASE SpawnFails
  BY <1>6 DEF SpawnFails, SlotTypeOK, PrunedAreOld, Numbered, DisabledIffLoop
<1>7. CASE UNCHANGED recoveryVars
  BY <1>7 DEF recoveryVars, SlotTypeOK, PrunedAreOld, Numbered, DisabledIffLoop
<1>. QED
  BY <1>1, <1>2, <1>3, <1>4, <1>5, <1>6, <1>7 DEF SlotNext

(* Pruning by record_crash never changes the verdict of is_crash_loop: a   *)
(* slot is disabled if and only if there was a crash loop.                 *)
THEOREM DisabledIffLoopHolds ==
    ASSUME Window <= LongWindow
    PROVE  SlotSpec => []DisabledIffLoop
<1>1. RecoveryInv /\ [SlotNext]_recoveryVars => RecoveryInv'
  BY RecoveryStep
<1>2. RecoveryInv => DisabledIffLoop
  BY DEF RecoveryInv
<1>. QED
  BY <1>1, <1>2, RecoveryInit, PTL DEF SlotSpec

(***************************************************************************)
(* The delays                                                              *)
(***************************************************************************)
(* The provers know nothing of powers; the library knows how many subsets  *)
(* a finite set has.  The subsets of 1 .. n+1 are those of 1 .. n, without *)
(* and with n+1.                                                           *)
LEMMA PowersOfTwo ==
    ASSUME NEW n \in Nat
    PROVE  2^n \in Nat /\ 2^(n+1) = 2^n + 2^n
<1>. DEFINE small == SUBSET (1 .. n)
            large == {A \cup {n+1} : A \in small}
            add   == [A \in small |-> A \cup {n+1}]
<1>1. /\ IsFiniteSet(1 .. n) /\ Cardinality(1 .. n) = n
      /\ IsFiniteSet(1 .. n+1) /\ Cardinality(1 .. n+1) = n + 1
  BY FS_Interval
<1>2. /\ IsFiniteSet(small) /\ Cardinality(small) = 2^n
      /\ Cardinality(SUBSET (1 .. n+1)) = 2^(n+1)
  BY <1>1, FS_SUBSET, Zenon
<1>3. Cardinality(small) \in Nat
  BY <1>2, FS_CardinalityType
<1>4. IsFiniteSet(large) /\ Cardinality(large) = Cardinality(small)
  <2>1. \A A, B \in small : add[A] = add[B] => A = B
    OBVIOUS
  <2>2. add \in [small -> large] /\ \A b \in large : \E a \in small : add[a] = b
    OBVIOUS
  <2>3. add \in Bijection(small, large)
    BY <2>1, <2>2 DEF Bijection, Injection, Surjection, IsInjective
  <2>4. ExistsBijection(small, large)
    BY <2>3 DEF ExistsBijection
  <2>. QED
    BY <1>2, <2>4, FS_Bijection
<1>5. small \cap large = {}
  OBVIOUS
<1>6. SUBSET (1 .. n+1) = small \cup large
  <2>1. ASSUME NEW A \in SUBSET (1 .. n+1) PROVE A \in small \cup large
    <3>1. CASE n + 1 \in A
      <4>1. A \ {n+1} \in small /\ A = (A \ {n+1}) \cup {n+1}
        BY <3>1
      <4>. QED
        BY <4>1
    <3>2. CASE n + 1 \notin A
      BY <3>2
    <3>. QED
      BY <3>1, <3>2
  <2>2. ASSUME NEW A \in small PROVE A \in SUBSET (1 .. n+1) /\ A \cup {n+1} \in SUBSET (1 .. n+1)
    OBVIOUS
  <2>3. ASSUME NEW A \in small \cup large PROVE A \in SUBSET (1 .. n+1)
    BY <2>2
  <2>. HIDE DEF small, large
  <2>. QED
    BY <2>1, <2>3
<1>7. Cardinality(small \cup large) = Cardinality(small) + Cardinality(large) - Cardinality(small \cap large)
  BY <1>2, <1>4, FS_Union
<1>8. Cardinality({}) = 0
  BY FS_EmptySet
<1>. DEFINE p == 2^n  q == 2^(n+1)
<1>9. Cardinality(small) = p /\ Cardinality(SUBSET (1 .. n+1)) = q
  BY <1>2, Zenon
<1>. HIDE DEF small, large, p, q
<1>10. q = Cardinality(small \cup large) /\ Cardinality(large) = p /\ p \in Nat
  BY <1>3, <1>4, <1>6, <1>9, Zenon
<1>11. Cardinality(small \cap large) = 0
  BY <1>5, <1>8, Zenon
<1>12. q = p + p - 0
  BY <1>7, <1>9, <1>10, <1>11, Zenon
<1>13. p \in Nat /\ q = p + p
  BY <1>10, <1>12
<1>. QED
  BY <1>13, Zenon DEF p, q

(* One more crash: a delay below the cap doubles, and what has reached the *)
(* cap stays there.                                                        *)
Grown(n) == LET doubled == BaseDelay * 2 ^ n
            IN  IF n = 0 \/ doubled < MaxDelay THEN doubled ELSE MaxDelay
LEMMA DelayGrows ==
    ASSUME NEW n \in Nat
    PROVE  Doubled(Grown(n)) = Grown(n + 1)
<1>. DEFINE p == 2^n  q == 2^(n+1)
<1>1. p \in Nat /\ q = p + p
  BY PowersOfTwo
<1>2. n = 0 => p = 1
  OBVIOUS
<1>3. /\ Grown(n) = IF n = 0 \/ BaseDelay * p < MaxDelay THEN BaseDelay * p ELSE MaxDelay
      /\ Grown(n + 1) = IF BaseDelay * q < MaxDelay THEN BaseDelay * q ELSE MaxDelay
  BY DEF Grown
<1>4. BaseDelay \in Nat /\ MaxDelay \in Nat
  BY LifecycleAssumption
<1>. HIDE DEF p, q
<1>5. BaseDelay * p \in Nat /\ BaseDelay * q = BaseDelay * p + BaseDelay * p
  BY <1>1, <1>4
<1>. QED
  BY <1>3, <1>4, <1>5 DEF Doubled

(* Whatever the constants are, the lifecycle keeps its shape: the windows  *)
(* need not be in order for that.                                          *)
LEMMA SlotTypeInit == SlotInit => SlotTypeOK
  BY RecoveryInit DEF RecoveryInv

LEMMA SlotTypeStep == SlotTypeOK /\ [SlotNext]_recoveryVars => SlotTypeOK'
<1>. SUFFICES ASSUME SlotTypeOK, [SlotNext]_recoveryVars PROVE SlotTypeOK'
  OBVIOUS
<1>. USE LifecycleAssumption DEF SlotTypeOK
<1>1. CASE HandleCrash
  <2>1. slot'.disabled \in BOOLEAN
    BY <1>1, Zenon DEF HandleCrash, RecordCrashAndCheck
  <2>2. /\ slot'.timestamps \subseteq history' /\ history' \subseteq Stamps
        /\ slot'.total \in Nat /\ slot'.current \in Nat
    BY <1>1 DEF HandleCrash, RecordCrashAndCheck, Recorded, Recent, Doubled, Stamps
  <2>. QED
    BY <1>1, <2>1, <2>2 DEF HandleCrash
<1>2. CASE Recovers
  BY <1>2 DEF Recovers, BackoffReset
<1>3. CASE SlotTick \/ Exits \/ HandshakeFails \/ SpawnFails \/ UNCHANGED recoveryVars
  BY <1>3 DEF SlotTick, Exits, HandshakeFails, SpawnFails, recoveryVars
<1>. QED
  BY <1>1, <1>2, <1>3 DEF SlotNext

(* The delay and the observer that counts the crashes of a streak keep     *)
(* step; a crash that disables the slot moves neither, and there is none   *)
(* after it.                                                               *)
DelayInv == slot.current = Grown(fails) /\ (slot.disabled => status = "disabled")

LEMMA DelayStep == SlotTypeOK /\ DelayInv /\ [SlotNext]_recoveryVars => DelayInv'
<1>. SUFFICES ASSUME SlotTypeOK, DelayInv, [SlotNext]_recoveryVars PROVE DelayInv'
  OBVIOUS
<1>. USE DEF DelayInv
<1>1. Grown(0) = BaseDelay
  BY LifecycleAssumption DEF Grown
<1>2. CASE HandleCrash
  <2>. DEFINE loop == IsCrashLoop(Recorded(slot.timestamps, slot.total + 1, clock), clock)
  <2>1. slot'.current = (IF loop THEN slot.current ELSE Doubled(slot.current)) /\ (slot'.disabled = (slot.disabled \/ loop))
    BY <1>2 DEF HandleCrash, RecordCrashAndCheck
  <2>2. \/ slot'.disabled /\ status' = "disabled" /\ UNCHANGED <<wake, fails>>
        \/ ~slot'.disabled /\ fails' = fails + 1
    BY <1>2, Zenon DEF HandleCrash
  <2>3. status = "exited"
    BY <1>2 DEF HandleCrash
  <2>. HIDE DEF loop
  <2>4. CASE loop
    <3>1. slot'.disabled /\ slot'.current = slot.current
      BY <2>1, <2>4
    <3>. QED
      BY <2>2, <3>1 DEF Grown
  <2>5. CASE ~loop
    <3>1. slot'.disabled <=> slot.disabled \/ loop
      BY <2>1, Zenon
    <3>2. ~slot'.disabled /\ fails' = fails + 1 /\ fails \in Nat
      BY <2>2, <2>5, <2>3, <3>1 DEF SlotTypeOK
    <3>3. slot'.current = Doubled(Grown(fails))
      BY <2>1, <2>5
    <3>4. slot'.current = Grown(fails')
      BY <3>2, <3>3, DelayGrows
    <3>. QED
      BY <3>2, <3>4 DEF Grown
  <2>. QED
    BY <2>4, <2>5
<1>3. CASE Recovers
  BY <1>1, <1>3 DEF Recovers, BackoffReset, SlotTypeOK
<1>4. CASE SlotTick \/ Exits \/ HandshakeFails \/ SpawnFails \/ UNCHANGED recoveryVars
  BY <1>4 DEF SlotTick, Exits, HandshakeFails, SpawnFails, recoveryVars
<1>. QED
  BY <1>2, <1>3, <1>4 DEF SlotNext

(* Whatever the delays, limits and windows are, the parts of a slot's      *)
(* lifecycle keep their types, and no time stamp is kept of a crash that   *)
(* was not recorded.                                                       *)
THEOREM SlotTypeCorrect == SlotSpec => []SlotTypeOK
  BY SlotTypeInit, SlotTypeStep, PTL DEF SlotSpec

(* The delay that next_delay hands out is the base delay doubled for every *)
(* crash since the last recovery, capped: nothing but a successful respawn *)
(* resets it, no path resets it twice, and the cap is absorbing.           *)
THEOREM BackoffFollowsFailuresHolds == SlotSpec => []BackoffFollowsFailures
<1>1. SlotInit => DelayInv
  BY LifecycleAssumption DEF SlotInit, NewLifecycle, DelayInv, Grown
<1>2. DelayInv => BackoffFollowsFailures
  BY DEF DelayInv, Grown, BackoffFollowsFailures
<1>3. SlotSpec => []DelayInv
  BY <1>1, SlotTypeInit, SlotTypeStep, DelayStep, PTL DEF SlotSpec
<1>. QED
  BY <1>2, <1>3, PTL
=============================================================================
