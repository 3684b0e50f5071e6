----------------------------- MODULE Supervisor ------------------------------
(***************************************************************************)
(* The supervisor of crates/anyclaw-supervisor: it boots the tools, agents *)
(* and channels managers in that order, looks at their tasks on every      *)
(* health tick, restarts the ones that failed, and shuts all of them down. *)
(*                                                                         *)
(* A manager is a task that runs until its token is cancelled or it fails; *)
(* what it does meanwhile is another module's business.  What matters here *)
(* is which ends of which channels it was given, so every manager has a    *)
(* generation and every channel end names the generation it reaches.       *)
(***************************************************************************)
EXTENDS SlotLifecycle, Sequences

CONSTANTS
    MaxTime,       \* bound: the clock
    MaxTotal       \* bound: crashes of one manager

ASSUME SupervisorAssumption == {MaxTime, MaxTotal} \subseteq Nat

Managers == {"tools", "agents", "channels"}

MANAGER_ORDER   == <<"tools", "agents", "channels">>

VARIABLES
    phase,         \* boot, run, check, restart, shutdown, wait or exited
    at,            \* position of the loop over the slots
    cancelled,     \* the root token
    now,           \* the clock
    \* per manager slot
    handle,        \* join_handle is Some
    lc,            \* lifecycle
    token,         \* its own token has been cancelled
    task,          \* none, running, ok or failed
    gen,           \* generation of the manager created last
    \* who reaches whom: 0 is nobody
    toolsTx,       \* self.tools_tx
    agentsCmdTx,   \* self.agents_cmd_tx
    agentsTools,   \* the tools handle of the agents manager
    channelsAgents,\* the agents handle of the channels manager
    eventsFrom,    \* the agents manager that holds the event sender
    eventsTo,      \* the channels manager that holds the event receiver
    health,        \* status of the health snapshot
    \* observer
    gaveUp         \* managers whose restart failed in start()

slotVars == <<handle, lc, token, task, gen>>
wireVars == <<toolsTx, agentsCmdTx, agentsTools, channelsAgents, eventsFrom, eventsTo>>
vars == <<phase, at, cancelled, now, slotVars, wireVars, health, gaveUp>>

Current == MANAGER_ORDER[at]

(* The supervisor's own variables; the lifecycle tokens of all slots are   *)
(* children of the root token.                                             *)
Stopped(m) == token[m] \/ cancelled

Init ==
    /\ phase = "boot" /\ at = 1 /\ cancelled = FALSE /\ now = 0
    /\ handle = [m \in Managers |-> FALSE]
    /\ lc = [m \in Managers |-> NewLifecycle]
    /\ token = [m \in Managers |-> FALSE]
    /\ task = [m \in Managers |-> "none"]
    /\ gen = [m \in Managers |-> 0]
    /\ toolsTx = 0 /\ agentsCmdTx = 0 /\ agentsTools = 0 /\ channelsAgents = 0
    /\ eventsFrom = 0 /\ eventsTo = 0
    /\ health = "Healthy" /\ gaveUp = {}

-----------------------------------------------------------------------------
(* create_manager, start and run.                                          *)

(* create_manager for the next generation of m.  Only boot has the ends of *)
(* the event channel to give away.  The tools manager is made together     *)
(* with its command channel; the agents manager makes its own, and only    *)
(* boot takes note of it.                                                  *)
Created(m, boot) ==
    /\ gen' = [gen EXCEPT ![m] = @ + 1]
    /\ toolsTx' = IF m = "tools" THEN gen'[m] ELSE toolsTx
    /\ agentsCmdTx' = IF m = "agents" /\ boot THEN gen'[m] ELSE agentsCmdTx
    /\ agentsTools' = IF m = "agents" THEN toolsTx ELSE agentsTools
    /\ channelsAgents' = IF m = "channels" THEN agentsCmdTx ELSE channelsAgents
    /\ eventsFrom' = IF m = "agents" THEN (IF boot THEN gen'[m] ELSE 0) ELSE eventsFrom
    /\ eventsTo' = IF m = "channels" THEN (IF boot THEN gen'[m] ELSE 0) ELSE eventsTo

(* start() succeeded: run() is spawned.                                    *)
Spawned(m) ==
    /\ handle' = [handle EXCEPT ![m] = TRUE]
    /\ task' = [task EXCEPT ![m] = "running"]

(* The loop goes on to the next slot, or, after the last, to phase next.   *)
Advance(next) ==
    IF at < Len(MANAGER_ORDER)
    THEN at' = at + 1 /\ phase' = IF phase = "restart" THEN "check" ELSE phase
    ELSE at' = 1 /\ phase' = next

BootSlot ==
    /\ phase = "boot"
    /\ Created(Current, TRUE)
    /\ Spawned(Current)
    /\ Advance("run")
    /\ UNCHANGED <<cancelled, now, lc, token, health, gaveUp>>

(* start() failed: what has been booted is shut down.  The start() of the  *)
(* channels manager never fails.                                           *)
BootFails ==
    /\ phase = "boot" /\ Current # "channels"
    /\ Created(Current, TRUE)
    /\ phase' = "shutdown" /\ at' = Len(MANAGER_ORDER)
    /\ UNCHANGED <<cancelled, now, handle, lc, token, task, health, gaveUp>>

-----------------------------------------------------------------------------
(* check_and_restart_managers.                                             *)

HealthTick ==
    /\ phase = "run"
    /\ phase' = "check" /\ at' = 1
    /\ UNCHANGED <<cancelled, now, slotVars, wireVars, health, gaveUp>>

Finished(m) == task[m] \in {"ok", "failed"}

(* refresh_health_snapshot closes the check: the agents count as connected *)
(* while their manager's handle is there.                                  *)
Refresh(connected) ==
    health' = IF phase' = "run" THEN (IF connected THEN "Healthy" ELSE "Degraded")
              ELSE health

(* Mutant of CheckPasses: a failed task passes for one that ended well.    *)
CheckPassesFailed ==
    /\ phase = "check"
    /\ handle' = [handle EXCEPT ![Current] = @ /\ ~Finished(Current)]
    /\ Advance("run")
    /\ Refresh(handle'["agents"])
    /\ UNCHANGED <<cancelled, now, lc, token, task, gen, wireVars, gaveUp>>

(* The slot has no finished task, or one that ended without an error.      *)
CheckPasses ==
    /\ phase = "check"
    /\ \/ /\ ~ (handle[Current] /\ Finished(Current))
          /\ UNCHANGED handle
       \/ /\ handle[Current] /\ task[Current] = "ok"
          /\ handle' = [handle EXCEPT ![Current] = FALSE]
    /\ Advance("run")
    /\ Refresh(handle'["agents"])
    /\ UNCHANGED <<cancelled, now, lc, token, task, gen, wireVars, gaveUp>>

(* A crash loop: without agents or channels the program is of no use.      *)
CheckDisables ==
    /\ phase = "check"
    /\ handle[Current] /\ task[Current] = "failed"
    /\ handle' = [handle EXCEPT ![Current] = FALSE]
    /\ lc' = [lc EXCEPT ![Current] = RecordCrashAndCheck(@, now)]
    /\ lc'[Current].disabled
    /\ cancelled' = (cancelled \/ Current \in {"agents", "channels"})
    /\ Advance("run")
    /\ Refresh(handle'["agents"])
    /\ UNCHANGED <<now, token, task, gen, wireVars, gaveUp>>

(* Mutants of CheckBacksOff: the verdict of the crash tracker is not       *)
(* looked at; a task that is still running is taken for a crashed one.     *)
CheckBacksOffAlways ==
    /\ phase = "check"
    /\ handle[Current] /\ task[Current] = "failed"
    /\ handle' = [handle EXCEPT ![Current] = FALSE]
    /\ lc' = [lc EXCEPT ![Current] = RecordCrashAndCheck(@, now)]
    /\ phase' = "restart"
    /\ UNCHANGED <<at, cancelled, now, token, task, gen, wireVars, health, gaveUp>>
CheckBacksOffRunning ==
    /\ phase = "check"
    /\ handle[Current] /\ task[Current] # "ok" /\ lc[Current].total < MaxTotal
    /\ handle' = [handle EXCEPT ![Current] = FALSE]
    /\ lc' = [lc EXCEPT ![Current] = RecordCrashAndCheck(@, now)]
    /\ ~lc'[Current].disabled
    /\ phase' = "restart"
    /\ UNCHANGED <<at, cancelled, now, token, task, gen, wireVars, health, gaveUp>>

(* A crash: the supervisor sleeps for the backoff delay.                   *)
CheckBacksOff ==
    /\ phase = "check"
    /\ handle[Current] /\ task[Current] = "failed"
    /\ handle' = [handle EXCEPT ![Current] = FALSE]
    /\ lc' = [lc EXCEPT ![Current] = RecordCrashAndCheck(@, now)]
    /\ ~lc'[Current].disabled
    /\ phase' = "restart"
    /\ UNCHANGED <<at, cancelled, now, token, task, gen, wireVars, health, gaveUp>>

Restart ==
    /\ phase = "restart"
    /\ Created(Current, FALSE)
    /\ Spawned(Current)
    /\ token' = [token EXCEPT ![Current] = FALSE]
    /\ Advance("run")
    /\ Refresh(handle'["agents"])
    /\ UNCHANGED <<cancelled, now, lc, gaveUp>>

(* start() failed: the slot keeps its empty handle.                        *)
RestartFails ==
    /\ phase = "restart" /\ Current # "channels"
    /\ Created(Current, FALSE)
    /\ gaveUp' = gaveUp \cup {Current}
    /\ Advance("run")
    /\ Refresh(handle["agents"])
    /\ UNCHANGED <<cancelled, now, handle, lc, token, task>>

-----------------------------------------------------------------------------
(* shutdown_ordered, from the last slot to the first.                      *)

ShutdownBegins ==
    /\ phase = "run" /\ cancelled
    /\ phase' = "shutdown" /\ at' = Len(MANAGER_ORDER)
    /\ UNCHANGED <<cancelled, now, slotVars, wireVars, health, gaveUp>>

(* The slot is dealt with.                                                 *)
Back ==
    IF at > 1 THEN at' = at - 1 /\ phase' = "shutdown"
    ELSE at' = at /\ phase' = "exited"

(* The token is cancelled and the handle, if there is one, is taken.       *)
CancelSlot ==
    /\ phase = "shutdown"
    /\ token' = [token EXCEPT ![Current] = TRUE]
    /\ \/ handle[Current] /\ phase' = "wait" /\ UNCHANGED at
       \/ ~handle[Current] /\ Back
    /\ handle' = [handle EXCEPT ![Current] = FALSE]
    /\ UNCHANGED <<cancelled, now, lc, task, gen, wireVars, health, gaveUp>>

AwaitSlot ==
    /\ phase = "wait" /\ Finished(Current)
    /\ Back
    /\ UNCHANGED <<cancelled, now, slotVars, wireVars, health, gaveUp>>

(* Mutant of AwaitTimesOut: the supervisor waits until the manager ends.   *)
AwaitForEver ==
    /\ phase = "wait" /\ Finished(Current)
    /\ Back
    /\ UNCHANGED <<cancelled, now, slotVars, wireVars, health, gaveUp>>

(* per_manager_timeout elapsed.  abort() is called on the handle that the  *)
(* slot still has, and it has none: the task is left as it is.             *)
AwaitTimesOut ==
    /\ phase = "wait" /\ ~Finished(Current)
    /\ Back
    /\ task' = [task EXCEPT ![Current] = IF handle[Current] THEN "failed" ELSE @]
    /\ UNCHANGED <<cancelled, now, handle, lc, token, gen, wireVars, health, gaveUp>>

-----------------------------------------------------------------------------
(* The environment.                                                        *)

(* SIGTERM or SIGINT, at any time.                                         *)
Signal ==
    /\ ~cancelled /\ phase # "exited"
    /\ cancelled' = TRUE
    /\ UNCHANGED <<phase, at, now, slotVars, wireVars, health, gaveUp>>

Tick ==
    /\ now < MaxTime /\ phase # "exited"
    /\ now' = now + 1
    /\ UNCHANGED <<phase, at, cancelled, slotVars, wireVars, health, gaveUp>>

(* run() sees that its token is cancelled and returns.                     *)
TaskStops(m) ==
    /\ task[m] = "running" /\ Stopped(m)
    /\ task' = [task EXCEPT ![m] = "ok"]
    /\ UNCHANGED <<phase, at, cancelled, now, handle, lc, token, gen, wireVars,
                   health, gaveUp>>

(* run() returns an error or panics.                                       *)
TaskFails(m) ==
    /\ task[m] = "running" /\ lc[m].total < MaxTotal
    /\ task' = [task EXCEPT ![m] = "failed"]
    /\ UNCHANGED <<phase, at, cancelled, now, handle, lc, token, gen, wireVars,
                   health, gaveUp>>

Boots    == BootSlot \/ BootFails
Checks   == CheckPasses \/ CheckDisables \/ CheckBacksOff
Restarts == Restart \/ RestartFails
Awaits   == AwaitSlot \/ AwaitTimesOut

Next ==
    \/ Boots \/ HealthTick \/ Checks \/ Restarts
    \/ ShutdownBegins \/ CancelSlot \/ Awaits
    \/ Signal \/ Tick
    \/ \E m \in Managers : TaskStops(m) \/ TaskFails(m)

Spec == Init /\ [][Next]_vars

(* The supervisor's own task makes progress: start() of the managers, the  *)
(* sleeps and the waits are bounded by timeouts.  select! picks at random  *)
(* among the branches that are ready, and a cancelled token stays          *)
(* cancelled: strong fairness of ShutdownBegins.  Nothing is assumed of    *)
(* the managers, which may hang, and no signal need ever come.             *)
Fairness ==
    /\ WF_vars(Boots) /\ WF_vars(HealthTick) /\ WF_vars(Checks) /\ WF_vars(Restarts)
    /\ SF_vars(ShutdownBegins) /\ WF_vars(CancelSlot) /\ WF_vars(Awaits)

FairSpec == Spec /\ Fairness

-----------------------------------------------------------------------------
(* Properties                                                              *)

Lifecycles ==
    [timestamps : SUBSET [n : Nat, at : Nat], total : Nat, current : Nat,
     disabled : BOOLEAN]

(* The supervisor's variables have the shape of its fields, and the loop   *)
(* over the slots stays inside the slots.                                  *)
TypeOK ==
    /\ phase \in {"boot", "run", "check", "restart", "shutdown", "wait", "exited"}
    /\ at \in 1 .. Len(MANAGER_ORDER)
    /\ cancelled \in BOOLEAN /\ now \in 0 .. MaxTime
    /\ lc \in [Managers -> Lifecycles]
    /\ handle \in [Managers -> BOOLEAN] /\ token \in [Managers -> BOOLEAN]
    /\ task \in [Managers -> {"none", "running", "ok", "failed"}]
    /\ gen \in [Managers -> Nat]
    /\ {toolsTx, agentsCmdTx, agentsTools, channelsAgents, eventsFrom, eventsTo}
         \subseteq Nat
    /\ health \in {"Healthy", "Degraded"}
    /\ gaveUp \subseteq Managers

(* A manager that the crash tracker disabled never runs again.             *)
DisabledStaysDown == \A m \in Managers : lc[m].disabled => task[m] # "running"

(* check_and_restart_managers creates a manager only when its earlier      *)
(* incarnation is over: there are never two of a kind.                     *)
OneIncarnation ==
    [][\A m \in Managers : gen'[m] # gen[m] => task[m] \in {"none", "failed"}]_vars

(* Everyone can reach everyone it talks to.                                *)
Wired ==
    /\ agentsTools = gen["tools"] /\ channelsAgents = gen["agents"]
    /\ eventsFrom = gen["agents"] /\ eventsTo = gen["channels"]

(* Once cancelled by a signal the supervisor exits, even if every manager  *)
(* hangs; a crash loop of the agents or the channels manager ends it too.  *)
ShutdownCompletes ==
    (cancelled \/ lc["agents"].disabled \/ lc["channels"].disabled) ~> phase = "exited"

(* A manager that failed is running again, unless the crash tracker has    *)
(* disabled it, its start() failed or the supervisor is gone.              *)
CrashIsHandled ==
    \A m \in Managers : task[m] = "failed" ~>
        (task[m] = "running" \/ lc[m].disabled \/ m \in gaveUp \/ phase = "exited")

(* docs/design-principles.md: "each can crash and recover independently".  *)
(* When all managers run again they are connected as boot connected them.  *)
RestartedIsWired ==
    (phase = "run" /\ \A m \in Managers : task[m] = "running") => Wired

(* docs/design-principles.md: "Only a crash loop stops retries".  Between  *)
(* two checks a failed manager is disabled or the next check sees it.      *)
OnlyLoopStopsRestarts ==
    phase = "run" => \A m \in Managers :
        task[m] = "failed" => handle[m] \/ lc[m].disabled

(* docs/architecture.md: "On shutdown, channels stop accepting messages    *)
(* first, then agents finish in-flight work, then tools stop".             *)
StopsInReverse ==
    phase \in {"shutdown", "wait"} =>
        \A i, j \in 1 .. Len(MANAGER_ORDER) :
            i < j /\ task[MANAGER_ORDER[i]] = "ok" => task[MANAGER_ORDER[j]] # "running"

(* shutdown.rs: "shutdown timed out, aborting".  When the supervisor is    *)
(* gone every manager has ended or has been aborted.                       *)
TimedOutIsAborted == phase = "exited" => \A m \in Managers : task[m] # "running"
=============================================================================
