---------------------------- MODULE SlotRecovery -----------------------------
(***************************************************************************)
(* The life of one slot as its owner drives it: handle_channel_crash of    *)
(* the channels manager and handle_crash of the agents manager.  The       *)
(* subprocess exits at any time; the crash is recorded; the owner sleeps   *)
(* for the backoff delay and respawns; success resets the backoff.  The    *)
(* crash tracker is never reset.                                           *)
(***************************************************************************)
EXTENDS SlotLifecycle

CONSTANTS
    ExitIsNoticed,  \* an agent slot, where the end of a process whose
                    \* handshake failed is noticed like any other; a channel
                    \* slot forgets such a process
    MaxTicks,       \* bound: the clock
    MaxSlotCrashes  \* bound: crashes of the slot

ASSUME RecoveryAssumption ==
    ExitIsNoticed \in BOOLEAN /\ MaxTicks \in Nat /\ MaxSlotCrashes \in Nat

VARIABLES
    slot,           \* the SlotLifecycle
    clock,          \* the clock
    status,         \* "running", "exited" (not yet noticed), "sleeping"
                    \* before the respawn, "disabled" or "forgotten"
    wake,           \* when the sleep ends
    \* observers
    history,        \* every crash ever recorded
    fails           \* crashes since the backoff was last reset

recoveryVars == <<slot, clock, status, wake, history, fails>>

SlotInit ==
    /\ slot = NewLifecycle
    /\ clock = 0 /\ status = "running" /\ wake = 0
    /\ history = {} /\ fails = 0

SlotTick ==
    /\ clock < MaxTicks
    /\ clock' = clock + 1
    /\ UNCHANGED <<slot, status, wake, history, fails>>

Exits ==
    /\ status = "running"
    /\ status' = "exited"
    /\ UNCHANGED <<slot, clock, wake, history, fails>>

(* The owner takes the exit notice and records the crash.                  *)
HandleCrash ==
    /\ status = "exited" /\ slot.total < MaxSlotCrashes
    /\ slot' = RecordCrashAndCheck(slot, clock)
    /\ history' = history \cup {[n |-> slot.total + 1, at |-> clock]}
    /\ \/ /\ slot'.disabled
          /\ status' = "disabled"
          /\ UNCHANGED <<wake, fails>>
       \/ /\ ~slot'.disabled
          /\ status' = "sleeping"
          /\ wake' = clock + slot.current
          /\ fails' = fails + 1
    /\ UNCHANGED clock

(* The sleep is over; the respawn and its handshake succeed.               *)
Recovers ==
    /\ status = "sleeping" /\ clock >= wake
    /\ status' = "running"
    /\ slot' = BackoffReset(slot)
    /\ fails' = 0
    /\ UNCHANGED <<clock, wake, history>>

(* The process is spawned, the handshake fails, the connection is dropped. *)
HandshakeFails ==
    /\ status = "sleeping" /\ clock >= wake
    /\ status' = IF ExitIsNoticed THEN "exited" ELSE "forgotten"
    /\ UNCHANGED <<slot, clock, wake, history, fails>>

(* The process cannot be spawned.                                          *)
SpawnFails ==
    /\ status = "sleeping" /\ clock >= wake
    /\ status' = "forgotten"
    /\ UNCHANGED <<slot, clock, wake, history, fails>>

SlotNext == SlotTick \/ Exits \/ HandleCrash \/ Recovers \/ HandshakeFails \/ SpawnFails

SlotSpec == SlotInit /\ [][SlotNext]_recoveryVars

-----------------------------------------------------------------------------
(* Properties                                                              *)

Stamps == [n : Nat, at : Nat]

(* The lifecycle of a slot and the clock have the shape of the structs;    *)
(* the time stamps are among the crashes that happened.                    *)
SlotTypeOK ==
    /\ slot.timestamps \subseteq history /\ history \subseteq Stamps
    /\ slot.total \in Nat /\ slot.current \in Nat /\ slot.disabled \in BOOLEAN
    /\ clock \in Nat /\ wake \in Nat /\ fails \in Nat
    /\ status \in {"running", "exited", "sleeping", "disabled", "forgotten"}

(* A crash loop by the book: at crash c, counted over everything that ever *)
(* happened, the short or the long window held too many crashes.           *)
Within(all, c, window) == {h \in all : h.n <= c.n /\ c.at < h.at + window}
LoopAt(all, c) ==
    \/ Cardinality(Within(all, c, Window)) >= MaxCrashes
    \/ Cardinality(Within(all, c, LongWindow)) >= LongMax

(* record_crash prunes and is_crash_loop counts what is left: together     *)
(* they disable a slot exactly when its whole history contains a loop.     *)
DisabledIffLoop == slot.disabled <=> \E c \in history : LoopAt(history, c)

(* The delay before the next respawn is the base delay, doubled for every  *)
(* crash since the last recovery and capped.                               *)
BackoffFollowsFailures ==
    LET doubled == BaseDelay * 2 ^ fails
    IN  slot.current = IF fails = 0 \/ doubled < MaxDelay THEN doubled ELSE MaxDelay

(* anyclaw-config types.rs:205: "the backoff will never exceed this".      *)
DelayNeverExceedsMax == [][wake' # wake => wake' - clock <= MaxDelay]_recoveryVars

(* anyclaw-config types.rs:232: "Rolling window in seconds over which      *)
(* crashes are counted".  Every crash inside the window is counted.        *)
WholeWindowCounted ==
    Recent(slot.timestamps, clock, Window) = Recent(history, clock, Window)

(* docs/design-principles.md:7: "Only a crash loop stops retries".         *)
OnlyLoopStopsRetries == status = "forgotten" => slot.disabled
=============================================================================
