---------------------------- MODULE SlotLifecycle ----------------------------
(***************************************************************************)
(* Backoff, crash tracking and the disabled flag of a slot: backoff.rs and *)
(* slot_lifecycle.rs of crates/anyclaw-core.  Every manager of the         *)
(* supervisor, every agent and every channel has one.                      *)
(*                                                                         *)
(* Durations and instants are natural numbers of one unit.  A time stamp   *)
(* carries the number of its crash, so that two crashes at the same        *)
(* instant are two elements of the set that stands for the vector.         *)
(***************************************************************************)
EXTENDS Naturals, FiniteSets

CONSTANTS
    BaseDelay, MaxDelay,      \* ExponentialBackoff: base, max
    MaxCrashes, Window,       \* CrashTracker: max_crashes, window
    LongMax, LongWindow       \* CrashTracker: long_max_crashes, long_window

ASSUME LifecycleAssumption ==
    {BaseDelay, MaxDelay, MaxCrashes, Window, LongMax, LongWindow} \subseteq Nat

NewLifecycle ==
    [timestamps |-> {}, total |-> 0, current |-> BaseDelay, disabled |-> FALSE]

(* The time stamps not older than the window.                              *)
Recent(stamps, now, window) == {s \in stamps : now - s.at < window}

(* Mutant of Recorded: pruned by the short window.                         *)
RecordedShort(stamps, n, now) ==
    Recent(stamps, now, Window) \cup {[n |-> n, at |-> now]}

(* record_crash prunes what is older than the long window.                 *)
Recorded(stamps, n, now) ==
    Recent(stamps, now, LongWindow) \cup {[n |-> n, at |-> now]}

IsCrashLoop(stamps, now) ==
    \/ Cardinality(Recent(stamps, now, Window)) >= MaxCrashes
    \/ Cardinality(Recent(stamps, now, LongWindow)) >= LongMax

(* Mutant of Doubled: the cap is forgotten.                                *)
DoubledUncapped(delay) == delay * 2

(* next_delay returns the current delay and leaves this one behind.        *)
Doubled(delay) == IF delay * 2 < MaxDelay THEN delay * 2 ELSE MaxDelay

(* record_crash_and_check; the delay of RestartAfter is lc.current.        *)
RecordCrashAndCheck(lc, now) ==
    LET stamps == Recorded(lc.timestamps, lc.total + 1, now)
        loop   == IsCrashLoop(stamps, now)
    IN  [timestamps |-> stamps,
         total      |-> lc.total + 1,
         current    |-> IF loop THEN lc.current ELSE Doubled(lc.current),
         disabled   |-> lc.disabled \/ loop]

BackoffReset(lc) == [lc EXCEPT !.current = BaseDelay]
=============================================================================
